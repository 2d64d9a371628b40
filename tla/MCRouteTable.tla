---------------------------- MODULE MCRouteTable ----------------------------
(***************************************************************************)
(* Instances of RouteTable for TLC: keys u1 and u2 belong to one UDP       *)
(* socket each, key c to a TCP connection.                                 *)
(***************************************************************************)
EXTENDS RouteTable

CONSTANTS a, b, u1, u2, c, socket1, socket2, connection

MCTunnelOf == [k \in Keys |-> CASE k = u1 -> socket1
                                [] k = u2 -> socket2
                                [] OTHER -> connection]

\* The two peers are interchangeable in every safety property.
PeerSymmetry == Permutations(Ids)

\* The maps or a half-done operation know of id and key together.
Concerns(id, key) ==
    \/ HasKey(RoutesOf(id), key)
    \/ route_key_time[<<id, key>>] # NoTime
    \/ route_key_owner[key] = id
    \/ LET now == task[TunnelOf[key]]
       IN  now.op \in {"ping", "drop"} /\ now.id = id

\* The bound of the live run: at any moment only one peer, or only one key, is
\* concerned.  Every action but the arrival of a packet only makes fewer pairs
\* concern each other, so the bound never stops an action that is fair.
OnePeerOrKey ==
    \/ \E id \in Ids : \A o \in Ids \ {id}, key \in Keys : ~Concerns(o, key)
    \/ \E key \in Keys : \A k \in Keys \ {key}, id \in Ids : ~Concerns(id, k)

LiveSpec == Init /\ [][Next /\ OnePeerOrKey']_vars /\ Fairness
=============================================================================

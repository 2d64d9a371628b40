------------------------------ MODULE Outbound ------------------------------
(***************************************************************************)
(* Where a packet of this client goes: enhanced_tunnel/outbound.rs decides *)
(* by the destination, tunnel_core/outbound.rs between a route to the peer *)
(* and a server, tunnel_core/server/outbound.rs among the servers.  The    *)
(* choices are functions of what ServerInfo knows and of the routes, given *)
(* here as the kind of the first route of every peer.  A packet becomes a  *)
(* set of copies, each handed to a peer or to the queue of a server, with  *)
(* the clients it is meant for.  Headers, compression and encryption do    *)
(* not change the choice and are left out.                                 *)
(***************************************************************************)
EXTENDS ServerInfo

CONSTANTS
    MaxDirect,  \* peers a broadcast is sent to directly (16 in the code)
    UnknownRtt, \* rtt a broadcast assumes for a server that has shown none
    Outside,    \* destinations outside the network
    NoHost,     \* no such host
    SubnetRoute \* outside destination -> the peer its subnet is routed to

\* The hosts are those the lists, which a Vec and a HashMap hold, can name.
ASSUME OutboundAssumption ==
    /\ IsFiniteSet(Hosts)
    /\ MaxDirect \in Nat
    /\ UnknownRtt \in Nat
    /\ Outside \cap Hosts = {}
    /\ NoHost \notin Hosts
    /\ SubnetRoute \in [Outside -> Hosts \cup {NoHost}]

RouteKinds == {"none", "relay", "direct"}

Online(nodes, s) == {h \in Hosts : nodes[s][h] = "online"}
OnlineAnywhere(nodes) == UNION {Online(nodes, s) : s \in Servers}
client_online_ips == {h \in Hosts : listed[h] = "online"}

-----------------------------------------------------------------------------
\* Servers of smallest rtt among the candidates; an unknown rtt is largest.
\* HashMap order decides between equals.
Nearest(candidates) ==
    {s \in candidates :
        rtt[s] # NoRtt => \A t \in candidates : rtt[t] # NoRtt => rtt[s] <= rtt[t]}
    \ {s \in candidates : rtt[s] = NoRtt /\ \E t \in candidates : rtt[t] # NoRtt}

find_connected_server == Nearest({s \in Servers : connected[s]})

find_ip_to_server(h) ==
    Nearest({s \in Servers : connected[s] /\ clients[s][h] = "online"})

\* A copy for the clients in for, handed to a peer or to a server's queue.
ToPeer(h) == [via |-> "p2p", at |-> h, for |-> {h}]
ToServer(s, for) == [via |-> "server", at |-> s, for |-> for]

\* ServerOutbound::send_raw; send and send_expired choose alike: a server that
\* lists the peer, and an error when there is none.
server_send_raw(h) == {ToServer(s, {h}) : s \in find_ip_to_server(h)}

\* A request to one server: only while it is connected.
send_to_gateway_expired(s) == IF connected[s] THEN {ToServer(s, {})} ELSE {}

\* BasicOutbound::send_raw: the route to the peer when there is one.
send_raw(h, kind) == IF kind[h] # "none" THEN {ToPeer(h)} ELSE server_send_raw(h)

\* The same choice, made after encryption.
send_encrypted_packet(h, kind) == send_raw(h, kind)

\* What the QUIC layer sends.
outbound_raw(h, kind) == send_raw(h, kind)

\* Broadcasting: the peers reached directly are any of the online ones that
\* have a direct route and whose socket takes the packet, up to MaxDirect.
p2p_broadcast(list, kind) ==
    {d \in SUBSET {h \in list : kind[h] = "direct"} : Cardinality(d) <= MaxDirect}

AssumedRtt(s) == IF rtt[s] = NoRtt THEN UnknownRtt ELSE rtt[s]

\* The main servers to choose from: most clients per round trip time.
MainServers(nodes) ==
    {s \in Servers : \A t \in Servers :
        Cardinality(Online(nodes, t)) * (AssumedRtt(s) + 1)
            <= Cardinality(Online(nodes, s)) * (AssumedRtt(t) + 1)}

\* Mistaken variant of TargetIps: a client of two secondary servers is left
\* to the other one by both.
TargetIps_once(nodes, main, s, exclude) ==
    Online(nodes, s) \ (exclude \cup UNION {Online(nodes, t) : t \in Servers \ {s}})

\* What a secondary server is asked to reach.
TargetIps(nodes, main, s, exclude) == Online(nodes, s) \ (Online(nodes, main) \cup exclude)

\* The main server passes the packet to all it knows but those reached already;
\* with none to leave out (send_direct) the packet goes as it is.
send_exclude_broadcast(nodes, main, exclude) == {ToServer(main, Online(nodes, main) \ exclude)}

send_target_broadcast(nodes, main, exclude) ==
    {ToServer(s, TargetIps(nodes, main, s, exclude)) :
        s \in {t \in Servers \ {main} : TargetIps(nodes, main, t, exclude) # {}}}

\* Mistaken variant of send_raw_broadcast: only the main server is asked.
send_raw_broadcast_main(nodes, main, exclude) == send_exclude_broadcast(nodes, main, exclude)

\* With one server or with no client anywhere the same formula sends to that
\* server, or nothing.
send_raw_broadcast(nodes, main, exclude) ==
    IF Online(nodes, main) = {} THEN {}
    ELSE send_exclude_broadcast(nodes, main, exclude)
            \cup send_target_broadcast(nodes, main, exclude)

\* Every way a broadcast can be split.  Nothing goes to a server when all that
\* are listed were reached directly.
ipv4_broadcast_outbound(kind) ==
    {LET direct == {ToPeer(h) : h \in d}
     IN  IF d # {} /\ d = client_online_ips THEN direct
         ELSE direct \cup send_raw_broadcast(clients, main, d) :
       d \in p2p_broadcast(client_online_ips, kind), main \in MainServers(clients)}

\* A destination outside the network is replaced by the peer its subnet is
\* routed to; without a subnet route the packet is dropped.
ipv4_outbound(h, kind) ==
    LET dest == IF h \in Outside THEN SubnetRoute[h] ELSE h
    IN  IF dest = NoHost THEN {} ELSE send_encrypted_packet(dest, kind)

\* The gateway is any connected server of smallest rtt.
send_default_raw == {ToServer(s, {}) : s \in find_connected_server}
ipv4_gateway_outbound == send_default_raw

-----------------------------------------------------------------------------
Copies(split, h) == {c \in split : h \in c.for}

\* However a broadcast is split between direct routes and servers, every
\* client some server lists as online has a copy addressed to it, and one that
\* was reached directly has only that one.  Others receive it twice only when
\* two servers list them and neither is the main one of this broadcast.  (The
\* list agrees with the nodes unless clear() is under way.)
BroadcastReachesAll ==
    clearing # "no" \/
    \A h \in OnlineAnywhere(clients), kind \in [Hosts -> RouteKinds] :
        \A split \in ipv4_broadcast_outbound(kind) :
            /\ Copies(split, h) # {}
            /\ (\E c \in split : c.via = "p2p" /\ c.at = h) => Cardinality(Copies(split, h)) = 1
            /\ Cardinality(Copies(split, h)) > 1 =>
                   \E s, t \in Servers : s # t /\ h \in Online(clients, s) \cap Online(clients, t)
                       /\ \E u \in Servers \ {s, t} : h \notin Online(clients, u)

\* The main server is chosen from all servers, connected or not.  A client that
\* a connected server lists is handed to none but disconnected servers only
\* when the main server is one of them and lists that client too.
MissedOnlyBehindMain ==
    \A main \in MainServers(clients) : \A h \in Hosts :
        LET copies == Copies(send_raw_broadcast(clients, main, {}), h)
        IN  (\E s \in Servers : connected[s] /\ h \in Online(clients, s))
            /\ (\A c \in copies : ~connected[c.at])
                => ~connected[main] /\ h \in Online(clients, main)
=============================================================================

----------------------------- MODULE RouteTable -----------------------------
(***************************************************************************)
(* The peer-to-peer route table of one client                              *)
(* (vnt-core/src/tunnel_core/p2p/route_table.rs) with the tasks that drive *)
(* it: the receive loop of every tunnel (p2p/inbound.rs, one loop per UDP  *)
(* socket and one per TCP connection), and the task that times routes out  *)
(* (p2p/transport/task.rs).                                                *)
(*                                                                         *)
(* The code keeps three maps under three locks.  An action here is one     *)
(* section that no other access to the same maps can split: an insertion   *)
(* holds the table lock from start to end, the timeout holds the time lock *)
(* alone for its first half and the table lock alone for its second, and   *)
(* add_route_if_absent and tcp_disconnect read under one lock, release it  *)
(* and write under another.                                                *)
(*                                                                         *)
(* A tunnel handles its packets one after the other, so two packets from   *)
(* the same route key are never handled at once; packets of two keys are,  *)
(* when the keys belong to two tunnels.                                    *)
(***************************************************************************)
EXTENDS Integers, SequencesExt

CONSTANTS
    Ids,          \* virtual addresses of peers
    Keys,         \* route keys: a socket and a remote address
    Tunnels,      \* receive loops
    TunnelOf,     \* the receive loop that owns a key
    TcpTunnels,   \* those that carry one TCP connection
    Rtts,         \* round-trip times a Pong may show
    DefaultRtt,   \* rust_p2p_core's DEFAULT_RTT
    PingMetrics,  \* hop counts a Ping may arrive with
    PongMetrics,  \* hop counts a Pong may arrive with
    MaxAge,       \* age at which a route is expired, in ticks (10 s)
    NoList, NoId, NoTime   \* absence in the table, owner and time maps

Route == [key : Keys, metric : Nat, rtt : Nat]

ASSUME RouteTableAssumption ==
    /\ TunnelOf \in [Keys -> Tunnels]
    /\ TcpTunnels \subseteq Tunnels
    /\ \A t \in TcpTunnels : \A k, l \in Keys :
          TunnelOf[k] = t /\ TunnelOf[l] = t => k = l
    /\ Rtts \subseteq Nat
    /\ DefaultRtt \in Nat
    /\ PingMetrics \subseteq Nat \ {0}
    /\ PongMetrics \subseteq Nat \ {0}
    /\ MaxAge \in Nat \ {0}
    /\ NoList \notin Seq(Route)
    /\ NoId \notin Ids
    /\ NoTime \notin Nat

VARIABLES
    route_table,      \* id -> list of routes, best first, or NoList
    route_key_owner,  \* key -> the id it was opened for, or NoId
    route_key_time,   \* (id, key) -> ticks since the last refresh, or NoTime
    expired_keys,     \* what the timeout task has taken out of the time map
                      \* and not yet out of the table
    sweep_holds_locks,\* the timeout task is inside its loop over expired_keys
    task,             \* tunnel -> the half-done operation of its loop
    silent            \* keys from which no packet will arrive any more

maps == <<route_table, route_key_owner, route_key_time>>
vars == <<maps, expired_keys, sweep_holds_locks, task, silent>>

Pairs == Ids \X Keys
Idle == [op |-> "idle"]
Ended == [op |-> "ended"]
Task == {Idle, Ended} \cup [op : {"ping"}, id : Ids, route : Route]
               \cup [op : {"drop"}, id : Ids, key : Keys]

TypeOK ==
    /\ route_table \in [Ids -> Seq(Route) \cup {NoList}]
    /\ route_key_owner \in [Keys -> Ids \cup {NoId}]
    /\ route_key_time \in [Pairs -> (0..MaxAge) \cup {NoTime}]
    /\ expired_keys \subseteq Pairs
    /\ sweep_holds_locks \in BOOLEAN
    /\ task \in [Tunnels -> Task]
    /\ silent \subseteq Keys

Init ==
    /\ route_table = [id \in Ids |-> NoList]
    /\ route_key_owner = [k \in Keys |-> NoId]
    /\ route_key_time = [p \in Pairs |-> NoTime]
    /\ expired_keys = {}
    /\ sweep_holds_locks = FALSE
    /\ task = [t \in Tunnels |-> Idle]
    /\ silent = {}

-----------------------------------------------------------------------------
(* Lists of routes. A list holds a key at most once (UniqueKeys below), so *)
(* retaining the other keys takes out one element at most.                 *)

is_direct(route) == route.metric = 1

HasKey(list, key) == \E i \in DOMAIN list : list[i].key = key

Position(list, key) == CHOOSE i \in DOMAIN list : list[i].key = key

Without(list, key) ==
    IF HasKey(list, key) THEN RemoveAt(list, Position(list, key)) ELSE list

\* Mistaken variant: a new route always goes last.
InsertPosition_last(list, rtt) == Len(list) + 1

\* The index at which a new route goes: before the first slower one.
InsertPosition(list, rtt) ==
    CHOOSE p \in 1..(Len(list) + 1) :
        /\ \A j \in 1..(p - 1) : rtt >= list[j].rtt
        /\ p <= Len(list) => rtt < list[p].rtt

\* Where a route that stands at idx comes to rest when its rtt changes: it
\* moves forward over slower neighbours, or else backward over faster ones.
RestPosition(list, idx, rtt) ==
    CHOOSE p \in DOMAIN list :
        \/ /\ p < idx
           /\ \A j \in p..(idx - 1) : rtt < list[j].rtt
           /\ p > 1 => rtt >= list[p - 1].rtt
        \/ /\ p >= idx
           /\ idx > 1 => rtt >= list[idx - 1].rtt
           /\ \A j \in (idx + 1)..p : rtt > list[j].rtt
           /\ p < Len(list) => rtt <= list[p + 1].rtt

Placed(list, route) ==
    IF HasKey(list, route.key)
    THEN LET idx == Position(list, route.key)
         IN  InsertAt(RemoveAt(list, idx),
                      RestPosition(list, idx, route.rtt), route)
    ELSE InsertAt(list, InsertPosition(list, route.rtt), route)

RoutesOf(id) == IF route_table[id] = NoList THEN <<>> ELSE route_table[id]

\* HashMap::remove of a list that became empty.
NonEmpty(list) == IF list = <<>> THEN NoList ELSE list

get_route_by_id(id) == Head(route_table[id])

-----------------------------------------------------------------------------
(* The operations on the maps.                                             *)

\* Mistaken variant: a route is pushed whether or not the key is there.
add_owner_route_again(id, key) ==
    /\ route_key_owner' = [route_key_owner EXCEPT ![key] = id]
    /\ route_key_time' = [route_key_time EXCEPT ![<<id, key>>] = 0]
    /\ route_table' = [route_table EXCEPT ![id] =
          Append(RoutesOf(id), [key |-> key, metric |-> 1, rtt |-> DefaultRtt])]

add_owner_route(id, key) ==
    /\ route_key_owner' = [route_key_owner EXCEPT ![key] = id]
    /\ route_key_time' = [route_key_time EXCEPT ![<<id, key>>] = 0]
    /\ route_table' = [route_table EXCEPT ![id] =
          IF HasKey(RoutesOf(id), key)
          THEN RoutesOf(id)
          ELSE Append(RoutesOf(id),
                      [key |-> key, metric |-> 1, rtt |-> DefaultRtt])]

\* Mistaken variant: only routes that are already known get a time.
add_route_untimed(id, route) ==
    /\ route_key_owner' = [route_key_owner EXCEPT ![route.key] = id]
    /\ route_key_time' =
          IF HasKey(RoutesOf(id), route.key)
          THEN [route_key_time EXCEPT ![<<id, route.key>>] = 0] ELSE route_key_time
    /\ route_table' = [route_table EXCEPT ![id] = Placed(RoutesOf(id), route)]

add_route(id, route) ==
    \/ /\ ~is_direct(route)
       /\ route_table[id] = NoList
       /\ UNCHANGED maps
    \/ /\ is_direct(route) \/ route_table[id] # NoList
       /\ route_key_owner' =
             IF is_direct(route) /\ route_key_owner[route.key] = NoId
             THEN [route_key_owner EXCEPT ![route.key] = id]
             ELSE route_key_owner
       /\ route_key_time' = [route_key_time EXCEPT ![<<id, route.key>>] = 0]
       /\ route_table' =
             [route_table EXCEPT ![id] = Placed(RoutesOf(id), route)]

\* Mistaken variant: the owner entry stays.
remove_route_owned(id, key) ==
    /\ route_table' =
          IF route_table[id] = NoList THEN route_table
          ELSE [route_table EXCEPT ![id] = NonEmpty(Without(@, key))]
    /\ route_key_time' = [route_key_time EXCEPT ![<<id, key>>] = NoTime]
    /\ UNCHANGED route_key_owner

remove_route(id, key) ==
    /\ route_table' =
          IF route_table[id] = NoList THEN route_table
          ELSE [route_table EXCEPT ![id] = NonEmpty(Without(@, key))]
    /\ route_key_owner' =
          IF route_key_owner[key] = id
          THEN [route_key_owner EXCEPT ![key] = NoId] ELSE route_key_owner
    /\ route_key_time' = [route_key_time EXCEPT ![<<id, key>>] = NoTime]

-----------------------------------------------------------------------------
(* Packets, handled by the loop of the tunnel that owns their key.         *)

Receives(key) ==
    /\ key \notin silent
    /\ task[TunnelOf[key]] = Idle
    /\ ~sweep_holds_locks

\* PunchReq and PunchRes: the peer's packet came straight through.
PunchArrives(id, key) ==
    /\ Receives(key)
    /\ add_owner_route(id, key)
    /\ UNCHANGED <<expired_keys, sweep_holds_locks, task, silent>>

PongArrives(id, key, metric, rtt) ==
    /\ Receives(key)
    /\ add_route(id, [key |-> key, metric |-> metric, rtt |-> rtt])
    /\ UNCHANGED <<expired_keys, sweep_holds_locks, task, silent>>

\* Mistaken variant of PingArrives: the list of the id is not looked at.
PingArrives_unchecked(id, key, metric) ==
    /\ Receives(key)
    /\ task' = [task EXCEPT ![TunnelOf[key]] =
          [op |-> "ping", id |-> id,
           route |-> [key |-> key, metric |-> metric, rtt |-> DefaultRtt]]]
    /\ UNCHANGED <<maps, expired_keys, sweep_holds_locks, silent>>

\* add_route_if_absent, first half: the id has no list. When it has one the
\* Ping changes nothing.
PingArrives(id, key, metric) ==
    /\ Receives(key)
    /\ route_table[id] = NoList
    /\ task' = [task EXCEPT ![TunnelOf[key]] =
          [op |-> "ping", id |-> id,
           route |-> [key |-> key, metric |-> metric, rtt |-> DefaultRtt]]]
    /\ UNCHANGED <<maps, expired_keys, sweep_holds_locks, silent>>

\* add_route_if_absent, second half, after the read lock was released.
PingAdds(t) ==
    /\ task[t].op = "ping"
    /\ ~sweep_holds_locks
    /\ add_route(task[t].id, task[t].route)
    /\ task' = [task EXCEPT ![t] = Idle]
    /\ UNCHANGED <<expired_keys, sweep_holds_locks, silent>>

\* A TCP tunnel ends: tcp_disconnect looks the owner of its key up.
TcpCloses(key) ==
    /\ TunnelOf[key] \in TcpTunnels
    /\ task[TunnelOf[key]] = Idle
    /\ ~sweep_holds_locks
    /\ silent' = silent \cup {key}
    /\ task' = [task EXCEPT ![TunnelOf[key]] =
          IF route_key_owner[key] = NoId THEN Ended
          ELSE [op |-> "drop", id |-> route_key_owner[key], key |-> key]]
    /\ UNCHANGED <<maps, expired_keys, sweep_holds_locks>>

\* ... and removes the owner's route.
TcpRemoves(t) ==
    /\ task[t].op = "drop"
    /\ ~sweep_holds_locks
    /\ remove_route(task[t].id, task[t].key)
    /\ task' = [task EXCEPT ![t] = Ended]
    /\ UNCHANGED <<expired_keys, sweep_holds_locks, silent>>

\* The remote end of a key goes away, or its NAT mapping does.
Silence(key) ==
    /\ silent' = silent \cup {key}
    /\ UNCHANGED <<maps, expired_keys, sweep_holds_locks, task>>

-----------------------------------------------------------------------------
(* The timeout task, and time.                                             *)

\* remove_oldest_route, under the time lock.
SweepCollects ==
    /\ expired_keys = {}
    /\ expired_keys' =
          {p \in Pairs : route_key_time[p] # NoTime /\ route_key_time[p] >= MaxAge}
    /\ route_key_time' = [p \in Pairs |->
          IF p \in expired_keys' THEN NoTime ELSE route_key_time[p]]
    /\ UNCHANGED <<route_table, route_key_owner, sweep_holds_locks, task, silent>>

\* Mistaken variant of SweepRetains: only the owner's route is taken out.
SweepRetains_owned(id, key) ==
    /\ <<id, key>> \in expired_keys
    /\ expired_keys' = expired_keys \ {<<id, key>>}
    /\ sweep_holds_locks' = (expired_keys' # {})
    /\ IF route_key_owner[key] = id
       THEN /\ route_table' = [route_table EXCEPT ![id] =
                   NonEmpty(Without(RoutesOf(id), key))]
            /\ route_key_owner' = [route_key_owner EXCEPT ![key] = NoId]
       ELSE UNCHANGED <<route_table, route_key_owner>>
    /\ UNCHANGED <<route_key_time, task, silent>>

\* remove_oldest_route, one turn of the loop under the table and owner locks,
\* which stay held until the last expired pair has been dealt with.
SweepRetains(id, key) ==
    /\ <<id, key>> \in expired_keys
    /\ expired_keys' = expired_keys \ {<<id, key>>}
    /\ sweep_holds_locks' = (expired_keys' # {})
    /\ route_table' =
          IF route_table[id] = NoList THEN route_table
          ELSE [route_table EXCEPT ![id] = NonEmpty(Without(@, key))]
    /\ route_key_owner' =
          IF route_key_owner[key] = id
          THEN [route_key_owner EXCEPT ![key] = NoId] ELSE route_key_owner
    /\ UNCHANGED <<route_key_time, task, silent>>

Tick ==
    /\ route_key_time' = [p \in Pairs |->
          IF route_key_time[p] \in 0..(MaxAge - 1)
          THEN route_key_time[p] + 1 ELSE route_key_time[p]]
    /\ UNCHANGED <<route_table, route_key_owner, expired_keys, sweep_holds_locks,
                   task, silent>>

-----------------------------------------------------------------------------
Next ==
    \/ \E id \in Ids, key \in Keys : PunchArrives(id, key)
    \/ \E id \in Ids, key \in Keys, m \in PongMetrics, rtt \in Rtts :
          PongArrives(id, key, m, rtt)
    \/ \E id \in Ids, key \in Keys, m \in PingMetrics : PingArrives(id, key, m)
    \/ \E t \in Tunnels : PingAdds(t)
    \/ \E key \in Keys : TcpCloses(key)
    \/ \E t \in Tunnels : TcpRemoves(t)
    \/ \E key \in Keys : Silence(key)
    \/ SweepCollects
    \/ \E id \in Ids, key \in Keys : SweepRetains(id, key)
    \/ Tick

Spec == Init /\ [][Next]_vars

\* Time passes, the timeout task wakes every ten seconds, and a tunnel that
\* waits for a lock gets it: the locks (parking_lot) are released after a
\* bounded amount of work and hand over fairly, so a waiter that finds them
\* free again and again is let in.
Fairness ==
    /\ WF_vars(Tick)
    /\ WF_vars(SweepCollects)
    /\ WF_vars(\E id \in Ids, key \in Keys : SweepRetains(id, key))
    /\ \A t \in Tunnels : SF_vars(PingAdds(t)) /\ SF_vars(TcpRemoves(t))

FairSpec == Spec /\ Fairness

-----------------------------------------------------------------------------
(* Properties.                                                             *)

KeysOnce(list) == \A i, j \in DOMAIN list : list[i].key = list[j].key => i = j

Sorted(list) == \A i, j \in DOMAIN list : i <= j => list[i].rtt <= list[j].rtt

\* No route is immortal: whatever order insertions, disconnects and the two
\* halves of remove_oldest_route run in, a route in the table has a time
\* entry by which it will expire, or the timeout task is about to remove it.
NoImmortalRoute ==
    \A id \in Ids, key \in Keys : HasKey(RoutesOf(id), key) =>
        route_key_time[<<id, key>>] # NoTime \/ <<id, key>> \in expired_keys

\* The owner that tcp_disconnect looks up for a key is a peer with a route
\* over that key, so the removal it leads to removes something.
OwnerRouted ==
    \A id \in Ids, key \in Keys :
        route_key_owner[key] = id => HasKey(RoutesOf(id), key)

\* A list holds a key once, and an id without routes has no list: exists(),
\* contains_key() and p2p_num() would otherwise disagree for ever.
ListsWellFormed ==
    \A id \in Ids : route_table[id] # <<>> /\ KeysOnce(RoutesOf(id))

\* get_route_by_id returns a route with the least round-trip time known for
\* the id, after any mix of punches, measurements and removals.
BestRouteFirst ==
    \A id \in Ids : route_table[id] # NoList =>
        \A i \in DOMAIN route_table[id] :
            get_route_by_id(id).rtt <= route_table[id][i].rtt

\* While a Ping is between its test and its insertion no one else can add the
\* route it is about to add, since the key belongs to its own tunnel.
PingStillAbsent ==
    \A t \in Tunnels : task[t].op = "ping" =>
        /\ TunnelOf[task[t].route.key] = t
        /\ task[t].route.rtt = DefaultRtt
        /\ ~HasKey(RoutesOf(task[t].id), task[t].route.key)

\* The inductive invariant: what each of its parts needs of the others.
IInv ==
    /\ TypeOK
    /\ NoImmortalRoute
    /\ OwnerRouted
    /\ ListsWellFormed
    /\ PingStillAbsent

\* ... and the part that keeps the fastest route first, which needs every
\* measurement to be at most the default that unmeasured routes carry.
OrderInv ==
    \A id \in Ids :
        /\ Sorted(RoutesOf(id))
        /\ \A r \in ToSet(RoutesOf(id)) : r.rtt <= DefaultRtt

\* add_route_if_absent releases its lock between test and insertion; still a
\* Ping never replaces a route, in particular not a measured one by the
\* default round-trip time.
PingOnlyAdds ==
    [][\A t \in Tunnels : task[t].op = "ping" /\ task'[t] = Idle =>
          \A id \in Ids : ToSet(RoutesOf(id)) \subseteq ToSet(RoutesOf(id)')]_vars

\* When nothing more arrives over a key, every route over it and its owner
\* entry go away for good, whatever was half done when it fell silent.
SilentKeyForgotten ==
    \A key \in Keys :
        (key \in silent) ~>
            [](/\ route_key_owner[key] = NoId
               /\ \A id \in Ids : ~HasKey(RoutesOf(id), key))

\* "Remove expired routes" (route_table.rs:155): what the timeout removes has
\* not been refreshed since it was found expired.
SweepRemovesExpiredOnly ==
    [][\A p \in expired_keys : p \notin expired_keys' =>
          route_key_time[p] = NoTime]_vars
=============================================================================

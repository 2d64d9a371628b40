-------------------------------- MODULE Mesh --------------------------------
(***************************************************************************)
(* Direct routes between clients: how they are punched through a server    *)
(* (transport/punch.rs, the punch messages of server/inbound.rs, the       *)
(* back-off in context/nat.rs), kept by pings, probed through other        *)
(* clients (transport/task.rs) and used for forwarding (p2p/inbound.rs).   *)
(* A route is the neighbour its packets go to and a metric; rtts, which    *)
(* order the routes of a peer, are left to RouteTable: here the first      *)
(* route is any.  Packets are lost, repeated and reordered.                *)
(***************************************************************************)
EXTENDS Integers, FiniteSets

CONSTANTS
    Nodes,      \* the clients, numbered as their addresses are ordered
    Links,      \* pairs <<n, m>>: what n sends to an address of m can arrive
    DataTtl,    \* ttl of the packets of the user (5 in the code)
    MaxInFlight,\* bound on the packets in flight
    MaxHalves   \* bound on the Pings between their halves at a node

ASSUME MeshAssumption ==
    /\ Nodes \subseteq Nat
    /\ Links \subseteq Nodes \X Nodes
    /\ DataTtl \in 1 .. 15
    /\ MaxInFlight \in Nat
    /\ MaxHalves \in Nat

VARIABLES
    routes,     \* node -> peer -> its routes [via, metric]
    resting,    \* node -> peers whose back-off is running
    checked,    \* node -> the Pings whose sender was seen to be absent
    flight      \* packets in flight

mesh_vars == <<routes, resting, checked, flight>>

MeshInit ==
    /\ routes = [n \in Nodes |-> [m \in Nodes |-> {}]]
    /\ resting = [n \in Nodes |-> {}]
    /\ checked = [n \in Nodes |-> {}]
    /\ flight = {}

-----------------------------------------------------------------------------
\* A packet between neighbours; hops counts the links it was sent over.
Packet(type, src, dest, ttl, from, to) ==
    [type |-> type, src |-> src, dest |-> dest, max |-> ttl, ttl |-> ttl,
     from |-> from, to |-> to, hops |-> 1]

\* A punch message, which a server passes on.
Turned(type, src, dest) == Packet(type, src, dest, 2, src, dest)

\* What is sent may be lost at once: where no link carries it, or when as many
\* packets are in flight as the bound allows.
Emit(rest, new) ==
    \E carried \in SUBSET {p \in new : p.type \in {"PunchStart1", "PunchStart2"}
                                      \/ <<p.from, p.to>> \in Links} :
        /\ Cardinality(rest \cup carried) <= MaxInFlight
        /\ flight' = rest \cup carried

\* A packet that is received may come again.
Remaining(p) == {flight, flight \ {p}}

is_direct(r) == r.metric = 1
need_punch(n, m) == \A r \in routes[n][m] : ~is_direct(r)
should_punch(n, m) == m \notin resting[n]

decr_ttl(p) == IF p.ttl = 0 THEN p ELSE [p EXCEPT !.ttl = @ - 1]

\* A route of the same key is replaced.
Entered(list, r) == {o \in list : o.via # r.via} \cup {r}

\* Mistaken variant of add_route: relay routes need no entry.
add_route_always(n, id, r) ==
    routes' = [routes EXCEPT ![n][id] = Entered(@, r)]

\* A relay route is entered only beside others.
add_route(n, id, r) ==
    routes' = IF is_direct(r) \/ routes[n][id] # {}
              THEN [routes EXCEPT ![n][id] = Entered(@, r)] ELSE routes

\* A punched key of the id is kept as it is when there.
add_owner_route(n, id, via) ==
    routes' = IF \E r \in routes[n][id] : r.via = via THEN routes
              ELSE [routes EXCEPT ![n][id] = @ \cup {[via |-> via, metric |-> 1]}]

-----------------------------------------------------------------------------
\* Mistaken variant of punch_task: both sides begin.
punch_task_both(n, m) ==
    /\ n # m
    /\ need_punch(n, m)
    /\ should_punch(n, m)
    /\ Emit(flight, {Turned("PunchStart1", n, m)})
    /\ UNCHANGED <<routes, resting, checked>>

\* Every five seconds, for online peers of a higher address, while a server is
\* connected.
punch_task(n, m) ==
    /\ m > n
    /\ need_punch(n, m)
    /\ should_punch(n, m)
    /\ Emit(flight, {Turned("PunchStart1", n, m)})
    /\ UNCHANGED <<routes, resting, checked>>

\* The asked peer answers and punches, unless it holds back: it looks at the
\* back-off but does not record.
PunchStart1(p) ==
    /\ p.type = "PunchStart1"
    /\ \E rest \in Remaining(p) :
        Emit(rest, IF should_punch(p.to, p.src)
                   THEN {Turned("PunchStart2", p.to, p.src),
                         Packet("PunchReq", p.to, p.src, 1, p.to, p.src)}
                   ELSE {})
    /\ UNCHANGED <<routes, resting, checked>>

\* The answer is recorded and the asker punches, whatever the back-off says.
PunchStart2(p) ==
    /\ p.type = "PunchStart2"
    /\ resting' = [resting EXCEPT ![p.to] = @ \cup {p.src}]
    /\ \E rest \in Remaining(p) :
        Emit(rest, {Packet("PunchReq", p.to, p.src, 1, p.to, p.src)})
    /\ UNCHANGED <<routes, checked>>

BackoffEnds(n) ==
    /\ \E m \in resting[n] : resting' = [resting EXCEPT ![n] = @ \ {m}]
    /\ UNCHANGED <<routes, checked, flight>>

\* The first three routes of every peer.
ping_all(n, m) ==
    /\ \E r \in routes[n][m] : Emit(flight, {Packet("Ping", n, m, 1, n, r.via)})
    /\ UNCHANGED <<routes, resting, checked>>

\* A peer whose first route is not direct is pinged through one whose is.
relay_probe_task(n, m) ==
    /\ n # m
    /\ need_punch(n, m) \/ \E r \in routes[n][m] : ~is_direct(r)
    /\ \E relay \in Nodes \ {m} : \E r \in routes[n][relay] :
        /\ is_direct(r)
        /\ Emit(flight, {Packet("Ping", n, m, 2, n, r.via)})
    /\ UNCHANGED <<routes, resting, checked>>

\* A packet of the user, or of the QUIC layer, to a peer with a route.
SendData(n, m) ==
    /\ \E r \in routes[n][m] : Emit(flight, {Packet("Turn", n, m, DataTtl, n, r.via)})
    /\ UNCHANGED <<routes, resting, checked>>

-----------------------------------------------------------------------------
\* What next_handle_impl gets to see of a packet between neighbours.
AsSeen(p) == decr_ttl(p)
Direct(p) == p.type \notin {"PunchStart1", "PunchStart2"}
ForMe(p) == Direct(p) /\ p.max > AsSeen(p).ttl /\ p.dest = p.to

\* Mistaken variant of Forward: a ttl that has run out does not count.
Forward_expired(p) ==
    /\ Direct(p)
    /\ p.max > AsSeen(p).ttl
    /\ p.dest # p.to
    /\ \E rest \in Remaining(p) :
        \/ \E r \in routes[p.to][p.dest] :
            Emit(rest, {[AsSeen(p) EXCEPT !.from = p.to, !.to = r.via, !.hops = @ + 1]})
        \/ Emit(rest, {})
    /\ UNCHANGED <<routes, resting, checked>>

\* A packet for another node: passed on while the ttl lasts and a route is
\* known, dropped otherwise.
Forward(p) ==
    /\ Direct(p)
    /\ p.max > AsSeen(p).ttl
    /\ p.dest # p.to
    /\ \E rest \in Remaining(p) :
        IF AsSeen(p).ttl >= 1 /\ routes[p.to][p.dest] # {}
        THEN \E r \in routes[p.to][p.dest] :
            Emit(rest, {[AsSeen(p) EXCEPT !.from = p.to, !.to = r.via, !.hops = @ + 1]})
        ELSE Emit(rest, {})
    /\ UNCHANGED <<routes, resting, checked>>

metric(p) == p.max - AsSeen(p).ttl

Pong(p) == Packet("Pong", p.to, p.src, 1, p.to, p.from)

\* add_route_if_absent looks under a lock it gives up; then the Pong.
PingArrives(p) ==
    /\ p.type = "Ping"
    /\ ForMe(p)
    /\ \E rest \in Remaining(p) :
        IF routes[p.to][p.src] = {}
        THEN /\ Cardinality(checked[p.to]) < MaxHalves
             /\ Emit(rest, {})
             /\ checked' = [checked EXCEPT ![p.to] = @ \cup {p}]
        ELSE Emit(rest, {Pong(p)}) /\ UNCHANGED checked
    /\ UNCHANGED <<routes, resting>>

PingAdds(n) ==
    \E p \in checked[n] :
        /\ add_route(n, p.src, [via |-> p.from, metric |-> metric(p)])
        /\ checked' = [checked EXCEPT ![n] = @ \ {p}]
        /\ Emit(flight, {Pong(p)})
        /\ UNCHANGED resting

PongArrives(p) ==
    /\ p.type = "Pong"
    /\ ForMe(p)
    /\ add_route(p.to, p.src, [via |-> p.from, metric |-> metric(p)])
    /\ \E rest \in Remaining(p) : Emit(rest, {})
    /\ UNCHANGED <<resting, checked>>

\* The key is the sender's own address, which is outside the network.
PunchReqArrives(p) ==
    /\ p.type = "PunchReq"
    /\ ForMe(p)
    /\ add_owner_route(p.to, p.src, p.from)
    /\ \E rest \in Remaining(p) :
        Emit(rest, {Packet("PunchRes", p.to, p.src, 1, p.to, p.from)})
    /\ UNCHANGED <<resting, checked>>

PunchResArrives(p) ==
    /\ p.type = "PunchRes"
    /\ ForMe(p)
    /\ add_owner_route(p.to, p.src, p.from)
    /\ \E rest \in Remaining(p) : Emit(rest, {})
    /\ UNCHANGED <<resting, checked>>

\* Lost, or handed to the user.
Vanishes(p) ==
    /\ flight' = flight \ {p}
    /\ UNCHANGED <<routes, resting, checked>>

\* Ten seconds without a sign of life.
route_timeout_task(n, m) ==
    /\ \E r \in routes[n][m] : routes' = [routes EXCEPT ![n][m] = @ \ {r}]
    /\ UNCHANGED <<resting, checked, flight>>

MeshNext ==
    \/ \E n, m \in Nodes :
        \/ punch_task(n, m) \/ ping_all(n, m) \/ relay_probe_task(n, m)
        \/ SendData(n, m) \/ route_timeout_task(n, m)
    \/ \E n \in Nodes : BackoffEnds(n) \/ PingAdds(n)
    \/ \E p \in flight :
        \/ PunchStart1(p) \/ PunchStart2(p) \/ Forward(p) \/ PingArrives(p)
        \/ PongArrives(p) \/ PunchReqArrives(p) \/ PunchResArrives(p) \/ Vanishes(p)

MeshSpec == MeshInit /\ [][MeshNext]_mesh_vars

-----------------------------------------------------------------------------
\* A metric counts the links the packet came over: a route is taken for direct
\* exactly when its neighbour is the peer itself, whatever was probed through
\* whom; and no packet is sent over more links than its ttl allows, although
\* routes may lead in a circle.
MetricTellsHops ==
    /\ \A n, m \in Nodes : \A r \in routes[n][m] : is_direct(r) <=> r.via = m
    /\ \A p \in flight : p.hops <= p.max

\* A probe through another client leaves no route at either end: the answer is
\* not passed on, and the target takes a relay route only beside another one,
\* although a Ping is looked at only when there is none.  A relay route comes
\* from the one exception, an entry made between the halves of
\* add_route_if_absent.
RelayRouteTakesARace ==
    [][\A n, m \in Nodes : \A r \in routes'[n][m] \ routes[n][m] :
           ~is_direct(r) =>
               /\ routes[n][m] # {}
               /\ \E p \in checked[n] : p.src = m /\ p.from = r.via]_mesh_vars

\* Only the side that begins has a back-off: the side that is asked, which
\* checks one before it answers, never holds back.
AnswererNeverHoldsBack ==
    \A n \in Nodes : \A m \in resting[n] : n < m
=============================================================================

------------------------ MODULE EnhancedTunnelProofs ------------------------
(***************************************************************************)
(* Proofs about what carries a conversation above the tunnel: PortMapping  *)
(* with the connections of QuicPool under it, UdpNat, Delivery and Relay.  *)
(***************************************************************************)
EXTENDS PortMapping, UdpNat, Delivery, Relay, FiniteSetTheorems, TLAPS

-----------------------------------------------------------------------------
(* QuicPool.                                                               *)

Openings == [at : {"rest", "begun", "connecting", "connected", "open", "broken", "refused"},
             cell : Nat, failed : Nat]

\* Cells are numbered as they are made, and a cell that failed somebody is not
\* in the map any more.
PoolInv ==
    /\ made \in Nat
    /\ pooled \in 0 .. made
    /\ opening \in [Callers -> Openings]
    /\ \A c \in Callers :
        /\ opening[c].cell <= made
        /\ opening[c].failed <= made
        /\ opening[c].failed # NoCell => pooled # opening[c].failed

PoolAndTry == PoolInv /\ SecondTryIsNew

LEMMA PoolInitial == PoolInit => PoolAndTry
  BY DEF PoolInit, PoolAndTry, PoolInv, SecondTryIsNew, AtRest, Openings, NoCell

\* Taking a cell.
LEMMA PoolTakes ==
    ASSUME PoolAndTry, NEW c \in Callers, take_cell(c)
    PROVE  PoolAndTry'
<1> USE DEF PoolAndTry, PoolInv, SecondTryIsNew, NoCell, Openings
<1>1. pooled' \in 0 .. made' /\ pooled' # 0 /\ made' \in Nat /\ made' >= made
      /\ \A d \in Callers : opening[d].failed # NoCell => pooled' # opening[d].failed
  BY DEF take_cell
<1>2. opening' = [opening EXCEPT ![c] = [@ EXCEPT !.at = "connecting", !.cell = pooled']]
  BY DEF take_cell
<1>3. PICK o \in Openings : o = [opening[c] EXCEPT !.at = "connecting", !.cell = pooled']
  <2>1. opening[c] \in Openings /\ pooled' \in Nat
    BY <1>1
  <2>2. [opening[c] EXCEPT !.at = "connecting", !.cell = pooled'] \in Openings
    BY <2>1
  <2> QED BY <2>2
<1>4. o.cell = pooled' /\ o.failed = opening[c].failed
  BY <1>3
<1>5. opening' = [opening EXCEPT ![c] = o]
  BY <1>2, <1>3
<1> QED BY <1>1, <1>4, <1>5

\* The other steps of opening a stream.
LEMMA PoolOpens ==
    ASSUME PoolAndTry, NEW c \in Callers,
           get_or_try_init(c) \/ open_stream(c) \/ remove_cell(c)
    PROVE  PoolAndTry'
<1> USE DEF PoolAndTry, PoolInv, SecondTryIsNew, NoCell, Openings, AtRest
<1>1. CASE get_or_try_init(c)
  BY <1>1 DEF get_or_try_init
<1>2. CASE open_stream(c)
  BY <1>2 DEF open_stream
<1>3. CASE remove_cell(c)
  BY <1>3 DEF remove_cell
<1> QED BY <1>1, <1>2, <1>3

\* What the mapping's own steps do to the pool.
LEMMA PoolBegins ==
    ASSUME PoolAndTry, NEW c \in Callers, NEW o \in Openings,
           \/ o.cell = opening[c].cell /\ o.failed = opening[c].failed
           \/ o = AtRest,
           opening' = [opening EXCEPT ![c] = o],
           UNCHANGED <<pooled, made, connection>>
    PROVE  PoolAndTry'
  BY DEF PoolAndTry, PoolInv, SecondTryIsNew, NoCell, AtRest

-----------------------------------------------------------------------------
(* PortMapping.                                                            *)

\* A task that has not ended is the one its source's datagrams go to.
TaskIsEntered ==
    /\ dest_map \in [Sources -> Callers \cup {NoTask}]
    /\ source \in [Callers -> Sources \cup {NoTask}]
    /\ alive \subseteq Callers
    /\ refused \in [Sources -> {0, 1}]
    /\ \A c \in alive : source[c] \in Sources /\ dest_map[source[c]] = c
    /\ \A s \in Sources : dest_map[s] # NoTask => refused[s] = 0

MappingInv == PoolAndTry /\ TaskIsEntered

\* Who is the only entered task of a source is its only task.
LEMMA EnteredIsOnly == TaskIsEntered => OneTaskPerSource
<1>1. SUFFICES ASSUME TaskIsEntered, NEW s \in Sources
               PROVE  Cardinality({c \in alive : source[c] = s}) <= 1 /\ refused[s] <= 1
  BY DEF OneTaskPerSource
<1>2. {c \in alive : source[c] = s} \subseteq {dest_map[s]}
  BY <1>1 DEF TaskIsEntered
<1>3. IsFiniteSet({dest_map[s]}) /\ Cardinality({dest_map[s]}) = 1
  BY FS_Singleton
<1>4. Cardinality({c \in alive : source[c] = s}) <= Cardinality({dest_map[s]})
  BY <1>2, <1>3, FS_Subset
<1>5. Cardinality({c \in alive : source[c] = s}) \in Nat
  BY <1>2, <1>3, FS_Subset, FS_CardinalityType
<1> QED BY <1>1, <1>3, <1>4, <1>5 DEF TaskIsEntered

LEMMA MappingInitial == MappingInit => MappingInv
  BY PoolInitial DEF MappingInit, MappingInv, TaskIsEntered

\* A datagram starts a task, is queued, dropped or refused.
LEMMA MappingReceives ==
    ASSUME MappingInv, NEW s \in Sources, StartTask(s) \/ recv(s)
    PROVE  MappingInv'
<1> USE PortMappingAssumption DEF MappingInv
<1>1. CASE StartTask(s)
  <2>1. PICK c \in Callers :
            /\ source[c] = NoTask
            /\ source' = [source EXCEPT ![c] = s]
            /\ dest_map' = [dest_map EXCEPT ![s] = c]
            /\ alive' = alive \cup {c}
            /\ opening' = [opening EXCEPT ![c].at = "begun"]
    BY <1>1 DEF StartTask
  <2>2. dest_map[s] = NoTask /\ refused' = [refused EXCEPT ![s] = 0]
        /\ UNCHANGED <<pooled, made, connection>>
    BY <1>1 DEF StartTask
  <2>3. TaskIsEntered'
    BY <2>1, <2>2 DEF TaskIsEntered
  <2>4. PICK o \in Openings : o = [opening[c] EXCEPT !.at = "begun"]
    BY DEF PoolAndTry, PoolInv, Openings
  <2>5. opening' = [opening EXCEPT ![c] = o] /\ o.cell = opening[c].cell
        /\ o.failed = opening[c].failed
    BY <2>1, <2>4 DEF PoolAndTry, PoolInv, Openings
  <2>6. PoolAndTry'
    BY <2>2, <2>5, PoolBegins
  <2> QED BY <2>3, <2>6
<1>2. CASE recv(s)
  <2>1. PoolAndTry'
    BY <1>2 DEF recv, pool_vars, PoolAndTry, PoolInv, SecondTryIsNew
  <2>2. TaskIsEntered'
    BY <1>2 DEF recv, TaskIsEntered
  <2> QED BY <2>1, <2>2
<1> QED BY <1>1, <1>2

\* A task passes a datagram on, or ends.
LEMMA MappingServes ==
    ASSUME MappingInv, NEW c \in Callers, udp_mapping_handle(c) \/ TaskEnds(c)
    PROVE  MappingInv'
<1> USE DEF MappingInv
<1>1. CASE udp_mapping_handle(c)
  BY <1>1 DEF udp_mapping_handle, pool_vars, PoolAndTry, PoolInv, SecondTryIsNew, TaskIsEntered
<1>2. CASE TaskEnds(c)
  <2>1. AtRest \in Openings
    BY DEF AtRest, Openings, NoCell
  <2>2. PoolAndTry'
    BY <1>2, <2>1, PoolBegins DEF TaskEnds
  <2>3. TaskIsEntered'
    BY <1>2 DEF TaskEnds, TaskIsEntered
  <2> QED BY <2>2, <2>3
<1> QED BY <1>1, <1>2

\* The invariant holds throughout.
THEOREM MappingInvariant == MappingSpec => []MappingInv
<1>1. MappingInv /\ [MappingNext]_mapping_vars => MappingInv'
  <2>1. SUFFICES ASSUME MappingInv, [MappingNext]_mapping_vars PROVE MappingInv'
    OBVIOUS
  <2>2. CASE PoolNext /\ UNCHANGED <<dest_map, source, queue, alive, refused>>
    <3>1. TaskIsEntered'
      BY <2>1, <2>2 DEF MappingInv, TaskIsEntered
    <3>2. CASE ConnectionDies
      BY <2>1, <3>1, <3>2 DEF ConnectionDies, MappingInv, PoolAndTry, PoolInv, SecondTryIsNew
    <3>3. ASSUME NEW c \in Callers,
                 take_cell(c) \/ get_or_try_init(c) \/ open_stream(c) \/ remove_cell(c)
          PROVE  MappingInv'
      BY <2>1, <3>1, <3>3, PoolTakes, PoolOpens DEF MappingInv
    <3> QED BY <2>2, <3>2, <3>3 DEF PoolNext
  <2>3. ASSUME NEW s \in Sources, StartTask(s) \/ recv(s) PROVE MappingInv'
    BY <2>1, <2>3, MappingReceives
  <2>4. ASSUME NEW c \in Callers, udp_mapping_handle(c) \/ TaskEnds(c) PROVE MappingInv'
    BY <2>1, <2>4, MappingServes
  <2>5. CASE UNCHANGED mapping_vars
    BY <2>1, <2>5 DEF mapping_vars, pool_vars, MappingInv, PoolAndTry, PoolInv,
        SecondTryIsNew, TaskIsEntered
  <2> QED BY <2>1, <2>2, <2>3, <2>4, <2>5 DEF MappingNext
<1> QED BY <1>1, MappingInitial, PTL DEF MappingSpec

\* For any number of callers and cells, a second try meets another cell
\* (QuicTunnelClient::open_bi, open_uni).
THEOREM SecondTriesAreNew == MappingSpec => []SecondTryIsNew
<1>1. MappingInv => SecondTryIsNew
  BY DEF MappingInv, PoolAndTry
<1> QED BY <1>1, MappingInvariant, PTL

\* For any number of sources and tasks and any size of the channels, at most one
\* task serves a source and at most one datagram is refused (recv of
\* udp_port_mapping.rs, ip_listen_impl).
THEOREM OneTaskPerSourceAlways == MappingSpec => []OneTaskPerSource
<1>1. MappingInv => OneTaskPerSource
  BY EnteredIsOnly DEF MappingInv
<1> QED BY <1>1, MappingInvariant, PTL

-----------------------------------------------------------------------------
(* UdpNat.                                                                 *)

NatTypeOK ==
    /\ opened \in 0 .. MaxSockets
    /\ table \in [Keys -> 0 .. opened]
    /\ owner \in [Sockets -> Keys]
    /\ receiving \subseteq 1 .. opened
    /\ collected \subseteq 1 .. opened

\* An entry holds the last socket opened for its key.
EntryIsNewest ==
    \A k \in Keys : table[k] # NoSocket =>
        /\ owner[table[k]] = k
        /\ \A s \in 1 .. opened : owner[s] = k => s <= table[k]

NatInv == NatTypeOK /\ EntryIsNewest /\ EntryIsServed

LEMMA NatInitial == NatInit => NatInv
  BY NatAssumption DEF NatInit, NatInv, NatTypeOK, EntryIsNewest, EntryIsServed, NoSocket, Sockets

LEMMA NatSends ==
    ASSUME NatInv, NEW k \in Keys, handle_outbound(k)
    PROVE  NatInv'
<1> USE NatAssumption DEF NatInv, NatTypeOK, NoSocket, Sockets
<1>1. CASE table[k] # NoSocket
  BY <1>1 DEF handle_outbound, EntryIsNewest, EntryIsServed
<1>2. CASE table[k] = NoSocket
  <2>1. /\ opened' = opened + 1 /\ opened < MaxSockets /\ owner[opened + 1] = k
        /\ table' = [table EXCEPT ![k] = opened + 1]
        /\ receiving' = receiving \cup {opened + 1}
        /\ UNCHANGED <<owner, collected>>
    BY <1>2 DEF handle_outbound
  <2>2. NatTypeOK'
    BY <2>1
  <2>3. EntryIsNewest'
    BY <2>1 DEF EntryIsNewest
  <2>4. EntryIsServed'
    <3>1. \A j \in Keys : table'[j] # NoSocket => table'[j] \in receiving'
      BY <2>1 DEF EntryIsServed
    <3>2. ASSUME NEW s \in receiving', table'[owner'[s]] # s
          PROVE  s \in collected' \/ \E t \in collected' \ receiving' : owner'[t] = owner'[s] /\ t < s
      <4>1. s \in receiving /\ table[owner[s]] # s
        BY <2>1, <3>2, <1>2
      <4>2. CASE s \in collected
        BY <2>1, <4>2
      <4>3. CASE \E t \in collected \ receiving : owner[t] = owner[s] /\ t < s
        BY <2>1, <4>3
      <4> QED BY <4>1, <4>2, <4>3 DEF EntryIsServed
    <3> QED BY <3>1, <3>2 DEF EntryIsServed
  <2> QED BY <2>2, <2>3, <2>4
<1> QED BY <1>1, <1>2

LEMMA NatEnds ==
    ASSUME NatInv, NEW s \in Sockets, inbound_ends(s)
    PROVE  NatInv'
<1> USE NatAssumption DEF NatInv, NatTypeOK, NoSocket, Sockets
<1>1. /\ s \in receiving
      /\ receiving' = receiving \ {s}
      /\ table' = [table EXCEPT ![owner[s]] = 0]
      /\ UNCHANGED <<owner, opened, collected>>
  BY DEF inbound_ends
<1>2. NatTypeOK' /\ EntryIsNewest'
  BY <1>1 DEF EntryIsNewest
<1>3. \A k \in Keys : table'[k] # NoSocket => table'[k] \in receiving'
  BY <1>1 DEF EntryIsNewest, EntryIsServed
<1>4. ASSUME NEW t \in receiving', table'[owner'[t]] # t
      PROVE  t \in collected' \/ \E u \in collected' \ receiving' : owner'[u] = owner'[t] /\ u < t
  <2>1. CASE table[owner[t]] # t
    <3>1. CASE t \in collected
      BY <1>1, <3>1
    <3>2. ASSUME NEW u \in collected \ receiving, owner[u] = owner[t], u < t
          PROVE  \E v \in collected' \ receiving' : owner'[v] = owner'[t] /\ v < t
      BY <1>1, <3>2
    <3> QED BY <1>1, <1>4, <2>1, <3>1, <3>2 DEF EntryIsServed
  <2>2. CASE table[owner[t]] = t
    <3>1. owner[s] = owner[t] /\ s < t
      BY <1>1, <1>4, <2>2 DEF EntryIsNewest
    <3>2. CASE s \in collected
      BY <1>1, <3>1, <3>2
    <3>3. ASSUME NEW u \in collected \ receiving, owner[u] = owner[s], u < s
          PROVE  \E v \in collected' \ receiving' : owner'[v] = owner'[t] /\ v < t
      BY <1>1, <3>1, <3>3
    <3> QED BY <1>1, <2>2, <3>1, <3>2, <3>3 DEF EntryIsServed
  <2> QED BY <2>1, <2>2
<1> QED BY <1>2, <1>3, <1>4 DEF EntryIsServed

LEMMA NatCollects == NatInv /\ nat_gc => NatInv'
<1>1. SUFFICES ASSUME NatInv, nat_gc PROVE NatInv'
  OBVIOUS
<1> USE NatAssumption DEF NatInv, NatTypeOK, NoSocket, Sockets
<1> DEFINE old == {k \in Keys : table[k] # NoSocket /\ idle[k] >= IdleTicks}
<1>2. /\ table' = [k \in Keys |-> IF k \in old THEN NoSocket ELSE table[k]]
      /\ collected' = collected \cup {table[k] : k \in old}
      /\ UNCHANGED <<owner, receiving, opened>>
  BY <1>1 DEF nat_gc
<1>3. NatTypeOK' /\ EntryIsNewest'
  <2>1. table' \in [Keys -> 0 .. opened] /\ \A k \in Keys : table'[k] \in {0, table[k]}
    BY <1>1, <1>2
  <2>2. \A k \in old : table[k] \in 1 .. opened
    BY <1>1
  <2>3. NatTypeOK'
    BY <1>1, <1>2, <2>1, <2>2
  <2>4. EntryIsNewest'
    BY <1>1, <1>2, <2>1 DEF EntryIsNewest
  <2> QED BY <2>3, <2>4
<1>4. \A k \in Keys : table'[k] # NoSocket => table'[k] \in receiving'
  BY <1>1, <1>2 DEF EntryIsServed
<1>5. ASSUME NEW t \in receiving', table'[owner'[t]] # t
      PROVE  t \in collected' \/ \E u \in collected' \ receiving' : owner'[u] = owner'[t] /\ u < t
  <2>1. CASE table[owner[t]] = t
    <3>1. owner[t] \in Keys /\ owner[t] \in old
      BY <1>1, <1>2, <1>5, <2>1
    <3> QED BY <1>2, <2>1, <3>1
  <2>2. CASE table[owner[t]] # t
    BY <1>1, <1>2, <1>5, <2>2 DEF EntryIsServed
  <2> QED BY <2>1, <2>2
<1> QED BY <1>3, <1>4, <1>5 DEF EntryIsServed

\* For any keys, any number of sockets and any time of idleness, an entry of the
\* UDP table is served, and a task outlives its entry only after a collection
\* (spawn_inbound, spawn_nat_gc).
THEOREM EntriesAreServed == NatSpec => []EntryIsServed
<1>1. NatInv /\ [NatNext]_nat_vars => NatInv'
  <2>1. SUFFICES ASSUME NatInv, [NatNext]_nat_vars PROVE NatInv'
    OBVIOUS
  <2>2. CASE nat_gc
    BY <2>1, <2>2, NatCollects
  <2>3. ASSUME NEW k \in Keys, handle_outbound(k) PROVE NatInv'
    BY <2>1, <2>3, NatSends
  <2>4. ASSUME NEW s \in Sockets, inbound_reply(s) PROVE NatInv'
    BY <2>1, <2>4 DEF inbound_reply, NatInv, NatTypeOK, EntryIsNewest, EntryIsServed
  <2>5. ASSUME NEW s \in Sockets, inbound_ends(s) PROVE NatInv'
    BY <2>1, <2>5, NatEnds
  <2>6. CASE UNCHANGED nat_vars
    BY <2>1, <2>6 DEF nat_vars, NatInv, NatTypeOK, EntryIsNewest, EntryIsServed
  <2> QED BY <2>1, <2>2, <2>3, <2>4, <2>5, <2>6 DEF NatNext
<1>2. NatInv => EntryIsServed
  BY DEF NatInv
<1> QED BY <1>1, <1>2, NatInitial, PTL DEF NatSpec

-----------------------------------------------------------------------------
(* Delivery.                                                               *)

DeliveryTypeOK ==
    /\ config \in [Ends -> {c \in Switches : create_network(c)}]
    /\ flow \in [proto : {"tcp", "udp", "icmp"}, dest : Dests \ {"member"}]
             \cup [proto : {"tcp_map", "udp_map"}, dest : {"self", "member", "outside"}]
    /\ road \in {"none", "plain", "quic"}
    /\ fate \in {"pending", "device", "localhost", "socket", "stray", "dropped"}
    /\ known \in [Ends -> {"none", "half", "up"}]
    /\ broken \subseteq Ends
    /\ last \in [from : Ends, cut : BOOLEAN, stack : BOOLEAN]

\* Who has the connection of a conversation over TCP in its stack; nothing is
\* sent on one before its first packet.
StacksFollowTheRoad ==
    /\ road = "none" => fate = "pending" /\ last = NoPacket
    /\ flow.proto = "tcp" =>
        /\ road = "quic" =>
            /\ config["asker"].quic
            /\ known["asker"] # "none" \/ "asker" \in broken
            /\ fate = "device" => known["answerer"] = "up" \/ "answerer" \in broken
            /\ known["answerer"] # "half"
        /\ road # "quic" => known = [n \in Ends |-> "none"]

DeliveryInv == DeliveryTypeOK /\ FateIsDue /\ StacksFollowTheRoad /\ StaysOnItsRoad

\* The initial states satisfy the invariant.
LEMMA DeliveryInitial == InitDelivery => DeliveryInv
<1>1. SUFFICES ASSUME InitDelivery PROVE DeliveryInv
  OBVIOUS
<1>2. DeliveryTypeOK
  BY <1>1 DEF InitDelivery, DeliveryTypeOK, Ends, NoPacket
<1>3. FateIsDue
  <2>1. mapped /\ ~config["answerer"].tun /\ network_contains(flow.dest) => fate # "socket"
    BY <1>1 DEF InitDelivery
  <2> QED BY <1>1, <2>1 DEF InitDelivery, FateIsDue
<1>4. StacksFollowTheRoad /\ StaysOnItsRoad
  BY <1>1 DEF InitDelivery, StacksFollowTheRoad, StaysOnItsRoad, NoPacket
<1> QED BY <1>2, <1>3, <1>4 DEF DeliveryInv

\* The first packet leaves the asker.
LEMMA DeliveryLeaves == DeliveryInv /\ ipv4_outbound_impl => DeliveryInv'
<1>1. SUFFICES ASSUME DeliveryInv, ipv4_outbound_impl PROVE DeliveryInv'
  OBVIOUS
<1> USE <1>1 DEF DeliveryInv, ipv4_outbound_impl
<1>2. DeliveryTypeOK'
  BY DEF DeliveryTypeOK, Ends
<1>3. FateIsDue'
  BY DEF FateIsDue, mapped
<1>4. StacksFollowTheRoad'
  <2>1. known["asker"] # "up" \/ flow.proto # "tcp"
    BY DEF StacksFollowTheRoad, Ends
  <2> QED BY <2>1 DEF StacksFollowTheRoad, DeliveryTypeOK, outbound, mapped, Ends
<1>5. StaysOnItsRoad'
  BY DEF StaysOnItsRoad, StacksFollowTheRoad
<1> QED BY <1>2, <1>3, <1>4, <1>5

\* What the answerer does with it, by either road.
LEMMA DueByEitherRoad ==
    ASSUME DeliveryTypeOK, ~mapped
    PROVE  LET c == config["answerer"]
               due == CASE flow.dest \in {"outside", "unrouted"} -> "dropped"
                        [] flow.dest = "behind" -> IF c.nat \/ ~c.tun THEN "socket" ELSE "device"
                        [] flow.dest = "self" ->
                               IF c.tun THEN "device"
                               ELSE IF flow.proto = "udp" THEN "stray" ELSE "localhost"
           IN  /\ ~route(flow.dest) => due = "dropped"
               /\ route(flow.dest) => inbound(c, flow.proto, flow.dest) = due
               /\ route(flow.dest) /\ flow.proto = "tcp" =>
                      quic_stream_bi_handle(c, flow.dest) = due
               /\ route(flow.dest) /\ flow.proto # "tcp" =>
                      quic_stream_uni_handle(c, flow.proto, flow.dest) = due
<1> DEFINE c == config["answerer"]
<1>1. c.tun \in BOOLEAN /\ c.nat \in BOOLEAN /\ (c.nat \/ c.tun)
  BY DEF DeliveryTypeOK, Switches, create_network, Ends
<1>2. flow.proto \in {"tcp", "udp", "icmp"} /\ flow.dest \in {"self", "behind", "outside", "unrouted"}
  BY DEF DeliveryTypeOK, mapped, Dests
<1> HIDE DEF c
<1>3. CASE flow.dest = "self"
  BY <1>1, <1>2, <1>3 DEF c, route, network_contains, allow, inbound, nat_send, tun_send, admitted,
        nat_stack, Local, listen_task, inner_icmp_socket_recv, udp_connect, ip_stack_recv_task,
        tcp_nat, use_nat, quic_stream_bi_handle, quic_stream_uni_handle
<1>4. CASE flow.dest = "behind"
  BY <1>1, <1>2, <1>4 DEF c, route, network_contains, allow, inbound, nat_send, tun_send, admitted,
        nat_stack, Local, listen_task, inner_icmp_socket_recv, udp_connect, ip_stack_recv_task,
        tcp_nat, use_nat, quic_stream_bi_handle, quic_stream_uni_handle
<1>5. CASE flow.dest \in {"outside", "unrouted"}
  BY <1>1, <1>2, <1>5 DEF c, route, network_contains, allow, inbound, nat_send, tun_send, admitted,
        ip_stack_recv_task, use_nat, quic_stream_bi_handle, quic_stream_uni_handle
<1> QED BY <1>2, <1>3, <1>4, <1>5 DEF c

\* It arrives at the answerer.
LEMMA DeliveryArrives == DeliveryInv /\ Arrive => DeliveryInv'
<1>1. SUFFICES ASSUME DeliveryInv, Arrive PROVE DeliveryInv'
  OBVIOUS
<1> DEFINE c == config["answerer"]
<1>2. /\ UNCHANGED <<config, flow, road, broken, last>>
      /\ road \in {"plain", "quic"}
      /\ fate' = IF mapped THEN port_mapping(c, flow.dest)
                 ELSE IF ~route(flow.dest) THEN "dropped"
                 ELSE IF road = "plain" THEN inbound(c, flow.proto, flow.dest)
                 ELSE IF flow.proto = "tcp" THEN quic_stream_bi_handle(c, flow.dest)
                 ELSE quic_stream_uni_handle(c, flow.proto, flow.dest)
      /\ known' = IF flow.proto = "tcp" /\ road = "quic" /\ fate' = "device"
                  THEN [known EXCEPT !["answerer"] = "up"] ELSE known
  BY <1>1 DEF Arrive, DeliveryInv, DeliveryTypeOK
<1>3. FateIsDue'
  <2>1. CASE mapped
    BY <1>2, <2>1 DEF FateIsDue, mapped, port_mapping, Local, network_contains
  <2>2. CASE ~mapped
    BY <1>1, <1>2, <2>2, DueByEitherRoad DEF FateIsDue, mapped, DeliveryInv
  <2> QED BY <2>1, <2>2
<1>4. DeliveryTypeOK'
  <2>1. fate' \in {"pending", "device", "localhost", "socket", "stray", "dropped"}
    <3>1. CASE mapped
      BY <1>2, <3>1 DEF port_mapping
    <3>2. CASE ~mapped
      BY <1>1, <1>2, <3>2 DEF inbound, nat_send, tun_send, nat_stack, listen_task,
        inner_icmp_socket_recv, udp_connect, ip_stack_recv_task, tcp_nat,
        quic_stream_bi_handle, quic_stream_uni_handle, DeliveryInv, DeliveryTypeOK, mapped
    <3> QED BY <3>1, <3>2
  <2> QED BY <1>1, <1>2, <2>1 DEF DeliveryInv, DeliveryTypeOK, Ends
<1>5. StacksFollowTheRoad'
  BY <1>1, <1>2 DEF DeliveryInv, DeliveryTypeOK, StacksFollowTheRoad, Ends
<1>6. StaysOnItsRoad'
  BY <1>1, <1>2 DEF DeliveryInv, StaysOnItsRoad
<1> QED BY <1>3, <1>4, <1>5, <1>6 DEF DeliveryInv

\* A host sends another packet.
LEMMA DeliverySends ==
    ASSUME DeliveryInv, NEW n \in Ends, NEW cut \in BOOLEAN, HostSends(n, cut)
    PROVE  DeliveryInv'
<1> USE DEF DeliveryInv, HostSends
<1>1. DeliveryTypeOK'
  <2>1. outbound(n, FALSE, cut) \in BOOLEAN
    BY DEF outbound, DeliveryTypeOK, Switches
  <2> QED BY <2>1 DEF DeliveryTypeOK
<1>2. FateIsDue'
  BY DEF FateIsDue, mapped
<1>3. StacksFollowTheRoad'
  BY DEF StacksFollowTheRoad, DeliveryTypeOK, Ends
<1>4. StaysOnItsRoad'
  <2>1. /\ last'.from = n /\ last'.cut = cut
        /\ last'.stack = outbound(n, FALSE, cut)
        /\ road' = road /\ broken' = broken
    OBVIOUS
  <2> HIDE DEF DeliveryInv, HostSends
  <2>2. SUFFICES ASSUME ~cut
                 PROVE  IF road = "quic" THEN outbound(n, FALSE, cut) \/ n \in broken
                        ELSE ~outbound(n, FALSE, cut)
    BY <2>1 DEF StaysOnItsRoad
  <2> USE DEF DeliveryInv, HostSends
  <2>3. known[n] \in {"none", "half", "up"} /\ flow.proto = "tcp"
    BY DEF DeliveryTypeOK
  <2>4. CASE road # "quic"
    BY <2>2, <2>3, <2>4 DEF StacksFollowTheRoad, outbound
  <2>5. CASE road = "quic"
    <3>1. CASE n = "asker"
      BY <2>2, <2>3, <2>5, <3>1 DEF StacksFollowTheRoad, outbound
    <3>2. CASE n = "answerer"
      BY <2>2, <2>3, <2>5, <3>2 DEF StacksFollowTheRoad, outbound
    <3> QED BY <2>5, <3>1, <3>2 DEF Ends
  <2> QED BY <2>4, <2>5
<1> QED BY <1>1, <1>2, <1>3, <1>4

\* A relay ends.
LEMMA DeliveryBreaks ==
    ASSUME DeliveryInv, NEW n \in Ends, RelayEnds(n)
    PROVE  DeliveryInv'
<1> USE DEF DeliveryInv, RelayEnds
<1>1. DeliveryTypeOK'
  BY DEF DeliveryTypeOK
<1>2. FateIsDue'
  BY DEF FateIsDue, mapped
<1>3. StacksFollowTheRoad'
  BY DEF StacksFollowTheRoad, DeliveryTypeOK, Ends
<1>4. StaysOnItsRoad'
  BY DEF StaysOnItsRoad
<1> QED BY <1>1, <1>2, <1>3, <1>4

\* The invariant holds throughout.
THEOREM DeliveryInvariant == DeliverySpec => []DeliveryInv
<1>1. DeliveryInv /\ [DeliveryNext]_delivery_vars => DeliveryInv'
  <2>1. SUFFICES ASSUME DeliveryInv, [DeliveryNext]_delivery_vars PROVE DeliveryInv'
    OBVIOUS
  <2>2. CASE ipv4_outbound_impl
    BY <2>1, <2>2, DeliveryLeaves
  <2>3. CASE Arrive
    BY <2>1, <2>3, DeliveryArrives
  <2>4. ASSUME NEW n \in Ends, RelayEnds(n) PROVE DeliveryInv'
    BY <2>1, <2>4, DeliveryBreaks
  <2>5. ASSUME NEW n \in Ends, NEW cut \in BOOLEAN, HostSends(n, cut) PROVE DeliveryInv'
    BY <2>1, <2>5, DeliverySends
  <2>6. CASE UNCHANGED delivery_vars
    BY <2>1, <2>6 DEF delivery_vars, DeliveryInv, DeliveryTypeOK, FateIsDue, mapped,
        StacksFollowTheRoad, StaysOnItsRoad
  <2> QED BY <2>1, <2>2, <2>3, <2>4, <2>5, <2>6 DEF DeliveryNext
<1> QED BY <1>1, DeliveryInitial, PTL DEF DeliverySpec

\* Whatever the switches of both nodes, both roads end alike
\* (EnhancedInbound::inbound against quic_stream_bi_handle and _uni_handle).
THEOREM FatesAreDue == DeliverySpec => []FateIsDue
<1>1. DeliveryInv => FateIsDue
  BY DEF DeliveryInv
<1> QED BY <1>1, DeliveryInvariant, PTL

\* Whatever the switches of both nodes, a connection keeps to its road
\* (EnhancedQuicOutbound::outbound).
THEOREM RoadsAreKept == DeliverySpec => []StaysOnItsRoad
<1>1. DeliveryInv => StaysOnItsRoad
  BY DEF DeliveryInv
<1> QED BY <1>1, DeliveryInvariant, PTL

-----------------------------------------------------------------------------
(* Relay.                                                                  *)

RelayTypeOK ==
    /\ wrote \in [Sides -> Nat]
    /\ passed \in [Sides -> Nat]
    /\ got \in [Sides -> Nat]
    /\ closed \subseteq Sides
    /\ failing \subseteq Sides
    /\ lost \in BOOLEAN
    /\ ended \subseteq Sides
    /\ \A d \in Sides : got[d] <= passed[d] /\ passed[d] <= wrote[d]

\* Unless something failed, the first relay to end has passed on all that its
\* host, which is done, wrote.
FirstEndsWhole ==
    \A d \in Sides : d \in ended =>
        \/ lost \/ d \in failing \/ Opposite(d) \in ended
        \/ d \in closed /\ passed[d] = wrote[d]

\* ListenerHearsAll with what keeps it so: the other relay is over, and its host
\* is done or failed.
ListenerHeardAll ==
    \A d \in Sides :
        LET o == Opposite(d)
        IN  ~lost /\ o \in ended \ (closed \cup failing) /\ passed[o] = wrote[o] =>
                /\ d \in ended /\ got[d] = passed[d]
                /\ d \in failing \/ (d \in closed /\ passed[d] = wrote[d])

RelayInv == RelayTypeOK /\ FirstEndsWhole /\ ListenerHeardAll

LEMMA OppositeSide ==
    \A d \in Sides : Opposite(d) \in Sides /\ Opposite(d) # d /\ Opposite(Opposite(d)) = d
                     /\ \A e \in Sides : e = d \/ e = Opposite(d)
  BY DEF Sides, Opposite

\* A host and its relay's reading half.
LEMMA RelayNear ==
    ASSUME RelayInv, NEW d \in Sides,
           Write(d) \/ CloseWriting(d) \/ copy_in(d) \/ copy_in_ends(d)
    PROVE  RelayInv'
<1> USE OppositeSide DEF RelayInv
<1>1. CASE Write(d)
  BY <1>1 DEF Write, RelayTypeOK, FirstEndsWhole, ListenerHeardAll
<1>2. CASE CloseWriting(d)
  BY <1>2 DEF CloseWriting, RelayTypeOK, FirstEndsWhole, ListenerHeardAll
<1>3. CASE copy_in(d)
  BY <1>3 DEF copy_in, RelayTypeOK, FirstEndsWhole, ListenerHeardAll
<1>4. CASE copy_in_ends(d)
  BY <1>4 DEF copy_in_ends, RelayTypeOK, FirstEndsWhole, ListenerHeardAll
<1> QED BY <1>1, <1>2, <1>3, <1>4

\* What fails, and the relay that ends of it.
LEMMA RelayFails ==
    ASSUME RelayInv, ConnectionLost \/ \E d \in Sides : HostResets(d) \/ copy_fails(d)
    PROVE  RelayInv'
<1> USE OppositeSide DEF RelayInv
<1>1. CASE ConnectionLost
  BY <1>1 DEF ConnectionLost, RelayTypeOK, FirstEndsWhole, ListenerHeardAll
<1>2. ASSUME NEW d \in Sides, HostResets(d) PROVE RelayInv'
  BY <1>2 DEF HostResets, RelayTypeOK, FirstEndsWhole, ListenerHeardAll
<1>3. ASSUME NEW d \in Sides, copy_fails(d) PROVE RelayInv'
  BY <1>3 DEF copy_fails, RelayTypeOK, FirstEndsWhole, ListenerHeardAll
<1> QED BY <1>1, <1>2, <1>3

\* The other relay's writing half.
LEMMA RelayFar ==
    ASSUME RelayInv, NEW d \in Sides, copy_out(d) \/ copy_out_ends(d)
    PROVE  RelayInv'
<1> USE OppositeSide DEF RelayInv
<1>1. CASE copy_out(d)
  BY <1>1 DEF copy_out, RelayTypeOK, FirstEndsWhole, ListenerHeardAll
<1>2. CASE copy_out_ends(d)
  BY <1>2 DEF copy_out_ends, RelayTypeOK, FirstEndsWhole, ListenerHeardAll
<1> QED BY <1>1, <1>2

\* However much is written (MaxUnits), a host that still listens is told all
\* that was put into the stream, and all that the other wrote unless that one
\* failed, as long as the connection holds (select! in stream_copy, stream_nat).
THEOREM ListenersHearAll == RelaySpec => []ListenerHearsAll
<1>1. ASSUME RelayInit PROVE RelayInv
  <2>1. RelayTypeOK
    <3>1. lost \in BOOLEAN /\ closed = {} /\ failing = {} /\ ended = {}
      BY <1>1 DEF RelayInit
    <3>2. wrote = [d \in Sides |-> 0] /\ passed = wrote /\ got = wrote
      BY <1>1 DEF RelayInit
    <3> QED BY <3>1, <3>2 DEF RelayTypeOK
  <2>2. ended = {} /\ \A d \in Sides : Opposite(d) \notin ended
    BY <1>1 DEF RelayInit
  <2> QED BY <2>1, <2>2, OppositeSide DEF RelayInv, FirstEndsWhole, ListenerHeardAll
<1>2. RelayInv /\ [RelayNext]_relay_vars => RelayInv'
  <2>1. SUFFICES ASSUME RelayInv, [RelayNext]_relay_vars PROVE RelayInv'
    OBVIOUS
  <2>2. ASSUME NEW d \in Sides,
               Write(d) \/ CloseWriting(d) \/ copy_in(d) \/ copy_in_ends(d)
        PROVE  RelayInv'
    BY <2>1, <2>2, RelayNear
  <2>3. ASSUME NEW d \in Sides, copy_out(d) \/ copy_out_ends(d)
        PROVE  RelayInv'
    BY <2>1, <2>3, RelayFar
  <2>4. CASE UNCHANGED relay_vars
    BY <2>1, <2>4 DEF relay_vars, RelayInv, RelayTypeOK, FirstEndsWhole, ListenerHeardAll
  <2>5. CASE ConnectionLost \/ \E d \in Sides : HostResets(d) \/ copy_fails(d)
    BY <2>1, <2>5, RelayFails
  <2> QED BY <2>1, <2>2, <2>3, <2>4, <2>5 DEF RelayNext
<1>3. RelayInv => ListenerHearsAll
  BY DEF RelayInv, ListenerHeardAll, ListenerHearsAll
<1> QED BY <1>1, <1>2, <1>3, PTL DEF RelaySpec
=============================================================================

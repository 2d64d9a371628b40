---------------------------- MODULE PortMapping ----------------------------
(***************************************************************************)
(* UDP port mapping (port_mapping/udp_port_mapping.rs, and ip_listen_impl  *)
(* of quic_client.rs, which is built alike): the datagrams of a source go  *)
(* through a channel to a task that opens a stream (QuicPool) and ends     *)
(* after sixty idle seconds or on an error.  The task's end closes the     *)
(* channel; the receive loop notices with the next datagram.               *)
(***************************************************************************)
EXTENDS QuicPool

CONSTANTS
    Sources,    \* local addresses that send datagrams
    NoTask,     \* no task
    MaxQueue    \* datagrams a channel holds (128 in the code)

ASSUME PortMappingAssumption ==
    /\ NoTask \notin Callers \cup Sources
    /\ MaxQueue \in Nat \ {0}

VARIABLES
    dest_map,   \* source -> the task whose channel is entered, or NoTask
    source,     \* task -> the source it serves, or NoTask before its start
    queue,      \* task -> datagrams in its channel
    alive,      \* tasks that have not ended
    refused     \* source -> datagrams refused by closed channels since a task began

mapping_vars == <<pool_vars, dest_map, source, queue, alive, refused>>

MappingInit ==
    /\ PoolInit
    /\ dest_map = [s \in Sources |-> NoTask]
    /\ source = [c \in Callers |-> NoTask]
    /\ queue = [c \in Callers |-> 0]
    /\ alive = {}
    /\ refused = [s \in Sources |-> 0]

-----------------------------------------------------------------------------
\* The first datagram of a source starts a task and is queued for it.
StartTask(s) ==
    /\ dest_map[s] = NoTask
    /\ \E c \in Callers :
        /\ source[c] = NoTask
        /\ source' = [source EXCEPT ![c] = s]
        /\ dest_map' = [dest_map EXCEPT ![s] = c]
        /\ queue' = [queue EXCEPT ![c] = 1]
        /\ alive' = alive \cup {c}
        /\ opening' = [opening EXCEPT ![c].at = "begun"]
    /\ refused' = [refused EXCEPT ![s] = 0]
    /\ UNCHANGED <<pooled, made, connection>>

\* Mistaken variant of recv: a full channel is given up too.
recv_full(s) ==
    /\ dest_map[s] # NoTask
    /\ LET c == dest_map[s]
       IN  \/ /\ c \in alive /\ queue[c] < MaxQueue
              /\ queue' = [queue EXCEPT ![c] = @ + 1]
              /\ UNCHANGED <<dest_map, refused>>
           \/ /\ c \notin alive \/ queue[c] = MaxQueue
              /\ dest_map' = [dest_map EXCEPT ![s] = NoTask]
              /\ UNCHANGED <<queue, refused>>
    /\ UNCHANGED <<pool_vars, source, alive>>

\* Queued; dropped by a full channel; or refused by a closed one, which is then
\* taken out of the map.
recv(s) ==
    /\ dest_map[s] # NoTask
    /\ LET c == dest_map[s]
       IN  \/ /\ c \in alive
              /\ queue' = [queue EXCEPT ![c] = IF @ < MaxQueue THEN @ + 1 ELSE @]
              /\ UNCHANGED <<dest_map, refused>>
           \/ /\ c \notin alive
              /\ dest_map' = [dest_map EXCEPT ![s] = NoTask]
              /\ refused' = [refused EXCEPT ![s] = @ + 1]
              /\ UNCHANGED queue
    /\ UNCHANGED <<pool_vars, source, alive>>

udp_mapping_handle(c) ==
    /\ opening[c].at = "open"
    /\ queue[c] > 0
    /\ queue' = [queue EXCEPT ![c] = @ - 1]
    /\ UNCHANGED <<pool_vars, dest_map, source, alive, refused>>

\* No stream, a stream that fails, or sixty seconds in which nothing came.
TaskEnds(c) ==
    /\ c \in alive
    /\ opening[c].at \in {"refused", "open"}
    /\ alive' = alive \ {c}
    /\ queue' = [queue EXCEPT ![c] = 0]
    /\ opening' = [opening EXCEPT ![c] = AtRest]
    /\ UNCHANGED <<pooled, made, connection, dest_map, source, refused>>

MappingNext ==
    \/ PoolNext /\ UNCHANGED <<dest_map, source, queue, alive, refused>>
    \/ \E s \in Sources : StartTask(s) \/ recv(s)
    \/ \E c \in Callers : udp_mapping_handle(c) \/ TaskEnds(c)

MappingSpec == MappingInit /\ [][MappingNext]_mapping_vars

-----------------------------------------------------------------------------
\* Datagrams of a source keep their order because one task at a time serves
\* it: no second one starts while the first lives, whether or not it has a
\* stream yet and however full its channel is.  And a task that has ended costs
\* its source one datagram beyond those it held.
OneTaskPerSource ==
    \A s \in Sources :
        /\ Cardinality({c \in alive : source[c] = s}) <= 1
        /\ refused[s] <= 1
=============================================================================

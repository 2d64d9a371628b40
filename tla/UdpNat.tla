------------------------------- MODULE UdpNat -------------------------------
(***************************************************************************)
(* The UDP table of the internal NAT (nat/internal_nat/udp_nat.rs): an     *)
(* entry per source and destination with a socket of its own, a task per   *)
(* socket that passes replies back, and a collector that removes idle      *)
(* entries but leaves their tasks.  A task that ends removes the entry of  *)
(* its key, which may have another socket by then.                         *)
(***************************************************************************)
EXTENDS Integers, FiniteSets

CONSTANTS
    Keys,       \* pairs of a source and a destination
    MaxSockets, \* bound on the sockets opened
    IdleTicks   \* NAT_IDLE_TIMEOUT in collector intervals

ASSUME NatAssumption ==
    /\ MaxSockets \in Nat
    /\ IdleTicks \in Nat \ {0}

Sockets == 1 .. MaxSockets
NoSocket == 0

VARIABLES
    table,      \* key -> the socket of its entry, or NoSocket
    idle,       \* key -> collector intervals since last_active
    owner,      \* socket -> its key, for those opened
    receiving,  \* sockets whose task runs
    opened,     \* sockets opened
    collected   \* sockets whose entry the collector removed

nat_vars == <<table, idle, owner, receiving, opened, collected>>

NatInit ==
    /\ table = [k \in Keys |-> NoSocket]
    /\ idle = [k \in Keys |-> 0]
    /\ owner \in [Sockets -> Keys]
    /\ receiving = {}
    /\ opened = 0
    /\ collected = {}

-----------------------------------------------------------------------------
\* A packet from inside: an entry is used again, or made with its task.  (The
\* key of a socket is fixed in the initial state.)
handle_outbound(k) ==
    /\ idle' = [idle EXCEPT ![k] = 0]
    /\ IF table[k] # NoSocket THEN UNCHANGED <<table, receiving, opened>>
       ELSE /\ opened < MaxSockets
            /\ owner[opened + 1] = k
            /\ opened' = opened + 1
            /\ table' = [table EXCEPT ![k] = opened']
            /\ receiving' = receiving \cup {opened'}
    /\ UNCHANGED <<owner, collected>>

\* A reply: passed to the source of the socket's key, whose entry is kept.
inbound_reply(s) ==
    /\ s \in receiving
    /\ idle' = [idle EXCEPT ![owner[s]] = 0]
    /\ UNCHANGED <<table, owner, receiving, opened, collected>>

\* Mistaken variant of inbound_ends: the entry stays.
inbound_ends_kept(s) ==
    /\ s \in receiving
    /\ receiving' = receiving \ {s}
    /\ UNCHANGED <<table, idle, owner, opened, collected>>

\* The socket or the inner one fails.
inbound_ends(s) ==
    /\ s \in receiving
    /\ receiving' = receiving \ {s}
    /\ table' = [table EXCEPT ![owner[s]] = NoSocket]
    /\ UNCHANGED <<idle, owner, opened, collected>>

\* Every minute.
nat_gc ==
    LET old == {k \in Keys : table[k] # NoSocket /\ idle[k] >= IdleTicks}
    IN  /\ table' = [k \in Keys |-> IF k \in old THEN NoSocket ELSE table[k]]
        /\ collected' = collected \cup {table[k] : k \in old}
        /\ idle' = [k \in Keys |-> IF idle[k] < IdleTicks THEN idle[k] + 1 ELSE idle[k]]
        /\ UNCHANGED <<owner, receiving, opened>>

NatNext ==
    \/ nat_gc
    \/ \E k \in Keys : handle_outbound(k)
    \/ \E s \in Sockets : inbound_reply(s) \/ inbound_ends(s)

NatSpec == NatInit /\ [][NatNext]_nat_vars

-----------------------------------------------------------------------------
\* Every entry has a task that passes replies back, although tasks outlive
\* their entries and remove those of others; and a socket lives on without an
\* entry only because the collector took it, or a collected one of the same key
\* ended later.
EntryIsServed ==
    /\ \A k \in Keys : table[k] # NoSocket => table[k] \in receiving
    /\ \A s \in receiving :
        table[owner[s]] # s =>
            s \in collected \/ \E t \in collected \ receiving : owner[t] = owner[s] /\ t < s
=============================================================================

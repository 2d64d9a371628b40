-------------------------------- MODULE Fec --------------------------------
(***************************************************************************)
(* Forward error correction between one sender and one destination         *)
(* (vnt-core/src/fec/encoder.rs, decoder.rs) and the receive handlers that *)
(* hand on what the decoder returns.  The sender numbers its packets in    *)
(* groups; a worker computes parity packets of a group that is full, or    *)
(* that has waited for 20 ms; the receiver keeps the shards of a group     *)
(* until all data shards are there or enough shards to compute the rest.   *)
(*                                                                         *)
(* net is everything ever sent: a message may be taken at any time, again, *)
(* or never.  A shard's bytes are the packets it was computed from: one    *)
(* packet for a data shard, the whole batch for a parity shard.            *)
(***************************************************************************)
EXTENDS Integers, Sequences, FiniteSetsExt

CONSTANTS
    Packets,            \* packets for the destination, each sent once
    Workloads,          \* the sets of packets that may have to be sent
    Kind,               \* packet -> "Turn" (an IPv4 packet) or "Quic"
    Size,               \* packet -> length of its shard (after compression)
    Compression,        \* the receiver's PacketCompression is enabled
    BATCH_SIZE,
    SHARDS_PER_PARITY,  \* 1 / REDUNDANCY_RATE
    BATCH_CHANNEL_SIZE,
    MAX_GROUPS,
    FlagFlips(_, _, _)  \* see Recovered

Kinds == {"Turn", "Quic"}

ASSUME FecAssumption ==
    /\ Workloads \subseteq SUBSET Packets
    /\ Kind \in [Packets -> Kinds]
    /\ Size \in [Packets -> Nat]
    /\ Compression \in BOOLEAN
    /\ BATCH_SIZE \in Nat \ {0}
    /\ SHARDS_PER_PARITY \in Nat \ {0}
    /\ BATCH_CHANNEL_SIZE \in Nat
    /\ MAX_GROUPS \in Nat \ {0}

VARIABLES
    unsent,         \* packets that are still to be sent
    group_id,       \* DestBatchState.group_id
    current_batch,  \* DestBatchState.current_batch
    batch_tx,       \* full batches on their way to the worker
    unprotected,    \* history: groups whose batch the channel refused
    net,            \* every message sent so far
    groups,         \* FecDecoderInner.groups of this sender
    by_age,         \* the keys of groups, longest not updated first
    expired,        \* how many of them are older than GROUP_TIMEOUT
    cleanup_due,    \* more than a second since last_cleanup
    arrived,        \* history: packets whose own message was received
    handed,         \* history: what was handed on, to whom, flags as sent
    delivered,      \* history: how often each packet was handed on
    forgotten       \* history: groups removed by cleanup_old_groups

encoder == <<unsent, group_id, current_batch, batch_tx, unprotected, net>>
history == <<arrived, handed, delivered, forgotten>>
decoder == <<groups, by_age, expired, cleanup_due, history>>
vars == <<encoder, decoder>>

None == <<>>    \* a shard that is missing

\* Bound of the history variable delivered: more than once is counted as 2.
DELIVERED_CAP == 2

Messages == [group_id : Nat, packet_index : Nat, msg_type : Kinds,
             payload : Seq(Packets), data_shards : Nat, parity_shards : Nat]
Groups == [data_shards : Nat, parity_shards : Nat,
           received_original_count : Nat, received_shards : Seq(Seq(Packets))]

Init ==
    /\ unsent \in Workloads
    /\ group_id = 0
    /\ current_batch = <<>>
    /\ batch_tx = <<>>
    /\ unprotected = {}
    /\ net = {}
    /\ groups = <<>>
    /\ by_age = <<>>
    /\ expired = 0
    /\ cleanup_due = FALSE
    /\ arrived = {}
    /\ handed = {}
    /\ delivered = [p \in Packets |-> 0]
    /\ forgotten = {}

-----------------------------------------------------------------------------
(* The sender. *)

\* A data packet: FecPacket without parity_data, which stands as zero shards.
DataMessage(p) ==
    [group_id |-> group_id, packet_index |-> Len(current_batch),
     msg_type |-> Kind[p], payload |-> <<p>>,
     data_shards |-> 0, parity_shards |-> 0]

IsParity(m) == m.data_shards # 0

\* The rate, rounded up; never less than MIN_PARITY = 1 for a batch.
ParityShards(n) == (n + SHARDS_PER_PARITY - 1) \div SHARDS_PER_PARITY

\* encode_and_send_parity; parity goes out as Turn whatever it was made from.
ParityMessages(g, items) ==
    LET n == Len(items) IN
    {[group_id |-> g, packet_index |-> n + i,
      msg_type |-> "Turn", payload |-> items,
      data_shards |-> n, parity_shards |-> ParityShards(n)] :
        i \in 0..(ParityShards(n) - 1)}

BatchFull(batch) == Len(batch) >= BATCH_SIZE

\* FecEncoder::encode, and the sending of the packet it returns.  A full batch
\* is given to the worker, or dropped when the channel is full.
encode(p) ==
    /\ p \in unsent
    /\ unsent' = unsent \ {p}
    /\ net' = net \cup {DataMessage(p)}
    /\ LET batch == Append(current_batch, p) IN
       \/ /\ ~BatchFull(batch)
          /\ current_batch' = batch
          /\ UNCHANGED <<group_id, batch_tx, unprotected>>
       \/ /\ BatchFull(batch)
          /\ current_batch' = <<>>
          /\ group_id' = group_id + 1
          /\ \/ /\ Len(batch_tx) < BATCH_CHANNEL_SIZE
                /\ batch_tx' = Append(batch_tx, [id |-> group_id, items |-> batch])
                /\ UNCHANGED unprotected
             \/ /\ Len(batch_tx) >= BATCH_CHANNEL_SIZE
                /\ unprotected' = unprotected \cup {group_id}
                /\ UNCHANGED batch_tx
    /\ UNCHANGED decoder

\* fec_encoder_worker, a full batch.
full_batch ==
    /\ batch_tx # <<>>
    /\ net' = net \cup ParityMessages(Head(batch_tx).id, Head(batch_tx).items)
    /\ batch_tx' = Tail(batch_tx)
    /\ UNCHANGED <<unsent, group_id, current_batch, unprotected, decoder>>

\* Mistaken variant of timeout_batch: the number is used again.
timeout_batch_same_id ==
    /\ current_batch # <<>>
    /\ net' = net \cup ParityMessages(group_id, current_batch)
    /\ current_batch' = <<>>
    /\ UNCHANGED <<unsent, group_id, batch_tx, unprotected, decoder>>

\* Mistaken variant of timeout_batch: a lone packet waits for company.
timeout_batch_lone ==
    /\ Len(current_batch) > 1
    /\ net' = net \cup ParityMessages(group_id, current_batch)
    /\ current_batch' = <<>>
    /\ group_id' = group_id + 1
    /\ UNCHANGED <<unsent, batch_tx, unprotected, decoder>>

\* fec_encoder_worker, a batch whose deadline has passed.
timeout_batch ==
    /\ current_batch # <<>>
    /\ net' = net \cup ParityMessages(group_id, current_batch)
    /\ current_batch' = <<>>
    /\ group_id' = group_id + 1
    /\ UNCHANGED <<unsent, batch_tx, unprotected, decoder>>

-----------------------------------------------------------------------------
(* The decoder's groups. *)

EmptyGroup == [data_shards |-> 0, parity_shards |-> 0,
               received_original_count |-> 0, received_shards |-> <<>>]

\* groups.entry(..).or_default()
GroupOf(m) == IF m.group_id \in DOMAIN groups THEN groups[m.group_id] ELSE EmptyGroup

is_done(g) == g.data_shards # 0 /\ g.received_original_count = g.data_shards

\* Mistaken variant of done: the count is not completed.
done_uncounted(g) == [g EXCEPT !.received_shards = <<>>]

done(g) == [g EXCEPT !.received_original_count = g.data_shards,
                     !.received_shards = <<>>]

HasShard(g, m) ==
    /\ m.packet_index < Len(g.received_shards)
    /\ g.received_shards[m.packet_index + 1] # None

\* received_shards, resized to n places if it has fewer, with x at place i.
Placed(shards, n, i, x) ==
    [j \in 1..Max({Len(shards), n}) |->
        IF j = i THEN x ELSE IF j <= Len(shards) THEN shards[j] ELSE None]

\* receive: the shard is put in its place, before anything is decoded.
Stored(g, m) ==
    IF IsParity(m)
    THEN [g EXCEPT !.data_shards = m.data_shards,
                   !.parity_shards = m.parity_shards,
                   !.received_shards = Placed(@, m.data_shards + m.parity_shards,
                                              m.packet_index + 1, m.payload)]
    ELSE [g EXCEPT !.received_shards = Placed(@, m.packet_index + 1,
                                              m.packet_index + 1, m.payload),
                   !.received_original_count = @ + 1]

Present(g) == {i \in DOMAIN g.received_shards : g.received_shards[i] # None}

\* Mistaken variant of Enough: one shard too many is asked for.
Enough_more(g) == g.data_shards # 0 /\ Cardinality(Present(g)) > g.data_shards

\* try_decode: there are enough shards (a complete group is done already).
Enough(g) == g.data_shards # 0 /\ Cardinality(Present(g)) >= g.data_shards

\* The sender pads the shards of a batch to the longest before it computes the
\* parity; the receiver stores a data shard as long as it came.
ShardLen(items) == Max({Size[items[i]] : i \in DOMAIN items})

\* ReedSolomon::reconstruct wants shards of one length.
SameLength(g) ==
    \A i, j \in Present(g) :
        ShardLen(g.received_shards[i]) = ShardLen(g.received_shards[j])

\* decode_with_rs: what returns an error.
CanReconstruct(g) ==
    /\ Len(g.received_shards) = g.data_shards + g.parity_shards
    /\ SameLength(g)

Missing(g) == (1..g.data_shards) \ Present(g)

\* The batch a group's parity shard was computed from.
BatchOf(g) == g.received_shards[CHOOSE i \in Present(g) : i > g.data_shards]

\* The packet recovered as data shard i is the one that was sent.  Its flags
\* need not be: the parity was computed from flags without the FEC bit, the
\* receiver's data shards have it set, and what that does to the compressed bit
\* of the recovered shard is a matter of field arithmetic (FlagFlips).
FlagsKept(g, i) == FlagFlips(g.data_shards, Present(g), i) # TRUE

\* The packet is of use to the handler that gets it.
Usable(g, i, to) ==
    /\ Kind[BatchOf(g)[i]] = to
    /\ to = "Turn" /\ Compression => FlagsKept(g, i)

-----------------------------------------------------------------------------
(* Receiving: FecDecoder::receive, and the loop of the receive handler over the
   packets it returns. *)

HandOn(packets) ==
    /\ handed' = handed \cup packets
    /\ LET names == {h.packet : h \in packets} IN
       delivered' = [p \in Packets |->
            IF p \in names /\ delivered[p] < DELIVERED_CAP
            THEN delivered[p] + 1 ELSE delivered[p]]

\* The received packet itself, with its FEC flag taken off.
Own(m) == IF IsParity(m) THEN {}
          ELSE {[packet |-> m.payload[1], to |-> m.msg_type, flags_kept |-> TRUE]}

\* Mistaken variant of Returned: the received packet is left out.
Returned_alone(g, m, cut) ==
    {[packet |-> BatchOf(g)[i], to |-> m.msg_type, flags_kept |-> FlagsKept(g, i)] :
        i \in {j \in Missing(g) : j <= cut}}

\* Recovered packets come first, in order, then the received one.  They go where
\* the received one goes.  Handling a packet that cannot be decompressed or is
\* no IPv4 packet may fail, at cut, and then the rest is not handled.
Returned(g, m, cut) ==
    {[packet |-> BatchOf(g)[i], to |-> m.msg_type, flags_kept |-> FlagsKept(g, i)] :
        i \in {j \in Missing(g) : j <= cut}}
    \cup IF cut > g.data_shards THEN Own(m) ELSE {}

Cuts(g, m) ==
    {g.data_shards + 1} \cup
    {i \in Missing(g) : m.msg_type = "Turn" /\ ~Usable(g, i, "Turn")}

NoteArrival(m) ==
    arrived' = IF IsParity(m) THEN arrived ELSE arrived \cup {m.payload[1]}

\* last_update of the message's group becomes now.
Refreshed(m) == Append(SelectSeq(by_age, LAMBDA g : g # m.group_id), m.group_id)
StillExpired(m) ==
    IF \E i \in 1..expired : by_age[i] = m.group_id THEN expired - 1 ELSE expired

\* The group becomes g, and cleanup_old_groups is called if it is due.
UpdateAndCleanUp(m, g) ==
    LET order == Refreshed(m)
        old == StillExpired(m)
        removed == IF cleanup_due THEN Max({old, Len(order) - MAX_GROUPS}) ELSE 0
        gone == {order[i] : i \in 1..removed}
    IN  /\ groups' = [k \in (DOMAIN groups \cup {m.group_id}) \ gone |->
                        IF k = m.group_id THEN g ELSE groups[k]]
        /\ by_age' = SubSeq(order, removed + 1, Len(order))
        /\ expired' = IF cleanup_due THEN 0 ELSE old
        /\ cleanup_due' = FALSE
        /\ forgotten' = forgotten \cup gone

\* The group is done, or has this shard already.
Ignores(m) ==
    /\ m \in net
    /\ is_done(GroupOf(m)) \/ HasShard(GroupOf(m), m)
    /\ NoteArrival(m)
    /\ UNCHANGED <<encoder, groups, by_age, expired, cleanup_due, handed,
                   delivered, forgotten>>

Accepts(m) ==
    /\ m \in net
    /\ ~is_done(GroupOf(m))
    /\ ~HasShard(GroupOf(m), m)
    /\ NoteArrival(m)
    /\ UNCHANGED encoder

\* All data is there.
Completes(m) ==
    /\ Accepts(m)
    /\ LET g == Stored(GroupOf(m), m) IN
       /\ is_done(g)
       /\ UpdateAndCleanUp(m, done(g))
    /\ HandOn(Own(m))

\* Nothing to recover yet.
Keeps(m) ==
    /\ Accepts(m)
    /\ LET g == Stored(GroupOf(m), m) IN
       /\ ~is_done(g)
       /\ ~Enough(g)
       /\ UpdateAndCleanUp(m, g)
    /\ HandOn(Own(m))

Recovers(m) ==
    /\ Accepts(m)
    /\ LET g == Stored(GroupOf(m), m) IN
       /\ ~is_done(g)
       /\ Enough(g)
       /\ CanReconstruct(g)
       /\ UpdateAndCleanUp(m, done(g))
       /\ \E cut \in Cuts(g, m) : HandOn(Returned(g, m, cut))

\* decode_with_rs fails: the error leaves receive, the shard stays stored and
\* the received packet is gone.
FailsToRecover(m) ==
    /\ Accepts(m)
    /\ LET g == Stored(GroupOf(m), m) IN
       /\ ~is_done(g)
       /\ Enough(g)
       /\ ~CanReconstruct(g)
       /\ groups' = [k \in DOMAIN groups \cup {m.group_id} |->
                        IF k = m.group_id THEN g ELSE groups[k]]
    /\ by_age' = Refreshed(m)
    /\ expired' = StillExpired(m)
    /\ UNCHANGED <<cleanup_due, handed, delivered, forgotten>>

Receive(m) == Ignores(m) \/ Completes(m) \/ Keeps(m) \/ Recovers(m) \/ FailsToRecover(m)

\* Time passes GROUP_TIMEOUT for the group that was not updated for longest.
GroupExpires ==
    /\ expired < Len(by_age)
    /\ expired' = expired + 1
    /\ UNCHANGED <<encoder, groups, by_age, cleanup_due, history>>

\* A second since the last clean-up.
CleanupBecomesDue ==
    /\ ~cleanup_due
    /\ cleanup_due' = TRUE
    /\ UNCHANGED <<encoder, groups, by_age, expired, history>>

SenderNext == (\E p \in Packets : encode(p)) \/ full_batch \/ timeout_batch

ReceiverNext == (\E m \in net : Receive(m)) \/ GroupExpires \/ CleanupBecomesDue

Next == SenderNext \/ ReceiverNext

Spec == Init /\ [][Next]_vars

\* The sender alone, which no receiver influences.  The worker is polled when
\* there is a batch or its timer has fired.
FairSenderSpec ==
    /\ Init /\ [][SenderNext]_vars
    /\ WF_vars(full_batch) /\ WF_vars(timeout_batch)

-----------------------------------------------------------------------------
(* Properties. *)

\* The types, and how the decoder's records hang together: groups and their
\* order of age agree, and the two length checks of the decoder never fail for
\* lack of places (decode_with_rs bails when they do).
TypeOK ==
    /\ unsent \subseteq Packets
    /\ group_id \in Nat
    /\ current_batch \in Seq(Packets) /\ Len(current_batch) < BATCH_SIZE
    /\ batch_tx \in Seq([id : Nat, items : Seq(Packets)])
    /\ Len(batch_tx) <= BATCH_CHANNEL_SIZE
    /\ \A m \in net : m \in Messages
    /\ \A k \in DOMAIN groups :
        /\ groups[k] \in Groups
        /\ groups[k].data_shards # 0 /\ ~is_done(groups[k]) =>
            Len(groups[k].received_shards) =
                groups[k].data_shards + groups[k].parity_shards
    /\ {by_age[i] : i \in DOMAIN by_age} = DOMAIN groups
    /\ Len(by_age) = Cardinality(DOMAIN groups)
    /\ expired \in 0..Len(by_age)
    /\ cleanup_due \in BOOLEAN
    /\ arrived \subseteq Packets
    /\ handed \subseteq [packet : Packets, to : Kinds, flags_kept : BOOLEAN]
    /\ delivered \in [Packets -> 0..DELIVERED_CAP]

Data(g) == {m \in net : ~IsParity(m) /\ m.group_id = g}

\* A parity packet was computed from exactly the data packets that carry its
\* group's number, each at the place its number says (encode and
\* fec_encoder_worker number and close batches under one lock but from two
\* tasks, by size and by time).
ParityCoversItsGroup ==
    \A m \in net : IsParity(m) =>
        /\ \A d \in Data(m.group_id) :
            /\ d.packet_index < m.data_shards
            /\ d.payload[1] = m.payload[d.packet_index + 1]
        /\ \A i \in 1..m.data_shards :
            \E d \in Data(m.group_id) : d.packet_index + 1 = i

\* A packet is handed on at most once while the decoder remembers its group:
\* duplicates, and copies that come after the packet was recovered, are dropped
\* (receive, is_done and the test of received_shards).
OncePerGroupLife ==
    \A m \in net : ~IsParity(m) /\ m.group_id \notin forgotten
        => delivered[m.payload[1]] <= 1

\* Flags matter to a receiver that decompresses.
HandedOn(p) ==
    \E h \in handed :
        /\ h.packet = p
        /\ h.to = Kind[p]
        /\ Compression => h.flags_kept

\* The data packets of group k are IPv4 packets of one size.
Alike(k) ==
    \A d, e \in Data(k) :
        /\ Kind[d.payload[1]] = "Turn"
        /\ Size[d.payload[1]] = Size[e.payload[1]]

\* A packet that arrived is handed on, to the handler of its kind, whatever
\* else of its group arrives or is lost (receive returns it in every branch,
\* also when nothing is recovered), if the packets of the group are alike.
ArrivedIsHandedOn ==
    \A d \in net : ~IsParity(d) /\ d.payload[1] \in arrived /\ Alike(d.group_id)
        => HandedOn(d.payload[1])

\* The decoder has as many shards of group k as it has data packets, or thinks
\* that it is done with it.
EnoughToRecover(k) ==
    LET g == groups[k] IN
    /\ g.data_shards # 0
    /\ is_done(g) \/ Cardinality({i \in DOMAIN g.received_shards : g.received_shards[i] # None})
            >= g.data_shards

AllHandedOn(k) == \A d \in Data(k) : HandedOn(d.payload[1])

\* As many shards as a group has data packets recover the group, in whatever
\* order they come, if its packets are alike (try_decode, decode_with_rs).
AlikeShardsRecover ==
    \A k \in DOMAIN groups : EnoughToRecover(k) /\ Alike(k) => AllHandedOn(k)

\* The same of every group ("Reed-Solomon decoding recovers lost packets",
\* decode_with_rs).
EnoughShardsRecover ==
    \A k \in DOMAIN groups : EnoughToRecover(k) => AllHandedOn(k)

\* What is handed on goes to the handler of its kind and has the flags it was
\* sent with ("rebuild the NetPacket from the recovered data",
\* rebuild_net_packet; "QUIC data may have FEC", handle_client_data).
HandedOnAsSent == \A h \in handed : h.to = Kind[h.packet] /\ h.flags_kept

\* Every packet that is sent gets parity, unless the channel to the worker was
\* full when its batch was closed (encode, try_send; fec_encoder_worker).
EveryPacketProtected ==
    \A p \in Packets :
        p \notin unsent ~>
            \E d \in net :
                /\ ~IsParity(d) /\ d.payload[1] = p
                /\ \/ d.group_id \in unprotected
                   \/ \E m \in net : IsParity(m) /\ m.group_id = d.group_id
=============================================================================

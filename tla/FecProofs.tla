------------------------------ MODULE FecProofs ------------------------------
(***************************************************************************)
(* Proofs about Fec, for every set of packets, batch size, rate, channel   *)
(* and number of groups.                                                   *)
(*                                                                         *)
(* SenderInv says that the data messages of a group number are exactly the *)
(* batch that has the number: the open batch, one on its way to the        *)
(* worker, or one a parity message was computed from.                      *)
(***************************************************************************)
EXTENDS Fec, FiniteSetTheorems, TLAPS

Batches == [id : Nat, items : Seq(Packets)]

\* The data messages numbered g are the packets of items, in their places.
Matches(g, items) ==
    /\ \A d \in Data(g) :
        /\ d.packet_index < Len(items)
        /\ d.payload = <<items[d.packet_index + 1]>>
    /\ \A i \in 1..Len(items) : \E d \in Data(g) : d.packet_index + 1 = i

DataWellFormed ==
    \A d \in net : ~IsParity(d) =>
        /\ d.group_id <= group_id
        /\ \E p \in Packets \ unsent : d.payload = <<p>> /\ d.msg_type = Kind[p]

SentOnce ==
    \A d, e \in net : ~IsParity(d) /\ ~IsParity(e) /\ d.payload = e.payload => d = e

OpenBatch == Matches(group_id, current_batch)

QueuedBatches ==
    \A i \in 1..Len(batch_tx) :
        /\ batch_tx[i].id < group_id
        /\ batch_tx[i].items # <<>>
        /\ Matches(batch_tx[i].id, batch_tx[i].items)

ParityWellFormed ==
    \A m \in net : IsParity(m) =>
        /\ m.group_id < group_id
        /\ m.data_shards = Len(m.payload)
        /\ m.parity_shards = ParityShards(m.data_shards)
        /\ m.packet_index \in m.data_shards..(m.data_shards + m.parity_shards - 1)
        /\ Matches(m.group_id, m.payload)

SenderTypes ==
    /\ unsent \subseteq Packets
    /\ group_id \in Nat
    /\ current_batch \in Seq(Packets)
    /\ batch_tx \in Seq(Batches)
    /\ net \in SUBSET Messages

SenderInv ==
    /\ SenderTypes /\ DataWellFormed /\ SentOnce
    /\ OpenBatch /\ QueuedBatches /\ ParityWellFormed

-----------------------------------------------------------------------------
(* The sender. *)

LEMMA ParityShardsPositive ==
    ASSUME NEW n \in Nat \ {0}
    PROVE  ParityShards(n) \in Nat \ {0}
  BY FecAssumption, SMT DEF ParityShards

LEMMA SenderInit == Init => SenderInv
  BY FecAssumption DEF Init, SenderInv, SenderTypes, DataWellFormed, SentOnce, OpenBatch,
         QueuedBatches, ParityWellFormed, Matches, Data

\* A data message belongs to the open group: the others keep their data, and
\* the open one grows by the packet.
LEMMA DataMessageMatches ==
    ASSUME SenderInv, NEW p \in unsent, net' = net \cup {DataMessage(p)},
           NEW g, NEW items, Matches(g, items)
    PROVE  /\ g # group_id => Matches(g, items)'
           /\ g = group_id /\ items = current_batch
                => Matches(g, Append(items, p))'
  <1> DEFINE d0 == DataMessage(p)
  <1>1. /\ p \in Packets /\ Kind[p] \in Kinds /\ Len(current_batch) \in Nat
        /\ group_id \in Nat /\ current_batch \in Seq(Packets) /\ net \subseteq Messages
    BY FecAssumption DEF SenderInv, SenderTypes
  <1>2. /\ d0.group_id = group_id /\ d0.packet_index = Len(current_batch)
        /\ d0.payload = <<p>> /\ ~IsParity(d0)
    BY DEF DataMessage, IsParity
  <1>3. CASE g # group_id
    <2>1. Data(g)' = Data(g)
      BY <1>2, <1>3 DEF Data, IsParity
    <2>2. QED
      BY <1>3, <2>1 DEF Matches
  <1>4. CASE g = group_id /\ items = current_batch
    <2>1. Data(g)' = Data(g) \cup {d0}
      BY <1>2, <1>4 DEF Data, IsParity
    <2>2. \A d \in Data(g) : d.packet_index \in Nat
      BY <1>1 DEF Data, Messages
    <2>3. /\ Append(items, p) \in Seq(Packets)
          /\ Len(Append(items, p)) = Len(items) + 1
          /\ \A i \in 1..Len(items) : Append(items, p)[i] = items[i]
          /\ Append(items, p)[Len(items) + 1] = p
      BY <1>1, <1>4
    <2>4. ASSUME NEW d \in Data(g)'
          PROVE  /\ d.packet_index < Len(Append(items, p))
                 /\ d.payload = <<Append(items, p)[d.packet_index + 1]>>
      <3>1. CASE d = d0
        BY <1>1, <1>2, <1>4, <2>3, <3>1
      <3>2. CASE d \in Data(g)
        BY <1>1, <1>4, <2>2, <2>3, <3>2 DEF Matches
      <3>3. QED
        BY <2>1, <2>4, <3>1, <3>2
    <2>5. ASSUME NEW i \in 1..Len(Append(items, p))
          PROVE  \E d \in Data(g)' : d.packet_index + 1 = i
      <3>1. CASE i = Len(items) + 1
        BY <1>1, <1>2, <1>4, <2>1, <3>1
      <3>2. CASE i \in 1..Len(items)
        BY <2>1, <3>2 DEF Matches
      <3>3. QED
        BY <1>1, <1>4, <2>3, <2>5, <3>1, <3>2
    <2>6. QED
      BY <1>4, <2>4, <2>5 DEF Matches
  <1>5. QED
    BY <1>3, <1>4

\* Parity messages are no data.
LEMMA ParityMatches ==
    ASSUME NEW g, NEW items, items \in Seq(Packets), items # <<>>,
           net' = net \cup ParityMessages(g, items)
    PROVE  /\ \A m \in ParityMessages(g, items) :
                /\ IsParity(m)
                /\ m.group_id = g
                /\ m.payload = items
                /\ m.data_shards = Len(items)
                /\ m.parity_shards = ParityShards(m.data_shards)
                /\ m.packet_index \in m.data_shards..(m.data_shards + m.parity_shards - 1)
                /\ g \in Nat => m \in Messages
           /\ \A k : Data(k)' = Data(k)
           /\ \A k, batch : Matches(k, batch) => Matches(k, batch)'
  <1>1. Len(items) \in Nat \ {0} /\ ParityShards(Len(items)) \in Nat \ {0}
    BY ParityShardsPositive
  <1>2. ASSUME NEW m \in ParityMessages(g, items)
        PROVE  /\ IsParity(m)
               /\ m.group_id = g
               /\ m.payload = items
               /\ m.data_shards = Len(items)
               /\ m.parity_shards = ParityShards(m.data_shards)
               /\ m.packet_index \in m.data_shards..(m.data_shards + m.parity_shards - 1)
               /\ g \in Nat => m \in Messages
    <2>1. PICK i \in 0..(ParityShards(Len(items)) - 1) :
            m = [group_id |-> g, packet_index |-> Len(items) + i,
                 msg_type |-> "Turn", payload |-> items,
                 data_shards |-> Len(items), parity_shards |-> ParityShards(Len(items))]
      BY <1>2 DEF ParityMessages
    <2>2. Len(items) + i \in Nat
      BY <1>1
    <2>3. QED
      BY <1>1, <2>1, <2>2 DEF IsParity, Messages, Kinds
  <1>3. ASSUME NEW k PROVE Data(k)' = Data(k)
    BY <1>2 DEF Data, IsParity
  <1>4. ASSUME NEW k, NEW batch, Matches(k, batch) PROVE Matches(k, batch)'
    BY <1>3, <1>4 DEF Matches
  <1>5. QED
    BY <1>2, <1>3, <1>4

\* What encode leaves of the invariant whether or not the batch is full.
LEMMA EncodeData ==
    ASSUME SenderInv, NEW p \in Packets, encode(p)
    PROVE  /\ DataWellFormed' /\ SentOnce'
           /\ net' \in SUBSET Messages
           /\ \A m \in net' : IsParity(m) => m \in net
  <1> DEFINE d0 == DataMessage(p)
  <1>1. /\ Kind[p] \in Kinds /\ Len(current_batch) \in Nat /\ p \in unsent
        /\ group_id \in Nat /\ net \subseteq Messages /\ unsent \subseteq Packets
        /\ net' = net \cup {d0} /\ unsent' = unsent \ {p}
    BY FecAssumption DEF SenderInv, SenderTypes, encode
  <1>2. /\ d0.group_id = group_id /\ d0.payload = <<p>>
        /\ d0.msg_type = Kind[p] /\ ~IsParity(d0) /\ d0 \in Messages
    BY <1>1 DEF DataMessage, IsParity, Messages
  <1>3. group_id' \in {group_id, group_id + 1}
    BY DEF encode
  <1>4. DataWellFormed'
    <2> SUFFICES ASSUME NEW d \in net', ~IsParity(d)
                 PROVE  /\ d.group_id <= group_id'
                        /\ \E q \in (Packets \ unsent)' :
                            d.payload = <<q>> /\ d.msg_type = Kind[q]
      BY DEF DataWellFormed, IsParity
    <2>1. CASE d = d0
      BY <1>1, <1>2, <1>3, <2>1
    <2>2. CASE d \in net
      <3>1. d.group_id <= group_id /\ d.group_id \in Nat
        BY <1>1, <2>2 DEF SenderInv, DataWellFormed, Messages
      <3>2. PICK q \in Packets \ unsent : d.payload = <<q>> /\ d.msg_type = Kind[q]
        BY <2>2 DEF SenderInv, DataWellFormed
      <3>3. q \in (Packets \ unsent)'
        BY <1>1, <3>2
      <3>4. d.group_id <= group_id'
        BY <1>1, <1>3, <3>1
      <3>5. QED
        BY <3>2, <3>3, <3>4
    <2>3. QED
      BY <1>1, <2>1, <2>2
  <1>5. SentOnce'
    <2>1. ASSUME NEW d \in net, ~IsParity(d) PROVE d.payload # <<p>>
      <3>1. PICK q \in Packets \ unsent : d.payload = <<q>>
        BY <2>1 DEF SenderInv, DataWellFormed
      <3>2. QED
        BY <1>1, <3>1
    <2>2. QED
      BY <1>1, <1>2, <2>1 DEF SenderInv, SentOnce, IsParity
  <1>6. QED
    BY <1>1, <1>2, <1>4, <1>5

\* A number above every message and every batch in the queue is free.
LEMMA NextNumberFree ==
    ASSUME NEW g \in Nat, NEW n \in SUBSET Messages,
           \A d \in n : ~IsParity(d) => d.group_id <= g
    PROVE  {d \in n : ~IsParity(d) /\ d.group_id = g + 1} = {}
  BY DEF Messages

LEMMA SenderEncodes ==
    ASSUME SenderInv, NEW p \in Packets, encode(p)
    PROVE  SenderInv'
  <1>1. /\ group_id \in Nat /\ current_batch \in Seq(Packets) /\ p \in unsent
        /\ batch_tx \in Seq(Batches) /\ net' = net \cup {DataMessage(p)}
        /\ unsent' \subseteq Packets
    BY DEF SenderInv, SenderTypes, encode
  <1>2. PICK b : b = Append(current_batch, p)
    OBVIOUS
  <1>3. PICK g0 : g0 = group_id
    OBVIOUS
  <1>4. b \in Seq(Packets) /\ b # <<>> /\ g0 \in Nat
    BY <1>1, <1>2, <1>3
  <1>5. \A g, items : g # g0 /\ Matches(g, items) => Matches(g, items)'
    BY <1>1, <1>3, DataMessageMatches
  <1>6. Matches(g0, b)'
    <2>1. PICK c : c = current_batch
      OBVIOUS
    <2>2. Matches(g0, c)
      BY <1>3, <2>1 DEF SenderInv, OpenBatch
    <2>3. Matches(g0, Append(c, p))'
      BY <1>1, <1>3, <2>1, <2>2, DataMessageMatches
    <2>4. QED
      BY <1>2, <2>1, <2>3
  <1>7. DataWellFormed' /\ SentOnce' /\ net' \in SUBSET Messages
        /\ \A m \in net' : IsParity(m) => m \in net
    BY EncodeData
  <1>8. /\ group_id' \in {g0, g0 + 1}
        /\ batch_tx' \in Seq(Batches)
        /\ \A i \in 1..Len(batch_tx') :
             \/ i \in 1..Len(batch_tx) /\ batch_tx'[i] = batch_tx[i]
             \/ group_id' = g0 + 1 /\ batch_tx'[i] = [id |-> g0, items |-> b]
    <2>1. [id |-> g0, items |-> b] \in Batches
      BY <1>4 DEF Batches
    <2>2. CASE batch_tx' = batch_tx
      BY <1>1, <1>3, <2>2 DEF encode
    <2>3. CASE /\ group_id' = g0 + 1
               /\ batch_tx' = Append(batch_tx, [id |-> g0, items |-> b])
      BY <1>1, <1>4, <2>1, <2>3
    <2>4. QED
      BY <1>2, <1>3, <2>2, <2>3 DEF encode
  <1>9. QueuedBatches'
    <2> SUFFICES ASSUME NEW i \in 1..Len(batch_tx')
                 PROVE  /\ batch_tx'[i].id < group_id'
                        /\ batch_tx'[i].items # <<>>
                        /\ Matches(batch_tx[i].id, batch_tx[i].items)'
      BY DEF QueuedBatches
    <2>1. PICK x : x = batch_tx'[i]
      OBVIOUS
    <2>2. CASE i \in 1..Len(batch_tx) /\ batch_tx'[i] = batch_tx[i]
      <3>1. x \in Batches /\ x.id < g0 /\ x.items # <<>> /\ Matches(x.id, x.items)
        BY <1>1, <1>3, <2>1, <2>2 DEF SenderInv, QueuedBatches
      <3>2. Matches(x.id, x.items)' /\ x.id < group_id'
        BY <1>4, <1>5, <1>8, <3>1 DEF Batches
      <3>3. QED
        BY <2>1, <3>1, <3>2
    <2>3. CASE group_id' = g0 + 1 /\ batch_tx'[i] = [id |-> g0, items |-> b]
      <3>1. x.id = g0 /\ x.items = b
        BY <2>1, <2>3
      <3>2. Matches(x.id, x.items)'
        BY <1>6, <3>1
      <3>3. QED
        BY <1>4, <2>1, <2>3, <3>1, <3>2
    <2>4. QED
      BY <1>8, <2>2, <2>3
  <1>10. ParityWellFormed'
    <2> SUFFICES ASSUME NEW m \in net', IsParity(m)
                 PROVE  /\ m.group_id < group_id'
                        /\ m.data_shards = Len(m.payload)
                        /\ m.parity_shards = ParityShards(m.data_shards)
                        /\ m.packet_index \in
                              m.data_shards..(m.data_shards + m.parity_shards - 1)
                        /\ Matches(m.group_id, m.payload)'
      BY DEF ParityWellFormed, IsParity, ParityShards
    <2>1. /\ m \in net /\ m.group_id < g0 /\ m.group_id \in Nat
          /\ m.data_shards = Len(m.payload)
          /\ m.parity_shards = ParityShards(m.data_shards)
          /\ m.packet_index \in m.data_shards..(m.data_shards + m.parity_shards - 1)
          /\ Matches(m.group_id, m.payload)
      BY <1>3, <1>7 DEF SenderInv, SenderTypes, ParityWellFormed, Messages
    <2>2. Matches(m.group_id, m.payload)' /\ m.group_id < group_id'
      BY <1>4, <1>5, <1>8, <2>1
    <2>3. QED
      BY <2>1, <2>2
  <1>11. OpenBatch'
    <2>1. CASE current_batch' = b /\ group_id' = g0
      BY <1>6, <2>1 DEF OpenBatch
    <2>2. CASE current_batch' = <<>> /\ group_id' = g0 + 1
      <3>1. \A d \in net' : ~IsParity(d) => d.group_id <= g0
        <4>1. DataMessage(p).group_id <= g0
          BY <1>3, <1>4 DEF DataMessage
        <4>2. QED
          BY <1>1, <1>3, <4>1 DEF SenderInv, DataWellFormed
      <3>2. Data(g0 + 1)' = {}
        BY <1>4, <1>7, <3>1, NextNumberFree DEF Data, IsParity
      <3>3. Data(group_id)' = {}
        BY <2>2, <3>2 DEF Data
      <3>4. QED
        BY <2>2, <3>3 DEF OpenBatch, Matches
    <2>3. QED
      BY <1>2, <1>3, <2>1, <2>2 DEF encode
  <1>12. current_batch' \in Seq(Packets) /\ group_id' \in Nat
    <2>1. current_batch' \in {b, <<>>}
      BY <1>2 DEF encode
    <2>2. <<>> \in Seq(Packets)
      OBVIOUS
    <2>3. group_id' \in Nat
      BY <1>4, <1>8
    <2>4. QED
      BY <1>4, <2>1, <2>2, <2>3
  <1>13. QED
    BY <1>1, <1>7, <1>8, <1>9, <1>10, <1>11, <1>12 DEF SenderInv, SenderTypes

\* What both batches of the worker have in common.
LEMMA WorkerData ==
    ASSUME SenderInv, NEW g \in Nat, NEW items \in Seq(Packets), items # <<>>,
           Matches(g, items), g < group_id',
           net' = net \cup ParityMessages(g, items),
           unsent' = unsent, group_id' \in {group_id, group_id + 1}
    PROVE  /\ DataWellFormed' /\ SentOnce' /\ ParityWellFormed'
           /\ net' \in SUBSET Messages
           /\ \A k : Data(k)' = Data(k)
           /\ \A k, batch : Matches(k, batch) => Matches(k, batch)'
  <1>1. /\ \A m \in ParityMessages(g, items) :
                /\ IsParity(m)
                /\ m.group_id = g
                /\ m.payload = items
                /\ m.data_shards = Len(items)
                /\ m.parity_shards = ParityShards(m.data_shards)
                /\ m.packet_index \in m.data_shards..(m.data_shards + m.parity_shards - 1)
                /\ m \in Messages
        /\ \A k : Data(k)' = Data(k)
        /\ \A k, batch : Matches(k, batch) => Matches(k, batch)'
    BY ParityMatches
  <1>2. net \subseteq Messages /\ group_id \in Nat
    BY DEF SenderInv, SenderTypes
  <1>3. \A d \in net' : ~IsParity(d) => d \in net
    BY <1>1
  <1>4. DataWellFormed'
    <2> SUFFICES ASSUME NEW d \in net', ~IsParity(d)
                 PROVE  /\ d.group_id <= group_id'
                        /\ \E q \in (Packets \ unsent)' :
                            d.payload = <<q>> /\ d.msg_type = Kind[q]
      BY DEF DataWellFormed, IsParity
    <2>1. d \in net /\ d.group_id <= group_id /\ d.group_id \in Nat
      BY <1>2, <1>3 DEF SenderInv, DataWellFormed, Messages
    <2>2. PICK q \in Packets \ unsent : d.payload = <<q>> /\ d.msg_type = Kind[q]
      BY <2>1 DEF SenderInv, DataWellFormed
    <2>3. d.group_id <= group_id'
      BY <1>2, <2>1
    <2>4. QED
      BY <2>2, <2>3
  <1>5. SentOnce'
    BY <1>3 DEF SenderInv, SentOnce, IsParity
  <1>6. ParityWellFormed'
    <2> SUFFICES ASSUME NEW m \in net', IsParity(m)
                 PROVE  /\ m.group_id < group_id'
                        /\ m.data_shards = Len(m.payload)
                        /\ m.parity_shards = ParityShards(m.data_shards)
                        /\ m.packet_index \in
                              m.data_shards..(m.data_shards + m.parity_shards - 1)
                        /\ Matches(m.group_id, m.payload)'
      BY DEF ParityWellFormed, IsParity, ParityShards
    <2>1. CASE m \in ParityMessages(g, items)
      BY <1>1, <2>1
    <2>2. CASE m \in net
      <3>1. /\ m.group_id < group_id /\ m.group_id \in Nat
            /\ m.data_shards = Len(m.payload)
            /\ m.parity_shards = ParityShards(m.data_shards)
            /\ m.packet_index \in m.data_shards..(m.data_shards + m.parity_shards - 1)
            /\ Matches(m.group_id, m.payload)
        BY <1>2, <2>2 DEF SenderInv, ParityWellFormed, Messages
      <3>2. m.group_id < group_id'
        BY <1>2, <3>1
      <3>3. QED
        BY <1>1, <3>1, <3>2
    <2>3. QED
      BY <2>1, <2>2
  <1>7. QED
    BY <1>1, <1>2, <1>4, <1>5, <1>6

LEMMA SenderTakesFullBatch ==
    ASSUME SenderInv, full_batch
    PROVE  SenderInv'
  <1>1. PICK x : x = Head(batch_tx)
    OBVIOUS
  <1>2. /\ group_id \in Nat /\ batch_tx \in Seq(Batches) /\ batch_tx # <<>>
        /\ net' = net \cup ParityMessages(x.id, x.items)
        /\ batch_tx' = Tail(batch_tx)
        /\ unsent' = unsent /\ group_id' = group_id /\ current_batch' = current_batch
    BY <1>1 DEF SenderInv, SenderTypes, full_batch
  <1>3. /\ x = batch_tx[1] /\ x \in Batches /\ 1 \in 1..Len(batch_tx)
        /\ batch_tx' \in Seq(Batches)
        /\ \A i \in 1..Len(batch_tx') :
              i + 1 \in 1..Len(batch_tx) /\ batch_tx'[i] = batch_tx[i + 1]
    BY <1>1, <1>2
  <1>4. /\ x.id \in Nat /\ x.items \in Seq(Packets) /\ x.items # <<>>
        /\ x.id < group_id' /\ Matches(x.id, x.items)
    BY <1>2, <1>3 DEF SenderInv, QueuedBatches, Batches
  <1>5. /\ DataWellFormed' /\ SentOnce' /\ ParityWellFormed'
        /\ net' \in SUBSET Messages
        /\ \A k, batch : Matches(k, batch) => Matches(k, batch)'
    BY <1>2, <1>4, WorkerData
  <1>6. OpenBatch'
    <2>1. PICK g, b : g = group_id /\ b = current_batch
      OBVIOUS
    <2>2. Matches(g, b)'
      BY <1>5, <2>1 DEF SenderInv, OpenBatch
    <2>3. QED
      BY <1>2, <2>1, <2>2 DEF OpenBatch
  <1>7. QueuedBatches'
    <2> SUFFICES ASSUME NEW i \in 1..Len(batch_tx')
                 PROVE  /\ batch_tx'[i].id < group_id'
                        /\ batch_tx'[i].items # <<>>
                        /\ Matches(batch_tx[i].id, batch_tx[i].items)'
      BY DEF QueuedBatches
    <2>1. PICK y : y = batch_tx'[i]
      OBVIOUS
    <2>2. y.id < group_id /\ y.items # <<>> /\ Matches(y.id, y.items)
      BY <1>3, <2>1 DEF SenderInv, QueuedBatches
    <2>3. Matches(y.id, y.items)'
      BY <1>5, <2>2
    <2>4. QED
      BY <1>2, <2>1, <2>2, <2>3
  <1>8. QED
    BY <1>2, <1>3, <1>5, <1>6, <1>7 DEF SenderInv, SenderTypes

LEMMA SenderTimesOut ==
    ASSUME SenderInv, timeout_batch
    PROVE  SenderInv'
  <1>1. PICK g, b : g = group_id /\ b = current_batch
    OBVIOUS
  <1>2. /\ g \in Nat /\ b \in Seq(Packets) /\ b # <<>>
        /\ net' = net \cup ParityMessages(g, b)
        /\ current_batch' = <<>> /\ group_id' = g + 1
        /\ unsent' = unsent /\ batch_tx' = batch_tx
    BY <1>1 DEF SenderInv, SenderTypes, timeout_batch
  <1>3. Matches(g, b)
    BY <1>1 DEF SenderInv, OpenBatch
  <1>4. /\ DataWellFormed' /\ SentOnce' /\ ParityWellFormed'
        /\ net' \in SUBSET Messages
        /\ \A k : Data(k)' = Data(k)
        /\ \A k, batch : Matches(k, batch) => Matches(k, batch)'
    BY <1>1, <1>2, <1>3, WorkerData
  <1>5. OpenBatch'
    <2>1. \A d \in net : ~IsParity(d) => d.group_id <= g
      BY <1>1 DEF SenderInv, DataWellFormed
    <2>2. Data(g + 1) = {}
      BY <1>2, <2>1, NextNumberFree DEF Data, SenderInv, SenderTypes
    <2>3. Data(g + 1)' = {}
      BY <1>4, <2>2
    <2>4. Data(group_id)' = {}
      BY <1>2, <2>3 DEF Data
    <2>5. QED
      BY <1>2, <2>4 DEF OpenBatch, Matches
  <1>6. QueuedBatches'
    <2> SUFFICES ASSUME NEW i \in 1..Len(batch_tx)
                 PROVE  /\ batch_tx[i].id < group_id'
                        /\ batch_tx[i].items # <<>>
                        /\ Matches(batch_tx[i].id, batch_tx[i].items)'
      BY <1>2 DEF QueuedBatches
    <2>1. PICK y : y = batch_tx[i]
      OBVIOUS
    <2>2. y \in Batches /\ y.id < g /\ y.items # <<>> /\ Matches(y.id, y.items)
      BY <1>1, <2>1 DEF SenderInv, SenderTypes, QueuedBatches
    <2>3. Matches(y.id, y.items)' /\ y.id < group_id'
      BY <1>2, <1>4, <2>2 DEF Batches
    <2>4. QED
      BY <1>2, <2>1, <2>2, <2>3
  <1>7. <<>> \in Seq(Packets) /\ g + 1 \in Nat
    BY <1>2
  <1>8. QED
    BY <1>2, <1>4, <1>5, <1>6, <1>7 DEF SenderInv, SenderTypes

\* The receiver and the passing of time leave the sender alone.
LEMMA SenderUndisturbed ==
    ASSUME SenderInv, UNCHANGED encoder
    PROVE  SenderInv'
  <1>1. /\ unsent' = unsent /\ group_id' = group_id /\ net' = net
        /\ current_batch' = current_batch /\ batch_tx' = batch_tx
    BY DEF encoder
  <1>2. \A g, items : Matches(g, items) => Matches(g, items)'
    BY <1>1 DEF Matches, Data, IsParity
  <1>3. OpenBatch'
    <2>1. PICK g, b : g = group_id /\ b = current_batch
      OBVIOUS
    <2>2. Matches(g, b)'
      BY <1>2, <2>1 DEF SenderInv, OpenBatch
    <2>3. QED
      BY <1>1, <2>1, <2>2 DEF OpenBatch
  <1>4. QueuedBatches'
    <2> SUFFICES ASSUME NEW i \in 1..Len(batch_tx)
                 PROVE  /\ batch_tx[i].id < group_id
                        /\ batch_tx[i].items # <<>>
                        /\ Matches(batch_tx[i].id, batch_tx[i].items)'
      BY <1>1 DEF QueuedBatches
    <2>1. PICK y : y = batch_tx[i]
      OBVIOUS
    <2>2. y.id < group_id /\ y.items # <<>> /\ Matches(y.id, y.items)
      BY <2>1 DEF SenderInv, QueuedBatches
    <2>3. Matches(y.id, y.items)'
      BY <1>2, <2>2
    <2>4. QED
      BY <1>1, <2>1, <2>2, <2>3
  <1>5. ParityWellFormed'
    BY <1>1, <1>2 DEF SenderInv, ParityWellFormed, IsParity, ParityShards
  <1>6. DataWellFormed' /\ SentOnce' /\ SenderTypes'
    BY <1>1 DEF SenderInv, DataWellFormed, SentOnce, SenderTypes, IsParity
  <1>7. QED
    BY <1>3, <1>4, <1>5, <1>6 DEF SenderInv

LEMMA ReceiverKeepsSender == ReceiverNext => UNCHANGED encoder
  BY DEF ReceiverNext, Receive, Ignores, Completes, Keeps, Recovers, FailsToRecover,
         Accepts, GroupExpires, CleanupBecomesDue

LEMMA SenderStep == SenderInv /\ [Next]_vars => SenderInv'
  <1> SUFFICES ASSUME SenderInv, [Next]_vars PROVE SenderInv'
    OBVIOUS
  <1>1. CASE \E p \in Packets : encode(p)
    BY <1>1, SenderEncodes
  <1>2. CASE full_batch
    BY <1>2, SenderTakesFullBatch
  <1>3. CASE timeout_batch
    BY <1>3, SenderTimesOut
  <1>4. CASE ReceiverNext
    BY <1>4, ReceiverKeepsSender, SenderUndisturbed
  <1>5. CASE UNCHANGED vars
    BY <1>5, SenderUndisturbed DEF vars
  <1>6. QED
    BY <1>1, <1>2, <1>3, <1>4, <1>5 DEF Next, SenderNext

\* Whatever the order in which batches are closed by size, by time and by the
\* worker, group numbers, batches and parity belong together (encode and
\* fec_encoder_worker).
THEOREM SenderInvHolds == Spec => []SenderInv
  BY SenderInit, SenderStep, PTL DEF Spec

LEMMA SenderCovers == SenderInv => ParityCoversItsGroup
  <1> SUFFICES ASSUME SenderInv, NEW m \in net, IsParity(m)
               PROVE  /\ \A d \in Data(m.group_id) :
                            /\ d.packet_index < m.data_shards
                            /\ d.payload[1] = m.payload[d.packet_index + 1]
                      /\ \A i \in 1..m.data_shards :
                            \E d \in Data(m.group_id) : d.packet_index + 1 = i
    BY DEF ParityCoversItsGroup
  <1>1. m.data_shards = Len(m.payload) /\ Matches(m.group_id, m.payload)
    BY DEF SenderInv, ParityWellFormed
  <1>2. QED
    BY <1>1 DEF Matches

\* A parity packet is made of exactly the data packets that carry its number.
THEOREM ParityCovers == Spec => []ParityCoversItsGroup
  BY SenderInvHolds, SenderCovers, PTL
=============================================================================

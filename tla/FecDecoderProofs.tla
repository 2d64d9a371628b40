--------------------------- MODULE FecDecoderProofs ---------------------------
(***************************************************************************)
(* Proofs about the decoder of Fec.  GoodGroup ties a group of the decoder *)
(* to the messages it was filled from; together with SenderInv it tells    *)
(* which packet a shard is, and that a recovered packet is one of this     *)
(* group that was not received.                                            *)
(***************************************************************************)
EXTENDS FecProofs

\* A group under number k, and the messages that made it so.
GoodGroup(k, g) ==
    /\ k \in Nat /\ g \in Groups
    /\ \A i \in Present(g) :
        \E m \in net : /\ m.group_id = k /\ m.packet_index + 1 = i
                       /\ m.payload = g.received_shards[i]
    /\ g.data_shards # 0 =>
        \E m \in net : /\ IsParity(m) /\ m.group_id = k
                       /\ m.data_shards = g.data_shards
                       /\ m.parity_shards = g.parity_shards
    /\ g.data_shards # 0 /\ ~is_done(g) =>
        /\ \E i \in Present(g) : i > g.data_shards
        /\ Len(g.received_shards) = g.data_shards + g.parity_shards
    /\ g.data_shards = 0 /\ g.received_shards # <<>> =>
        Len(g.received_shards) \in Present(g)

GoodGroups == \A k \in DOMAIN groups : GoodGroup(k, groups[k])

-----------------------------------------------------------------------------
(* What storing a shard does to a group. *)

LEMMA MaxOfTwo ==
    ASSUME NEW a \in Nat, NEW b \in Nat
    PROVE  Max({a, b}) = IF a >= b THEN a ELSE b
  <1>1. \E x \in {a, b} : \A y \in {a, b} : x >= y
    OBVIOUS
  <1>2. Max({a, b}) \in {a, b} /\ \A y \in {a, b} : Max({a, b}) >= y
    BY <1>1 DEF Max
  <1>3. QED
    BY <1>2

LEMMA FunctionIsSeq ==
    ASSUME NEW S, NEW n \in Nat, NEW f \in [1..n -> S]
    PROVE  f \in Seq(S) /\ Len(f) = n
  OBVIOUS

LEMMA PlacedFacts ==
    ASSUME NEW s \in Seq(Seq(Packets)), NEW n \in Nat, NEW i \in 1..n,
           NEW x \in Seq(Packets)
    PROVE  /\ Placed(s, n, i, x) \in Seq(Seq(Packets))
           /\ Len(Placed(s, n, i, x)) = IF Len(s) >= n THEN Len(s) ELSE n
           /\ Placed(s, n, i, x)[i] = x
           /\ \A j \in 1..Len(Placed(s, n, i, x)) :
                j # i => Placed(s, n, i, x)[j] = IF j <= Len(s) THEN s[j] ELSE None
  <1> DEFINE len == IF Len(s) >= n THEN Len(s) ELSE n
             t == Placed(s, n, i, x)
  <1>1. Max({Len(s), n}) = len /\ len \in Nat /\ i \in 1..len
    BY MaxOfTwo
  <1>2. None \in Seq(Packets)
    BY DEF None
  <1>3. t = [j \in 1..len |->
                IF j = i THEN x ELSE IF j <= Len(s) THEN s[j] ELSE None]
    BY <1>1 DEF Placed
  <1> HIDE DEF t, len
  <1>4. \A j \in 1..len : j <= Len(s) => s[j] \in Seq(Packets)
    BY <1>1 DEF len
  <1>5. t \in [1..len -> Seq(Packets)]
    BY <1>2, <1>3, <1>4
  <1>6. t \in Seq(Seq(Packets)) /\ Len(t) = len
    BY ONLY <1>1, <1>5, FunctionIsSeq
  <1>7. t[i] = x /\ \A j \in 1..len : j # i => t[j] = IF j <= Len(s) THEN s[j] ELSE None
    BY <1>1, <1>3
  <1>8. QED
    BY <1>6, <1>7 DEF t, len

Wanted(m) == IF IsParity(m) THEN m.data_shards + m.parity_shards
                            ELSE m.packet_index + 1

LEMMA StoredFacts ==
    ASSUME NEW g \in Groups, NEW m \in Messages, m.payload # <<>>,
           m.packet_index < Wanted(m)
    PROVE  LET s == Stored(g, m) IN
           /\ s \in Groups
           /\ Len(s.received_shards) =
                IF Len(g.received_shards) >= Wanted(m)
                THEN Len(g.received_shards) ELSE Wanted(m)
           /\ s.received_shards[m.packet_index + 1] = m.payload
           /\ \A i \in Present(g) :
                i # m.packet_index + 1 => s.received_shards[i] = g.received_shards[i]
           /\ Present(s) = Present(g) \cup {m.packet_index + 1}
           /\ s.data_shards = IF IsParity(m) THEN m.data_shards ELSE g.data_shards
           /\ s.parity_shards = IF IsParity(m) THEN m.parity_shards ELSE g.parity_shards
           /\ s.received_original_count =
                IF IsParity(m) THEN g.received_original_count
                               ELSE g.received_original_count + 1
  <1> DEFINE i0 == m.packet_index + 1
             old == g.received_shards
             s == Stored(g, m)
  <1>0. PICK t : t = Placed(old, Wanted(m), i0, m.payload)
    OBVIOUS
  <1>1. /\ old \in Seq(Seq(Packets)) /\ Wanted(m) \in Nat /\ i0 \in 1..Wanted(m)
        /\ m.payload \in Seq(Packets)
    BY DEF Groups, Messages, Wanted
  <1>2. /\ t \in Seq(Seq(Packets))
        /\ Len(t) = IF Len(old) >= Wanted(m) THEN Len(old) ELSE Wanted(m)
        /\ t[i0] = m.payload
        /\ \A j \in 1..Len(t) : j # i0 => t[j] = IF j <= Len(old) THEN old[j] ELSE None
    <2>1. PICK f, n, i, x : f = old /\ n = Wanted(m) /\ i = i0 /\ x = m.payload
      OBVIOUS
    <2>2. f \in Seq(Seq(Packets)) /\ n \in Nat /\ i \in 1..n /\ x \in Seq(Packets)
      BY <1>1, <2>1
    <2>3. t = Placed(f, n, i, x)
      BY <1>0, <2>1
    <2>4. Placed(f, n, i, x) \in Seq(Seq(Packets))
      BY <2>2, PlacedFacts
    <2>5. Len(Placed(f, n, i, x)) = IF Len(f) >= n THEN Len(f) ELSE n
      BY <2>2, PlacedFacts
    <2>6. Placed(f, n, i, x)[i] = x
      BY <2>2, PlacedFacts
    <2>7. \A j \in 1..Len(Placed(f, n, i, x)) :
            j # i => Placed(f, n, i, x)[j] = IF j <= Len(f) THEN f[j] ELSE None
      BY <2>2, PlacedFacts
    <2>8. QED
      BY <2>1, <2>3, <2>4, <2>5, <2>6, <2>7
  <1>3. s = IF IsParity(m)
            THEN [g EXCEPT !.data_shards = m.data_shards,
                           !.parity_shards = m.parity_shards,
                           !.received_shards = t]
            ELSE [g EXCEPT !.received_shards = t,
                           !.received_original_count = @ + 1]
    BY <1>0 DEF Stored, Wanted
  <1> HIDE DEF s
  <1>4. /\ s \in Groups /\ s.received_shards = t
        /\ s.data_shards = IF IsParity(m) THEN m.data_shards ELSE g.data_shards
        /\ s.parity_shards = IF IsParity(m) THEN m.parity_shards ELSE g.parity_shards
        /\ s.received_original_count =
                IF IsParity(m) THEN g.received_original_count
                               ELSE g.received_original_count + 1
    <2>1. CASE IsParity(m)
      <3>1. m.data_shards \in Nat /\ m.parity_shards \in Nat
        BY DEF Messages
      <3>2. QED
        BY <1>2, <1>3, <2>1, <3>1 DEF Groups
    <2>2. CASE ~IsParity(m)
      <3>1. s = [g EXCEPT !.received_shards = t,
                          !.received_original_count = g.received_original_count + 1]
        BY <1>3, <2>2
      <3>2. g.received_original_count + 1 \in Nat /\ t \in Seq(Seq(Packets))
        BY <1>2 DEF Groups
      <3>3. QED
        BY <2>2, <3>1, <3>2 DEF Groups
    <2>3. QED
      BY <2>1, <2>2
  <1>5. Present(s) = Present(g) \cup {i0}
    <2>1. DOMAIN t = 1..Len(t) /\ DOMAIN old = 1..Len(old)
          /\ Len(t) >= Len(old) /\ i0 \in 1..Len(t)
          /\ Len(t) \in Nat /\ Len(old) \in Nat
      BY <1>1, <1>2
    <2>2. ASSUME NEW i \in Present(s) PROVE i \in Present(g) \cup {i0}
      BY <1>2, <1>4, <2>1, <2>2 DEF Present
    <2>3. ASSUME NEW i \in Present(g) PROVE i \in Present(s)
      <3>1. i \in 1..Len(old) /\ old[i] # None
        BY <2>1, <2>3 DEF Present
      <3>2. i \in 1..Len(t)
        BY <2>1, <3>1
      <3>3. t[i] = IF i = i0 THEN m.payload ELSE old[i]
        BY <1>2, <3>1, <3>2
      <3>4. t[i] # None
        BY <3>1, <3>3 DEF None
      <3>5. QED
        BY <1>4, <2>1, <3>2, <3>4 DEF Present
    <2>4. i0 \in Present(s)
      BY <1>2, <1>4, <2>1 DEF Present, None
    <2>5. QED
      BY <2>2, <2>3, <2>4
  <1>6. \A i \in Present(g) : i # i0 => t[i] = old[i]
    <2>1. \A i \in Present(g) : i \in 1..Len(old)
      BY <1>1 DEF Present
    <2>2. QED
      BY <1>1, <1>2, <2>1
  <1>7. QED
    BY <1>2, <1>4, <1>5, <1>6 DEF s

-----------------------------------------------------------------------------
(* Messages of one group. *)

LEMMA MessageFacts ==
    ASSUME SenderInv, NEW m \in net
    PROVE  /\ m \in Messages /\ m.group_id \in Nat /\ m.packet_index \in Nat
           /\ m.payload # <<>> /\ m.packet_index < Wanted(m)
           /\ ~IsParity(m) => m \in Data(m.group_id)
  <1>1. m \in Messages /\ m.group_id \in Nat /\ m.packet_index \in Nat
        /\ m.data_shards \in Nat /\ m.parity_shards \in Nat /\ m.payload \in Seq(Packets)
    BY DEF SenderInv, SenderTypes, Messages
  <1>2. CASE IsParity(m)
    <2>1. /\ m.data_shards = Len(m.payload) /\ m.data_shards # 0
          /\ m.packet_index \in m.data_shards..(m.data_shards + m.parity_shards - 1)
      BY <1>2 DEF SenderInv, ParityWellFormed, IsParity
    <2>2. QED
      BY <1>1, <1>2, <2>1 DEF Wanted
  <1>3. CASE ~IsParity(m)
    <2>1. PICK p \in Packets : m.payload = <<p>>
      BY <1>3 DEF SenderInv, DataWellFormed
    <2>2. QED
      BY <1>1, <1>3, <2>1 DEF Wanted, Data
  <1>4. QED
    BY <1>2, <1>3

LEMMA OneBatch ==
    ASSUME NEW k, NEW a \in Seq(Packets), NEW b \in Seq(Packets),
           net \subseteq Messages, Matches(k, a), Matches(k, b)
    PROVE  Len(a) <= Len(b) /\ \A i \in 1..Len(a) : a[i] = b[i]
  <1>1. ASSUME NEW i \in 1..Len(a) PROVE i \in 1..Len(b) /\ a[i] = b[i]
    <2>1. PICK d \in Data(k) : d.packet_index + 1 = i
      BY DEF Matches
    <2>2. d.packet_index \in Nat
      BY DEF Data, Messages
    <2>3. d.packet_index < Len(b) /\ <<a[i]>> = <<b[i]>>
      BY <2>1, <2>2 DEF Matches
    <2>4. QED
      BY <2>1, <2>2, <2>3
  <1>2. Len(a) <= Len(b)
    <2>1. CASE Len(a) = 0
      BY <2>1
    <2>2. CASE Len(a) # 0
      BY <1>1, <2>2
    <2>3. QED
      BY <2>1, <2>2
  <1>3. QED
    BY <1>1, <1>2

\* All parity messages of a group speak of one batch.
LEMMA ParityAgrees ==
    ASSUME SenderInv, NEW m \in net, NEW n \in net, IsParity(m), IsParity(n),
           m.group_id = n.group_id
    PROVE  /\ m.data_shards = n.data_shards /\ m.parity_shards = n.parity_shards
           /\ \A i \in 1..m.data_shards : m.payload[i] = n.payload[i]
  <1>1. /\ m.payload \in Seq(Packets) /\ n.payload \in Seq(Packets)
        /\ net \subseteq Messages
    BY DEF SenderInv, SenderTypes, Messages
  <1>2. /\ m.data_shards = Len(m.payload) /\ n.data_shards = Len(n.payload)
        /\ m.parity_shards = ParityShards(m.data_shards)
        /\ n.parity_shards = ParityShards(n.data_shards)
        /\ Matches(m.group_id, m.payload) /\ Matches(m.group_id, n.payload)
    BY DEF SenderInv, ParityWellFormed
  <1>3. Len(m.payload) <= Len(n.payload) /\ Len(n.payload) <= Len(m.payload)
        /\ \A i \in 1..Len(m.payload) : m.payload[i] = n.payload[i]
    BY <1>1, <1>2, OneBatch
  <1>4. QED
    BY <1>1, <1>2, <1>3

\* Places of the messages of a group with parity n.
LEMMA PlacesOfGroup ==
    ASSUME SenderInv, NEW m \in net, NEW n \in net, IsParity(n),
           m.group_id = n.group_id
    PROVE  IF IsParity(m)
           THEN /\ m.packet_index + 1 > n.data_shards
                /\ m.packet_index + 1 <= n.data_shards + n.parity_shards
                /\ \A i \in 1..n.data_shards : m.payload[i] = n.payload[i]
           ELSE /\ m.packet_index + 1 <= n.data_shards
                /\ m.payload = <<n.payload[m.packet_index + 1]>>
  <1>1. m.packet_index \in Nat /\ n.data_shards \in Nat /\ n.parity_shards \in Nat
    BY DEF SenderInv, SenderTypes, Messages
  <1>2. CASE IsParity(m)
    <2>1. m.data_shards = n.data_shards /\ m.parity_shards = n.parity_shards
          /\ \A i \in 1..m.data_shards : m.payload[i] = n.payload[i]
      BY <1>2, ParityAgrees
    <2>2. m.packet_index \in m.data_shards..(m.data_shards + m.parity_shards - 1)
      BY <1>2 DEF SenderInv, ParityWellFormed
    <2>3. QED
      BY <1>1, <1>2, <2>1, <2>2
  <1>3. CASE ~IsParity(m)
    <2>1. m \in Data(n.group_id)
      BY <1>3 DEF Data
    <2>2. n.data_shards = Len(n.payload) /\ Matches(n.group_id, n.payload)
      BY DEF SenderInv, ParityWellFormed
    <2>3. QED
      BY <1>1, <1>3, <2>1, <2>2 DEF Matches
  <1>4. QED
    BY <1>2, <1>3

-----------------------------------------------------------------------------
(* Groups stay good. *)

LEMMA NetGrows ==
    ASSUME net \subseteq net', NEW k, NEW g, GoodGroup(k, g)
    PROVE  GoodGroup(k, g)'
  BY DEF GoodGroup, IsParity, Present, is_done

LEMMA EmptyIsGood ==
    ASSUME NEW k \in Nat
    PROVE  GoodGroup(k, EmptyGroup) /\ ~is_done(EmptyGroup)
  BY DEF GoodGroup, EmptyGroup, Groups, Present, is_done

LEMMA GroupOfIsGood ==
    ASSUME SenderInv, GoodGroups, NEW m \in net
    PROVE  GoodGroup(m.group_id, GroupOf(m))
  BY MessageFacts, EmptyIsGood DEF GoodGroups, GroupOf

LEMMA DoneIsGood ==
    ASSUME NEW k, NEW g, GoodGroup(k, g), g.data_shards # 0
    PROVE  GoodGroup(k, done(g)) /\ is_done(done(g)) /\ done(g).data_shards = g.data_shards
  <1>1. g \in Groups
    BY DEF GoodGroup
  <1>0. <<>> \in Seq(Seq(Packets))
    OBVIOUS
  <1>2. /\ done(g) \in Groups /\ done(g).data_shards = g.data_shards
        /\ done(g).parity_shards = g.parity_shards
        /\ done(g).received_original_count = g.data_shards
        /\ done(g).received_shards = <<>>
    BY <1>0, <1>1 DEF done, Groups
  <1>3. Present(done(g)) = {} /\ is_done(done(g))
    BY <1>2 DEF Present, is_done
  <1>4. QED
    BY <1>2, <1>3 DEF GoodGroup

LEMMA StoredIsGood ==
    ASSUME SenderInv, NEW m \in net, NEW g, GoodGroup(m.group_id, g), ~is_done(g)
    PROVE  GoodGroup(m.group_id, Stored(g, m))
  <1> DEFINE s == Stored(g, m)
             k == m.group_id
             i0 == m.packet_index + 1
  <1>1. /\ m \in Messages /\ k \in Nat /\ m.packet_index \in Nat /\ m.payload # <<>>
        /\ m.packet_index < Wanted(m) /\ m.data_shards \in Nat /\ m.parity_shards \in Nat
        /\ g \in Groups
    BY MessageFacts DEF Messages, GoodGroup
  <1>2. /\ s \in Groups
        /\ Len(s.received_shards) =
             IF Len(g.received_shards) >= Wanted(m)
             THEN Len(g.received_shards) ELSE Wanted(m)
        /\ s.received_shards[i0] = m.payload
        /\ \A i \in Present(g) : i # i0 => s.received_shards[i] = g.received_shards[i]
        /\ Present(s) = Present(g) \cup {i0}
        /\ s.data_shards = IF IsParity(m) THEN m.data_shards ELSE g.data_shards
        /\ s.parity_shards = IF IsParity(m) THEN m.parity_shards ELSE g.parity_shards
    BY <1>1, StoredFacts
  <1>3. /\ Len(g.received_shards) \in Nat /\ g.data_shards \in Nat /\ g.parity_shards \in Nat
        /\ g.received_shards = <<>> <=> Len(g.received_shards) = 0
    BY <1>1 DEF Groups
  <1> HIDE DEF s
  <1>4. ASSUME NEW i \in Present(s)
        PROVE  \E n \in net : /\ n.group_id = k /\ n.packet_index + 1 = i
                              /\ n.payload = s.received_shards[i]
    <2>1. CASE i = i0
      BY <1>2, <2>1
    <2>2. CASE i \in Present(g) /\ i # i0
      BY <1>2, <2>2 DEF GoodGroup
    <2>3. QED
      BY <1>2, <2>1, <2>2
  <1>5. ASSUME s.data_shards # 0
        PROVE  \E n \in net : /\ IsParity(n) /\ n.group_id = k
                              /\ n.data_shards = s.data_shards
                              /\ n.parity_shards = s.parity_shards
    BY <1>2, <1>5 DEF GoodGroup, IsParity
  <1>6. ASSUME s.data_shards # 0
        PROVE  /\ \E i \in Present(s) : i > s.data_shards
               /\ Len(s.received_shards) = s.data_shards + s.parity_shards
    <2>1. CASE IsParity(m)
      <3>1. i0 > m.data_shards /\ i0 <= m.data_shards + m.parity_shards
        BY <2>1, PlacesOfGroup
      <3>2. Len(g.received_shards) <= m.data_shards + m.parity_shards
        <4>1. CASE g.data_shards # 0
          <5>1. PICK n \in net : /\ IsParity(n) /\ n.group_id = k
                                 /\ n.data_shards = g.data_shards
                                 /\ n.parity_shards = g.parity_shards
            BY <4>1 DEF GoodGroup
          <5>2. n.data_shards = m.data_shards /\ n.parity_shards = m.parity_shards
            BY <2>1, <5>1, ParityAgrees
          <5>3. Len(g.received_shards) = g.data_shards + g.parity_shards
            BY <4>1 DEF GoodGroup
          <5>4. Len(g.received_shards) = m.data_shards + m.parity_shards
            BY <5>1, <5>2, <5>3
          <5>5. QED
            BY <1>3, <5>4
        <4>2. CASE g.data_shards = 0 /\ g.received_shards # <<>>
          <5>1. PICK n \in net : n.group_id = k /\ n.packet_index + 1 = Len(g.received_shards)
            BY <4>2 DEF GoodGroup
          <5>2. n.packet_index + 1 <= m.data_shards + m.parity_shards
            <6>1. n.packet_index \in Nat
              BY <5>1, MessageFacts
            <6>2. \/ n.packet_index + 1 <= m.data_shards
                  \/ n.packet_index + 1 <= m.data_shards + m.parity_shards
              BY <2>1, <5>1, PlacesOfGroup
            <6>3. QED
              BY <1>1, <6>1, <6>2
          <5>3. QED
            BY <5>1, <5>2
        <4>3. CASE g.received_shards = <<>>
          BY <1>1, <1>3, <4>3
        <4>4. QED
          BY <4>1, <4>2, <4>3
      <3>3. Wanted(m) = m.data_shards + m.parity_shards
        BY <2>1 DEF Wanted
      <3>4. s.data_shards = m.data_shards /\ s.parity_shards = m.parity_shards
        BY <1>2, <2>1
      <3>5. i0 \in Present(s)
        BY <1>2
      <3>6. Len(s.received_shards) = m.data_shards + m.parity_shards
        <4>1. CASE Len(g.received_shards) >= Wanted(m)
          <5>1. Len(s.received_shards) = Len(g.received_shards)
            BY <1>2, <4>1
          <5>2. QED
            BY <1>1, <1>3, <3>2, <3>3, <4>1, <5>1
        <4>2. CASE ~(Len(g.received_shards) >= Wanted(m))
          BY <1>2, <3>3, <4>2
        <4>3. QED
          BY <4>1, <4>2
      <3>7. QED
        BY <3>1, <3>4, <3>5, <3>6
    <2>2. CASE ~IsParity(m)
      <3>1. /\ g.data_shards # 0
            /\ \E i \in Present(g) : i > g.data_shards
            /\ Len(g.received_shards) = g.data_shards + g.parity_shards
        BY <1>2, <1>6, <2>2 DEF GoodGroup
      <3>2. PICK n \in net : /\ IsParity(n) /\ n.group_id = k
                             /\ n.data_shards = g.data_shards
        BY <3>1 DEF GoodGroup
      <3>3. i0 <= g.data_shards
        BY <2>2, <3>2, PlacesOfGroup
      <3>4. Wanted(m) = i0
        BY <2>2 DEF Wanted
      <3>5. /\ s.data_shards = g.data_shards /\ s.parity_shards = g.parity_shards
            /\ Present(g) \subseteq Present(s)
        BY <1>2, <2>2
      <3>6. Len(g.received_shards) >= Wanted(m)
        BY <1>1, <1>3, <3>1, <3>3, <3>4
      <3>7. Len(s.received_shards) = Len(g.received_shards)
        BY <1>2, <3>6
      <3>8. QED
        BY <3>1, <3>5, <3>7
    <2>3. QED
      BY <2>1, <2>2
  <1>7. ASSUME s.data_shards = 0
        PROVE  Len(s.received_shards) \in Present(s)
    <2>1. ~IsParity(m) /\ g.data_shards = 0
      BY <1>2, <1>7 DEF IsParity
    <2>2. Wanted(m) = i0
      BY <2>1 DEF Wanted
    <2>3. CASE Len(g.received_shards) > i0
      <3>1. Len(g.received_shards) \in Present(g)
        BY <1>1, <1>3, <2>1, <2>3 DEF GoodGroup
      <3>2. QED
        BY <1>1, <1>2, <1>3, <2>2, <2>3, <3>1
    <2>4. CASE ~(Len(g.received_shards) > i0)
      BY <1>1, <1>2, <1>3, <2>2, <2>4
    <2>5. QED
      BY <2>3, <2>4
  <1>8. GoodGroup(k, s)
    BY <1>1, <1>2, <1>4, <1>5, <1>6, <1>7 DEF GoodGroup
  <1>9. QED
    BY <1>8 DEF s

-----------------------------------------------------------------------------
(* GoodGroups is an invariant. *)

LEMMA UpdateKeepsGood ==
    ASSUME GoodGroups, NEW m \in net, NEW g, GoodGroup(m.group_id, g),
           UpdateAndCleanUp(m, g), UNCHANGED net
    PROVE  GoodGroups'
  <1>1. ASSUME NEW k \in DOMAIN groups' PROVE GoodGroup(k, groups'[k])
    BY <1>1 DEF UpdateAndCleanUp, GoodGroups
  <1>2. ASSUME NEW k \in DOMAIN groups' PROVE GoodGroup(k, groups[k])'
    <2>1. PICK x : x = groups'[k]
      OBVIOUS
    <2>2. GoodGroup(k, x)'
      BY <1>1, <1>2, <2>1, NetGrows
    <2>3. QED
      BY <2>1, <2>2 DEF GoodGroup
  <1>3. QED
    BY <1>2 DEF GoodGroups

LEMMA ReceiveKeepsGood ==
    ASSUME SenderInv, GoodGroups, NEW m \in net, Receive(m)
    PROVE  GoodGroups'
  <1> DEFINE s == Stored(GroupOf(m), m)
  <1>1. CASE Ignores(m)
    BY <1>1 DEF Ignores, encoder, GoodGroups, GoodGroup, IsParity, Present, is_done
  <1>2. CASE ~Ignores(m)
    <2>1. Accepts(m) /\ UNCHANGED net /\ ~is_done(GroupOf(m))
      BY <1>2 DEF Receive, Completes, Keeps, Recovers, FailsToRecover, Accepts, encoder
    <2>2. GoodGroup(m.group_id, s)
      BY <2>1, GroupOfIsGood, StoredIsGood
    <2>3. CASE Completes(m) \/ Recovers(m)
      <3>1. s.data_shards # 0
        BY <2>3 DEF Completes, Recovers, is_done, Enough
      <3>2. GoodGroup(m.group_id, done(s))
        BY <2>2, <3>1, DoneIsGood
      <3>3. UpdateAndCleanUp(m, done(s))
        BY <2>3 DEF Completes, Recovers
      <3>4. QED
        BY <2>1, <3>2, <3>3, UpdateKeepsGood
    <2>4. CASE Keeps(m)
      BY <2>1, <2>2, <2>4, UpdateKeepsGood DEF Keeps
    <2>5. CASE FailsToRecover(m)
      <3>1. groups' = [k \in DOMAIN groups \cup {m.group_id} |->
                            IF k = m.group_id THEN s ELSE groups[k]]
        BY <2>5 DEF FailsToRecover
      <3>2. ASSUME NEW k \in DOMAIN groups' PROVE GoodGroup(k, groups'[k])
        BY <2>2, <3>1, <3>2 DEF GoodGroups
      <3>3. ASSUME NEW k \in DOMAIN groups' PROVE GoodGroup(k, groups[k])'
        <4>1. PICK x : x = groups'[k]
          OBVIOUS
        <4>2. GoodGroup(k, x)'
          BY <2>1, <3>2, <3>3, <4>1, NetGrows
        <4>3. QED
          BY <4>1, <4>2 DEF GoodGroup
      <3>4. QED
        BY <3>3 DEF GoodGroups
    <2>6. QED
      BY <1>2, <2>3, <2>4, <2>5 DEF Receive
  <1>3. QED
    BY <1>1, <1>2

LEMMA GroupsKept ==
    ASSUME GoodGroups, net \subseteq net', UNCHANGED groups
    PROVE  GoodGroups'
  <1>1. ASSUME NEW k \in DOMAIN groups PROVE GoodGroup(k, groups[k])'
    <2>1. PICK x : x = groups[k]
      OBVIOUS
    <2>2. GoodGroup(k, x)'
      BY <1>1, <2>1, NetGrows DEF GoodGroups
    <2>3. QED
      BY <2>1, <2>2 DEF GoodGroup
  <1>2. QED
    BY <1>1 DEF GoodGroups

LEMMA SenderOnlySends ==
    ASSUME SenderNext
    PROVE  net \subseteq net' /\ UNCHANGED decoder
  BY DEF SenderNext, encode, full_batch, timeout_batch

LEMMA GoodGroupsStep == SenderInv /\ GoodGroups /\ [Next]_vars => GoodGroups'
  <1> SUFFICES ASSUME SenderInv, GoodGroups, [Next]_vars PROVE GoodGroups'
    OBVIOUS
  <1>1. CASE SenderNext
    BY <1>1, SenderOnlySends, GroupsKept DEF decoder
  <1>2. CASE \E m \in net : Receive(m)
    BY <1>2, ReceiveKeepsGood
  <1>3. CASE GroupExpires \/ CleanupBecomesDue \/ UNCHANGED vars
    BY <1>3, GroupsKept DEF GroupExpires, CleanupBecomesDue, vars, encoder, decoder
  <1>4. QED
    BY <1>1, <1>2, <1>3 DEF Next, ReceiverNext

LEMMA GoodGroupsInit == Init => GoodGroups
  BY DEF Init, GoodGroups

\* The decoder's groups are what the messages say: a group that knows its
\* number of data shards and is not done holds a parity shard and has room for
\* exactly the shards of its batch, so that the length check of decode_with_rs
\* never fails, in whatever order messages arrive.
THEOREM GroupsAreGood == Spec => [](SenderInv /\ GoodGroups)
  BY SenderInit, SenderStep, GoodGroupsInit, GoodGroupsStep, PTL DEF Spec

-----------------------------------------------------------------------------
(* Packets are handed on once. *)

LEMMA ShardIsPresent ==
    ASSUME NEW g \in Groups, NEW d \in Messages
    PROVE  HasShard(g, d) <=> d.packet_index + 1 \in Present(g)
  <1>1. g.received_shards \in Seq(Seq(Packets)) /\ d.packet_index \in Nat
    BY DEF Groups, Messages
  <1>2. QED
    BY <1>1 DEF HasShard, Present

\* A recovered packet is the missing data packet of its place.
LEMMA RecoveredIsMissing ==
    ASSUME SenderInv, NEW k, NEW g, GoodGroup(k, g), g.data_shards # 0, ~is_done(g),
           NEW i \in Missing(g)
    PROVE  \E d \in Data(k) : d.packet_index + 1 = i /\ d.payload = <<BatchOf(g)[i]>>
  <1>1. PICK n \in net : IsParity(n) /\ n.group_id = k /\ n.data_shards = g.data_shards
    BY DEF GoodGroup
  <1>2. PICK j : /\ j = CHOOSE x \in Present(g) : x > g.data_shards
                 /\ j \in Present(g) /\ j > g.data_shards
    BY DEF GoodGroup
  <1>3. PICK q \in net : /\ q.group_id = k /\ q.packet_index + 1 = j
                         /\ q.payload = g.received_shards[j]
    BY <1>2 DEF GoodGroup
  <1>4. BatchOf(g) = q.payload
    BY <1>2, <1>3 DEF BatchOf
  <1>5. IsParity(q)
    <2>1. q.packet_index \in Nat /\ g.data_shards \in Nat
      BY MessageFacts DEF GoodGroup, Groups
    <2>2. ~IsParity(q) => q.packet_index + 1 <= n.data_shards
      BY <1>1, <1>3, PlacesOfGroup
    <2>3. QED
      BY <1>1, <1>2, <1>3, <2>1, <2>2
  <1>6. q.data_shards = n.data_shards
    BY <1>1, <1>3, <1>5, ParityAgrees
  <1>7. q.data_shards = Len(q.payload) /\ Matches(k, q.payload)
    BY <1>3, <1>5 DEF SenderInv, ParityWellFormed
  <1>8. i \in 1..Len(q.payload)
    BY <1>1, <1>6, <1>7 DEF Missing
  <1>9. QED
    BY <1>4, <1>7, <1>8 DEF Matches

\* The decoder knows of the data packet: it must not be handed on again.
Seen(d) == is_done(GroupOf(d)) \/ HasShard(GroupOf(d), d)

Fresh ==
    \A d \in net : ~IsParity(d) /\ d.group_id \notin forgotten =>
        /\ delivered[d.payload[1]] <= 1
        /\ delivered[d.payload[1]] # 0 => Seen(d)

DeliveredTypes ==
    /\ delivered \in [Packets -> Nat]
    /\ \A p \in unsent : delivered[p] = 0

\* The names of the packets that are handed on.
Names(packets) == {h.packet : h \in packets}

\* How delivered follows the names that are handed on.
Counted(names) ==
    \A p \in Packets :
        /\ p \notin names => delivered'[p] = delivered[p]
        /\ delivered[p] = 0 => delivered'[p] <= 1

LEMMA DataPacket ==
    ASSUME SenderInv, NEW d \in net, ~IsParity(d)
    PROVE  /\ d.payload[1] \in Packets \ unsent
           /\ d.payload = <<d.payload[1]>>
  BY DEF SenderInv, DataWellFormed

LEMMA HandOnFacts ==
    ASSUME DeliveredTypes, NEW packets, HandOn(packets), UNCHANGED unsent,
           SenderTypes, \A p \in Names(packets) : p \notin unsent
    PROVE  DeliveredTypes' /\ Counted(Names(packets))
  <1>1. PICK names : names = Names(packets)
    OBVIOUS
  <1>2. delivered' = [p \in Packets |->
            IF p \in names /\ delivered[p] < 2 THEN delivered[p] + 1 ELSE delivered[p]]
    BY <1>1 DEF HandOn, Names, DELIVERED_CAP
  <1>3. \A p \in Packets : delivered[p] \in Nat
    BY DEF DeliveredTypes
  <1>4. delivered' \in [Packets -> Nat]
    BY <1>2, <1>3
  <1>5. \A p \in unsent : delivered'[p] = 0
    BY <1>1, <1>2 DEF DeliveredTypes, SenderTypes
  <1>6. Counted(names)
    BY <1>2, <1>3 DEF Counted
  <1>7. QED
    BY <1>1, <1>4, <1>5, <1>6 DEF DeliveredTypes

\* Only the group of the message changes, and a group that goes is forgotten.
OnlyGroup(m, g) ==
    \A d \in net : d.group_id \notin forgotten' =>
        /\ d.group_id \notin forgotten
        /\ GroupOf(d)' = IF d.group_id = m.group_id THEN g ELSE GroupOf(d)

LEMMA UpdateIsOfOneGroup ==
    ASSUME NEW m, NEW g, UpdateAndCleanUp(m, g)
    PROVE  OnlyGroup(m, g)
  <1>1. PICK gone :
            /\ groups' = [k \in (DOMAIN groups \cup {m.group_id}) \ gone |->
                            IF k = m.group_id THEN g ELSE groups[k]]
            /\ forgotten' = forgotten \cup gone
    BY DEF UpdateAndCleanUp
  <1>2. ASSUME NEW d \in net, d.group_id \notin forgotten'
        PROVE  /\ d.group_id \notin forgotten
               /\ GroupOf(d)' = IF d.group_id = m.group_id THEN g ELSE GroupOf(d)
    BY <1>1, <1>2 DEF GroupOf
  <1>3. QED
    BY <1>2 DEF OnlyGroup

\* What a step may do: it hands on data packets of the group that were not seen,
\* and sees them with those it had seen.
LEMMA FreshHandedOn ==
    ASSUME SenderInv, Fresh, UNCHANGED net, NEW m \in net, NEW g, OnlyGroup(m, g),
           NEW names, Counted(names),
           \A p \in names :
                \E d \in Data(m.group_id) : d.payload = <<p>> /\ ~Seen(d),
           \A d \in Data(m.group_id) :
                Seen(d) \/ d.payload[1] \in names => is_done(g) \/ HasShard(g, d)
    PROVE  Fresh'
  <1> SUFFICES ASSUME NEW d \in net, ~IsParity(d), d.group_id \notin forgotten'
               PROVE  /\ delivered'[d.payload[1]] <= 1
                      /\ delivered'[d.payload[1]] # 0 => Seen(d)'
    BY DEF Fresh, IsParity
  <1>1. PICK p : p = d.payload[1] /\ p \in Packets /\ d.payload = <<p>>
    BY DataPacket
  <1>2. PICK x : x = GroupOf(d)'
    OBVIOUS
  <1>3. /\ d.group_id \notin forgotten
        /\ x = IF d.group_id = m.group_id THEN g ELSE GroupOf(d)
    BY <1>2 DEF OnlyGroup
  <1>4. Seen(d)' <=> is_done(x) \/ HasShard(x, d)
    BY <1>2 DEF Seen, is_done, HasShard
  <1>5. delivered[p] <= 1 /\ (delivered[p] # 0 => Seen(d))
    BY <1>1, <1>3 DEF Fresh
  <1>6. d.group_id = m.group_id => d \in Data(m.group_id)
    BY DEF Data
  <1>7. CASE p \in names
    <2>1. PICK e \in Data(m.group_id) : e.payload = <<p>> /\ ~Seen(e)
      BY <1>7
    <2>2. e = d
      BY <1>1, <2>1 DEF SenderInv, SentOnce, Data
    <2>3. delivered[p] = 0 /\ d \in Data(m.group_id) /\ d.group_id = m.group_id
      BY <1>5, <2>1, <2>2 DEF Data
    <2>4. delivered'[p] <= 1
      BY <1>1, <2>3 DEF Counted
    <2>5. is_done(g) \/ HasShard(g, d)
      BY <1>1, <1>7, <2>3
    <2>6. QED
      BY <1>1, <1>3, <1>4, <2>3, <2>4, <2>5
  <1>8. CASE p \notin names
    <2>1. delivered'[p] = delivered[p]
      BY <1>1, <1>8 DEF Counted
    <2>2. Seen(d) => is_done(x) \/ HasShard(x, d)
      BY <1>3, <1>6 DEF Seen
    <2>3. QED
      BY <1>1, <1>4, <1>5, <2>1, <2>2
  <1>9. QED
    BY <1>7, <1>8

\* Storing a shard makes the decoder see its packet, and loses no other.
LEMMA StoredIsSeen ==
    ASSUME SenderInv, GoodGroups, NEW m \in net, ~is_done(GroupOf(m)),
           NEW s, s = Stored(GroupOf(m), m)
    PROVE  /\ \A d \in Data(m.group_id) : Seen(d) \/ d = m => HasShard(s, d)
           /\ Present(GroupOf(m)) \subseteq Present(s)
           /\ GoodGroup(m.group_id, s)
  <1>1. PICK g : g = GroupOf(m)
    OBVIOUS
  <1>2. g \in Groups /\ GoodGroup(m.group_id, g) /\ GoodGroup(m.group_id, s)
    BY <1>1, GroupOfIsGood, StoredIsGood DEF GoodGroup
  <1>3. Present(s) = Present(g) \cup {m.packet_index + 1} /\ s \in Groups
    BY <1>1, <1>2, MessageFacts, StoredFacts
  <1>4. ASSUME NEW d \in Data(m.group_id), Seen(d) \/ d = m PROVE HasShard(s, d)
    <2>1. d \in Messages /\ GroupOf(d) = g
      BY <1>1, MessageFacts DEF Data, GroupOf
    <2>2. d.packet_index + 1 \in Present(s)
      BY <1>1, <1>2, <1>3, <1>4, <2>1, ShardIsPresent DEF Seen
    <2>3. QED
      BY <1>3, <2>1, <2>2, ShardIsPresent
  <1>5. QED
    BY <1>1, <1>2, <1>3, <1>4

\* The packets that are handed on were not seen.
LEMMA OwnIsUnseen ==
    ASSUME SenderInv, NEW m \in net, Accepts(m)
    PROVE  \A p \in Names(Own(m)) :
                \E d \in Data(m.group_id) : d = m /\ d.payload = <<p>> /\ ~Seen(d)
  <1>1. CASE IsParity(m)
    BY <1>1 DEF Own, Names
  <1>2. CASE ~IsParity(m)
    <2>1. \A p \in Names(Own(m)) : p = m.payload[1]
      BY <1>2 DEF Own, Names
    <2>2. m \in Data(m.group_id) /\ m.payload = <<m.payload[1]>> /\ ~Seen(m)
      BY <1>2, DataPacket DEF Data, Accepts, Seen
    <2>3. QED
      BY <2>1, <2>2
  <1>3. QED
    BY <1>1, <1>2

LEMMA RecoveredIsUnseen ==
    ASSUME SenderInv, GoodGroups, NEW m \in net, Accepts(m),
           NEW s, s = Stored(GroupOf(m), m), s.data_shards # 0, ~is_done(s),
           NEW i \in Missing(s)
    PROVE  \E d \in Data(m.group_id) : d.payload = <<BatchOf(s)[i]>> /\ ~Seen(d)
  <1>1. PICK g : g = GroupOf(m)
    OBVIOUS
  <1>2. ~is_done(g) /\ Present(g) \subseteq Present(s) /\ GoodGroup(m.group_id, s)
        /\ g \in Groups
    BY <1>1, StoredIsSeen, GroupOfIsGood DEF Accepts, GoodGroup
  <1>3. PICK d \in Data(m.group_id) :
            d.packet_index + 1 = i /\ d.payload = <<BatchOf(s)[i]>>
    BY <1>2, RecoveredIsMissing
  <1>4. d \in Messages /\ GroupOf(d) = g
    BY <1>1, MessageFacts DEF Data, GroupOf
  <1>5. ~HasShard(g, d)
    BY <1>2, <1>3, <1>4, ShardIsPresent DEF Missing
  <1>6. QED
    BY <1>2, <1>3, <1>4, <1>5 DEF Seen

LEMMA ReceiveKeepsFresh ==
    ASSUME SenderInv, GoodGroups, DeliveredTypes, Fresh, NEW m \in net, Receive(m)
    PROVE  DeliveredTypes' /\ Fresh'
  <1>1. CASE Ignores(m)
    BY <1>1 DEF Ignores, encoder, Fresh, DeliveredTypes, Seen, GroupOf, is_done,
                HasShard, IsParity
  <1>2. CASE ~Ignores(m)
    <2>1. Accepts(m) /\ UNCHANGED <<net, unsent>> /\ ~is_done(GroupOf(m))
      BY <1>2 DEF Receive, Completes, Keeps, Recovers, FailsToRecover, Accepts, encoder
    <2>2. PICK s : s = Stored(GroupOf(m), m)
      OBVIOUS
    <2>3. /\ \A d \in Data(m.group_id) : Seen(d) \/ d = m => HasShard(s, d)
          /\ GoodGroup(m.group_id, s)
      BY <2>1, <2>2, StoredIsSeen
    <2>4. SenderTypes
      BY DEF SenderInv
    <2>5. \A p \in Names(Own(m)) :
                \E d \in Data(m.group_id) : d = m /\ d.payload = <<p>> /\ ~Seen(d)
      BY <2>1, OwnIsUnseen
    <2>6. \A p : (\E d \in Data(m.group_id) : d.payload = <<p>>) => p \notin unsent
      <3>1. ASSUME NEW p, NEW d \in Data(m.group_id), d.payload = <<p>>
            PROVE  p \notin unsent
        <4>1. d.payload[1] \in Packets \ unsent
          BY DataPacket DEF Data
        <4>2. QED
          BY <3>1, <4>1
      <3>2. QED
        BY <3>1
    <2>7. CASE Completes(m)
      <3>1. s.data_shards # 0 /\ UpdateAndCleanUp(m, done(s)) /\ HandOn(Own(m))
        BY <2>2, <2>7 DEF Completes, is_done
      <3>2. is_done(done(s))
        BY <2>3, <3>1, DoneIsGood
      <3>3. OnlyGroup(m, done(s))
        BY <3>1, UpdateIsOfOneGroup
      <3>4. DeliveredTypes' /\ Counted(Names(Own(m)))
        BY <2>1, <2>4, <2>5, <2>6, <3>1, HandOnFacts
      <3>5. Fresh'
        BY <2>1, <2>5, <3>2, <3>3, <3>4, FreshHandedOn
      <3>6. QED
        BY <3>4, <3>5
    <2>8. CASE Keeps(m)
      <3>1. UpdateAndCleanUp(m, s) /\ HandOn(Own(m))
        BY <2>2, <2>8 DEF Keeps
      <3>2. OnlyGroup(m, s)
        BY <3>1, UpdateIsOfOneGroup
      <3>3. DeliveredTypes' /\ Counted(Names(Own(m)))
        BY <2>1, <2>4, <2>5, <2>6, <3>1, HandOnFacts
      <3>4. ASSUME NEW d \in Data(m.group_id), d.payload[1] \in Names(Own(m))
            PROVE  d = m
        <4>1. m \in Data(m.group_id) /\ m.payload = <<d.payload[1]>>
          BY <2>5, <3>4
        <4>2. d.payload = <<d.payload[1]>>
          BY DataPacket DEF Data
        <4>3. QED
          BY <4>1, <4>2 DEF SenderInv, SentOnce, Data
      <3>5. \A d \in Data(m.group_id) :
                Seen(d) \/ d.payload[1] \in Names(Own(m)) => is_done(s) \/ HasShard(s, d)
        BY <2>3, <3>4
      <3>6. Fresh'
        BY <2>1, <2>5, <3>2, <3>3, <3>5, FreshHandedOn
      <3>7. QED
        BY <3>3, <3>6
    <2>9. CASE Recovers(m)
      <3>1. /\ s.data_shards # 0 /\ ~is_done(s) /\ UpdateAndCleanUp(m, done(s))
            /\ \E cut \in Cuts(s, m) : HandOn(Returned(s, m, cut))
        BY <2>2, <2>9 DEF Recovers, Enough
      <3>2. PICK cut : HandOn(Returned(s, m, cut))
        BY <3>1
      <3>3. is_done(done(s))
        BY <2>3, <3>1, DoneIsGood
      <3>4. OnlyGroup(m, done(s))
        BY <3>1, UpdateIsOfOneGroup
      <3>5. PICK names : names = Names(Returned(s, m, cut))
        OBVIOUS
      <3>6. ASSUME NEW p \in names
            PROVE  \E d \in Data(m.group_id) : d.payload = <<p>> /\ ~Seen(d)
        <4>1. p \in Names(Own(m)) \/ \E i \in Missing(s) : p = BatchOf(s)[i]
          BY <3>5, <3>6 DEF Names, Returned
        <4>2. QED
          BY <2>1, <2>2, <2>5, <3>1, <4>1, RecoveredIsUnseen
      <3>7. DeliveredTypes' /\ Counted(names)
        BY <2>1, <2>4, <2>6, <3>2, <3>5, <3>6, HandOnFacts
      <3>8. Fresh'
        BY <2>1, <3>3, <3>4, <3>6, <3>7, FreshHandedOn
      <3>9. QED
        BY <3>7, <3>8
    <2>10. CASE FailsToRecover(m)
      <3>1. /\ groups' = [k \in DOMAIN groups \cup {m.group_id} |->
                            IF k = m.group_id THEN s ELSE groups[k]]
            /\ UNCHANGED <<delivered, forgotten>>
        BY <2>2, <2>10 DEF FailsToRecover
      <3>2. OnlyGroup(m, s)
        BY <3>1 DEF OnlyGroup, GroupOf
      <3>3. Counted({}) /\ DeliveredTypes'
        BY <2>1, <3>1 DEF Counted, DeliveredTypes
      <3>4. Fresh'
        BY <2>1, <2>3, <3>2, <3>3, FreshHandedOn
      <3>5. QED
        BY <3>3, <3>4
    <2>11. QED
      BY <1>2, <2>7, <2>8, <2>9, <2>10 DEF Receive
  <1>3. QED
    BY <1>1, <1>2

\* A packet that is sent was not handed on before.
LEMMA SendingKeepsFresh ==
    ASSUME SenderInv, DeliveredTypes, Fresh, SenderNext
    PROVE  DeliveredTypes' /\ Fresh'
  <1>1. UNCHANGED decoder /\ unsent' \subseteq unsent
    BY DEF SenderNext, encode, full_batch, timeout_batch
  <1>2. ASSUME NEW d \in net', d \notin net, ~IsParity(d)
        PROVE  d.payload[1] \in unsent
    <2>1. CASE \E p \in Packets : encode(p)
      BY <1>2, <2>1 DEF encode, DataMessage
    <2>2. ASSUME NEW g, NEW items \in Seq(Packets), items # <<>>,
                 net' = net \cup ParityMessages(g, items)
          PROVE  FALSE
      <3>1. d.data_shards = Len(items)
        BY <1>2, <2>2 DEF ParityMessages
      <3>2. QED
        BY <1>2, <2>2, <3>1 DEF IsParity
    <2>3. CASE full_batch
      <3>1. /\ Head(batch_tx).items \in Seq(Packets) /\ Head(batch_tx).items # <<>>
            /\ net' = net \cup ParityMessages(Head(batch_tx).id, Head(batch_tx).items)
        <4>1. batch_tx \in Seq(Batches) /\ batch_tx # <<>>
          BY <2>3 DEF full_batch, SenderInv, SenderTypes
        <4>2. Head(batch_tx) = batch_tx[1] /\ 1 \in 1..Len(batch_tx)
              /\ batch_tx[1] \in Batches
          BY <4>1
        <4>3. QED
          BY <2>3, <4>2 DEF full_batch, SenderInv, QueuedBatches, Batches
      <3>2. QED
        BY <2>2, <3>1
    <2>4. CASE timeout_batch
      BY <2>2, <2>4 DEF timeout_batch, SenderInv, SenderTypes
    <2>5. QED
      BY <2>1, <2>3, <2>4 DEF SenderNext
  <1>3. DeliveredTypes'
    BY <1>1 DEF DeliveredTypes, decoder, history
  <1>4. ASSUME NEW d \in net', ~IsParity(d), d.group_id \notin forgotten
        PROVE  /\ delivered[d.payload[1]] <= 1
               /\ delivered[d.payload[1]] # 0 => Seen(d)
    <2>1. CASE d \in net
      BY <1>4, <2>1 DEF Fresh
    <2>2. CASE d \notin net
      <3>1. delivered[d.payload[1]] = 0
        BY <1>2, <1>4, <2>2 DEF DeliveredTypes
      <3>2. QED
        BY <3>1
    <2>3. QED
      BY <2>1, <2>2
  <1>5. Fresh'
    BY <1>1, <1>4 DEF Fresh, decoder, history, Seen, GroupOf, is_done, HasShard, IsParity
  <1>6. QED
    BY <1>3, <1>5

OnceInv == SenderInv /\ GoodGroups /\ DeliveredTypes /\ Fresh

LEMMA OnceInit == Init => DeliveredTypes /\ Fresh
  BY FecAssumption DEF Init, DeliveredTypes, Fresh

LEMMA OnceStep == OnceInv /\ [Next]_vars => DeliveredTypes' /\ Fresh'
  <1> SUFFICES ASSUME OnceInv, [Next]_vars PROVE DeliveredTypes' /\ Fresh'
    OBVIOUS
  <1> USE DEF OnceInv
  <1>1. CASE SenderNext
    BY <1>1, SendingKeepsFresh
  <1>2. CASE \E m \in net : Receive(m)
    BY <1>2, ReceiveKeepsFresh
  <1>3. CASE GroupExpires \/ CleanupBecomesDue \/ UNCHANGED vars
    BY <1>3 DEF GroupExpires, CleanupBecomesDue, vars, encoder, decoder, history,
                DeliveredTypes, Fresh, Seen, GroupOf, is_done, HasShard, IsParity
  <1>4. QED
    BY <1>1, <1>2, <1>3 DEF Next, ReceiverNext

LEMMA OnceInvHolds == Spec => []OnceInv
  BY SenderInit, SenderStep, GoodGroupsInit, GoodGroupsStep, OnceInit, OnceStep, PTL
     DEF Spec, OnceInv

\* However messages are duplicated, reordered and lost, a packet is handed on at
\* most once while the decoder remembers its group (receive's test for the
\* shard, and FecGroup::done when data was recovered).
THEOREM OnceHolds == Spec => []OncePerGroupLife
  <1>1. OnceInv => OncePerGroupLife
    BY DEF OnceInv, Fresh, OncePerGroupLife
  <1>2. QED
    BY <1>1, OnceInvHolds, PTL

-----------------------------------------------------------------------------
(* Packets that are alike are handed on. *)

\* No two data packets of a group share a place.
DataApart ==
    \A d, e \in net :
        /\ ~IsParity(d) /\ ~IsParity(e)
        /\ d.group_id = e.group_id /\ d.packet_index = e.packet_index
        => d = e

ParityIsTurn == \A m \in net : IsParity(m) => m.msg_type = "Turn"

\* The places of the data packets that the group holds.
DataPlaces(k, g) == {i \in Present(g) : \E d \in Data(k) : d.packet_index + 1 = i}

\* A group counts the data packets it holds; when they are alike it is decoded as
\* soon as it can be, and those it holds, or all when it is done, were handed on.
Kept(k, g) ==
    /\ ~is_done(g) => g.received_original_count = Cardinality(DataPlaces(k, g))
    /\ Alike(k) =>
        /\ is_done(g) \/ ~Enough(g)
        /\ \A d \in Data(k) :
            is_done(g) \/ d.packet_index + 1 \in Present(g) => HandedOn(d.payload[1])

GroupsKeep == \A k \in DOMAIN groups : Kept(k, groups[k])

HandedInv ==
    /\ arrived \cap unsent = {}
    /\ DataApart /\ ParityIsTurn
    /\ ArrivedIsHandedOn /\ GroupsKeep

LEMMA HandedInit == Init => HandedInv
  BY DEF Init, HandedInv, DataApart, ParityIsTurn, ArrivedIsHandedOn, GroupsKeep

\* What the sender's steps add: parity, which goes as Turn, or one data message
\* at the next place of the open group.
LEMMA SenderSends ==
    ASSUME SenderInv, SenderNext
    PROVE  /\ net \subseteq net' /\ UNCHANGED decoder /\ unsent' \subseteq unsent
           /\ \A m \in net' \ net :
                IF IsParity(m) THEN m.msg_type = "Turn"
                ELSE /\ m.group_id = group_id /\ m.packet_index = Len(current_batch)
                     /\ m.payload[1] \in unsent
           /\ \A d, e \in net' \ net : ~IsParity(d) /\ ~IsParity(e) => d = e
  <1>1. net \subseteq net' /\ UNCHANGED decoder /\ unsent' \subseteq unsent
    BY DEF SenderNext, encode, full_batch, timeout_batch
  <1>2. ASSUME NEW p \in Packets, encode(p)
        PROVE  /\ net' = net \cup {DataMessage(p)} /\ p \in unsent
               /\ ~IsParity(DataMessage(p)) /\ DataMessage(p).group_id = group_id
               /\ DataMessage(p).packet_index = Len(current_batch)
               /\ DataMessage(p).payload[1] = p
    BY <1>2 DEF encode, DataMessage, IsParity
  <1>3. ASSUME NEW g, NEW items \in Seq(Packets), items # <<>>
        PROVE  \A m \in ParityMessages(g, items) : IsParity(m) /\ m.msg_type = "Turn"
    BY <1>3 DEF ParityMessages, IsParity
  <1>4. CASE full_batch
    <2>1. batch_tx \in Seq(Batches) /\ batch_tx # <<>>
      BY <1>4 DEF full_batch, SenderInv, SenderTypes
    <2>2. Head(batch_tx) = batch_tx[1] /\ 1 \in 1..Len(batch_tx) /\ batch_tx[1] \in Batches
      BY <2>1
    <2>3. /\ Head(batch_tx).items \in Seq(Packets) /\ Head(batch_tx).items # <<>>
          /\ net' = net \cup ParityMessages(Head(batch_tx).id, Head(batch_tx).items)
      BY <1>4, <2>2 DEF full_batch, SenderInv, QueuedBatches, Batches
    <2>4. QED
      BY <1>1, <1>3, <2>3
  <1>5. CASE timeout_batch
    BY <1>1, <1>3, <1>5 DEF timeout_batch, SenderInv, SenderTypes
  <1>6. CASE \E p \in Packets : encode(p)
    BY <1>1, <1>2, <1>6
  <1>7. QED
    BY <1>4, <1>5, <1>6 DEF SenderNext

\* No group of the decoder has the place the next data packet gets.
LEMMA NextPlaceIsFree ==
    ASSUME SenderInv, NEW g, GoodGroup(group_id, g)
    PROVE  ~is_done(g) /\ Len(current_batch) + 1 \notin Present(g)
  <1>1. group_id \in Nat /\ Len(current_batch) \in Nat
    BY DEF SenderInv, SenderTypes
  <1>2. \A m \in net : IsParity(m) => m.group_id # group_id
    BY <1>1 DEF SenderInv, ParityWellFormed, SenderTypes, Messages
  <1>3. ~is_done(g)
    BY <1>2 DEF GoodGroup, is_done
  <1>4. ASSUME Len(current_batch) + 1 \in Present(g) PROVE FALSE
    <2>1. PICK m \in net : m.group_id = group_id
                           /\ m.packet_index + 1 = Len(current_batch) + 1
      BY <1>4 DEF GoodGroup
    <2>2. m \in Data(group_id) /\ m.packet_index \in Nat
      BY <1>2, <2>1, MessageFacts DEF Data
    <2>3. m.packet_index < Len(current_batch)
      BY <2>2 DEF SenderInv, OpenBatch, Matches
    <2>4. QED
      BY <1>1, <2>1, <2>2, <2>3
  <1>5. QED
    BY <1>3, <1>4

LEMMA SendingKeepsGroup ==
    ASSUME net \subseteq net', UNCHANGED handed, NEW k, NEW g, Kept(k, g),
           \A d \in Data(k)' : d \in Data(k) \/ (~is_done(g) /\ d.packet_index + 1 \notin Present(g))
    PROVE  Kept(k, g)'
  <1>1. Data(k) \subseteq Data(k)'
    BY DEF Data, IsParity
  <1>2. DataPlaces(k, g)' = DataPlaces(k, g)
    BY <1>1 DEF DataPlaces, Present
  <1>3. Alike(k)' => Alike(k)
    BY <1>1 DEF Alike
  <1>4. \A p : HandedOn(p)' <=> HandedOn(p)
    BY DEF HandedOn
  <1>5. /\ (is_done(g))' <=> is_done(g)
        /\ (Enough(g))' <=> Enough(g)
        /\ Present(g)' = Present(g)
    BY DEF is_done, Enough, Present
  <1>6. QED
    BY <1>2, <1>3, <1>4, <1>5 DEF Kept

LEMMA SendingKeepsHanded ==
    ASSUME SenderInv, GoodGroups, HandedInv, SenderNext
    PROVE  HandedInv'
  <1>1. /\ net \subseteq net' /\ UNCHANGED decoder /\ unsent' \subseteq unsent
        /\ UNCHANGED <<arrived, handed, groups>>
    BY SenderSends DEF decoder, history
  <1>2. ASSUME NEW d \in net', d \notin net, ~IsParity(d)
        PROVE  /\ d.group_id = group_id /\ d.packet_index = Len(current_batch)
               /\ d.payload[1] \in unsent
               /\ \A e \in net' \ net : ~IsParity(e) => e = d
    BY <1>2, SenderSends
  <1>3. DataApart'
    <2>1. ASSUME NEW d \in net', NEW e \in net, d \notin net, ~IsParity(d), ~IsParity(e),
                 d.group_id = e.group_id, d.packet_index = e.packet_index
          PROVE  FALSE
      <3>1. e \in Data(group_id) /\ e.packet_index = Len(current_batch)
            /\ e.packet_index \in Nat
        BY <1>2, <2>1, MessageFacts DEF Data
      <3>2. e.packet_index < Len(current_batch)
        BY <3>1 DEF SenderInv, OpenBatch, Matches
      <3>3. QED
        BY <3>1, <3>2
    <2>2. QED
      BY <1>2, <2>1 DEF DataApart, HandedInv, IsParity
  <1>4. ParityIsTurn'
    BY SenderSends DEF ParityIsTurn, HandedInv, IsParity
  <1>5. ArrivedIsHandedOn'
    <2> SUFFICES ASSUME NEW d \in net', ~IsParity(d), d.payload[1] \in arrived, Alike(d.group_id)'
                 PROVE  HandedOn(d.payload[1])
      BY <1>1 DEF ArrivedIsHandedOn, IsParity, HandedOn
    <2>1. d \in net
      BY <1>2 DEF HandedInv
    <2>2. Alike(d.group_id)
      BY <1>1 DEF Alike, Data, IsParity
    <2>3. QED
      BY <2>1, <2>2 DEF HandedInv, ArrivedIsHandedOn
  <1>6. GroupsKeep'
    <2>1. ASSUME NEW k \in DOMAIN groups PROVE Kept(k, groups[k])'
      <3>1. PICK g : g = groups[k]
        OBVIOUS
      <3>2. GoodGroup(k, g) /\ Kept(k, g)
        BY <3>1 DEF GoodGroups, HandedInv, GroupsKeep
      <3>3. \A d \in Data(k)' : d \in Data(k) \/ (~is_done(g) /\ d.packet_index + 1 \notin Present(g))
        BY <1>2, <3>2, NextPlaceIsFree DEF Data, IsParity
      <3>4. Kept(k, g)'
        BY <1>1, <3>2, <3>3, SendingKeepsGroup
      <3>5. QED
        BY <1>1, <3>1, <3>4 DEF Kept, is_done, Enough, Present, DataPlaces
    <2>2. QED
      BY <1>1, <2>1 DEF GroupsKeep
  <1>7. QED
    BY <1>1, <1>3, <1>4, <1>5, <1>6 DEF HandedInv

LEMMA PlaceIsOwn ==
    ASSUME SenderInv, DataApart, NEW m \in net, NEW d \in Data(m.group_id),
           d.packet_index + 1 = m.packet_index + 1
    PROVE  d = m
  <1>1. d \in net /\ ~IsParity(d) /\ d.group_id = m.group_id
        /\ d.packet_index \in Nat /\ m.packet_index \in Nat /\ m.data_shards \in Nat
    BY MessageFacts DEF Data, Messages
  <1>2. CASE IsParity(m)
    <2>1. d.packet_index + 1 <= m.data_shards /\ m.packet_index + 1 > m.data_shards
      BY <1>1, <1>2, PlacesOfGroup
    <2>2. QED
      BY <1>1, <2>1
  <1>3. CASE ~IsParity(m)
    BY <1>1, <1>3 DEF DataApart
  <1>4. QED
    BY <1>2, <1>3

LEMMA PlacesAreFinite ==
    ASSUME NEW k, NEW g \in Groups
    PROVE  IsFiniteSet(DataPlaces(k, g)) /\ DataPlaces(k, g) \subseteq Present(g)
  <1>1. g.received_shards \in Seq(Seq(Packets))
    BY DEF Groups
  <1>2. Len(g.received_shards) \in Nat
        /\ DataPlaces(k, g) \subseteq 1..Len(g.received_shards)
    BY <1>1 DEF DataPlaces, Present
  <1>3. IsFiniteSet(1..Len(g.received_shards))
    BY <1>2, FS_Interval
  <1>4. QED
    BY <1>2, <1>3, FS_Subset DEF DataPlaces

\* A stored shard is counted when it is a data packet.
LEMMA StoredIsCounted ==
    ASSUME SenderInv, DataApart, NEW m \in net, NEW g, GoodGroup(m.group_id, g),
           ~HasShard(g, m), g.received_original_count = Cardinality(DataPlaces(m.group_id, g)),
           NEW s, s = Stored(g, m)
    PROVE  /\ s.received_original_count = Cardinality(DataPlaces(m.group_id, s))
           /\ \A d \in Data(m.group_id) :
                d.packet_index + 1 \in Present(s) => d = m \/ d.packet_index + 1 \in Present(g)
  <1> DEFINE k == m.group_id
             i0 == m.packet_index + 1
  <1>1. /\ Present(s) = Present(g) \cup {i0} /\ g \in Groups /\ i0 \notin Present(g)
        /\ s.received_original_count = IF IsParity(m) THEN g.received_original_count
                                       ELSE g.received_original_count + 1
    BY MessageFacts, StoredFacts, ShardIsPresent DEF GoodGroup
  <1>2. \A d \in Data(k) : d.packet_index + 1 = i0 => d = m
    BY PlaceIsOwn
  <1>3. IsFiniteSet(DataPlaces(k, g)) /\ i0 \notin DataPlaces(k, g)
    BY <1>1, PlacesAreFinite
  <1>4. CASE IsParity(m)
    <2>1. m \notin Data(k)
      BY <1>4 DEF Data
    <2>2. DataPlaces(k, s) = DataPlaces(k, g)
      BY <1>1, <1>2, <2>1 DEF DataPlaces
    <2>3. QED
      BY <1>1, <1>2, <1>4, <2>2
  <1>5. CASE ~IsParity(m)
    <2>1. m \in Data(k)
      BY <1>5 DEF Data
    <2>2. DataPlaces(k, s) = DataPlaces(k, g) \cup {i0}
      BY <1>1, <2>1 DEF DataPlaces
    <2>3. Cardinality(DataPlaces(k, s)) = Cardinality(DataPlaces(k, g)) + 1
      BY <1>3, <2>2, FS_AddElement
    <2>4. QED
      BY <1>1, <1>2, <1>5, <2>3
  <1>6. QED
    BY <1>4, <1>5

\* A complete group holds every data packet of its number.
LEMMA CompleteHasAll ==
    ASSUME SenderInv, NEW k, NEW g, GoodGroup(k, g), is_done(g),
           g.received_original_count = Cardinality(DataPlaces(k, g))
    PROVE  \A d \in Data(k) : d.packet_index + 1 \in Present(g)
  <1>1. PICK n \in net : IsParity(n) /\ n.group_id = k /\ n.data_shards = g.data_shards
    BY DEF GoodGroup, is_done
  <1>2. g \in Groups /\ g.data_shards \in Nat /\ Cardinality(DataPlaces(k, g)) = g.data_shards
    BY DEF GoodGroup, Groups, is_done
  <1>3. \A d \in Data(k) : d.packet_index + 1 \in 1..g.data_shards
    <2>1. ASSUME NEW d \in Data(k) PROVE d.packet_index + 1 \in 1..g.data_shards
      <3>1. d \in net /\ ~IsParity(d) /\ d.group_id = n.group_id /\ d.packet_index \in Nat
        BY <1>1, MessageFacts DEF Data
      <3>2. d.packet_index + 1 <= n.data_shards
        BY <1>1, <3>1, PlacesOfGroup
      <3>3. QED
        BY <1>1, <1>2, <3>1, <3>2
    <2>2. QED
      BY <2>1
  <1>4. DataPlaces(k, g) \subseteq 1..g.data_shards
    BY <1>3 DEF DataPlaces
  <1>5. IsFiniteSet(1..g.data_shards) /\ Cardinality(1..g.data_shards) = g.data_shards
    BY <1>2, FS_Interval
  <1>6. DataPlaces(k, g) = 1..g.data_shards
    BY <1>2, <1>4, <1>5, FS_Subset
  <1>7. QED
    BY <1>3, <1>6 DEF DataPlaces

\* The shards of packets of one size are of that size.
LEMMA AlikeReconstructs ==
    ASSUME SenderInv, NEW k, NEW g, GoodGroup(k, g), g.data_shards # 0, ~is_done(g), Alike(k)
    PROVE  CanReconstruct(g)
  <1>1. Len(g.received_shards) = g.data_shards + g.parity_shards
    BY DEF GoodGroup
  <1>2. ASSUME NEW i \in Present(g)
        PROVE  \E d \in Data(k) : ShardLen(g.received_shards[i]) = Size[d.payload[1]]
    <2>1. PICK m \in net : m.group_id = k /\ m.payload = g.received_shards[i]
      BY DEF GoodGroup
    <2>2. PICK items : items = m.payload
      OBVIOUS
    <2>3. /\ items \in Seq(Packets) /\ items # <<>>
          /\ \A j \in 1..Len(items) : \E d \in Data(k) : d.payload = <<items[j]>>
      <3>1. CASE IsParity(m)
        <4>1. Matches(k, items) /\ items \in Seq(Packets) /\ items # <<>>
          BY <2>1, <2>2, <3>1, MessageFacts DEF SenderInv, ParityWellFormed, Messages
        <4>2. ASSUME NEW j \in 1..Len(items) PROVE \E d \in Data(k) : d.payload = <<items[j]>>
          <5>1. PICK d \in Data(k) : d.packet_index + 1 = j
            BY <4>1 DEF Matches
          <5>2. QED
            BY <4>1, <5>1 DEF Matches
        <4>3. QED
          BY <4>1, <4>2
      <3>2. CASE ~IsParity(m)
        <4>1. PICK p \in Packets : m.payload = <<p>>
          BY <3>2 DEF SenderInv, DataWellFormed
        <4>2. m \in Data(k) /\ items = <<p>>
          BY <2>1, <2>2, <3>2, <4>1 DEF Data
        <4>3. items \in Seq(Packets) /\ Len(items) = 1 /\ items[1] = p
          BY <4>2
        <4>4. \A j \in 1..Len(items) : m.payload = <<items[j]>>
          BY <4>1, <4>3
        <4>5. QED
          BY <4>2, <4>3, <4>4
      <3>3. QED
        BY <3>1, <3>2
    <2>4. 1 \in 1..Len(items) /\ DOMAIN items = 1..Len(items)
      BY <2>3
    <2>5. PICK d \in Data(k) : d.payload = <<items[1]>>
      BY <2>3, <2>4
    <2>6. \A j \in 1..Len(items) : Size[items[j]] = Size[items[1]]
      <3>1. ASSUME NEW j \in 1..Len(items) PROVE Size[items[j]] = Size[items[1]]
        <4>1. PICK e \in Data(k) : e.payload = <<items[j]>>
          BY <2>3
        <4>2. Size[e.payload[1]] = Size[d.payload[1]]
          BY DEF Alike
        <4>3. QED
          BY <2>5, <4>1, <4>2
      <3>2. QED
        BY <3>1
    <2>7. PICK c : c = Size[items[1]]
      OBVIOUS
    <2>8. c \in Nat
      BY <2>3, <2>4, <2>7, FecAssumption
    <2>9. {Size[items[j]] : j \in DOMAIN items} = {c, c}
      BY <2>4, <2>6, <2>7
    <2>10. ShardLen(items) = c
      BY <2>8, <2>9, MaxOfTwo DEF ShardLen
    <2>11. QED
      BY <2>1, <2>2, <2>5, <2>7, <2>10
  <1>3. SameLength(g)
    BY <1>2 DEF SameLength, Alike
  <1>4. QED
    BY <1>1, <1>3 DEF CanReconstruct

\* Without compression nothing that is recovered from packets that are alike can
\* fail to be handled, so all of it is, and then the received packet.
LEMMA AlikeAreReturned ==
    ASSUME ~Compression, SenderInv, DataApart, ParityIsTurn, NEW m \in net, NEW s,
           GoodGroup(m.group_id, s), s.data_shards # 0, ~is_done(s), Alike(m.group_id),
           NEW cut \in Cuts(s, m)
    PROVE  /\ Own(m) \subseteq Returned(s, m, cut)
           /\ \A d \in Data(m.group_id) : d.packet_index + 1 \notin Present(s) =>
                \E h \in Returned(s, m, cut) : h.packet = d.payload[1] /\ h.to = "Turn"
  <1>0. ASSUME NEW i \in Missing(s)
        PROVE  \E d \in Data(m.group_id) :
                    d.packet_index + 1 = i /\ d.payload = <<BatchOf(s)[i]>>
    <2>1. PICK k : k = m.group_id /\ GoodGroup(k, s)
      OBVIOUS
    <2>2. \E d \in Data(k) : d.packet_index + 1 = i /\ d.payload = <<BatchOf(s)[i]>>
      BY ONLY SenderInv, <2>1, s.data_shards # 0, ~is_done(s), i \in Missing(s), RecoveredIsMissing
    <2>3. QED
      BY <2>1, <2>2
  <1> DEFINE k == m.group_id
  <1>1. s.data_shards \in Nat
    BY DEF GoodGroup, Groups
  <1>2. m.msg_type = "Turn"
    <2>1. CASE IsParity(m)
      BY <2>1 DEF ParityIsTurn
    <2>2. CASE ~IsParity(m)
      <3>1. PICK p \in Packets : m.payload = <<p>> /\ m.msg_type = Kind[p]
        BY <2>2 DEF SenderInv, DataWellFormed
      <3>2. m \in Data(k)
        BY <2>2 DEF Data
      <3>3. QED
        BY <3>1, <3>2 DEF Alike
    <2>3. QED
      BY <2>1, <2>2
  <1>3. ASSUME NEW i \in Missing(s)
        PROVE  Usable(s, i, "Turn")
    <2>1. PICK d \in Data(k) : d.payload = <<BatchOf(s)[i]>>
      BY <1>0
    <2>2. Kind[d.payload[1]] = "Turn" /\ d.payload[1] = BatchOf(s)[i]
      BY <2>1 DEF Alike
    <2>3. QED
      BY <2>2 DEF Usable
  <1>4. cut = s.data_shards + 1
    BY <1>3 DEF Cuts
  <1>5. Own(m) \subseteq Returned(s, m, cut)
    BY <1>1, <1>4 DEF Returned
  <1>6. ASSUME NEW d \in Data(k), d.packet_index + 1 \notin Present(s)
        PROVE  \E h \in Returned(s, m, cut) : h.packet = d.payload[1] /\ h.to = "Turn"
    <2>1. PICK n \in net : IsParity(n) /\ n.group_id = k /\ n.data_shards = s.data_shards
      BY DEF GoodGroup
    <2>2. d \in net /\ ~IsParity(d) /\ d.group_id = k /\ d.packet_index \in Nat
      BY MessageFacts DEF Data
    <2>3. d.packet_index + 1 <= s.data_shards
      BY <2>1, <2>2, PlacesOfGroup
    <2>4. PICK i : i = d.packet_index + 1 /\ i \in Missing(s) /\ i <= cut
      BY <1>1, <1>4, <1>6, <2>2, <2>3 DEF Missing
    <2>5. PICK e \in Data(k) : e.packet_index + 1 = i /\ e.payload = <<BatchOf(s)[i]>>
      BY <1>0, <2>4
    <2>6. e = d
      BY <2>2, <2>4, <2>5, PlaceIsOwn
    <2>7. BatchOf(s)[i] = d.payload[1]
      BY <2>5, <2>6
    <2>8. [packet |-> BatchOf(s)[i], to |-> m.msg_type, flags_kept |-> FlagsKept(s, i)]
             \in Returned(s, m, cut)
      BY <2>4 DEF Returned
    <2>9. QED
      BY <1>2, <2>7, <2>8
  <1>7. QED
    BY <1>5, <1>6

\* What receive does to the group of a message, and what that has to keep.
LEMMA ReceiverKeepsGroups ==
    ASSUME HandedInv, UNCHANGED encoder, handed \subseteq handed', NEW m \in net,
           NoteArrival(m), SenderInv, NEW g, Kept(m.group_id, g)',
           \A k \in DOMAIN groups' :
                IF k = m.group_id THEN groups'[k] = g
                ELSE k \in DOMAIN groups /\ groups'[k] = groups[k],
           ~IsParity(m) /\ Alike(m.group_id) => HandedOn(m.payload[1])'
    PROVE  HandedInv'
  <1>1. UNCHANGED <<net, unsent>>
    BY DEF encoder
  <1>2. \A k : Data(k)' = Data(k) /\ (Alike(k)' <=> Alike(k))
    BY <1>1 DEF Data, Alike, IsParity
  <1>3. \A p : HandedOn(p) => HandedOn(p)'
    BY DEF HandedOn
  <1>4. (arrived \cap unsent)' = {}
    <2>1. ~IsParity(m) => m.payload[1] \notin unsent
      BY DataPacket
    <2>2. QED
      BY <1>1, <2>1 DEF NoteArrival, HandedInv
  <1>5. DataApart' /\ ParityIsTurn'
    BY <1>1 DEF DataApart, ParityIsTurn, HandedInv, IsParity
  <1>6. ArrivedIsHandedOn'
    <2> SUFFICES ASSUME NEW d \in net, ~IsParity(d), d.payload[1] \in arrived', Alike(d.group_id)
                 PROVE  HandedOn(d.payload[1])'
      BY <1>1, <1>2 DEF ArrivedIsHandedOn, IsParity
    <2>1. CASE d.payload[1] \in arrived
      BY <1>3, <2>1 DEF HandedInv, ArrivedIsHandedOn
    <2>2. CASE d.payload[1] \notin arrived
      <3>1. ~IsParity(m) /\ d.payload[1] = m.payload[1]
        BY <2>2 DEF NoteArrival
      <3>2. d.payload = m.payload
        BY <3>1, DataPacket
      <3>3. d = m
        BY <3>1, <3>2 DEF SenderInv, SentOnce
      <3>4. QED
        BY <3>1, <3>3
    <2>3. QED
      BY <2>1, <2>2
  <1>7. GroupsKeep'
    <2>1. ASSUME NEW k \in DOMAIN groups' PROVE Kept(k, groups[k])'
      <3>1. PICK x : x = groups'[k]
        OBVIOUS
      <3>2. Kept(k, x)'
        <4>1. CASE k = m.group_id
          BY <2>1, <3>1, <4>1
        <4>2. CASE k # m.group_id
          <5>1. Kept(k, x)
            BY <2>1, <3>1, <4>2 DEF HandedInv, GroupsKeep
          <5>2. DataPlaces(k, x)' = DataPlaces(k, x)
            BY <1>2 DEF DataPlaces, Present
          <5>3. QED
            BY <1>2, <1>3, <5>1, <5>2 DEF Kept, is_done, Enough, Present
        <4>3. QED
          BY <4>1, <4>2
      <3>3. QED
        BY <3>1, <3>2 DEF Kept, is_done, Enough, Present, DataPlaces
    <2>2. QED
      BY <2>1 DEF GroupsKeep
  <1>8. QED
    BY <1>4, <1>5, <1>6, <1>7 DEF HandedInv

LEMMA GroupOfKeeps ==
    ASSUME GroupsKeep, NEW m \in net
    PROVE  Kept(m.group_id, GroupOf(m))
  <1>1. CASE m.group_id \in DOMAIN groups
    BY <1>1 DEF GroupsKeep, GroupOf
  <1>2. CASE m.group_id \notin DOMAIN groups
    <2>1. GroupOf(m) = EmptyGroup
      BY <1>2 DEF GroupOf
    <2>2. /\ EmptyGroup.data_shards = 0 /\ EmptyGroup.received_shards = <<>>
          /\ EmptyGroup.received_original_count = 0
      BY DEF EmptyGroup
    <2>3. ~is_done(EmptyGroup) /\ ~Enough(EmptyGroup) /\ Present(EmptyGroup) = {}
      BY <2>2 DEF is_done, Enough, Present
    <2>4. Cardinality(DataPlaces(m.group_id, EmptyGroup)) = 0
      BY <2>3, FS_EmptySet DEF DataPlaces
    <2>5. QED
      BY <2>1, <2>2, <2>3, <2>4 DEF Kept
  <1>3. QED
    BY <1>1, <1>2

\* The group that is left, whatever was removed.
LEMMA UpdatedGroups ==
    ASSUME NEW m, NEW g, UpdateAndCleanUp(m, g)
    PROVE  \A k \in DOMAIN groups' :
                IF k = m.group_id THEN groups'[k] = g
                ELSE k \in DOMAIN groups /\ groups'[k] = groups[k]
  <1>1. PICK gone : groups' = [k \in (DOMAIN groups \cup {m.group_id}) \ gone |->
                                IF k = m.group_id THEN g ELSE groups[k]]
    BY DEF UpdateAndCleanUp
  <1>2. QED
    BY <1>1

\* A group that is done keeps its promise when all its packets are handed on.
LEMMA DoneKeeps ==
    ASSUME UNCHANGED net, NEW k, NEW g, is_done(g),
           Alike(k) => \A d \in Data(k) : HandedOn(d.payload[1])'
    PROVE  Kept(k, g)'
  <1>1. Data(k)' = Data(k) /\ (Alike(k)' <=> Alike(k))
    BY DEF Data, Alike, IsParity
  <1>2. QED
    BY <1>1 DEF Kept, is_done

LEMMA IgnoringKeepsHanded ==
    ASSUME SenderInv, GoodGroups, HandedInv, NEW m \in net, Ignores(m)
    PROVE  HandedInv'
  <1>1. UNCHANGED <<encoder, groups, handed>> /\ NoteArrival(m) /\ UNCHANGED net
    BY DEF Ignores, encoder
  <1>2. PICK g : g = GroupOf(m)
    OBVIOUS
  <1>3. Kept(m.group_id, g) /\ g \in Groups /\ (is_done(g) \/ m.packet_index + 1 \in Present(g))
    BY <1>2, GroupOfKeeps, GroupOfIsGood, MessageFacts, ShardIsPresent
       DEF Ignores, HandedInv, GoodGroup
  <1>4. Kept(m.group_id, g)'
    BY <1>1, <1>3 DEF Kept, is_done, Enough, Present, DataPlaces, Data, Alike, IsParity, HandedOn
  <1>5. ~IsParity(m) /\ Alike(m.group_id) => HandedOn(m.payload[1])'
    BY <1>1, <1>3 DEF Kept, Data, HandedOn
  <1>6. \A k \in DOMAIN groups' :
            IF k = m.group_id THEN groups'[k] = g
            ELSE k \in DOMAIN groups /\ groups'[k] = groups[k]
    BY <1>1, <1>2 DEF GroupOf
  <1>7. QED
    BY <1>1, <1>4, <1>5, <1>6, ReceiverKeepsGroups

\* The received packet, when it is handed on and goes where it should.
LEMMA OwnIsHandedOn ==
    ASSUME SenderInv, NEW m \in net, ~IsParity(m), Own(m) \subseteq handed'
    PROVE  HandedOn(m.payload[1])'
  <1>1. PICK p \in Packets : m.payload = <<p>> /\ m.msg_type = Kind[p]
    BY DEF SenderInv, DataWellFormed
  <1>2. [packet |-> p, to |-> Kind[p], flags_kept |-> TRUE] \in handed'
    BY <1>1 DEF Own
  <1>3. QED
    BY <1>1, <1>2 DEF HandedOn

LEMMA AcceptingKeepsHanded ==
    ASSUME ~Compression, SenderInv, GoodGroups, HandedInv, NEW m \in net, Accepts(m), Receive(m)
    PROVE  HandedInv'
  <1> DEFINE k == m.group_id
  <1>1. UNCHANGED <<encoder, net>> /\ NoteArrival(m)
    BY DEF Accepts, encoder
  <1>2. PICK g, s : g = GroupOf(m) /\ s = Stored(g, m)
    OBVIOUS
  <1>3. ~is_done(g) /\ ~HasShard(g, m) /\ GoodGroup(k, g) /\ GoodGroup(k, s) /\ Kept(k, g)
    BY <1>2, GroupOfIsGood, StoredIsGood, GroupOfKeeps DEF Accepts, HandedInv
  <1>4. /\ s.received_original_count = Cardinality(DataPlaces(k, s))
        /\ \A d \in Data(k) :
             d.packet_index + 1 \in Present(s) => d = m \/ d.packet_index + 1 \in Present(g)
    BY <1>2, <1>3, StoredIsCounted DEF Kept, HandedInv
  <1>5. Alike(k) => \A d \in Data(k) : d.packet_index + 1 \in Present(g) => HandedOn(d.payload[1])
    BY <1>3 DEF Kept
  <1>6. ASSUME handed \subseteq handed', Alike(k) => Own(m) \subseteq handed'
        PROVE  /\ ~IsParity(m) /\ Alike(k) => HandedOn(m.payload[1])'
               /\ Alike(k) => \A d \in Data(k) :
                    d.packet_index + 1 \in Present(s) => HandedOn(d.payload[1])'
    <2>1. ~IsParity(m) /\ Alike(k) => HandedOn(m.payload[1])'
      BY <1>6, OwnIsHandedOn
    <2>2. \A p : HandedOn(p) => HandedOn(p)'
      BY <1>6 DEF HandedOn
    <2>3. QED
      BY <1>4, <1>5, <2>1, <2>2 DEF Data
  <1>7. CASE Completes(m)
    <2>1. is_done(s) /\ UpdateAndCleanUp(m, done(s)) /\ HandOn(Own(m))
      BY <1>2, <1>7 DEF Completes
    <2>2. handed \subseteq handed' /\ Own(m) \subseteq handed'
      BY <2>1 DEF HandOn
    <2>3. \A d \in Data(k) : d.packet_index + 1 \in Present(s)
      BY <1>3, <1>4, <2>1, CompleteHasAll
    <2>4. is_done(done(s))
      BY <1>3, <2>1, DoneIsGood DEF is_done
    <2>5. Kept(k, done(s))'
      <3>1. PICK x : x = done(s)
        OBVIOUS
      <3>2. Kept(k, x)'
        BY <1>1, <1>6, <2>2, <2>3, <2>4, <3>1, DoneKeeps
      <3>3. QED
        BY <3>1, <3>2
    <2>6. QED
      BY <1>1, <1>6, <2>1, <2>2, <2>5, UpdatedGroups, ReceiverKeepsGroups
  <1>8. ASSUME handed \subseteq handed', Alike(k) => Own(m) \subseteq handed',
               ~is_done(s), Alike(k) => ~Enough(s)
        PROVE  Kept(k, s)'
    <2>1. Data(k)' = Data(k) /\ (Alike(k)' <=> Alike(k)) /\ DataPlaces(k, s)' = DataPlaces(k, s)
      BY <1>1 DEF Data, Alike, IsParity, DataPlaces, Present
    <2>2. Alike(k) => \A d \in Data(k) :
                            d.packet_index + 1 \in Present(s) => HandedOn(d.payload[1])'
      BY <1>6, <1>8
    <2>3. /\ (is_done(s))' <=> is_done(s)
          /\ (Enough(s))' <=> Enough(s)
          /\ Present(s)' = Present(s)
      BY DEF is_done, Enough, Present
    <2>4. QED
      BY <1>4, <1>8, <2>1, <2>2, <2>3 DEF Kept
  <1>9. CASE Keeps(m)
    <2>1. ~is_done(s) /\ ~Enough(s) /\ UpdateAndCleanUp(m, s) /\ HandOn(Own(m))
      BY <1>2, <1>9 DEF Keeps
    <2>2. handed \subseteq handed' /\ Own(m) \subseteq handed'
      BY <2>1 DEF HandOn
    <2>3. Kept(k, s)'
      BY <1>8, <2>1, <2>2
    <2>4. QED
      BY <1>1, <1>6, <2>1, <2>2, <2>3, UpdatedGroups, ReceiverKeepsGroups
  <1>10. CASE Recovers(m)
    <2>1. /\ ~is_done(s) /\ Enough(s) /\ s.data_shards # 0
          /\ UpdateAndCleanUp(m, done(s))
          /\ \E cut \in Cuts(s, m) : HandOn(Returned(s, m, cut))
      BY <1>2, <1>10 DEF Recovers, Enough
    <2>2. PICK cut \in Cuts(s, m) : HandOn(Returned(s, m, cut))
      BY <2>1
    <2>3. handed' = handed \cup Returned(s, m, cut)
      BY <2>2 DEF HandOn
    <2>4. Alike(k) =>
            /\ Own(m) \subseteq Returned(s, m, cut)
            /\ \A d \in Data(k) : d.packet_index + 1 \notin Present(s) =>
                    \E h \in Returned(s, m, cut) : h.packet = d.payload[1] /\ h.to = "Turn"
      BY <1>3, <2>1, AlikeAreReturned DEF HandedInv
    <2>5. handed \subseteq handed' /\ (Alike(k) => Own(m) \subseteq handed')
      BY <2>3, <2>4
    <2>6. Alike(k) => \A d \in Data(k) : HandedOn(d.payload[1])'
      <3>1. ASSUME Alike(k), NEW d \in Data(k), d.packet_index + 1 \notin Present(s)
            PROVE  HandedOn(d.payload[1])'
        <4>1. Kind[d.payload[1]] = "Turn"
          BY <3>1 DEF Alike
        <4>2. QED
          BY <2>3, <2>4, <3>1, <4>1 DEF HandedOn
      <3>2. QED
        BY <1>6, <2>5, <3>1
    <2>7. is_done(done(s))
      BY <1>3, <2>1, DoneIsGood
    <2>8. Kept(k, done(s))'
      <3>1. PICK x : x = done(s)
        OBVIOUS
      <3>2. Kept(k, x)'
        BY <1>1, <2>6, <2>7, <3>1, DoneKeeps
      <3>3. QED
        BY <3>1, <3>2
    <2>9. QED
      BY <1>1, <1>6, <2>1, <2>5, <2>8, UpdatedGroups, ReceiverKeepsGroups
  <1>11. CASE FailsToRecover(m)
    <2>1. /\ ~is_done(s) /\ Enough(s) /\ s.data_shards # 0 /\ ~CanReconstruct(s)
          /\ groups' = [j \in DOMAIN groups \cup {k} |-> IF j = k THEN s ELSE groups[j]]
          /\ handed' = handed
      BY <1>2, <1>11 DEF FailsToRecover, Enough
    <2>2. ~Alike(k)
      BY <1>3, <2>1, AlikeReconstructs
    <2>3. Kept(k, s)'
      BY <1>8, <2>1, <2>2
    <2>4. \A j \in DOMAIN groups' :
            IF j = m.group_id THEN groups'[j] = s
            ELSE j \in DOMAIN groups /\ groups'[j] = groups[j]
      BY <2>1
    <2>5. QED
      BY <1>1, <2>1, <2>2, <2>3, <2>4, ReceiverKeepsGroups
  <1>12. CASE Ignores(m)
    BY <1>2, <1>3, <1>12 DEF Ignores
  <1>13. QED
    BY <1>7, <1>9, <1>10, <1>11, <1>12 DEF Receive

PlainInv == ~Compression /\ SenderInv /\ GoodGroups /\ HandedInv

LEMMA PlainStep == PlainInv /\ [Next]_vars => HandedInv'
  <1> SUFFICES ASSUME PlainInv, [Next]_vars PROVE HandedInv'
    OBVIOUS
  <1> USE DEF PlainInv
  <1>1. CASE SenderNext
    BY <1>1, SendingKeepsHanded
  <1>2. ASSUME NEW m \in net, Receive(m) PROVE HandedInv'
    <2>1. Ignores(m) \/ Accepts(m)
      BY <1>2 DEF Receive, Completes, Keeps, Recovers, FailsToRecover
    <2>2. QED
      BY <1>2, <2>1, IgnoringKeepsHanded, AcceptingKeepsHanded
  <1>3. CASE GroupExpires \/ CleanupBecomesDue \/ UNCHANGED vars
    <2>1. UNCHANGED <<net, unsent, arrived, handed, groups>>
      BY <1>3 DEF GroupExpires, CleanupBecomesDue, vars, encoder, decoder, history
    <2>2. \A k : Data(k)' = Data(k) /\ (Alike(k)' <=> Alike(k))
      BY <2>1 DEF Data, Alike, IsParity
    <2>3. \A p : HandedOn(p)' <=> HandedOn(p)
      BY <2>1 DEF HandedOn
    <2>4. \A k, g : DataPlaces(k, g)' = DataPlaces(k, g)
      BY <2>2 DEF DataPlaces, Present
    <2>5. GroupsKeep'
      <3>1. ASSUME NEW k \in DOMAIN groups PROVE Kept(k, groups[k])'
        <4>1. PICK g : g = groups[k]
          OBVIOUS
        <4>2. Kept(k, g)
          BY <4>1 DEF HandedInv, GroupsKeep
        <4>3. Kept(k, g)'
          BY <2>2, <2>3, <2>4, <4>2 DEF Kept, is_done, Enough, Present
        <4>4. QED
          BY <2>1, <4>1, <4>3 DEF Kept, is_done, Enough, Present, DataPlaces
      <3>2. QED
        BY <2>1, <3>1 DEF GroupsKeep
    <2>6. DataApart' /\ ParityIsTurn' /\ ArrivedIsHandedOn' /\ (arrived \cap unsent)' = {}
      BY <2>1, <2>2, <2>3 DEF HandedInv, DataApart, ParityIsTurn, ArrivedIsHandedOn, IsParity
    <2>7. QED
      BY <2>5, <2>6 DEF HandedInv
  <1>4. QED
    BY <1>1, <1>2, <1>3 DEF Next, ReceiverNext

LEMMA PlainInvHolds == ~Compression /\ Spec => []PlainInv
  <1>1. ~Compression /\ Init => PlainInv
    BY SenderInit, GoodGroupsInit, HandedInit DEF PlainInv
  <1>2. PlainInv /\ [Next]_vars => PlainInv'
    BY SenderStep, GoodGroupsStep, PlainStep DEF PlainInv
  <1>3. QED
    BY <1>1, <1>2, PTL DEF Spec

\* A receiver that does not decompress hands on every packet that arrives in a
\* group of packets that are alike, whatever receive recovers besides.
THEOREM ArrivedAreHandedOn == ~Compression /\ Spec => []ArrivedIsHandedOn
  <1>1. PlainInv => ArrivedIsHandedOn
    BY DEF PlainInv, HandedInv
  <1>2. QED
    BY <1>1, PlainInvHolds, PTL

\* Packets that are alike are all handed on once as many shards of their group
\* are there as it has data packets: a group that could be decoded is not left
\* (try_decode, decode_with_rs), for a receiver that does not decompress.
THEOREM AlikeRecover == ~Compression /\ Spec => []AlikeShardsRecover
  <1>1. PlainInv => AlikeShardsRecover
    <2> SUFFICES ASSUME PlainInv, NEW k \in DOMAIN groups, EnoughToRecover(k), Alike(k)
                 PROVE  AllHandedOn(k)
      BY DEF AlikeShardsRecover
    <2>1. PICK g : g = groups[k]
      OBVIOUS
    <2>2. Kept(k, g)
      BY <2>1 DEF PlainInv, HandedInv, GroupsKeep
    <2>3. is_done(g) \/ Enough(g)
      BY <2>1 DEF EnoughToRecover, Enough, Present
    <2>4. QED
      BY <2>2, <2>3 DEF Kept, AllHandedOn
  <1>2. QED
    BY <1>1, PlainInvHolds, PTL
=============================================================================

-------------------------- MODULE RouteTableProofs --------------------------
(***************************************************************************)
(* Proofs about RouteTable for any set of peers, keys and tunnels.         *)
(*                                                                         *)
(* The first part is about lists of routes: what inserting, moving and     *)
(* removing a route does to the keys and the order of a list. The second   *)
(* part shows the invariant that the safety properties follow from.        *)
(***************************************************************************)
EXTENDS RouteTable, SequenceTheorems, WellFoundedInduction, TLAPS

Less == {pair \in Nat \X Nat : pair[1] < pair[2]}

\* A non-empty set of natural numbers has a least element: the loops of
\* add_route that look for a position stop at a first one.
LEMMA LeastElement ==
    ASSUME NEW T, T \subseteq Nat, T # {}
    PROVE  \E x \in T : \A y \in T : x <= y
<1>1. IsWellFoundedOn(OpToRel(<, Nat), Nat)
    BY NatLessThanWellFounded
<1>2. OpToRel(<, Nat) = Less
    BY DEF OpToRel, Less
<1>3. PICK x \in T : \A y \in T : ~ (<<y, x>> \in Less)
    BY <1>1, <1>2, WFMin
<1>4. ASSUME NEW y \in T, ~(x <= y)
      PROVE  FALSE
    <2>1. y \in Nat /\ x \in Nat /\ y < x
        BY <1>4
    <2>2. <<y, x>> \in Less
        BY <2>1 DEF Less
    <2> QED
        BY <2>2, <1>3
<1> QED
    BY <1>4

-----------------------------------------------------------------------------
(* Lists.                                                                  *)

\* What Vec::insert returns.
LEMMA InsertAtFacts ==
    ASSUME NEW l \in Seq(Route), NEW p \in 1..(Len(l) + 1), NEW e \in Route
    PROVE  /\ InsertAt(l, p, e) \in Seq(Route)
           /\ Len(InsertAt(l, p, e)) = Len(l) + 1
           /\ \A j \in 1..(p - 1) : InsertAt(l, p, e)[j] = l[j]
           /\ InsertAt(l, p, e)[p] = e
           /\ \A j \in (p + 1)..(Len(l) + 1) : InsertAt(l, p, e)[j] = l[j - 1]
<1> DEFINE front == SubSeq(l, 1, p - 1)
           mid   == front \o <<e>>
           back  == SubSeq(l, p, Len(l))
<1>1. Len(l) \in Nat /\ \A j \in 1..Len(l) : l[j] \in Route
    BY LenProperties, ElementOfSeq
<1>2. /\ front \in Seq(Route) /\ Len(front) = p - 1
      /\ \A j \in 1..(p - 1) : front[j] = l[j]
    BY <1>1, SubSeqProperties
<1>3. /\ back \in Seq(Route) /\ Len(back) = Len(l) - p + 1
      /\ \A j \in 1..(Len(l) - p + 1) : back[j] = l[p + j - 1]
    BY <1>1, SubSeqProperties
<1>4. <<e>> \in Seq(Route) /\ Len(<<e>>) = 1 /\ <<e>>[1] = e
    OBVIOUS
<1> HIDE DEF front, back
<1>5. /\ mid \in Seq(Route) /\ Len(mid) = p
      /\ \A j \in 1..p : mid[j] = IF j <= p - 1 THEN l[j] ELSE e
    BY <1>2, <1>4, ConcatProperties DEF mid
<1> HIDE DEF mid
<1>6. /\ mid \o back \in Seq(Route)
      /\ Len(mid \o back) = Len(l) + 1
      /\ \A j \in 1..(Len(l) + 1) : (mid \o back)[j] =
            IF j <= p THEN mid[j] ELSE back[j - p]
    <2>1. /\ mid \o back \in Seq(Route)
          /\ Len(mid \o back) = Len(mid) + Len(back)
          /\ \A j \in 1..(Len(mid) + Len(back)) :
                (mid \o back)[j] =
                   IF j <= Len(mid) THEN mid[j]
                   ELSE back[j - Len(mid)]
        BY <1>3, <1>5, ConcatProperties
    <2>2. Len(mid) + Len(back) = Len(l) + 1
        BY <1>1, <1>3, <1>5
    <2> QED
        BY <1>5, <2>1, <2>2
<1>7. /\ \A j \in 1..(p - 1) : (mid \o back)[j] = l[j]
      /\ (mid \o back)[p] = e
      /\ \A j \in (p + 1)..(Len(l) + 1) : (mid \o back)[j] = l[j - 1]
    BY <1>1, <1>3, <1>5, <1>6
<1>8. InsertAt(l, p, e) = mid \o back
    BY DEF InsertAt, front, mid, back
<1> QED
    BY <1>6, <1>7, <1>8

\* What taking one element out of a Vec returns.
LEMMA RemoveAtFacts ==
    ASSUME NEW l \in Seq(Route), NEW p \in 1..Len(l)
    PROVE  /\ RemoveAt(l, p) \in Seq(Route)
           /\ Len(RemoveAt(l, p)) = Len(l) - 1
           /\ \A j \in 1..(Len(l) - 1) : RemoveAt(l, p)[j] =
                 IF j < p THEN l[j] ELSE l[j + 1]
<1> DEFINE front == SubSeq(l, 1, p - 1)
           back  == SubSeq(l, p + 1, Len(l))
<1>1. Len(l) \in Nat /\ \A j \in 1..Len(l) : l[j] \in Route
    BY LenProperties, ElementOfSeq
<1>2. /\ front \in Seq(Route) /\ Len(front) = p - 1
      /\ \A j \in 1..(p - 1) : front[j] = l[j]
    BY <1>1, SubSeqProperties
<1>3. /\ back \in Seq(Route) /\ Len(back) = Len(l) - p
      /\ \A j \in 1..(Len(l) - p) : back[j] = l[p + j]
    BY <1>1, SubSeqProperties
<1> HIDE DEF front, back
<1>4. /\ front \o back \in Seq(Route) /\ Len(front \o back) = Len(l) - 1
      /\ \A j \in 1..(Len(l) - 1) : (front \o back)[j] =
            IF j <= p - 1 THEN l[j] ELSE l[j + 1]
    <2>1. /\ front \o back \in Seq(Route)
          /\ Len(front \o back) = Len(front) + Len(back)
          /\ \A j \in 1..(Len(front) + Len(back)) : (front \o back)[j] =
                IF j <= Len(front) THEN front[j] ELSE back[j - Len(front)]
        BY <1>2, <1>3, ConcatProperties
    <2>2. Len(front) + Len(back) = Len(l) - 1
        BY <1>1, <1>2, <1>3
    <2>3. ASSUME NEW j \in 1..(Len(l) - 1)
          PROVE  (front \o back)[j] = IF j <= p - 1 THEN l[j] ELSE l[j + 1]
        <3>1. CASE j <= p - 1
            BY <1>1, <1>2, <2>1, <2>2, <3>1
        <3>2. CASE ~(j <= p - 1)
            <4>1. (front \o back)[j] = back[j - (p - 1)]
                BY <1>1, <1>2, <2>1, <2>2, <3>2
            <4>2. j - (p - 1) \in 1..(Len(l) - p)
                BY <1>1, <3>2
            <4>3. back[j - (p - 1)] = l[p + (j - (p - 1))]
                BY <1>3, <4>2
            <4>4. p + (j - (p - 1)) = j + 1
                BY <1>1
            <4> QED
                BY <3>2, <4>1, <4>3, <4>4
        <3> QED
            BY <3>1, <3>2
    <2> QED
        BY <2>1, <2>2, <2>3
<1>5. RemoveAt(l, p) = front \o back
    BY DEF RemoveAt, front, back
<1> QED
    BY <1>1, <1>4, <1>5

\* A list is a function on 1..Len whose elements are routes.
LEMMA ListFacts ==
    ASSUME NEW l \in Seq(Route)
    PROVE  /\ Len(l) \in Nat
           /\ DOMAIN l = 1..Len(l)
           /\ \A i \in DOMAIN l : l[i] \in Route
           /\ \A i \in DOMAIN l : l[i].key \in Keys /\ l[i].rtt \in Nat
<1>1. Len(l) \in Nat /\ DOMAIN l = 1..Len(l) /\ \A i \in 1..Len(l) : l[i] \in Route
    BY LenProperties, ElementOfSeq
<1> QED
    BY <1>1 DEF Route

\* A key is in a list when a route of its set has it.
LEMMA HasKeyInSet ==
    ASSUME NEW l, NEW key
    PROVE  HasKey(l, key) <=> \E r \in ToSet(l) : r.key = key
BY DEF HasKey, ToSet

\* Taking the route at p out of a list in which keys occur once.
LEMMA RemoveAtRoute ==
    ASSUME NEW l \in Seq(Route), KeysOnce(l), NEW p \in 1..Len(l)
    PROVE  /\ RemoveAt(l, p) \in Seq(Route)
           /\ Len(RemoveAt(l, p)) = Len(l) - 1
           /\ KeysOnce(RemoveAt(l, p))
           /\ ToSet(RemoveAt(l, p)) = {r \in ToSet(l) : r.key # l[p].key}
           /\ Sorted(l) => Sorted(RemoveAt(l, p))
<1> DEFINE m == RemoveAt(l, p)
<1>1. /\ Len(l) \in Nat /\ DOMAIN l = 1..Len(l)
      /\ \A i \in DOMAIN l : l[i].key \in Keys /\ l[i].rtt \in Nat
    BY ListFacts
<1>2. /\ m \in Seq(Route) /\ Len(m) = Len(l) - 1
      /\ \A j \in 1..(Len(l) - 1) : m[j] = IF j < p THEN l[j] ELSE l[j + 1]
    BY RemoveAtFacts
<1> HIDE DEF m
<1>3. DOMAIN m = 1..(Len(l) - 1)
    BY <1>1, <1>2, LenProperties
<1> DEFINE old(j) == IF j < p THEN j ELSE j + 1
<1>old. /\ \A j \in DOMAIN m : old(j) \in DOMAIN l /\ m[j] = l[old(j)]
        /\ \A i, j \in DOMAIN m : i <= j => old(i) <= old(j)
        /\ \A i, j \in DOMAIN m : old(i) = old(j) => i = j
    BY <1>1, <1>2, <1>3
<1> HIDE DEF old
<1>4. KeysOnce(m)
    BY <1>old DEF KeysOnce
<1>5. ToSet(m) = {r \in ToSet(l) : r.key # l[p].key}
    <2>1. ASSUME NEW j \in DOMAIN m
          PROVE  m[j] \in ToSet(l) /\ m[j].key # l[p].key
        <3>1. PICK i \in DOMAIN l : i # p /\ m[j] = l[i]
            BY <1>1, <1>2, <1>3
        <3> QED
            BY <1>1, <3>1 DEF KeysOnce, ToSet
    <2>2. ASSUME NEW i \in DOMAIN l, l[i].key # l[p].key
          PROVE  l[i] \in ToSet(m)
        <3>1. i # p
            BY <2>2
        <3>2. CASE i < p
            <4>1. i \in DOMAIN m /\ m[i] = l[i]
                BY <1>1, <1>2, <1>3, <3>2
            <4> QED
                BY <4>1 DEF ToSet
        <3>3. CASE i > p
            <4>1. i - 1 \in DOMAIN m /\ m[i - 1] = l[(i - 1) + 1]
                BY <1>1, <1>2, <1>3, <3>3
            <4>2. (i - 1) + 1 = i
                BY <1>1
            <4> QED
                BY <4>1, <4>2 DEF ToSet
        <3> QED
            BY <1>1, <3>1, <3>2, <3>3
    <2> QED
        BY <2>1, <2>2 DEF ToSet
<1>6. Sorted(l) => Sorted(m)
    BY <1>old DEF Sorted
<1> QED
    BY <1>2, <1>4, <1>5, <1>6 DEF m

\* Putting a route with a new key at position p of a list.
LEMMA InsertAtRoute ==
    ASSUME NEW l \in Seq(Route), KeysOnce(l), NEW r \in Route,
           ~HasKey(l, r.key), NEW p \in 1..(Len(l) + 1)
    PROVE  /\ InsertAt(l, p, r) \in Seq(Route)
           /\ InsertAt(l, p, r) # <<>>
           /\ KeysOnce(InsertAt(l, p, r))
           /\ ToSet(InsertAt(l, p, r)) = ToSet(l) \cup {r}
           /\ /\ Sorted(l)
              /\ \A j \in 1..(p - 1) : l[j].rtt <= r.rtt
              /\ \A j \in p..Len(l) : r.rtt <= l[j].rtt
              => Sorted(InsertAt(l, p, r))
<1> DEFINE m == InsertAt(l, p, r)
<1>0. /\ InsertAt(l, p, r) \in Seq(Route)
      /\ Len(InsertAt(l, p, r)) = Len(l) + 1
      /\ \A j \in 1..(p - 1) : InsertAt(l, p, r)[j] = l[j]
      /\ InsertAt(l, p, r)[p] = r
      /\ \A j \in (p + 1)..(Len(l) + 1) : InsertAt(l, p, r)[j] = l[j - 1]
    BY InsertAtFacts
<1>1. /\ Len(l) \in Nat /\ DOMAIN l = 1..Len(l)
      /\ \A i \in DOMAIN l : l[i].key \in Keys /\ l[i].rtt \in Nat
    BY ListFacts
<1>2. /\ m \in Seq(Route) /\ Len(m) = Len(l) + 1
      /\ \A j \in 1..(p - 1) : m[j] = l[j]
      /\ m[p] = r
      /\ \A j \in (p + 1)..(Len(l) + 1) : m[j] = l[j - 1]
    BY <1>0 DEF m
<1> HIDE DEF m
<1>3. DOMAIN m = 1..(Len(l) + 1)
    BY <1>1, <1>2, LenProperties
<1>4. m # <<>>
    BY <1>1, <1>3
<1>5. \A i \in DOMAIN l : l[i].key # r.key
    BY DEF HasKey
<1> DEFINE old(j) == IF j < p THEN j ELSE j - 1
<1>old. /\ \A j \in DOMAIN m \ {p} : old(j) \in DOMAIN l /\ m[j] = l[old(j)]
        /\ \A i, j \in DOMAIN m \ {p} : i <= j => old(i) <= old(j)
        /\ \A i, j \in DOMAIN m \ {p} : old(i) = old(j) => i = j
        /\ \A j \in DOMAIN m : j < p => old(j) \in 1..(p - 1)
        /\ \A j \in DOMAIN m : p < j => old(j) \in p..Len(l)
        /\ m[p] = r
    BY <1>1, <1>2, <1>3
<1> HIDE DEF old
<1>6. KeysOnce(m)
    BY <1>5, <1>old DEF KeysOnce
<1>7. ToSet(m) = ToSet(l) \cup {r}
    <2>1. ASSUME NEW j \in DOMAIN m
          PROVE  m[j] \in ToSet(l) \cup {r}
        <3>1. m[j] = r \/ \E i \in DOMAIN l : m[j] = l[i]
            BY <1>old
        <3> QED
            BY <3>1 DEF ToSet
    <2>2. r \in ToSet(m)
        <3>1. p \in DOMAIN m /\ m[p] = r
            BY <1>1, <1>2, <1>3
        <3> QED
            BY <3>1 DEF ToSet
    <2>3. ASSUME NEW i \in DOMAIN l
          PROVE  l[i] \in ToSet(m)
        <3>1. CASE i < p
            <4>1. i \in DOMAIN m /\ m[i] = l[i]
                BY <1>1, <1>2, <1>3, <3>1
            <4> QED
                BY <4>1 DEF ToSet
        <3>2. CASE i >= p
            <4>1. i + 1 \in DOMAIN m /\ m[i + 1] = l[(i + 1) - 1]
                BY <1>1, <1>2, <1>3, <3>2
            <4>2. (i + 1) - 1 = i
                BY <1>1
            <4> QED
                BY <4>1, <4>2 DEF ToSet
        <3> QED
            BY <1>1, <3>1, <3>2
    <2> QED
        BY <2>1, <2>2, <2>3 DEF ToSet
<1>8. ASSUME Sorted(l), \A j \in 1..(p - 1) : l[j].rtt <= r.rtt,
             \A j \in p..Len(l) : r.rtt <= l[j].rtt
      PROVE  Sorted(m)
    <2>1. SUFFICES ASSUME NEW i \in DOMAIN m, NEW j \in DOMAIN m, i <= j
                   PROVE  m[i].rtt <= m[j].rtt
        BY DEF Sorted
    <2>2. i \in Int /\ j \in Int /\ p \in Int /\ r.rtt \in Nat
        BY <1>1, <1>3 DEF Route
    <2>3. CASE i = p /\ j = p
        BY <1>old, <2>2, <2>3
    <2>4. CASE i = p /\ j # p
        <3>1. m[j] = l[old(j)] /\ old(j) \in p..Len(l)
            BY <1>old, <2>1, <2>2, <2>4
        <3> QED
            BY <1>8, <1>old, <2>4, <3>1
    <2>5. CASE i # p /\ j = p
        <3>1. m[i] = l[old(i)] /\ old(i) \in 1..(p - 1)
            BY <1>old, <2>1, <2>2, <2>5
        <3> QED
            BY <1>8, <1>old, <2>5, <3>1
    <2>6. CASE i # p /\ j # p
        BY <1>8, <1>old, <2>1, <2>6 DEF Sorted
    <2> QED
        BY <2>3, <2>4, <2>5, <2>6
<1> QED
    BY <1>2, <1>4, <1>6, <1>7, <1>8 DEF m

\* The search of add_route for the first slower route finds a place.
LEMMA InsertPositionFacts ==
    ASSUME NEW l \in Seq(Route), NEW rtt \in Nat
    PROVE  LET p == InsertPosition(l, rtt)
           IN  /\ p \in 1..(Len(l) + 1)
               /\ \A j \in 1..(p - 1) : rtt >= l[j].rtt
               /\ p <= Len(l) => rtt < l[p].rtt
<1>1. /\ Len(l) \in Nat /\ DOMAIN l = 1..Len(l)
      /\ \A i \in DOMAIN l : l[i].rtt \in Nat
    BY ListFacts
<1> DEFINE T == {q \in 1..(Len(l) + 1) : q <= Len(l) => rtt < l[q].rtt}
<1>2. T \subseteq Nat /\ Len(l) + 1 \in T
    BY <1>1
<1>3. PICK q \in T : \A y \in T : q <= y
    BY <1>2, LeastElement
<1>4. ASSUME NEW j \in 1..(q - 1)
      PROVE  rtt >= l[j].rtt
    <2>1. j \in 1..Len(l) /\ ~(q <= j)
        BY <1>1, <1>3
    <2>2. j \notin T
        BY <1>3, <2>1
    <2> QED
        BY <1>1, <2>1, <2>2
<1>5. q \in 1..(Len(l) + 1) /\ (q <= Len(l) => rtt < l[q].rtt)
    BY <1>3
<1> QED
    BY <1>4, <1>5 DEF InsertPosition

\* The two bubbling loops of add_route stop, at the place RestPosition names.
LEMMA RestPositionFacts ==
    ASSUME NEW l \in Seq(Route), NEW idx \in 1..Len(l), NEW rtt \in Nat
    PROVE  LET p == RestPosition(l, idx, rtt)
           IN  /\ p \in 1..Len(l)
               /\ \/ /\ p < idx
                     /\ \A j \in p..(idx - 1) : rtt < l[j].rtt
                     /\ p > 1 => rtt >= l[p - 1].rtt
                  \/ /\ p >= idx
                     /\ idx > 1 => rtt >= l[idx - 1].rtt
                     /\ \A j \in (idx + 1)..p : rtt > l[j].rtt
                     /\ p < Len(l) => rtt <= l[p + 1].rtt
<1>1. /\ Len(l) \in Nat /\ DOMAIN l = 1..Len(l)
      /\ \A i \in DOMAIN l : l[i].rtt \in Nat
    BY ListFacts
<1> SUFFICES \E p \in DOMAIN l :
        \/ /\ p < idx
           /\ \A j \in p..(idx - 1) : rtt < l[j].rtt
           /\ p > 1 => rtt >= l[p - 1].rtt
        \/ /\ p >= idx
           /\ idx > 1 => rtt >= l[idx - 1].rtt
           /\ \A j \in (idx + 1)..p : rtt > l[j].rtt
           /\ p < Len(l) => rtt <= l[p + 1].rtt
    BY <1>1 DEF RestPosition
<1>2. CASE idx > 1 /\ rtt < l[idx - 1].rtt
    <2> DEFINE T == {p \in 1..(idx - 1) : \A j \in p..(idx - 1) : rtt < l[j].rtt}
    <2>1. T \subseteq Nat /\ idx - 1 \in T
        BY <1>1, <1>2
    <2>2. PICK p \in T : \A y \in T : p <= y
        BY <2>1, LeastElement
    <2>3. ASSUME p > 1, ~(rtt >= l[p - 1].rtt)
          PROVE  FALSE
        <3>1. p - 1 \in 1..(idx - 1) /\ l[p - 1].rtt \in Nat
            BY <1>1, <2>2, <2>3
        <3>2. rtt < l[p - 1].rtt
            BY <2>3, <3>1
        <3>3. ASSUME NEW j \in (p - 1)..(idx - 1)
              PROVE  rtt < l[j].rtt
            BY <2>2, <3>1, <3>2, j = p - 1 \/ j \in p..(idx - 1)
        <3>4. p - 1 \in T
            BY <3>1, <3>3
        <3>5. p <= p - 1
            BY <2>2, <3>4
        <3> QED
            BY <2>2, <3>5
    <2>4. p \in DOMAIN l /\ p < idx /\ \A j \in p..(idx - 1) : rtt < l[j].rtt
        BY <1>1, <2>2
    <2> QED
        BY <2>3, <2>4
<1>3. CASE ~(idx > 1 /\ rtt < l[idx - 1].rtt)
    <2> DEFINE T == {p \in idx..Len(l) : p < Len(l) => rtt <= l[p + 1].rtt}
    <2>1. T \subseteq Nat /\ Len(l) \in T
        BY <1>1
    <2>2. PICK p \in T : \A y \in T : p <= y
        BY <2>1, LeastElement
    <2>3. ASSUME NEW j \in (idx + 1)..p
          PROVE  rtt > l[j].rtt
        <3>1. j - 1 \in idx..Len(l) /\ ~(p <= j - 1) /\ j \in DOMAIN l
            BY <1>1, <2>2
        <3>2. j - 1 \notin T
            BY <2>2, <3>1
        <3>3. ~(rtt <= l[(j - 1) + 1].rtt)
            BY <3>1, <3>2
        <3>4. (j - 1) + 1 = j
            OBVIOUS
        <3> QED
            BY <1>1, <3>1, <3>3, <3>4
    <2>4. p \in DOMAIN l /\ p >= idx /\ (p < Len(l) => rtt <= l[p + 1].rtt)
        BY <1>1, <2>2
    <2>5. idx > 1 => rtt >= l[idx - 1].rtt
        <3>1. idx > 1 => l[idx - 1].rtt \in Nat
            BY <1>1
        <3> QED
            BY <1>3, <3>1
    <2> QED
        BY <2>3, <2>4, <2>5
<1> QED
    BY <1>2, <1>3

\* Vec::retain of the other keys, as remove_route and the timeout do it.
LEMMA WithoutFacts ==
    ASSUME NEW l \in Seq(Route), KeysOnce(l), NEW key
    PROVE  /\ Without(l, key) \in Seq(Route)
           /\ KeysOnce(Without(l, key))
           /\ ToSet(Without(l, key)) = {r \in ToSet(l) : r.key # key}
           /\ Sorted(l) => Sorted(Without(l, key))
<1>1. CASE HasKey(l, key)
    <2>1. Position(l, key) \in 1..Len(l) /\ l[Position(l, key)].key = key
        BY <1>1, ListFacts DEF HasKey, Position
    <2>2. Without(l, key) = RemoveAt(l, Position(l, key))
        BY <1>1 DEF Without
    <2> QED
        BY <2>1, <2>2, RemoveAtRoute
<1>2. CASE ~HasKey(l, key)
    BY <1>2 DEF Without, HasKey, ToSet
<1> QED
    BY <1>1, <1>2

\* What add_route makes of a list: the route stands in it, every route with
\* another key stays as it was, and an ordered list stays ordered.
LEMMA PlacedFacts ==
    ASSUME NEW l \in Seq(Route), KeysOnce(l), NEW r \in Route
    PROVE  /\ Placed(l, r) \in Seq(Route)
           /\ Placed(l, r) # <<>>
           /\ KeysOnce(Placed(l, r))
           /\ ToSet(Placed(l, r)) = {x \in ToSet(l) : x.key # r.key} \cup {r}
           /\ Sorted(l) => Sorted(Placed(l, r))
<1>1. /\ Len(l) \in Nat /\ DOMAIN l = 1..Len(l)
      /\ \A i \in DOMAIN l : l[i].rtt \in Nat
    BY ListFacts
<1>2. r.rtt \in Nat
    BY DEF Route
<1>3. CASE ~HasKey(l, r.key)
    <2> DEFINE p == InsertPosition(l, r.rtt)
    <2>1. /\ p \in 1..(Len(l) + 1)
          /\ \A j \in 1..(p - 1) : r.rtt >= l[j].rtt
          /\ p <= Len(l) => r.rtt < l[p].rtt
        BY <1>2, InsertPositionFacts
    <2>2. Placed(l, r) = InsertAt(l, p, r)
        BY <1>3 DEF Placed
    <2>3. ToSet(l) = {x \in ToSet(l) : x.key # r.key}
        BY <1>3 DEF HasKey, ToSet
    <2> HIDE DEF p
    <2>4. ASSUME Sorted(l)
          PROVE  /\ \A j \in 1..(p - 1) : l[j].rtt <= r.rtt
                 /\ \A j \in p..Len(l) : r.rtt <= l[j].rtt
        <3>1. \A j \in 1..(p - 1) : l[j].rtt <= r.rtt
            BY <1>1, <1>2, <2>1
        <3>2. ASSUME NEW j \in p..Len(l)
              PROVE  r.rtt <= l[j].rtt
            <4>1. p \in DOMAIN l /\ j \in DOMAIN l /\ p <= j
                BY <1>1, <2>1
            <4>2. l[p].rtt <= l[j].rtt
                BY <2>4, <4>1 DEF Sorted
            <4> QED
                BY <1>1, <1>2, <2>1, <4>1, <4>2
        <3> QED
            BY <3>1, <3>2
    <2> QED
        BY <1>3, <2>1, <2>2, <2>3, <2>4, InsertAtRoute
<1>4. CASE HasKey(l, r.key)
    <2> DEFINE idx == Position(l, r.key)
               m   == RemoveAt(l, idx)
               p   == RestPosition(l, idx, r.rtt)
    <2>1. idx \in 1..Len(l) /\ l[idx].key = r.key
        BY <1>1, <1>4 DEF HasKey, Position
    <2>2. Placed(l, r) = InsertAt(m, p, r)
        BY <1>4 DEF Placed
    <2> HIDE DEF idx
    <2>3. /\ m \in Seq(Route) /\ Len(m) = Len(l) - 1 /\ KeysOnce(m)
          /\ ToSet(m) = {x \in ToSet(l) : x.key # r.key}
          /\ Sorted(l) => Sorted(m)
        BY <2>1, RemoveAtRoute
    <2>4. \A j \in 1..(Len(l) - 1) : m[j] = IF j < idx THEN l[j] ELSE l[j + 1]
        BY <2>1, RemoveAtFacts
    <2>5. /\ p \in 1..Len(l)
          /\ \/ /\ p < idx
                /\ \A j \in p..(idx - 1) : r.rtt < l[j].rtt
                /\ p > 1 => r.rtt >= l[p - 1].rtt
             \/ /\ p >= idx
                /\ idx > 1 => r.rtt >= l[idx - 1].rtt
                /\ \A j \in (idx + 1)..p : r.rtt > l[j].rtt
                /\ p < Len(l) => r.rtt <= l[p + 1].rtt
        BY <1>2, <2>1, RestPositionFacts
    <2> HIDE DEF m, p
    <2>6. ~HasKey(m, r.key)
        BY <2>3, HasKeyInSet
    <2>7. p \in 1..(Len(m) + 1)
        BY <1>1, <2>3, <2>5
    <2>8. ASSUME Sorted(l)
          PROVE  /\ \A j \in 1..(p - 1) : m[j].rtt <= r.rtt
                 /\ \A j \in p..Len(m) : r.rtt <= m[j].rtt
        <3>1. \A i, j \in 1..Len(l) : i <= j => l[i].rtt <= l[j].rtt
            BY <1>1, <2>8 DEF Sorted
        <3>2. ASSUME NEW j \in 1..(p - 1)
              PROVE  m[j].rtt <= r.rtt
            <4>1. CASE j < idx /\ p < idx
                <5>1. m[j] = l[j] /\ j <= p - 1 /\ p - 1 \in 1..Len(l) /\ j \in 1..Len(l)
                    BY <1>1, <2>1, <2>4, <2>5, <4>1
                <5> QED
                    <6>1. l[j].rtt <= l[p - 1].rtt
                        BY <3>1, <5>1
                    <6>2. r.rtt >= l[p - 1].rtt
                        BY <1>1, <2>1, <2>5, <4>1, <5>1
                    <6> QED
                        BY <1>1, <1>2, <5>1, <6>1, <6>2
            <4>2. CASE j < idx /\ p >= idx
                <5>1. m[j] = l[j] /\ j <= idx - 1 /\ idx - 1 \in 1..Len(l) /\ j \in 1..Len(l)
                    BY <1>1, <2>1, <2>4, <2>5, <4>2
                <5> QED
                    <6>1. l[j].rtt <= l[idx - 1].rtt
                        BY <3>1, <5>1
                    <6>2. r.rtt >= l[idx - 1].rtt
                        BY <1>1, <2>1, <2>5, <4>2, <5>1
                    <6> QED
                        BY <1>1, <1>2, <5>1, <6>1, <6>2
            <4>3. CASE j >= idx
                <5>1. m[j] = l[j + 1] /\ j + 1 \in (idx + 1)..p /\ j + 1 \in 1..Len(l)
                    BY <1>1, <2>1, <2>4, <2>5, <4>3
                <5> QED
                    BY <1>1, <1>2, <2>1, <2>5, <4>3, <5>1
            <4> QED
                BY <2>1, <2>5, <4>1, <4>2, <4>3
        <3>3. ASSUME NEW j \in p..Len(m)
              PROVE  r.rtt <= m[j].rtt
            <4>1. CASE j < idx
                <5>1. m[j] = l[j] /\ j \in p..(idx - 1) /\ j \in 1..Len(l) /\ p < idx
                    BY <1>1, <2>1, <2>3, <2>4, <2>5, <4>1
                <5> QED
                    BY <1>1, <1>2, <2>1, <2>5, <5>1
            <4>2. CASE j >= idx /\ p < idx
                <5>1. /\ m[j] = l[j + 1] /\ j + 1 \in 1..Len(l)
                      /\ p \in p..(idx - 1) /\ p <= j + 1
                    BY <1>1, <2>1, <2>3, <2>4, <2>5, <4>2
                <5>2. r.rtt < l[p].rtt /\ l[p].rtt <= l[j + 1].rtt
                    BY <2>1, <2>5, <3>1, <4>2, <5>1
                <5> QED
                    BY <1>1, <1>2, <2>5, <5>1, <5>2
            <4>3. CASE j >= idx /\ p >= idx
                <5>1. /\ m[j] = l[j + 1] /\ j + 1 \in 1..Len(l)
                      /\ p < Len(l) /\ p + 1 \in 1..Len(l) /\ p + 1 <= j + 1
                    BY <1>1, <2>1, <2>3, <2>4, <2>5, <4>3
                <5>2. r.rtt <= l[p + 1].rtt /\ l[p + 1].rtt <= l[j + 1].rtt
                    BY <2>1, <2>5, <3>1, <4>3, <5>1
                <5> QED
                    BY <1>1, <1>2, <5>1, <5>2
            <4> QED
                BY <2>1, <2>5, <4>1, <4>2, <4>3
        <3> QED
            BY <3>2, <3>3
    <2> QED
        BY <2>2, <2>3, <2>6, <2>7, <2>8, InsertAtRoute
<1> QED
    BY <1>3, <1>4

-----------------------------------------------------------------------------
(* The operations on the maps.                                             *)

LEMMA RoutesOfType ==
    ASSUME TypeOK, NEW id \in Ids
    PROVE  /\ RoutesOf(id) \in Seq(Route)
           /\ route_table[id] # NoList => RoutesOf(id) = route_table[id]
BY EmptySeq DEF RoutesOf, TypeOK

\* One list of the table is replaced.
LEMMA TableUpdate ==
    ASSUME TypeOK, ListsWellFormed, NEW id \in Ids, NEW l \in Seq(Route), KeysOnce(l),
           route_table' = [route_table EXCEPT ![id] = NonEmpty(l)]
    PROVE  /\ route_table' \in [Ids -> Seq(Route) \cup {NoList}]
           /\ ListsWellFormed'
           /\ RoutesOf(id)' = l
           /\ \A i \in Ids \ {id} : RoutesOf(i)' = RoutesOf(i)
<1>1. NoList \notin Seq(Route) /\ <<>> \in Seq(Route)
    BY RouteTableAssumption, EmptySeq
<1>2. route_table' \in [Ids -> Seq(Route) \cup {NoList}]
    BY DEF TypeOK, NonEmpty
<1>3. RoutesOf(id)' = l /\ route_table'[id] # <<>>
    BY <1>1 DEF TypeOK, NonEmpty, RoutesOf
<1>4. \A i \in Ids \ {id} :
         RoutesOf(i)' = RoutesOf(i) /\ route_table'[i] = route_table[i]
    BY DEF TypeOK, RoutesOf
<1>5. ASSUME NEW i \in Ids
      PROVE  route_table'[i] # <<>> /\ KeysOnce(RoutesOf(i)')
    BY <1>3, <1>4 DEF ListsWellFormed
<1>6. ListsWellFormed'
    BY <1>5 DEF ListsWellFormed
<1> QED
    BY <1>2, <1>3, <1>4, <1>6

\* The invariant of the three maps, without the tasks.
MapsInv == TypeOK /\ NoImmortalRoute /\ OwnerRouted /\ ListsWellFormed

\* The route (id, key) is put in the list of id, and its time is set.
LEMMA PutKeepsMaps ==
    ASSUME MapsInv, NEW id \in Ids, NEW key \in Keys, NEW l \in Seq(Route),
           KeysOnce(l), l # <<>>,
           \A k \in Keys : HasKey(l, k) <=> HasKey(RoutesOf(id), k) \/ k = key,
           route_table' = [route_table EXCEPT ![id] = l],
           route_key_owner' \in {route_key_owner,
                                 [route_key_owner EXCEPT ![key] = id]},
           route_key_time' = [route_key_time EXCEPT ![<<id, key>>] = 0],
           UNCHANGED <<expired_keys, sweep_holds_locks, silent>>,
           task' \in [Tunnels -> Task]
    PROVE  /\ MapsInv'
           /\ RoutesOf(id)' = l
           /\ \A i \in Ids \ {id} : RoutesOf(i)' = RoutesOf(i)
<1>1. l = NonEmpty(l)
    BY DEF NonEmpty
<1>2. /\ route_table' \in [Ids -> Seq(Route) \cup {NoList}]
      /\ ListsWellFormed'
      /\ RoutesOf(id)' = l
      /\ \A i \in Ids \ {id} : RoutesOf(i)' = RoutesOf(i)
    BY <1>1, TableUpdate DEF MapsInv
<1>3. \A i \in Ids, k \in Keys :
         HasKey(RoutesOf(i)', k) <=> HasKey(RoutesOf(i), k) \/ (i = id /\ k = key)
    BY <1>2
<1>4. TypeOK'
    BY <1>2, RouteTableAssumption DEF MapsInv, TypeOK, Pairs
<1>5. NoImmortalRoute'
    <2>1. SUFFICES ASSUME NEW i \in Ids, NEW k \in Keys, HasKey(RoutesOf(i)', k)
                   PROVE  route_key_time'[<<i, k>>] # NoTime \/ <<i, k>> \in expired_keys
        BY DEF NoImmortalRoute
    <2>2. CASE i = id /\ k = key
        <3>1. route_key_time'[<<i, k>>] = 0
            BY <2>2 DEF MapsInv, TypeOK, Pairs
        <3> QED
            BY <3>1, RouteTableAssumption
    <2>3. CASE ~(i = id /\ k = key)
        <3>1. route_key_time'[<<i, k>>] = route_key_time[<<i, k>>]
            BY <2>3 DEF MapsInv, TypeOK, Pairs
        <3> QED
            BY <1>3, <2>1, <2>3, <3>1 DEF MapsInv, NoImmortalRoute
    <2> QED
        BY <2>2, <2>3
<1>6. OwnerRouted'
    <2>1. SUFFICES ASSUME NEW i \in Ids, NEW k \in Keys, route_key_owner'[k] = i
                   PROVE  HasKey(RoutesOf(i)', k)
        BY DEF OwnerRouted
    <2>2. CASE route_key_owner[k] = i
        BY <1>3, <2>2 DEF MapsInv, OwnerRouted
    <2>3. CASE route_key_owner[k] # i
        <3>1. i = id /\ k = key
            BY <2>1, <2>3 DEF MapsInv, TypeOK
        <3> QED
            BY <1>3, <3>1
    <2> QED
        BY <2>2, <2>3
<1> QED
    BY <1>2, <1>4, <1>5, <1>6 DEF MapsInv

\* The route (id, key) is taken out of the list of id and, if id owns key,
\* the owner entry goes too; every other time entry is kept.
LEMMA TakeKeepsMaps ==
    ASSUME MapsInv, NEW id \in Ids, NEW key \in Keys,
           route_table' =
              IF route_table[id] = NoList THEN route_table
              ELSE [route_table EXCEPT ![id] = NonEmpty(Without(@, key))],
           route_key_owner' =
              IF route_key_owner[key] = id
              THEN [route_key_owner EXCEPT ![key] = NoId] ELSE route_key_owner,
           route_key_time' \in [Pairs -> (0..MaxAge) \cup {NoTime}],
           \A p \in Pairs \ {<<id, key>>} : route_key_time'[p] = route_key_time[p],
           expired_keys' \in {expired_keys, expired_keys \ {<<id, key>>}},
           sweep_holds_locks' \in BOOLEAN,
           silent' = silent,
           task' \in [Tunnels -> Task]
    PROVE  /\ MapsInv'
           /\ ToSet(RoutesOf(id)') = {r \in ToSet(RoutesOf(id)) : r.key # key}
           /\ Sorted(RoutesOf(id)) => Sorted(RoutesOf(id)')
           /\ \A i \in Ids \ {id} : RoutesOf(i)' = RoutesOf(i)
<1> DEFINE l == Without(RoutesOf(id), key)
<1>1. RoutesOf(id) \in Seq(Route) /\ KeysOnce(RoutesOf(id))
    BY RoutesOfType DEF MapsInv, ListsWellFormed
<1>2. /\ l \in Seq(Route) /\ KeysOnce(l)
      /\ ToSet(l) = {r \in ToSet(RoutesOf(id)) : r.key # key}
      /\ Sorted(RoutesOf(id)) => Sorted(l)
    BY <1>1, WithoutFacts
<1>3. /\ route_table' \in [Ids -> Seq(Route) \cup {NoList}]
      /\ ListsWellFormed'
      /\ RoutesOf(id)' = l
      /\ \A i \in Ids \ {id} : RoutesOf(i)' = RoutesOf(i)
    <2>1. CASE route_table[id] = NoList
        <3>1. route_table' = route_table /\ RoutesOf(id) = <<>>
            BY <2>1 DEF RoutesOf
        <3>2. ~HasKey(<<>>, key)
            BY DEF HasKey
        <3>3. l = RoutesOf(id)
            BY <3>1, <3>2 DEF Without
        <3> QED
            BY <3>1, <3>3 DEF MapsInv, TypeOK, ListsWellFormed, RoutesOf
    <2>2. CASE route_table[id] # NoList
        <3>1. route_table' = [route_table EXCEPT ![id] = NonEmpty(l)]
            BY <2>2 DEF RoutesOf
        <3> QED
            BY <1>2, <3>1, TableUpdate DEF MapsInv
    <2> QED
        BY <2>1, <2>2
<1> HIDE DEF l
<1>4. \A i \in Ids, k \in Keys :
         HasKey(RoutesOf(i)', k) <=> HasKey(RoutesOf(i), k) /\ ~(i = id /\ k = key)
    <2>1. \A k \in Keys : HasKey(l, k) <=> HasKey(RoutesOf(id), k) /\ k # key
        BY <1>2, HasKeyInSet
    <2> QED
        BY <1>3, <2>1
<1>5. TypeOK'
    <2>1. route_key_owner' \in [Keys -> Ids \cup {NoId}]
        BY DEF MapsInv, TypeOK
    <2>2. expired_keys' \subseteq Pairs
        BY DEF MapsInv, TypeOK
    <2> QED
        BY <1>3, <2>1, <2>2 DEF MapsInv, TypeOK
<1>6. NoImmortalRoute'
    <2>1. SUFFICES ASSUME NEW i \in Ids, NEW k \in Keys, HasKey(RoutesOf(i)', k)
                   PROVE  route_key_time'[<<i, k>>] # NoTime \/ <<i, k>> \in expired_keys'
        BY DEF NoImmortalRoute
    <2>2. HasKey(RoutesOf(i), k) /\ <<i, k>> # <<id, key>> /\ <<i, k>> \in Pairs
        BY <1>4, <2>1 DEF Pairs
    <2> QED
        BY <2>2 DEF MapsInv, NoImmortalRoute
<1>7. OwnerRouted'
    <2>1. SUFFICES ASSUME NEW i \in Ids, NEW k \in Keys, route_key_owner'[k] = i
                   PROVE  HasKey(RoutesOf(i)', k)
        BY DEF OwnerRouted
    <2>2. route_key_owner[k] = i /\ ~(i = id /\ k = key)
        BY <2>1, RouteTableAssumption DEF MapsInv, TypeOK
    <2> QED
        BY <1>4, <2>2 DEF MapsInv, OwnerRouted
<1> QED
    BY <1>2, <1>3, <1>5, <1>6, <1>7 DEF MapsInv

\* Vec::push of a route with a new key.
LEMMA AppendRoute ==
    ASSUME NEW l \in Seq(Route), KeysOnce(l), NEW r \in Route, ~HasKey(l, r.key)
    PROVE  /\ Append(l, r) \in Seq(Route)
           /\ Append(l, r) # <<>>
           /\ KeysOnce(Append(l, r))
           /\ ToSet(Append(l, r)) = ToSet(l) \cup {r}
           /\ Sorted(l) /\ (\A j \in 1..Len(l) : l[j].rtt <= r.rtt)
              => Sorted(Append(l, r))
<1> DEFINE p == Len(l) + 1
           m == InsertAt(l, p, r)
<1>1. Len(l) \in Nat /\ p \in 1..(Len(l) + 1) /\ p - 1 = Len(l)
    BY LenProperties
<1> HIDE DEF p
<1>2. /\ m \in Seq(Route) /\ Len(m) = Len(l) + 1
      /\ \A j \in 1..(p - 1) : m[j] = l[j]
      /\ m[p] = r
    BY <1>1, InsertAtFacts
<1>3. /\ Append(l, r) \in Seq(Route) /\ Len(Append(l, r)) = Len(l) + 1
      /\ \A j \in 1..Len(l) : Append(l, r)[j] = l[j]
      /\ Append(l, r)[Len(l) + 1] = r
    BY AppendProperties
<1>4. \A j \in 1..(Len(l) + 1) : Append(l, r)[j] = m[j]
    <2>1. p = Len(l) + 1
        BY DEF p
    <2> QED
        BY <1>1, <1>2, <1>3, <2>1
<1> HIDE DEF m
<1>5. Append(l, r) = m
    BY <1>2, <1>3, <1>4, SeqEqual
<1>6. /\ m # <<>> /\ KeysOnce(m) /\ ToSet(m) = ToSet(l) \cup {r}
      /\ /\ Sorted(l)
         /\ \A j \in 1..(p - 1) : l[j].rtt <= r.rtt
         /\ \A j \in p..Len(l) : r.rtt <= l[j].rtt
         => Sorted(m)
    BY <1>1, InsertAtRoute DEF m
<1>7. p..Len(l) = {}
    BY <1>1 DEF p
<1> QED
    BY <1>1, <1>3, <1>5, <1>6, <1>7

\* A Ping that waits to be added has a peer and a route over its tunnel.
LEMMA TaskType ==
    ASSUME TypeOK, NEW t \in Tunnels
    PROVE  /\ task[t].op = "ping" => task[t].id \in Ids /\ task[t].route \in Route
           /\ task[t].op = "drop" => task[t].id \in Ids /\ task[t].key \in Keys
BY DEF TypeOK, Task, Idle, Ended

\* Adding a route over key leaves the Pings of other tunnels absent.
LEMMA PutKeepsPings ==
    ASSUME IInv, NEW key \in Keys, task'[TunnelOf[key]] = Idle,
           \A t \in Tunnels : task'[t] \in {task[t], Idle},
           \A i \in Ids, k \in Keys \ {key} :
              HasKey(RoutesOf(i)', k) => HasKey(RoutesOf(i), k)
    PROVE  PingStillAbsent'
<1> SUFFICES ASSUME NEW t \in Tunnels, task'[t].op = "ping"
             PROVE  /\ TunnelOf[task'[t].route.key] = t
                    /\ task'[t].route.rtt = DefaultRtt
                    /\ ~HasKey(RoutesOf(task[t].id)', task'[t].route.key)
                    /\ task'[t] = task[t]
    BY DEF PingStillAbsent
<1>1. task'[t] = task[t]
    BY DEF Idle
<1>2. /\ task[t].id \in Ids /\ task[t].route.key \in Keys
      /\ TunnelOf[task[t].route.key] = t
      /\ task[t].route.rtt = DefaultRtt
      /\ ~HasKey(RoutesOf(task[t].id), task[t].route.key)
    BY <1>1, TaskType DEF IInv, PingStillAbsent, Route
<1>3. task[t].route.key # key
    BY <1>1, <1>2 DEF Idle
<1> QED
    BY <1>1, <1>2, <1>3

\* add_owner_route, by the tunnel that owns the key.
LEMMA AddOwnerRouteKeeps ==
    ASSUME IInv, NEW id \in Ids, NEW key \in Keys, add_owner_route(id, key),
           task[TunnelOf[key]] = Idle,
           UNCHANGED <<expired_keys, sweep_holds_locks, task, silent>>
    PROVE  IInv' /\ (OrderInv => OrderInv')
<1> DEFINE r == [key |-> key, metric |-> 1, rtt |-> DefaultRtt]
           l == IF HasKey(RoutesOf(id), key) THEN RoutesOf(id)
                ELSE Append(RoutesOf(id), r)
<1>1. r \in Route
    BY RouteTableAssumption DEF Route
<1>2. MapsInv /\ RoutesOf(id) \in Seq(Route) /\ KeysOnce(RoutesOf(id))
    BY RoutesOfType DEF IInv, MapsInv, ListsWellFormed
<1>3. /\ l \in Seq(Route) /\ KeysOnce(l) /\ l # <<>>
      /\ ToSet(l) = IF HasKey(RoutesOf(id), key) THEN ToSet(RoutesOf(id))
                    ELSE ToSet(RoutesOf(id)) \cup {r}
    <2>1. CASE HasKey(RoutesOf(id), key)
        BY <1>2, <2>1 DEF HasKey
    <2>2. CASE ~HasKey(RoutesOf(id), key)
        BY <1>1, <1>2, <2>2, AppendRoute
    <2> QED
        BY <2>1, <2>2
<1>4. \A k \in Keys : HasKey(l, k) <=> HasKey(RoutesOf(id), k) \/ k = key
    BY <1>3, HasKeyInSet
<1>5. /\ route_table' = [route_table EXCEPT ![id] = l]
      /\ route_key_owner' \in {route_key_owner, [route_key_owner EXCEPT ![key] = id]}
      /\ route_key_time' = [route_key_time EXCEPT ![<<id, key>>] = 0]
      /\ task' \in [Tunnels -> Task]
    BY DEF add_owner_route, IInv, TypeOK
<1> HIDE DEF l
<1>6. /\ MapsInv'
      /\ RoutesOf(id)' = l
      /\ \A i \in Ids \ {id} : RoutesOf(i)' = RoutesOf(i)
    BY <1>2, <1>3, <1>4, <1>5, PutKeepsMaps
<1>7. PingStillAbsent'
    <2>1. \A i \in Ids, k \in Keys \ {key} :
             HasKey(RoutesOf(i)', k) => HasKey(RoutesOf(i), k)
        BY <1>4, <1>6
    <2> QED
        BY <2>1, PutKeepsPings
<1>8. ASSUME OrderInv
      PROVE  OrderInv'
    <2>1. Sorted(l) /\ \A x \in ToSet(l) : x.rtt <= DefaultRtt
        <3>1. Sorted(RoutesOf(id)) /\ \A x \in ToSet(RoutesOf(id)) : x.rtt <= DefaultRtt
            BY <1>8 DEF OrderInv
        <3>2. \A j \in 1..Len(RoutesOf(id)) : RoutesOf(id)[j] \in ToSet(RoutesOf(id))
            BY <1>2, ListFacts DEF ToSet
        <3>3. CASE HasKey(RoutesOf(id), key)
            BY <3>1, <3>3 DEF l
        <3>4. CASE ~HasKey(RoutesOf(id), key)
            <4>1. \A j \in 1..Len(RoutesOf(id)) : RoutesOf(id)[j].rtt <= r.rtt
                BY <3>1, <3>2
            <4>2. Sorted(l)
                BY <1>1, <1>2, <3>1, <3>4, <4>1, AppendRoute DEF l
            <4>3. r.rtt <= DefaultRtt
                BY RouteTableAssumption
            <4> QED
                BY <1>3, <3>1, <3>4, <4>2, <4>3
        <3> QED
            BY <3>3, <3>4
    <2> QED
        BY <1>6, <1>8, <2>1 DEF OrderInv
<1> QED
    BY <1>6, <1>7, <1>8 DEF IInv, MapsInv

\* add_route, by the tunnel that owns the key of the route: a Pong, or the
\* second half of a Ping, which leaves the tunnel idle.
LEMMA AddRouteKeeps ==
    ASSUME IInv, NEW id \in Ids, NEW route \in Route, add_route(id, route),
           task' \in [Tunnels -> Task],
           \A t \in Tunnels : task'[t] \in {task[t], Idle},
           task'[TunnelOf[route.key]] = Idle,
           UNCHANGED <<expired_keys, sweep_holds_locks, silent>>
    PROVE  /\ IInv'
           /\ OrderInv /\ route.rtt <= DefaultRtt => OrderInv'
           /\ \A i \in Ids : \A x \in ToSet(RoutesOf(i)) :
                 x \in ToSet(RoutesOf(i)') \/ (i = id /\ x.key = route.key)
<1>1. route.key \in Keys /\ route.rtt \in Nat
    BY DEF Route
<1>2. MapsInv /\ RoutesOf(id) \in Seq(Route) /\ KeysOnce(RoutesOf(id))
    BY RoutesOfType DEF IInv, MapsInv, ListsWellFormed
<1>3. CASE UNCHANGED maps
    <2>1. MapsInv' /\ \A i \in Ids : RoutesOf(i)' = RoutesOf(i)
        BY <1>2, <1>3 DEF MapsInv, TypeOK, NoImmortalRoute, OwnerRouted,
                          ListsWellFormed, RoutesOf, maps
    <2>2. PingStillAbsent'
        BY <1>1, <2>1, PutKeepsPings
    <2>3. OrderInv => OrderInv'
        BY <2>1 DEF OrderInv
    <2> QED
        BY <2>1, <2>2, <2>3 DEF IInv, MapsInv
<1>4. CASE ~UNCHANGED maps
    <2> DEFINE l == Placed(RoutesOf(id), route)
    <2>1. /\ l \in Seq(Route) /\ KeysOnce(l) /\ l # <<>>
          /\ ToSet(l) = {x \in ToSet(RoutesOf(id)) : x.key # route.key} \cup {route}
          /\ Sorted(RoutesOf(id)) => Sorted(l)
        BY <1>2, PlacedFacts
    <2>2. /\ route_table' = [route_table EXCEPT ![id] = l]
          /\ route_key_owner' \in {route_key_owner,
                                   [route_key_owner EXCEPT ![route.key] = id]}
          /\ route_key_time' = [route_key_time EXCEPT ![<<id, route.key>>] = 0]
        BY <1>4 DEF add_route
    <2> HIDE DEF l
    <2>3. \A k \in Keys : HasKey(l, k) <=> HasKey(RoutesOf(id), k) \/ k = route.key
        BY <2>1, HasKeyInSet
    <2>4. /\ MapsInv'
          /\ RoutesOf(id)' = l
          /\ \A i \in Ids \ {id} : RoutesOf(i)' = RoutesOf(i)
        BY <1>1, <1>2, <2>1, <2>2, <2>3, PutKeepsMaps
    <2>5. PingStillAbsent'
        <3>1. \A i \in Ids, k \in Keys \ {route.key} :
                 HasKey(RoutesOf(i)', k) => HasKey(RoutesOf(i), k)
            BY <2>3, <2>4
        <3> QED
            BY <1>1, <3>1, PutKeepsPings
    <2>6. OrderInv /\ route.rtt <= DefaultRtt => OrderInv'
        BY <2>1, <2>4 DEF OrderInv
    <2>7. \A i \in Ids : \A x \in ToSet(RoutesOf(i)) :
             x \in ToSet(RoutesOf(i)') \/ (i = id /\ x.key = route.key)
        BY <2>1, <2>4
    <2> QED
        BY <2>4, <2>5, <2>6, <2>7 DEF IInv, MapsInv
<1> QED
    BY <1>3, <1>4

\* A route is taken out and no task starts: Pings stay absent, order stays.
LEMMA TakeKeeps ==
    ASSUME IInv, MapsInv', NEW id \in Ids, NEW key \in Keys,
           ToSet(RoutesOf(id)') = {r \in ToSet(RoutesOf(id)) : r.key # key},
           Sorted(RoutesOf(id)) => Sorted(RoutesOf(id)'),
           \A i \in Ids \ {id} : RoutesOf(i)' = RoutesOf(i),
           \A t \in Tunnels : task'[t] \in {task[t], Ended}
    PROVE  IInv' /\ (OrderInv => OrderInv')
<1>1. \A i \in Ids, k \in Keys : HasKey(RoutesOf(i)', k) => HasKey(RoutesOf(i), k)
    BY HasKeyInSet
<1>2. PingStillAbsent'
    <2> SUFFICES ASSUME NEW t \in Tunnels, task'[t].op = "ping"
                 PROVE  /\ TunnelOf[task'[t].route.key] = t
                        /\ task'[t].route.rtt = DefaultRtt
                        /\ ~HasKey(RoutesOf(task[t].id)', task'[t].route.key)
                        /\ task'[t] = task[t]
        BY DEF PingStillAbsent
    <2>1. task'[t] = task[t]
        BY DEF Ended
    <2>2. /\ task[t].id \in Ids /\ task[t].route.key \in Keys
          /\ TunnelOf[task[t].route.key] = t
          /\ task[t].route.rtt = DefaultRtt
          /\ ~HasKey(RoutesOf(task[t].id), task[t].route.key)
        BY <2>1, TaskType DEF IInv, PingStillAbsent, Route
    <2> QED
        BY <1>1, <2>1, <2>2
<1>3. ASSUME OrderInv
      PROVE  OrderInv'
    <2>1. \A i \in Ids : ToSet(RoutesOf(i)') \subseteq ToSet(RoutesOf(i))
        OBVIOUS
    <2> QED
        BY <1>3, <2>1 DEF OrderInv
<1> QED
    BY <1>2, <1>3 DEF IInv, MapsInv

-----------------------------------------------------------------------------
(* The steps.                                                              *)

\* Every measured round-trip time is at most the default one.
RttsBounded == \A rtt \in Rtts : rtt <= DefaultRtt

\* A step that changes no list and no owner, gives each route of the table a
\* time or an expired mark, and starts no Ping.
LEMMA ListsKept ==
    ASSUME IInv, UNCHANGED <<route_table, route_key_owner>>, TypeOK',
           \A p \in Pairs :
              route_key_time[p] # NoTime \/ p \in expired_keys =>
              route_key_time'[p] # NoTime \/ p \in expired_keys',
           \A t \in Tunnels : task'[t].op = "ping" => task'[t] = task[t]
    PROVE  IInv' /\ (OrderInv => OrderInv')
<1>1. \A i \in Ids : RoutesOf(i)' = RoutesOf(i)
    BY DEF RoutesOf
<1>2. NoImmortalRoute'
    BY <1>1 DEF IInv, NoImmortalRoute, Pairs
<1>3. OwnerRouted' /\ ListsWellFormed'
    BY <1>1 DEF IInv, OwnerRouted, ListsWellFormed
<1>4. PingStillAbsent'
    BY <1>1, TaskType DEF IInv, PingStillAbsent
<1>5. OrderInv => OrderInv'
    BY <1>1 DEF OrderInv
<1> QED
    BY <1>2, <1>3, <1>4, <1>5 DEF IInv

\* A Ping that finds no list for its peer: nothing has the key it will add.
LEMMA PingArrivesKeeps ==
    ASSUME IInv, NEW id \in Ids, NEW key \in Keys, NEW metric \in PingMetrics,
           PingArrives(id, key, metric)
    PROVE  IInv' /\ (OrderInv => OrderInv')
<1> DEFINE r == [key |-> key, metric |-> metric, rtt |-> DefaultRtt]
           ping == [op |-> "ping", id |-> id, route |-> r]
<1>1. r \in Route /\ TunnelOf[key] \in Tunnels
    BY RouteTableAssumption DEF Route
<1>2. ping \in Task
    BY <1>1 DEF Task
<1>3. task' = [task EXCEPT ![TunnelOf[key]] = ping] /\ UNCHANGED <<maps, silent>>
      /\ UNCHANGED <<expired_keys, sweep_holds_locks>> /\ route_table[id] = NoList
    BY DEF PingArrives
<1> HIDE DEF ping
<1>4. TypeOK'
    BY <1>1, <1>2, <1>3 DEF IInv, TypeOK, maps
<1>5. \A i \in Ids : RoutesOf(i)' = RoutesOf(i)
    BY <1>3 DEF RoutesOf, maps
<1>6. NoImmortalRoute' /\ OwnerRouted' /\ ListsWellFormed'
    BY <1>3, <1>5 DEF IInv, NoImmortalRoute, OwnerRouted, ListsWellFormed, maps
<1>7. PingStillAbsent'
    <2> SUFFICES ASSUME NEW t \in Tunnels, task'[t].op = "ping"
                 PROVE  /\ TunnelOf[task'[t].route.key] = t
                        /\ task'[t].route.rtt = DefaultRtt
                        /\ ~HasKey(RoutesOf(task[t].id)', task'[t].route.key)
        BY DEF PingStillAbsent
    <2>1. CASE t = TunnelOf[key]
        <3>1. task'[t] = ping
            BY <1>1, <1>3, <2>1 DEF IInv, TypeOK
        <3>2. /\ task'[t].id = id /\ task'[t].route.key = key
              /\ task'[t].route.rtt = DefaultRtt
            BY <3>1 DEF ping
        <3>3. RoutesOf(id)' = <<>> /\ ~HasKey(<<>>, key)
            BY <1>3, <1>5 DEF RoutesOf, HasKey
        <3> QED
            BY <2>1, <3>2, <3>3
    <2>2. CASE t # TunnelOf[key]
        <3>1. task'[t] = task[t]
            BY <1>1, <1>3, <2>2 DEF IInv, TypeOK
        <3> QED
            BY <1>5, <3>1, TaskType DEF IInv, PingStillAbsent
    <2> QED
        BY <2>1, <2>2
<1>8. OrderInv => OrderInv'
    BY <1>5 DEF OrderInv
<1> QED
    BY <1>4, <1>6, <1>7, <1>8 DEF IInv

\* The second half of a Ping: it adds, and takes no route away.
LEMMA PingAddsKeeps ==
    ASSUME IInv, NEW t \in Tunnels, PingAdds(t)
    PROVE  /\ IInv' /\ (OrderInv => OrderInv')
           /\ \A i \in Ids : ToSet(RoutesOf(i)) \subseteq ToSet(RoutesOf(i)')
<1>1. /\ task[t].id \in Ids /\ task[t].route \in Route
      /\ TunnelOf[task[t].route.key] = t /\ task[t].route.rtt = DefaultRtt
      /\ ~HasKey(RoutesOf(task[t].id), task[t].route.key)
    BY TaskType DEF PingAdds, IInv, PingStillAbsent
<1>2. /\ task' \in [Tunnels -> Task] /\ task'[t] = Idle
      /\ \A u \in Tunnels : task'[u] \in {task[u], Idle}
    BY DEF PingAdds, IInv, TypeOK, Task
<1>3. /\ IInv'
      /\ OrderInv /\ task[t].route.rtt <= DefaultRtt => OrderInv'
      /\ \A i \in Ids : \A x \in ToSet(RoutesOf(i)) :
            \/ x \in ToSet(RoutesOf(i)')
            \/ i = task[t].id /\ x.key = task[t].route.key
    BY <1>1, <1>2, AddRouteKeeps DEF PingAdds
<1>4. DefaultRtt <= DefaultRtt
    BY RouteTableAssumption
<1>5. \A x \in ToSet(RoutesOf(task[t].id)) : x.key # task[t].route.key
    BY <1>1, HasKeyInSet
<1> QED
    BY <1>1, <1>3, <1>4, <1>5

\* tcp_disconnect's remove_route.
LEMMA TcpRemovesKeeps ==
    ASSUME IInv, NEW t \in Tunnels, TcpRemoves(t)
    PROVE  IInv' /\ (OrderInv => OrderInv')
<1>1. PICK id \in Ids, key \in Keys : remove_route(id, key)
    BY TaskType DEF TcpRemoves, IInv
<1>2. /\ task' \in [Tunnels -> Task]
      /\ \A u \in Tunnels : task'[u] \in {task[u], Ended}
    BY DEF TcpRemoves, IInv, TypeOK, Task
<1>3. /\ route_key_time' \in [Pairs -> (0..MaxAge) \cup {NoTime}]
      /\ \A p \in Pairs \ {<<id, key>>} : route_key_time'[p] = route_key_time[p]
    BY <1>1 DEF remove_route, IInv, TypeOK
<1>4. UNCHANGED <<expired_keys, sweep_holds_locks, silent>> /\ sweep_holds_locks \in BOOLEAN
    BY DEF TcpRemoves, IInv, TypeOK
<1>5. /\ MapsInv'
      /\ ToSet(RoutesOf(id)') = {r \in ToSet(RoutesOf(id)) : r.key # key}
      /\ Sorted(RoutesOf(id)) => Sorted(RoutesOf(id)')
      /\ \A i \in Ids \ {id} : RoutesOf(i)' = RoutesOf(i)
    BY <1>1, <1>2, <1>3, <1>4, TakeKeepsMaps DEF remove_route, IInv, MapsInv
<1> QED
    BY <1>1, <1>2, <1>5, TakeKeeps

\* One removal of the timeout's second half.
LEMMA SweepRetainsKeeps ==
    ASSUME IInv, NEW id \in Ids, NEW key \in Keys, SweepRetains(id, key)
    PROVE  IInv' /\ (OrderInv => OrderInv')
<1>1. /\ task' = task /\ task' \in [Tunnels -> Task]
      /\ route_key_time' = route_key_time
      /\ route_key_time' \in [Pairs -> (0..MaxAge) \cup {NoTime}]
      /\ expired_keys' = expired_keys \ {<<id, key>>}
      /\ sweep_holds_locks' \in BOOLEAN /\ silent' = silent
    BY DEF SweepRetains, IInv, TypeOK
<1>2. /\ MapsInv'
      /\ ToSet(RoutesOf(id)') = {r \in ToSet(RoutesOf(id)) : r.key # key}
      /\ Sorted(RoutesOf(id)) => Sorted(RoutesOf(id)')
      /\ \A i \in Ids \ {id} : RoutesOf(i)' = RoutesOf(i)
    BY <1>1, TakeKeepsMaps DEF SweepRetains, IInv, MapsInv
<1> QED
    BY <1>1, <1>2, TakeKeeps

\* The first half of the timeout: what loses its time is marked expired.
LEMMA SweepCollectsKeeps ==
    ASSUME IInv, SweepCollects
    PROVE  IInv' /\ (OrderInv => OrderInv')
<1>1. expired_keys' \subseteq Pairs /\ expired_keys = {}
    BY DEF SweepCollects
<1>2. /\ route_key_time' \in [Pairs -> (0..MaxAge) \cup {NoTime}]
      /\ \A p \in Pairs : p \notin expired_keys' => route_key_time'[p] = route_key_time[p]
    BY DEF SweepCollects, IInv, TypeOK
<1>3. TypeOK'
    BY <1>1, <1>2 DEF SweepCollects, IInv, TypeOK
<1> QED
    BY <1>1, <1>2, <1>3, ListsKept DEF SweepCollects

\* Time passes.
LEMMA TickKeeps ==
    ASSUME IInv, Tick
    PROVE  IInv' /\ (OrderInv => OrderInv')
<1>1. ASSUME NEW p \in Pairs
      PROVE  /\ route_key_time'[p] \in (0..MaxAge) \cup {NoTime}
             /\ route_key_time[p] # NoTime => route_key_time'[p] # NoTime
    <2>1. /\ route_key_time'[p] = IF route_key_time[p] \in 0..(MaxAge - 1)
                                  THEN route_key_time[p] + 1 ELSE route_key_time[p]
          /\ route_key_time[p] \in (0..MaxAge) \cup {NoTime}
          /\ NoTime \notin Nat /\ MaxAge \in Nat
        BY RouteTableAssumption DEF Tick, IInv, TypeOK
    <2> QED
        BY <2>1
<1>2. TypeOK'
    BY <1>1 DEF Tick, IInv, TypeOK
<1> QED
    BY <1>1, <1>2, ListsKept DEF Tick

\* A TCP tunnel ends, or a key falls silent.
LEMMA EndKeeps ==
    ASSUME IInv, NEW key \in Keys, TcpCloses(key) \/ Silence(key)
    PROVE  IInv' /\ (OrderInv => OrderInv')
<1>1. CASE Silence(key)
    <2>1. TypeOK'
        BY <1>1 DEF Silence, maps, IInv, TypeOK
    <2> QED
        BY <1>1, <2>1, ListsKept DEF Silence, maps
<1>2. CASE TcpCloses(key)
    <2> DEFINE next == IF route_key_owner[key] = NoId THEN Ended
                       ELSE [op |-> "drop", id |-> route_key_owner[key], key |-> key]
    <2>1. next \in Task /\ next.op # "ping"
        BY DEF IInv, TypeOK, Task, Ended
    <2>2. /\ task' = [task EXCEPT ![TunnelOf[key]] = next]
          /\ silent' = silent \cup {key}
          /\ UNCHANGED <<maps, expired_keys, sweep_holds_locks>>
        BY <1>2 DEF TcpCloses
    <2> HIDE DEF next
    <2>3. TypeOK'
        BY <2>1, <2>2 DEF IInv, TypeOK, maps
    <2>4. \A t \in Tunnels : task'[t].op = "ping" => task'[t] = task[t]
        BY <2>1, <2>2 DEF IInv, TypeOK
    <2> QED
        BY <2>2, <2>3, <2>4, ListsKept DEF maps
<1> QED
    BY <1>1, <1>2

\* Every step keeps the invariant, and the order when measurements are small.
LEMMA StepKeeps ==
    ASSUME IInv, [Next]_vars
    PROVE  IInv' /\ (RttsBounded /\ OrderInv => OrderInv')
<1>1. ASSUME NEW id \in Ids, NEW key \in Keys, PunchArrives(id, key)
      PROVE  IInv' /\ (OrderInv => OrderInv')
    BY <1>1, AddOwnerRouteKeeps DEF PunchArrives, Receives
<1>2. ASSUME NEW id \in Ids, NEW key \in Keys, NEW m \in PongMetrics, NEW rtt \in Rtts,
             PongArrives(id, key, m, rtt)
      PROVE  IInv' /\ (RttsBounded /\ OrderInv => OrderInv')
    <2> DEFINE route == [key |-> key, metric |-> m, rtt |-> rtt]
    <2>1. route \in Route /\ route.key = key /\ route.rtt = rtt
        BY RouteTableAssumption DEF Route
    <2>2. add_route(id, route)
        BY <1>2 DEF PongArrives
    <2>3. /\ task' \in [Tunnels -> Task] /\ task' = task
          /\ \A t \in Tunnels : task'[t] \in {task[t], Idle}
          /\ task'[TunnelOf[key]] = Idle
          /\ UNCHANGED <<expired_keys, sweep_holds_locks, silent>>
        BY <1>2 DEF PongArrives, Receives, IInv, TypeOK
    <2> HIDE DEF route
    <2>4. IInv' /\ (OrderInv /\ route.rtt <= DefaultRtt => OrderInv')
        BY <2>1, <2>2, <2>3, AddRouteKeeps
    <2> QED
        BY <2>1, <2>4 DEF RttsBounded
<1>3. ASSUME NEW key \in Keys, TcpCloses(key) \/ Silence(key)
      PROVE  IInv' /\ (OrderInv => OrderInv')
    BY <1>3, EndKeeps
<1>4. ASSUME UNCHANGED vars
      PROVE  IInv' /\ (OrderInv => OrderInv')
    BY <1>4, ListsKept DEF vars, maps, IInv, TypeOK
<1> QED
    BY <1>1, <1>2, <1>3, <1>4, PingArrivesKeeps, PingAddsKeeps, TcpRemovesKeeps,
       SweepCollectsKeeps, SweepRetainsKeeps, TickKeeps DEF Next

\* The empty maps the client starts with.
LEMMA InitKeeps ==
    ASSUME Init
    PROVE  IInv /\ OrderInv
<1>1. \A id \in Ids : RoutesOf(id) = <<>> /\ route_table[id] = NoList
    BY DEF Init, RoutesOf
<1>2. \A key : ~HasKey(<<>>, key)
    BY DEF HasKey
<1>3. KeysOnce(<<>>) /\ Sorted(<<>>) /\ ToSet(<<>>) = {}
    BY DEF KeysOnce, Sorted, ToSet
<1>4. TypeOK
    BY DEF Init, TypeOK, Task
<1>5. PingStillAbsent
    BY DEF Init, PingStillAbsent, Idle
<1>6. NoImmortalRoute /\ OwnerRouted /\ ListsWellFormed
    BY <1>1, <1>2, <1>3, RouteTableAssumption, EmptySeq
       DEF Init, NoImmortalRoute, OwnerRouted, ListsWellFormed
<1> QED
    BY <1>1, <1>3, <1>4, <1>5, <1>6 DEF IInv, OrderInv

-----------------------------------------------------------------------------
(* The theorems.                                                           *)

\* The inductive invariant holds whatever the peers, keys and tunnels.
THEOREM InvariantHolds == Spec => []IInv
<1>1. Init => IInv
    BY InitKeeps
<1>2. IInv /\ [Next]_vars => IInv'
    BY StepKeeps
<1> QED
    BY <1>1, <1>2, PTL DEF Spec

\* The maps keep their types: RouteTableInner's fields and the tasks' locals.
THEOREM TypesHold == Spec => []TypeOK
<1>1. IInv => TypeOK
    BY DEF IInv
<1> QED
    BY <1>1, InvariantHolds, PTL

\* remove_oldest_route finds every route of the table in the end: none is
\* left without a time, whatever add_route, remove_route and it interleave.
THEOREM RoutesExpire == Spec => []NoImmortalRoute
<1>1. IInv => NoImmortalRoute
    BY DEF IInv
<1> QED
    BY <1>1, InvariantHolds, PTL

\* get_id_by_route_key names a peer with a route over the key.
THEOREM OwnersHaveRoutes == Spec => []OwnerRouted
<1>1. IInv => OwnerRouted
    BY DEF IInv
<1> QED
    BY <1>1, InvariantHolds, PTL

\* No list is empty and none holds a key twice.
THEOREM ListsStayWellFormed == Spec => []ListsWellFormed
<1>1. IInv => ListsWellFormed
    BY DEF IInv
<1> QED
    BY <1>1, InvariantHolds, PTL

\* add_route_if_absent takes no route away, though it tests and inserts under
\* different locks.
THEOREM PingsOnlyAdd == Spec => PingOnlyAdds
<1> DEFINE Kept == \A t \in Tunnels : task[t].op = "ping" /\ task'[t] = Idle =>
                      \A id \in Ids : ToSet(RoutesOf(id)) \subseteq ToSet(RoutesOf(id)')
<1>1. IInv /\ [Next]_vars => [Kept]_vars
    <2> SUFFICES ASSUME IInv, Next, NEW t \in Tunnels, task[t].op = "ping",
                        task'[t] = Idle, NEW id \in Ids
                 PROVE  ToSet(RoutesOf(id)) \subseteq ToSet(RoutesOf(id)')
        OBVIOUS
    <2>1. PICK u \in Tunnels : PingAdds(u)
        <3>1. task[t] # Idle /\ task' # task
            BY DEF Idle
        <3>2. ASSUME NEW i \in Ids, NEW key \in Keys, NEW m \in PingMetrics,
                     PingArrives(i, key, m)
              PROVE  FALSE
            BY <3>1, <3>2 DEF PingArrives, Receives, IInv, TypeOK, Idle
        <3>3. ASSUME NEW key \in Keys, TcpCloses(key)
              PROVE  FALSE
            BY <3>1, <3>3 DEF TcpCloses, IInv, TypeOK, Idle, Ended
        <3>4. ASSUME NEW u \in Tunnels, TcpRemoves(u)
              PROVE  FALSE
            BY <3>1, <3>4 DEF TcpRemoves, IInv, TypeOK, Idle, Ended
        <3> QED
            BY <3>1, <3>2, <3>3, <3>4
               DEF Next, PunchArrives, PongArrives, Silence, SweepCollects,
                   SweepRetains, Tick
    <2> QED
        BY <2>1, PingAddsKeeps
<1>2. PingOnlyAdds <=> [][Kept]_vars
    BY DEF PingOnlyAdds
<1> QED
    BY <1>1, <1>2, InvariantHolds, PTL DEF Spec

\* When no measurement exceeds the default round-trip time, the route that
\* get_route_by_id returns is a fastest one.
THEOREM BestRouteHolds ==
    ASSUME RttsBounded
    PROVE  Spec => []BestRouteFirst
<1>1. Init => IInv /\ OrderInv
    BY InitKeeps
<1>2. IInv /\ OrderInv /\ [Next]_vars => IInv' /\ OrderInv'
    BY StepKeeps
<1>3. IInv /\ OrderInv => BestRouteFirst
    <2> SUFFICES ASSUME IInv, OrderInv, NEW id \in Ids, route_table[id] # NoList,
                        NEW i \in DOMAIN route_table[id]
                 PROVE  get_route_by_id(id).rtt <= route_table[id][i].rtt
        BY DEF BestRouteFirst
    <2>1. RoutesOf(id) = route_table[id] /\ RoutesOf(id) \in Seq(Route)
        BY RoutesOfType DEF IInv
    <2>2. i \in 1..Len(RoutesOf(id)) /\ 1 \in 1..Len(RoutesOf(id)) /\ 1 <= i
        BY <2>1, ListFacts
    <2>3. get_route_by_id(id) = RoutesOf(id)[1]
        BY <2>1, <2>2 DEF get_route_by_id
    <2> QED
        BY <2>1, <2>2, <2>3, ListFacts DEF OrderInv, Sorted
<1> QED
    BY <1>1, <1>2, <1>3, PTL DEF Spec
=============================================================================

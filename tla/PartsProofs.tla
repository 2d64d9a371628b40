----------------------------- MODULE PartsProofs -----------------------------
(***************************************************************************)
(* Proofs about Rpc, Stats, Manager and Mesh, which share no state.        *)
(***************************************************************************)
EXTENDS Rpc, Stats, Manager, Mesh, FiniteSetTheorems, TLAPS

-----------------------------------------------------------------------------
(* Rpc.                                                                    *)

RpcTypeOK ==
    /\ rpc_id \in [Gateways -> Nat]
    /\ pending \in [Gateways -> SUBSET Nat]
    /\ sent \subseteq Requests
    /\ todo \in [Askers -> SUBSET Gateways]
    /\ request \in [Askers -> Requests \cup {Nobody}]
    /\ at \in [Askers -> {"idle", "asking", "created", "waiting", "leaving"}]
    /\ mail \in [Askers -> Requests \cup {Nobody}]
    /\ calls \in Nat

\* A caller has a request from its creation to its drop, and its channel is
\* empty until it is sent.
OwnRequests ==
    \A c \in Askers :
        /\ request[c] # Nobody <=> at[c] \in {"created", "waiting", "leaving"}
        /\ request[c] # Nobody => request[c].by = c /\ request[c].id <= rpc_id[request[c].server]
        /\ at[c] = "created" => mail[c] = Nobody

\* A number stands for one request, also for those that are over, whose
\* responses may still come.
NumbersAreUnique ==
    /\ \A r \in sent : r.id <= rpc_id[r.server]
    /\ \A r, q \in sent : r.server = q.server /\ r.id = q.id => r = q
    /\ \A c \in Askers : request[c] # Nobody =>
        /\ \A r \in sent : r.server = request[c].server /\ r.id = request[c].id => r = request[c]
        /\ \A d \in Askers :
            /\ request[d] # Nobody
            /\ request[d].server = request[c].server
            /\ request[d].id = request[c].id
            => d = c

RpcInv == RpcTypeOK /\ OwnRequests /\ NumbersAreUnique /\ AnswersOwnRequest

LEMMA RpcInitial == RpcInit => RpcInv
  BY RpcAssumption
     DEF RpcInit, RpcInv, RpcTypeOK, OwnRequests, NumbersAreUnique, AnswersOwnRequest

\* A new request has a number above all others of its server.
LEMMA RpcCreates ==
    ASSUME RpcInv, NEW c \in Askers, create_request_and_waiter(c)
    PROVE  RpcInv'
<1> USE RpcAssumption DEF RpcInv
<1>1. PICK s \in todo[c] :
        /\ rpc_id' = [rpc_id EXCEPT ![s] = rpc_id[s] + 1]
        /\ pending' = [pending EXCEPT ![s] = @ \cup {rpc_id[s] + 1}]
        /\ request' = [request EXCEPT ![c] =
                          [server |-> s, id |-> rpc_id[s] + 1, by |-> c, call |-> calls]]
        /\ todo' = [todo EXCEPT ![c] = @ \ {s}]
  BY DEF create_request_and_waiter
<1>2. /\ at[c] = "asking" /\ at' = [at EXCEPT ![c] = "created"]
      /\ mail' = [mail EXCEPT ![c] = Nobody]
      /\ UNCHANGED <<sent, lists, calls>>
  BY DEF create_request_and_waiter
<1>3. s \in Gateways /\ rpc_id[s] \in Nat
  BY DEF RpcTypeOK
<1> DEFINE new == [server |-> s, id |-> rpc_id[s] + 1, by |-> c, call |-> calls]
<1>4. new \in Requests /\ new # Nobody /\ new.server = s /\ new.id = rpc_id[s] + 1 /\ new.by = c
  BY <1>3 DEF RpcTypeOK, Requests
<1>5. request' = [request EXCEPT ![c] = new]
  BY <1>1
<1> HIDE DEF new
<1>6. RpcTypeOK'
  BY <1>1, <1>2, <1>3, <1>4, <1>5 DEF RpcTypeOK
<1>7. \A d \in Askers : request[d] # Nobody =>
          request[d] \in Requests /\ request[d].id \in Nat /\ request[d].server \in Gateways
  BY DEF RpcTypeOK, Requests
<1>8. \A r \in sent : r.id \in Nat /\ r.server \in Gateways
  BY DEF RpcTypeOK, Requests
<1>9. OwnRequests'
  BY <1>1, <1>2, <1>3, <1>4, <1>5, <1>7 DEF RpcTypeOK, OwnRequests
<1>10. NumbersAreUnique'
  BY <1>1, <1>2, <1>3, <1>4, <1>5, <1>7, <1>8 DEF RpcTypeOK, OwnRequests, NumbersAreUnique
<1>11. AnswersOwnRequest'
  <2>1. \A d \in Askers :
          /\ mail'[d] # Nobody => mail'[d].by = d
          /\ at'[d] = "waiting" /\ mail'[d] # Nobody => mail'[d] = request'[d]
    BY <1>2, <1>5 DEF RpcTypeOK, AnswersOwnRequest
  <2>2. ASSUME NEW t \in Gateways, NEW id \in pending'[t]
        PROVE  \E d \in Askers : request'[d] # Nobody /\ request'[d].server = t /\ request'[d].id = id
    <3>1. CASE id \in pending[t]
      <4>1. PICK d \in Askers : request[d] # Nobody /\ request[d].server = t /\ request[d].id = id
        BY <3>1 DEF AnswersOwnRequest
      <4>2. d # c
        BY <1>2, <4>1 DEF OwnRequests
      <4> QED BY <1>5, <4>1, <4>2 DEF RpcTypeOK
    <3>2. CASE id \notin pending[t]
      BY <1>1, <1>3, <1>4, <1>5, <2>2, <3>2 DEF RpcTypeOK
    <3> QED BY <3>1, <3>2
  <2> QED BY <2>1, <2>2 DEF AnswersOwnRequest
<1> QED BY <1>6, <1>9, <1>10, <1>11

\* A response finds the request it was given to, or none.
LEMMA RpcNotifies ==
    ASSUME RpcInv, NEW s \in Gateways, notify_response(s)
    PROVE  RpcInv'
<1> USE DEF RpcInv
<1>1. PICK r \in sent :
        /\ r.server = s
        /\ pending' = [pending EXCEPT ![s] = @ \ {r.id}]
        /\ mail' = [c \in Askers |->
                IF at[c] = "waiting" /\ request[c].server = s /\ request[c].id = r.id
                THEN r ELSE mail[c]]
        /\ UNCHANGED <<rpc_id, sent, todo, request, at, lists, calls>>
  BY DEF notify_response
<1>2. \A c \in Askers : at[c] = "waiting" /\ request[c].server = s /\ request[c].id = r.id =>
          r = request[c] /\ r.by = c
  BY <1>1 DEF OwnRequests, NumbersAreUnique
<1>3. RpcTypeOK'
  BY <1>1 DEF RpcTypeOK
<1>4. OwnRequests' /\ NumbersAreUnique'
  BY <1>1 DEF OwnRequests, NumbersAreUnique
<1>5. AnswersOwnRequest'
  BY <1>1, <1>2 DEF RpcTypeOK, AnswersOwnRequest
<1> QED BY <1>3, <1>4, <1>5

\* Whatever ends a request takes its number out of the map.
LEMMA RpcDrops ==
    ASSUME RpcInv, NEW c \in Askers, drop_waiter(c)
    PROVE  RpcInv'
<1> USE DEF RpcInv
<1>1. /\ at[c] = "leaving" /\ request[c] # Nobody
      /\ pending' = [pending EXCEPT ![request[c].server] = @ \ {request[c].id}]
      /\ request' = [request EXCEPT ![c] = Nobody]
      /\ at' = [at EXCEPT ![c] = "asking"]
      /\ UNCHANGED <<rpc_id, sent, todo, mail, lists, calls>>
  BY DEF drop_waiter, OwnRequests
<1>2. request[c].server \in Gateways
  BY <1>1 DEF RpcTypeOK, Requests
<1>3. RpcTypeOK' /\ OwnRequests' /\ NumbersAreUnique'
  BY <1>1, <1>2 DEF RpcTypeOK, OwnRequests, NumbersAreUnique
<1>4. \A d \in Askers : at'[d] = "waiting" => at[d] = "waiting" /\ request'[d] = request[d]
  BY <1>1 DEF RpcTypeOK
<1>5. ASSUME NEW t \in Gateways, NEW id \in pending'[t]
      PROVE  \E d \in Askers : request'[d] # Nobody /\ request'[d].server = t /\ request'[d].id = id
  <2>1. id \in pending[t] /\ ~(t = request[c].server /\ id = request[c].id)
    BY <1>1, <1>2, <1>5 DEF RpcTypeOK
  <2>2. PICK d \in Askers : request[d] # Nobody /\ request[d].server = t /\ request[d].id = id
    BY <2>1 DEF AnswersOwnRequest
  <2> QED BY <1>1, <2>1, <2>2 DEF RpcTypeOK
<1> QED BY <1>1, <1>3, <1>4, <1>5 DEF AnswersOwnRequest

\* Late and repeated responses never reach another request, and nothing of a
\* request that ended stays in the map (RpcNotifier, rpc.rs).
THEOREM AnswersReachTheirRequest == RpcSpec => []AnswersOwnRequest
<1>1. RpcInv /\ [RpcNext]_rpc_vars => RpcInv'
  <2>1. SUFFICES ASSUME RpcInv, [RpcNext]_rpc_vars PROVE RpcInv'
    OBVIOUS
  <2>2. CASE UNCHANGED rpc_vars
    BY <2>1, <2>2
       DEF rpc_vars, RpcInv, RpcTypeOK, OwnRequests, NumbersAreUnique, AnswersOwnRequest
  <2>3. ASSUME NEW s \in Gateways, notify_response(s) PROVE RpcInv'
    BY <2>1, <2>3, RpcNotifies
  <2>4. ASSUME NEW c \in Askers, create_request_and_waiter(c) PROVE RpcInv'
    BY <2>1, <2>4, RpcCreates
  <2>5. ASSUME NEW c \in Askers, drop_waiter(c) PROVE RpcInv'
    BY <2>1, <2>5, RpcDrops
  <2>6. ASSUME NEW c \in Askers, client_list(c) \/ client_list_returns(c) PROVE RpcInv'
    BY <2>1, <2>6 DEF client_list, client_list_returns,
         RpcInv, RpcTypeOK, OwnRequests, NumbersAreUnique, AnswersOwnRequest
  <2>7. ASSUME NEW c \in Askers, client_list_target(c) PROVE RpcInv'
    <3> USE <2>1, <2>7 DEF RpcInv
    <3>1. /\ at[c] = "created" /\ at' \in {[at EXCEPT ![c] = "waiting"], [at EXCEPT ![c] = "leaving"]}
          /\ mail[c] = Nobody
      BY DEF client_list_target, OwnRequests
    <3>2. sent' = sent \/ sent' = sent \cup {request[c]}
      BY DEF client_list_target
    <3>3. UNCHANGED <<rpc_id, pending, todo, request, mail, lists, calls>>
      BY DEF client_list_target
    <3>4. request[c] # Nobody
      BY <3>1 DEF OwnRequests
    <3>5. RpcTypeOK'
      BY <3>1, <3>2, <3>3, <3>4 DEF RpcTypeOK
    <3>6. OwnRequests'
      BY <3>1, <3>3 DEF RpcTypeOK, OwnRequests
    <3>7. NumbersAreUnique'
      BY <3>2, <3>3, <3>4 DEF OwnRequests, NumbersAreUnique
    <3>8. AnswersOwnRequest'
      BY <3>1, <3>3 DEF RpcTypeOK, AnswersOwnRequest
    <3> QED BY <3>5, <3>6, <3>7, <3>8
  <2>8. ASSUME NEW c \in Askers, wait_for_response(c) \/ wait_times_out(c) PROVE RpcInv'
    BY <2>1, <2>8 DEF wait_for_response, wait_times_out,
         RpcInv, RpcTypeOK, OwnRequests, NumbersAreUnique, AnswersOwnRequest
  <2> QED BY <2>1, <2>2, <2>3, <2>4, <2>5, <2>6, <2>7, <2>8 DEF RpcNext
<1>2. RpcInv => AnswersOwnRequest
  BY DEF RpcInv
<1> QED BY <1>1, <1>2, RpcInitial, PTL DEF RpcSpec

-----------------------------------------------------------------------------
(* Stats.                                                                  *)

Counts == [sent : Nat, received : Nat]
Works == [at : {"rest", "begun", "absent", "held"}, peer : Peers \cup {NoPeer},
          counter : Counters \cup {NoCounter}]

StatsTypeOK ==
    /\ counters \in [Peers -> Counters \cup {NoCounter}]
    /\ count \in [Counters -> Counts]
    /\ work \in [Recorders -> Works]
    /\ pings \in Nat
    /\ pongs \in [Peers -> Nat]
    /\ era \in {0, 1}
    /\ outdated \subseteq Recorders
    /\ recorded \in [Peers -> Counts]
    /\ disturbed \in BOOLEAN

\* A counter serves one peer, counts from nothing, and is the one every task
\* that holds a counter of the peer holds, but for those that held one which was
\* taken away: theirs is of the time before.
CountersAreShared ==
    /\ \A p \in Peers : counters[p] # NoCounter => counters[p][1] = p /\ counters[p][3] = era
    /\ \A k \in Counters : k[3] >= era /\ (\A p \in Peers : counters[p] # k) => count[k] = Zero
    /\ \A r \in Recorders :
        /\ work[r].at # "rest" => work[r].peer \in Peers
        /\ work[r].at = "held" /\ r \notin outdated =>
            /\ work[r].counter = counters[work[r].peer]
            /\ work[r].counter # NoCounter
        /\ r \in outdated =>
            /\ era = 1 /\ work[r].at = "held"
            /\ work[r].counter \in Counters /\ work[r].counter[3] = 0
    /\ era = 1 => disturbed

\* Loops that have a Pong of the peer to count, and pings sent but not counted.
InHand(p) == {r \in Loops : work[r].at # "rest" /\ work[r].peer = p}
Ahead(p) == IF work[Pinger].at # "rest" /\ work[Pinger].peer = p THEN 1 ELSE 0

\* Every Pong that is on its way, in hand or counted has its own ping.
PongsHavePings ==
    \A p \in Peers :
        /\ IsFiniteSet(InHand(p))
        /\ disturbed \/ recorded[p].received + pongs[p] + Cardinality(InHand(p))
                            <= recorded[p].sent + Ahead(p)

StatsInv == StatsTypeOK /\ CountersAreShared /\ NothingUncounted /\ PongsHavePings

LEMMA CountersArePairs ==
    /\ NoCounter \notin Counters
    /\ \A p \in Peers, r \in Recorders, e \in {0, 1} :
          <<p, r, e>> \in Counters /\ <<p, r, e>>[1] = p /\ <<p, r, e>>[3] = e
    /\ \A k \in Counters : k[3] \in {0, 1}
  BY StatsAssumption DEF NoCounter, Counters

LEMMA StatsInitial == StatsInit => StatsInv
<1>1. SUFFICES ASSUME StatsInit PROVE StatsInv
  OBVIOUS
<1>2. StatsTypeOK
  BY <1>1, CountersArePairs DEF StatsInit, StatsTypeOK, Counts, Works, Zero, Resting
<1>3. CountersAreShared /\ NothingUncounted
  BY <1>1, CountersArePairs
     DEF StatsInit, CountersAreShared, NothingUncounted, Shown, Resting, Recorders
<1>4. \A p \in Peers : InHand(p) = {} /\ Ahead(p) = 0
  BY <1>1 DEF StatsInit, InHand, Ahead, Resting, Recorders
<1>5. PongsHavePings
  BY <1>1, <1>4, FS_EmptySet DEF StatsInit, PongsHavePings, Zero
<1> QED BY <1>2, <1>3, <1>5 DEF StatsInv

\* A loop takes a Pong in hand or puts it down.
LEMMA OneMoreInHand ==
    ASSUME StatsTypeOK, NEW r \in Loops, NEW w \in Works, work' = [work EXCEPT ![r] = w],
           NEW p \in Peers, IsFiniteSet(InHand(p)), work[r].at = "rest", w.at # "rest"
    PROVE  /\ IsFiniteSet(InHand(p)')
           /\ Cardinality(InHand(p)') = Cardinality(InHand(p)) + (IF w.peer = p THEN 1 ELSE 0)
<1>1. CASE w.peer = p
  <2>1. InHand(p)' = InHand(p) \cup {r} /\ r \notin InHand(p)
    BY <1>1 DEF InHand, StatsTypeOK, Recorders
  <2> QED BY <1>1, <2>1, FS_AddElement
<1>2. CASE w.peer # p
  <2>1. InHand(p)' = InHand(p)
    BY <1>2 DEF InHand, StatsTypeOK, Recorders
  <2>2. Cardinality(InHand(p)) \in Nat
    BY FS_CardinalityType
  <2> QED BY <1>2, <2>1, <2>2
<1> QED BY <1>1, <1>2

LEMMA OneFewerInHand ==
    ASSUME StatsTypeOK, NEW r \in Loops, work' = [work EXCEPT ![r] = Resting],
           NEW p \in Peers, IsFiniteSet(InHand(p)), work[r].at # "rest"
    PROVE  /\ IsFiniteSet(InHand(p)')
           /\ Cardinality(InHand(p)') =
                  Cardinality(InHand(p)) - (IF work[r].peer = p THEN 1 ELSE 0)
<1>1. CASE work[r].peer = p
  <2>1. InHand(p)' = InHand(p) \ {r} /\ r \in InHand(p)
    BY <1>1 DEF InHand, StatsTypeOK, Recorders, Resting
  <2> QED BY <1>1, <2>1, FS_RemoveElement
<1>2. CASE work[r].peer # p
  <2>1. InHand(p)' = InHand(p)
    BY <1>2 DEF InHand, StatsTypeOK, Recorders, Resting
  <2>2. Cardinality(InHand(p)) \in Nat
    BY FS_CardinalityType
  <2> QED BY <1>2, <2>1, <2>2
<1> QED BY <1>1, <1>2

\* What leaves what the tasks have in hand alone.
LEMMA SameInHand ==
    ASSUME \A r \in Recorders : /\ work'[r].at # "rest" <=> work[r].at # "rest"
                                /\ work'[r].peer = work[r].peer
    PROVE  \A p \in Peers : InHand(p)' = InHand(p) /\ Ahead(p)' = Ahead(p)
  BY DEF InHand, Ahead, Recorders

\* A ping is sent before it is counted: the pinger is one ahead.
LEMMA StatsPings ==
    ASSUME StatsInv, SendPing
    PROVE  StatsInv'
<1> USE StatsAssumption DEF StatsInv
<1>1. PICK p \in Peers :
        /\ pongs' = [pongs EXCEPT ![p] = @ + 1]
        /\ work' = [work EXCEPT ![Pinger] = [Resting EXCEPT !.at = "begun", !.peer = p]]
  BY DEF SendPing
<1>2. /\ work[Pinger].at = "rest" /\ pings' = pings + 1
      /\ UNCHANGED <<counters, era, outdated, count, recorded, disturbed>>
  BY DEF SendPing
<1>3. PICK w \in Works : /\ w = [Resting EXCEPT !.at = "begun", !.peer = p]
                         /\ w.at = "begun" /\ w.peer = p
  <2>1. Resting \in Works
    BY DEF Resting, Works
  <2>2. [Resting EXCEPT !.at = "begun", !.peer = p] \in Works
    BY <2>1 DEF Works
  <2> QED BY <2>1, <2>2 DEF Works
<1>4. work' = [work EXCEPT ![Pinger] = w] /\ Pinger \in Recorders
  BY <1>1, <1>3 DEF Recorders
<1>5. StatsTypeOK'
  BY <1>1, <1>2, <1>3, <1>4 DEF StatsTypeOK
<1>6. CountersAreShared' /\ NothingUncounted'
  BY <1>2, <1>3, <1>4 DEF StatsTypeOK, CountersAreShared, NothingUncounted, Shown
<1>7. \A q \in Peers : InHand(q)' = InHand(q)
  BY <1>4 DEF StatsTypeOK, InHand, Recorders
<1>8. \A q \in Peers : Ahead(q) = 0 /\ Ahead(q)' = IF q = p THEN 1 ELSE 0
  BY <1>2, <1>3, <1>4 DEF StatsTypeOK, Ahead
<1>9. PongsHavePings'
  <2>1. SUFFICES ASSUME NEW q \in Peers, ~disturbed
                 PROVE  recorded[q].received + pongs'[q] + Cardinality(InHand(q))
                            <= recorded[q].sent + Ahead(q)'
    BY <1>2, <1>7 DEF PongsHavePings
  <2>2. recorded[q].received + pongs[q] + Cardinality(InHand(q)) <= recorded[q].sent + Ahead(q)
    BY <2>1 DEF PongsHavePings
  <2>3. Cardinality(InHand(q)) \in Nat
    BY FS_CardinalityType DEF PongsHavePings
  <2>4. pongs'[q] = pongs[q] + (IF q = p THEN 1 ELSE 0)
    BY <1>1 DEF StatsTypeOK
  <2> QED BY <1>8, <2>2, <2>3, <2>4 DEF StatsTypeOK, Counts
<1> QED BY <1>5, <1>6, <1>9

\* A Pong changes from on its way to in hand, or comes a second time.
LEMMA StatsPongs ==
    ASSUME StatsInv, NEW r \in Recorders, PongCounted(r)
    PROVE  StatsInv'
<1> USE StatsAssumption DEF StatsInv
<1>1. PICK p \in Peers :
        /\ pongs[p] > 0
        /\ \/ pongs' = [pongs EXCEPT ![p] = @ - 1] /\ UNCHANGED disturbed
           \/ ~disturbed /\ disturbed' = TRUE /\ UNCHANGED pongs
        /\ work' = [work EXCEPT ![r] = [Resting EXCEPT !.at = "begun", !.peer = p]]
  BY DEF PongCounted
<1>2. /\ r \in Loops /\ work[r].at = "rest"
      /\ UNCHANGED <<counters, era, outdated, count, pings, recorded>>
  BY DEF PongCounted
<1>3. PICK w \in Works : /\ w = [Resting EXCEPT !.at = "begun", !.peer = p]
                         /\ w.at = "begun" /\ w.peer = p
  <2>1. Resting \in Works
    BY DEF Resting, Works
  <2>2. [Resting EXCEPT !.at = "begun", !.peer = p] \in Works
    BY <2>1 DEF Works
  <2> QED BY <2>1, <2>2 DEF Works
<1>4. work' = [work EXCEPT ![r] = w]
  BY <1>1, <1>3
<1>5. StatsTypeOK'
  <2>1. pongs[p] - 1 \in Nat
    BY <1>1 DEF StatsTypeOK
  <2>2. pongs' \in [Peers -> Nat]
    BY <1>1, <2>1 DEF StatsTypeOK
  <2>3. disturbed' \in BOOLEAN
    BY <1>1 DEF StatsTypeOK
  <2> QED BY <1>2, <1>3, <1>4, <2>2, <2>3 DEF StatsTypeOK
<1>6. CountersAreShared' /\ NothingUncounted'
  <2>1. disturbed => disturbed'
    BY <1>1
  <2>2. \A q \in Recorders : work'[q] = IF q = r THEN w ELSE work[q]
    BY <1>4 DEF StatsTypeOK
  <2>3. CountersAreShared'
    <3>1. r \notin outdated
      BY <1>2 DEF CountersAreShared
    <3>2. ASSUME NEW q \in Recorders
          PROVE  (CountersAreShared!3!(q))'
      <4>1. CASE q = r
        <5>1. work'[q] = w
          BY <2>2, <4>1
        <5>2. /\ w.at = "begun" /\ w.peer \in Peers /\ q \notin outdated
              /\ outdated' = outdated
          BY <1>2, <1>3, <3>1, <4>1
        <5> QED BY <5>1, <5>2
      <4>2. CASE q # r
        <5>1. work'[q] = work[q]
          BY <2>2, <4>2
        <5> QED BY <1>2, <5>1 DEF CountersAreShared
      <4> QED BY <4>1, <4>2
    <3>3. /\ (CountersAreShared!1)' /\ (CountersAreShared!2)'
          /\ (era' = 1 => disturbed')
      BY <1>2, <2>1 DEF CountersAreShared
    <3> QED BY <3>2, <3>3 DEF CountersAreShared
  <2>4. NothingUncounted'
    BY <1>2 DEF NothingUncounted, Shown
  <2> QED BY <2>3, <2>4
<1>7. \A q \in Peers : Ahead(q)' = Ahead(q)
  BY <1>2, <1>4 DEF StatsTypeOK, Ahead, Recorders
<1>8. PongsHavePings'
  <2>1. SUFFICES ASSUME NEW q \in Peers
                 PROVE  /\ IsFiniteSet(InHand(q)')
                        /\ disturbed' \/ recorded[q].received + pongs'[q] + Cardinality(InHand(q)')
                               <= recorded[q].sent + Ahead(q)
    BY <1>2, <1>7 DEF PongsHavePings
  <2>2. /\ IsFiniteSet(InHand(q)')
        /\ Cardinality(InHand(q)') = Cardinality(InHand(q)) + (IF p = q THEN 1 ELSE 0)
    BY <1>2, <1>3, <1>4, OneMoreInHand DEF PongsHavePings
  <2>3. Cardinality(InHand(q)) \in Nat
    BY FS_CardinalityType DEF PongsHavePings
  <2>4. CASE ~disturbed'
    <3>1. pongs'[q] = pongs[q] - (IF p = q THEN 1 ELSE 0) /\ ~disturbed
      BY <1>1, <2>4 DEF StatsTypeOK
    <3>2. recorded[q].received + pongs[q] + Cardinality(InHand(q)) <= recorded[q].sent + Ahead(q)
      BY <3>1 DEF PongsHavePings
    <3>3. Ahead(q) \in Nat
      BY DEF Ahead
    <3> QED BY <2>2, <2>3, <3>1, <3>2, <3>3 DEF StatsTypeOK, Counts
  <2> QED BY <2>2, <2>4
<1> QED BY <1>5, <1>6, <1>8

\* Looking for a counter, and entering one when there is still none.
LEMMA StatsFinds ==
    ASSUME StatsInv, NEW r \in Recorders, LookUp(r) \/ or_insert_with(r)
    PROVE  StatsInv'
<1> USE StatsAssumption, CountersArePairs DEF StatsInv
<1> DEFINE p == work[r].peer
<1>1. p \in Peers /\ work[r].at # "rest" /\ UNCHANGED <<era, outdated, count, pings, pongs, recorded, disturbed>>
  BY DEF LookUp, or_insert_with, CountersAreShared
<1>2. counters' \in [Peers -> Counters \cup {NoCounter}]
      /\ (\A q \in Peers : counters[q] # NoCounter \/ q # p => counters'[q] = counters[q])
      /\ (counters'[p] # NoCounter => counters'[p][1] = p /\ counters'[p][3] = era)
  <2>1. CASE LookUp(r)
    BY <1>1, <2>1 DEF LookUp, StatsTypeOK, CountersAreShared
  <2>2. CASE or_insert_with(r)
    <3>1. <<p, r, era>> \in Counters /\ <<p, r, era>>[1] = p /\ <<p, r, era>>[3] = era
      BY <1>1 DEF StatsTypeOK
    <3>2. counters' = [counters EXCEPT ![p] = IF @ = NoCounter THEN <<p, r, era>> ELSE @]
      BY <2>2 DEF or_insert_with
    <3> QED BY <1>1, <3>1, <3>2 DEF StatsTypeOK, CountersAreShared
  <2> QED BY <2>1, <2>2
<1>3. PICK w \in Works :
        /\ work' = [work EXCEPT ![r] = w]
        /\ w.peer = p /\ w.at # "rest"
        /\ w.at = "held" => w.counter = counters'[p] /\ w.counter # NoCounter
  <2>0. work[r] \in Works
    BY DEF StatsTypeOK
  <2>1. CASE LookUp(r) /\ counters[p] = NoCounter
    <3>1. [work[r] EXCEPT !.at = "absent"] \in Works
      BY DEF StatsTypeOK, Works
    <3> QED BY <2>1, <3>1 DEF LookUp, StatsTypeOK, Works
  <2>2. CASE LookUp(r) /\ counters[p] # NoCounter
    <3>1. counters[p] \in Counters
      BY <1>1, <2>2 DEF StatsTypeOK
    <3>2. [work[r] EXCEPT !.at = "held", !.counter = counters[p]] \in Works
      BY <2>0, <3>1 DEF Works
    <3> QED BY <2>0, <1>1, <2>2, <3>1, <3>2 DEF LookUp, StatsTypeOK, Works
  <2>3. CASE or_insert_with(r)
    <3>1. counters'[p] \in Counters
      BY <1>1, <2>3 DEF or_insert_with, StatsTypeOK
    <3>2. [work[r] EXCEPT !.at = "held", !.counter = counters'[p]] \in Works
      BY <2>0, <3>1 DEF Works
    <3> QED BY <2>0, <2>3, <3>1, <3>2 DEF or_insert_with, StatsTypeOK, Works
  <2> QED BY <2>1, <2>2, <2>3
<1> HIDE DEF p
<1>4. StatsTypeOK'
  BY <1>1, <1>2, <1>3 DEF StatsTypeOK
<1>5. \A k \in Counters : (\A q \in Peers : counters'[q] # k) => (\A q \in Peers : counters[q] # k)
  BY <1>2
<1>6. /\ r \notin outdated
      /\ \A d \in Recorders \ {r} : work[d].at = "held" /\ d \notin outdated =>
             counters'[work[d].peer] = counters[work[d].peer]
  BY <1>2 DEF LookUp, or_insert_with, CountersAreShared
<1>7. CountersAreShared'
  BY <1>1, <1>2, <1>3, <1>5, <1>6 DEF StatsTypeOK, CountersAreShared
<1>8. NothingUncounted'
  <2>1. SUFFICES ASSUME NEW q \in Peers, counters'[q] # counters[q] PROVE Shown(q)' = recorded[q]
    BY <1>1 DEF NothingUncounted, Shown
  <2>2. /\ counters[q] = NoCounter /\ q = p /\ counters'[q] \in Counters
        /\ counters'[q][1] = q /\ counters'[q][3] = era
    BY <1>2, <2>1
  <2>3. \A o \in Peers : counters[o] # counters'[q]
    BY <2>2 DEF CountersAreShared
  <2>4. count[counters'[q]] = Zero
    BY <2>2, <2>3 DEF StatsTypeOK, CountersAreShared
  <2> QED BY <1>1, <2>2, <2>4 DEF NothingUncounted, Shown
<1>9. PongsHavePings'
  <2>1. \A d \in Recorders : /\ work'[d].at # "rest" <=> work[d].at # "rest"
                             /\ work'[d].peer = work[d].peer
    BY <1>1, <1>3 DEF StatsTypeOK, p
  <2> QED BY <1>1, <2>1, SameInHand DEF PongsHavePings
<1> QED BY <1>4, <1>7, <1>8, <1>9

\* The record itself: what is in hand is counted, in the counter of the peer.
LEMMA StatsRecords ==
    ASSUME StatsInv, NEW r \in Recorders, r \notin outdated, record(r)
    PROVE  StatsInv'
<1> USE StatsAssumption, CountersArePairs DEF StatsInv
<1> DEFINE p == work[r].peer  k == counters[p]
<1>1. /\ p \in Peers /\ k \in Counters /\ k[1] = p /\ work[r].at = "held"
      /\ work[r].counter = k
  BY DEF record, StatsTypeOK, CountersAreShared
<1>2. /\ work' = [work EXCEPT ![r] = Resting]
      /\ outdated' = outdated
      /\ UNCHANGED <<counters, pings, pongs, era, disturbed>>
  BY <1>1 DEF record
<1> DEFINE c == IF r = Pinger THEN [recorded[p] EXCEPT !.sent = @ + 1]
                ELSE [recorded[p] EXCEPT !.received = @ + 1]
<1>3. /\ c \in Counts
      /\ c.sent = recorded[p].sent + (IF r = Pinger THEN 1 ELSE 0)
      /\ c.received = recorded[p].received + (IF r = Pinger THEN 0 ELSE 1)
  BY <1>1 DEF StatsTypeOK, Counts
<1>4. count[k] = recorded[p]
  BY <1>1 DEF NothingUncounted, Shown
<1>5. count' = [count EXCEPT ![k] = c] /\ recorded' = [recorded EXCEPT ![p] = c]
  <2>1. CASE r = Pinger
    BY <1>1, <1>4, <2>1 DEF record, StatsTypeOK, Counts, Field
  <2>2. CASE r # Pinger
    BY <1>1, <1>4, <2>2 DEF record, StatsTypeOK, Counts, Field
  <2> QED BY <2>1, <2>2
<1> HIDE DEF c
<1>6. StatsTypeOK'
  <2>1. Resting \in Works
    BY DEF Resting, Works
  <2> QED BY <1>1, <1>2, <1>3, <1>5, <2>1 DEF StatsTypeOK
<1>7. CountersAreShared'
  BY <1>1, <1>2, <1>5 DEF StatsTypeOK, CountersAreShared, Resting
<1>8. NothingUncounted'
  BY <1>1, <1>2, <1>5 DEF StatsTypeOK, CountersAreShared, NothingUncounted, Shown
<1>9. PongsHavePings'
  <2>1. SUFFICES ASSUME NEW q \in Peers
                 PROVE  /\ IsFiniteSet(InHand(q)')
                        /\ disturbed \/ recorded'[q].received + pongs[q] + Cardinality(InHand(q)')
                               <= recorded'[q].sent + Ahead(q)'
    BY <1>2 DEF PongsHavePings
  <2>2. /\ IsFiniteSet(InHand(q)) /\ Cardinality(InHand(q)) \in Nat
        /\ disturbed \/ recorded[q].received + pongs[q] + Cardinality(InHand(q))
                            <= recorded[q].sent + Ahead(q)
    BY FS_CardinalityType DEF PongsHavePings
  <2>3. Ahead(q) \in Nat
    BY DEF Ahead
  <2>4. CASE r = Pinger
    <3>1. InHand(q)' = InHand(q)
      BY <1>2, <2>4 DEF StatsTypeOK, InHand, Recorders
    <3>2. Ahead(q)' = Ahead(q) - (IF q = p THEN 1 ELSE 0)
      BY <1>1, <1>2, <2>4 DEF StatsTypeOK, Ahead, Resting
    <3>3. /\ recorded'[q].sent = recorded[q].sent + (IF q = p THEN 1 ELSE 0)
          /\ recorded'[q].received = recorded[q].received
      BY <1>1, <1>3, <1>5, <2>4 DEF StatsTypeOK, Counts
    <3> QED BY <2>2, <2>3, <3>1, <3>2, <3>3 DEF StatsTypeOK, Counts
  <2>5. CASE r # Pinger
    <3>1. /\ IsFiniteSet(InHand(q)')
          /\ Cardinality(InHand(q)') = Cardinality(InHand(q)) - (IF p = q THEN 1 ELSE 0)
      BY <1>1, <1>2, <2>2, <2>5, OneFewerInHand DEF Recorders
    <3>2. Ahead(q)' = Ahead(q)
      BY <1>2, <2>5 DEF StatsTypeOK, Ahead, Recorders
    <3>3. /\ recorded'[q].sent = recorded[q].sent
          /\ recorded'[q].received = recorded[q].received + (IF q = p THEN 1 ELSE 0)
      BY <1>1, <1>3, <1>5, <2>5 DEF StatsTypeOK, Counts
    <3> QED BY <2>2, <2>3, <3>1, <3>2, <3>3 DEF StatsTypeOK, Counts
  <2> QED BY <2>4, <2>5
<1> QED BY <1>6, <1>7, <1>8, <1>9

\* A record in a counter that was taken away touches no counter that is shown.
LEMMA StatsRecordsLate ==
    ASSUME StatsInv, NEW r \in outdated, record(r)
    PROVE  StatsInv'
<1> USE StatsAssumption, CountersArePairs DEF StatsInv
<1> DEFINE k == work[r].counter
<1>1. /\ r \in Recorders /\ era = 1 /\ disturbed /\ work[r].at = "held"
      /\ k \in Counters /\ k[3] = 0
  BY DEF StatsTypeOK, CountersAreShared
<1>2. /\ work' = [work EXCEPT ![r] = Resting] /\ outdated' = outdated \ {r}
      /\ UNCHANGED <<counters, pings, pongs, era, recorded, disturbed>>
  BY DEF record
<1>3. PICK c \in Counts : count' = [count EXCEPT ![k] = c]
  <2> DEFINE c == IF r = Pinger THEN [count[k] EXCEPT !.sent = @ + 1]
                  ELSE [count[k] EXCEPT !.received = @ + 1]
  <2>1. c \in Counts
    BY <1>1 DEF StatsTypeOK, Counts
  <2>2. CASE r = Pinger
    BY <1>1, <2>1, <2>2 DEF record, StatsTypeOK, Counts, Field
  <2>3. CASE r # Pinger
    BY <1>1, <2>1, <2>3 DEF record, StatsTypeOK, Counts, Field
  <2> QED BY <2>2, <2>3
<1>4. \A p \in Peers : counters[p] # k
  BY <1>1 DEF CountersAreShared
<1> HIDE DEF k
<1>5. StatsTypeOK'
  <2>1. Resting \in Works
    BY DEF Resting, Works
  <2> QED BY <1>1, <1>2, <1>3, <2>1 DEF StatsTypeOK
<1>6. CountersAreShared'
  BY <1>1, <1>2, <1>3 DEF StatsTypeOK, CountersAreShared, Resting
<1>7. NothingUncounted'
  BY <1>2, <1>3, <1>4 DEF StatsTypeOK, NothingUncounted, Shown
<1>8. PongsHavePings'
  <2>1. SUFFICES ASSUME NEW q \in Peers PROVE IsFiniteSet(InHand(q)')
    BY <1>1, <1>2 DEF PongsHavePings
  <2>2. IsFiniteSet(InHand(q)) /\ InHand(q)' \subseteq InHand(q)
    BY <1>2 DEF PongsHavePings, InHand, StatsTypeOK, Recorders, Resting
  <2> QED BY <2>2, FS_Subset
<1> QED BY <1>5, <1>6, <1>7, <1>8

\* The map is cleared: those that hold a counter are outdated.
LEMMA StatsCleared ==
    ASSUME StatsInv, clear
    PROVE  StatsInv'
<1> USE StatsAssumption, CountersArePairs DEF StatsInv
<1>1. /\ era = 0 /\ era' = 1 /\ disturbed' = TRUE
      /\ counters' = [p \in Peers |-> NoCounter]
      /\ outdated' = {r \in Recorders : work[r].at = "held"}
      /\ recorded' = [p \in Peers |-> Zero]
      /\ UNCHANGED <<count, work, pings, pongs>>
  BY DEF clear
<1>2. StatsTypeOK'
  BY <1>1 DEF StatsTypeOK, Zero, Counts
<1>3. \A k \in Counters : k[3] = 1 => count[k] = Zero
  BY <1>1 DEF StatsTypeOK, CountersAreShared
<1>4. \A r \in Recorders : work[r].at = "held" =>
          work[r].counter \in Counters /\ work[r].counter[3] = 0
  BY <1>1 DEF StatsTypeOK, CountersAreShared
<1>5. CountersAreShared'
  BY <1>1, <1>3, <1>4 DEF CountersAreShared
<1>6. NothingUncounted'
  BY <1>1 DEF NothingUncounted, Shown
<1>7. \A p \in Peers : InHand(p)' = InHand(p)
  BY <1>1 DEF InHand
<1> QED BY <1>1, <1>2, <1>5, <1>6, <1>7 DEF PongsHavePings

\* A reset, and a Pong that never comes.
LEMMA StatsForgets ==
    ASSUME StatsInv, PongLost \/ \E p \in Peers : reset(p)
    PROVE  StatsInv'
<1> USE StatsAssumption, CountersArePairs DEF StatsInv
<1>1. CASE PongLost
  <2>1. PICK p \in Peers : pongs[p] > 0 /\ pongs' = [pongs EXCEPT ![p] = @ - 1]
    BY <1>1 DEF PongLost
  <2>2. UNCHANGED <<counters, era, outdated, count, work, pings, recorded, disturbed>>
    BY <1>1 DEF PongLost
  <2>3. StatsTypeOK' /\ CountersAreShared' /\ NothingUncounted'
    BY <2>1, <2>2 DEF StatsTypeOK, CountersAreShared, NothingUncounted, Shown
  <2>4. \A q \in Peers : InHand(q)' = InHand(q) /\ Ahead(q)' = Ahead(q) /\ Ahead(q) \in Nat
    BY <2>2 DEF InHand, Ahead
  <2>5. \A q \in Peers : pongs'[q] <= pongs[q] /\ pongs'[q] \in Nat
    BY <2>1 DEF StatsTypeOK
  <2>6. \A q \in Peers : Cardinality(InHand(q)) \in Nat
    BY FS_CardinalityType DEF PongsHavePings
  <2>7. PongsHavePings'
    BY <2>2, <2>4, <2>5, <2>6 DEF StatsTypeOK, Counts, PongsHavePings
  <2> QED BY <2>3, <2>7
<1>2. ASSUME NEW p \in Peers, reset(p) PROVE StatsInv'
  <2>1. /\ counters[p] \in Counters /\ disturbed' = TRUE
        /\ count' = [count EXCEPT ![counters[p]] = Zero]
        /\ recorded' = [recorded EXCEPT ![p] = Zero]
        /\ UNCHANGED <<counters, era, outdated, work, pings, pongs>>
    BY <1>2 DEF reset, StatsTypeOK
  <2>2. Zero \in Counts
    BY DEF Zero, Counts
  <2>3. StatsTypeOK'
    BY <2>1, <2>2 DEF StatsTypeOK
  <2>4. CountersAreShared' /\ NothingUncounted'
    BY <2>1, <2>2 DEF StatsTypeOK, CountersAreShared, NothingUncounted, Shown
  <2>5. \A q \in Peers : InHand(q)' = InHand(q)
    BY <2>1 DEF InHand
  <2> QED BY <2>1, <2>3, <2>4, <2>5 DEF PongsHavePings
<1> QED BY <1>1, <1>2

LEMMA StatsInvariant == StatsSpec => []StatsInv
<1>1. StatsInv /\ [StatsNext]_stats_vars => StatsInv'
  <2>1. CASE UNCHANGED stats_vars
    BY <2>1 DEF stats_vars, StatsInv, StatsTypeOK, CountersAreShared, NothingUncounted, Shown,
         PongsHavePings, InHand, Ahead
  <2> QED BY <2>1, StatsPings, StatsPongs, StatsFinds, StatsRecords, StatsRecordsLate,
            StatsCleared, StatsForgets DEF StatsNext
<1> QED BY <1>1, StatsInitial, PTL DEF StatsSpec

\* No record is lost, although the tasks look for a counter and enter one in
\* two lock sections (get_or_create, context/mod.rs), but for the one that a task
\* has in hand when the map is cleared under it.
THEOREM NothingGoesUncounted == StatsSpec => []NothingUncounted
<1>1. StatsInv => NothingUncounted
  BY DEF StatsInv
<1> QED BY <1>1, StatsInvariant, PTL

\* At most one Pong is counted before its ping, whatever the number of loops, so
\* the loss rate is negative by at most one ping (PacketLossStats), but for a
\* reset, the clearing or a repeated Pong.
THEOREM LossStaysInBounds == StatsSpec => []LossInBounds
<1>1. StatsInv => LossInBounds
  <2>1. SUFFICES ASSUME StatsInv, ~disturbed, NEW p \in Peers
                 PROVE  recorded[p].received <= recorded[p].sent + 1
    BY DEF StatsInv, NothingUncounted, LossInBounds
  <2>2. Cardinality(InHand(p)) \in Nat
    BY <2>1, FS_CardinalityType DEF StatsInv, PongsHavePings
  <2>3. Ahead(p) \in {0, 1}
    BY DEF Ahead
  <2> QED BY <2>1, <2>2, <2>3 DEF StatsInv, StatsTypeOK, Counts, PongsHavePings
<1> QED BY <1>1, StatsInvariant, PTL

-----------------------------------------------------------------------------
(* Manager.                                                                *)

Operations == [op : {"none", "connect", "disconnect"}, todo : SUBSET Profiles,
               at : Profiles \cup {NoProfile}, child : Nat]

ManagerTypeOK ==
    /\ sessions \in [Profiles -> Nat]
    /\ running \subseteq Nat
    /\ started \in Nat
    /\ call \in [Calls -> Operations]
    /\ isBusy \in BOOLEAN
    /\ manager \in {"up", "leaving", "gone"}
    /\ trayed \in BOOLEAN /\ overlapped \in BOOLEAN /\ cut \in BOOLEAN
    /\ abandoned \subseteq Nat

\* Children are numbered as they are started.
ChildrenAreNumbered ==
    /\ NoChild \notin running
    /\ \A k \in running : k <= started
    /\ \A p \in Profiles : sessions[p] <= started
    /\ \A c \in Calls : call[c].child <= started

\* Where an operation stands.
OperationsStand ==
    \A c \in Calls :
        /\ call[c].op = "none" => call[c] = Idle
        /\ call[c].at # NoProfile => call[c].op = "connect"
        /\ call[c].child # NoChild => call[c].at # NoProfile

\* The button alone brings about one operation at a time.
ButtonExcludes ==
    /\ ~trayed => \A c \in Calls : call[c].op # "none" =>
           isBusy /\ \A d \in Calls : call[d].op # "none" => d = c
    /\ ~overlapped => \A c, d \in Connecting : c = d

\* What a connect is about to start has no child; once the manager leaves,
\* nothing is left for it to lose but what it has given up.
NothingToLose ==
    ~(overlapped \/ cut) =>
        /\ \A c \in Calls : call[c].at # NoProfile => sessions[call[c].at] \notin running
        /\ manager # "up" => running \subseteq abandoned /\ Connecting = {}

ManagerInv ==
    /\ ManagerTypeOK /\ ChildrenAreNumbered /\ OperationsStand /\ ButtonExcludes
    /\ NothingToLose /\ EveryChildIsKnown

LEMMA ManagerInitial == ManagerInit => ManagerInv
<1>1. SUFFICES ASSUME ManagerInit PROVE ManagerInv
  OBVIOUS
<1>2. Idle \in Operations
  BY DEF Idle, Operations, NoChild
<1>3. ManagerTypeOK
  BY <1>1, <1>2 DEF ManagerInit, ManagerTypeOK, NoChild
<1>4. Connecting = {}
  BY <1>1 DEF ManagerInit, Connecting, Idle
<1> QED BY <1>1, <1>3, <1>4
     DEF ManagerInit, ManagerInv, ChildrenAreNumbered, OperationsStand, ButtonExcludes,
         NothingToLose, EveryChildIsKnown, Idle, NoChild

\* What the removal of the sessions in which no child is known to run leaves.
LEMMA CleanedFacts ==
    ASSUME ManagerTypeOK, ChildrenAreNumbered, NEW errs \in SUBSET Held
    PROVE  /\ Cleaned(errs) \in [Profiles -> Nat]
           /\ errs \subseteq Nat
           /\ \A p \in Profiles :
                /\ Cleaned(errs)[p] <= started
                /\ Cleaned(errs)[p] # NoChild <=> Cleaned(errs)[p] \in running
                /\ Cleaned(errs)[p] \in running => Cleaned(errs)[p] = sessions[p]
                /\ \A k \in running \ errs : sessions[p] = k => Cleaned(errs)[p] = k
  BY DEF Cleaned, Held, ManagerTypeOK, ChildrenAreNumbered, NoChild

LEMMA CleanupFacts ==
    ASSUME ManagerTypeOK, ChildrenAreNumbered, cleanup_exited_sessions
    PROVE  /\ sessions' \in [Profiles -> Nat]
           /\ abandoned' \subseteq Nat /\ abandoned \subseteq abandoned'
           /\ \A p \in Profiles :
                /\ sessions'[p] <= started
                /\ sessions'[p] # NoChild <=> sessions'[p] \in running
                /\ sessions'[p] \in running => sessions'[p] = sessions[p]
                /\ \A k \in running \ abandoned' : sessions[p] = k => sessions'[p] = k
<1>1. PICK errs \in SUBSET Held : sessions' = Cleaned(errs) /\ abandoned' = abandoned \cup errs
  BY DEF cleanup_exited_sessions
<1> QED BY <1>1, CleanedFacts DEF ManagerTypeOK

\* A request begins: the button only when no other is under way.
LEMMA ManagerBegins ==
    ASSUME ManagerInv, NEW c \in Calls, NEW from \in {"button", "tray"}, connect_profiles(c, from)
    PROVE  ManagerInv'
<1> USE DEF ManagerInv
<1>1. PICK ids \in SUBSET Profiles \ {{}} :
          call' = [call EXCEPT ![c] = [Idle EXCEPT !.op = "connect", !.todo = ids]]
  BY DEF connect_profiles
<1>2. /\ call[c].op = "none" /\ manager # "gone" /\ (from = "button" => ~isBusy)
      /\ isBusy' = TRUE
      /\ cleanup_exited_sessions
      /\ trayed' = (trayed \/ from = "tray")
      /\ overlapped' = (overlapped \/ Connecting # {})
      /\ cut' = (cut \/ manager = "leaving")
      /\ UNCHANGED <<running, started, manager>>
  BY DEF connect_profiles, Clicked
<1>3. PICK o \in Operations :
        /\ call' = [call EXCEPT ![c] = o]
        /\ o.op = "connect" /\ o.at = NoProfile /\ o.child = NoChild
  <2>1. [Idle EXCEPT !.op = "connect", !.todo = ids] \in Operations
    BY DEF Idle, Operations, NoChild
  <2> QED BY <1>1, <2>1 DEF Idle
<1>4. call[c].at = NoProfile /\ call[c].child = NoChild
  BY <1>2 DEF OperationsStand, Idle
<1>5. ManagerTypeOK'
  BY <1>2, <1>3, CleanupFacts DEF ManagerTypeOK
<1>6. ChildrenAreNumbered' /\ OperationsStand'
  BY <1>2, <1>3, CleanupFacts
     DEF ManagerTypeOK, ChildrenAreNumbered, OperationsStand, Idle, NoChild
<1>7. ButtonExcludes'
  BY <1>2, <1>3 DEF ManagerTypeOK, ButtonExcludes, Connecting
<1>8. NothingToLose'
  <2>1. SUFFICES ASSUME ~(overlapped' \/ cut')
                 PROVE  /\ \A d \in Calls : call'[d].at = NoProfile
                        /\ manager = "up"
    BY <1>2 DEF NothingToLose
  <2>2. Connecting = {} /\ manager = "up"
    BY <1>2, <2>1 DEF ManagerTypeOK
  <2>3. \A d \in Calls : call[d].at = NoProfile
    BY <2>2 DEF Connecting, OperationsStand
  <2> QED BY <1>3, <2>2, <2>3 DEF ManagerTypeOK
<1>9. EveryChildIsKnown'
  <2>1. overlapped' => trayed'
    BY <1>2 DEF ManagerTypeOK, ButtonExcludes, Connecting, EveryChildIsKnown
  <2>2. \A d \in Calls : call[d].child # NoChild => call'[d].child = call[d].child
    BY <1>3, <1>4 DEF ManagerTypeOK
  <2>3. SUFFICES ASSUME ~(overlapped' \/ cut'), NEW k \in running \ abandoned'
                 PROVE  \/ \E p \in Profiles : sessions'[p] = k
                        \/ \E d \in Calls : call'[d].child = k
    BY <1>2, <2>1 DEF EveryChildIsKnown
  <2>4. ~(overlapped \/ cut) /\ k # NoChild /\ k \notin abandoned
    BY <1>2, <2>3, CleanupFacts DEF ManagerTypeOK, ChildrenAreNumbered
  <2>5. \/ \E p \in Profiles : sessions[p] = k
        \/ \E d \in Calls : call[d].child = k
    BY <2>4 DEF EveryChildIsKnown
  <2> QED BY <1>2, <2>2, <2>3, <2>4, <2>5, CleanupFacts
<1> QED BY <1>5, <1>6, <1>7, <1>8, <1>9

\* A connect goes on to its next profile, starts a child or enters it.
LEMMA ManagerConnects ==
    ASSUME ManagerInv, NEW c \in Calls,
           session_is_running(c) \/ spawn_child(c) \/ insert_session(c)
    PROVE  ManagerInv'
<1> USE ManagerAssumption DEF ManagerInv
<1>1. /\ call[c] \in Operations /\ call[c].op = "connect"
      /\ UNCHANGED <<isBusy, manager, trayed, overlapped, cut>>
  BY DEF session_is_running, spawn_child, insert_session, ManagerTypeOK, OperationsStand
<1>2. \A o \in Operations : call' = [call EXCEPT ![c] = o] /\ o.op = "connect" =>
          Connecting' = Connecting /\ ButtonExcludes'
  <2>1. SUFFICES ASSUME NEW o \in Operations, call' = [call EXCEPT ![c] = o], o.op = "connect"
                 PROVE  Connecting' = Connecting /\ ButtonExcludes'
    OBVIOUS
  <2>2. \A d \in Calls : call'[d].op = call[d].op
    BY <1>1, <2>1 DEF ManagerTypeOK
  <2> QED BY <1>1, <2>2 DEF Connecting, ButtonExcludes
<1>3. \A d \in Calls : ~(overlapped \/ cut) /\ call[d].at # NoProfile => d = c
  BY <1>1 DEF ButtonExcludes, Connecting, OperationsStand
<1>4. CASE session_is_running(c)
  <2>1. PICK p \in call[c].todo :
          call' = [call EXCEPT ![c].todo = @ \ {p},
                               ![c].at = IF sessions'[p] = NoChild THEN p ELSE NoProfile]
    BY <1>4 DEF session_is_running
  <2>2. p \in Profiles /\ call[c].child = NoChild /\ cleanup_exited_sessions
        /\ UNCHANGED <<running, started>>
    BY <1>1, <1>4 DEF session_is_running, Operations, OperationsStand
  <2>3. PICK o \in Operations :
          /\ call' = [call EXCEPT ![c] = o]
          /\ o.op = "connect" /\ o.child = NoChild
          /\ o.at # NoProfile => o.at = p /\ sessions'[p] = NoChild
    <3> DEFINE o == [call[c] EXCEPT !.todo = @ \ {p},
                                    !.at = IF sessions'[p] = NoChild THEN p ELSE NoProfile]
    <3>1. o \in Operations
      BY <1>1, <2>2 DEF Operations
    <3>2. o.op = "connect" /\ o.child = NoChild /\ (o.at # NoProfile => o.at = p /\ sessions'[p] = NoChild)
      BY <1>1, <2>2 DEF Operations
    <3>3. call' = [call EXCEPT ![c] = o]
      BY <1>1, <2>1 DEF ManagerTypeOK
    <3> QED BY <3>1, <3>2, <3>3
  <2>4. ManagerTypeOK' /\ ChildrenAreNumbered' /\ OperationsStand'
    BY <1>1, <2>2, <2>3, CleanupFacts
       DEF ManagerTypeOK, ChildrenAreNumbered, OperationsStand, NoChild
  <2>5. NothingToLose'
    BY <1>1, <1>2, <1>3, <2>2, <2>3, CleanupFacts
       DEF ManagerTypeOK, ChildrenAreNumbered, NothingToLose
  <2>6. EveryChildIsKnown'
    <3>1. \A d \in Calls : call[d].child # NoChild => call'[d].child = call[d].child
      BY <2>2, <2>3 DEF ManagerTypeOK
    <3> QED BY <1>1, <2>2, <3>1, CleanupFacts DEF ChildrenAreNumbered, EveryChildIsKnown
  <2> QED BY <1>2, <2>3, <2>4, <2>5, <2>6
<1>5. CASE spawn_child(c)
  <2>1. call[c].at # NoProfile /\ call[c].child = NoChild /\ UNCHANGED <<sessions, abandoned>>
    BY <1>5 DEF spawn_child
  <2>2. CASE /\ started' = started + 1
             /\ running' = running \cup {started'}
             /\ call' = [call EXCEPT ![c].child = started']
    <3>1. PICK o \in Operations :
            /\ call' = [call EXCEPT ![c] = o]
            /\ o.op = "connect" /\ o.child = started' /\ o.at = call[c].at
      <4>1. [call[c] EXCEPT !.child = started'] \in Operations
        BY <1>1, <2>2 DEF ManagerTypeOK, Operations
      <4> QED BY <1>1, <2>2, <4>1 DEF ManagerTypeOK, Operations
    <3>2. started' \in Nat /\ started' # NoChild /\ started' > started
      BY <2>2 DEF ManagerTypeOK, NoChild
    <3>3. ManagerTypeOK' /\ OperationsStand'
      BY <1>1, <2>1, <2>2, <3>1, <3>2 DEF ManagerTypeOK, OperationsStand
    <3>4. ChildrenAreNumbered'
      BY <2>1, <2>2, <3>1, <3>2 DEF ManagerTypeOK, ChildrenAreNumbered, Operations
    <3>5. NothingToLose'
      <4>1. \A d \in Calls : call'[d].at = call[d].at
        BY <3>1 DEF ManagerTypeOK
      <4>2. \A d \in Calls : call[d].at # NoProfile => call[d].at \in Profiles
        BY DEF ManagerTypeOK, Operations
      <4>3. \A p \in Profiles : sessions[p] # started'
        BY <3>2 DEF ManagerTypeOK, ChildrenAreNumbered
      <4>4. c \in Connecting /\ Connecting' = Connecting
        BY <1>1, <1>2, <3>1 DEF Connecting
      <4> QED BY <1>1, <2>1, <2>2, <4>1, <4>2, <4>3, <4>4 DEF NothingToLose
    <3>6. EveryChildIsKnown'
      <4>1. call'[c].child = started' /\ \A d \in Calls \ {c} : call'[d] = call[d]
        BY <3>1 DEF ManagerTypeOK
      <4>2. ~(overlapped \/ cut) => manager # "gone"
        BY <1>1 DEF ManagerTypeOK, NothingToLose, Connecting
      <4>3. \A k \in running : k # NoChild
        BY DEF ChildrenAreNumbered
      <4> QED BY <1>1, <2>1, <2>2, <4>1, <4>2, <4>3 DEF EveryChildIsKnown
    <3> QED BY <1>2, <3>1, <3>3, <3>4, <3>5, <3>6
  <2>3. CASE /\ call' \in {[call EXCEPT ![c].at = NoProfile],
                            [call EXCEPT ![c].at = NoProfile, ![c].todo = {}]}
             /\ UNCHANGED <<started, running>>
    <3>1. PICK o \in Operations :
            /\ call' = [call EXCEPT ![c] = o]
            /\ o.op = "connect" /\ o.child = NoChild /\ o.at = NoProfile
      <4>1. /\ [call[c] EXCEPT !.at = NoProfile] \in Operations
            /\ [call[c] EXCEPT !.at = NoProfile, !.todo = {}] \in Operations
        BY <1>1 DEF Operations
      <4> QED BY <1>1, <2>1, <2>3, <4>1 DEF ManagerTypeOK, Operations
    <3>2. ManagerTypeOK' /\ ChildrenAreNumbered' /\ OperationsStand'
      BY <1>1, <2>1, <2>3, <3>1
         DEF ManagerTypeOK, ChildrenAreNumbered, OperationsStand, NoChild
    <3>3. \A d \in Calls : /\ call'[d].child = call[d].child
                           /\ call'[d].at # NoProfile => call'[d].at = call[d].at
      BY <2>1, <3>1 DEF ManagerTypeOK
    <3>4. NothingToLose'
      <4>1. Connecting' = Connecting
        BY <1>2, <3>1
      <4> QED BY <1>1, <2>1, <2>3, <3>3, <4>1 DEF NothingToLose
    <3>5. EveryChildIsKnown'
      BY <1>1, <2>1, <2>3, <3>3 DEF EveryChildIsKnown
    <3> QED BY <1>2, <3>1, <3>2, <3>4, <3>5
  <2> QED BY <1>5, <2>2, <2>3 DEF spawn_child
<1>6. CASE insert_session(c)
  <2>1. /\ call[c].child # NoChild /\ call[c].at \in Profiles
        /\ sessions' = [sessions EXCEPT ![call[c].at] = call[c].child]
        /\ call' = [call EXCEPT ![c].at = NoProfile, ![c].child = NoChild]
        /\ UNCHANGED <<running, started, abandoned>>
    BY <1>1, <1>6 DEF insert_session, OperationsStand, Operations
  <2>2. PICK o \in Operations :
          /\ call' = [call EXCEPT ![c] = o]
          /\ o.op = "connect" /\ o.child = NoChild /\ o.at = NoProfile
    <3>1. [call[c] EXCEPT !.at = NoProfile, !.child = NoChild] \in Operations
      BY <1>1 DEF Operations, NoChild
    <3> QED BY <1>1, <2>1, <3>1 DEF ManagerTypeOK, Operations
  <2>3. ManagerTypeOK' /\ OperationsStand'
    BY <1>1, <2>1, <2>2 DEF ManagerTypeOK, OperationsStand, Operations
  <2>4. ChildrenAreNumbered'
    BY <2>1, <2>2 DEF ManagerTypeOK, ChildrenAreNumbered, NoChild
  <2>5. \A d \in Calls : call'[d].at # NoProfile => d # c /\ call'[d] = call[d]
    BY <2>2 DEF ManagerTypeOK
  <2>6. NothingToLose'
    BY <1>1, <1>2, <1>3, <2>1, <2>2, <2>5 DEF NothingToLose
  <2>7. EveryChildIsKnown'
    <3>1. \A p \in Profiles : sessions'[p] =
              IF p = call[c].at THEN call[c].child ELSE sessions[p]
      BY <2>1 DEF ManagerTypeOK
    <3>2. \A d \in Calls \ {c} : call'[d] = call[d]
      BY <2>2 DEF ManagerTypeOK
    <3>3. SUFFICES ASSUME ~(overlapped \/ cut), NEW k \in running \ abandoned
                   PROVE  \/ \E p \in Profiles : sessions'[p] = k
                          \/ \E d \in Calls : call'[d].child = k
      BY <1>1, <2>1 DEF EveryChildIsKnown
    <3>4. CASE \E p \in Profiles : sessions[p] = k
      BY <2>1, <3>1, <3>3, <3>4 DEF NothingToLose
    <3>5. CASE \E d \in Calls : call[d].child = k
      BY <2>1, <3>1, <3>2, <3>5
    <3> QED BY <3>3, <3>4, <3>5 DEF EveryChildIsKnown
  <2> QED BY <1>2, <2>2, <2>3, <2>4, <2>6, <2>7
<1> QED BY <1>4, <1>5, <1>6

\* The flag is lowered; with the button alone, no other operation raised it.
LEMMA ManagerAnswers ==
    ASSUME ManagerInv, NEW c \in Calls, OperationEnds(c)
    PROVE  ManagerInv'
<1> USE DEF ManagerInv
<1>1. /\ call[c].op # "none" /\ call[c].at = NoProfile /\ call[c].child = NoChild
      /\ call' = [call EXCEPT ![c] = Idle] /\ isBusy' = FALSE
      /\ UNCHANGED <<sessions, running, started, manager, trayed, overlapped, abandoned, cut>>
  BY DEF OperationEnds, OperationsStand
<1>2. Idle \in Operations /\ Idle.at = NoProfile /\ Idle.child = NoChild /\ Idle.op = "none"
  BY DEF Idle, Operations, NoChild
<1>3. \A d \in Calls : call'[d] = IF d = c THEN Idle ELSE call[d]
  BY <1>1 DEF ManagerTypeOK
<1>4. ManagerTypeOK' /\ ChildrenAreNumbered' /\ OperationsStand'
  BY <1>1, <1>2, <1>3 DEF ManagerTypeOK, ChildrenAreNumbered, OperationsStand, NoChild
<1>5. ButtonExcludes' /\ Connecting' \subseteq Connecting
  BY <1>1, <1>2, <1>3 DEF ButtonExcludes, Connecting
<1>6. NothingToLose'
  BY <1>1, <1>2, <1>3, <1>5 DEF NothingToLose
<1>7. EveryChildIsKnown'
  BY <1>1, <1>3 DEF ChildrenAreNumbered, EveryChildIsKnown
<1> QED BY <1>4, <1>5, <1>6, <1>7

\* What killing the children of some sessions leaves.
LEMMA KillFacts ==
    ASSUME ManagerTypeOK, ChildrenAreNumbered, NEW ids \in SUBSET Profiles, Kill(ids)
    PROVE  /\ running' \subseteq running
           /\ abandoned' \subseteq Nat /\ abandoned \subseteq abandoned'
           /\ sessions' \in [Profiles -> Nat]
           /\ \A p \in Profiles : sessions'[p] <= started
           /\ \A p \in Profiles : sessions'[p] \in running => sessions'[p] = sessions[p]
           /\ \A k \in running' \ abandoned' : \A p \in Profiles :
                  sessions[p] = k => p \notin ids /\ sessions'[p] = k
<1>1. PICK errs \in SUBSET Held :
      LET left  == Cleaned(errs)
          dying == {left[p] : p \in ids} \ {NoChild}
      IN  \E survivors \in SUBSET dying :
            /\ running' = running \ (dying \ survivors)
            /\ abandoned' = abandoned \cup errs \cup survivors
            /\ sessions' = [p \in Profiles |-> IF p \in ids THEN NoChild ELSE left[p]]
  BY DEF Kill
<1> DEFINE left  == Cleaned(errs)
           dying == {left[p] : p \in ids} \ {NoChild}
<1>2. PICK survivors \in SUBSET dying :
        /\ running' = running \ (dying \ survivors)
        /\ abandoned' = abandoned \cup errs \cup survivors
        /\ sessions' = [p \in Profiles |-> IF p \in ids THEN NoChild ELSE left[p]]
  BY <1>1
<1>3. /\ left \in [Profiles -> Nat] /\ errs \subseteq Nat
      /\ \A p \in Profiles :
           /\ left[p] <= started
           /\ left[p] \in running => left[p] = sessions[p]
           /\ \A k \in running \ errs : sessions[p] = k => left[p] = k
  BY CleanedFacts
<1> HIDE DEF left
<1>4. dying \subseteq Nat
  BY <1>3
<1>5. \A p \in Profiles : \A k \in running \ errs : sessions[p] = k =>
          left[p] = k /\ (p \in ids => k \in dying)
  BY <1>3 DEF ChildrenAreNumbered
<1> HIDE DEF dying
<1>6. /\ sessions' \in [Profiles -> Nat] /\ \A p \in Profiles : sessions'[p] <= started
      /\ \A p \in Profiles : sessions'[p] \in running => sessions'[p] = sessions[p]
  BY <1>2, <1>3 DEF ManagerTypeOK, ChildrenAreNumbered, NoChild
<1>7. /\ running' \subseteq running
      /\ abandoned' \subseteq Nat /\ abandoned \subseteq abandoned'
  BY <1>2, <1>3, <1>4 DEF ManagerTypeOK
<1>8. ASSUME NEW k \in running' \ abandoned', NEW p \in Profiles, sessions[p] = k
      PROVE  p \notin ids /\ sessions'[p] = k
  BY <1>2, <1>5, <1>8
<1> QED BY <1>6, <1>7, <1>8

\* A disconnect, and the deletion of a profile.
LEMMA ManagerDisconnects ==
    ASSUME ManagerInv, NEW c \in Calls, NEW from \in {"button", "tray", "delete"},
           disconnect_profiles(c, from)
    PROVE  ManagerInv'
<1> USE DEF ManagerInv
<1>1. PICK ids \in SUBSET Profiles : Kill(ids)
  BY DEF disconnect_profiles
<1>2. /\ call[c].op = "none" /\ manager # "gone" /\ (from = "button" => ~isBusy)
      /\ trayed' = (trayed \/ from = "tray")
      /\ UNCHANGED <<started, manager, overlapped, cut>>
  BY DEF disconnect_profiles, Clicked
<1>3. call[c].at = NoProfile /\ call[c].child = NoChild
  BY <1>2 DEF OperationsStand, Idle
<1>4. PICK o \in Operations :
        /\ call' = [call EXCEPT ![c] = o]
        /\ o = Idle \/ o.op = "disconnect"
        /\ o.at = NoProfile /\ o.child = NoChild
        /\ \/ from = "delete" /\ call' = call /\ isBusy' = isBusy
           \/ from # "delete" /\ isBusy' = TRUE
  <2>1. [Idle EXCEPT !.op = "disconnect"] \in Operations /\ Idle \in Operations
    BY DEF Idle, Operations, NoChild
  <2>2. CASE from = "delete"
    <3>1. call' = call /\ isBusy' = isBusy /\ call[c] = Idle
      BY <1>2, <2>2 DEF disconnect_profiles, OperationsStand
    <3> QED BY <2>1, <2>2, <3>1 DEF ManagerTypeOK, Idle
  <2>3. CASE from # "delete"
    BY <2>1, <2>3 DEF disconnect_profiles, Idle
  <2> QED BY <2>2, <2>3
<1>5. \A d \in Calls : call'[d] = IF d = c THEN o ELSE call[d]
  BY <1>4 DEF ManagerTypeOK
<1>6. o.op # "connect"
  BY <1>4 DEF Idle
<1>7. ManagerTypeOK'
  BY <1>1, <1>2, <1>4, KillFacts DEF ManagerTypeOK
<1>8. ChildrenAreNumbered' /\ OperationsStand'
  BY <1>1, <1>2, <1>4, <1>5, KillFacts DEF ChildrenAreNumbered, OperationsStand, NoChild, ManagerTypeOK
<1>9. Connecting' = Connecting
  BY <1>2, <1>5, <1>6 DEF Connecting
<1>10. ButtonExcludes'
  <2>1. CASE from = "delete"
    <3>1. trayed' = trayed /\ call' = call /\ isBusy' = isBusy
      BY <1>2, <1>4, <2>1 DEF ManagerTypeOK
    <3> QED BY <1>2, <1>9, <3>1 DEF ButtonExcludes
  <2>2. CASE from # "delete"
    BY <1>2, <1>4, <1>5, <1>9, <2>2 DEF ButtonExcludes
  <2> QED BY <2>1, <2>2
<1>11. NothingToLose'
  <2>1. \A d \in Calls : call'[d].at # NoProfile => call'[d].at = call[d].at /\ call[d].at \in Profiles
    BY <1>4, <1>5 DEF ManagerTypeOK, Operations
  <2> QED BY <1>1, <1>2, <1>9, <2>1, KillFacts DEF NothingToLose
<1>12. EveryChildIsKnown'
  <2>1. \A d \in Calls : call'[d].child = call[d].child
    BY <1>3, <1>4, <1>5
  <2> QED BY <1>1, <1>2, <2>1, KillFacts DEF EveryChildIsKnown
<1> QED BY <1>7, <1>8, <1>10, <1>11, <1>12

\* The manager stops its children, leaves, and children end.
LEMMA ManagerLeaves ==
    ASSUME ManagerInv, stop_all \/ shutdown_manager \/ ChildExits
    PROVE  ManagerInv'
<1> USE DEF ManagerInv
<1>1. CASE stop_all
  <2>1. /\ Kill(Profiles) /\ manager = "up" /\ manager' = "leaving"
        /\ cut' = (cut \/ Connecting # {})
        /\ UNCHANGED <<started, call, isBusy, trayed, overlapped>>
    BY <1>1 DEF stop_all
  <2>2. ManagerTypeOK' /\ ChildrenAreNumbered' /\ OperationsStand'
    BY <2>1, KillFacts DEF ManagerTypeOK, ChildrenAreNumbered, OperationsStand
  <2>3. ButtonExcludes' /\ Connecting' = Connecting
    BY <2>1 DEF ButtonExcludes, Connecting
  <2>4. ASSUME ~(overlapped \/ cut')
        PROVE  running' \subseteq abandoned' /\ Connecting = {}
    <3>1. Connecting = {} /\ ~(overlapped \/ cut)
      BY <2>1, <2>4, KillFacts DEF ManagerTypeOK
    <3>2. \A d \in Calls : call[d].child = NoChild
      BY <3>1 DEF OperationsStand, Connecting
    <3>3. \A k \in running \ abandoned : \E p \in Profiles : sessions[p] = k
      BY <3>1, <3>2 DEF ChildrenAreNumbered, EveryChildIsKnown
    <3>4. /\ running' \subseteq running /\ abandoned \subseteq abandoned'
          /\ \A k \in running' \ abandoned' : \A p \in Profiles : sessions[p] # k
      BY <2>1, KillFacts
    <3> QED BY <3>1, <3>3, <3>4
  <2>5. NothingToLose'
    <3>1. overlapped' = overlapped /\ \A c \in Calls : call'[c] = call[c]
      BY <2>1
    <3>2. ~(overlapped \/ cut) => \A c \in Calls : call[c].at # NoProfile =>
              call[c].at \in Profiles /\ sessions[call[c].at] \notin running
      BY DEF NothingToLose, ManagerTypeOK, Operations
    <3>3. cut => cut'
      BY <2>1
    <3>4. ~(overlapped \/ cut') => \A c \in Calls : call[c].at # NoProfile =>
              sessions'[call[c].at] \notin running'
      BY <2>1, <3>2, <3>3, KillFacts
    <3> QED BY <2>3, <2>4, <3>1, <3>4 DEF NothingToLose
  <2>6. EveryChildIsKnown'
    BY <2>1, <2>4 DEF EveryChildIsKnown
  <2> QED BY <2>2, <2>3, <2>5, <2>6
<1>2. CASE shutdown_manager
  <2>1. /\ manager = "leaving" /\ manager' = "gone"
        /\ call' = [c \in Calls |-> Idle]
        /\ sessions' = [p \in Profiles |-> NoChild]
        /\ cut' = (cut \/ Connecting # {})
        /\ UNCHANGED <<running, started, isBusy, trayed, overlapped, abandoned>>
    BY <1>2 DEF shutdown_manager
  <2>2. Idle \in Operations /\ Idle.at = NoProfile /\ Idle.child = NoChild /\ Idle.op = "none"
    BY DEF Idle, Operations, NoChild
  <2>3. ManagerTypeOK' /\ ChildrenAreNumbered' /\ OperationsStand'
    BY <2>1, <2>2 DEF ManagerTypeOK, ChildrenAreNumbered, OperationsStand, NoChild
  <2>4. Connecting' = {}
    BY <2>1, <2>2 DEF Connecting
  <2>5. ButtonExcludes'
    BY <2>1, <2>2, <2>4 DEF ButtonExcludes
  <2>6. NothingToLose' /\ EveryChildIsKnown'
    BY <2>1, <2>2, <2>4 DEF ManagerTypeOK, NothingToLose, EveryChildIsKnown
  <2> QED BY <2>3, <2>5, <2>6
<1>3. CASE ChildExits
  <2>1. /\ running' \subseteq running
        /\ UNCHANGED <<sessions, started, call, isBusy, manager, trayed, overlapped, abandoned, cut>>
    BY <1>3 DEF ChildExits
  <2>2. ManagerTypeOK' /\ ChildrenAreNumbered' /\ OperationsStand'
    BY <2>1 DEF ManagerTypeOK, ChildrenAreNumbered, OperationsStand
  <2>3. ButtonExcludes' /\ NothingToLose' /\ EveryChildIsKnown'
    BY <2>1 DEF ButtonExcludes, Connecting, NothingToLose, EveryChildIsKnown
  <2> QED BY <2>2, <2>3
<1> QED BY <1>1, <1>2, <1>3

\* A request that only shows removes sessions all the same.
LEMMA ManagerShows ==
    ASSUME ManagerInv, show_profiles
    PROVE  ManagerInv'
<1> USE DEF ManagerInv
<1>1. /\ manager # "gone" /\ cleanup_exited_sessions
      /\ UNCHANGED <<running, started, call, isBusy, manager, trayed, overlapped, cut>>
  BY DEF show_profiles
<1>2. ManagerTypeOK' /\ ChildrenAreNumbered' /\ OperationsStand'
  BY <1>1, CleanupFacts DEF ManagerTypeOK, ChildrenAreNumbered, OperationsStand
<1>3. ButtonExcludes' /\ Connecting' = Connecting
  BY <1>1 DEF ButtonExcludes, Connecting
<1>4. NothingToLose'
  <2>1. \A c \in Calls : call[c].at # NoProfile => call[c].at \in Profiles
    BY DEF ManagerTypeOK, Operations
  <2> QED BY <1>1, <1>3, <2>1, CleanupFacts DEF NothingToLose
<1>5. EveryChildIsKnown'
  BY <1>1, CleanupFacts DEF EveryChildIsKnown
<1> QED BY <1>2, <1>3, <1>4, <1>5

LEMMA ManagerInvariant == ManagerSpec => []ManagerInv
<1>1. ManagerInv /\ [ManagerNext]_manager_vars => ManagerInv'
  <2>1. SUFFICES ASSUME ManagerInv, [ManagerNext]_manager_vars PROVE ManagerInv'
    OBVIOUS
  <2>2. CASE UNCHANGED manager_vars
    BY <2>1, <2>2 DEF manager_vars, ManagerInv, ManagerTypeOK, ChildrenAreNumbered,
         OperationsStand, ButtonExcludes, Connecting, NothingToLose, EveryChildIsKnown
  <2>3. ASSUME NEW c \in Calls, NEW from \in {"button", "tray"}, connect_profiles(c, from)
        PROVE  ManagerInv'
    BY <2>1, <2>3, ManagerBegins
  <2>4. ASSUME NEW c \in Calls, NEW from \in {"button", "tray", "delete"},
               disconnect_profiles(c, from)
        PROVE  ManagerInv'
    BY <2>1, <2>4, ManagerDisconnects
  <2>5. ASSUME NEW c \in Calls, session_is_running(c) \/ spawn_child(c) \/ insert_session(c)
        PROVE  ManagerInv'
    BY <2>1, <2>5, ManagerConnects
  <2>6. ASSUME NEW c \in Calls, OperationEnds(c) PROVE ManagerInv'
    BY <2>1, <2>6, ManagerAnswers
  <2>7. CASE stop_all \/ shutdown_manager \/ ChildExits
    BY <2>1, <2>7, ManagerLeaves
  <2>8. CASE show_profiles
    BY <2>1, <2>8, ManagerShows
  <2> QED BY <2>1, <2>2, <2>3, <2>4, <2>5, <2>6, <2>7, <2>8 DEF ManagerNext
<1> QED BY <1>1, ManagerInitial, PTL DEF ManagerSpec

\* A child of the profile manager is lost only by a failed kill or a failed
\* try_wait of its own, an exit within a connect, or two connects at once, which
\* take the tray menu (vntc-manager/src/main.rs with dashboard_controller.dart).
THEOREM ChildrenAreKnown == ManagerSpec => []EveryChildIsKnown
<1>1. ManagerInv => EveryChildIsKnown
  BY DEF ManagerInv
<1> QED BY <1>1, ManagerInvariant, PTL

-----------------------------------------------------------------------------
(* Mesh.                                                                   *)

Types == {"PunchStart1", "PunchStart2", "PunchReq", "PunchRes", "Ping", "Pong", "Turn"}

\* Between neighbours, without those a user sends.
Between == {"PunchReq", "PunchRes", "Ping", "Pong"}

Packets == [type : Types, src : Nodes, dest : Nodes, max : Nat, ttl : Nat,
            from : Nodes, to : Nodes, hops : Nat]

\* The hops of a packet and what is left of its ttl make up the ttl it began
\* with.  A packet of the mesh itself that was passed on once is a Ping, which
\* went to another node than its sender first; the messages of a handshake go
\* one way.
Travels(p) ==
    /\ p.src # p.dest
    /\ p.ttl >= 1
    /\ p.hops >= 1
    /\ p.hops + p.ttl = p.max + 1
    /\ p.type = "PunchStart1" => p.src < p.dest
    /\ p.type = "PunchStart2" => p.dest < p.src
    /\ p.type \in {"PunchStart1", "PunchStart2"} => p.from = p.src /\ p.to = p.dest
    /\ p.type \in {"PunchReq", "PunchRes", "Pong"} => p.max = 1
    /\ p.type = "Ping" => p.max \in {1, 2}
    /\ p.type # "Turn" /\ p.hops = 1 => p.from = p.src
    /\ p.type = "Ping" /\ p.max = 2 => IF p.hops = 1 THEN p.to # p.src ELSE p.from # p.src

Routes == [via : Nodes, metric : Nat]

RoutesGood ==
    /\ routes \in [Nodes -> [Nodes -> SUBSET Routes]]
    /\ \A n, m \in Nodes : \A r \in routes[n][m] : n # m /\ (is_direct(r) <=> r.via = m)

PacketsGood ==
    /\ flight \subseteq Packets
    /\ \A p \in flight : Travels(p)
    /\ checked \in [Nodes -> SUBSET Packets]
    /\ \A n \in Nodes : \A p \in checked[n] :
        Travels(p) /\ p.type = "Ping" /\ p.to = n /\ p.dest = n

RestingGood == resting \in [Nodes -> SUBSET Nodes] /\ AnswererNeverHoldsBack

MeshInv == RoutesGood /\ PacketsGood /\ RestingGood

LEMMA MeshInitial == MeshInit => MeshInv
  BY DEF MeshInit, MeshInv, RoutesGood, PacketsGood, RestingGood, AnswererNeverHoldsBack

\* What is in flight after a sending was there or is new.
LEMMA EmitKeeps ==
    ASSUME PacketsGood, NEW rest \in SUBSET flight, NEW new \in SUBSET Packets,
           \A p \in new : Travels(p), Emit(rest, new), UNCHANGED checked
    PROVE  PacketsGood'
<1>1. flight' \subseteq rest \cup new
  BY DEF Emit
<1> QED BY <1>1 DEF PacketsGood

\* A packet that has just been sent to a neighbour.
LEMMA PacketFacts ==
    ASSUME NEW type \in Types, NEW src \in Nodes, NEW dest \in Nodes, NEW ttl \in Nat,
           NEW from \in Nodes, NEW to \in Nodes
    PROVE  LET p == Packet(type, src, dest, ttl, from, to)
           IN  /\ p \in Packets /\ p.hops = 1 /\ p.ttl = ttl /\ p.max = ttl /\ p.type = type
               /\ p.src = src /\ p.dest = dest /\ p.from = from /\ p.to = to
  BY DEF Packet, Packets

LEMMA TurnedTravels ==
    ASSUME NEW src \in Nodes, NEW dest \in Nodes
    PROVE  /\ src < dest => /\ Turned("PunchStart1", src, dest) \in Packets
                            /\ Travels(Turned("PunchStart1", src, dest))
           /\ dest < src => /\ Turned("PunchStart2", src, dest) \in Packets
                            /\ Travels(Turned("PunchStart2", src, dest))
<1>1. "PunchStart1" \in Types /\ "PunchStart2" \in Types
  BY DEF Types
<1> QED BY <1>1, PacketFacts, MeshAssumption DEF Turned, Travels

\* The messages of a handshake between neighbours, Pings and packets of the user.
LEMMA OwnTravels ==
    ASSUME NEW src \in Nodes, NEW dest \in Nodes \ {src}, NEW to \in Nodes
    PROVE  /\ \A type \in {"PunchReq", "PunchRes", "Pong", "Ping"} :
                /\ Packet(type, src, dest, 1, src, to) \in Packets
                /\ Travels(Packet(type, src, dest, 1, src, to))
           /\ to # src => /\ Packet("Ping", src, dest, 2, src, to) \in Packets
                          /\ Travels(Packet("Ping", src, dest, 2, src, to))
           /\ Packet("Turn", src, dest, DataTtl, src, to) \in Packets
           /\ Travels(Packet("Turn", src, dest, DataTtl, src, to))
<1>1. {"PunchReq", "PunchRes", "Pong", "Ping", "Turn"} \subseteq Types
  BY DEF Types
<1>2. ASSUME NEW type \in {"PunchReq", "PunchRes", "Pong", "Ping"}
      PROVE  /\ Packet(type, src, dest, 1, src, to) \in Packets
             /\ Travels(Packet(type, src, dest, 1, src, to))
  <2> DEFINE p == Packet(type, src, dest, 1, src, to)
  <2>1. /\ p \in Packets /\ p.hops = 1 /\ p.ttl = 1 /\ p.max = 1 /\ p.type = type
        /\ p.src = src /\ p.dest = dest /\ p.from = src /\ p.to = to
    <3>1. type \in Types /\ 1 \in Nat
      BY <1>1
    <3> QED BY <3>1, PacketFacts
  <2> HIDE DEF p
  <2>2. Travels(p)
    <3>1. p.type \notin {"PunchStart1", "PunchStart2", "Turn"} /\ p.src # p.dest
      BY <1>2, <2>1
    <3>2. p.max # 2 /\ p.hops + p.ttl = p.max + 1
      BY <2>1
    <3> QED BY <2>1, <3>1, <3>2 DEF Travels
  <2> QED BY <2>1, <2>2 DEF p
<1>3. ASSUME to # src
      PROVE  /\ Packet("Ping", src, dest, 2, src, to) \in Packets
             /\ Travels(Packet("Ping", src, dest, 2, src, to))
  <2> DEFINE p == Packet("Ping", src, dest, 2, src, to)
  <2>1. /\ p \in Packets /\ p.hops = 1 /\ p.ttl = 2 /\ p.max = 2 /\ p.type = "Ping"
        /\ p.src = src /\ p.dest = dest /\ p.from = src /\ p.to = to
    BY <1>1, PacketFacts
  <2> HIDE DEF p
  <2>2. Travels(p)
    BY <1>3, <2>1 DEF Travels
  <2> QED BY <2>1, <2>2 DEF p
<1>4. /\ Packet("Turn", src, dest, DataTtl, src, to) \in Packets
      /\ Travels(Packet("Turn", src, dest, DataTtl, src, to))
  <2> DEFINE p == Packet("Turn", src, dest, DataTtl, src, to)
  <2>1. /\ p \in Packets /\ p.hops = 1 /\ p.ttl = DataTtl /\ p.max = DataTtl
        /\ p.type = "Turn" /\ p.src = src /\ p.dest = dest /\ p.from = src /\ p.to = to
    <3>1. "Turn" \in Types /\ DataTtl \in Nat
      BY <1>1, MeshAssumption
    <3> QED BY <3>1, PacketFacts
  <2> HIDE DEF p
  <2>2. Travels(p)
    <3>1. DataTtl \in Nat /\ DataTtl >= 1 /\ p.src # p.dest
      BY <2>1, MeshAssumption
    <3>2. p.type \notin {"PunchStart1", "PunchStart2", "PunchReq", "PunchRes", "Pong", "Ping"}
      BY <2>1
    <3>3. p.hops + p.ttl = p.max + 1 /\ p.ttl >= 1 /\ p.hops >= 1
      BY <2>1, <3>1
    <3> QED BY <2>1, <3>1, <3>2, <3>3 DEF Travels
  <2> QED BY <2>1, <2>2 DEF p
<1> QED BY <1>2, <1>3, <1>4

\* What the receiver sees: one less of the ttl, hence the hops as the metric.
LEMMA SeenFacts ==
    ASSUME NEW p \in Packets, Travels(p)
    PROVE  /\ AsSeen(p) = [p EXCEPT !.ttl = p.ttl - 1]
           /\ AsSeen(p) \in Packets
           /\ metric(p) = p.hops
           /\ p.hops <= p.max
           /\ p.src \in Nodes /\ p.dest \in Nodes /\ p.from \in Nodes /\ p.to \in Nodes
           /\ p.type \in Between => (p.hops = 1 <=> p.from = p.src)
<1>1. /\ p.ttl \in Nat /\ p.max \in Nat /\ p.hops \in Nat /\ p.type \in Types
      /\ p.src \in Nodes /\ p.dest \in Nodes /\ p.from \in Nodes /\ p.to \in Nodes
  BY DEF Packets
<1>2. AsSeen(p) = [p EXCEPT !.ttl = p.ttl - 1] /\ AsSeen(p).ttl = p.ttl - 1
  BY <1>1 DEF AsSeen, decr_ttl, Travels, Packets
<1>3. [p EXCEPT !.ttl = p.ttl - 1] \in Packets
  BY <1>1 DEF Packets, Travels
<1>4. metric(p) = p.hops /\ p.hops <= p.max
  BY <1>1, <1>2 DEF metric, Travels
<1>5. ASSUME p.type \in Between PROVE p.hops = 1 <=> p.from = p.src
  <2>1. CASE p.max = 1
    BY <1>1, <1>5, <2>1 DEF Travels, Between
  <2>2. CASE p.type = "Ping" /\ p.max = 2
    BY <1>1, <2>2 DEF Travels
  <2> QED BY <1>5, <2>1, <2>2 DEF Travels, Between
<1> QED BY <1>1, <1>2, <1>3, <1>4, <1>5

\* A route whose metric tells its hops can be entered.
LEMMA AddRouteKeeps ==
    ASSUME RoutesGood, NEW n \in Nodes, NEW id \in Nodes \ {n}, NEW r \in Routes,
           is_direct(r) <=> r.via = id, add_route(n, id, r)
    PROVE  RoutesGood'
<1>1. CASE routes' = routes
  BY <1>1 DEF RoutesGood
<1>2. CASE routes' = [routes EXCEPT ![n][id] = Entered(@, r)]
  <2>1. Entered(routes[n][id], r) \subseteq routes[n][id] \cup {r}
    BY DEF Entered
  <2>2. Entered(routes[n][id], r) \in SUBSET Routes
    BY <2>1 DEF RoutesGood
  <2>3. \A k, m \in Nodes : routes'[k][m] =
            IF k = n /\ m = id THEN Entered(routes[n][id], r) ELSE routes[k][m]
    BY <1>2 DEF RoutesGood
  <2>4. routes' \in [Nodes -> [Nodes -> SUBSET Routes]]
    BY <1>2, <2>2 DEF RoutesGood
  <2> QED BY <2>1, <2>3, <2>4 DEF RoutesGood
<1> QED BY <1>1, <1>2 DEF add_route

LEMMA AddOwnerRouteKeeps ==
    ASSUME RoutesGood, NEW n \in Nodes, NEW id \in Nodes \ {n}, add_owner_route(n, id, id)
    PROVE  RoutesGood'
<1>1. CASE routes' = routes
  BY <1>1 DEF RoutesGood
<1>2. CASE routes' = [routes EXCEPT ![n][id] = @ \cup {[via |-> id, metric |-> 1]}]
  <2> DEFINE r == [via |-> id, metric |-> 1]
  <2>1. r \in Routes /\ is_direct(r) /\ r.via = id
    BY DEF Routes, is_direct
  <2>2. \A k, m \in Nodes : routes'[k][m] =
            IF k = n /\ m = id THEN routes[n][id] \cup {r} ELSE routes[k][m]
    BY <1>2 DEF RoutesGood
  <2> HIDE DEF r
  <2>3. routes' \in [Nodes -> [Nodes -> SUBSET Routes]]
    BY <1>2, <2>1 DEF RoutesGood, r
  <2> QED BY <2>1, <2>2, <2>3 DEF RoutesGood
<1> QED BY <1>1, <1>2 DEF add_owner_route

\* What a node does of its own accord.
LEMMA MeshTasks ==
    ASSUME MeshInv, NEW n \in Nodes, NEW m \in Nodes,
           \/ punch_task(n, m) \/ ping_all(n, m) \/ relay_probe_task(n, m)
           \/ SendData(n, m) \/ route_timeout_task(n, m)
    PROVE  MeshInv'
<1> USE DEF MeshInv
<1>1. CASE punch_task(n, m)
  <2>1. n < m /\ Emit(flight, {Turned("PunchStart1", n, m)})
        /\ UNCHANGED <<routes, resting, checked>>
    BY <1>1, MeshAssumption DEF punch_task
  <2>2. PacketsGood'
    BY <2>1, TurnedTravels, EmitKeeps
  <2> QED BY <2>1, <2>2 DEF RoutesGood, RestingGood, AnswererNeverHoldsBack
<1>2. CASE ping_all(n, m) \/ SendData(n, m)
  <2>1. PICK r \in routes[n][m] : \E p \in {Packet("Ping", n, m, 1, n, r.via),
                                             Packet("Turn", n, m, DataTtl, n, r.via)} :
            Emit(flight, {p})
    BY <1>2 DEF ping_all, SendData
  <2>2. n # m /\ r.via \in Nodes /\ UNCHANGED <<routes, resting, checked>>
    BY <1>2, <2>1 DEF ping_all, SendData, RoutesGood, Routes
  <2>3. PICK p \in Packets : Travels(p) /\ Emit(flight, {p})
    BY <2>1, <2>2, OwnTravels
  <2>4. PacketsGood'
    BY <2>2, <2>3, EmitKeeps
  <2> QED BY <2>2, <2>4 DEF RoutesGood, RestingGood, AnswererNeverHoldsBack
<1>3. CASE relay_probe_task(n, m)
  <2>1. PICK relay \in Nodes \ {m} : \E r \in routes[n][relay] :
            is_direct(r) /\ Emit(flight, {Packet("Ping", n, m, 2, n, r.via)})
    BY <1>3 DEF relay_probe_task
  <2>2. PICK r \in routes[n][relay] :
            is_direct(r) /\ Emit(flight, {Packet("Ping", n, m, 2, n, r.via)})
    BY <2>1
  <2>3. n # m /\ r.via = relay /\ relay # n /\ UNCHANGED <<routes, resting, checked>>
    BY <1>3, <2>2 DEF relay_probe_task, RoutesGood
  <2>4. PacketsGood'
    BY <2>2, <2>3, OwnTravels, EmitKeeps
  <2> QED BY <2>3, <2>4 DEF RoutesGood, RestingGood, AnswererNeverHoldsBack
<1>4. CASE route_timeout_task(n, m)
  <2>1. PICK r \in routes[n][m] : routes' = [routes EXCEPT ![n][m] = @ \ {r}]
    BY <1>4 DEF route_timeout_task
  <2>2. UNCHANGED <<resting, checked, flight>>
    BY <1>4 DEF route_timeout_task
  <2>3. \A k, l \in Nodes : routes'[k][l] \subseteq routes[k][l]
    BY <2>1 DEF RoutesGood
  <2>4. routes' \in [Nodes -> [Nodes -> SUBSET Routes]]
    BY <2>1 DEF RoutesGood
  <2>5. RoutesGood'
    BY <2>3, <2>4 DEF RoutesGood
  <2> QED BY <2>2, <2>5 DEF PacketsGood, RestingGood, AnswererNeverHoldsBack
<1> QED BY <1>1, <1>2, <1>3, <1>4

\* A packet for another node is passed on with one hop more and one less of its
\* ttl; the only packet of the mesh itself with ttl left is a relay probe.
LEMMA MeshForwards ==
    ASSUME MeshInv, NEW p \in flight, Forward(p)
    PROVE  MeshInv'
<1> USE DEF MeshInv
<1>1. p \in Packets /\ Travels(p)
  BY DEF PacketsGood
<1>2. /\ p.type \in Types \ {"PunchStart1", "PunchStart2"} /\ p.dest # p.to
      /\ UNCHANGED <<routes, resting, checked>>
  BY <1>1 DEF Forward, Direct, Packets
<1>3. PICK rest \in SUBSET flight :
          \/ /\ AsSeen(p).ttl >= 1
             /\ \E r \in routes[p.to][p.dest] :
                Emit(rest, {[AsSeen(p) EXCEPT !.from = p.to, !.to = r.via, !.hops = @ + 1]})
          \/ Emit(rest, {})
  BY DEF Forward, Remaining
<1>4. CASE Emit(rest, {})
  <2>1. PacketsGood'
    BY <1>2, <1>4, EmitKeeps
  <2> QED BY <1>2, <2>1 DEF RoutesGood, RestingGood, AnswererNeverHoldsBack
<1>5. CASE /\ AsSeen(p).ttl >= 1
           /\ \E r \in routes[p.to][p.dest] :
                Emit(rest, {[AsSeen(p) EXCEPT !.from = p.to, !.to = r.via, !.hops = @ + 1]})
  <2>1. PICK r \in routes[p.to][p.dest] :
            Emit(rest, {[AsSeen(p) EXCEPT !.from = p.to, !.to = r.via, !.hops = @ + 1]})
    BY <1>5
  <2>2. /\ p.src \in Nodes /\ p.dest \in Nodes /\ p.to \in Nodes /\ p.from \in Nodes
        /\ r.via \in Nodes /\ p.ttl \in Nat /\ p.hops \in Nat /\ p.max \in Nat
    BY <1>1, <2>1 DEF Packets, RoutesGood, Routes
  <2>3. PICK q \in Packets :
          /\ q = [AsSeen(p) EXCEPT !.from = p.to, !.to = r.via, !.hops = @ + 1]
          /\ q.type = p.type /\ q.src = p.src /\ q.dest = p.dest /\ q.max = p.max
          /\ q.ttl = p.ttl - 1 /\ q.hops = p.hops + 1 /\ q.from = p.to /\ q.to = r.via
    <3> DEFINE q == [AsSeen(p) EXCEPT !.from = p.to, !.to = r.via, !.hops = @ + 1]
    <3>1. AsSeen(p) = [p EXCEPT !.ttl = p.ttl - 1] /\ AsSeen(p) \in Packets
      BY <1>1, SeenFacts
    <3>2. q \in Packets
      <4> DEFINE a == AsSeen(p)
      <4>1. a \in Packets /\ p.to \in Nodes /\ r.via \in Nodes /\ a.hops + 1 \in Nat
        BY <2>2, <3>1 DEF Packets
      <4> HIDE DEF a
      <4>2. [a EXCEPT !.from = p.to, !.to = r.via, !.hops = @ + 1] \in Packets
        BY <4>1 DEF Packets
      <4> QED BY <4>2 DEF a
    <3>3. /\ q.type = p.type /\ q.src = p.src /\ q.dest = p.dest /\ q.max = p.max
          /\ q.ttl = p.ttl - 1 /\ q.hops = p.hops + 1 /\ q.from = p.to /\ q.to = r.via
      BY <1>1, <2>2, <3>1 DEF Packets
    <3> QED BY <3>2, <3>3
  <2>4. p.ttl >= 2
    BY <1>1, <1>5, <2>2, SeenFacts DEF Packets
  <2>5. p.type \in {"Ping", "Turn"} /\ (p.type = "Ping" => p.max = 2 /\ p.hops = 1)
    BY <1>1, <1>2, <2>2, <2>4 DEF Travels, Types
  <2>6. Travels(q)
    BY <1>1, <2>2, <2>3, <2>4, <2>5 DEF Travels
  <2>7. PacketsGood'
    BY <1>2, <2>1, <2>3, <2>6, EmitKeeps
  <2> QED BY <1>2, <2>7 DEF RoutesGood, RestingGood, AnswererNeverHoldsBack
<1> QED BY <1>3, <1>4, <1>5

\* The handshake: the asked peer has the higher address, so the answer finds
\* the lower one, which alone records.
LEMMA MeshPunches ==
    ASSUME MeshInv, NEW p \in flight, PunchStart1(p) \/ PunchStart2(p)
    PROVE  MeshInv'
<1> USE DEF MeshInv
<1>1. p \in Packets /\ Travels(p) /\ p.src \in Nodes /\ p.to \in Nodes /\ p.from \in Nodes
  BY DEF PacketsGood, Packets
<1> DEFINE req == Packet("PunchReq", p.to, p.src, 1, p.to, p.src)
<1>2. p.src # p.to /\ p.to = p.dest
  BY <1>1 DEF PunchStart1, PunchStart2, Travels
<1>3. req \in Packets /\ Travels(req)
  BY <1>1, <1>2, OwnTravels
<1> HIDE DEF req
<1>4. CASE PunchStart1(p)
  <2>1. p.src < p.to /\ UNCHANGED <<routes, resting, checked>>
    BY <1>1, <1>2, <1>4 DEF PunchStart1, Travels
  <2>2. PICK rest \in SUBSET flight, new \in {{}, {Turned("PunchStart2", p.to, p.src), req}} :
            Emit(rest, new)
    BY <1>4 DEF PunchStart1, Remaining, req
  <2>3. new \in SUBSET Packets /\ \A q \in new : Travels(q)
    BY <1>1, <1>3, <2>1, <2>2, TurnedTravels
  <2>4. PacketsGood'
    BY <2>1, <2>2, <2>3, EmitKeeps
  <2> QED BY <2>1, <2>4 DEF RoutesGood, RestingGood, AnswererNeverHoldsBack
<1>5. CASE PunchStart2(p)
  <2>1. /\ p.to < p.src /\ UNCHANGED <<routes, checked>>
        /\ resting' = [resting EXCEPT ![p.to] = @ \cup {p.src}]
    BY <1>1, <1>2, <1>5 DEF PunchStart2, Travels
  <2>2. PICK rest \in SUBSET flight : Emit(rest, {req})
    BY <1>5 DEF PunchStart2, Remaining, req
  <2>3. PacketsGood'
    BY <1>3, <2>1, <2>2, EmitKeeps
  <2>4. RestingGood'
    BY <1>1, <2>1 DEF RestingGood, AnswererNeverHoldsBack
  <2> QED BY <2>1, <2>3, <2>4 DEF RoutesGood
<1> QED BY <1>4, <1>5

\* What a node learns from what reaches it.
LEMMA MeshReceives ==
    ASSUME MeshInv, NEW p \in flight,
           PingArrives(p) \/ PongArrives(p) \/ PunchReqArrives(p) \/ PunchResArrives(p)
    PROVE  MeshInv'
<1> USE DEF MeshInv
<1>1. p \in Packets /\ Travels(p) /\ p.type \in Between /\ p.dest = p.to
  BY DEF PacketsGood, PingArrives, PongArrives, PunchReqArrives, PunchResArrives, ForMe, Between
<1>2. /\ p.src \in Nodes /\ p.to \in Nodes /\ p.from \in Nodes /\ p.src # p.to
      /\ p.hops \in Nat /\ p.max \in Nat /\ p.ttl \in Nat
  BY <1>1 DEF Packets, Travels
<1>3. RestingGood'
  BY DEF PingArrives, PongArrives, PunchReqArrives, PunchResArrives, RestingGood,
       AnswererNeverHoldsBack
<1>4. CASE PingArrives(p)
  <2>1. UNCHANGED routes /\ p.type = "Ping"
    BY <1>4 DEF PingArrives
  <2>2. PICK rest \in SUBSET flight :
          \/ Emit(rest, {}) /\ checked' = [checked EXCEPT ![p.to] = @ \cup {p}]
          \/ Emit(rest, {Pong(p)}) /\ UNCHANGED checked
    BY <1>4 DEF PingArrives, Remaining
  <2>3. CASE Emit(rest, {}) /\ checked' = [checked EXCEPT ![p.to] = @ \cup {p}]
    <3>1. flight' \subseteq flight
      BY <2>3 DEF Emit
    <3>2. PacketsGood'
      BY <1>1, <1>2, <2>1, <2>3, <3>1 DEF PacketsGood
    <3> QED BY <1>3, <2>1, <3>2 DEF RoutesGood
  <2>4. CASE Emit(rest, {Pong(p)}) /\ UNCHANGED checked
    <3>1. Pong(p) \in Packets /\ Travels(Pong(p))
      BY <1>2, OwnTravels DEF Pong
    <3>2. PacketsGood'
      BY <2>4, <3>1, EmitKeeps
    <3> QED BY <1>3, <2>1, <3>2 DEF RoutesGood
  <2> QED BY <2>2, <2>3, <2>4
<1>5. CASE PongArrives(p)
  <2> DEFINE r == [via |-> p.from, metric |-> metric(p)]
  <2>1. add_route(p.to, p.src, r) /\ UNCHANGED checked
    BY <1>5 DEF PongArrives
  <2>2. r \in Routes /\ (is_direct(r) <=> r.via = p.src)
    BY <1>1, <1>2, SeenFacts DEF Routes, is_direct
  <2> HIDE DEF r
  <2>3. RoutesGood'
    BY <1>2, <2>1, <2>2, AddRouteKeeps
  <2>4. PICK rest \in SUBSET flight : Emit(rest, {})
    BY <1>5 DEF PongArrives, Remaining
  <2>5. PacketsGood'
    BY <2>1, <2>4, EmitKeeps
  <2> QED BY <1>3, <2>3, <2>5
<1>6. CASE PunchReqArrives(p) \/ PunchResArrives(p)
  <2>1. add_owner_route(p.to, p.src, p.from) /\ UNCHANGED checked
    BY <1>6 DEF PunchReqArrives, PunchResArrives
  <2>2. p.from = p.src
    BY <1>1, <1>2, <1>6 DEF PunchReqArrives, PunchResArrives, Travels
  <2>3. RoutesGood'
    BY <1>2, <2>1, <2>2, AddOwnerRouteKeeps
  <2>4. PICK rest \in SUBSET flight, new \in {{}, {Packet("PunchRes", p.to, p.src, 1, p.to, p.from)}} :
            Emit(rest, new)
    BY <1>6 DEF PunchReqArrives, PunchResArrives, Remaining
  <2>5. new \in SUBSET Packets /\ \A q \in new : Travels(q)
    BY <1>2, <2>4, OwnTravels
  <2>6. PacketsGood'
    BY <2>1, <2>4, <2>5, EmitKeeps
  <2> QED BY <1>3, <2>3, <2>6
<1> QED BY <1>4, <1>5, <1>6

\* The second half of add_route_if_absent.
LEMMA MeshAdds ==
    ASSUME MeshInv, NEW n \in Nodes, PingAdds(n)
    PROVE  MeshInv'
<1> USE DEF MeshInv
<1>1. PICK p \in checked[n] :
        /\ add_route(n, p.src, [via |-> p.from, metric |-> metric(p)])
        /\ checked' = [checked EXCEPT ![n] = @ \ {p}]
        /\ Emit(flight, {Pong(p)})
        /\ UNCHANGED resting
  BY DEF PingAdds
<1>2. /\ p \in Packets /\ Travels(p) /\ p.type = "Ping" /\ p.to = n /\ p.dest = n
      /\ p.src \in Nodes /\ p.from \in Nodes /\ p.hops \in Nat /\ p.src # p.to
  BY DEF PacketsGood, Packets, Travels
<1> DEFINE r == [via |-> p.from, metric |-> metric(p)]
<1>3. r \in Routes /\ (is_direct(r) <=> r.via = p.src)
  BY <1>2, SeenFacts DEF Routes, is_direct, Between
<1>4. add_route(n, p.src, r)
  BY <1>1
<1> HIDE DEF r
<1>5. RoutesGood'
  BY <1>2, <1>3, <1>4, AddRouteKeeps
<1>6. Pong(p) \in Packets /\ Travels(Pong(p))
  BY <1>2, OwnTravels DEF Pong
<1>7. flight' \subseteq flight \cup {Pong(p)}
  BY <1>1 DEF Emit
<1>8. PacketsGood'
  BY <1>1, <1>6, <1>7 DEF PacketsGood
<1> QED BY <1>1, <1>5, <1>8 DEF RestingGood, AnswererNeverHoldsBack

LEMMA MeshKeeps == MeshInv /\ [MeshNext]_mesh_vars => MeshInv'
<1>1. SUFFICES ASSUME MeshInv, [MeshNext]_mesh_vars PROVE MeshInv'
  OBVIOUS
<1> USE DEF MeshInv
<1>2. CASE UNCHANGED mesh_vars
  BY <1>1, <1>2 DEF mesh_vars, RoutesGood, PacketsGood, RestingGood, AnswererNeverHoldsBack
<1>3. ASSUME NEW n \in Nodes, BackoffEnds(n) PROVE MeshInv'
  <2>1. PICK m \in resting[n] : resting' = [resting EXCEPT ![n] = @ \ {m}]
    BY <1>3 DEF BackoffEnds
  <2>2. RestingGood'
    BY <1>1, <2>1 DEF RestingGood, AnswererNeverHoldsBack
  <2> QED BY <1>1, <1>3, <2>2 DEF BackoffEnds, RoutesGood, PacketsGood
<1>4. ASSUME NEW p \in flight, Vanishes(p) PROVE MeshInv'
  BY <1>1, <1>4 DEF Vanishes, RoutesGood, PacketsGood, RestingGood, AnswererNeverHoldsBack
<1> HIDE DEF MeshInv
<1> QED BY <1>1, <1>2, <1>3, <1>4, MeshTasks, MeshForwards, MeshPunches, MeshReceives, MeshAdds
        DEF MeshNext

LEMMA MeshInvariant == MeshSpec => []MeshInv
  BY MeshInitial, MeshKeeps, PTL DEF MeshSpec

\* A route is taken for direct exactly when its neighbour is the peer, and no
\* packet outlives its ttl, for any number of clients, links and routes
\* (p2p/inbound.rs, task.rs, punch.rs).
THEOREM MetricsTellHops == MeshSpec => []MetricTellsHops
<1>1. MeshInv => MetricTellsHops
  <2>1. SUFFICES ASSUME MeshInv PROVE MetricTellsHops
    OBVIOUS
  <2>2. \A p \in flight : p.hops <= p.max
    BY <2>1, SeenFacts DEF MeshInv, PacketsGood
  <2> QED BY <2>1, <2>2 DEF MeshInv, RoutesGood, MetricTellsHops
<1> QED BY <1>1, MeshInvariant, PTL

\* The side that is asked has no back-off (should_punch, context/nat.rs).
THEOREM AnswerersNeverHoldBack == MeshSpec => []AnswererNeverHoldsBack
<1>1. MeshInv => AnswererNeverHoldsBack
  BY DEF MeshInv, RestingGood
<1> QED BY <1>1, MeshInvariant, PTL

\* The routes add_route changes are those of its peer, and what it enters.
LEMMA AddRouteEnters ==
    ASSUME RoutesGood, NEW n \in Nodes, NEW id \in Nodes, NEW r, add_route(n, id, r),
           NEW k \in Nodes, NEW m \in Nodes, NEW o \in routes'[k][m] \ routes[k][m]
    PROVE  k = n /\ m = id /\ o = r /\ (is_direct(r) \/ routes[n][id] # {})
  BY DEF add_route, Entered, RoutesGood

\* Probes through others leave no route, but for the race in
\* add_route_if_absent (route_table.rs) between its two lock sections.
THEOREM RelayRoutesTakeARace == MeshSpec => RelayRouteTakesARace
<1> DEFINE NewRelay == \A n, m \in Nodes : \A r \in routes'[n][m] \ routes[n][m] :
                         ~is_direct(r) =>
                             /\ routes[n][m] # {}
                             /\ \E p \in checked[n] : p.src = m /\ p.from = r.via
<1>1. MeshInv /\ [MeshNext]_mesh_vars => [NewRelay]_mesh_vars
  <2>1. SUFFICES ASSUME MeshInv, MeshNext, NEW n \in Nodes, NEW m \in Nodes,
                        NEW r \in routes'[n][m] \ routes[n][m], ~is_direct(r)
                 PROVE  /\ routes[n][m] # {}
                        /\ \E p \in checked[n] : p.src = m /\ p.from = r.via
    OBVIOUS
  <2>2. routes' # routes
    OBVIOUS
  <2>3. ASSUME NEW k \in Nodes, NEW l \in Nodes, route_timeout_task(k, l) PROVE FALSE
    BY <2>1, <2>3 DEF route_timeout_task, MeshInv, RoutesGood
  <2>4. ASSUME NEW p \in flight, PunchReqArrives(p) \/ PunchResArrives(p) PROVE FALSE
    <3>1. add_owner_route(p.to, p.src, p.from) /\ p.to \in Nodes /\ p.src \in Nodes
      BY <2>1, <2>4 DEF PunchReqArrives, PunchResArrives, MeshInv, PacketsGood, Packets
    <3>2. r = [via |-> p.from, metric |-> 1]
      BY <2>1, <3>1 DEF add_owner_route, MeshInv, RoutesGood
    <3> QED BY <2>1, <3>2 DEF is_direct
  <2>5. ASSUME NEW p \in flight, PongArrives(p) PROVE FALSE
    <3>1. /\ add_route(p.to, p.src, [via |-> p.from, metric |-> metric(p)])
          /\ p \in Packets /\ Travels(p) /\ p.type = "Pong" /\ p.to \in Nodes /\ p.src \in Nodes
      BY <2>1, <2>5 DEF PongArrives, MeshInv, PacketsGood, Packets
    <3>2. r = [via |-> p.from, metric |-> metric(p)]
      BY <2>1, <3>1, AddRouteEnters DEF MeshInv
    <3>3. p.hops = 1
      BY <3>1 DEF Travels, Packets
    <3>4. metric(p) = 1
      BY <3>1, <3>3, SeenFacts
    <3> QED BY <2>1, <3>2, <3>4 DEF is_direct
  <2>6. PICK k \in Nodes : PingAdds(k)
    BY <2>1, <2>2, <2>3, <2>4, <2>5
       DEF MeshNext, punch_task, ping_all, relay_probe_task, SendData, BackoffEnds,
           PunchStart1, PunchStart2, Forward, PingArrives, Vanishes
  <2>7. PICK p \in checked[k] : add_route(k, p.src, [via |-> p.from, metric |-> metric(p)])
    BY <2>6 DEF PingAdds
  <2>8. p.src \in Nodes
    BY <2>1, <2>7 DEF MeshInv, PacketsGood, Packets
  <2>9. /\ n = k /\ m = p.src /\ r = [via |-> p.from, metric |-> metric(p)]
        /\ routes[n][m] # {}
    BY <2>1, <2>7, <2>8, AddRouteEnters DEF MeshInv
  <2> QED BY <2>7, <2>9
<1> QED BY <1>1, MeshInvariant, PTL DEF MeshSpec, RelayRouteTakesARace

=============================================================================

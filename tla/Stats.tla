-------------------------------- MODULE Stats --------------------------------
(***************************************************************************)
(* Counters per peer (TrafficStats and PacketLossStats,                    *)
(* vnt-core/src/context/mod.rs), shown with the packet loss of the pings.  *)
(* A task looks for the peer's counter under a read lock, enters one under *)
(* a write lock when there is none, gives the lock up and counts under the *)
(* lock of the counter.  The two kinds of statistics are built alike; here *)
(* the task of ping_all counts what it sent, after it was sent, and the    *)
(* receive loops count the Pongs.  The end of the network clears the map,  *)
(* when the tasks are told to end but may still be in the midst of a step. *)
(***************************************************************************)
EXTENDS Integers, FiniteSets

CONSTANTS
    Peers,      \* peers that are pinged
    Pinger,     \* the task of ping_all
    Loops,      \* receive loops: one for UDP, one per TCP connection
    NoPeer,     \* no peer
    MaxPings    \* bound on the pings sent

ASSUME StatsAssumption ==
    /\ Pinger \notin Loops
    /\ NoPeer \notin Peers
    /\ MaxPings \in Nat

Recorders == Loops \cup {Pinger}

\* At most one counter per recorder and peer is made before the map is cleared,
\* and one after; their names are taken from who made them, for whom and when.
NoCounter == <<NoPeer, NoPeer, 0>>
Counters == Peers \X Recorders \X {0, 1}

VARIABLES
    counters,   \* peer -> the counter entered for it, or NoCounter
    count,      \* counter -> [sent, received]
    work,       \* recorder -> [at, peer, counter]: the record it is making
    pings,      \* pings sent
    pongs,      \* peer -> Pongs the network still has to deliver
    era,        \* 1 once the map was cleared
    outdated,   \* recorders that held a counter when the map was cleared
    recorded,   \* peer -> [sent, received]: records finished since the last
                \*   reset or clear, without those of outdated recorders
    disturbed   \* a counter was reset or taken away, or a Pong came twice

stats_vars == <<counters, count, work, pings, pongs, era, outdated, recorded, disturbed>>

Zero == [sent |-> 0, received |-> 0]
Resting == [at |-> "rest", peer |-> NoPeer, counter |-> NoCounter]
Field(r) == IF r = Pinger THEN "sent" ELSE "received"

StatsInit ==
    /\ counters = [p \in Peers |-> NoCounter]
    /\ count = [k \in Counters |-> Zero]
    /\ work = [r \in Recorders |-> Resting]
    /\ pings = 0
    /\ pongs = [p \in Peers |-> 0]
    /\ era = 0
    /\ outdated = {}
    /\ recorded = [p \in Peers |-> Zero]
    /\ disturbed = FALSE

-----------------------------------------------------------------------------
\* Mistaken variant of SendPing: the next ping is sent before this one is
\* counted.
SendPing_ahead ==
    /\ pings < MaxPings
    /\ pings' = pings + 1
    /\ \E p \in Peers :
        /\ pongs' = [pongs EXCEPT ![p] = @ + 1]
        /\ work' = [work EXCEPT ![Pinger] = [Resting EXCEPT !.at = "begun", !.peer = p]]
    /\ UNCHANGED <<counters, era, outdated, count, recorded, disturbed>>

\* A ping is sent, and counted when send_to has returned.
SendPing ==
    /\ work[Pinger].at = "rest"
    /\ pings < MaxPings
    /\ pings' = pings + 1
    /\ \E p \in Peers :
        /\ pongs' = [pongs EXCEPT ![p] = @ + 1]
        /\ work' = [work EXCEPT ![Pinger] = [Resting EXCEPT !.at = "begun", !.peer = p]]
    /\ UNCHANGED <<counters, era, outdated, count, recorded, disturbed>>

\* A Pong, which may come again (once in a behaviour, as a bound).
PongCounted(r) ==
    /\ r \in Loops
    /\ work[r].at = "rest"
    /\ \E p \in Peers :
        /\ pongs[p] > 0
        /\ \/ pongs' = [pongs EXCEPT ![p] = @ - 1] /\ UNCHANGED disturbed
           \/ ~disturbed /\ disturbed' = TRUE /\ UNCHANGED pongs
        /\ work' = [work EXCEPT ![r] = [Resting EXCEPT !.at = "begun", !.peer = p]]
    /\ UNCHANGED <<counters, era, outdated, count, pings, recorded>>

\* Under the read lock.
LookUp(r) ==
    /\ work[r].at = "begun"
    /\ work' = [work EXCEPT ![r] =
          IF counters[work[r].peer] = NoCounter THEN [@ EXCEPT !.at = "absent"]
          ELSE [@ EXCEPT !.at = "held", !.counter = counters[work[r].peer]]]
    /\ UNCHANGED <<counters, era, outdated, count, pings, pongs, recorded, disturbed>>

\* Mistaken variant of or_insert_with: an entry made meanwhile is replaced.
or_insert_with_always(r) ==
    /\ work[r].at = "absent"
    /\ counters' = [counters EXCEPT ![work[r].peer] = <<work[r].peer, r, era>>]
    /\ work' = [work EXCEPT ![r] = [@ EXCEPT !.at = "held", !.counter = counters'[work[r].peer]]]
    /\ UNCHANGED <<era, outdated, count, pings, pongs, recorded, disturbed>>

\* Under the write lock: an entry made meanwhile is taken as it is.
or_insert_with(r) ==
    /\ work[r].at = "absent"
    /\ counters' = [counters EXCEPT ![work[r].peer] =
                       IF @ = NoCounter THEN <<work[r].peer, r, era>> ELSE @]
    /\ work' = [work EXCEPT ![r] = [@ EXCEPT !.at = "held", !.counter = counters'[work[r].peer]]]
    /\ UNCHANGED <<era, outdated, count, pings, pongs, recorded, disturbed>>

\* record_sent, record_received: under the lock of the counter, which may have
\* left the map.
record(r) ==
    /\ work[r].at = "held"
    /\ count' = [count EXCEPT ![work[r].counter][Field(r)] = @ + 1]
    /\ recorded' = IF r \in outdated THEN recorded
                   ELSE [recorded EXCEPT ![work[r].peer][Field(r)] = @ + 1]
    /\ work' = [work EXCEPT ![r] = Resting]
    /\ outdated' = outdated \ {r}
    /\ UNCHANGED <<counters, pings, pongs, era, disturbed>>

\* reset, and every step of reset_all: the counter starts anew and stays.
reset(p) ==
    /\ counters[p] # NoCounter
    /\ count' = [count EXCEPT ![counters[p]] = Zero]
    /\ recorded' = [recorded EXCEPT ![p] = Zero]
    /\ disturbed' = TRUE
    /\ UNCHANGED <<counters, era, outdated, work, pings, pongs>>

\* stop_network, when the network manager is dropped (once): the tasks were
\* aborted, which takes effect at their next await; until then they go on.
clear ==
    /\ era = 0
    /\ era' = 1
    /\ counters' = [p \in Peers |-> NoCounter]
    /\ outdated' = {r \in Recorders : work[r].at = "held"}
    /\ recorded' = [p \in Peers |-> Zero]
    /\ disturbed' = TRUE
    /\ UNCHANGED <<count, work, pings, pongs>>

PongLost ==
    /\ \E p \in Peers : pongs[p] > 0 /\ pongs' = [pongs EXCEPT ![p] = @ - 1]
    /\ UNCHANGED <<counters, era, outdated, count, work, pings, recorded, disturbed>>

StatsNext ==
    \/ SendPing \/ PongLost \/ clear
    \/ \E r \in Recorders : PongCounted(r) \/ LookUp(r) \/ or_insert_with(r) \/ record(r)
    \/ \E p \in Peers : reset(p)

StatsSpec == StatsInit /\ [][StatsNext]_stats_vars

-----------------------------------------------------------------------------
Shown(p) == IF counters[p] = NoCounter THEN Zero ELSE count[counters[p]]

\* Several tasks that find no counter at the same moment count in the same one,
\* and what is shown is what was recorded since the reset or the clearing.  A
\* record is lost in one way only: the map is cleared between the look-up of
\* the counter and its lock, which costs a task the one record it has in hand.
NothingUncounted == \A p \in Peers : Shown(p) = recorded[p]

\* More Pongs than pings may be shown, which makes the loss rate negative: the
\* Pong may be counted before its ping, but only one ping is ever ahead of its
\* count, unless a reset, the clearing or a repeated Pong came between.
LossInBounds ==
    disturbed \/ \A p \in Peers : Shown(p).received <= Shown(p).sent + 1
=============================================================================

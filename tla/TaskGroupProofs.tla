--------------------------- MODULE TaskGroupProofs ---------------------------
(***************************************************************************)
(* Proofs about TaskGroup for any number of tasks, waiters and stoppers.   *)
(***************************************************************************)
EXTENDS TaskGroup, TLAPS

\* An empty group has no live task and nobody has returned from waiting.
LEMMA InitInvariant == Init => IInv
<1> SUFFICES ASSUME Init
             PROVE  IInv
    OBVIOUS
<1>1. TypeOK
    BY DEF Init, TypeOK, Phases
<1>2. MapHoldsLiveTasks
    BY DEF Init, MapHoldsLiveTasks
<1> QED
    BY <1>1, <1>2 DEF Init, IInv

\* Aborting every task of the map leaves no live one.
LEMMA AbortAll ==
    ASSUME IInv, abort_all, UNCHANGED <<waiter, awaiting>>, dropped' \in BOOLEAN
    PROVE  IInv'
<1>1. \A t \in Tasks : phase'[t] =
         IF t \in tasks THEN "aborted" ELSE phase[t]
    BY DEF abort_all
<1>2. TypeOK'
    BY DEF abort_all, IInv, TypeOK, Phases
<1>3. MapHoldsLiveTasks'
    BY <1>1 DEF abort_all, IInv, MapHoldsLiveTasks
<1> QED
    BY <1>2, <1>3 DEF abort_all, IInv

\* Each step of the group, of a task, of a waiter or of a stopper.
LEMMA NextInvariant == IInv /\ [Next]_vars => IInv'
<1> SUFFICES ASSUME IInv, [Next]_vars
             PROVE  IInv'
    OBVIOUS
<1>1. ASSUME NEW t \in Tasks, spawn(t)
      PROVE  IInv'
    <2>1. TypeOK'
        BY <1>1 DEF spawn, IInv, TypeOK, Phases
    <2>2. MapHoldsLiveTasks'
        BY <1>1 DEF spawn, IInv, TypeOK, MapHoldsLiveTasks
    <2> QED
        BY <1>1, <2>1, <2>2 DEF spawn, IInv
<1>2. ASSUME NEW t \in Tasks, remove_task(t)
      PROVE  IInv'
    <2>1. TypeOK'
        BY <1>2 DEF remove_task, IInv, TypeOK, Phases
    <2>2. \A u \in Tasks : phase'[u] = "live" <=> phase[u] = "live" /\ u # t
        BY <1>2 DEF remove_task, IInv, TypeOK
    <2>3. MapHoldsLiveTasks' /\ (stopped' => tasks' = {}) /\ (stopped => stopped')
        <3>1. CASE dropped
            <4>1. stopped' = stopped /\ tasks' = tasks /\ stopped /\ tasks = {}
                BY <1>2, <3>1 DEF remove_task, IInv
            <4> QED
                BY <2>2, <4>1 DEF IInv, MapHoldsLiveTasks
        <3>2. CASE ~dropped
            BY <1>2, <2>2, <3>2 DEF remove_task, IInv, MapHoldsLiveTasks
        <3> QED
            BY <3>1, <3>2
    <2> QED
        BY <1>2, <2>1, <2>3 DEF remove_task, IInv
<1>3. ASSUME NEW t \in Tasks, notify_waiters(t)
      PROVE  IInv'
    <2>1. TypeOK'
        BY <1>3 DEF notify_waiters, IInv, TypeOK, Phases
    <2>2. MapHoldsLiveTasks'
        BY <1>3 DEF notify_waiters, IInv, TypeOK, MapHoldsLiveTasks
    <2>3. \A w \in Waiters : waiter'[w] = "returned" => waiter[w] = "returned"
        BY <1>3 DEF notify_waiters
    <2> QED
        BY <1>3, <2>1, <2>2, <2>3 DEF notify_waiters, IInv
<1>4. CASE stop
    BY <1>4, AbortAll DEF stop, IInv, TypeOK
<1>5. CASE drop_group
    BY <1>5, AbortAll DEF drop_group
<1>6. ASSUME NEW s \in Stoppers, NEW t \in Tasks, abort_task(s, t)
      PROVE  IInv'
    <2>1. TypeOK'
        BY <1>6 DEF abort_task, IInv, TypeOK, Phases
    <2>2. MapHoldsLiveTasks'
        BY <1>6 DEF abort_task, IInv, TypeOK, MapHoldsLiveTasks
    <2> QED
        BY <1>6, <2>1, <2>2 DEF abort_task, IInv
<1>7. ASSUME NEW s \in Stoppers, aborted_task_joined(s)
      PROVE  IInv'
    BY <1>7 DEF aborted_task_joined, IInv, TypeOK, MapHoldsLiveTasks
<1>8. ASSUME NEW w \in Waiters,
             wait_all_stopped(w) \/ all_tasks_stopped(w) \/ notified(w)
      PROVE  IInv'
    <2>1. TypeOK'
        BY <1>8 DEF wait_all_stopped, all_tasks_stopped, notified, IInv, TypeOK
    <2>2. UNCHANGED <<stopped, tasks, phase, dropped>>
        BY <1>8 DEF wait_all_stopped, all_tasks_stopped, notified
    <2>3. \A v \in Waiters : waiter'[v] = "returned" =>
             waiter[v] = "returned" \/ stopped
        BY <1>8 DEF wait_all_stopped, all_tasks_stopped, notified, IInv, TypeOK
    <2> QED
        BY <2>1, <2>2, <2>3 DEF IInv, MapHoldsLiveTasks
<1>9. CASE UNCHANGED vars
    BY <1>9 DEF vars, IInv, TypeOK, MapHoldsLiveTasks
<1> QED
    BY <1>1, <1>2, <1>3, <1>4, <1>5, <1>6, <1>7, <1>8, <1>9 DEF Next

\* The invariant holds for every group.
THEOREM GroupInvariant == Spec => []IInv
BY InitInvariant, NextInvariant, PTL DEF Spec

\* stop() and is_running go by the map; the map is right.
THEOREM MapIsRight == Spec => []MapHoldsLiveTasks
<1>1. IInv => MapHoldsLiveTasks
    BY DEF IInv
<1> QED
    BY <1>1, GroupInvariant, PTL

\* A stopped group never has an unaborted task again.
THEOREM StoppedForGood == Spec => []StoppedStaysEmpty
<1>1. IInv => StoppedStaysEmpty
    BY DEF IInv, MapHoldsLiveTasks, StoppedStaysEmpty
<1> QED
    BY <1>1, GroupInvariant, PTL

\* Whoever returned from wait_all_stopped sees a stopped group for ever after.
THEOREM WaitersAreRight == Spec => []ReturnedMeansStopped
<1>1. IInv => ReturnedMeansStopped
    BY DEF IInv, MapHoldsLiveTasks, ReturnedMeansStopped
<1> QED
    BY <1>1, GroupInvariant, PTL
=============================================================================

------------------------------ MODULE TaskGroup ------------------------------
(***************************************************************************)
(* The group that every task of a network belongs to                       *)
(* (vnt-core/src/utils/task_control.rs).  The group keeps a map of handles *)
(* and a stopped flag under one lock; a task takes itself out of the map   *)
(* when its future is dropped, which for an aborted task is some time      *)
(* after abort() was called.  An action is one section under the lock, or  *)
(* one step outside it; wait_all_stopped and remove_task have steps on     *)
(* both sides of the lock and are split there.                             *)
(***************************************************************************)
EXTENDS Integers, FiniteSets

CONSTANTS
    Tasks,      \* tasks that may be spawned, each once
    Waiters,    \* callers of wait_all_stopped
    Stoppers,   \* callers of SubTask::stop
    NoTask      \* what a stopper that is not waiting for a task waits for

ASSUME TaskGroupAssumption == NoTask \notin Tasks

VARIABLES
    stopped,    \* TaskGroupState.stopped
    tasks,      \* the keys of TaskGroupState.tasks
    phase,      \* task -> where it is in its life
    waiter,     \* waiter -> where it is in wait_all_stopped
    awaiting,   \* stopper -> the aborted task whose handle it awaits
    dropped     \* the last strong reference to the group is gone

vars == <<stopped, tasks, phase, waiter, awaiting, dropped>>

\* A live task runs; an aborted one has been told to end, though its future
\* is still there; a notifying one has left the map and is about to wake the
\* waiters; a refused one was spawned on a stopped group and never ran.
Phases == {"new", "live", "aborted", "notifying", "done", "refused"}

TypeOK ==
    /\ stopped \in BOOLEAN
    /\ tasks \subseteq Tasks
    /\ phase \in [Tasks -> Phases]
    /\ waiter \in [Waiters -> {"idle", "looking", "checked", "parked", "returned"}]
    /\ awaiting \in [Stoppers -> Tasks \cup {NoTask}]
    /\ dropped \in BOOLEAN

Init ==
    /\ stopped = FALSE
    /\ tasks = {}
    /\ phase = [t \in Tasks |-> "new"]
    /\ waiter = [w \in Waiters |-> "idle"]
    /\ awaiting = [s \in Stoppers |-> NoTask]
    /\ dropped = FALSE

-----------------------------------------------------------------------------
spawn(t) ==
    /\ ~dropped
    /\ phase[t] = "new"
    /\ \/ /\ stopped
          /\ phase' = [phase EXCEPT ![t] = "refused"]
          /\ UNCHANGED tasks
       \/ /\ ~stopped
          /\ phase' = [phase EXCEPT ![t] = "live"]
          /\ tasks' = tasks \cup {t}
    /\ UNCHANGED <<stopped, waiter, awaiting, dropped>>

\* Every handle of the map is aborted; the futures are dropped later.
abort_all ==
    /\ stopped' = TRUE
    /\ tasks' = {}
    /\ phase' = [t \in Tasks |-> IF t \in tasks THEN "aborted" ELSE phase[t]]

stop ==
    /\ ~dropped
    /\ abort_all
    /\ UNCHANGED <<waiter, awaiting, dropped>>

\* The group is dropped when nobody is inside one of its methods.
drop_group ==
    /\ ~dropped
    /\ \A w \in Waiters : waiter[w] \in {"idle", "returned"}
    /\ \A s \in Stoppers : awaiting[s] = NoTask
    /\ \A t \in Tasks : phase[t] # "notifying"
    /\ abort_all
    /\ dropped' = TRUE
    /\ UNCHANGED <<waiter, awaiting>>

\* A task's future is dropped, because it returned or because it was aborted,
\* and its TaskGuard takes it out of the map.  If that empties the map (or
\* the map was empty already) the group is stopped from here on.
remove_task(t) ==
    /\ phase[t] \in {"live", "aborted"}
    /\ \/ /\ dropped
          /\ phase' = [phase EXCEPT ![t] = "done"]
          /\ UNCHANGED <<stopped, tasks>>
       \/ /\ ~dropped
          /\ tasks' = tasks \ {t}
          /\ stopped' = (stopped \/ tasks' = {})
          /\ phase' = [phase EXCEPT ![t] =
                IF tasks' = {} THEN "notifying" ELSE "done"]
    /\ UNCHANGED <<waiter, awaiting, dropped>>

\* Mistaken variant of notify_waiters: nobody is woken.
notify_nobody(t) ==
    /\ phase[t] = "notifying"
    /\ phase' = [phase EXCEPT ![t] = "done"]
    /\ UNCHANGED <<stopped, tasks, waiter, awaiting, dropped>>

\* all_stopped_notify.notify_waiters(), after the lock was released: it wakes
\* those who wait now and leaves nothing behind for those who come later.
notify_waiters(t) ==
    /\ phase[t] = "notifying"
    /\ phase' = [phase EXCEPT ![t] = "done"]
    /\ waiter' = [w \in Waiters |->
          IF waiter[w] = "parked" THEN "looking" ELSE waiter[w]]
    /\ UNCHANGED <<stopped, tasks, awaiting, dropped>>

\* Mistaken variant of abort_task: the handle leaves the map unaborted.
abort_task_forgotten(s, t) ==
    /\ ~dropped
    /\ awaiting[s] = NoTask
    /\ t \in tasks
    /\ tasks' = tasks \ {t}
    /\ awaiting' = [awaiting EXCEPT ![s] = t]
    /\ UNCHANGED <<stopped, phase, waiter, dropped>>

\* SubTask::stop: the handle leaves the map, is aborted and awaited.
abort_task(s, t) ==
    /\ ~dropped
    /\ awaiting[s] = NoTask
    /\ t \in tasks
    /\ tasks' = tasks \ {t}
    /\ phase' = [phase EXCEPT ![t] = "aborted"]
    /\ awaiting' = [awaiting EXCEPT ![s] = t]
    /\ UNCHANGED <<stopped, waiter, dropped>>

aborted_task_joined(s) ==
    /\ awaiting[s] # NoTask
    /\ phase[awaiting[s]] = "done"
    /\ awaiting' = [awaiting EXCEPT ![s] = NoTask]
    /\ UNCHANGED <<stopped, tasks, phase, waiter, dropped>>

wait_all_stopped(w) ==
    /\ ~dropped
    /\ waiter[w] = "idle"
    /\ waiter' = [waiter EXCEPT ![w] = "looking"]
    /\ UNCHANGED <<stopped, tasks, phase, awaiting, dropped>>

\* Mistaken variant: an empty map is taken for a stopped group.
all_tasks_stopped_empty(w) ==
    /\ waiter[w] = "looking"
    /\ waiter' = [waiter EXCEPT ![w] =
          IF tasks = {} THEN "returned" ELSE "checked"]
    /\ UNCHANGED <<stopped, tasks, phase, awaiting, dropped>>

all_tasks_stopped(w) ==
    /\ waiter[w] = "looking"
    /\ waiter' = [waiter EXCEPT ![w] =
          IF stopped /\ tasks = {} THEN "returned" ELSE "checked"]
    /\ UNCHANGED <<stopped, tasks, phase, awaiting, dropped>>

\* notified() is created after the lock of all_tasks_stopped was released.
notified(w) ==
    /\ waiter[w] = "checked"
    /\ waiter' = [waiter EXCEPT ![w] = "parked"]
    /\ UNCHANGED <<stopped, tasks, phase, awaiting, dropped>>

Next ==
    \/ \E t \in Tasks : spawn(t) \/ remove_task(t) \/ notify_waiters(t)
    \/ stop
    \/ drop_group
    \/ \E s \in Stoppers, t \in Tasks : abort_task(s, t)
    \/ \E s \in Stoppers : aborted_task_joined(s)
    \/ \E w \in Waiters : wait_all_stopped(w) \/ all_tasks_stopped(w) \/ notified(w)

Spec == Init /\ [][Next]_vars

\* The runtime drops an aborted future and polls what is ready.  A live task
\* need never end.
Fairness ==
    /\ \A t \in Tasks :
          /\ WF_vars(phase[t] = "aborted" /\ remove_task(t))
          /\ WF_vars(notify_waiters(t))
    /\ \A s \in Stoppers : WF_vars(aborted_task_joined(s))
    /\ \A w \in Waiters : WF_vars(all_tasks_stopped(w)) /\ WF_vars(notified(w))

FairSpec == Spec /\ Fairness

-----------------------------------------------------------------------------
\* The map holds exactly the tasks that run and were not told to end, so that
\* stop() reaches every one of them and is_running tells the truth.
MapHoldsLiveTasks == tasks = {t \in Tasks : phase[t] = "live"}

\* Once a group is stopped no task of it runs on unaborted, and none will:
\* neither spawn, nor a task that ends, nor SubTask::stop brings one back.
StoppedStaysEmpty == stopped => \A t \in Tasks : phase[t] # "live"

\* wait_all_stopped returns only on a stopped group: whoever returned may rely
\* on no task of the group doing anything beyond its next await.
ReturnedMeansStopped ==
    \A w \in Waiters : waiter[w] = "returned" =>
        stopped /\ \A t \in Tasks : phase[t] # "live"

\* The inductive invariant behind the three.
IInv ==
    /\ TypeOK
    /\ MapHoldsLiveTasks
    /\ stopped => tasks = {}
    /\ dropped => stopped
    /\ \A w \in Waiters : waiter[w] = "returned" => stopped

\* A caller that is parked while a stopped group still has an aborted task
\* comes back: the last future to be dropped wakes it. (A caller between
\* all_tasks_stopped and notified() is not covered: nothing wakes it when the
\* last notify_waiters falls into that gap.)
ParkedWaiterReturns ==
    \A w \in Waiters :
        (waiter[w] = "parked" /\ stopped /\ \E t \in Tasks : phase[t] = "aborted")
            ~> waiter[w] = "returned"

\* SubTask::stop returns: the task it aborted ends, whether or not the group
\* is stopped under it.
StopperReturns ==
    \A s \in Stoppers : awaiting[s] # NoTask ~> awaiting[s] = NoTask
=============================================================================

----------------------------- MODULE WebService -----------------------------
(***************************************************************************)
(* Starting, stopping and restarting the network from the web interface    *)
(* (vnt-web/src/service_http.rs).  Requests are served concurrently; a     *)
(* start goes on in a task of its own after the request was answered.  The *)
(* service shares a status, the handle of the network and the one slot of  *)
(* TaskGroupManager (vnt-core/src/utils/task_control.rs), each behind a    *)
(* lock of its own; an action is one section under one of the locks.       *)
(*                                                                         *)
(* Clean-up is left to three scope guards that a start creates on its way: *)
(*   error    on_error_guard, runs starting_to_stopped                     *)
(*   group    task_group_guard, empties the slot and stops the group       *)
(*   cleanup  vnt_cleanup_guard, runs stopped                              *)
(* A start that fails drops the guards it has in the order in which Rust   *)
(* drops locals and parameters; one that succeeds moves group and cleanup  *)
(* into the waiter task, which drops them when the group is stopped.       *)
(***************************************************************************)
EXTENDS Integers, FiniteSets

CONSTANTS
    Requests,   \* API calls (and the automatic start), each served once
    NoRequest   \* an empty slot, no network handle

ASSUME WebServiceAssumption == NoRequest \notin Requests

VARIABLES
    status,     \* HttpAppStateInner.status
    vnt,        \* HttpAppStateInner.vnt: the start whose network it is
    slot,       \* TaskGroupManager.task_group: the start whose group it is
    group,      \* start -> its task group
    pc,         \* request -> where its handler or start task is
    waiter,     \* start -> the task that waits for its network to stop
    held        \* start -> the scope guards that have not run yet

vars == <<status, vnt, slot, group, pc, waiter, held>>

Statuses == {"Stopped", "Starting", "Running"}

Places == {"new", "stopping", "restart_stopping", "polling", "starting",
           "reading", "creating", "inserting", "registering", "registered",
           "spawning", "refused", "recording",
           "failing", "logging", "erring", "done"}

TypeOK ==
    /\ status \in Statuses
    /\ vnt \in Requests \cup {NoRequest}
    /\ slot \in Requests \cup {NoRequest}
    /\ group \in [Requests -> {"none", "open", "stopped"}]
    /\ pc \in [Requests -> Places]
    /\ waiter \in [Requests -> {"none", "waiting", "ending", "cleaning", "ended"}]
    /\ held \in [Requests -> SUBSET {"error", "group", "cleanup"}]

Init ==
    /\ status = "Stopped"
    /\ vnt = NoRequest
    /\ slot = NoRequest
    /\ group = [r \in Requests |-> "none"]
    /\ pc = [r \in Requests |-> "new"]
    /\ waiter = [r \in Requests |-> "none"]
    /\ held = [r \in Requests |-> {}]

Goto(r, place) == pc' = [pc EXCEPT ![r] = place]
Arm(r, guard) == held' = [held EXCEPT ![r] = @ \cup {guard}]
Disarm(r, guard) == held' = [held EXCEPT ![r] = @ \ {guard}]

-----------------------------------------------------------------------------
(* The sections on the shared state.                                       *)

\* HttpAppState::stopped
stopped ==
    /\ vnt' = NoRequest
    /\ status' = "Stopped"

\* Mistaken variant of starting_to_stopped: it leaves everything as it is.
starting_to_stopped_never == UNCHANGED <<vnt, status>>

\* HttpAppState::starting_to_stopped
starting_to_stopped ==
    IF status = "Starting" THEN stopped ELSE UNCHANGED <<vnt, status>>

\* Mistaken variant of TaskGroupGuard::drop: the group runs on.
take_group_running ==
    /\ slot' = NoRequest
    /\ UNCHANGED group

\* TaskGroupGuard::drop, and with it TaskGroup::stop
take_group ==
    /\ slot' = NoRequest
    /\ group' = [r \in Requests |-> IF r = slot THEN "stopped" ELSE group[r]]

\* TaskGroupManager::stop
stop_group ==
    /\ group' = [r \in Requests |-> IF r = slot THEN "stopped" ELSE group[r]]
    /\ UNCHANGED slot

-----------------------------------------------------------------------------
(* Requests.                                                               *)

StartRequested(r) ==
    /\ pc[r] = "new"
    /\ Goto(r, "starting")
    /\ UNCHANGED <<status, vnt, slot, group, waiter, held>>

StopRequested(r) ==
    /\ pc[r] = "new"
    /\ Goto(r, IF status = "Stopped" THEN "done" ELSE "stopping")
    /\ UNCHANGED <<status, vnt, slot, group, waiter, held>>

RestartRequested(r) ==
    /\ pc[r] = "new"
    /\ Goto(r, IF status = "Stopped" THEN "starting" ELSE "restart_stopping")
    /\ UNCHANGED <<status, vnt, slot, group, waiter, held>>

StopsGroup(r) ==
    /\ pc[r] \in {"stopping", "restart_stopping"}
    /\ stop_group
    /\ Goto(r, IF pc[r] = "stopping" THEN "done" ELSE "polling")
    /\ UNCHANGED <<status, vnt, waiter, held>>

\* A restart looks every 100 ms whether the status is Stopped.
SeesStopped(r) ==
    /\ pc[r] = "polling"
    /\ status = "Stopped"
    /\ Goto(r, "starting")
    /\ UNCHANGED <<status, vnt, slot, group, waiter, held>>

\* ... and after 50 looks starts all the same.
GivesUpPolling(r) ==
    /\ pc[r] = "polling"
    /\ status # "Stopped"
    /\ Goto(r, "starting")
    /\ UNCHANGED <<status, vnt, slot, group, waiter, held>>

-----------------------------------------------------------------------------
(* start_vnt_internal and start_vnt_network.                               *)

\* HttpAppState::starting
starting(r) ==
    /\ pc[r] = "starting"
    /\ \/ /\ status # "Stopped" \/ vnt # NoRequest
          /\ Goto(r, "done")
          /\ UNCHANGED <<status, held>>
       \/ /\ status = "Stopped" /\ vnt = NoRequest
          /\ status' = "Starting"
          /\ Arm(r, "error")
          /\ Goto(r, "reading")
    /\ UNCHANGED <<vnt, slot, group, waiter>>

\* The configuration cannot be read, parsed or converted.
ConfigFails(r) ==
    /\ pc[r] = "reading"
    /\ Goto(r, "erring")
    /\ UNCHANGED <<status, vnt, slot, group, waiter, held>>

\* Mistaken variant of create_task: the slot is overwritten.
create_task_anyway(r) ==
    /\ pc[r] = "reading"
    /\ slot' = r
    /\ group' = [group EXCEPT ![r] = "open"]
    /\ Arm(r, "group")
    /\ Goto(r, "creating")
    /\ UNCHANGED <<status, vnt, waiter>>

\* TaskGroupManager::create_task, which refuses while the slot is taken.
create_task(r) ==
    /\ pc[r] = "reading"
    /\ \/ /\ slot # NoRequest
          /\ Goto(r, "erring")
          /\ UNCHANGED <<slot, group, held>>
       \/ /\ slot = NoRequest
          /\ slot' = r
          /\ group' = [group EXCEPT ![r] = "open"]
          /\ Arm(r, "group")
          /\ Goto(r, "creating")
    /\ UNCHANGED <<status, vnt, waiter>>

create_network(r) ==
    /\ pc[r] = "creating"
    /\ \E place \in {"inserting", "failing"} : Goto(r, place)
    /\ UNCHANGED <<status, vnt, slot, group, waiter, held>>

insert_vnt(r) ==
    /\ pc[r] = "inserting"
    /\ \/ /\ vnt # NoRequest
          /\ Goto(r, "failing")
          /\ UNCHANGED <<vnt, held>>
       \/ /\ vnt = NoRequest
          /\ vnt' = r
          /\ Arm(r, "cleanup")
          /\ Goto(r, "registering")
    /\ UNCHANGED <<status, slot, group, waiter>>

\* Registration with the servers, the virtual network card and its address:
\* each may fail, all of them after at most a few timeouts.
register(r) ==
    /\ pc[r] = "registering"
    /\ \E place \in {"registered", "failing"} : Goto(r, place)
    /\ UNCHANGED <<status, vnt, slot, group, waiter, held>>

starting_to_running(r) ==
    /\ pc[r] = "registered"
    /\ status' = IF status = "Starting" THEN "Running" ELSE status
    /\ Goto(r, "spawning")
    /\ UNCHANGED <<vnt, slot, group, waiter, held>>

\* The waiter joins the group, or is dropped at once by a stopped group.
spawn_waiter(r) ==
    /\ pc[r] = "spawning"
    /\ \/ /\ group[r] = "open"
          /\ waiter' = [waiter EXCEPT ![r] = "waiting"]
          /\ Goto(r, "recording")
       \/ /\ group[r] = "stopped"
          /\ waiter' = [waiter EXCEPT ![r] = "ending"]
          /\ Goto(r, "refused")
    /\ UNCHANGED <<status, vnt, slot, group, held>>

waiter_dropped(r) ==
    /\ pc[r] = "refused"
    /\ waiter[r] = "ended"
    /\ Goto(r, "recording")
    /\ UNCHANGED <<status, vnt, slot, group, waiter, held>>

\* The name of the configuration is written to a file.
record_config(r) ==
    /\ pc[r] = "recording"
    /\ Goto(r, "erring")
    /\ UNCHANGED <<status, vnt, slot, group, waiter, held>>

\* start_vnt_network returns an error: vnt_cleanup_guard, a local, is dropped
\* before task_group_guard, a parameter.
fail_cleanup(r) ==
    /\ pc[r] = "failing"
    /\ "cleanup" \in held[r]
    /\ stopped
    /\ Disarm(r, "cleanup")
    /\ UNCHANGED <<slot, group, pc, waiter>>

fail_group(r) ==
    /\ pc[r] = "failing"
    /\ "cleanup" \notin held[r]
    /\ take_group
    /\ Disarm(r, "group")
    /\ Goto(r, "logging")
    /\ UNCHANGED <<status, vnt, waiter>>

record_log_and_stopped(r) ==
    /\ pc[r] = "logging"
    /\ status' = IF status = "Starting" THEN "Stopped" ELSE status
    /\ Goto(r, "erring")
    /\ UNCHANGED <<vnt, slot, group, waiter, held>>

\* The start is over, one way or the other, and on_error_guard is dropped.
drop_error_guard(r) ==
    /\ pc[r] = "erring"
    /\ starting_to_stopped
    /\ Disarm(r, "error")
    /\ Goto(r, "done")
    /\ UNCHANGED <<slot, group, waiter>>

-----------------------------------------------------------------------------
(* The waiter task, and the network.                                       *)

\* Mistaken variant of WaiterEnds: the guards of a refused waiter are forgotten.
WaiterEnds_joined(r) ==
    /\ waiter[r] = "waiting" /\ group[r] = "stopped"
    /\ take_group
    /\ Disarm(r, "group")
    /\ waiter' = [waiter EXCEPT ![r] = "cleaning"]
    /\ UNCHANGED <<status, vnt, pc>>

\* A stopped group drops the waiter, and it drops task_group_guard first.
WaiterEnds(r) ==
    /\ waiter[r] = "ending" \/ (waiter[r] = "waiting" /\ group[r] = "stopped")
    /\ take_group
    /\ Disarm(r, "group")
    /\ waiter' = [waiter EXCEPT ![r] = "cleaning"]
    /\ UNCHANGED <<status, vnt, pc>>

WaiterCleans(r) ==
    /\ waiter[r] = "cleaning"
    /\ stopped
    /\ Disarm(r, "cleanup")
    /\ waiter' = [waiter EXCEPT ![r] = "ended"]
    /\ UNCHANGED <<slot, group, pc>>

\* A server refuses to register the network again after a reconnection: its
\* connection task stops the group.
ServerRefuses(r) ==
    /\ group[r] = "open"
    /\ pc[r] \in {"registered", "spawning"} \/ waiter[r] = "waiting"
    /\ group' = [group EXCEPT ![r] = "stopped"]
    /\ UNCHANGED <<status, vnt, slot, pc, waiter, held>>

StartStep(r) ==
    \/ starting(r) \/ ConfigFails(r) \/ create_task(r) \/ create_network(r)
    \/ insert_vnt(r) \/ register(r) \/ starting_to_running(r)
    \/ spawn_waiter(r) \/ waiter_dropped(r) \/ record_config(r)
    \/ fail_cleanup(r) \/ fail_group(r) \/ record_log_and_stopped(r)
    \/ drop_error_guard(r)

RequestStep(r) == StopsGroup(r) \/ SeesStopped(r) \/ GivesUpPolling(r)

WaiterStep(r) == WaiterEnds(r) \/ WaiterCleans(r)

Next ==
    \E r \in Requests :
        \/ StartRequested(r) \/ StopRequested(r) \/ RestartRequested(r)
        \/ RequestStep(r) \/ StartStep(r) \/ WaiterStep(r)
        \/ ServerRefuses(r)

Spec == Init /\ [][Next]_vars

\* Handlers and tasks that have begun go on: what they await (files, timed
\* connection attempts, a bounded number of looks) comes to an end. Nothing
\* makes a request arrive or a server refuse.
Fairness ==
    \A r \in Requests :
        WF_vars(RequestStep(r)) /\ WF_vars(StartStep(r)) /\ WF_vars(WaiterStep(r))

FairSpec == Spec /\ Fairness

-----------------------------------------------------------------------------
(* Properties.                                                             *)

\* The slot belongs to the start whose group guard has not run: a guard never
\* takes the group of a later start out of it.
GuardOwnsSlot == \A r \in Requests : "group" \in held[r] <=> slot = r

\* At most one network runs, however starts, stops, failures and late guards
\* are interleaved, and stop requests reach it: it is the slot's.
OneNetwork == \A r \in Requests : group[r] = "open" => slot = r

\* The network handle has a guard that will clear it, so that one day a new
\* start is not refused for it.
HandleHasGuard == \A r \in Requests : vnt = r => "cleanup" \in held[r]

\* When no request is in progress and no network runs, nothing is left over
\* that would refuse the next start.
Quiet == \A r \in Requests :
            pc[r] \in {"new", "done"} /\ waiter[r] \in {"none", "ended"}

NothingLeftBehind ==
    Quiet => status = "Stopped" /\ vnt = NoRequest /\ slot = NoRequest

\* The inductive invariant: which guards a request holds at which place, and
\* who will take back a status other than Stopped.
GroupPlaces ==
    {"creating", "inserting", "registering", "registered", "spawning", "failing"}

GuardsFollow(r) ==
    /\ "group" \in held[r] <=>
          pc[r] \in GroupPlaces \/ waiter[r] \in {"waiting", "ending"}
    /\ pc[r] \in {"registering", "registered", "spawning"} => "cleanup" \in held[r]
    /\ "cleanup" \in held[r] =>
          \/ pc[r] \in {"registering", "registered", "spawning", "failing"}
          \/ waiter[r] \in {"waiting", "ending", "cleaning"}
    /\ "error" \in held[r] =>
          pc[r] \in GroupPlaces \cup {"reading", "refused", "recording",
                                    "logging", "erring"}
    /\ waiter[r] # "none" => pc[r] \in {"refused", "recording", "erring", "done"}

StatusHasGuard ==
    /\ status = "Starting" => \E r \in Requests : "error" \in held[r]
    /\ status = "Running" => \E r \in Requests : "cleanup" \in held[r]

IInv ==
    /\ TypeOK
    /\ GuardOwnsSlot
    /\ OneNetwork
    /\ HandleHasGuard
    /\ \A r \in Requests : GuardsFollow(r)
    /\ StatusHasGuard

\* The slot of a stopped group becomes free for the next start.
StoppedGroupLeavesSlot ==
    \A r \in Requests : (group[r] = "stopped") ~> (slot # r)

\* "Stop first (if running, stop; otherwise ignore)" and "wait for the stop to
\* finish" (service_http.rs:670, 673): when a restart finds the status Stopped
\* and goes on to start, no started network is running.
RestartStopsFirst ==
    [][\A r \in Requests :
          SeesStopped(r) \/ (RestartRequested(r) /\ pc'[r] = "starting") =>
          ~ \E q \in Requests : waiter[q] = "waiting" /\ group[q] = "open"]_vars
=============================================================================

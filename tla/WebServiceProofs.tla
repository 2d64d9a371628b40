-------------------------- MODULE WebServiceProofs --------------------------
(***************************************************************************)
(* Proofs about WebService for any number of requests.                     *)
(***************************************************************************)
EXTENDS WebService, TLAPS

\* A service that has just started holds nothing.
LEMMA InitInvariant == Init => IInv
<1> SUFFICES ASSUME Init
             PROVE  IInv
    OBVIOUS
<1>1. TypeOK
    BY DEF Init, TypeOK, Statuses, Places
<1>2. GuardOwnsSlot /\ OneNetwork /\ HandleHasGuard /\ StatusHasGuard
    BY WebServiceAssumption
       DEF Init, GuardOwnsSlot, OneNetwork, HandleHasGuard, StatusHasGuard
<1>3. \A r \in Requests : GuardsFollow(r)
    BY DEF Init, GuardsFollow, GroupPlaces
<1> QED
    BY <1>1, <1>2, <1>3 DEF IInv

\* What one request does leaves the places and guards of the others alone.
LEMMA OneRequestMoves ==
    ASSUME IInv, NEW r \in Requests, TypeOK',
           \A q \in Requests \ {r} :
              pc'[q] = pc[q] /\ waiter'[q] = waiter[q] /\ held'[q] = held[q],
           GuardsFollow(r)', GuardOwnsSlot', OneNetwork', HandleHasGuard',
           StatusHasGuard'
    PROVE  IInv'
<1>1. \A q \in Requests \ {r} : GuardsFollow(q)'
    BY DEF IInv, GuardsFollow
<1> QED
    BY <1>1 DEF IInv

\* A step that only moves a request from place to place.
LEMMA OnlyPlaceMoves ==
    ASSUME IInv, NEW r \in Requests,
           UNCHANGED <<status, vnt, slot, group, held>>,
           NEW place \in Places,
           NEW end \in {"none", "waiting", "ending", "cleaning", "ended"},
           pc' = [pc EXCEPT ![r] = place],
           waiter' = [waiter EXCEPT ![r] = end],
           GuardsFollow(r)'
    PROVE  IInv'
<1>1. TypeOK'
    BY DEF IInv, TypeOK
<1>2. GuardOwnsSlot' /\ OneNetwork' /\ HandleHasGuard' /\ StatusHasGuard'
    BY DEF IInv, GuardOwnsSlot, OneNetwork, HandleHasGuard, StatusHasGuard
<1>3. \A q \in Requests \ {r} :
         pc'[q] = pc[q] /\ waiter'[q] = waiter[q] /\ held'[q] = held[q]
    BY DEF IInv, TypeOK
<1> QED
    BY <1>1, <1>2, <1>3, OneRequestMoves

\* The places a request or a start passes through without touching more.
LEMMA PlaceSteps ==
    ASSUME IInv, NEW r \in Requests,
           \/ StartRequested(r) \/ StopRequested(r) \/ RestartRequested(r)
           \/ SeesStopped(r) \/ GivesUpPolling(r) \/ ConfigFails(r)
           \/ create_network(r) \/ register(r) \/ spawn_waiter(r)
           \/ waiter_dropped(r) \/ record_config(r)
    PROVE  IInv'
<1>1. PICK place \in Places, end \in {"none", "waiting", "ending", "cleaning", "ended"} :
         /\ pc' = [pc EXCEPT ![r] = place]
         /\ waiter' = [waiter EXCEPT ![r] = end]
         /\ \/ end = waiter[r] /\ pc[r] \notin GroupPlaces /\ place \notin GroupPlaces
               /\ (waiter[r] # "none" => place \in {"recording", "erring"})
               /\ ("error" \in held[r] => place \in {"erring", "recording"})
            \/ end = waiter[r] /\ pc[r] = "creating" /\ place \in {"inserting", "failing"}
            \/ end = waiter[r] /\ pc[r] = "registering"
                  /\ place \in {"registered", "failing"}
            \/ pc[r] = "spawning" /\ end = "waiting" /\ place = "recording"
            \/ pc[r] = "spawning" /\ end = "ending" /\ place = "refused"
    <2>1. waiter = [waiter EXCEPT ![r] = waiter[r]]
          /\ waiter[r] \in {"none", "waiting", "ending", "cleaning", "ended"}
        BY DEF IInv, TypeOK
    <2>2. GuardsFollow(r)
        BY DEF IInv
    <2>3. CASE StartRequested(r) \/ StopRequested(r) \/ RestartRequested(r)
        BY <2>1, <2>2, <2>3 DEF StartRequested, StopRequested, RestartRequested,
           Goto, Places, GroupPlaces, GuardsFollow
    <2>4. CASE SeesStopped(r) \/ GivesUpPolling(r)
        BY <2>1, <2>2, <2>4 DEF SeesStopped, GivesUpPolling,
           Goto, Places, GroupPlaces, GuardsFollow
    <2>5. CASE ConfigFails(r) \/ waiter_dropped(r) \/ record_config(r)
        BY <2>1, <2>2, <2>5 DEF ConfigFails, waiter_dropped, record_config,
           Goto, Places, GroupPlaces, GuardsFollow
    <2>6. CASE create_network(r) \/ register(r)
        BY <2>1, <2>2, <2>6 DEF create_network, register,
           Goto, Places, GroupPlaces, GuardsFollow
    <2>7. CASE spawn_waiter(r)
        BY <2>1, <2>2, <2>7 DEF spawn_waiter, Goto, Places, GroupPlaces, GuardsFollow
    <2> QED
        BY <2>3, <2>4, <2>5, <2>6, <2>7
<1>2. UNCHANGED <<status, vnt, slot, group, held>>
    BY DEF StartRequested, StopRequested, RestartRequested, SeesStopped,
           GivesUpPolling, ConfigFails, create_network, register, spawn_waiter,
           waiter_dropped, record_config
<1>3. GuardsFollow(r)'
    <2>1. pc'[r] = place /\ waiter'[r] = end /\ held'[r] = held[r]
        BY <1>1, <1>2 DEF IInv, TypeOK
    <2>2. GuardsFollow(r)
        BY DEF IInv
    <2> QED
        BY <1>1, <2>1, <2>2 DEF GuardsFollow, GroupPlaces
<1> QED
    BY <1>1, <1>2, <1>3, OnlyPlaceMoves

\* TaskGroup::stop, asked for by a request or by a refused registration.
LEMMA GroupStops ==
    ASSUME IInv, NEW r \in Requests, StopsGroup(r) \/ ServerRefuses(r)
    PROVE  IInv'
<1>1. GuardsFollow(r)
    BY DEF IInv
<1>2. PICK place \in Places : pc' = [pc EXCEPT ![r] = place]
         /\ (place = pc[r] \/ (pc[r] \in {"stopping", "restart_stopping"}
                               /\ place \in {"done", "polling"}))
    <2>1. CASE StopsGroup(r)
        BY <2>1 DEF StopsGroup, Goto, Places
    <2>2. CASE ServerRefuses(r)
        <3>1. pc' = [pc EXCEPT ![r] = pc[r]] /\ pc[r] \in Places
            BY <2>2 DEF ServerRefuses, IInv, TypeOK
        <3> QED
            BY <3>1
    <2> QED
        BY <2>1, <2>2
<1>3. /\ UNCHANGED <<status, vnt, slot, waiter, held>>
      /\ group' \in [Requests -> {"none", "open", "stopped"}]
      /\ \A q \in Requests : group'[q] = "open" => group[q] = "open"
    BY DEF StopsGroup, stop_group, ServerRefuses, IInv, TypeOK
<1>4. TypeOK'
    BY <1>2, <1>3 DEF IInv, TypeOK
<1>5. GuardsFollow(r)'
    BY <1>1, <1>2, <1>3 DEF GuardsFollow, GroupPlaces, IInv, TypeOK
<1>6. GuardOwnsSlot' /\ OneNetwork' /\ HandleHasGuard' /\ StatusHasGuard'
    BY <1>3 DEF IInv, GuardOwnsSlot, OneNetwork, HandleHasGuard, StatusHasGuard
<1>7. \A q \in Requests \ {r} :
         pc'[q] = pc[q] /\ waiter'[q] = waiter[q] /\ held'[q] = held[q]
    BY <1>2, <1>3 DEF IInv, TypeOK
<1> QED
    BY <1>4, <1>5, <1>6, <1>7, OneRequestMoves

\* HttpAppState::starting: the status is Starting while on_error_guard lives.
LEMMA StartingKeeps ==
    ASSUME IInv, NEW r \in Requests, starting(r)
    PROVE  IInv'
<1>1. GuardsFollow(r)
    BY DEF IInv
<1>2. TypeOK'
    BY DEF starting, Goto, Arm, IInv, TypeOK, Statuses, Places
<1>3. GuardsFollow(r)'
    BY <1>1 DEF starting, Goto, Arm, GuardsFollow, GroupPlaces, IInv, TypeOK
<1>4. GuardOwnsSlot' /\ OneNetwork' /\ HandleHasGuard' /\ StatusHasGuard'
    BY DEF starting, Goto, Arm, IInv, TypeOK,
           GuardOwnsSlot, OneNetwork, HandleHasGuard, StatusHasGuard
<1>5. \A q \in Requests \ {r} :
         pc'[q] = pc[q] /\ waiter'[q] = waiter[q] /\ held'[q] = held[q]
    BY DEF starting, Goto, Arm, IInv, TypeOK
<1> QED
    BY <1>2, <1>3, <1>4, <1>5, OneRequestMoves

\* create_task fills an empty slot: nobody holds a group guard at that moment.
LEMMA CreateTaskKeeps ==
    ASSUME IInv, NEW r \in Requests, create_task(r)
    PROVE  IInv'
<1>1. GuardsFollow(r)
    BY DEF IInv
<1>2. TypeOK'
    BY DEF create_task, Goto, Arm, IInv, TypeOK, Places
<1>3. GuardsFollow(r)'
    BY <1>1 DEF create_task, Goto, Arm, GuardsFollow, GroupPlaces, IInv, TypeOK
<1>4. GuardOwnsSlot' /\ OneNetwork'
    BY WebServiceAssumption
       DEF create_task, Goto, Arm, IInv, TypeOK, GuardOwnsSlot, OneNetwork
<1>5. HandleHasGuard' /\ StatusHasGuard'
    BY DEF create_task, Goto, Arm, IInv, TypeOK, HandleHasGuard, StatusHasGuard
<1>6. \A q \in Requests \ {r} :
         pc'[q] = pc[q] /\ waiter'[q] = waiter[q] /\ held'[q] = held[q]
    BY DEF create_task, Goto, Arm, IInv, TypeOK
<1> QED
    BY <1>2, <1>3, <1>4, <1>5, <1>6, OneRequestMoves

\* The handle goes in together with the guard that clears it.
LEMMA InsertKeeps ==
    ASSUME IInv, NEW r \in Requests, insert_vnt(r)
    PROVE  IInv'
<1>1. GuardsFollow(r)
    BY DEF IInv
<1>2. TypeOK'
    BY DEF insert_vnt, Goto, Arm, IInv, TypeOK, Places
<1>3. GuardsFollow(r)'
    BY <1>1 DEF insert_vnt, Goto, Arm, GuardsFollow, GroupPlaces, IInv, TypeOK
<1>4. GuardOwnsSlot' /\ OneNetwork' /\ HandleHasGuard' /\ StatusHasGuard'
    BY DEF insert_vnt, Goto, Arm, IInv, TypeOK,
           GuardOwnsSlot, OneNetwork, HandleHasGuard, StatusHasGuard
<1>5. \A q \in Requests \ {r} :
         pc'[q] = pc[q] /\ waiter'[q] = waiter[q] /\ held'[q] = held[q]
    BY DEF insert_vnt, Goto, Arm, IInv, TypeOK
<1> QED
    BY <1>2, <1>3, <1>4, <1>5, OneRequestMoves

\* Only the status and the place of a start change.
LEMMA StatusSteps ==
    ASSUME IInv, NEW r \in Requests,
           starting_to_running(r) \/ record_log_and_stopped(r)
    PROVE  IInv'
<1>1. GuardsFollow(r)
    BY DEF IInv
<1>2. UNCHANGED <<vnt, slot, group, waiter, held>>
    BY DEF starting_to_running, record_log_and_stopped
<1>3. TypeOK'
    BY DEF starting_to_running, record_log_and_stopped, Goto, IInv, TypeOK,
           Statuses, Places
<1>4. GuardsFollow(r)'
    BY <1>1 DEF starting_to_running, record_log_and_stopped, Goto, GuardsFollow,
                GroupPlaces, IInv, TypeOK
<1>5. GuardOwnsSlot' /\ OneNetwork' /\ HandleHasGuard'
    BY <1>2 DEF IInv, GuardOwnsSlot, OneNetwork, HandleHasGuard
<1>6. StatusHasGuard'
    BY <1>1 DEF starting_to_running, record_log_and_stopped, IInv, GuardsFollow,
                StatusHasGuard
<1>7. \A q \in Requests \ {r} :
         pc'[q] = pc[q] /\ waiter'[q] = waiter[q] /\ held'[q] = held[q]
    BY DEF starting_to_running, record_log_and_stopped, Goto, IInv, TypeOK
<1> QED
    BY <1>3, <1>4, <1>5, <1>6, <1>7, OneRequestMoves

\* The group guard of r runs: by GuardOwnsSlot the slot is r's.
LEMMA TakeGroupSteps ==
    ASSUME IInv, NEW r \in Requests, fail_group(r) \/ WaiterEnds(r)
    PROVE  IInv'
<1>1. GuardsFollow(r)
    BY DEF IInv
<1>2. slot = r
    BY <1>1 DEF fail_group, WaiterEnds, GuardsFollow, GroupPlaces, IInv, GuardOwnsSlot
<1>3. /\ slot' = NoRequest
      /\ group' = [q \in Requests |-> IF q = slot THEN "stopped" ELSE group[q]]
      /\ held' = [held EXCEPT ![r] = @ \ {"group"}]
      /\ UNCHANGED <<status, vnt>>
    BY DEF fail_group, WaiterEnds, take_group, Disarm
<1>4. TypeOK'
    BY <1>3 DEF fail_group, WaiterEnds, Goto, IInv, TypeOK, Places
<1>5. GuardsFollow(r)'
    <2>1. CASE fail_group(r)
        BY <1>1, <1>3, <2>1 DEF fail_group, Goto, GuardsFollow, GroupPlaces, IInv, TypeOK
    <2>2. CASE WaiterEnds(r)
        BY <1>1, <1>3, <2>2 DEF WaiterEnds, GuardsFollow, GroupPlaces, IInv, TypeOK
    <2> QED
        BY <2>1, <2>2
<1>6. GuardOwnsSlot' /\ OneNetwork'
    BY <1>2, <1>3, WebServiceAssumption DEF IInv, TypeOK, GuardOwnsSlot, OneNetwork
<1>7. HandleHasGuard' /\ StatusHasGuard'
    BY <1>3 DEF IInv, TypeOK, HandleHasGuard, StatusHasGuard
<1>8. \A q \in Requests \ {r} :
         pc'[q] = pc[q] /\ waiter'[q] = waiter[q] /\ held'[q] = held[q]
    BY <1>3 DEF fail_group, WaiterEnds, Goto, IInv, TypeOK
<1> QED
    BY <1>4, <1>5, <1>6, <1>7, <1>8, OneRequestMoves

\* HttpAppState::stopped, by the cleanup guard of r.
LEMMA CleanupSteps ==
    ASSUME IInv, NEW r \in Requests, fail_cleanup(r) \/ WaiterCleans(r)
    PROVE  IInv'
<1>1. GuardsFollow(r)
    BY DEF IInv
<1>2. /\ status' = "Stopped" /\ vnt' = NoRequest
      /\ held' = [held EXCEPT ![r] = @ \ {"cleanup"}]
      /\ UNCHANGED <<slot, group, pc>>
    BY DEF fail_cleanup, WaiterCleans, stopped, Disarm
<1>3. TypeOK'
    BY <1>2 DEF fail_cleanup, WaiterCleans, IInv, TypeOK, Statuses
<1>4. GuardsFollow(r)'
    BY <1>1, <1>2 DEF fail_cleanup, WaiterCleans, GuardsFollow, GroupPlaces, IInv, TypeOK
<1>5. GuardOwnsSlot' /\ OneNetwork' /\ HandleHasGuard' /\ StatusHasGuard'
    BY <1>2, WebServiceAssumption
       DEF IInv, TypeOK, GuardOwnsSlot, OneNetwork, HandleHasGuard, StatusHasGuard
<1>6. \A q \in Requests \ {r} :
         pc'[q] = pc[q] /\ waiter'[q] = waiter[q] /\ held'[q] = held[q]
    BY <1>2 DEF fail_cleanup, WaiterCleans, IInv, TypeOK
<1> QED
    BY <1>3, <1>4, <1>5, <1>6, OneRequestMoves

\* on_error_guard: whoever was starting, the status is not Starting after it.
LEMMA ErrorGuardKeeps ==
    ASSUME IInv, NEW r \in Requests, drop_error_guard(r)
    PROVE  IInv'
<1>1. GuardsFollow(r)
    BY DEF IInv
<1>2. /\ status' \in {"Stopped", status} /\ status' # "Starting"
      /\ vnt' \in {vnt, NoRequest}
      /\ held' = [held EXCEPT ![r] = @ \ {"error"}]
      /\ pc' = [pc EXCEPT ![r] = "done"] /\ pc[r] = "erring"
      /\ UNCHANGED <<slot, group, waiter>>
    BY DEF drop_error_guard, starting_to_stopped, stopped, Disarm, Goto
<1>3. TypeOK'
    BY <1>2 DEF IInv, TypeOK, Statuses, Places
<1>4. GuardsFollow(r)'
    BY <1>1, <1>2 DEF GuardsFollow, GroupPlaces, IInv, TypeOK
<1>5. GuardOwnsSlot' /\ OneNetwork' /\ HandleHasGuard' /\ StatusHasGuard'
    BY <1>2, WebServiceAssumption
       DEF IInv, TypeOK, GuardOwnsSlot, OneNetwork, HandleHasGuard, StatusHasGuard
<1>6. \A q \in Requests \ {r} :
         pc'[q] = pc[q] /\ waiter'[q] = waiter[q] /\ held'[q] = held[q]
    BY <1>2 DEF IInv, TypeOK
<1> QED
    BY <1>3, <1>4, <1>5, <1>6, OneRequestMoves

\* Each step keeps the invariant.
LEMMA NextInvariant == IInv /\ [Next]_vars => IInv'
<1> SUFFICES ASSUME IInv, [Next]_vars
             PROVE  IInv'
    OBVIOUS
<1>1. CASE UNCHANGED vars
    BY <1>1 DEF vars, IInv, TypeOK, GuardOwnsSlot, OneNetwork, HandleHasGuard,
                GuardsFollow, StatusHasGuard
<1>2. CASE Next
    BY <1>2, PlaceSteps, GroupStops, StartingKeeps, CreateTaskKeeps, InsertKeeps,
       StatusSteps, TakeGroupSteps, CleanupSteps, ErrorGuardKeeps
       DEF Next, RequestStep, StartStep, WaiterStep
<1> QED
    BY <1>1, <1>2

\* The invariant holds however many requests are served.
THEOREM ServiceInvariant == Spec => []IInv
BY InitInvariant, NextInvariant, PTL DEF Spec

\* TaskGroupGuard::drop, which takes whatever is in the slot, takes its own
\* group: the slot is never another start's.
THEOREM GuardsTakeTheirOwn == Spec => []GuardOwnsSlot
<1>1. IInv => GuardOwnsSlot
    BY DEF IInv
<1> QED
    BY <1>1, ServiceInvariant, PTL

\* Two networks never run at once.
THEOREM AtMostOneNetwork == Spec => []OneNetwork
<1>1. IInv => OneNetwork
    BY DEF IInv
<1> QED
    BY <1>1, ServiceInvariant, PTL

\* The network handle will be cleared.
THEOREM HandlesAreCleared == Spec => []HandleHasGuard
<1>1. IInv => HandleHasGuard
    BY DEF IInv
<1> QED
    BY <1>1, ServiceInvariant, PTL

\* A quiet service is ready for the next start.
THEOREM QuietIsClean == Spec => []NothingLeftBehind
<1>1. IInv => NothingLeftBehind
    <2> SUFFICES ASSUME IInv, Quiet
                 PROVE  status = "Stopped" /\ vnt = NoRequest /\ slot = NoRequest
        BY DEF NothingLeftBehind
    <2>1. \A r \in Requests : held[r] = {}
        BY DEF IInv, TypeOK, Quiet, GuardsFollow, GroupPlaces
    <2> QED
        BY <2>1 DEF IInv, TypeOK, Statuses, GuardOwnsSlot, HandleHasGuard, StatusHasGuard
<1> QED
    BY <1>1, ServiceInvariant, PTL
=============================================================================

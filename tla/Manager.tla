------------------------------- MODULE Manager -------------------------------
(***************************************************************************)
(* The profile manager (vntc-manager/src/main.rs) starts one client        *)
(* process per profile and is driven by the desktop interface              *)
(* (dashboard_controller.dart, main.dart).  The manager serves requests    *)
(* on several threads under one lock, which a connect request gives up     *)
(* between looking for a session, starting the process and entering it.    *)
(* Children that are dropped run on.  The interface disables its button    *)
(* while an operation is under way, but not its tray menu.                 *)
(***************************************************************************)
EXTENDS Integers, FiniteSets

CONSTANTS
    Profiles,   \* profiles with a configuration
    Calls,      \* operations of the interface
    NoProfile,  \* not a profile
    MaxStarts   \* bound on the processes started

ASSUME ManagerAssumption ==
    /\ NoProfile \notin Profiles
    /\ MaxStarts \in Nat

Children == 1 .. MaxStarts
NoChild == 0

VARIABLES
    sessions,   \* profile -> the child its session holds, or NoChild
    running,    \* children that run
    started,    \* children started so far
    call,       \* call -> [op, todo, at, child]: what it does and where it stands
    isBusy,     \* the interface's flag
    manager,    \* "up", "leaving" (stop_all ran) or "gone"
    trayed,     \* an operation came from the tray menu or from the launch
    overlapped, \* two connects were under way at once
    abandoned,  \* children given up alive: to kill or to ask them failed
    cut         \* a connect was under way when the manager was stopped, or later

manager_vars ==
    <<sessions, running, started, call, isBusy, manager, trayed, overlapped, abandoned, cut>>

Idle == [op |-> "none", todo |-> {}, at |-> NoProfile, child |-> NoChild]

ManagerInit ==
    /\ sessions = [p \in Profiles |-> NoChild]
    /\ running = {}
    /\ started = 0
    /\ call = [c \in Calls |-> Idle]
    /\ isBusy = FALSE
    /\ manager = "up"
    /\ trayed = FALSE
    /\ overlapped = FALSE
    /\ abandoned = {}
    /\ cut = FALSE

-----------------------------------------------------------------------------
Held == {sessions[p] : p \in Profiles} \cap running

\* A session goes when try_wait tells that its child has exited, or fails
\* (for errs, which may run on).
Cleaned(errs) ==
    [p \in Profiles |-> IF sessions[p] \in running \ errs THEN sessions[p] ELSE NoChild]

cleanup_exited_sessions ==
    \E errs \in SUBSET Held :
        /\ sessions' = Cleaned(errs)
        /\ abandoned' = abandoned \cup errs

Connecting == {c \in Calls : call[c].op = "connect"}

\* Mistaken variant of Clicked: the button works also while busy.
Clicked_always == TRUE

\* The connect button is disabled while an operation is under way; the tray
\* menu and the connection at launch do not look.
Clicked == ~isBusy

\* What is checked may have changed since the window was drawn.
connect_profiles(c, from) ==
    /\ call[c].op = "none"
    /\ manager # "gone"
    /\ from = "button" => Clicked
    /\ \E ids \in SUBSET Profiles \ {{}} :
        call' = [call EXCEPT ![c] = [Idle EXCEPT !.op = "connect", !.todo = ids]]
    /\ isBusy' = TRUE
    /\ cleanup_exited_sessions
    /\ trayed' = (trayed \/ from = "tray")
    /\ overlapped' = (overlapped \/ Connecting # {})
    /\ cut' = (cut \/ manager = "leaving")
    /\ UNCHANGED <<running, started, manager>>

\* A profile with a session is skipped.
session_is_running(c) ==
    /\ call[c].op = "connect"
    /\ call[c].at = NoProfile
    /\ cleanup_exited_sessions
    /\ \E p \in call[c].todo :
        call' = [call EXCEPT ![c].todo = @ \ {p},
                             ![c].at = IF sessions'[p] = NoChild THEN p ELSE NoProfile]
    /\ UNCHANGED <<running, started, isBusy, manager, trayed, overlapped, cut>>

\* The process is started, cannot be started, or a directory or log file
\* fails, which ends the request.
spawn_child(c) ==
    /\ call[c].at # NoProfile
    /\ call[c].child = NoChild
    /\ \/ /\ started < MaxStarts
          /\ started' = started + 1
          /\ running' = running \cup {started'}
          /\ call' = [call EXCEPT ![c].child = started']
       \/ /\ call' \in {[call EXCEPT ![c].at = NoProfile],
                        [call EXCEPT ![c].at = NoProfile, ![c].todo = {}]}
          /\ UNCHANGED <<started, running>>
    /\ UNCHANGED <<sessions, isBusy, manager, trayed, overlapped, abandoned, cut>>

\* An older session of the profile is dropped.
insert_session(c) ==
    /\ call[c].child # NoChild
    /\ sessions' = [sessions EXCEPT ![call[c].at] = call[c].child]
    /\ call' = [call EXCEPT ![c].at = NoProfile, ![c].child = NoChild]
    /\ UNCHANGED <<running, started, isBusy, manager, trayed, overlapped, abandoned, cut>>

\* The answer, a pause and a refresh later the button works again, also when
\* another operation is under way.
OperationEnds(c) ==
    /\ call[c].op # "none"
    /\ call[c].todo = {}
    /\ call[c].at = NoProfile
    /\ call' = [call EXCEPT ![c] = Idle]
    /\ isBusy' = FALSE
    /\ UNCHANGED <<sessions, running, started, manager, trayed, overlapped, abandoned, cut>>

\* Sessions are removed, then their children killed, which may fail.
Kill(ids) ==
    \E errs \in SUBSET Held :
    LET left  == Cleaned(errs)
        dying == {left[p] : p \in ids} \ {NoChild}
    IN  \E survivors \in SUBSET dying :
        /\ running' = running \ (dying \ survivors)
        /\ abandoned' = abandoned \cup errs \cup survivors
        /\ sessions' = [p \in Profiles |-> IF p \in ids THEN NoChild ELSE left[p]]

\* From the button, the tray, or the deletion of a profile, which neither looks
\* at the flag nor sets it.
disconnect_profiles(c, from) ==
    /\ call[c].op = "none"
    /\ manager # "gone"
    /\ from = "button" => Clicked
    /\ \E ids \in SUBSET Profiles \ {{}} : Kill(ids)
    /\ IF from = "delete" THEN UNCHANGED <<call, isBusy>>
       ELSE /\ call' = [call EXCEPT ![c] = [Idle EXCEPT !.op = "disconnect"]]
            /\ isBusy' = TRUE
    /\ trayed' = (trayed \/ from = "tray")
    /\ UNCHANGED <<started, manager, overlapped, cut>>

\* The list of profiles, the dashboard or the peers are shown.
show_profiles ==
    /\ manager # "gone"
    /\ cleanup_exited_sessions
    /\ UNCHANGED <<running, started, call, isBusy, manager, trayed, overlapped, cut>>

\* The window is closed, the tray says exit, or ctrl_c.
stop_all ==
    /\ manager = "up"
    /\ Kill(Profiles)
    /\ cut' = (cut \/ Connecting # {})
    /\ manager' = "leaving"
    /\ UNCHANGED <<started, call, isBusy, trayed, overlapped>>

\* 120 ms later the process exits, wherever its requests stand.
shutdown_manager ==
    /\ manager = "leaving"
    /\ manager' = "gone"
    /\ call' = [c \in Calls |-> Idle]
    /\ sessions' = [p \in Profiles |-> NoChild]
    /\ cut' = (cut \/ Connecting # {})
    /\ UNCHANGED <<running, started, isBusy, trayed, overlapped, abandoned>>

ChildExits ==
    /\ \E k \in running : running' = running \ {k}
    /\ UNCHANGED <<sessions, started, call, isBusy, manager, trayed, overlapped, abandoned, cut>>

ManagerNext ==
    \/ \E c \in Calls :
        \/ \E from \in {"button", "tray"} : connect_profiles(c, from)
        \/ \E from \in {"button", "tray", "delete"} : disconnect_profiles(c, from)
        \/ session_is_running(c) \/ spawn_child(c) \/ insert_session(c)
        \/ OperationEnds(c)
    \/ show_profiles \/ stop_all \/ shutdown_manager \/ ChildExits

ManagerSpec == ManagerInit /\ [][ManagerNext]_manager_vars

-----------------------------------------------------------------------------
\* A child that runs belongs to a session, or to the request that has just
\* started it; and none runs on when the manager is gone.  To lose a child takes
\* one of four: the kill of this child fails; try_wait fails for this child,
\* which any request may meet; the manager exits in the midst of a connect; or
\* two connects are under way at once, which the button alone never brings
\* about: the tray menu does, and also by ending, when the flag it lowers was
\* raised by another.
EveryChildIsKnown ==
    /\ overlapped => trayed
    /\ ~(overlapped \/ cut) =>
           \A k \in running \ abandoned :
               /\ manager # "gone"
               /\ \/ \E p \in Profiles : sessions[p] = k
                  \/ \E c \in Calls : call[c].child = k
=============================================================================

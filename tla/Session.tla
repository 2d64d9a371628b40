------------------------------ MODULE Session ------------------------------
(***************************************************************************)
(* The life of one network of the client: registration with all its        *)
(* servers (NetworkManager::register in core/mod.rs and                    *)
(* coordinated_registration), a task per server that exchanges data,       *)
(* measures silence and reconnects (server/connection_manager.rs), and the *)
(* end: TaskGroup::stop, then AppState::stop_network.  Tasks run on        *)
(* several threads; an action is what one of them does between two awaits. *)
(* A server may answer a request in any way, late or not at all; those in  *)
(* Honest grant the address they are asked for.                            *)
(***************************************************************************)
EXTENDS Outbound

CONSTANTS
    First,      \* the first server of the configuration
    Addresses,  \* addresses a server may grant
    NoAddr,     \* no address yet
    ConfigIps,  \* what Config.ip may be: an address, or NoAddr to be given one
    Honest,     \* servers that grant the address they are asked for
    MaxSilent   \* ping ticks without data after which a session is left

ASSUME SessionAssumption ==
    /\ First \in Servers
    /\ NoAddr \notin Addresses
    /\ ConfigIps \subseteq Addresses \cup {NoAddr}
    /\ Honest \subseteq Servers
    /\ MaxSilent \in Nat

VARIABLES
    members,    \* Config.server_addr: the servers of this network
    stage,      \* where register, then the owner's drop, stands
    answer,     \* server -> its result in the current join_all
    agreed,     \* servers whose consent to this registration arrived
    wanted,     \* server -> ConnectRegConfig.ip
    leased,     \* server -> the address in its last registration reply
    network,    \* AppState.network
    initial,    \* the address the data tasks were started with
    session,    \* server -> where its data task is
    silent,     \* server -> ping ticks since the last data
    stopped     \* TaskGroup::stop was called

session_vars ==
    <<members, stage, answer, agreed, wanted, leased, network, initial, session, silent, stopped>>
vars == <<info_vars, session_vars>>

Asking == {"idle", "single", "first", "others", "confirm", "granted"}
Stages == Asking \cup {"spawning", "up", "failed", "dropping", "clearing", "dropped"}

\* A task that was never spawned, or is gone; one with a connection; one that
\* waits a second after losing it, tries to connect, or waits five seconds.
Phases == {"none", "starting", "linked", "pausing", "connecting", "waiting", "ended"}
Alive == {"starting", "linked", "pausing", "connecting", "waiting"}

TypeOK ==
    /\ InfoTypeOK
    /\ First \in members /\ members \subseteq Servers
    /\ stage \in Stages
    /\ answer \in [Servers -> {"pending", "yes", "no"}]
    /\ agreed \subseteq Servers
    /\ wanted \in [Servers -> Addresses \cup {NoAddr}]
    /\ leased \in [Servers -> Addresses \cup {NoAddr}]
    /\ network \in Addresses \cup {NoAddr}
    /\ initial \in Addresses \cup {NoAddr}
    /\ session \in [Servers -> Phases]
    /\ silent \in [Servers -> 0 .. MaxSilent + 1]
    /\ stopped \in BOOLEAN

Init ==
    /\ InfoInit
    /\ members \in {m \in SUBSET Servers : First \in m}
    /\ stage = "idle"
    /\ answer = [s \in Servers |-> "pending"]
    /\ agreed = {}
    /\ wanted \in {[s \in Servers |-> a] : a \in ConfigIps}
    /\ leased = [s \in Servers |-> NoAddr]
    /\ network = NoAddr
    /\ initial = NoAddr
    /\ session = [s \in Servers |-> "none"]
    /\ silent = [s \in Servers |-> 0]
    /\ stopped = FALSE

-----------------------------------------------------------------------------
\* What a server may grant.
Grants(s) == IF s \in Honest /\ wanted[s] # NoAddr THEN {wanted[s]} ELSE Addresses

data_vars == <<members, network, initial, session, silent, stopped>>

register ==
    /\ stage = "idle"
    /\ stage' = IF members = {First} THEN "single" ELSE "first"
    /\ UNCHANGED <<info_vars, answer, agreed, wanted, leased, data_vars>>

\* connect_and_reg(Normal) of the only server: granted, or an error reply, a
\* reply of another kind, no connection or no reply within ten seconds.
RegisterSingle ==
    /\ stage = "single"
    /\ \/ /\ leased' \in {[leased EXCEPT ![First] = a] : a \in Grants(First)}
          /\ agreed' = {First}
          /\ stage' = "granted"
       \/ /\ stage' = "failed"
          /\ UNCHANGED <<agreed, leased>>
    /\ UNCHANGED <<info_vars, answer, wanted, data_vars>>

\* Mistaken variant of PreRegisterFirst: the others are not told the address.
PreRegisterFirst_untold ==
    /\ stage = "first"
    /\ \/ /\ leased' \in {[leased EXCEPT ![First] = a] : a \in Grants(First)}
          /\ answer' = [s \in Servers |-> IF s = First THEN "yes" ELSE "pending"]
          /\ stage' = "others"
       \/ stage' = "failed" /\ UNCHANGED <<answer, leased>>
    /\ UNCHANGED <<info_vars, agreed, wanted, data_vars>>

\* The first server pre-registers; set_ip hands its address to the others.
PreRegisterFirst ==
    /\ stage = "first"
    /\ \/ \E a \in Grants(First) :
            /\ leased' = [leased EXCEPT ![First] = a]
            /\ wanted' = [s \in Servers |-> IF s = First THEN wanted[s] ELSE a]
            /\ answer' = [s \in Servers |-> IF s = First THEN "yes" ELSE "pending"]
            /\ stage' = "others"
       \/ /\ stage' = "failed"
          /\ UNCHANGED <<answer, wanted, leased>>
    /\ UNCHANGED <<info_vars, agreed, data_vars>>

\* The others are asked at once; what they grant is not looked at.
PreRegisterOther(s) ==
    /\ stage = "others"
    /\ answer[s] = "pending"
    /\ \/ /\ leased' \in {[leased EXCEPT ![s] = a] : a \in Grants(s)}
          /\ answer' = [answer EXCEPT ![s] = "yes"]
       \/ /\ answer' = [answer EXCEPT ![s] = "no"]
          /\ UNCHANGED leased
    /\ UNCHANGED <<info_vars, stage, agreed, wanted, data_vars>>

\* Mistaken variant of PreRegistered: a failure is never looked at.
PreRegistered_waits ==
    /\ stage = "others"
    /\ \A s \in members : answer[s] = "yes"
    /\ stage' = "confirm"
    /\ answer' = [s \in Servers |-> "pending"]
    /\ UNCHANGED <<info_vars, agreed, wanted, leased, data_vars>>

\* join_all returns when each has its result; one failure fails them all.
PreRegistered ==
    /\ stage = "others"
    /\ \A s \in members : answer[s] # "pending"
    /\ stage' = IF \A s \in members : answer[s] = "yes" THEN "confirm" ELSE "failed"
    /\ answer' = [s \in Servers |-> "pending"]
    /\ UNCHANGED <<info_vars, agreed, wanted, leased, data_vars>>

send_confirm(s) ==
    /\ stage = "confirm"
    /\ answer[s] = "pending"
    /\ \/ /\ answer' = [answer EXCEPT ![s] = "yes"]
          /\ agreed' = agreed \cup {s}
       \/ /\ answer' = [answer EXCEPT ![s] = "no"]
          /\ UNCHANGED agreed
    /\ UNCHANGED <<info_vars, stage, wanted, leased, data_vars>>

\* Mistaken variant of Confirmed: one confirmation is enough.
Confirmed_any ==
    /\ stage = "confirm"
    /\ \A s \in members : answer[s] # "pending"
    /\ stage' = IF \E s \in members : answer[s] = "yes" THEN "granted" ELSE "failed"
    /\ UNCHANGED <<info_vars, answer, agreed, wanted, leased, data_vars>>

\* Servers that confirmed are not told when another one did not.
Confirmed ==
    /\ stage = "confirm"
    /\ \A s \in members : answer[s] # "pending"
    /\ stage' = IF \A s \in members : answer[s] = "yes" THEN "granted" ELSE "failed"
    /\ UNCHANGED <<info_vars, answer, agreed, wanted, leased, data_vars>>

EnterNetwork ==
    /\ stage = "granted"
    /\ network' = leased[First]
    /\ initial' = leased[First]
    /\ stage' = "spawning"
    /\ UNCHANGED <<info_vars, members, answer, agreed, wanted, leased, session, silent, stopped>>

reg_vars == <<members, answer, agreed, wanted, leased, network, initial>>

\* A stopped group refuses the task.
Spawn(s) ==
    /\ stage = "spawning"
    /\ session[s] = "none"
    /\ session' = [session EXCEPT ![s] = IF stopped THEN "ended" ELSE "starting"]
    /\ UNCHANGED <<info_vars, reg_vars, stage, silent, stopped>>

Registered ==
    /\ stage = "spawning"
    /\ \A s \in members : session[s] # "none"
    /\ stage' = "up"
    /\ UNCHANGED <<info_vars, reg_vars, session, silent, stopped>>

-----------------------------------------------------------------------------
\* handle_connected, then data_handle_loop: the silence starts anew.
Linked(s) ==
    /\ session' = [session EXCEPT ![s] = "linked"]
    /\ silent' = [silent EXCEPT ![s] = 0]
    /\ set_server_connected(s, TRUE)

\* The first poll of the task, over the connection of the registration.
Begin(s) ==
    /\ session[s] = "starting"
    /\ Linked(s)
    /\ UNCHANGED <<reg_vars, stage, stopped>>

\* Data arrives: the time is taken before it is handled; what the handler
\* does with it is an action of ServerInfo, or none.
ReceiveData(s) ==
    /\ session[s] = "linked"
    /\ silent' = [silent EXCEPT ![s] = 0]
    /\ \/ PushClientIps(s)
       \/ set_server_rtt(s)
       \/ UNCHANGED info_vars
    /\ UNCHANGED <<reg_vars, stage, session, stopped>>

\* Mistaken variant of PingTick: the ping is what the silence is measured from.
PingTick_resets(s) ==
    /\ session[s] = "linked"
    /\ silent' = [silent EXCEPT ![s] = 1]
    /\ UNCHANGED <<info_vars, reg_vars, stage, session, stopped>>

\* Every five seconds: after twenty seconds of silence the session is left,
\* before that the server is pinged.
PingTick(s) ==
    /\ session[s] = "linked"
    /\ IF silent[s] >= MaxSilent
       THEN session' = [session EXCEPT ![s] = "pausing"] /\ UNCHANGED silent
       ELSE silent' = [silent EXCEPT ![s] = @ + 1] /\ UNCHANGED session
    /\ UNCHANGED <<info_vars, reg_vars, stage, stopped>>

\* A receive fails, or the sending of a ping or of a packet taken from the
\* queue.  (A reply that cannot be sent is only logged.)
LinkBreaks(s) ==
    /\ session[s] = "linked"
    /\ session' = [session EXCEPT ![s] = "pausing"]
    /\ UNCHANGED <<info_vars, reg_vars, stage, silent, stopped>>

\* Mistaken variant of Reconnect: the server is still taken for connected.
Reconnect_flagged(s) ==
    /\ session[s] \in {"pausing", "waiting"}
    /\ session' = [session EXCEPT ![s] = "connecting"]
    /\ UNCHANGED <<info_vars, reg_vars, stage, silent, stopped>>

\* The pause is over: disconnect, handle_disconnected, connect_and_reg(Normal).
Reconnect(s) ==
    /\ session[s] \in {"pausing", "waiting"}
    /\ session' = [session EXCEPT ![s] = "connecting"]
    /\ set_server_connected(s, FALSE)
    /\ UNCHANGED <<reg_vars, stage, silent, stopped>>

\* No connection, no reply, or one that cannot be read.
ReconnectFails(s) ==
    /\ session[s] = "connecting"
    /\ session' = [session EXCEPT ![s] = "waiting"]
    /\ UNCHANGED <<info_vars, reg_vars, stage, silent, stopped>>

\* Mistaken variant of EndTask: the other tasks of the group run on.
EndTask_alone(s) ==
    /\ session' = [session EXCEPT ![s] = "ended"]
    /\ set_server_connected(s, FALSE)
    /\ UNCHANGED <<silent, stopped>>

\* disconnect, handle_disconnected, and the group of all tasks is stopped.
EndTask(s) ==
    /\ session' = [session EXCEPT ![s] = "ended"]
    /\ set_server_connected(s, FALSE)
    /\ stopped' = TRUE
    /\ UNCHANGED silent

\* The server grants the address of the network again, or another one: then
\* the network has changed and the task ends.
Regranted(s) ==
    /\ session[s] = "connecting"
    /\ \E a \in Grants(s) :
        /\ leased' = [leased EXCEPT ![s] = a]
        /\ IF a = initial THEN Linked(s) /\ UNCHANGED stopped
           ELSE EndTask(s)
    /\ UNCHANGED <<members, answer, agreed, wanted, network, initial, stage>>

\* An error reply, or a reply of another kind.
Refused(s) ==
    /\ session[s] = "connecting"
    /\ EndTask(s)
    /\ UNCHANGED <<reg_vars, stage>>

-----------------------------------------------------------------------------
\* Somebody stops the group, or the owner of the manager drops it (Drop calls
\* stop_network).  register borrows the manager: a drop finds it before, after
\* or, when its future was dropped, at one of its awaits.
Stop ==
    /\ ~stopped
    /\ stopped' = TRUE
    /\ UNCHANGED <<info_vars, reg_vars, stage, session, silent>>

Drop ==
    /\ stage \in {"idle", "single", "first", "others", "confirm", "up", "failed"}
    /\ stage' = "dropping"
    /\ stopped' = TRUE
    /\ UNCHANGED <<info_vars, reg_vars, session, silent>>

\* AppState::stop_network: the address, then the two halves of clear().
ClearNetwork ==
    /\ stage = "dropping"
    /\ network' = NoAddr
    /\ stage' = "clearing"
    /\ UNCHANGED <<info_vars, members, answer, agreed, wanted, leased, initial, session,
                   silent, stopped>>

ClearList ==
    /\ stage = "clearing"
    /\ clear_list
    /\ UNCHANGED session_vars

ClearNodes ==
    /\ stage = "clearing"
    /\ clear_nodes
    /\ stage' = "dropped"
    /\ UNCHANGED <<reg_vars, session, silent, stopped>>

\* The future of an aborted task is dropped, at its next await or while it
\* waits.  Until then it goes on, and nobody marks its server disconnected.
TaskDropped(s) ==
    /\ stopped
    /\ session[s] \in Alive
    /\ session' = [session EXCEPT ![s] = "ended"]
    /\ UNCHANGED <<info_vars, reg_vars, stage, silent, stopped>>

Next ==
    \/ register \/ RegisterSingle \/ PreRegisterFirst \/ PreRegistered
    \/ Confirmed \/ EnterNetwork \/ Registered
    \/ Stop \/ Drop \/ ClearNetwork \/ ClearList \/ ClearNodes
    \/ \E s \in members :
        \/ PreRegisterOther(s) \/ send_confirm(s) \/ Spawn(s) \/ Begin(s)
        \/ ReceiveData(s) \/ PingTick(s) \/ LinkBreaks(s)
        \/ Reconnect(s) \/ ReconnectFails(s) \/ Regranted(s) \/ Refused(s)
        \/ TaskDropped(s)

Spec == Init /\ [][Next]_vars

\* Every await of a registration and of a reconnection has a time-out, timers
\* fire, and an aborted task is dropped.
Fairness ==
    /\ WF_vars(RegisterSingle \/ PreRegisterFirst \/ PreRegistered \/ Confirmed)
    /\ WF_vars(EnterNetwork \/ Registered \/ \E s \in members : Spawn(s))
    /\ \A s \in Servers :
        /\ WF_vars(s \in members /\ PreRegisterOther(s))
        /\ WF_vars(s \in members /\ send_confirm(s))
        /\ WF_vars(PingTick(s))
        /\ WF_vars(TaskDropped(s))

FairSpec == Spec /\ Fairness

-----------------------------------------------------------------------------
\* A session of a server that honours requests holds the address of the
\* network: set_ip runs before the others ask, so every one of them got it and
\* keeps it, whatever happens later.  Only the first server was asked without
\* an address; it may grant another one later, and then its session ends.
SameAddress ==
    initial # NoAddr =>
        \A s \in Honest \cap members :
            s # First \/ session[s] = "linked" => leased[s] = initial

NoRoutes == [h \in Hosts |-> "none"]

\* While the group runs, a unicast packet for a server's queue finds a task that
\* takes it out now, or within the second that follows a lost connection.
UnicastIsServed ==
    ~stopped =>
        \A c \in ipv4_gateway_outbound
                 \cup (UNION {ipv4_outbound(h, NoRoutes) : h \in Hosts \cup Outside})
                 \cup (UNION {outbound_raw(h, NoRoutes) : h \in Hosts})
                 \cup (UNION {send_to_gateway_expired(s) : s \in Servers}) :
            session[c.at] \in {"linked", "pausing"}

\* What Registration sees of a network.
OnlineNow == {s \in Servers : session[s] = "linked"}
GoneNow == {s \in Servers : session[s] = "ended"}
PhaseNow == CASE stage \in {"clearing", "dropped"} -> "over"
           [] stopped /\ stage \notin {"clearing", "dropped"} -> "stopping"
           [] ~stopped /\ stage \in Asking \cup {"failed"} -> "asking"
           [] OTHER -> "running"

\* The network keeps the promise of Registration.
Promise == INSTANCE Registration WITH online <- OnlineNow, gone <- GoneNow, phase <- PhaseNow
KeepsPromise == Promise!Spec

\* A registration that was begun succeeds, fails or is dropped, whatever some
\* of the servers do.
RegistrationSettles == (stage \in Asking \ {"idle"}) ~> (stage \notin Asking)

\* A session whose server has fallen silent is left.
DeadLinkIsLeft ==
    \A s \in Servers : []<>(session[s] # "linked" \/ silent[s] = 0)

\* A session that ends (its server refuses, or the address changed) ends every
\* other one, also those that wait for their own reconnection.
OneEndsAll ==
    (\E s \in Servers : session[s] = "ended") ~>
        (\A s \in Servers : session[s] \in {"none", "ended"})
=============================================================================

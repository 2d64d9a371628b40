--------------------------- MODULE SessionProofs ---------------------------
(***************************************************************************)
(* Proofs about Session, ServerInfo and Outbound: the merged list agrees   *)
(* with the nodes, broadcasts reach who is listed, the sessions hold one   *)
(* address, and Session implements Registration.                           *)
(***************************************************************************)
EXTENDS Session, FiniteSetTheorems, TLAPS

-----------------------------------------------------------------------------
(* The merged list.                                                        *)

\* Between its two halves, clear() has emptied the list; only there an update
\* is late.
InfoInv ==
    /\ InfoTypeOK
    /\ ListAgrees
    /\ clearing = "half" /\ ~late => listed = NoClients
    /\ late => clearing # "no"

\* The operations of ServerInfo.
InfoStep ==
    \/ UNCHANGED info_vars
    \/ \E s \in Servers : PushClientIps(s) \/ set_server_rtt(s)
    \/ \E s \in Servers, val \in BOOLEAN : set_server_connected(s, val)
    \/ clear_list
    \/ clear_nodes

\* What Merge says of a client.
LEMMA MergeAgrees ==
    ASSUME NEW nodes \in [Servers -> [Hosts -> Statuses]], NEW h \in Hosts
    PROVE  /\ Merge(nodes) \in [Hosts -> Statuses]
           /\ Merge(nodes)[h] = "online" <=> \E s \in Servers : nodes[s][h] = "online"
           /\ Merge(nodes)[h] = "absent" <=> \A s \in Servers : nodes[s][h] = "absent"
<1>1. Merge(nodes) \in [Hosts -> Statuses]
  BY DEF Merge, Statuses
<1>2. Merge(nodes)[h] = CASE \E s \in Servers : nodes[s][h] = "online" -> "online"
                          [] \A s \in Servers : nodes[s][h] = "absent" -> "absent"
                          [] OTHER -> "offline"
  BY DEF Merge
<1>3. CASE \E s \in Servers : nodes[s][h] = "online"
  BY <1>1, <1>2, <1>3
<1>4. CASE \A s \in Servers : nodes[s][h] = "absent"
  BY <1>1, <1>2, <1>4
<1>5. CASE ~(\E s \in Servers : nodes[s][h] = "online") /\ ~(\A s \in Servers : nodes[s][h] = "absent")
  BY <1>1, <1>2, <1>5
<1> QED BY <1>3, <1>4, <1>5

LEMMA InfoInitial == InfoInit => InfoInv
<1>1. SUFFICES ASSUME InfoInit PROVE InfoInv
  OBVIOUS
<1>2. InfoTypeOK
  BY <1>1 DEF InfoInit, InfoTypeOK, NoClients, Statuses
<1>3. ListAgrees
  BY <1>1 DEF InfoInit, ListAgrees, NoClients
<1> QED BY <1>1, <1>2, <1>3 DEF InfoInit, InfoInv

LEMMA InfoUpdates ==
    ASSUME InfoInv, NEW s \in Servers, PushClientIps(s)
    PROVE  InfoInv'
<1>1. PICK list \in [Hosts -> Statuses], is_all \in BOOLEAN, delay \in Rtts \cup {NoRtt} :
          update_client_simple_list(s, list, is_all, delay)
  BY DEF PushClientIps
<1>2. Received(clients[s], list, is_all) \in [Hosts -> Statuses]
  BY DEF InfoInv, InfoTypeOK, Received, Statuses
<1>3. clients' \in [Servers -> [Hosts -> Statuses]] /\ listed' = Merge(clients')
  BY <1>1, <1>2 DEF update_client_simple_list, InfoInv, InfoTypeOK
<1>4. \A h \in Hosts :
          /\ listed'[h] = "online" <=> \E t \in Servers : clients'[t][h] = "online"
          /\ listed'[h] = "absent" <=> \A t \in Servers : clients'[t][h] = "absent"
  BY <1>3, MergeAgrees
<1>5. rtt' \in [Servers -> Rtts \cup {NoRtt}]
  BY <1>1 DEF update_client_simple_list, InfoInv, InfoTypeOK
<1>6. listed' \in [Hosts -> Statuses]
  BY <1>3 DEF Merge, Statuses
<1>7. InfoTypeOK'
  BY <1>1, <1>3, <1>5, <1>6 DEF update_client_simple_list, InfoInv, InfoTypeOK
<1> QED BY <1>1, <1>4, <1>7 DEF update_client_simple_list, InfoInv, InfoTypeOK, ListAgrees

LEMMA InfoKeeps == InfoInv /\ InfoStep => InfoInv'
<1>1. SUFFICES ASSUME InfoInv, InfoStep PROVE InfoInv'
  OBVIOUS
<1> USE DEF InfoInv, InfoTypeOK, ListAgrees
<1>2. CASE UNCHANGED info_vars
  BY <1>1, <1>2 DEF info_vars
<1>3. ASSUME NEW s \in Servers, PushClientIps(s) PROVE InfoInv'
  BY <1>1, <1>3, InfoUpdates
<1>4. ASSUME NEW s \in Servers, set_server_rtt(s) PROVE InfoInv'
  BY <1>1, <1>4 DEF set_server_rtt
<1>5. ASSUME NEW s \in Servers, NEW val \in BOOLEAN, set_server_connected(s, val) PROVE InfoInv'
  BY <1>1, <1>5 DEF set_server_connected
<1>6. CASE clear_list
  BY <1>1, <1>6 DEF clear_list, NoClients, Statuses
<1>7. CASE clear_nodes
  <2>1. InfoTypeOK'
    BY <1>1, <1>7 DEF clear_nodes, NoClients, Statuses
  <2>2. ListAgrees'
    BY <1>1, <1>7 DEF clear_nodes, NoClients
  <2> QED BY <1>7, <2>1, <2>2 DEF clear_nodes
<1> QED BY <1>1, <1>2, <1>3, <1>4, <1>5, <1>6, <1>7 DEF InfoStep

-----------------------------------------------------------------------------
(* The registration and the sessions.                                      *)

SessionTypeOK ==
    /\ First \in members /\ members \subseteq Servers
    /\ stage \in Stages
    /\ answer \in [Servers -> {"pending", "yes", "no"}]
    /\ agreed \subseteq Servers
    /\ wanted \in [Servers -> Addresses \cup {NoAddr}]
    /\ leased \in [Servers -> Addresses \cup {NoAddr}]
    /\ network \in Addresses \cup {NoAddr}
    /\ initial \in Addresses \cup {NoAddr}
    /\ session \in [Servers -> Phases]
    /\ silent \in [Servers -> 0 .. MaxSilent + 1]
    /\ stopped \in BOOLEAN

\* The others were told address a; the honest ones hold it.
Told(a) == \A s \in members \ {First} : wanted[s] = a
Held(a) == \A s \in (Honest \cap members) \ {First} : leased[s] = a

\* How far consent and addresses are at each stage.
Consent ==
    /\ stage \in {"idle", "single", "first", "others"} => agreed = {}
    /\ stage = "single" => members = {First}
    /\ stage = "confirm" =>
           agreed \subseteq members /\ \A s \in members : answer[s] = "yes" => s \in agreed
    /\ stage = "granted" \/ initial # NoAddr => agreed = members

OneAddress ==
    /\ stage = "others" =>
        /\ leased[First] \in Addresses /\ Told(leased[First]) /\ answer[First] = "yes"
        /\ \A s \in (Honest \cap members) \ {First} :
               answer[s] = "yes" => leased[s] = leased[First]
    /\ stage \in {"confirm", "granted"} =>
           leased[First] \in Addresses /\ Told(leased[First]) /\ Held(leased[First])
    /\ initial # NoAddr =>
        /\ Told(initial) /\ Held(initial)
        /\ session[First] # "ended" => leased[First] = initial

\* Nothing runs before an address is entered.
Entered ==
    /\ stage \in Asking \cup {"failed"} => network = NoAddr /\ initial = NoAddr
    /\ initial = NoAddr =>
           stage \notin {"spawning", "up"} /\ \A s \in Servers : session[s] = "none"

SessionInv == SessionTypeOK /\ Consent /\ OneAddress /\ Entered

LEMMA GrantsAddress ==
    ASSUME SessionTypeOK, NEW s \in members, NEW a \in Grants(s)
    PROVE  a \in Addresses /\ (s \in Honest /\ wanted[s] # NoAddr => a = wanted[s])
  BY DEF Grants, SessionTypeOK

LEMMA SessionInitial == Init => SessionInv
<1>1. SUFFICES ASSUME Init PROVE SessionInv
  OBVIOUS
<1>2. SessionTypeOK
  <2>1. wanted \in [Servers -> Addresses \cup {NoAddr}]
    <3>1. PICK a \in ConfigIps : wanted = [s \in Servers |-> a]
      BY <1>1 DEF Init
    <3> QED BY <3>1, SessionAssumption
  <2>2. First \in members /\ members \subseteq Servers
    BY <1>1 DEF Init
  <2>3. silent \in [Servers -> 0 .. MaxSilent + 1]
    BY <1>1, SessionAssumption DEF Init
  <2> QED BY <1>1, <2>1, <2>2, <2>3 DEF Init, SessionTypeOK, Stages, Asking, Phases
<1> QED BY <1>1, <1>2 DEF Init, SessionInv, Consent, OneAddress, Entered, Asking

\* The steps of register() and coordinated_registration() up to the address.
LEMMA RegistrationKeeps ==
    ASSUME SessionInv,
           \/ register \/ RegisterSingle \/ PreRegisterFirst \/ PreRegistered \/ Confirmed
           \/ EnterNetwork
           \/ \E s \in members : PreRegisterOther(s) \/ send_confirm(s)
    PROVE  SessionInv'
<1> USE SessionAssumption DEF SessionInv, Asking, Stages
<1>1. CASE register
  BY <1>1 DEF register, data_vars, SessionTypeOK, Consent, OneAddress, Entered
<1>2. CASE RegisterSingle
  <2>1. CASE stage' = "failed"
    BY <1>2, <2>1 DEF RegisterSingle, data_vars, SessionTypeOK, Consent, OneAddress, Entered
  <2>2. ASSUME NEW a \in Grants(First), leased' = [leased EXCEPT ![First] = a],
               agreed' = {First}, stage' = "granted"
        PROVE  SessionInv'
    <3>1. a \in Addresses
      BY GrantsAddress, <2>2 DEF SessionTypeOK
    <3>2. stage = "single" /\ members = {First} /\ UNCHANGED <<answer, wanted, data_vars>>
      BY <1>2 DEF RegisterSingle, Consent
    <3> QED BY <2>2, <3>1, <3>2
         DEF data_vars, SessionTypeOK, Consent, OneAddress, Entered, Told, Held
  <2> QED BY <1>2, <2>1, <2>2 DEF RegisterSingle
<1>3. CASE PreRegisterFirst
  <2>1. CASE stage' = "failed"
    BY <1>3, <2>1 DEF PreRegisterFirst, data_vars, SessionTypeOK, Consent, OneAddress, Entered
  <2>2. ASSUME NEW a \in Grants(First), leased' = [leased EXCEPT ![First] = a],
               wanted' = [s \in Servers |-> IF s = First THEN wanted[s] ELSE a],
               answer' = [s \in Servers |-> IF s = First THEN "yes" ELSE "pending"],
               stage' = "others"
        PROVE  SessionInv'
    <3>1. a \in Addresses
      BY GrantsAddress, <2>2 DEF SessionTypeOK
    <3>2. stage = "first" /\ UNCHANGED <<agreed, data_vars>>
      BY <1>3 DEF PreRegisterFirst
    <3>3. SessionTypeOK'
      BY <2>2, <3>1, <3>2 DEF data_vars, SessionTypeOK
    <3>4. leased'[First] = a /\ (\A s \in Servers \ {First} : wanted'[s] = a /\ answer'[s] = "pending")
      BY <2>2 DEF SessionTypeOK
    <3> QED BY <2>2, <3>1, <3>2, <3>3, <3>4
         DEF data_vars, SessionTypeOK, Consent, OneAddress, Entered, Told
  <2> QED BY <1>3, <2>1, <2>2 DEF PreRegisterFirst
<1>4. CASE PreRegistered
  BY <1>4 DEF PreRegistered, data_vars, SessionTypeOK, Consent, OneAddress, Entered, Told, Held
<1>5. CASE Confirmed
  BY <1>5 DEF Confirmed, data_vars, SessionTypeOK, Consent, OneAddress, Entered, Told, Held
<1>6. CASE EnterNetwork
  BY <1>6 DEF EnterNetwork, SessionTypeOK, Consent, OneAddress, Entered, Told, Held
<1>7. ASSUME NEW s \in members, PreRegisterOther(s) PROVE SessionInv'
  <2>1. stage = "others" /\ answer[s] = "pending" /\ s # First
        /\ UNCHANGED <<stage, agreed, wanted, data_vars>>
    BY <1>7 DEF PreRegisterOther, OneAddress
  <2>2. CASE answer' = [answer EXCEPT ![s] = "no"] /\ UNCHANGED leased
    BY <2>1, <2>2 DEF data_vars, SessionTypeOK, Consent, OneAddress, Entered, Told, Held
  <2>3. ASSUME NEW a \in Grants(s), leased' = [leased EXCEPT ![s] = a],
               answer' = [answer EXCEPT ![s] = "yes"]
        PROVE  SessionInv'
    <3>1. a \in Addresses /\ (s \in Honest => a = leased[First])
      BY <2>1, <2>3, GrantsAddress DEF OneAddress, Told
    <3>2. SessionTypeOK'
      BY <2>1, <2>3, <3>1 DEF data_vars, SessionTypeOK
    <3>3. OneAddress'
      BY <2>1, <2>3, <3>1 DEF data_vars, SessionTypeOK, OneAddress, Entered, Told
    <3> QED BY <2>1, <3>2, <3>3 DEF data_vars, Consent, Entered
  <2> QED BY <1>7, <2>2, <2>3 DEF PreRegisterOther
<1>8. ASSUME NEW s \in members, send_confirm(s) PROVE SessionInv'
  BY <1>8 DEF send_confirm, data_vars, SessionTypeOK, Consent, OneAddress, Entered, Told, Held
<1> QED BY <1>1, <1>2, <1>3, <1>4, <1>5, <1>6, <1>7, <1>8

\* What leaves registration, consent and addresses alone.
LEMMA SessionsKeep ==
    ASSUME SessionInv, NEW s \in members,
           \/ Spawn(s) \/ Begin(s) \/ ReceiveData(s) \/ PingTick(s) \/ LinkBreaks(s)
           \/ Reconnect(s) \/ ReconnectFails(s) \/ Refused(s) \/ TaskDropped(s)
    PROVE  SessionInv'
<1> USE SessionAssumption DEF SessionInv
<1>1. UNCHANGED <<reg_vars, stage>> /\ stopped' \in BOOLEAN
      /\ session' \in [Servers -> Phases] /\ silent' \in [Servers -> 0 .. MaxSilent + 1]
  <2>1. UNCHANGED <<reg_vars, stage>>
    BY DEF Spawn, Begin, ReceiveData, PingTick, LinkBreaks, Reconnect, ReconnectFails, Refused,
         TaskDropped
  <2>2. stopped' \in BOOLEAN
    BY DEF Spawn, Begin, ReceiveData, PingTick, LinkBreaks, Reconnect, ReconnectFails, Refused,
         TaskDropped, EndTask, SessionTypeOK
  <2>3. session' = session \/ \E p \in Phases : session' = [session EXCEPT ![s] = p]
    BY DEF Spawn, Begin, ReceiveData, PingTick, LinkBreaks, Reconnect, ReconnectFails, Refused,
         TaskDropped, Linked, EndTask, Phases
  <2>4. \/ silent' = silent
        \/ silent' = [silent EXCEPT ![s] = 0]
        \/ ~(silent[s] >= MaxSilent) /\ silent' = [silent EXCEPT ![s] = @ + 1]
    BY DEF Spawn, Begin, ReceiveData, PingTick, LinkBreaks, Reconnect, ReconnectFails, Refused,
         TaskDropped, Linked, EndTask
  <2>5. s \in Servers /\ silent[s] \in 0 .. MaxSilent + 1
    BY DEF SessionTypeOK
  <2>6. session' \in [Servers -> Phases]
    BY <2>3, <2>5 DEF SessionTypeOK
  <2>7. silent' \in [Servers -> 0 .. MaxSilent + 1]
    BY <2>4, <2>5 DEF SessionTypeOK
  <2> QED BY <2>1, <2>2, <2>6, <2>7
<1>2. SessionTypeOK'
  BY <1>1 DEF reg_vars, SessionTypeOK
<1>3. initial # NoAddr
  BY DEF Spawn, Begin, ReceiveData, PingTick, LinkBreaks, Reconnect, ReconnectFails, Refused,
       TaskDropped, Entered, SessionTypeOK, Alive
<1>4. session'[First] # "ended" => session[First] # "ended"
  BY DEF Spawn, Begin, ReceiveData, PingTick, LinkBreaks, Reconnect, ReconnectFails, Refused,
       TaskDropped, Linked, EndTask, SessionTypeOK, Alive
<1>5. Consent' /\ Entered'
  BY <1>1, <1>3 DEF reg_vars, Consent, Entered
<1>6. OneAddress'
  BY <1>1, <1>3, <1>4 DEF reg_vars, OneAddress, Entered, Told, Held, Asking
<1> QED BY <1>2, <1>5, <1>6

LEMMA RegrantKeeps ==
    ASSUME SessionInv, NEW s \in members, Regranted(s)
    PROVE  SessionInv'
<1> USE SessionAssumption DEF SessionInv
<1>1. PICK a \in Grants(s) :
          /\ leased' = [leased EXCEPT ![s] = a]
          /\ IF a = initial THEN Linked(s) /\ UNCHANGED stopped ELSE EndTask(s)
  BY DEF Regranted
<1>2. /\ session[s] = "connecting"
      /\ UNCHANGED <<members, answer, agreed, wanted, network, initial, stage>>
  BY DEF Regranted
<1>3. a \in Addresses /\ (s \in Honest /\ wanted[s] # NoAddr => a = wanted[s])
  BY GrantsAddress
<1>4. initial # NoAddr
  BY <1>2 DEF Entered, SessionTypeOK
<1>5. SessionTypeOK'
  <2>1. s \in Servers /\ leased' \in [Servers -> Addresses \cup {NoAddr}]
    BY <1>1, <1>3 DEF SessionTypeOK
  <2>2. session' \in [Servers -> Phases] /\ stopped' \in BOOLEAN
    BY <1>1, <2>1 DEF Linked, EndTask, SessionTypeOK, Phases
  <2>3. silent' \in [Servers -> 0 .. MaxSilent + 1]
    <3>1. silent' = silent \/ silent' = [silent EXCEPT ![s] = 0]
      BY <1>1 DEF Linked, EndTask
    <3> QED BY <2>1, <3>1 DEF SessionTypeOK
  <2> QED BY <1>2, <2>1, <2>2, <2>3 DEF SessionTypeOK
<1>6. Held(initial)'
  BY <1>1, <1>2, <1>3, <1>4 DEF OneAddress, Told, Held, SessionTypeOK
<1>7. (session[First] # "ended" => leased[First] = initial)'
  BY <1>1, <1>2, <1>4 DEF OneAddress, Linked, EndTask, SessionTypeOK
<1>8. stage \notin {"others", "confirm", "granted"}
  BY <1>4 DEF Entered, Asking
<1> QED BY <1>2, <1>4, <1>5, <1>6, <1>7, <1>8 DEF Consent, OneAddress, Entered, Told

\* The other steps.
LEMMA EndKeeps ==
    ASSUME SessionInv, Registered \/ Stop \/ Drop \/ ClearNetwork \/ ClearList \/ ClearNodes
    PROVE  SessionInv'
<1> USE DEF SessionInv, Asking, Stages
<1>1. CASE Registered
  BY <1>1 DEF Registered, reg_vars, SessionTypeOK, Consent, OneAddress, Entered, Told, Held
<1>2. CASE Stop
  BY <1>2 DEF Stop, reg_vars, SessionTypeOK, Consent, OneAddress, Entered, Told, Held
<1>3. CASE Drop
  BY <1>3 DEF Drop, reg_vars, SessionTypeOK, Consent, OneAddress, Entered, Told, Held
<1>4. CASE ClearNetwork
  BY <1>4 DEF ClearNetwork, SessionTypeOK, Consent, OneAddress, Entered, Told, Held
<1>5. CASE ClearList
  BY <1>5 DEF ClearList, session_vars, SessionTypeOK, Consent, OneAddress, Entered, Told, Held
<1>6. CASE ClearNodes
  BY <1>6 DEF ClearNodes, reg_vars, SessionTypeOK, Consent, OneAddress, Entered, Told, Held
<1> QED BY <1>1, <1>2, <1>3, <1>4, <1>5, <1>6

LEMMA SessionKeeps == SessionInv /\ [Next]_vars => SessionInv'
<1>1. SUFFICES ASSUME SessionInv, [Next]_vars PROVE SessionInv'
  OBVIOUS
<1>2. CASE UNCHANGED vars
  BY <1>1, <1>2 DEF vars, session_vars, SessionInv, SessionTypeOK, Consent, OneAddress,
       Entered, Told, Held
<1> QED BY <1>1, <1>2, RegistrationKeeps, SessionsKeep, RegrantKeeps, EndKeeps DEF Next

LEMMA SessionInfo == SessionInv /\ [Next]_vars => InfoStep
<1>1. SUFFICES ASSUME SessionInv, Next, ~ UNCHANGED info_vars PROVE InfoStep
  BY DEF vars, InfoStep
<1>2. CASE ClearList \/ ClearNodes
  BY <1>2 DEF ClearList, ClearNodes, InfoStep
<1>3. ASSUME NEW s \in members,
             Begin(s) \/ ReceiveData(s) \/ Reconnect(s) \/ Regranted(s) \/ Refused(s)
      PROVE  InfoStep
  <2>1. s \in Servers
    BY <1>1 DEF SessionInv, SessionTypeOK
  <2> QED BY <1>1, <1>3, <2>1 DEF Begin, ReceiveData, Reconnect, Regranted, Refused, Linked,
         EndTask, InfoStep
<1> QED BY <1>1, <1>2, <1>3 DEF Next, register, RegisterSingle, PreRegisterFirst,
      PreRegistered, Confirmed, EnterNetwork, Registered, Stop, Drop, ClearNetwork,
      PreRegisterOther, send_confirm, Spawn, PingTick, LinkBreaks, ReconnectFails, TaskDropped

-----------------------------------------------------------------------------
(* The servers packets are handed to.                                      *)

\* Only a server whose task serves its queue is taken for connected.
Served ==
    /\ connected \in [Servers -> BOOLEAN]
    /\ ~stopped =>
           \A s \in Servers : connected[s] => session[s] \in {"linked", "pausing"}

LEMMA TaskKeepsServed ==
    ASSUME SessionInv, Served, NEW s \in members,
           \/ Spawn(s) \/ Begin(s) \/ ReceiveData(s) \/ PingTick(s) \/ LinkBreaks(s)
           \/ Reconnect(s) \/ ReconnectFails(s) \/ Regranted(s) \/ Refused(s) \/ TaskDropped(s)
    PROVE  Served'
<1> USE DEF SessionInv, SessionTypeOK, Served
<1>1. s \in Servers
  OBVIOUS
<1>2. CASE Spawn(s)
  BY <1>1, <1>2 DEF Spawn, info_vars
<1>3. ASSUME Linked(s) PROVE Served'
  <2>1. stopped = stopped' \/ stopped' = TRUE
    BY <1>3 DEF Spawn, Begin, ReceiveData, PingTick, LinkBreaks, Reconnect, ReconnectFails,
         Regranted, Refused, TaskDropped, EndTask
  <2> QED BY <1>1, <1>3, <2>1 DEF Linked, set_server_connected
<1>4. CASE Begin(s)
  BY <1>3, <1>4 DEF Begin
<1>5. CASE ReceiveData(s)
  BY <1>5 DEF ReceiveData, PushClientIps, update_client_simple_list, set_server_rtt, info_vars
<1>6. CASE PingTick(s) \/ LinkBreaks(s)
  BY <1>1, <1>6 DEF PingTick, LinkBreaks, info_vars
<1>7. CASE Reconnect(s)
  BY <1>1, <1>7 DEF Reconnect, set_server_connected
<1>8. CASE ReconnectFails(s)
  BY <1>1, <1>8 DEF ReconnectFails, info_vars
<1>9. ASSUME EndTask(s) PROVE Served'
  BY <1>1, <1>9 DEF EndTask, set_server_connected
<1>10. CASE Regranted(s)
  <2>1. Linked(s) \/ EndTask(s)
    BY <1>10 DEF Regranted
  <2> QED BY <1>3, <1>9, <2>1
<1>11. CASE Refused(s)
  BY <1>9, <1>11 DEF Refused
<1>12. CASE TaskDropped(s)
  BY <1>12 DEF TaskDropped, info_vars
<1> QED BY <1>2, <1>4, <1>5, <1>6, <1>7, <1>8, <1>10, <1>11, <1>12

LEMMA ServedKeeps == SessionInv /\ Served /\ [Next]_vars => Served'
<1>1. SUFFICES ASSUME SessionInv, Served, [Next]_vars PROVE Served'
  OBVIOUS
<1>2. CASE UNCHANGED vars
  BY <1>1, <1>2 DEF vars, session_vars, info_vars, Served
<1>3. CASE \/ register \/ RegisterSingle \/ PreRegisterFirst \/ PreRegistered \/ Confirmed
           \/ EnterNetwork \/ Registered \/ Stop \/ Drop \/ ClearNetwork
           \/ \E s \in members : PreRegisterOther(s) \/ send_confirm(s)
  <2>1. UNCHANGED <<connected, session>> /\ (stopped' = stopped \/ stopped' = TRUE)
    BY <1>3 DEF register, RegisterSingle, PreRegisterFirst, PreRegistered, Confirmed,
         EnterNetwork, Registered, Stop, Drop, ClearNetwork, PreRegisterOther, send_confirm,
         data_vars, info_vars
  <2> QED BY <1>1, <2>1 DEF Served
<1>4. CASE ClearList \/ ClearNodes
  BY <1>1, <1>4 DEF ClearList, clear_list, ClearNodes, clear_nodes, session_vars, Served
<1> QED BY <1>1, <1>2, <1>3, <1>4, TaskKeepsServed DEF Next

\* Whatever its destination, a unicast packet for a server is for a connected one.
LEMMA UnicastToConnected ==
    ASSUME NEW c, \/ c \in ipv4_gateway_outbound
                  \/ \E h \in Hosts \cup Outside : c \in ipv4_outbound(h, NoRoutes)
                  \/ \E h \in Hosts : c \in outbound_raw(h, NoRoutes)
                  \/ \E s \in Servers : c \in send_to_gateway_expired(s)
    PROVE  \E s \in Servers : c.at = s /\ connected[s]
<1>1. ASSUME NEW h \in Hosts PROVE send_raw(h, NoRoutes) = server_send_raw(h)
  BY <1>1 DEF send_raw, NoRoutes
<1>2. ASSUME NEW h \in Hosts, c \in server_send_raw(h)
      PROVE  \E s \in Servers : c.at = s /\ connected[s]
  BY <1>2 DEF server_send_raw, find_ip_to_server, Nearest, ToServer
<1>3. CASE c \in ipv4_gateway_outbound
  BY <1>3 DEF ipv4_gateway_outbound, send_default_raw, find_connected_server, Nearest, ToServer
<1>4. ASSUME NEW h \in Hosts \cup Outside, c \in ipv4_outbound(h, NoRoutes)
      PROVE  \E s \in Servers : c.at = s /\ connected[s]
  <2>1. PICK dest \in Hosts : c \in send_raw(dest, NoRoutes)
    BY <1>4, OutboundAssumption DEF ipv4_outbound, send_encrypted_packet
  <2> QED BY <1>1, <1>2, <2>1
<1>5. ASSUME NEW h \in Hosts, c \in outbound_raw(h, NoRoutes)
      PROVE  \E s \in Servers : c.at = s /\ connected[s]
  BY <1>1, <1>2, <1>5 DEF outbound_raw
<1>6. ASSUME NEW s \in Servers, c \in send_to_gateway_expired(s)
      PROVE  \E t \in Servers : c.at = t /\ connected[t]
  BY <1>6 DEF send_to_gateway_expired, ToServer
<1> QED BY <1>3, <1>4, <1>5, <1>6

-----------------------------------------------------------------------------
(* Broadcasts.                                                             *)

\* Clients per round trip time: the main server has some when any server has.
LEMMA MainHasClients ==
    ASSUME InfoTypeOK, NEW main \in MainServers(clients), NEW s \in Servers,
           Online(clients, s) # {}
    PROVE  Online(clients, main) # {}
<1> DEFINE count(t) == Cardinality(Online(clients, t))
<1>1. ASSUME NEW t \in Servers
      PROVE  IsFiniteSet(Online(clients, t)) /\ count(t) \in Nat /\ AssumedRtt(t) \in Nat
  <2>1. IsFiniteSet(Online(clients, t))
    BY FS_Subset, OutboundAssumption DEF Online
  <2>2. AssumedRtt(t) \in Nat
    BY OutboundAssumption, ServerInfoAssumption DEF AssumedRtt, InfoTypeOK
  <2> QED BY <2>1, <2>2, FS_CardinalityType
<1>2. main \in Servers /\ count(s) * (AssumedRtt(main) + 1) <= count(main) * (AssumedRtt(s) + 1)
  BY DEF MainServers
<1>3. count(s) # 0
  BY <1>1, FS_EmptySet
<1>4. SUFFICES ASSUME Online(clients, main) = {} PROVE FALSE
  OBVIOUS
<1>5. count(main) = 0
  BY <1>4, FS_EmptySet
<1> HIDE DEF count
<1>6. count(s) >= 1 /\ AssumedRtt(main) + 1 >= 1 /\ count(main) * (AssumedRtt(s) + 1) = 0
  BY <1>1, <1>2, <1>3, <1>5
<1>7. \A a, b \in Nat : a >= 1 /\ b >= 1 => a * b >= 1
  OBVIOUS
<1>8. count(s) * (AssumedRtt(main) + 1) >= 1
  BY <1>1, <1>2, <1>6, <1>7
<1> QED BY <1>1, <1>2, <1>6, <1>8

\* The copies for a client that any server lists, beside those for the peers
\* reached directly: the main server's when it lists the client, otherwise
\* one of every server that does.
LEMMA ServerCopies ==
    ASSUME InfoTypeOK, NEW main \in MainServers(clients), NEW d \in SUBSET Hosts,
           NEW h \in Hosts, NEW s \in Servers, h \in Online(clients, s)
    PROVE  LET split == send_raw_broadcast(clients, main, d)
           IN  /\ h \in d => Copies(split, h) = {}
               /\ h \in Online(clients, main) \ d =>
                      Copies(split, h) = {ToServer(main, Online(clients, main) \ d)}
               /\ h \notin Online(clients, main) \cup d =>
                      Copies(split, h) =
                          {ToServer(t, TargetIps(clients, main, t, d)) :
                               t \in {u \in Servers \ {main} : h \in Online(clients, u)}}
<1> DEFINE asked == ToServer(main, Online(clients, main) \ d)
           target(t) == TargetIps(clients, main, t, d)
           split == send_raw_broadcast(clients, main, d)
<1>1. split = {asked} \cup {ToServer(t, target(t)) : t \in {u \in Servers \ {main} : target(u) # {}}}
  <2>1. Online(clients, main) # {}
    BY MainHasClients
  <2> QED BY <2>1 DEF send_raw_broadcast, send_exclude_broadcast, send_target_broadcast
<1>2. asked.for = Online(clients, main) \ d
  BY DEF ToServer
<1>3. ASSUME NEW t \in Servers
      PROVE  /\ ToServer(t, target(t)).for = target(t)
             /\ h \in target(t) <=> h \in Online(clients, t) /\ h \notin Online(clients, main) \cup d
  BY DEF ToServer, TargetIps
<1> HIDE DEF asked, target, split
<1>4. ASSUME NEW c
      PROVE  c \in Copies(split, h) <=>
                 \/ c = asked /\ h \in Online(clients, main) \ d
                 \/ \E t \in Servers \ {main} : c = ToServer(t, target(t)) /\ h \in target(t)
  <2>1. c \in split <=>
            \/ c = asked
            \/ \E t \in Servers \ {main} : c = ToServer(t, target(t)) /\ target(t) # {}
    BY <1>1
  <2>2. c \in Copies(split, h) <=> c \in split /\ h \in c.for
    BY DEF Copies
  <2> QED BY <1>2, <1>3, <2>1, <2>2
<1>5. ASSUME h \in d PROVE Copies(split, h) = {}
  BY <1>3, <1>4, <1>5
<1>6. ASSUME h \in Online(clients, main) \ d PROVE Copies(split, h) = {asked}
  BY <1>3, <1>4, <1>6
<1>7. ASSUME h \notin Online(clients, main) \cup d
      PROVE  Copies(split, h) =
                 {ToServer(t, target(t)) : t \in {u \in Servers \ {main} : h \in Online(clients, u)}}
  <2>1. \A t \in Servers : h \in target(t) <=> h \in Online(clients, t)
    BY <1>3, <1>7
  <2>2. \A c : c \in Copies(split, h) <=>
            \E t \in Servers \ {main} : h \in Online(clients, t) /\ c = ToServer(t, target(t))
    BY <1>4, <1>7, <2>1
  <2> QED BY <2>2
<1> QED BY <1>5, <1>6, <1>7 DEF asked, target, split

\* The list of the user interface, which the direct copies are taken from, is
\* who any server lists.
LEMMA ListedAreOnline ==
    ASSUME InfoInv, clearing = "no"
    PROVE  client_online_ips = OnlineAnywhere(clients)
<1>1. \A h \in Hosts : listed[h] = "online" <=> \E s \in Servers : clients[s][h] = "online"
  BY DEF InfoInv, ListAgrees
<1> QED BY <1>1 DEF client_online_ips, OnlineAnywhere, Online

\* The copies of one way to split a broadcast, for a client a server lists.
LEMMA SplitCopies ==
    ASSUME InfoInv, clearing = "no", NEW kind, NEW split \in ipv4_broadcast_outbound(kind),
           NEW h \in OnlineAnywhere(clients)
    PROVE  \/ Copies(split, h) = {ToPeer(h)}
           \/ /\ ~\E c \in split : c.via = "p2p" /\ c.at = h
              /\ \E main \in MainServers(clients), d \in SUBSET Hosts :
                     h \notin d /\ Copies(split, h) = Copies(send_raw_broadcast(clients, main, d), h)
<1>1. PICK d \in p2p_broadcast(client_online_ips, kind), main \in MainServers(clients) :
          split = IF d # {} /\ d = client_online_ips THEN {ToPeer(g) : g \in d}
                  ELSE {ToPeer(g) : g \in d} \cup send_raw_broadcast(clients, main, d)
  BY DEF ipv4_broadcast_outbound
<1> DEFINE sent == send_raw_broadcast(clients, main, d)
           direct == {ToPeer(g) : g \in d}
<1>2. h \in Hosts /\ h \in client_online_ips /\ d \subseteq client_online_ips /\ d \subseteq Hosts
  BY <1>1, ListedAreOnline DEF p2p_broadcast, client_online_ips
<1>3. PICK s \in Servers : h \in Online(clients, s)
  BY DEF OnlineAnywhere
<1>4. InfoTypeOK
  BY DEF InfoInv
<1>5. \A g : ToPeer(g).via = "p2p" /\ ToPeer(g).at = g /\ (h \in ToPeer(g).for <=> h = g)
  BY DEF ToPeer
<1>6. \A c \in sent : c.via = "server"
  BY DEF send_raw_broadcast, send_exclude_broadcast, send_target_broadcast, ToServer
<1>7. h \in d => Copies(sent, h) = {}
  BY <1>2, <1>3, <1>4, ServerCopies
<1>8. Copies(direct, h) = IF h \in d THEN {ToPeer(h)} ELSE {}
  BY <1>5 DEF Copies
<1>9. Copies(direct \cup sent, h) = Copies(direct, h) \cup Copies(sent, h)
  BY DEF Copies
<1>10. split = direct \/ split = direct \cup sent
  BY <1>1
<1>11. h \notin d => split = direct \cup sent
  BY <1>1, <1>2
<1>12. CASE h \in d
  <2> HIDE DEF direct, sent
  <2> QED BY <1>7, <1>8, <1>9, <1>10, <1>12
<1>13. CASE h \notin d
  <2>1. ~\E c \in split : c.via = "p2p" /\ c.at = h
    BY <1>5, <1>6, <1>11, <1>13
  <2>2. Copies(split, h) = Copies(sent, h)
    BY <1>8, <1>9, <1>11, <1>13
  <2> QED BY <1>2, <1>13, <2>1, <2>2
<1> QED BY <1>12, <1>13

\* Two different copies are two servers'.
LEMMA TwoCopies ==
    ASSUME NEW S, Cardinality(S) > 1
    PROVE  \E c, e \in S : c # e
<1>1. S # {}
  BY FS_EmptySet
<1>2. PICK c : c \in S
  BY <1>1
<1>3. CASE S = {c}
  BY <1>3, FS_Singleton
<1> QED BY <1>2, <1>3

LEMMA InfoReachesAll == InfoInv => BroadcastReachesAll
<1> SUFFICES ASSUME InfoInv, clearing = "no", NEW h \in OnlineAnywhere(clients),
                    NEW kind \in [Hosts -> RouteKinds],
                    NEW split \in ipv4_broadcast_outbound(kind)
             PROVE  /\ Copies(split, h) # {}
                    /\ (\E c \in split : c.via = "p2p" /\ c.at = h) => Cardinality(Copies(split, h)) = 1
                    /\ Cardinality(Copies(split, h)) > 1 =>
                           \E s, t \in Servers :
                               /\ s # t /\ h \in Online(clients, s) \cap Online(clients, t)
                               /\ \E u \in Servers \ {s, t} : h \notin Online(clients, u)
  BY DEF BroadcastReachesAll
<1>1. CASE Copies(split, h) = {ToPeer(h)}
  <2>1. Cardinality(Copies(split, h)) = 1
    BY <1>1, FS_Singleton
  <2> QED BY <1>1, <2>1
<1>2. CASE /\ ~\E c \in split : c.via = "p2p" /\ c.at = h
           /\ \E main \in MainServers(clients), d \in SUBSET Hosts :
                  h \notin d /\ Copies(split, h) = Copies(send_raw_broadcast(clients, main, d), h)
  <2>1. PICK main \in MainServers(clients), d \in SUBSET Hosts :
            h \notin d /\ Copies(split, h) = Copies(send_raw_broadcast(clients, main, d), h)
    BY <1>2
  <2>2. PICK s \in Servers : h \in Online(clients, s)
    BY DEF OnlineAnywhere
  <2>3. InfoTypeOK /\ h \in Hosts /\ main \in Servers
    BY <2>2 DEF InfoInv, Online, MainServers
  <2>4. CASE h \in Online(clients, main)
    <3>1. Copies(split, h) = {ToServer(main, Online(clients, main) \ d)}
      BY <2>1, <2>2, <2>3, <2>4, ServerCopies
    <3>2. Cardinality(Copies(split, h)) = 1
      BY <3>1, FS_Singleton
    <3> QED BY <1>2, <3>1, <3>2
  <2>5. CASE h \notin Online(clients, main)
    <3>1. Copies(split, h) = {ToServer(t, TargetIps(clients, main, t, d)) :
                                  t \in {u \in Servers \ {main} : h \in Online(clients, u)}}
      <4>1. h \notin Online(clients, main) \cup d
        BY <2>1, <2>5
      <4>2. Copies(send_raw_broadcast(clients, main, d), h) =
                {ToServer(t, TargetIps(clients, main, t, d)) :
                     t \in {u \in Servers \ {main} : h \in Online(clients, u)}}
        BY <2>2, <2>3, <4>1, ServerCopies
      <4> QED BY <2>1, <4>2
    <3>2. Copies(split, h) # {}
      BY <2>2, <2>5, <3>1
    <3>3. ASSUME Cardinality(Copies(split, h)) > 1
          PROVE  \E t, u \in Servers \ {main} :
                     t # u /\ h \in Online(clients, t) /\ h \in Online(clients, u)
      BY <3>1, <3>3, TwoCopies
    <3> QED BY <1>2, <2>3, <2>5, <3>2, <3>3
  <2> QED BY <2>4, <2>5
<1> QED BY <1>1, <1>2, SplitCopies

LEMMA InfoMissesBehindMain == InfoTypeOK => MissedOnlyBehindMain
<1> SUFFICES ASSUME InfoTypeOK, NEW main \in MainServers(clients), NEW h \in Hosts,
                    NEW s \in Servers, connected[s], h \in Online(clients, s),
                    \A c \in Copies(send_raw_broadcast(clients, main, {}), h) : ~connected[c.at]
             PROVE  ~connected[main] /\ h \in Online(clients, main)
  BY DEF MissedOnlyBehindMain
<1> DEFINE copies == Copies(send_raw_broadcast(clients, main, {}), h)
<1>1. \A t, for : ToServer(t, for).at = t
  BY DEF ToServer
<1>2. CASE h \in Online(clients, main)
  <2>1. copies = {ToServer(main, Online(clients, main) \ {})}
    BY <1>2, ServerCopies
  <2> QED BY <1>1, <1>2, <2>1
<1>3. CASE h \notin Online(clients, main)
  <2>1. copies = {ToServer(t, TargetIps(clients, main, t, {})) :
                      t \in {u \in Servers \ {main} : h \in Online(clients, u)}}
    BY <1>3, ServerCopies
  <2>2. ToServer(s, TargetIps(clients, main, s, {})) \in copies
    BY <1>3, <2>1
  <2> QED BY <1>1, <2>2
<1> QED BY <1>2, <1>3

-----------------------------------------------------------------------------
(* Session implements Registration.                                        *)

\* The phase of each stage.
LEMMA PhaseIs ==
    /\ stage \in {"clearing", "dropped"} => PhaseNow = "over"
    /\ stage \notin {"clearing", "dropped"} /\ stopped => PhaseNow = "stopping"
    /\ stage \in Asking \cup {"failed"} /\ ~stopped => PhaseNow = "asking"
    /\ stage \notin Asking \cup {"failed", "clearing", "dropped"} /\ ~stopped => PhaseNow = "running"
  BY DEF PhaseNow, Asking

LEMMA PhaseBecomes ==
    /\ stage' \in {"clearing", "dropped"} => PhaseNow' = "over"
    /\ stage' \notin {"clearing", "dropped"} /\ stopped' => PhaseNow' = "stopping"
    /\ stage' \in Asking \cup {"failed"} /\ ~stopped' => PhaseNow' = "asking"
    /\ stage' \notin Asking \cup {"failed", "clearing", "dropped"} /\ ~stopped' =>
           PhaseNow' = "running"
  BY DEF PhaseNow, Asking

\* A step that ends the task of s, with or after the group.
LEMMA EndImplements ==
    ASSUME SessionInv, NEW s \in members, stage' = stage,
           session' = [session EXCEPT ![s] = "ended"], stopped' = TRUE,
           PhaseNow # "asking", UNCHANGED <<members, network, agreed>>
    PROVE  Promise!End(s)
<1>1. GoneNow' = GoneNow \cup {s} /\ OnlineNow' = OnlineNow \ {s}
  BY DEF SessionInv, SessionTypeOK, GoneNow, OnlineNow
<1>2. PhaseNow' = IF PhaseNow = "running" THEN "stopping" ELSE PhaseNow
  BY PhaseIs, PhaseBecomes DEF SessionInv, SessionTypeOK, Stages
<1> QED BY <1>1, <1>2 DEF Promise!End

\* The task of s has a connection.
LEMMA LinkImplements ==
    ASSUME SessionInv, NEW s \in members, UNCHANGED <<members, network, agreed, stage, stopped>>,
           session[s] # "ended", Linked(s), initial # NoAddr
    PROVE  Promise!Connect(s)
<1>1. GoneNow' = GoneNow /\ OnlineNow' = OnlineNow \cup {s}
  BY DEF Linked, SessionInv, SessionTypeOK, GoneNow, OnlineNow
<1>2. PhaseNow' = PhaseNow
  BY DEF PhaseNow
<1>3. PhaseNow # "asking"
  BY PhaseIs DEF SessionInv, SessionTypeOK, Stages, Entered
<1>4. agreed = members /\ s \notin GoneNow
  BY DEF SessionInv, Consent, GoneNow
<1> QED BY <1>1, <1>2, <1>3, <1>4 DEF Promise!Connect

\* A step of the registration.
LEMMA RegistrationImplements ==
    ASSUME SessionInv,
           \/ register \/ RegisterSingle \/ PreRegisterFirst \/ PreRegistered \/ Confirmed
           \/ EnterNetwork
           \/ \E s \in members : PreRegisterOther(s) \/ send_confirm(s)
    PROVE  Promise!Next \/ UNCHANGED Promise!vars
<1> USE DEF SessionInv
<1>1. UNCHANGED <<members, session, stopped>> /\ OnlineNow' = OnlineNow /\ GoneNow' = GoneNow
  BY DEF register, RegisterSingle, PreRegisterFirst, PreRegistered, Confirmed, EnterNetwork,
       PreRegisterOther, send_confirm, data_vars, OnlineNow, GoneNow
<1>2. CASE EnterNetwork
  <2>1. network = NoAddr /\ agreed = members /\ network' \in Addresses /\ UNCHANGED agreed
    BY <1>2 DEF EnterNetwork, Consent, Entered, OneAddress, Asking
  <2>2. PhaseNow \in {"asking", "stopping"}
        /\ PhaseNow' = IF PhaseNow = "asking" THEN "running" ELSE "stopping"
    BY <1>1, <1>2, PhaseIs, PhaseBecomes DEF EnterNetwork, Asking, SessionTypeOK
  <2> QED BY <1>1, <2>1, <2>2 DEF Promise!Next, Promise!Enter
<1>3. CASE ~ EnterNetwork
  <2>1. stage \in Asking /\ stage' \in Asking \cup {"failed"} /\ UNCHANGED network
    BY <1>3 DEF register, RegisterSingle, PreRegisterFirst, PreRegistered, Confirmed,
         PreRegisterOther, send_confirm, data_vars, Asking
  <2>2. PhaseNow' = PhaseNow /\ PhaseNow \in {"asking", "stopping"} /\ network = NoAddr
    BY <1>1, <2>1, PhaseIs, PhaseBecomes DEF Asking, Entered, SessionTypeOK
  <2>3. agreed' = agreed \/ \E s \in members : agreed' = agreed \cup {s}
    BY <1>3 DEF register, RegisterSingle, PreRegisterFirst, PreRegistered, Confirmed,
         PreRegisterOther, send_confirm, Consent, SessionTypeOK
  <2> QED BY <1>1, <2>1, <2>2, <2>3 DEF Promise!Next, Promise!Agree, Promise!vars
<1> QED BY <1>2, <1>3

\* A step of the task of one server.
LEMMA TaskImplements ==
    ASSUME SessionInv, NEW s \in members,
           \/ Spawn(s) \/ Begin(s) \/ ReceiveData(s) \/ PingTick(s) \/ LinkBreaks(s)
           \/ Reconnect(s) \/ ReconnectFails(s) \/ Regranted(s) \/ Refused(s) \/ TaskDropped(s)
    PROVE  Promise!End(s) \/ Promise!Connect(s) \/ Promise!Disconnect(s)
           \/ UNCHANGED Promise!vars
<1> USE DEF SessionInv
<1>1. UNCHANGED <<members, network, agreed, stage>>
  BY DEF Spawn, Begin, ReceiveData, PingTick, LinkBreaks, Reconnect, ReconnectFails, Regranted,
       Refused, TaskDropped, reg_vars
<1>2. initial # NoAddr
  BY DEF Spawn, Begin, ReceiveData, PingTick, LinkBreaks, Reconnect, ReconnectFails, Regranted,
       Refused, TaskDropped, Entered, SessionTypeOK, Alive
<1>3. PhaseNow # "asking" /\ s \in Servers
  BY <1>2, PhaseIs DEF Entered, SessionTypeOK, Stages
<1>4. CASE session' = [session EXCEPT ![s] = "ended"] /\ stopped' = TRUE
  BY <1>1, <1>3, <1>4, EndImplements
<1>5. CASE session[s] # "ended" /\ Linked(s) /\ UNCHANGED stopped
  BY <1>1, <1>2, <1>5, LinkImplements
<1>6. CASE UNCHANGED stopped /\ session[s] # "ended"
           /\ \/ UNCHANGED session
              \/ \E p \in Phases \ {"ended", "linked"} : session' = [session EXCEPT ![s] = p]
  <2>1. PhaseNow' = PhaseNow
    BY <1>1, <1>6 DEF PhaseNow
  <2>2. GoneNow' = GoneNow
    BY <1>3, <1>6 DEF GoneNow, SessionTypeOK
  <2>3. OnlineNow' = OnlineNow \/ OnlineNow' = OnlineNow \ {s}
    BY <1>3, <1>6 DEF OnlineNow, SessionTypeOK
  <2> QED BY <1>1, <2>1, <2>2, <2>3 DEF Promise!Disconnect, Promise!vars
<1>7. CASE Spawn(s)
  BY <1>4, <1>6, <1>7 DEF Spawn, SessionTypeOK, Phases
<1>8. CASE Begin(s)
  BY <1>5, <1>8 DEF Begin
<1>9. CASE ReceiveData(s) \/ PingTick(s) \/ LinkBreaks(s) \/ Reconnect(s) \/ ReconnectFails(s)
  BY <1>6, <1>9 DEF ReceiveData, PingTick, LinkBreaks, Reconnect, ReconnectFails, Phases
<1>10. CASE Regranted(s)
  <2>1. session[s] = "connecting" /\ ((Linked(s) /\ UNCHANGED stopped) \/ EndTask(s))
    BY <1>10 DEF Regranted
  <2>2. CASE EndTask(s)
    BY <1>4, <2>2 DEF EndTask
  <2> QED BY <1>5, <2>1, <2>2
<1>11. CASE Refused(s)
  BY <1>4, <1>11 DEF Refused, EndTask
<1>12. CASE TaskDropped(s)
  BY <1>4, <1>12 DEF TaskDropped, SessionTypeOK
<1> QED BY <1>7, <1>8, <1>9, <1>10, <1>11, <1>12

\* The end of the network.
LEMMA EndOfNetworkImplements ==
    ASSUME SessionInv, Registered \/ Stop \/ Drop \/ ClearNetwork \/ ClearList \/ ClearNodes
    PROVE  Promise!Next \/ UNCHANGED Promise!vars
<1>1. UNCHANGED <<members, session, agreed>> /\ OnlineNow' = OnlineNow /\ GoneNow' = GoneNow
  BY DEF Registered, Stop, Drop, ClearNetwork, ClearList, ClearNodes, reg_vars, session_vars,
       OnlineNow, GoneNow
<1>2. CASE ClearNetwork
  BY <1>1, <1>2, PhaseBecomes DEF ClearNetwork, Promise!Next, Promise!Leave
<1>3. CASE Stop \/ Drop
  <2>1. UNCHANGED network /\ (PhaseNow' = PhaseNow \/ PhaseNow' = "stopping")
    BY <1>3, PhaseIs, PhaseBecomes DEF Stop, Drop, reg_vars, SessionInv, SessionTypeOK, Stages
  <2>2. PhaseNow \in {"asking", "running"} \/ PhaseNow' = PhaseNow
    BY <1>3, PhaseIs, PhaseBecomes DEF Stop, Drop, reg_vars, SessionInv, SessionTypeOK, Stages
  <2> QED BY <1>1, <2>1, <2>2 DEF Promise!Next, Promise!Stop, Promise!vars
<1>4. CASE Registered \/ ClearList \/ ClearNodes
  <2>1. UNCHANGED <<network, stopped>>
    BY <1>4 DEF Registered, ClearList, ClearNodes, reg_vars, session_vars
  <2>2. PhaseNow' = PhaseNow
    BY <1>4, <2>1, PhaseIs, PhaseBecomes DEF Registered, ClearList, ClearNodes, session_vars,
         Asking, SessionInv, SessionTypeOK
  <2> QED BY <1>1, <2>1, <2>2 DEF Promise!vars
<1> QED BY <1>2, <1>3, <1>4

LEMMA StepImplements == SessionInv /\ [Next]_vars => [Promise!Next]_(Promise!vars)
<1>1. SUFFICES ASSUME SessionInv, [Next]_vars PROVE Promise!Next \/ UNCHANGED Promise!vars
  OBVIOUS
<1>2. CASE UNCHANGED vars
  BY <1>2 DEF vars, session_vars, Promise!vars, OnlineNow, GoneNow, PhaseNow
<1>3. ASSUME NEW s \in members,
             Promise!End(s) \/ Promise!Connect(s) \/ Promise!Disconnect(s)
      PROVE  Promise!Next
  BY <1>3 DEF Promise!Next
<1> QED BY <1>1, <1>2, <1>3, RegistrationImplements, TaskImplements, EndOfNetworkImplements
     DEF Next

LEMMA InitImplements == Init => Promise!Init
<1>1. SUFFICES ASSUME Init PROVE Promise!Init
  OBVIOUS
<1>2. PhaseNow = "asking" /\ OnlineNow = {} /\ GoneNow = {}
  BY <1>1, PhaseIs DEF Init, Asking, OnlineNow, GoneNow
<1>3. members \subseteq Servers /\ network = NoAddr /\ agreed = {}
  BY <1>1 DEF Init
<1> QED BY <1>2, <1>3 DEF Promise!Init

-----------------------------------------------------------------------------
(* The theorems.                                                           *)

\* At every moment of a registration, of the tasks' reconnections and of the
\* end, consent, addresses, phases and the two halves of clear() fit together.
THEOREM SessionInvariant == Spec => [](SessionInv /\ InfoInv)
<1>1. Init => SessionInv /\ InfoInv
  BY SessionInitial, InfoInitial DEF Init
<1>2. SessionInv /\ InfoInv /\ [Next]_vars => (SessionInv /\ InfoInv)'
  BY SessionKeeps, SessionInfo, InfoKeeps
<1> QED BY <1>1, <1>2, PTL DEF Spec

\* update_client_simple_list, set_server_connected and clear(), called by any
\* number of tasks in any order, keep the list of the user interface and the
\* nodes of the servers in agreement, but for an update inside clear().
THEOREM ListsAgree == Spec => []ListAgrees
<1>1. InfoInv => ListAgrees
  BY DEF InfoInv
<1> QED BY <1>1, SessionInvariant, PTL

\* ipv4_broadcast_outbound and send_raw_broadcast, whatever the routes and
\* whichever servers list a client, leave none out and give one that was
\* reached directly no second copy.
THEOREM BroadcastsReachAll == Spec => []BroadcastReachesAll
  BY InfoReachesAll, SessionInvariant, PTL

\* The main server of send_raw_broadcast is chosen whether it is connected or
\* not; that is the only way to miss a client of a connected server.
THEOREM OnlyMainMisses == Spec => []MissedOnlyBehindMain
<1>1. InfoInv => InfoTypeOK
  BY DEF InfoInv
<1> QED BY <1>1, InfoMissesBehindMain, SessionInvariant, PTL

\* coordinated_registration gives all servers that honour set_ip one address,
\* and no reconnection or new grant changes that.
THEOREM OneAddressAlways == Spec => []SameAddress
<1>1. SessionInv => SameAddress
  BY DEF SessionInv, SessionTypeOK, OneAddress, Held, SameAddress
<1> QED BY <1>1, SessionInvariant, PTL

\* While the group runs, find_connected_server, find_ip_to_server and
\* send_to_gateway_expired name servers whose task takes packets out of its
\* queue, now or when its pause is over.
THEOREM UnicastsAreServed == Spec => []UnicastIsServed
<1>1. Init => Served
  BY DEF Init, InfoInit, Served
<1>2. Spec => []Served
  BY <1>1, SessionInvariant, ServedKeeps, PTL DEF Spec
<1>3. Served => UnicastIsServed
  <2>1. SUFFICES ASSUME Served, ~stopped,
                        NEW c \in ipv4_gateway_outbound
                            \cup (UNION {ipv4_outbound(h, NoRoutes) : h \in Hosts \cup Outside})
                            \cup (UNION {outbound_raw(h, NoRoutes) : h \in Hosts})
                            \cup (UNION {send_to_gateway_expired(s) : s \in Servers})
                 PROVE  session[c.at] \in {"linked", "pausing"}
    BY DEF UnicastIsServed
  <2>2. \/ c \in ipv4_gateway_outbound
        \/ \E h \in Hosts \cup Outside : c \in ipv4_outbound(h, NoRoutes)
        \/ \E h \in Hosts : c \in outbound_raw(h, NoRoutes)
        \/ \E s \in Servers : c \in send_to_gateway_expired(s)
    <3> DEFINE A == UNION {ipv4_outbound(h, NoRoutes) : h \in Hosts \cup Outside}
               B == UNION {outbound_raw(h, NoRoutes) : h \in Hosts}
               C == UNION {send_to_gateway_expired(s) : s \in Servers}
    <3>1. c \in A => \E h \in Hosts \cup Outside : c \in ipv4_outbound(h, NoRoutes)
      OBVIOUS
    <3>2. c \in B => \E h \in Hosts : c \in outbound_raw(h, NoRoutes)
      OBVIOUS
    <3>3. c \in C => \E s \in Servers : c \in send_to_gateway_expired(s)
      OBVIOUS
    <3>4. c \in ipv4_gateway_outbound \cup A \cup B \cup C
      OBVIOUS
    <3> HIDE DEF A, B, C
    <3> QED BY <3>1, <3>2, <3>3, <3>4
  <2>3. \E s \in Servers : c.at = s /\ connected[s]
    BY <2>2, UnicastToConnected
  <2> QED BY <2>1, <2>3 DEF Served
<1> QED BY <1>2, <1>3, PTL

\* register, the data tasks and stop_network do what Registration promises:
\* one address, entered after all servers agreed; sessions that end for good,
\* and together.
THEOREM SessionImplementsRegistration == Spec => KeepsPromise
<1>1. Spec => []SessionInv
  BY SessionInvariant, PTL
<1> QED BY <1>1, InitImplements, StepImplements, PTL DEF Spec, KeepsPromise, Promise!Spec
=============================================================================

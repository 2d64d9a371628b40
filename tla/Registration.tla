---------------------------- MODULE Registration ----------------------------
(***************************************************************************)
(* What a network promises about its address and its sessions, whatever    *)
(* the servers answer and whenever it is stopped: the address is entered   *)
(* once, after all servers agreed, and stays until the end; a session that *)
(* is gone does not come back; and none goes while the others carry on.    *)
(***************************************************************************)
CONSTANTS Servers, Addresses, NoAddr

VARIABLES
    members,    \* the servers of the network
    network,    \* the address of the network, once entered
    agreed,     \* servers that agreed
    online,     \* servers with a session that exchanges data
    gone,       \* servers whose session is over for good
    phase       \* "asking", "running", "stopping", "over"

vars == <<members, network, agreed, online, gone, phase>>

Init ==
    /\ members \subseteq Servers
    /\ network = NoAddr
    /\ agreed = {}
    /\ online = {}
    /\ gone = {}
    /\ phase = "asking"

Agree ==
    /\ phase \in {"asking", "stopping"}
    /\ network = NoAddr
    /\ \E s \in members : agreed' = agreed \cup {s}
    /\ UNCHANGED <<members, network, online, gone, phase>>

Enter ==
    /\ phase \in {"asking", "stopping"}
    /\ network = NoAddr
    /\ agreed = members
    /\ network' \in Addresses
    /\ phase' = IF phase = "asking" THEN "running" ELSE "stopping"
    /\ UNCHANGED <<members, agreed, online, gone>>

\* Only a network that was entered has sessions.
Connect(s) ==
    /\ agreed = members
    /\ phase # "asking"
    /\ s \notin gone
    /\ online' = online \cup {s}
    /\ UNCHANGED <<members, network, agreed, gone, phase>>

Disconnect(s) ==
    /\ online' = online \ {s}
    /\ UNCHANGED <<members, network, agreed, gone, phase>>

\* A session that ends takes the network with it.
End(s) ==
    /\ phase # "asking"
    /\ gone' = gone \cup {s}
    /\ online' = online \ {s}
    /\ phase' = IF phase = "running" THEN "stopping" ELSE phase
    /\ UNCHANGED <<members, network, agreed>>

Stop ==
    /\ phase \in {"asking", "running"}
    /\ phase' = "stopping"
    /\ UNCHANGED <<members, network, agreed, online, gone>>

Leave ==
    /\ network' = NoAddr
    /\ phase' = "over"
    /\ UNCHANGED <<members, agreed, online, gone>>

Next ==
    \/ Agree \/ Enter \/ Stop \/ Leave
    \/ \E s \in members : Connect(s) \/ Disconnect(s) \/ End(s)

Spec == Init /\ [][Next]_vars
=============================================================================

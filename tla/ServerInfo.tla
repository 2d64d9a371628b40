----------------------------- MODULE ServerInfo -----------------------------
(***************************************************************************)
(* What a client knows about its servers and about the other clients of    *)
(* the network (ServerInfoCollection, vnt-core/src/context/mod.rs): one    *)
(* node per server with the clients that server listed, and one list       *)
(* merged from all nodes.  The nodes and the list have a lock each.        *)
(* Updates hold both; clear() takes them one after the other.  The         *)
(* handlers that call these operations (server/inbound.rs) are actions     *)
(* here; when a message may arrive is left to the session that receives it.*)
(***************************************************************************)
EXTENDS Integers, FiniteSets

CONSTANTS
    Servers,    \* the servers of the configuration
    Hosts,      \* addresses a server may list, this client's own among them
    Self,       \* this client's address
    Rtts,       \* round trip times a reply can show, in milliseconds
    NoRtt       \* no reply yet

ASSUME ServerInfoAssumption ==
    /\ Self \in Hosts
    /\ Rtts \subseteq Nat
    /\ NoRtt \notin Nat

Statuses == {"absent", "offline", "online"}
NoClients == [h \in Hosts |-> "absent"]

VARIABLES
    connected,  \* server -> ServerNodeInfo.connected
    rtt,        \* server -> ServerNodeInfo.rtt
    clients,    \* server -> ServerNodeInfo.client_map
    listed,     \* client_simple_list
    clearing,   \* where clear() stands: "no", "half" (list emptied), "done"
    late        \* an update ran between the two halves of clear()

info_vars == <<connected, rtt, clients, listed, clearing, late>>

InfoTypeOK ==
    /\ connected \in [Servers -> BOOLEAN]
    /\ rtt \in [Servers -> Rtts \cup {NoRtt}]
    /\ clients \in [Servers -> [Hosts -> Statuses]]
    /\ listed \in [Hosts -> Statuses]
    /\ clearing \in {"no", "half", "done"}
    /\ late \in BOOLEAN

\* update_server: create_server_tunnel enters one empty node per server.
InfoInit ==
    /\ connected = [s \in Servers |-> FALSE]
    /\ rtt = [s \in Servers |-> NoRtt]
    /\ clients = [s \in Servers |-> NoClients]
    /\ listed = NoClients
    /\ clearing = "no"
    /\ late = FALSE

-----------------------------------------------------------------------------
\* A client is online when any server says so.
Merge(nodes) ==
    [h \in Hosts |->
        CASE \E s \in Servers : nodes[s][h] = "online" -> "online"
          [] \A s \in Servers : nodes[s][h] = "absent" -> "absent"
          [] OTHER -> "offline"]

\* The client map after a message: replaced by a full list, extended by a
\* partial one; this client itself is left out.
Received(old, list, is_all) ==
    [h \in Hosts |->
        IF h # Self /\ list[h] # "absent" THEN list[h]
        ELSE IF is_all THEN "absent" ELSE old[h]]

\* Mistaken variant of update_client_simple_list: the list is put together
\* before the message is entered in the node.
update_client_simple_list_early(s, list, is_all, delay) ==
    /\ rtt' = IF delay = NoRtt THEN rtt ELSE [rtt EXCEPT ![s] = delay]
    /\ clients' = [clients EXCEPT ![s] = Received(clients[s], list, is_all)]
    /\ listed' = Merge(clients)
    /\ late' = (late \/ clearing = "half")
    /\ UNCHANGED <<connected, clearing>>

\* Both locks are held from the first change to the last.  The clock may not
\* have moved since the server's time stamp: then the rtt stays.
update_client_simple_list(s, list, is_all, delay) ==
    /\ rtt' = IF delay = NoRtt THEN rtt ELSE [rtt EXCEPT ![s] = delay]
    /\ clients' = [clients EXCEPT ![s] = Received(clients[s], list, is_all)]
    /\ listed' = Merge(clients')
    /\ late' = (late \/ clearing = "half")
    /\ UNCHANGED <<connected, clearing>>

\* PushClientIps from server s.
PushClientIps(s) ==
    \E list \in [Hosts -> Statuses], is_all \in BOOLEAN, delay \in Rtts \cup {NoRtt} :
        update_client_simple_list(s, list, is_all, delay)

\* PongTurn from server s.
set_server_rtt(s) ==
    /\ \E delay \in Rtts : rtt' = [rtt EXCEPT ![s] = delay]
    /\ UNCHANGED <<connected, clients, listed, clearing, late>>

set_server_connected(s, val) ==
    /\ connected' = [connected EXCEPT ![s] = val]
    /\ UNCHANGED <<rtt, clients, listed, clearing, late>>

clear_list ==
    /\ clearing = "no"
    /\ listed' = NoClients
    /\ clearing' = "half"
    /\ UNCHANGED <<connected, rtt, clients, late>>

clear_nodes ==
    /\ clearing = "half"
    /\ connected' = [s \in Servers |-> FALSE]
    /\ rtt' = [s \in Servers |-> NoRtt]
    /\ clients' = [s \in Servers |-> NoClients]
    /\ clearing' = "done"
    /\ UNCHANGED <<listed, late>>

-----------------------------------------------------------------------------
\* The list says of every client what the nodes together say, at every moment
\* the locks can be taken: replies of several servers, full and partial, in
\* any order, disconnections, and the end.  Between the halves of clear() the
\* nodes are ahead, and an update that falls there is the only way for the two
\* to disagree for good.
ListAgrees ==
    clearing = "half" \/ late \/
    \A h \in Hosts :
        /\ listed[h] = "online" <=> \E s \in Servers : clients[s][h] = "online"
        /\ listed[h] = "absent" <=> \A s \in Servers : clients[s][h] = "absent"
=============================================================================

-------------------------------- MODULE Rpc --------------------------------
(***************************************************************************)
(* Requests of the client to its servers (tunnel_core/server/rpc.rs).      *)
(* Every server has a counter of request numbers and a map from number to  *)
(* the waiter of the response.  client_list asks the servers one after the *)
(* other and leaves out those that fail.  Requests and responses may be    *)
(* lost, late or repeated.                                                 *)
(***************************************************************************)
EXTENDS Integers, FiniteSets

CONSTANTS
    Gateways,   \* servers with a notifier
    Askers,     \* tasks that call client_list
    Nobody,     \* no server, no response
    MaxCalls    \* bound on the calls of client_list

\* A request on its way, and who waits with it.
Requests == [server : Gateways, id : Nat, by : Askers, call : Nat]

ASSUME RpcAssumption ==
    /\ Nobody \notin Gateways
    /\ Nobody \notin Requests
    /\ MaxCalls \in Nat

VARIABLES
    rpc_id,     \* server -> RpcNotifier.rpc_id
    pending,    \* server -> the numbers in pending_requests
    sent,       \* requests a server may have received: [server, id, by, call]
    todo,       \* caller -> servers client_list has still to ask
    request,    \* caller -> the request it waits with, or Nobody
    at,         \* caller -> "idle", "asking", "created", "waiting", "leaving"
    mail,       \* caller -> the request whose response its channel holds
    lists,      \* caller -> servers whose list it has in this call
    calls       \* calls begun

rpc_vars == <<rpc_id, pending, sent, todo, request, at, mail, lists, calls>>

RpcInit ==
    /\ rpc_id = [s \in Gateways |-> 0]
    /\ pending = [s \in Gateways |-> {}]
    /\ sent = {}
    /\ todo = [c \in Askers |-> {}]
    /\ request = [c \in Askers |-> Nobody]
    /\ at = [c \in Askers |-> "idle"]
    /\ mail = [c \in Askers |-> Nobody]
    /\ lists = [c \in Askers |-> {}]
    /\ calls = 0

-----------------------------------------------------------------------------
client_list(c) ==
    /\ at[c] = "idle"
    /\ calls < MaxCalls
    /\ calls' = calls + 1
    /\ at' = [at EXCEPT ![c] = "asking"]
    /\ todo' = [todo EXCEPT ![c] = Gateways]
    /\ lists' = [lists EXCEPT ![c] = {}]
    /\ UNCHANGED <<rpc_id, pending, sent, request, mail>>

client_list_returns(c) ==
    /\ at[c] = "asking"
    /\ todo[c] = {}
    /\ at' = [at EXCEPT ![c] = "idle"]
    /\ UNCHANGED <<rpc_id, pending, sent, todo, request, mail, lists, calls>>

\* Mistaken variant of create_request_and_waiter: the number is taken from how
\* many wait, so numbers come back.
create_request_and_waiter_reused(c) ==
    /\ at[c] = "asking"
    /\ \E s \in todo[c] : LET id == Cardinality(pending[s]) + 1 IN
        /\ pending' = [pending EXCEPT ![s] = @ \cup {id}]
        /\ request' = [request EXCEPT ![c] = [server |-> s, id |-> id, by |-> c, call |-> calls]]
        /\ todo' = [todo EXCEPT ![c] = @ \ {s}]
    /\ mail' = [mail EXCEPT ![c] = Nobody]
    /\ at' = [at EXCEPT ![c] = "created"]
    /\ UNCHANGED <<rpc_id, sent, lists, calls>>

\* The next server in any order; the number is new, the channel empty.
create_request_and_waiter(c) ==
    /\ at[c] = "asking"
    /\ \E s \in todo[c] : LET id == rpc_id[s] + 1 IN
        /\ rpc_id' = [rpc_id EXCEPT ![s] = id]
        /\ pending' = [pending EXCEPT ![s] = @ \cup {id}]
        /\ request' = [request EXCEPT ![c] = [server |-> s, id |-> id, by |-> c, call |-> calls]]
        /\ todo' = [todo EXCEPT ![c] = @ \ {s}]
    /\ mail' = [mail EXCEPT ![c] = Nobody]
    /\ at' = [at EXCEPT ![c] = "created"]
    /\ UNCHANGED <<sent, lists, calls>>

\* send_to_gateway_expired: not connected, or the queue stays full for a
\* second; otherwise the request is queued, and is sent or expires.
client_list_target(c) ==
    /\ at[c] = "created"
    /\ \/ /\ at' = [at EXCEPT ![c] = "leaving"]
          /\ UNCHANGED sent
       \/ /\ at' = [at EXCEPT ![c] = "waiting"]
          /\ sent' \in {sent, sent \cup {request[c]}}
    /\ UNCHANGED <<rpc_id, pending, todo, request, mail, lists, calls>>

\* A response to any request that was ever sent, as often as the network likes.
\* A number nobody waits with is ignored; so is the mail of a dropped receiver.
notify_response(s) ==
    \E r \in sent :
        /\ r.server = s
        /\ r.id \in pending[s]
        /\ pending' = [pending EXCEPT ![s] = @ \ {r.id}]
        /\ mail' = [c \in Askers |->
                IF at[c] = "waiting" /\ request[c].server = s /\ request[c].id = r.id
                THEN r ELSE mail[c]]
        /\ UNCHANGED <<rpc_id, sent, todo, request, at, lists, calls>>

\* The response is there, also when it came with the time-out.
wait_for_response(c) ==
    /\ at[c] = "waiting"
    /\ mail[c] # Nobody
    /\ lists' = [lists EXCEPT ![c] = @ \cup {mail[c]}]
    /\ at' = [at EXCEPT ![c] = "leaving"]
    /\ UNCHANGED <<rpc_id, pending, sent, todo, request, mail, calls>>

wait_times_out(c) ==
    /\ at[c] = "waiting"
    /\ mail[c] = Nobody
    /\ at' = [at EXCEPT ![c] = "leaving"]
    /\ UNCHANGED <<rpc_id, pending, sent, todo, request, mail, lists, calls>>

\* RpcResponseWaiter::drop, on every way out.
drop_waiter(c) ==
    /\ at[c] = "leaving"
    /\ pending' = [pending EXCEPT ![request[c].server] = @ \ {request[c].id}]
    /\ request' = [request EXCEPT ![c] = Nobody]
    /\ at' = [at EXCEPT ![c] = "asking"]
    /\ UNCHANGED <<rpc_id, sent, todo, mail, lists, calls>>

RpcNext ==
    \/ \E s \in Gateways : notify_response(s)
    \/ \E c \in Askers :
        \/ client_list(c) \/ client_list_returns(c) \/ create_request_and_waiter(c)
        \/ client_list_target(c) \/ wait_for_response(c) \/ wait_times_out(c)
        \/ drop_waiter(c)

RpcSpec == RpcInit /\ [][RpcNext]_rpc_vars

-----------------------------------------------------------------------------
\* Late and repeated responses never reach another request: whatever a caller
\* takes for its answer was given to its own request of this very call.  And
\* whichever way a request ends, by answer, time-out or a failed send, nothing
\* of it stays in the map for a later response to find.
AnswersOwnRequest ==
    /\ \A c \in Askers :
        /\ mail[c] # Nobody => mail[c].by = c
        /\ at[c] = "waiting" /\ mail[c] # Nobody => mail[c] = request[c]
    /\ \A s \in Gateways : \A id \in pending[s] :
        \E c \in Askers : request[c] # Nobody /\ request[c].server = s /\ request[c].id = id
=============================================================================

------------------------------- MODULE MCParts -------------------------------
(***************************************************************************)
(* The components that keep a state of their own and share none with the   *)
(* others, side by side: a behaviour takes one of them and runs it, the    *)
(* others stay in their initial state.  Every component has all of its     *)
(* behaviours here, and a state of two components at once would say no     *)
(* more about either.                                                      *)
(***************************************************************************)
EXTENDS Outbound, Rpc, Mesh, Manager, PortMapping, UdpNat, Stats, Delivery, Relay

VARIABLE part   \* the component that runs

MCLinks == {<<1, 2>>, <<2, 1>>, <<2, 3>>, <<3, 2>>, <<3, 1>>}
MCSubnetRoute == [d \in Outside |-> NoHost]

MCConfig == [n \in Ends |-> [tun |-> TRUE, nat |-> TRUE, quic |-> TRUE, mapping |-> TRUE]]

parts_vars == <<part, info_vars, rpc_vars, mesh_vars, manager_vars, mapping_vars,
                nat_vars, stats_vars, delivery_vars, relay_vars>>

\* What the broadcasts need of a session: full lists and round trip times
\* arrive, connections come and go.  (Broadcasts do not tell a client that is
\* offline from one that is not listed.)
InfoNext ==
    \E s \in Servers :
        \/ \E list \in [Hosts -> {"absent", "online"}] :
            list[Self] = "absent" /\ update_client_simple_list(s, list, TRUE, NoRtt)
        \/ set_server_rtt(s)
        \/ \E val \in BOOLEAN : set_server_connected(s, val)

Init ==
    /\ part \in {"info", "rpc", "mesh", "manager", "mapping", "nat", "stats", "delivery", "relay"}
    /\ InfoInit /\ RpcInit /\ MeshInit /\ ManagerInit /\ MappingInit
    /\ StatsInit /\ RelayInit
    /\ InitDelivery
    /\ part # "delivery" => config = MCConfig /\ flow = [proto |-> "tcp", dest |-> "self"]
    /\ NatInit
    /\ part # "nat" => \A s, t \in Sockets : owner[s] = owner[t]

Next ==
    /\ UNCHANGED part
    /\ \/ part = "info" /\ InfoNext /\ UNCHANGED
            <<rpc_vars, mesh_vars, manager_vars, mapping_vars, nat_vars,
              stats_vars, delivery_vars, relay_vars>>
       \/ part = "rpc" /\ RpcNext /\ UNCHANGED
            <<info_vars, mesh_vars, manager_vars, mapping_vars, nat_vars,
              stats_vars, delivery_vars, relay_vars>>
       \/ part = "mesh" /\ MeshNext /\ UNCHANGED
            <<info_vars, rpc_vars, manager_vars, mapping_vars, nat_vars,
              stats_vars, delivery_vars, relay_vars>>
       \/ part = "manager" /\ ManagerNext /\ UNCHANGED
            <<info_vars, rpc_vars, mesh_vars, mapping_vars, nat_vars,
              stats_vars, delivery_vars, relay_vars>>
       \/ part = "mapping" /\ MappingNext /\ UNCHANGED
            <<info_vars, rpc_vars, mesh_vars, manager_vars, nat_vars,
              stats_vars, delivery_vars, relay_vars>>
       \/ part = "nat" /\ NatNext /\ UNCHANGED
            <<info_vars, rpc_vars, mesh_vars, manager_vars, mapping_vars,
              stats_vars, delivery_vars, relay_vars>>
       \/ part = "stats" /\ StatsNext /\ UNCHANGED
            <<info_vars, rpc_vars, mesh_vars, manager_vars, mapping_vars,
              nat_vars, delivery_vars, relay_vars>>
       \/ part = "delivery" /\ DeliveryNext /\ UNCHANGED
            <<info_vars, rpc_vars, mesh_vars, manager_vars, mapping_vars,
              nat_vars, stats_vars, relay_vars>>
       \/ part = "relay" /\ RelayNext /\ UNCHANGED
            <<info_vars, rpc_vars, mesh_vars, manager_vars, mapping_vars,
              nat_vars, stats_vars, delivery_vars>>

Spec == Init /\ [][Next]_parts_vars
=============================================================================

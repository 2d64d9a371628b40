------------------------------ MODULE Delivery ------------------------------
(***************************************************************************)
(* What becomes of a packet of the user: it leaves its node plainly or     *)
(* through the node's own IP stack and a QUIC stream (enhanced_tunnel/,    *)
(* quic_over/), and ends at the other node in the device, in the internal  *)
(* NAT or nowhere (nat/internal_nat/, tun/).  The two roads are decided by *)
(* different code at both ends, and nodes are configured independently.    *)
(* One conversation, of an asker with an answerer; a port mapping is one   *)
(* whose asker is a local program.                                         *)
(***************************************************************************)
EXTENDS Integers

Ends == {"asker", "answerer"}

\* The switches of a node: a device (not no_tun), the internal NAT, rtx (which
\* opens the QUIC client) and allow_mapping.
Switches == [tun : BOOLEAN, nat : BOOLEAN, quic : BOOLEAN, mapping : BOOLEAN]

\* Where it goes: to the answerer, to another address of the network (only a
\* port mapping can ask for it), into a network the answerer serves (output),
\* into one it does not, or where the asker has no route.
Dests == {"self", "member", "behind", "outside", "unrouted"}

VARIABLES
    config, \* end -> its switches
    flow,   \* [proto, dest] of the conversation
    road,   \* "none", "plain" or "quic": how its first packet left the asker
    fate,   \* where that packet ended, or "pending"
    known,  \* end -> the connection in its IP stack: "none", "half" (open), "up"
    broken, \* ends whose relay between a stream and a connection is over
    last    \* the last packet a host sent: [from, cut, stack], or NoPacket

delivery_vars == <<config, flow, road, fate, known, broken, last>>

NoPacket == [from |-> "asker", cut |-> TRUE, stack |-> TRUE]

-----------------------------------------------------------------------------
\* The addresses of the network, and those of the answerer's output.
network_contains(dest) == dest \in {"self", "member"}
allow(dest) == dest = "behind"
route(dest) == network_contains(dest) \/ dest \in {"behind", "outside"}

mapped == flow.proto \in {"tcp_map", "udp_map"}

\* A node without a device has the internal NAT whatever no_nat says.
create_network(c) == c.nat \/ c.tun

InitDelivery ==
    /\ config \in [Ends -> {c \in Switches : create_network(c)}]
    /\ flow \in [proto : {"tcp", "udp", "icmp"}, dest : Dests \ {"member"}]
             \cup [proto : {"tcp_map", "udp_map"}, dest : {"self", "member", "outside"}]
    /\ mapped \/ config["asker"].tun
    /\ road = "none" /\ fate = "pending"
    /\ known = [n \in Ends |-> "none"]
    /\ broken = {}
    /\ last = NoPacket

-----------------------------------------------------------------------------
(* Leaving a node.                                                         *)

\* Mistaken variant of outbound: a connection being opened is not looked for.
outbound_up(n, first, cut) ==
    IF config[n].quic
    THEN flow.proto = "tcp" /\ ~first /\ ~cut => known[n] = "up"
    ELSE flow.proto = "tcp" /\ ~cut /\ known[n] = "up"

\* Does the QUIC layer take a packet of the conversation?  With the QUIC client
\* it takes all but TCP packets of connections that its stack does not know,
\* and of those it can tell: not the pieces of a packet.  Without, only answers
\* on connections its stack has opened.
outbound(n, first, cut) ==
    IF config[n].quic
    THEN flow.proto = "tcp" /\ ~first /\ ~cut => known[n] \in {"half", "up"}
    ELSE flow.proto = "tcp" /\ ~cut /\ known[n] = "up"

\* The first packet.  A port mapping always takes a stream.
ipv4_outbound_impl ==
    /\ road = "none"
    /\ road' = IF mapped \/ outbound("asker", TRUE, FALSE)
               THEN "quic" ELSE "plain"
    /\ known' = IF flow.proto = "tcp" /\ road' = "quic"
                THEN [known EXCEPT !["asker"] = "half"] ELSE known
    /\ UNCHANGED <<config, flow, fate, broken, last>>

-----------------------------------------------------------------------------
(* Arriving at the answerer.                                               *)

\* The device takes what the network or output contains, and so does the NAT's
\* stack.
admitted(dest) == network_contains(dest) \/ allow(dest)

\* What a node connects to for a protocol: without a device it has its tunnel
\* address nowhere, so the local host is meant.  UDP is not told.
Local(c, dest) == ~c.tun /\ dest = "self"
listen_task(c, dest) == IF Local(c, dest) THEN "localhost" ELSE "socket"
inner_icmp_socket_recv(c, dest) == IF Local(c, dest) THEN "localhost" ELSE "socket"
udp_connect(c, dest) == IF Local(c, dest) THEN "stray" ELSE "socket"

\* The NAT's own stack, and what it is given.
nat_stack(c, proto, dest) ==
    CASE proto = "tcp"  -> listen_task(c, dest)
      [] proto = "icmp" -> inner_icmp_socket_recv(c, dest)
      [] proto = "udp"  -> udp_connect(c, dest)

nat_send(c, proto, dest) ==
    IF admitted(dest) THEN nat_stack(c, proto, dest) ELSE "dropped"
tun_send(dest) == IF admitted(dest) THEN "device" ELSE "dropped"

\* A packet that came plainly.
inbound(c, proto, dest) ==
    IF ~c.tun \/ (c.nat /\ ~network_contains(dest)) THEN nat_send(c, proto, dest)
    ELSE tun_send(dest)

\* Mistaken variant of use_nat: the network is not left to the device.
use_nat_any(c, dest) == network_contains(dest) \/ allow(dest)

use_nat(c, dest) ==
    IF ~c.tun THEN allow(dest) \/ network_contains(dest)
    ELSE ~network_contains(dest) /\ allow(dest)

\* What comes out of the stack of the QUIC layer goes to the device as well.
ip_stack_recv_task(dest) == tun_send(dest)

\* A connection that a stream goes on to directly.
tcp_nat(c, dest) ==
    IF Local(c, dest) THEN "localhost"
    ELSE IF ~c.tun /\ network_contains(dest) THEN "dropped" ELSE "socket"

\* A stream of a TCP connection, and one of packets.
quic_stream_bi_handle(c, dest) ==
    IF (c.nat \/ ~c.tun) /\ use_nat(c, dest) THEN tcp_nat(c, dest)
    ELSE IF c.tun THEN ip_stack_recv_task(dest) ELSE "dropped"

quic_stream_uni_handle(c, proto, dest) ==
    IF (c.nat \/ ~c.tun) /\ use_nat(c, dest) THEN nat_stack(c, proto, dest)
    ELSE IF c.tun THEN ip_stack_recv_task(dest) ELSE "dropped"

\* A stream of a port mapping.
port_mapping(c, dest) ==
    IF ~c.mapping \/ (~c.tun /\ dest = "member") THEN "dropped"
    ELSE IF ~c.tun /\ dest = "self" THEN "localhost" ELSE "socket"

\* The question reaches the answerer, or has no route.  A TCP stream is opened
\* when the asker's stack has the connection; an answerer that passes it on to
\* its device has the connection in its own stack, opened by itself.
Arrive ==
    /\ fate = "pending"
    /\ road # "none"
    /\ flow.proto = "tcp" /\ road = "quic" => known["asker"] = "up"
    /\ LET c == config["answerer"]
       IN  fate' = IF mapped THEN port_mapping(c, flow.dest)
                   ELSE IF ~route(flow.dest) THEN "dropped"
                   ELSE IF road = "plain" THEN inbound(c, flow.proto, flow.dest)
                   ELSE IF flow.proto = "tcp" THEN quic_stream_bi_handle(c, flow.dest)
                   ELSE quic_stream_uni_handle(c, flow.proto, flow.dest)
    /\ known' = IF flow.proto = "tcp" /\ road = "quic" /\ fate' = "device"
                THEN [known EXCEPT !["answerer"] = "up"] ELSE known
    /\ UNCHANGED <<config, flow, road, broken, last>>

-----------------------------------------------------------------------------
\* A host sends another packet of a connection; answers come from a host only
\* when the question reached a device.  The asker's first one completes the
\* opening with its own stack.
HostSends(n, cut) ==
    /\ flow.proto = "tcp"
    /\ IF n = "asker" THEN road # "none" ELSE fate = "device"
    /\ last' = [from |-> n, cut |-> cut, stack |-> outbound(n, FALSE, cut)]
    /\ known' = IF known[n] = "half" /\ last'.stack
                THEN [known EXCEPT ![n] = "up"] ELSE known
    /\ UNCHANGED <<config, flow, road, fate, broken>>

\* A relay ends, for one of many reasons, and takes its connection along.
RelayEnds(n) ==
    /\ known[n] = "up"
    /\ fate # "pending"
    /\ known' = [known EXCEPT ![n] = "none"]
    /\ broken' = broken \cup {n}
    /\ UNCHANGED <<config, flow, road, fate, last>>

DeliveryNext ==
    \/ ipv4_outbound_impl
    \/ Arrive
    \/ \E n \in Ends : RelayEnds(n) \/ \E cut \in BOOLEAN : HostSends(n, cut)

DeliverySpec == InitDelivery /\ [][DeliveryNext]_delivery_vars

-----------------------------------------------------------------------------
\* Both roads end alike, for all switches of both nodes: in the device if there
\* is one, except that a node with the NAT serves the networks behind it by
\* sockets; nowhere if the answerer does not serve the destination.  Without a
\* device the answerer's own address is its local host, for all but UDP; and
\* streams of port mappings, too, never take an address of the network to a
\* socket there.
FateIsDue ==
    LET c == config["answerer"]
    IN  /\ fate # "pending" /\ ~mapped =>
               fate = CASE flow.dest \in {"outside", "unrouted"} -> "dropped"
                        [] flow.dest = "behind" -> IF c.nat \/ ~c.tun THEN "socket" ELSE "device"
                        [] flow.dest = "self" ->
                               IF c.tun THEN "device"
                               ELSE IF flow.proto = "udp" THEN "stray" ELSE "localhost"
        /\ mapped /\ ~c.tun /\ network_contains(flow.dest) => fate # "socket"

\* A connection keeps to the road it was opened on at both ends, whatever the
\* other end's switches: a host that has it with a stack never gets packets of
\* the far host, whose numbering is another, until a relay of it has ended; and
\* no stack is given packets of a connection it has not, except in pieces.
StaysOnItsRoad ==
    last # NoPacket /\ ~last.cut =>
        IF road = "quic" THEN last.stack \/ last.from \in broken ELSE ~last.stack
=============================================================================

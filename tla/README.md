# A verification development for the VNT 2.0 client

TLA+ models of the VNT 2.0 client (`src/vnt-2.0.0`, a virtual network over
servers and punched peer-to-peer tunnels, in Rust; `src/vntc2_flutter`, a
desktop interface), TLC runs of them on small instances, and TLAPS proofs about
them. `PROJECT.json` maps every definition to the lines it stands for and lists
runs, mutants, findings, hazards and theorems. Below, `core/` stands for
`src/vnt-2.0.0/vnt-core/src/`.

## 1. The system

A client registers with one or more servers, which give it a virtual address
and tell it who else is there. Packets of the tunnel device go to a peer over
a punched UDP or TCP key when the route table has one, and through a server
otherwise. Each part runs as tokio tasks that share maps behind locks; all tasks
of a network belong to one task group, and stopping the group stops the network.

| component | state | operations | interacts with | hard because | correct when |
|---|---|---|---|---|---|
| Task group `core/utils/task_control.rs` | stopped flag, map of handles | spawn, stop, task ends, SubTask::stop, wait_all_stopped | every task | ends race with stop; wake-ups are not kept | the map is exactly the live tasks; stopped is for good; waiters return, not early |
| Route table `core/tunnel_core/p2p/route_table.rs` | routes, owner and time maps, three locks | add_owner_route, add_route, add_route_if_absent, remove_route, remove_oldest_route | receive loops, timeout, probes, outbound | operations release one lock and take another | routes expire, lists are sorted and without doubles, removals hit what they meant |
| Receive loops and probes `core/tunnel_core/p2p/inbound.rs`, `transport/task.rs`, `outbound.rs` | ttl in packets | forward, Ping, Pong, punch packets, ping_all, relay probe | route table, FEC, outbound | packets of several peers interleave, relays | hop counts are right, no packet circulates, relay routes are found |
| Hole punching `transport/punch.rs`, `core/context/nat.rs` | back-off per peer, NAT data | PunchStart1, PunchStart2, PunchReq, PunchRes | servers, route table | lost, late and repeated messages | one side begins, the back-off holds, routes found have the right metric |
| Server session `core/tunnel_core/server/connection_manager.rs` | connection, registration, queue | coordinated registration, data loop, reconnect | servers, group, server information | partial failure, time-outs, address change | all servers agree on one address or the network does not start |
| Server inbound and outbound `server/inbound.rs`, `server/outbound.rs` | queues per server | send, broadcast, handle server data | server information | several servers know overlapping sets of peers | a broadcast reaches each online peer once |
| Server information `core/context/mod.rs` | client list, server nodes, statistics | update list, connected, clear | session, outbound, punching | two locks, incremental lists | the merged list is the union of the servers' lists |
| RPC `server/rpc.rs` | pending requests | request, response, time-out | session | late and lost responses | an answer reaches its request, nothing is left pending |
| FEC `core/fec` | batches per destination, groups per source | encode, parity, receive, recover, clean up | outbound, inbound | loss, duplication, reordering | no received packet is lost, none is delivered twice |
| Outbound path `core/tunnel_core/outbound.rs` | none of its own | direct, relayed, broadcast | route table, servers, FEC | routes and lists change under it | a packet goes where somebody takes it |
| Network manager `core/core/mod.rs` | all of the above | create, register, start_tun, stop, wait | everything | failures half way | what was begun is ended |
| Subnet routes and NAT `core/nat` | entries per flow | open, forward, collect | tunnel device | entry and task end separately | an entry that is in use is not removed |
| QUIC over the tunnel `core/enhanced_tunnel/quic_over` | pool of connections | connect, stream, accept | NAT, port mapping | concurrent connects | one connection per peer, replaced when dead |
| Port mapping `core/port_mapping` | UDP sessions | accept, forward, time out | QUIC | time-outs | a live session stays |
| Tunnel device `core/tun` | device and its two tasks | start_task, stop_task, set address | group, outbound | stop while starting | at most one pair of tasks |
| Header, messages, encryption, compression `core/protocol`, `core/crypto`, `core/compression` | none | encode, decode | all packets | boundaries of lengths and flags | decoding gives back what was encoded |
| Transports, TLS, DNS | sockets | connect, send, receive | session | I/O | outside these models |
| Web service `src/vnt-2.0.0/vnt-web/src/service_http.rs` | status, handle, slot, configuration files | start, stop, restart, files, information | network manager, task group | concurrent requests, late scope guards | one network at a time; what failed can be started again |
| Command line and control `src/vnt-2.0.0/src`, `vnt-ipc` | none | wait for the end, queries | network manager | stop and ctrl-c race | it ends when the network ended |
| Profile manager `src/vnt-2.0.0/vntc-manager` | sessions (child processes) | connect, disconnect, shutdown | command line client | concurrent requests, failed kills | a profile has one child, and it is known |
| Desktop interface `src/vntc2_flutter` | profiles, polled state | poll, connect, edit | profile manager | answers out of order | the state shown is the latest |

## 2. Modules

| module | models | theorems in |
|---|---|---|
| `RouteTable` | the route table with the loops and the timeout task that use it | `RouteTableProofs` |
| `TaskGroup` | the task group, its guards, waiters and stoppers | `TaskGroupProofs` |
| `WebService` | the life cycle of the network behind the web interface | `WebServiceProofs` |
| `Fec` | encoder, worker and decoder of forward error correction, and who gets what it returns | `FecProofs` (sender), `FecDecoderProofs` (receiver) |
| `ServerInfo` | what a client knows of its servers and of the other clients | `SessionProofs` |
| `Outbound` | to whom a packet goes: peer, server, split of a broadcast | `SessionProofs` |
| `Session` | registration, the data task per server, stop and drop of one network | `SessionProofs` |
| `Registration` | abstract: what a network promises about address and sessions | implemented by `Session` |
| `Rpc` | requests to servers and their responses | `PartsProofs` |
| `Mesh` | punching, pinging, probing and forwarding among several clients | `PartsProofs` |
| `Manager` | the profile manager and the desktop's use of it | `PartsProofs` |
| `QuicPool`, `PortMapping` | pooled connections; the tasks of UDP mappings on top of them | `EnhancedTunnelProofs` |
| `UdpNat` | the UDP table of the internal NAT | `EnhancedTunnelProofs` |
| `Stats` | the counters per peer | `PartsProofs` |
| `Delivery` | the plain road and the QUIC road of a packet, and where they end | `EnhancedTunnelProofs` |
| `Relay` | the two relays of a TCP connection carried by a stream | `EnhancedTunnelProofs` |

```
ServerInfo <- Outbound <- Session <- MCClient         QuicPool <- PortMapping
                             |                                       |
                    (implements Registration)      MCParts: Outbound, Rpc, Mesh, Manager,
                                                   PortMapping, UdpNat, Stats, Delivery, Relay
```

`Session` composes three modules that share state: its tasks update `ServerInfo`,
and `Outbound` reads both that and, in `UnicastIsServed`, the state of the tasks.
`PortMapping` composes with `QuicPool` in the same way. The other parts keep
state of their own, and where one depends on another (a route, a configuration, a message of a
server) it takes any that the other could give: `MCParts` runs each alone, with a variable
`part` that says which. `MCRouteTable`, `MCFec` and `MCClient` hold instances; `TaskGroup`
and `WebService` need none. Operators that are named
`..._something` under a comment "Mistaken variant" are not part of a
specification: each is a plausible bug in the operator it is named after, kept
to show that the property beside it would notice.

### RouteTable

State: `route_table`, `route_key_owner` and `route_key_time` are the three maps
of `RouteTableInner`, the time map holding ages in ticks of ten seconds instead
of instants; `expired_keys` is the local vector of `remove_oldest_route`;
`task[t]` is what a receive loop remembers between two lock sections; `silent`
holds the keys whose remote end is gone. An action is one lock section:

- `PunchArrives`, `PongArrives`: one section, the table's write lock is held from
  start to end.
- `PingArrives`/`PingAdds`: `add_route_if_absent` tests under the read lock and
  inserts under the write lock.
- `TcpCloses`/`TcpRemoves`: `tcp_disconnect` looks the owner up and then removes.
- `SweepCollects`/`SweepRetains`: the two halves of `remove_oldest_route`.
  The second half handles the expired pairs one by one under locks it does
  not release, hence `sweep_holds_locks`, which blocks everyone else. The age is
  read where the time lock is held.

A route's position after an update is given by its condition (`RestPosition`,
where the two bubble passes end), not by the loop. Environment: a route key
belongs to one tunnel and a tunnel handles its packets in turn
(`RouteTableAssumption`), which is how `tunnel_dispatch_task` spawns its loops.

### TaskGroup

`stopped` and `tasks` are `TaskGroupState`; `phase[t]` says whether a task runs,
was told to end, or has left the map and is about to notify. Aborting and dropping
the future are different moments, as they are in tokio. `wait_all_stopped` has
its three steps, so the gap between the look and `notified()` is in the model.
A task whose future is dropped after the group itself finds no group to tell.

### WebService

`status` and `vnt` are `HttpAppStateInner`, `slot` is `TaskGroupManager`,
`group[r]` the task group that start `r` created. `pc[r]` follows a request
through its handler and, for a start, through the spawned task; `held[r]` are
the scope guards of that start that have not run. A failing start drops
`vnt_cleanup_guard`, then `task_group_guard`, then writes the log, then drops
`on_error_guard`; a stopped group drops the waiter with its two guards. What a
guard does on the shared state is one lock section, and other requests come between.

### Fec

One sender and one destination. At the sender, `group_id` and `current_batch`
are `DestBatchState` and `batch_tx` the channel to the worker; `encode` is
`FecEncoder::encode` with its `try_send`, `full_batch` and `timeout_batch` are the two
branches of the worker's `select!`. At the receiver, `groups` is the decoder's
map; instants are replaced by their order (`by_age`), by how many groups are
past `GROUP_TIMEOUT` (`expired`) and by whether a clean-up is due. `receive` holds
the decoder's lock from start to end, so each way through it is one action:
`Ignores`, `Completes`, `Keeps`, `Recovers`, `FailsToRecover`, with the clean-up at
its end and the loop of the receive handler over what it returns.

- `net` only grows and a message in it may be received at any time, any number of
  times or never: loss, duplication and reordering in one.
- The bytes of a shard are the packets it was computed from, and the reconstruction
  gives back the missing packets of the batch. Its two conditions are kept:
  the number of places and the equality of lengths (`CanReconstruct`).
- One byte is not given back, the flags. `FlagFlips` is a constant that says for which
  patterns of present shards the field arithmetic changes the compressed bit;
  `FlipsUpTo3` is its value for groups of at most three with up to two parity packets,
  worked out in GF(2^8) with the library's polynomial. Where compression is off the flags
  have no reader.
- `arrived`, `handed`, `delivered`, `forgotten` and `unprotected` are history variables:
  no guard reads them. `delivered` counts to `DELIVERED_CAP` = 2, which is once too often.
- `receive` has further early returns (`packet_index` or shard counts above `MAX_NUM`, shard
  counts that differ from the group's). No message of this encoder meets them within
  one life of the sender, so they have no action; `ParityAgrees` in `FecDecoderProofs`
  shows it for the differing counts.

### ServerInfo, Outbound, Session

`ServerInfo` has the two structures of `ServerInfoCollection`: a node per server
(`connected`, `rtt`, `clients`) and the merged list (`listed`). An update holds
both locks and is one action; `clear()` takes them one after the other and is
two (`clear_list`, `clear_nodes`). `late` remembers an update between the two.
`Merge` gives the list its contents directly: the code's loop over servers lets an
online entry win. The `client_map` of a server holds other clients only (`Received`).

`Outbound` has no variables. Its operators return sets of copies
`[via, at, for]`: to which peer or server's queue, and for which clients. Where the code
depends on the order of a hash map, on a full queue or on a socket, the operator returns
every outcome (`Nearest`, `MainServers`, `p2p_broadcast`).

`Session` follows one `NetworkManager`: `stage` is where `register` stands, `answer`
and `agreed` are the results of the current `join_all`, `wanted` is the address in
`ConnectRegConfig`, `leased` the one in the last reply. Between `PreRegisterFirst`
and `PreRegistered` all other servers are asked at once, and any of them may refuse or stay
silent. `session[s]` is the data task of server s: it waits a
second after losing its connection (`pausing`), asks again (`connecting`) and waits five
seconds after a failure (`waiting`). Silence is counted in ping ticks of five seconds. A
reply with another address, an error or a reply of another kind ends the task and stops the
group. Stopping only marks the tasks: each goes on until its next await (`TaskDropped`), so a
task may still handle a message while `stop_network` clears the lists.
A server may answer in any way; those in `Honest` grant the address they are asked for.

`Registration` is the promise without the mechanism: the address is entered once, after
all servers agreed; a session that is gone does not come back; one that ends takes the others
with it. The refinement mapping (`OnlineNow`, `GoneNow`, `PhaseNow`) forgets stages,
answers, lists and silence.

### Rpc, Mesh

`Rpc`: `rpc_id` and `pending` are the counter and the map of a server's notifier, `request`
what a caller waits with, `mail` its one-shot channel. Creating the request, sending,
waiting, timing out and dropping the waiter are separate; `sent` only grows, so responses
come late, twice or never. (The counter has 64 bits and does not wrap.)

`Mesh`: a packet carries its type, source, destination, ttl and the neighbours it goes
between, with a history field `hops`. `Links` says between which nodes packets can pass: in the
run one pair has a link in one direction only, so that a third node is needed as a relay.
Packets of the punch handshake go through a server. A route is
its next hop and its metric. `PingArrives`/`PingAdds` are the halves of
`add_route_if_absent`. What `RouteTable` says about order and expiry within one
table is left to it.

### Manager

`sessions` is the manager's map, `running` the processes that exist. A connect
request is three actions per profile, because the lock is given up between looking,
starting and entering; `Kill` may leave survivors; `shutdown_manager` is the exit 120 ms
later. Every request, also one that only shows (`show_profiles`), begins with
`cleanup_exited_sessions`, which drops the session of a child that has exited and of one whose
`try_wait` fails, although that one may run on. `isBusy` is the interface's flag; operations
come from the button, from the tray menu or from deleting a profile. `trayed`, `overlapped` and
`cut` are history, and so is `abandoned`, the children given up alive by a failed kill or
`try_wait`: the property exempts these children and no others.

### QuicPool, PortMapping, UdpNat, Stats

`QuicPool`: `pooled` is the cell the map holds for a peer; callers share it, fill it, fail on
it, remove whatever cell is there and try once more. In `PortMapping` the callers are the
tasks of UDP sources, which begin with a queued datagram, take from their channel while
they have a stream, and end at any await; the map keeps the channel of an ended task until
the next datagram finds it closed. `UdpNat` has sockets, their receive tasks and the collector, whose
removal leaves the task running. `Stats` has one action per lock section of
`get_or_create` and `record_sent`/`record_received`, with a counter's identity kept apart
from its entry: `reset` keeps the counter, `clear` (called once, by `stop_network`) takes all
of them out of the map, while an aborted task that has not reached its next await goes on and
may hold one. `outdated` are the tasks that did; what they count is shown to nobody.

### Delivery, Relay

`Delivery` follows one conversation for all switches of both nodes, all protocols and
five kinds of destination: the decision of the QUIC layer at the sender (`outbound`), the
plain road (`inbound`, `nat_send`, `tun_send`), the streams (`quic_stream_bi_handle`,
`quic_stream_uni_handle`) and the mappings (`port_mapping`), with the state of the connection in
each node's IP stack (`known`). `Relay` has the two relays of a stream,
units written, passed and delivered, and half-closes; a relay is over as soon as one of its
directions is, with success (`copy_in_ends`, `copy_out_ends`) or with an error that is dropped
(`copy_fails`): its host's connection failed (`failing`, which may be from the beginning, when the
host could not be reached), the QUIC connection did or a network was stopped (`lost`), or the other
relay, being over, stopped the stream. Either way the stream is dropped, which in the QUIC library
ends it properly, so the far relay cannot tell an error from an end.

## 3. Runs

| run | question | answer |
|---|---|---|
| `routes_safety` | can any interleaving make a route immortal, leave an owner without a route, or put a key twice in a list? | no |
| `routes_live` | does everything about a silent key disappear, and is the first route of a list a fastest one? | yes; yes, while no measurement exceeds `DEFAULT_RTT` |
| `routes_sweep` | does the timeout remove expired routes only? | no: a route refreshed between its two halves is removed (finding) |
| `group` | do waiters return early, do parked waiters and stoppers return? | no; yes |
| `web` | at most one network, guards undo their own, quiet is clean, a stopped group leaves the slot? | yes |
| `web_restart` | does a restart stop what runs? | no: a late guard made the status lie (finding) |
| `fec` | does parity cover its group, is anything handed on twice, is what arrives handed on, do enough shards recover a group? | yes; no; yes and yes, in groups whose packets are alike |
| `fec_live` | does every packet get parity? | yes, unless the worker's channel was full |
| `fec_sizes` | do enough shards recover a group of packets of two sizes? | no: data shards are not padded at the receiver (finding) |
| `fec_recovered` | is a recovered packet handed on as it was sent? | no: the parity of a QUIC packet is sent as `Turn`, and the flags of IPv4 packets may be changed (finding) |
| `client` | do a network's registration and sessions keep the promise of `Registration`; does one address hold; do lists agree; does every unicast packet find a server's task; do registrations settle, silent sessions end, and all end together? | yes |
| `parts` | see below | |

The questions of `parts`, by component:

| component | property | what it says |
|---|---|---|
| Outbound | `BroadcastReachesAll` | however a broadcast is split, every listed client has a copy, one reached directly has only that; a second copy takes two secondary servers that both list the client |
| | `MissedOnlyBehindMain` | the main server is chosen from disconnected ones, too: only then, and only for the clients it lists, is a client missed that a connected server lists |
| Rpc | `AnswersOwnRequest` | a caller never takes the response to another request for its own |
| Mesh | `MetricTellsHops` | a route is direct exactly when its neighbour is the peer; no packet outlives its ttl, although routes may lead in a circle |
| | `RelayRouteTakesARace` | a relay probe leaves a route only by the gap in `add_route_if_absent` (finding) |
| | `AnswererNeverHoldsBack` | the side that is asked has no back-off (finding) |
| Manager | `EveryChildIsKnown` | no child is lost but by a failed kill or `try_wait` of its own, an exit within a connect, or the tray menu (finding) |
| QuicPool | `SecondTryIsNew` | the second try never meets the connection that failed the first |
| PortMapping | `OneTaskPerSource` | a source has one task at a time, and an ended one costs one datagram |
| UdpNat | `EntryIsServed` | every entry has a receive task, although tasks remove entries of others; which sockets outlive their entry |
| Stats | `NothingUncounted`, `LossInBounds` | no record is lost, but for the one a task has in hand when the map is cleared; at most one Pong is counted ahead of its ping |
| Delivery | `FateIsDue` | both roads end at the same place, for all switches (finding: UDP to a node without a device) |
| | `StaysOnItsRoad` | whole packets of a connection keep to its road (finding: pieces do not) |
| Relay | `ListenerHearsAll` | while the connection holds, a host that still listens hears all that was put into the stream, and all that was written unless the writer failed |

Several of these state an exception that the code has and its comments do not; each such
disagreement is a finding, and without the exception the run fails.

Bounds. Route runs use one or two peers, a UDP key and a TCP key, ages up to one tick
(old or not) and round-trip times below the default. Two keys are enough for the
races, each of which is between one loop and the timeout, or two loops on one list. In
`routes_live` packets arrive only as long as one peer, or one key, is concerned at a time
(`LiveSpec`): a peer with two keys, and two peers whose packets come over one key, one owner after
the other, are both in it; two peers over two keys at once are in `routes_safety`.
A measurement above the default breaks the order: `add_owner_route` pushes its route
behind slower ones without sorting. That the order needs the bound is why
`BestRouteHolds` has the assumption `RttsBounded`. `group` has one task more than the longest
counterexample of a mutant needs. Three web requests are an early start, a later
one, and one to disturb them. `fec` sends three packets in batches of up to three: one,
two or three groups closed by size or by time, two parity packets that can replace
two losses or compete with each other, and room for one group, so that others are removed
while their messages are still around. It begins with three packets that are
alike or with a QUIC packet, a long and a short one (`Workloads`). In `fec_live` five packets
fill two batches, one more than the channel holds, and leave a lone one. Symmetry is
used in safety runs only, over values that no operator tells apart.

`client` has one or two servers (both are initial states), one other client, two addresses, a
configured address or none, and two silent ticks: a first server and one that is told,
an address and another one, a server that listed the client and one that did not. Two
destinations lie outside, with and without a subnet route. `parts` bounds each component where its race
is complete: three servers for broadcasts (a main one and two secondary ones that list the same
client), two callers and two servers with two calls in all (a response later than
the next request), three nodes with one packet in flight (plus those kept between the halves of
a Ping, which lets packets of three nodes interleave) and a data ttl of three, so that
a packet may go in a circle, two profiles, two operations and three children, three callers
and four cells, two sources with channels of two, two keys with four sockets and two idle
intervals, one peer with two loops and four pings, and two units each way on a stream.
`Delivery` needs no bound.

Deadlock is checked in the route runs and in the runs of `Fec` with a receiver. The
sender alone comes to rest when all packets are sent. A task group, the web
service, a dropped network and most parts may come to rest (all tasks done, all requests
served, a bound reached), so their runs do not check it.

## 4. Fairness

- `RouteTable`: time passes, the timeout task wakes (its loop has no exit), and a loop
  that waits for a lock gets it. The last is strong fairness: a waiter can
  find the lock taken again and again, and parking_lot hands over fairly.
- `TaskGroup`: the runtime drops aborted futures and polls what is ready. No
  fairness on `spawn`, on `stop`, or on live tasks: they may run for ever.
- `WebService`: a handler or task that has begun goes on, because everything it awaits
  is bounded (files, connection attempts with time limits, fifty looks). No
  request is made to arrive and no server is made to refuse.
- `Fec`: the sender's worker is polled when it has a batch or when its timer fires. Only
  the sender is in that run, since no receiver influences it; nothing is assumed of the
  network.
- `Session`: requests of a registration have time limits, hence each is answered, refused or
  given up; timers fire, so a linked task reaches its next ping tick; the runtime drops an
  aborted task. No fairness on data, broken links, reconnections, stop or drop, and none on
  what servers answer.
- The parts have safety properties only and assume no fairness.

## 5. Proofs

All theorems hold for every value of the constants that satisfies the module's
named assumption; no other assumption is made, except in three theorems: `BestRouteHolds`
has `RttsBounded`, and `ArrivedAreHandedOn` and `AlikeRecover` have `~Compression`.
Each invariant and each action property of the passing runs is stated by a theorem.

- `RouteTable`: `IInv` is the conjunction of the safety invariants. None of
  them is inductive alone: a Ping's insertion preserves uniqueness of keys
  only because of `PingStillAbsent`, which in turn needs that another loop
  never inserts that key; the owner's route survives the sweep only because the
  owner entry goes with it. The lemmas about lists (what `Placed` and `Without` keep,
  that the positions they choose exist) come first, then one lemma per
  conjunct and action. `BestRouteHolds` assumes `RttsBounded`, that no
  measurement exceeds the default, and uses `OrderInv` (lists sorted, every entry at most
  the default); section 3 says why it is needed.
- `TaskGroup`: the map is exactly the live tasks, and stopped implies an empty map.
- `WebService`: which guards a request holds at which place (`GuardsFollow`), and
  that a status other than Stopped has a guard that will take it back
  (`StatusHasGuard`). `OneNetwork` follows from guards owning the slot.
- `Fec`: `SenderInv` says that the data messages of a group number are exactly one
  batch: the open one, one in the channel, or one that parity was computed from
  (`Matches`). It gives `ParityCovers`, and that all parity messages of a number agree.
  `GoodGroups` ties each group of the decoder to messages of its number: a shard at a
  place is the payload of the message of that place, and once the number of data
  shards is known there is room for exactly the batch. With both, a recovered packet
  is a data packet of the same group whose place was empty, so it was `Fresh`: not
  handed on while the group is remembered. That is `OnceHolds`.
  `HandedInv` adds what the decoder owes to a group whose packets are alike: it counts exactly
  the data packets it holds (their places are theirs alone, `DataApart`), it is
  decoded as soon as it has enough shards, and what it holds, or all of it when it is done, was
  handed on (`Kept`). Every way through `receive` keeps this: reconstruction succeeds
  because all shards have one length, and what it returns takes the kind of the
  parity, `Turn` (`ParityIsTurn`), which is the packets' own. `ArrivedAreHandedOn` and
  `AlikeRecover` follow. They are for compression off: with it on, the flags of a recovered
  packet may be changed, and then it is not handed on as it was sent (`fec_recovered`).

- `Session`: `SessionInv` says how far consent and addresses are at each stage: who agreed
  (`Consent`), that between the first reply and the end all others were told the leased
  address and the honest ones hold it (`OneAddress`), and that no task runs before an address is
  entered (`Entered`). `SameAddress` alone is not inductive: a regrant keeps it only because `wanted`
  still is the address of the network. `InfoInv` adds to `ListAgrees` that between its halves `clear()` has
  emptied the list, and that an update comes late only within `clear()`. `Served` says that only a
  server whose task takes packets is marked connected while the group runs; `UnicastsAreServed`
  follows from it for every destination.
  `SessionImplementsRegistration` maps every step of `Session` to a step of
  `Registration` or to none: confirmations to Agree, `EnterNetwork` to Enter, everything that ends a
  task to End, and the rest by what it does to the phase.
- `Outbound`: `BroadcastsReachAll` and `OnlyMainMisses` follow from `InfoInv` at every state, whatever
  the hash order. When any server lists clients, the main one does
  (`MainHasClients`, which compares the numbers of clients and so needs finitely many);
  `ServerCopies` and `SplitCopies` say which copies a split makes and for whom, `ListedAreOnline`
  that a listed client is online at some server, and `TwoCopies` which two
  copies one client can have. A client that is missed was listed by the main server, which is not connected.
- `QuicPool`: cells are numbered as they are made, and one that failed a caller has left the map for
  good (`PoolInv`), so the second try gets another. `PortMapping`: a task that has not ended is the one
  its source's datagrams go to (`TaskIsEntered`). `UdpNat`: an entry holds the last socket opened
  for its key (`EntryIsNewest`); that is what says which task can have removed which entry.
- `Delivery`: the fate is a function of the switches and the destination, by cases; which stacks
  have a connection follows from its road, from how far it is, and from `broken`
  (`StacksFollowTheRoad`). `Relay`: the first relay to end has passed on all that its host, which is
  done, wrote, unless something failed (`FirstEndsWhole`); a listener whose relay is over was then told
  everything, or wrote more than could be passed on (`ListenerHeardAll`).
- `Rpc`: a request's number is at most its server's counter and stands for that request only, also when
  it is over (`NumbersAreUnique`); a caller has a request from its creation to its drop, and an empty
  channel until it is sent (`OwnRequests`). So late and repeated responses find nobody, or their own request.
- `Stats`: a counter serves one peer and is the one that every task about to record for that peer holds
  (`CountersAreShared`), but for tasks that are outdated: the counter they hold was made before the map
  was cleared, so it is none of those shown. Hence nothing else goes uncounted. `LossInBounds` comes
  from `PongsHavePings`: unless a reset, the clearing or a repeated Pong disturbs the count, the
  Pongs recorded, in hand and
  under way are at most the pings recorded plus the one being recorded. The sets of loops with a
  Pong in hand are finite, one larger or one smaller per step (`OneMoreInHand`, `OneFewerInHand`).
- `Manager`: children are numbered as they are started. Without a second connect or an
  exit in a connect, a profile about to start a child has no running one, and a manager that leaves
  leaves only abandoned children (`NothingToLose`). The button alone never makes two operations
  (`ButtonExcludes`), which is
  why an overlap needs the tray menu or the launch.
- `Mesh`: `Travels` says what holds of a packet on its way: hops made and ttl left make up the
  first ttl, of the mesh's own packets only a relay probe is forwarded, the neighbour it came from is its
  source exactly when it made one hop, and the handshake begins at the smaller address. With it a route is direct
  exactly when its neighbour is the peer (`RoutesGood`), and only the side that asks rests
  (`RestingGood`). `RelayRoutesTakeARace` is an action property: a relay route is
  entered by the second half of a Ping only, beside another route.

Only model-checked: the liveness properties, because fairness and ENABLED are outside the prover
(`SilentKeyForgotten`, `ParkedWaiterReturns`, `StopperReturns`, `StoppedGroupLeavesSlot`,
`EveryPacketProtected`, `RegistrationSettles`, `DeadLinkIsLeft`, `OneEndsAll`), and the violations.

## 6. Not modelled, and the plan

Parts of modelled components that are left out, with the reason:

- Web service: requests about configuration files and the file that names the network to
  start automatically; the information queries, which only read.
- Server session: `data_version`. What a server sends for a version is decided by a program that is not in
  this repository.
- Hole punching: which ports are tried and when; NAT type detection.
- Internal NAT: the table of the ICMP socket, which is overwritten when two hosts use one
  identifier.
- Tunnel device: creating it and its two tasks.
- Desktop interface: stored profiles, polled values, widgets.
- `Fec`: a sender that restarts with group 0 while the receiver remembers old groups.
- Time finer than the timers: `ping_all` may take longer than a route lives.

Left out for good: sockets, TLS, DNS, encryption and compression (library calls on bytes),
argument parsing, the control program's queries, logging, page layout.

Next would be, in this order: the automatic start file in `WebService`; a restarted sender in
`Fec`.

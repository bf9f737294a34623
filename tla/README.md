# Candy: TLA+ models, model checking and proofs

Candy is a mesh VPN.  Clients connect to a WebSocket server that authenticates
them, gives them addresses and relays their traffic; pairs of clients then try
to build direct UDP links, may relay for each other along measured routes, and a
client may act as a gateway into its LAN through a user-space TCP/IP stack
(lwIP).  This directory holds the specifications of the parts of that system
which keep state, the TLC configurations that check them on small instances, and
TLAPS proofs of the properties that matter most.

Paths below are relative to the repository.  Definitions keep the names of the
source where TLA+ allows it; `PROJECT.json` maps every definition to its lines.

## 1. Inventory

| Component | State | Operations | What makes it hard | Correct means |
|---|---|---|---|---|
| UDP single-port convergence (`netstack/udpmux.cc`, half of `session_udp.cc`, UDP part of `netstack.cc`) | endpoint owners and reverse index, STUN transactions, sessions, four kinds of time stamps | send from a source, receive and demultiplex, reap, teardown | three idle limits in two files; sessions are reaped without telling the multiplexer | tables agree, an owner is alive, nobody is robbed, silent endpoints are given back |
| TCP session and Reactor (`session_tcp.cc`, `reactor.cc`, TCP part of `netstack.cc`, `outbound.cc`) | window, two buffers, watermarks, watch interest, two task queues, life-time flags | accept, lwIP callbacks, fd events, tasks of both threads, closing from every side, teardown | two threads, posted tasks, several owners of one fd | no byte of window lost, bounded backlog, no tail lost, everything released |
| WebSocket server (`websocket/server.cc`, `core/net.cc`) | registry address -> connection, `dhcp` cursor, one context per connection | connect, vmac, address request, auth, relay, reject, leave, shutdown | one thread per connection, any message in any order, raw pointers between threads, scan under a shared lock | registry names live connections only, every client in service is reachable, kicked ones leave, shutdown drains |
| WebSocket client (`websocket/client.cc`) | greeting phase, time stamp, queues to the modules | connect, greet, frames, ping, give up | frames race the greeting; the address goes to two queues in two writes; two limits, one poll granularity | address once and before anything of the server, live server kept, dead one noticed |
| Peer link (`peer/peer.cc`, its driver in `peer/manager.cc`) | state, ack, age, retry, addresses at each end | TRYP2P, PUBINFO, STUN answer, heartbeat, second | three threads under a lock held shared, two independent ends, loss, duplication, reordering, time-outs | no state without the addresses it needs, nothing survives a reset, races are repaired, the link comes up |
| Relay routing (`peer/manager.cc`) | `rtTableMap`, connected peers | DELAY, ROUTE, loss of a peer, restart | distance vectors over datagrams | no self-route, only the next hop worsens a route, traffic dies out |
| Client life cycle (`candy-service/src/main.cc`, `candy/client.cc`, `core/client.cc`) | `threadMap`, `instanceMap`, run flags, modules | run and shutdown requests, retry loop, module start, wait, destruction | requests race run threads in every phase | one run per id, every run can be found, reconnects, stops |
| Gateway flow tracking (`tun/tun.cc`) | table of initiated flows with time stamps | record, look up, reap, evict | two threads, throttled reaping, a capacity | bounded, recent flows stay |
| UDP session with a socket of its own (`session_udp.cc`) | socket, pcb, stamp, who holds the object | first datagram, datagrams both ways, reaping, closing from either thread, teardown | two threads, posted tasks, a table entry found by key, a raw pointer in lwIP | the pointer is valid, only open sockets are used, everything is released |
| NetStack packet path (`netstack.cc`) | `vnetPeerMap`, lwIP, task queue | IPIP in, output out, tasks, reaping, teardown | one loop for everything, two kinds of ageing | a reply to a live session knows its way back |
| Message queues (`core/client.cc`, `core/message.h`) | four queues | push, timed pop | order | inside WsClient, PacketPath, SessionUdp |
| Packet forwarding (`peer/manager.cc`) | none of its own | direct, relay, via server, p2p-only drop | stale tables, no hop count, look-up and sending under two locks | packets do not circle for ever |
| Server life cycle (`candy/server.cc`, `core/server.cc`, signal handler in `candy-cli/src/main.cc`) | one pointer, two flags | run loop, listen, signal | the handler interleaves with every step of the loop | a stop drains everything, a server is not replaced under its threads |
| Tun devices, message formats and encryption, command line, utilities | - | I/O, data layout, parsing | - | not modelled, see section 8 |

How they interact.  The modules of a client talk only through four message
queues of `Client` (`tunMsgQueue`, `peerMsgQueue`, `wsMsgQueue`,
`netstackMsgQueue`), each emptied by one thread.  The WebSocket client puts the
address (`TUNADDR`), server routes (`SYSRT`), discovery (`TRYP2P`) and public
addresses (`PUBINFO`) into the queues of the tun module and the peer manager.
The peer manager keeps both the links (`Peer`) and the routes, read by its
packet path.  The tun module hands gateway traffic either to the kernel or to
the NetStack, by its flow table.  NetStack and Reactor are two threads that post
tasks to each other.  A failing module calls `Client::shutdown`, which every
module's threads see through one flag; the retry loop of `candy::client::run`
then builds a new `Client`.

The list of hazards, each at its line and with the properties that would catch
it, is in `PROJECT.json`.

## 2. Modules

Each module has one or more configurations `MC*.cfg` that give its constants their
values.  Where more is needed for TLC than that (a symmetry set, a set of pairs), an
`MC*` module extends it (`MCWsServer`, `MCPacketPath`, `MCTunFlow`); the other
configurations are for the module itself.  Proofs are in `*Proofs` modules that extend the component's module.

| Module | Component | Actions and their code |
|---|---|---|
| `UdpMux` | UDP convergence | `SendFromSource` (`onUdpRecv`/`onPcbRecv` -> `sendFromSource`, with the creation of the session), `Receive` (`onFdEvent` on the Reactor), `Demux` (`demux` -> `replyToLwip`), `NoTask`, `EndIteration` (the reaping at the end of `NetStack::loop`), `TeardownStack`, `Tick` |
| `WsServer` | WebSocket server | `Connect`, `RejectMsg` (every handler's `ctx.status = -1`, before and after the authentication), `HandleVMacMsg`, `GrantWanted`, `StartAllocation`, `FinishAllocation` (the two halves of the scan in `handleExptTunMsg`, which runs under a *shared* lock), `HandleAuthMsg` (with the kick; again and again by the connections in `Repeats`, which leaves dangling entries), `RelayThrows`, `Disconnect`, `Vanish`, `StopServing`, `Shutdown` |
| `Peer` | one end of a peer link, three threads | message thread: `TryP2P`, `HandleLocalPubInfo`, `HandleWidePubInfo`, `SysRt`, `MsgStep` (the three tests of the state and `updateState`); poll thread: `HandleStunResponse`, `HandleHeartbeat`, `PollStep` (address learned, address used, `ack`, `updateState`); tick thread: `WaitOn`, `GiveUp`, `TickStep` (`resetState`, back-off, state).  Messages are arbitrary |
| `PeerLink` (extends `Peer`) | both ends after the network has become good | the actions of `Peer` fed by what the ends send: `LinkTryP2P`, `Arrive` (PUBINFO, STUN answer, heartbeat), `LinkMsgStep`, `LinkPollStep`, `Second`, `LinkTickStep` |
| `RouteTable` | relay routing | `Connect`, `Disconnect`, `HandleDelayMessage`, `HandleRouteMessage`, `Wait` (the module stops and loses its tables), `Lose` |
| `ClientRun` | client life cycle | `Requests` (run and shutdown handlers), `RunStep` (one action per step of `candy::client::run` and `Client::run`), `Destroy`, `HandlerStep` (look-up, exit, detach of the shutdown handler) |
| `SessionTcp` | TCP session and Reactor | accept and lwIP callbacks, `StackStep` (posted tasks, `onSent`), `ReactorStep` (poll, one fd event at a time, `drainTasks`), `Teardown`, `StopReactor`, `Remote` (destination and kernel) |
| `TunFlow` | flow tracking | tun thread: `HandleTunDevice`, `ReadClock` and `RecordInitiatedFlow` (the two halves of `recordInitiatedFlow`, which reads the clock before it takes `flowMutex`, with `reapIdleFlows`); msg thread: `HandlePacket` (with `isReturnByFlow`), `HandleOtherPacket`, `HandleSysRt`, `Tick` |
| `WsClient` | WebSocket client and queues | `Connect`, `Greet`, `StartThreads`, `TellPeer` (second half of `sendAuthMsg`), `HandleTunDevice` (packets of the tun thread that the address starts), `ReceiveFrame`, `ReceiveClose`, `PollTimeout`, `HandleQueue`, `Shutdown`, `Tick`, and the server's `ServerSends`, `LinkBreaks` |
| `SessionUdp` | UDP sessions of one source, NetStack loop and packet path | `Input`, `Shutdown`, `Tick`; NetStack thread: `LoopTop`, `StackTask` (`FeedToLwip`, `ReplyToLwip`, `CloseFromStack`), `StackOther` (no task, or one that ages `vnetPeerMap`), `Reap`, `Teardown`; `StopReactor`; Reactor thread: `Poll`, `ReadDatagram`, `ReadEnds`, `DrainTasks`, `ReactorTask`, `Release` (second half of `closeFromReactor`) |
| `PacketPath` (extends `RouteTable`) | packet forwarding | `Send`, `SendPacketRelay` (look-up), `RelayFails`, `SendPacketDirect`, `HandlePacketFails` (drop or server), `HandleForwardMessage`, `HandleForwardMsg`, `LosePacket`, interleaved with all actions of `RouteTable` |
| `ServerRun` (extends `WsServer`) | server life cycle | main thread: `TestAlive`, `MakeServer`, `StoreRunning`, `Listen`, `Returns` (with `WsServer!Shutdown`); signal handler: `StoreStopped`, `StopServer`; the connection threads of `WsServer` |
| `AddressRegistry` | abstract: what the server promises about addresses | `Take` (in place of a holder, whose service ends in the same step), `Drop` |

Abstractions used throughout.  Time stamps are kept as ages, saturated just above the
largest limit they are compared with, because the code only compares
`now - stamp` with limits.  Addresses, ids and flows are members of small sets.
Payloads are absent; only verdicts about them (right password, decrypted, STUN
class) are chosen nondeterministically.  A handler that holds its lock from
beginning to end is one action; where the code gives up or shares the lock, or
two threads work on the same field, the handler is split at that point
(the address scan of the server, the pausing of reads and the closing of fds in
a session, the steps of the shutdown handler, the two stores of the signal
handler, the look-up of a route and the sending that uses it, the time stamp of a
flow and the writing of it, every handler of a peer, whose lock is held shared, and
the two `TUNADDR` writes of `sendAuthMsg`).

Composition and refinement.  `PacketPath` runs a packet over the tables of
`RouteTable` while they change; `PeerLink` connects two ends of `Peer`; `ServerRun` puts the connection threads of
`WsServer` into the process that starts and stops them.  `WsServer!Registry`
instantiates `AddressRegistry` for the clients that authenticate once per connection,
as candy's own client does: their entries are `holder`, and those authenticated with
status 0 are `serving` (`InService`).  A client ends its service when it is replaced
(`Take`, or `Lose` when the new holder is one that authenticates again) or when a
message of it is rejected (`Refuse`), and holds its address until it leaves (`Drop`).
The server takes repeated authentications too (`Repeats`): these may dangle,
and a kick through a dangling entry may hit any context (`Kick`), but they do not
disturb what is promised to the others.  That the server process
implements `AddressRegistry` is `RegistrySpec`, checked by the run `serverrun` and proved
(`ImplementsRegistry`).

## 3. Runs

| Run | Specification and bounds | Shows |
|---|---|---|
| `udpmux` | `FairSpec`; 2 sources, 2 endpoints, 1 transaction, limits 1/1/2, reaping every tick, one datagram waiting (45 k states) | the owner table and its index agree, owners are alive, an endpoint changes hands only after its idle limit, silent endpoints are given back |
| `serverrun` | `ServerFairSpec`; 2 connections, one of a client that authenticates repeatedly, the 4 addresses of a /30 of which clients ask for 2 (`Wanted`), one signal (`Repeat`) at any point (229 k states, about 70 s) | entries of a client that authenticates once are live, connections in service are registered, under every order of authentication, rejected messages, kick, exception, vanishing and shutdown, and the registry implements `AddressRegistry`; connections told to stop leave; a stop ends `run` and drains the connections for good; the server is not replaced |
| `peer` | `FairSpec`; one end, three threads, limits 3 and 2 s, back-off 1 to 3, any message at any time (278 k) | no state without the addresses it needs and an idle peer has forgotten, unless the giving up overlapped a handler; even then a peer does not stay connected without an address |
| `peerlink_live` | `LinkFairSpec`; p2p-only, different LANs, limits 2 s, two PUBINFO and one heartbeat on their way, from any states of both ends (73 k) | a network that has become good brings the link up for good |
| `routetable` | `FairSpec`; 3 nodes, cost 1, limit 2, measured 0 or 3, 7 events (139 k) | no self-routes, a route is worsened only by its next hop, counting to infinity ends |
| `packetpath` | `PathFairSpec`; 3 nodes of which two reach each other only through the third, which is p2p-only, or the server; one packet; bounds of `routetable` (229 k) | as long as nothing is lost or breaks, a packet arrives or is dropped |
| `clientrun` | `FairSpec`; one id, 3 run threads, one shutdown handler (13 k) | one run per id, exactly the active runs are registered, a broken client is replaced, a stop in `Client::run` ends the run |
| `sessiontcp` | `FairSpec`; window 1, reads of up to 2 units, watermarks 2/1, `ERR_MEM` possible, `MaxTasks` 1 (834 k, about 65 s) | window conserved, backlog counted and above `HIGH_WATER` by less than one read, an EOF cuts no tail, a closing session is released |
| `sessionudp` | `FairSpec`; 2 session objects, limits 1/1/2, `MaxTasks` 3 (766 k) | lwIP's pointer is valid, the Reactor uses open sockets only, replies know their way back, a closing session is released |
| `tunflow` | `FlowSpec`, symmetric in the flows; 5 flows, 3 entries, limit 4, reaping every 2 (79 k) | the table is bounded, a recent flow stays |
| `wsclient` | `FairSpec`; ping after 2, drop after 5, answer within 2, queues of 2 (718 k, about 60 s) | the address comes once and before anything of the server, a live server is kept, a dead one is noticed |
| `sessiontcp_forward` | counterexample, section 6 | |

Why the bounds are enough.

- `udpmux`: two sources and two endpoints give a collision, a hand-over and an owner
  with two endpoints; the limits keep the order of 30, 40 and 60 seconds, with the
  two shorter ones equal, and SessionIdle above them.
- `serverrun`: with two connections each can kick the other, clean up after it and
  reconnect; the one in `Repeats` leaves entries behind that dangle; a /30 has two valid and two invalid host parts, and clients ask for the
  valid ones (the configurations of `MCWsServer` let them ask for all).  A second
  signal could only stop a server that missed the first; the proofs allow it.  The registry is proved for any number (section 5).
- `packetpath`: the smallest network in which a packet needs a relay and two nodes
  can route through each other; `Link` keeps two nodes apart for good.
- `sessionudp`: two objects give an old session that is still closing beside a new
  one of the same source, and an object nothing refers to can be made again, so that
  the number of sessions in a behaviour is not bounded.  `MaxTasks` bounds what comes
  from outside, never what the threads post to each other.
- `peer`: the ends share no state, so that one is enough for what is said of each, and
  since any message may come at any time the other end is not needed; three seconds
  of back-off give a doubling that is cut off.
- `peerlink_live`: the ends are always two.  They start in any states, consistent or
  not, so that whatever losses and races came before is covered.
- `routetable`: three nodes are the smallest network with a relay and with two nodes
  that route to a third through each other.  `MaxEvents` bounds measurements and
  link changes so that the end of the traffic can be asked about.
- `clientrun`: three runs of one id allow a stopped, a running and a new one; ids
  do not share anything but the two maps.
- `sessiontcp`: reads of one and of two units let the backlog pass the high mark (one
  below it, then two more); the high mark above the low mark gives the pause and the
  resume.  The window is proved for every size (section 5).
- `tunflow`: more flows than entries, a reaping period shorter than the limit; the
  three entries can all be refreshed while the time of a fourth flow waits for the
  lock, which is then evicted as soon as it is recorded.
- `wsclient`: the limits leave exactly the time that a ping and its answer need.

## 4. Fairness

- `UdpMux`: weak fairness of the clock and of the steps of the NetStack loop, which
  waits at most 250 ms for a task.  None on sending or receiving.
- `WsServer`: weak fairness of a scan (it ends by itself) and of `StopServing`: a
  connection thread tests its status and `running` after every message and at least
  once a second, because its receive has a time-out.  A message that comes in that
  second is handled first, and the test after it (`Loop`) leads to the end.
- `ServerRun`: the main thread goes on, a signal handler that has begun ends, and the
  connection threads as in `WsServer`.  No fairness of the signal.
- `SessionUdp`: both threads run.  The weak fairness of the Reactor is on ending the
  handling of an event, so that a socket does not for ever hold another datagram.
- `PacketPath`: a packet is handled wherever it is, and a ROUTE message is delivered
  or lost at last.
- `Peer`: seconds pass, and every thread ends the handler it has begun.
- `PeerLink`: the network, good from the start, delivers (otherwise nothing
  could be promised), seconds pass at both ends, and the periodic broadcasts go on
  (`TryP2P`).
- `RouteTable`: a message is eventually delivered or lost.
- `ClientRun`: threads go on; strong fairness of the steps of a run because they wait
  for the lock of the instance table.  `std::shared_mutex` promises nothing to a
  writer among readers that alternate, so liveness is checked with one handler.
- `SessionTcp`: threads run their tasks and events, the destination takes what is in
  the kernel buffer.  No fairness of the source or of what the destination sends.
- `WsClient`: the client's threads go on (a hand-over of the address that has begun
  ends) and time passes; nothing of the server
  except that a live one answers a ping within `AnswerIn`.

## 5. Proofs

All theorems hold for every value of the constants that the named assumption of
the module allows.

| Module | Theorems | Inductive argument |
|---|---|---|
| `UdpMuxProofs` | `TypeCorrect`, `TablesAlwaysAgree`, `OwnerNeverRobbed` | that owners are alive (a half of `TablesAgree`) is not inductive: a reaped session could still own something.  `SessionFresher` (a session is at most as old as whatever it owns) closes the gap, together with the order of the idle limits in `UdpMuxAssumption`. |
| `WsServerProofs` (about `ServerRun`) | `TypeCorrect`, `RegistryAlwaysExact`, `ImplementsRegistry`, `ServerNeverReplaced` | the two halves of `RegistryExact` need each other: that a leaving connection erases only its own entry is `RegistryLive`, that a kick leaves no second active holder is `ActiveRegistered`.  A rejected message only makes a connection inactive (`FramePreserves`), and `KickMarks` covers the kick through a dangling entry.  The refinement goes through the actions one by one: authentication is a `Take` or a `Lose`, a rejection a `Refuse`, leaving a `Drop` or a stutter.  `ServerNeverReplaced` needs that the loop flag is down whenever the handler is between its stores, whenever the flag of a started server is down, and whenever the loop comes round with a server made. |
| `PeerProofs` | `TypeCorrect`, `KnowsAlwaysUnlessRaced`, `BackoffGrowsUnlessRaced` | `Consistent`, of an end whose last giving up met no handler: a handler under way still has what it has stored or found (`HandlerKnowsWide`), a heartbeat that passed the test of the state is for a peer that is not idle (`BeatIsFor`), and while the tick gives the peer up nobody else is on the way and the addresses stay forgotten (`AloneGivingUp`).  The back-off follows from the last part, action by action |
| `SessionTcpProofs` | `TypeCorrect`, `WindowAlwaysConserved`, `ForwardBufBounded`, `BacklogAlwaysBounded`, `TailAlwaysDelivered` | forward (`WInv`): what is held anywhere (window, buffer, pending acknowledgement) is at most the window, and equal to it until the session closes.  Backward: `Backlog` counts what the tasks of the queue carry as a set of pairs of a position and a unit (`Units`), whose cardinality the lemmas on append and removal follow for reads of any size, and equates the common counter with it and the buffer for as long as the pcb lives; a read starts below `HIGH_WATER` and adds at most `ReadMax`, `Fresh` for the time before it is accepted.  `EofLast`: after an end of file nothing can be read and no write is queued behind it, so that the last pump that closes the lwIP side has an empty backlog. |
| `SessionUdpProofs` | `TypeCorrect`, `PeerAlwaysKnown`, `RecvArgAlwaysValid`, `FdAlwaysSafe` | `PeerInv`: the session in the table has a pcb, its peer entry is at most as old as it is, and it is at most `Idle` old plus the time since the last reap, so that with the order of the limits the session goes first.  `ArgInv`: a session with a pcb is held by itself or by the task that will remove the pcb, and no task that lets go of it without removing the pcb is queued.  `FdInv`: what is polled or handled is open, a session still to be added is open and not watched, and its `add` comes before every other task about it (`AddFirst`). |
| `RoutingProofs` (about `RouteTable`) | `TypeCorrect`, `NeverSelfRoute`, `OnlyNextHopWorsens` | besides the tables, every message on its way was sent neither to the next hop it names nor about it, and no node has itself as a peer |
| `RoutingProofs` (about `PacketPath`) | `PathTypeCorrect`, `PacketAlwaysPlaced` | every step of `PathNext` is a step of `RouteTable` or leaves the tables alone, so that the invariant above holds under the packet; `NoSelfRoute` at the look-up then keeps the next hop apart from the node for as long as it is used, though the tables change meanwhile |
| `RoutingProofs` (about `TunFlow`) | `FlowTypeCorrect`, `TableAlwaysKeepsRecent` | the stamps are a strict total order on the flows stamped so far (`StrictOrder`), whose upper end is what was stamped since the clock was read (`LateLast`), so that a stamp put in below it keeps the order.  The limit: of the flows that stay after an eviction one is older than all others (`OldestExists`, by the well-foundedness of strict inclusion of finite sets), and fewer than `MaxFlows` are younger than it.  The promise: the set of flows younger than another grows, unless the other is refreshed; what is refreshed while the tun thread waits for the lock cannot leave the table, because only that thread evicts. |
| `ClientRunProofs` | `TypeCorrect`, `RunsAlwaysMatchIds` | an instance is filed under the id its thread was started for; started runs and busy handlers have ids |
| `WsClientProofs` | `TypeCorrect`, `AddressAlwaysOnce`, `AddressAlwaysFirst`, `LiveServerAlwaysKept` | the client has the request for an address, or the offer is on its way, or it has authenticated, never two of them (`OneGreeting`); before the authentication nothing reaches the modules (`NothingBefore`), after it (`AddressAhead`) the peer manager is either still to be told, and then its queue has nothing but packets of the tun device (`NotYetTold`), or the address is in the queue of every module that has not started (`Told`), and what is not such a packet is behind it (`BehindEarly`).  For the live server: a silent time has two parts: until the ping (at most `PingAfter + 1`) and until the answer (`AnswerIn`), which the assumption on the limits keeps below `DropAfter`; needs that the clock is fresh when the threads start |

Only model-checked:

- every liveness property (`SilentEndpointFreed`, `KickedLeaves`, `StopDrains`,
  `PathRepaired`, `EventuallyConnected`, `RouteTrafficSettles`, `PacketEnds`, `Reconnects`,
  `StopInRunEnds`, `SessionEnds`, `DeadServerNoticed`): liveness under fairness and `ENABLED` are out
  of the reach of this version of the prover;
- the properties of section 6, whose runs and configurations end in counterexamples.

Every safety property of a passing run, invariants, action properties and the
refinement alike, is stated by a theorem.  Two forms keep the proofs free of
inductions over data, which the backends cannot do (the induction theorems of the
library take an operator as a parameter): queues are spoken of by positions and
sets of positions, and the order of the time stamps in `TunFlow` is kept as the set
of younger flows of each flow, not as a sequence.  Cardinalities and the one use of
well-foundedness rest on `FiniteSetTheorems` and `WellFoundedInduction`.  No module declares a RECURSIVE
operator, so that none loses the SMT backend.

## 6. Findings

One run ends in a counterexample to something the repository says of itself.

- `sessiontcp_forward` / `ForwardFlows`: `updateReadInterest` (`session_tcp.cc:236`)
  and the pause of `onFdReadable` (line 399) replace the interest of the fd as a
  whole and drop the write interest of a blocked forward direction.  The property
  leaves out behaviours with readable events for ever and pauses, so the
  counterexample is a session at rest with data to send and room in the socket.

### Further counterexamples

These configurations are kept beside the runs above, for the module they are named
after (`MCPeerRaced.cfg` and `MCPeerBackoff.cfg` for `Peer`, `MCWsServer*.cfg` and
`MCPacketPath*.cfg` for the MC modules); each checks one statement
of the repository, or a stronger form of a checked property, and ends in a
counterexample.

| Configuration | Property | Statement | What the code does |
|---|---|---|---|
| `MCWsServerAlloc.cfg` | `AllocatedIsFree` | `server.cc:309`: the search gives up only when "all addresses in the network are assigned" | it goes on only while the candidate is invalid *and* taken (`server.cc:313`), so it stops at a valid address that another device holds, which is kicked when the new one authenticates |
| `MCWsServerAgain.cfg` | `NothingDangles` | `server.h` (comment on `ipCtxMutex`): the lock keeps the pointers valid | a second AUTH of a connection for another address registers it again (`server.cc:189-199`); the first entry is not erased when the connection ends, and points to a destroyed context |
| `MCWsServerRefused.cfg` | `RefusedOnlyIfFull` | `server.cc:308-309` | two concurrent scans move one cursor, and one of them gives up with free addresses left |
| `MCPeerRaced.cfg` | `AlwaysKnowsPeer` | `KnowsUnlessRaced` without its exception | `updateState` resets the addresses (`peer.cc:138`) before it stores the state (147), under a lock held shared: a heartbeat in between leaves an idle peer with an address and an acknowledgement, or a connected one without |
| `MCPeerBackoff.cfg` | `BackoffAlwaysGrows` | `BackoffGrows` without its exception | a PUBINFO that stores PREPARING between the tick's test for WAITING and `peer.cc:141` makes `updateState(INIT)` restart the back-off |
| `MCPeerLinkFailed.cfg` | `FailedRetried` | `candy.cfg:44-45`: broadcasts try to establish P2P periodically | outside p2p-only mode `TRYP2P` does not retry a FAILED peer, and two failed ends stay so |
| `MCWsClientEarly.cfg` | `AddressBeforeAll` | `AddressFirst` without its exception | `sendAuthMsg` tells the tun module first (`websocket/client.cc:353`); the thread it starts (`tun.cc:285`) puts packets of the device into the queue of the peer manager (`tun.cc:92`) before line 354 writes the address there |
| `MCClientRunClose.cfg` | `ShutdownCloses` | `candy-service/README.md:26`: the id "is used to view status and close networks" | a shutdown between `create_client` and the first line of `Client::run` (`core/client.cc:143`) is overwritten there and answered with success; the network goes on until its connection breaks |
| `MCClientRunSuccess.cfg` | `SuccessMeansRun` | `candy-service/README.md:58-64` | a run accepted while an earlier run of the id is still ending is given up at once, after the answer "success" |
| `MCClientRunDestroy.cfg` | `DestroyEnds` | `netstack.cc:99`: no explicit shutdown is needed before `wait` | `Client::run` returns without `wait` when a later module fails to start; destruction then blocks or terminates |
| `MCClientRunJoin.cfg` | `DestroyedQuietly` | a client that was waited for can be destroyed | `Tun::wait` (`tun.cc:34-46`) tests `tunThread` before it joins `msgThread`, which may still start it (`tun.cc:285`); the destructor of the thread then terminates the process |
| `MCSessionTcpResume.cfg` | `ReadResumes` | `session_tcp.cc:222-225` | the pause is stored after the backlog was read; a drain in between resumes nothing |
| `MCSessionTcpFd.cfg` | `FdOpenInUse` | `session_tcp.h:57` (Reactor thread functions) | `onErr` closes the fd from the NetStack thread while the Reactor reads it or has yet to add it |
| `MCSessionTcpTeardown.cfg` | `TeardownReleases` | `session_tcp.cc:264-265` | tasks posted after the Reactor's last `drainTasks` are never run |
| `MCSessionUdpHeld.cfg` | `HeldWhileAlive` | `session_udp.cc:62-63`: while a session lives `udpSessions` holds it | `closeFromStack` of an older session of the source erases the newer one's entry (line 167); the newer one keeps itself alive and is not reaped any more |
| `MCSessionUdpSelf.cfg` | `SelfHasFd` | `session_udp.cc:62-63` (`self` is for the life of the session) | `start` sets `self` before `dialUdp` fails (line 38); nothing resets it |
| `MCPacketPathAnyway.cfg` | `PacketEndsAnyway` | the property of `packetpath` without its premise | a lost deletion leaves two nodes that route through each other, and the packet circles |
| `MCServerRunBlocks.cfg` | `ShutdownBlocks` | `core/server.h:21`: `Server::shutdown` blocks until all modules have ended ("阻塞,直到所有子模块退出") | it stores a flag and returns |
| `MCServerRunEnds.cfg` | `StopEnds` | a signal ends the process (`candy-cli/src/main.cc:37-42`) | between `make_shared` and `running.store(true)` (`core/server.cc:23`) it is overwritten |

## 7. Plan

Done, in this order: `UdpMux`, `WsServer`, `Peer` and `PeerLink`, `RouteTable`, `ClientRun`,
`SessionTcp`, `TunFlow`, `WsClient`; then `SessionUdp`, `PacketPath`,
`AddressRegistry` with the refinement, `ServerRun`; and the proofs of section 5.

Next, in this order:

1. An abstract byte channel with a window that `SessionTcp` implements in the forward
   direction.
2. Safety cores of the liveness properties: what a silent endpoint, a kicked
   connection or a closing session can never do again, as action properties with
   proofs.
3. Which nodes a packet may visit when the tables do not change.

## 8. What is not modelled, and why

- Tun devices (`tun/linux.cc`, `macos.cc`, `windows.cc`, `unknown.cc`): system calls
  that configure and read a device.
- Message formats and encryption: data without control.  The models take the
  verdict of a check as a choice.
- Command line, configuration, `argparse.h` (vendored), utilities: parsing and
  helpers without state.
- `MsgQueue::clear` at the end of `Client::run` (`core/client.cc:167-170`): all threads
  of the modules have ended by then and the next run builds a new `Client`, so that
  nobody sees the emptied queues.
- Signal handlers: the one of the server takes the mutex of `Utils::Atomic`, which the
  interrupted thread may hold.  What happens then is undefined; `ServerRun` lets the
  handler run on a thread of its own.
- lwIP, Poco, the kernel: external; modelled where a component depends on them
  (`tcp_write` may report `ERR_MEM`, windows and acknowledgements, `poll`).
- Data races on memory.  `RouteTable` takes a handler of the peer manager as atomic:
  it works on `rtTableMap` under a lock held alone.  The handlers of a peer hold
  `ipPeerMutex` shared only and are split in `Peer` at the accesses that matter; each
  access is one step, which holds of the fields on the supported processors and not
  by the language.  Two accesses are outside the mutex altogether: `sendRtMessage`
  (`manager.cc:706`) iterates over `ipPeerMap` while `handleTryP2P` may insert into it
  from another thread, and `handleTunAddr` (`manager.cc:237`) writes the key while the
  poll thread may decrypt with it.  The first is undefined behaviour of a container
  that no property of states expresses; the second looks like a lost datagram,
  which the models have.  In the server `vmac` is a string that one connection thread
  writes while another compares it, which `WsServer` takes as one step; `ctx.ip` is
  stored just before the lock is taken (`server.cc:188`), which another thread can see
  only of a connection that authenticates again, while it broadcasts.
- A dangling entry of the server's registry: `WsServer` lets a use of it throw, answer
  anything or mark any context.  That the process may crash there is left out.
- `sendFrame` to a client whose socket is full blocks under `ipCtxMutex`, for which
  others wait.  The models let it succeed or throw.
- Destruction of a `NetStack`.  `SessionUdp` ends with the teardown and the stop of the
  Reactor: tasks left in `stackTasks` count as holders of their session from then on
  (`Alive`), whereas `~NetStack` destroys them while the pcbs of lwIP, which is one for
  the process (`netstack.cc:214`), stay.  `RecvArgValid` is about the life of one
  `NetStack`.  `PeerKnown` is about sessions in the table; the orphan of
  `MCSessionUdpHeld.cfg` lives outside it and may outlive its way back.
- Wrap-around of clocks and of the 32-bit round-trip time: the only arithmetic near
  the limit is `RTT_LIMIT` plus the route cost, which `RouteTable` keeps apart
  (`Advertised`, `TypeOK`).

## 9. Reproducing

    tlc -workers 2 -config MCUdpMux.cfg UdpMux
    tlapm UdpMuxProofs.tla

`PROJECT.json` lists for every run its module, configuration and properties, and
for every property a mutated definition of the code under which TLC finds it
violated.

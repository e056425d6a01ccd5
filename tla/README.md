# A TLA+ verification of rustp2p

rustp2p is two Rust crates. `rustp2p-core` owns sockets: it turns UDP datagrams
and TCP connections into *tunnels*, punches NAT holes, and offers a table of
confirmed routes. `rustp2p-quic` builds an overlay on top: packets between peers
that may be relayed, route discovery, punch coordination, and QUIC connections
over virtual addresses. This directory models the parts of that system whose
behaviour depends on the order in which tasks run, model-checks them with TLC on
small instances, and proves the central invariants with TLAPS for all instances.

## The system

| Part | State | Operations | Hard behaviour |
|---|---|---|---|
| Route table (`route_table/table.rs`) | per peer an ordered list of routes with read times and a counter; an index key → peer | add, add if absent, update rtt / read time, remove, select | four orderings, early exit of the scan, two critical sections, an index kept in step by hand |
| Idle eviction (`idle.rs`) | a sleeping task | find the oldest route, sleep, remove | the table changes while the task sleeps |
| UDP dispatch (`endpoint/tunnel.rs`, `pool.rs`, `service.rs`) | five-tuple → tunnel, bounded queues, accept queue, one reader per socket | dispatch, register, publish, drop, add / clean assistants, shutdown | drops race with dispatch, ports are reused, a shutdown in three steps |
| TCP tunnels (`pool.rs`, `codec.rs`, `tunnel.rs`, `service.rs`, `punch/mod.rs`) | a read and a write task per connection, bounded channels, the halves | read, decode, deliver, write, publish, clone, drop, shutdown | partial reads and writes, back pressure, a timeout that cancels a publish |
| Bind (`service.rs`, `socket/`) | ports | bind with fallbacks | conflicts between families |
| Puncher (`punch/`) | backoff per peer and port cursor per first public address, assistant sockets | punch rounds, NAT model | concurrent rounds, the map at its limit |
| STUN / NAT info (`stun/`, `nat/`) | detected NAT type, addresses | detect, merge | answers out of order |
| Transport (`rustp2p-quic/transport.rs`) | one actor per tunnel, peers, routes | start actor, send, confirm | idle timeout racing traffic, actors replaced |
| Protocol (`protocol.rs`) | candidates, pending punches and hellos | packet handlers, heartbeat, maintenance, forwarding | loss, duplication, one dispatcher awaiting bounded channels |
| QUIC (`quic.rs`) | virtual addresses, connection caches | register, release, connect, clean up | maps updated one after the other by concurrent tasks |
| Endpoint, identity, certificates, address helpers | configuration | delegation | none |

The application holds a `TunnelIncoming` and the tunnels it yields. The transport
layer runs one actor per tunnel, hands packets to the protocol layer, and the
protocol layer writes the route table that the transport reads when it sends.

## Modules

| Module | Models | Checked by |
|---|---|---|
| `RouteTable` | the route table | `MCRouteTable`, `RouteTableProofs` |
| `IdleRoutes` | the eviction task over `RouteTable` (it EXTENDS it) | `MCIdleRoutes`, `IdleRoutesProofs` |
| `UdpDispatcher` | sockets' readers, dispatcher, UDP tunnels, shutdown | `MCUdpDispatcher`, `UdpDispatcherProofs` |
| `TcpTunnel` | one TCP connection, its two tasks and its publisher | `MCTcpTunnel`, `TcpTunnelProofs` |
| `TunnelActors` | the transport's actor per tunnel, the tunnels map, the raw channel | `MCTunnelActors`, `TunnelActorsProofs` |
| `ProtocolTasks` | the dispatcher, the QUIC loop, the sender and `add_bootstrap` over `TunnelActors` (it EXTENDS it) | `MCProtocolTasks`, `TunnelActorsProofs` |
| `Overlay` | packet handlers and periodic loops of several nodes over an unreliable network | `MCOverlay`, `OverlayProofs` |
| `AddressBook` | what synthetic addresses promise, abstractly | implemented by `VirtualPeers` |
| `VirtualPeers` | the two maps between peers and synthetic addresses | `QuicConnectionsProofs` |
| `QuicConnections` | connection caches, callers, loops and clean-up over `VirtualPeers` (it EXTENDS it) | `MCQuicConnections`, `QuicConnectionsProofs` |
| `BindPorts` | `TunnelIncoming::bind` with its fallbacks | through `CoreNode` |
| `StunTest` | what a NAT test may report | through `CoreNode` |
| `Puncher` | assistant sockets and punch rounds | through `CoreNode` |
| `CoreNode` | a node from bind to NAT maintenance: composes the three above | `MCCoreNode`, `CoreNodeProofs` |

**RouteTable.** `route_table` and `route_key_table` are the two DashMaps, as
functions whose domain is the set of keys present; `load_balance` is fixed by
`Init`. A public method locks the peer's entry and is one action. The exception is
`add_route_if_absent`, which has two critical sections: `AddIfAbsentFound` and
`AddIfAbsentLocked`. The second may run at any time, because a caller may have seen
the key absent before it appeared. `AddToList` is the body of `add_route_`, with the
scan's early exit (`Outranked`), the two reasons to leave a known route alone
(`KeepsKnown`), and the trailing sort or swap (`Reorder`). The counter wraps at
`CountRange` (2^64 in the code).

**IdleRoutes.** A route's `Instant` is modelled as the time since it was read.
`next_idle` returns an expired route or sleeps (`SleepFor`), and the loop of
`examples/client.rs` removes what it returned. Time passes in units and does not pass
while the task is runnable, so the bound of `EvictedInTime` is exact up to
scheduling delay.

**UdpDispatcher.** One task per socket. `dispatch` is `Enqueue`, `Register` and the
three outcomes of `try_send`: the map entry is locked for each, and the publication
happens after the entry has been released. A dropped tunnel first unregisters and then
closes its queue, in two steps. `TunnelIncoming` is dropped in three: the routes are
cleared, the signal is sent, the accept queue closes. A queue is a number of
datagrams. `early` marks tunnels of a socket that got its port before the previous
owner's reader had cleaned up; the code gives them no guarantee, and
`HeldIsRegistered` says so.

**TcpTunnel.** A frame is two units, a head and a body, so reads and writes can stop
inside a frame. The read task is `ReadSome`, `Decode`, `Deliver`; the write task is
`WriteTake`, `WriteHead`, `WriteBody`. The shutdown arms are only enabled in the
`select`, as in the code. The publisher is the accept loop or a TCP punch with its
timeout; the accept queue is shared with other tunnels (`OtherArrives`).

**TunnelActors.** `actors` lists the actor tasks in the order they were started,
`tunnels` is the map from route key to actor. An actor's `select` loop is
`ActorForward` (inbound, to the raw channel), `ActorTakeOutbound` and the two inner
waits, each with its idle arm; its end is `ActorUnregisters` and then `ActorDrops`, as
in the code, so a successor can be registered in between. `send_to_route` looks the
key up, waits for room, and removes the entry it found if the channel is closed.

**ProtocolTasks.** Adds the tasks on the other side of those channels. The dispatcher
is one task: it takes a packet and its handler may wait for an actor's channel, the
hello channel, the QUIC channel or a punch round. What the packet does to the routing
state is left to `Overlay`.

**Overlay.** Each node has its candidates, its peer records, its routes with metrics,
and what it waits for (hellos, bootstrap calls, punches). `net` only grows and any
packet in it may be delivered any number of times: loss, duplication and reordering
are all included. `open` records which links a node's own packets have opened through
its NAT. Every handler of `handle_transport_packet` is one action with all it writes,
every visit of a peer by the query, probe, punch, heartbeat and NAT observation loops
another. A rate limit is a choice. `Join` is a bootstrap that nothing disturbed, from the
call to the confirmed route at both ends, in one step; it may happen while no packet
has been sent otherwise. The same bootstrap packet by packet is there too.

**AddressBook, VirtualPeers, QuicConnections.** quinn knows peers by socket address
only. `AddressBook` says what that takes: an address belongs to one target at a time,
and a published address belongs to its target. `VirtualPeers` is the code: two
DashMaps updated one after the other by `register`, `release` and the like, one action
per map operation. `QuicConnections` adds the callers of `connection_to` and
`connection_to_via`, the transport loop, the accept loop, and the reader tasks that
remove the connection and the address when a connection ends. The transport loop maps
the address of an incoming packet in one step; the accept loop takes the connection over
in a later one, or ends for good if the handshake fails. The clean-ups of several closed
connections run at the same time, and a caller whose stream cannot be opened, on a
new connection or none, releases the address once more.

**BindPorts, StunTest, Puncher, CoreNode.** `bind` is a sequence of attempts, each
answered by the operating system in any way it may answer. A STUN test shares no state,
so it is a set of results (`StunResults`), one for each way its answers may be lost,
late or repeated. The puncher is shared: `apply_nat_model` takes the model lock and adds
sockets one by one, and `punch_now` reads the port cursor, scans, and writes it back
without a lock in between. `CoreNode` runs bind, then the STUN loop, other users of the
puncher, and the rounds, concurrently.

## Runs

| Run | Shows |
|---|---|
| `route_table` | two peers, two shared keys, three metrics, all four policies: no empty entry, no key twice, the index never stale, the route reported and the route used agree under the hop-ordered policies, no route worsens, measurements survive confirmations, and `add_route_if_absent` never overwrites |
| `idle_routes` | no route stays beyond `read_idle`, and each expired route leaves or is read again |
| `udp_dispatch` | no datagram is queued where nobody reads, no registration outlives its reader, a held tunnel stays registered, the first datagram is in the tunnel, readers end |
| `tcp_tunnel` | frames arrive in order and whole, None means everything was received, no half frame is left behind, the queue is written before the task ends |
| `tcp_tasks_end` | a dropped tunnel ends both tasks while the peer reads; a dropped `TunnelIncoming` ends the publisher, also when it waits for room |
| `tcp_shutdown` | violated: the shutdown does not reach a task that waits inside a select arm |
| `tunnel_actors` | an entry of the tunnels map is the latest actor of its key, and the latest actor is in the map while it runs, whoever ends or fails to send in the meantime |
| `dispatcher` | with every channel full the dispatcher and the QUIC sender wait for a stuck tunnel only until its idle timer fires, if no more hello replies arrive than their channel holds |
| `dispatcher_stall` | violated: with one hello reply more, the dispatcher waits for ever |
| `overlay` | a direct route, whichever packet confirmed it, is the peer's own address and passes its NAT; a peer with a direct route is recorded as direct; when one end has a direct route, the other has what it needs to find it |
| `quic` | the two maps implement the address book; a cached connection reaches the peer it is cached for; a live connection leaves the cache only for a newer one, whatever is cleaned up meanwhile |
| `node` | the sockets are those asked for; a cone NAT is never taken for a symmetric one; models do not mix; overlapping scans skip no port, and every port gets its packet while scans go on |

Two runs show a disagreement between the code and what the repository says of it.
The first: `pool.rs:44` says of the global shutdown that it "kills ALL tasks
(main + sub)". The write task awaits `write_all_vectored` and the read task awaits
`data_tx.send` inside their select arms, where the shutdown is not polled. The trace
of `tcp_shutdown` ends with a peer that does not read and a write task that stays.

The second: a comment at `protocol.rs:1398` gives the reason for spawning a probe,
"blocking on the probe would stall processing of subsequent inbound packets". The
handler of a hello reply awaits `send_async` on a bounded channel (`protocol.rs:769`)
that only a running `add_bootstrap` reads. Replies that come late, or that answer the
periodic probes, stay in it. In `dispatcher_stall` the channel holds one and two
arrive; in the code it holds 128. `dispatcher` is the same specification with as many
replies as the channel holds, and there the property is true.

Other places where the code and its documentation part were met while modelling. The
modules follow the code, and no run is about the sentence that does not hold:

- `rustp2p-quic/DESIGN.md:128` says that a `PunchRequest` "records only a candidate
  route" and that a matching `PunchReply` is required; line 149 lists the request
  among the "Non-confirmation sources", and `protocol.rs:357` says "Only a matching
  reply can promote a punch candidate". The handler confirms a direct route, if there
  is none yet, on any direct `PunchRequest` (`protocol.rs:816`), because it "proves
  bidirectional reachability just as strongly". It does the same on a direct
  `HelloRequest` (`protocol.rs:738`). `OnPunchRequest` and `OnHelloRequest` in
  `Overlay` are the code, and `DirectWorks` shows that the routes so confirmed do
  work.
- `service.rs:177` and `config.rs:31` say that missing IPv6 is "a silent downgrade to
  IPv4 only, not an error". With an explicit IPv6 address `bind` returns the error, for
  UDP and for TCP; the comment at `service.rs:389` says so for TCP. `BoundAsAsked`
  states what the code does.
- `service.rs:167` says that the two UDP sockets are "sharing the same port". After
  twenty failed pairings of ports of the system's choice they have different ones
  (`service.rs:215`). `BoundAsAsked` allows exactly that case.
- `quic.rs:731` says "Don't release the virtual peer if a concurrent connection has
  already registered a working connection". The check and the release are two steps,
  `connection_to_via` and `open_bi_via` release without a check, and a clean-up releases
  after it has left the cache (`quic.rs:894`). So a live cached connection may lose its
  address; its packets are then dropped until it times out.
- The accept loop ends at the first incoming handshake that fails (`quic.rs:810`), since
  `accept_quic` returns `None` for that as for a closed endpoint. No document says
  whether it should.
- `quic.rs:903` names `IdleRouteManager` as what ends the life of a route;
  `rustp2p-quic` does not use it. `IdleRoutes` is about the users of `rustp2p-core`.

### Bounds

Every queue has capacity one, so each of them is full, empty and closed in some
state; a second slot only adds states in which nothing waits. In `route_table` two
peers and two keys are the smallest instance in which an index entry changes owner
and a list has an order; three metrics give one direct and two relay lengths, and the
counter wraps after two. `MaxAge` is 0 there (ages play no part) and 4 in
`idle_routes`, one more than the period. `udp_dispatch` has a main socket and two
assistants that share an address, so that a port is reused; two registrations are
enough for an old and a new tunnel of one five-tuple. `tcp_tunnel` sends three
frames each way, the third too large: one in the channel, one in the task's hands.
`tcp_tasks_end` and `tcp_shutdown` use two frames in and one out, which is what fills
each place a task can wait in; the temporal check is what limits them.
`tunnel_actors` has three tunnels on two keys, so that a key has an old and a new actor
while the other key is in use. `dispatcher` has one actor and every kind of wait: a
circle of waits needs one tunnel, the dispatcher and one full channel in each
direction. `overlay` has the smallest network with a relay, two nodes behind NATs and a
public one, and six packets in all: after two `Join`s they are enough for a discovery
over the relay and a punch or hello exchange, interleaved, and without them for two
bootstraps that disturb each other; `MaxTtl` 2 allows one relay. `quic` has one peer with
and without a route of its own, two addresses and two connections: an old connection
whose address was released and a new one, at the same time; two readers, as each
connection is cleaned up once. When all addresses are
remembered by somebody, registrations wait for one; the code draws from 2^32, and that
it draws one that a stalled task still remembers is left out.
`node` has configurations with and without fixed ports, TCP and IPv6, three STUN
servers of which one names a second address, two assistants, two rounds at a time, and
four ports scanned with limits that end between two ports and inside one.
Deadlock is not checked: a table may be unused, and after a shutdown everything stops.
`route_table` uses symmetry of peers and keys, which no definition tells apart;
`overlay` swaps the two nodes behind NATs, and `quic` permutes addresses, callers
and readers.

### Fairness

The tokio runtime polls every task that can run, hence weak fairness on task steps. A
`select!` polls its arms in random order, so an arm that is ready again and again is
taken: strong fairness on shutdown arms. A timeout fires and a drop that has begun
completes: weak fairness. `dispatcher` adds that an actor's idle timer fires while it
waits inside a select arm, and that room in a channel goes to waiting senders in order
(flume and tokio channels queue them), hence strong fairness on a send that waits.
`EveryPortTried` assumes none: its premise says which steps must recur. Nothing is
assumed of the network, the peer or the application, except where a property says so
(`DropEndsTasks` asks that the peer does not stop reading for good).

## Proofs

`RouteTableProofs` proves, for all peers, keys, metrics, rtts and policies, `TypeOK`,
`ListsWellFormed`, `OwnerHasDirectRoute`, `ReportMatchesUse`, `RoutesNeverWorsen`,
`MeasurementKept` and `IfAbsentNeverOverwrites`. The assumption is `RouteTableConstants`
(the metrics and rtts are naturals, the counter's range is positive). The inductive
invariant `IInv` says that every list is a non-empty sequence of routes with distinct
keys, ordered by metric under the hop-ordered policies, and that the owner the index
names has a direct route over the key. The order is needed for `ReportMatchesUse`, and
the distinct keys for the action properties: an update touches one position, so every
other route is as it was. The lemmas are about the list operators: a stable sort, a swap
and a filter return the same routes in another order or a part of them (`Arrange`), from
which each operation's effect on keys, metrics and rtts follows. The proof of a step has
one case per operation.

`IdleRoutesProofs` builds on those lemmas and proves `EvictedInTime` for every period
(`IdleConstants`). That no route is older than `read_idle` is not inductive: time
passes, and nothing says that the task will wake up. `IdleInv` says how the sleep bounds
the ages: every route is at most `ReadIdle - sleep` old, and a task with a victim in its
hands does not sleep. A tick takes one from the sleep and adds one to the ages;
every use of the table keeps ages or resets them; and the sleep is computed from the
oldest route, which exists because ages are bounded. `IdleImplementsTable` shows that the
task changes the table only as its users do, so everything proved of `RouteTable` is true
of it with the task running.

`UdpDispatcherProofs` proves, for any sockets, remotes, capacities and number of
tunnels, `TypeOK`, `RegisteredIsHeld`, `RegistrationHasReader`, `HeldIsRegistered` and
`FirstDatagramKept`, from `UdpConstants`. None of the five is inductive alone. `IInv`
adds who has a tunnel in hand (`Hands`), that the accept queue holds each waiting
tunnel once (`Queue`), that a tunnel's key has the address of the reader that made it
(`Origins`), that two readers of one address are not both at work (`Exclusive`), and
that no other reader of the address is left to clean up while a tunnel that is not
`early` is being read for (`Settled`). With these, an unregistration
by id cannot hit another tunnel, and a clean-up by address cannot hit a tunnel of a
live reader unless it is marked `early`.

`TcpTunnelProofs` proves `TypeOK`, `InOrder`, `EndMeansAll`, `WholeFrames` and `Flushed`
from `TcpConstants`, for channels, socket buffers and numbers of frames of any size.
The inductive invariant `Inv` has four parts. `Types` are the types. `InFlow`: what the
application has got and what is in the channel are the first frames in order (`Run`), and
what is in the read task's buffer and in the network is the units of the frames after
some number m (`Stream`), where m tells whether the task holds a frame in its hand.
`OutFlow`: the same for the frames written, in hand and queued, and why a
write task has ended. `Order`: the tasks are spawned before the tunnel is published.
`InFlow` is needed because a read may stop anywhere: only the concatenation of buffer
and network is a stream of whole frames. Its lemmas say what appending to, splitting and
shortening such sequences gives.

`TunnelActorsProofs` proves `MapHoldsLatest` and the `TypeOK` of `ProtocolTasks` for any
keys, callers, capacities and number of tunnels, from `TunnelConstants` and
`TaskConstants`. The argument for the map is that actors are numbered in the order they
start, and both removals compare the number. It holds for the actors alone among any
senders (`ActorSpec`, the specification of the run `tunnel_actors`), and
`TasksImplementActors` shows that the tasks of `ProtocolTasks` are such senders.
`TaskInv` adds the types of actors, channels and calls, and that an actor that waits to
forward a packet has one (`RawKinds`); from there the dispatcher gets a packet of a
known kind and key.

`QuicConnectionsProofs` proves that the two maps implement `AddressBook`, first alone
(`SocketSpec`) and then under all the tasks of `QuicConnections` (`QuicSpec`): `owner` is
the map by address, `published` the map by target. `SocketInv` states for each running
call what it remembers of the address it works on, and that no two calls work on a fresh
one. For `QuicSpec` it also proves `CachedReaches` and `LiveStaysCached`, for any targets,
addresses, callers, readers and connections, from `VirtualPeersConstants` and
`QuicConstants`. `QuicInv` adds what a caller relies on
while it waits: an address it has registered, or dialled, is mapped to its target or to
nobody, and only calls for its target hold it (`Claim`). So the address cannot be given to
somebody else before the handshake is over, and the connection reaches the
target. `IncomingOK` says that a connection the accept loop has yet to take has an address.
`OwnHandshake` keeps two callers from sharing a handshake, and `CacheOK` is
`CachedReaches` with the connection established.

`CoreNodeProofs` proves the five invariants of the composed node from `BindConstants`,
`StunConstants`, `PuncherConstants` and `NodeConstants`. `BoundAsAsked` needs what has
been bound at each step of `bind` and how many pairings failed (`UdpSteps`, `TcpSteps`).
`AssistantsMatch` needs that only the holder of the model lock is changing sockets and
how many it has left (`ModelInv`). `NoPortSkipped` needs that every port before the
cursor a round is about to write has been sent to (`ScanInv`); its core is a lemma on
`punch_symmetric`, that every port it counts got all its packets (`CountedAreSent`),
which rests on a division with remainder. `ConeRecognised` holds because a cone NAT
gives the socket of a round and a family one port, so that a test has nothing to tell
apart, whichever answers it gets. `TypeOK` needs that a test reports a NAT type and a
range of ports, for every list of servers. Which destinations may be heard from is a
recursive function over the servers; that it is defined as intended at every index is
shown by taking the smallest index where it would not be, as no induction rule of the
library can be used.

`OverlayProofs` proves `TypeOK`, `DirectWorks`, `DirectIsStored` and `BothEnds` from
`OverlayConstants`, for any finite set of nodes, any NATs, bootstraps, TCP links and
whitelists, and any hop and packet limit. The inductive invariant `Inv` adds what a
packet under way says of its sender and receiver (`NetOK`), and that every route, direct
or over a relay, uses a key both ends are `Ready` for (`RoutesOK`). A node is ready for
a key when it has noted it in `hello`, `calls` or `punch`, or has a candidate or a
direct route for it. The argument is that the first packet over a link is one its
sender has noted, and that whatever removes the note leaves a candidate or a direct
route. `Good` is the part about one node: its types, and that direct routes are the
peer's own key and are recorded. Each handler is shown to keep it and to add routes
only over the key the packet came in by (`Follows`); one lemma per handler then
carries `Inv` over the step.

Every invariant, action property and refinement that a passing run checks is proved. Only
model-checked are the liveness properties: `ExpiredEventuallyGone`, `ReadersStop`,
`DropEndsTasks`, `PublisherEnds`, `EveryPacketHandled`, `SenderFreed` and
`EveryPortTried`. They rest on fairness, or on what recurs for ever, which is out of the
prover's reach.

## Abstractions

Payloads, addresses and peer ids are model values; logging and configuration are left
out. Not modelled in the components above: the read-only reports of the route table;
the drop of `SocketPool` itself, which ends tasks that subscribed after the shutdown
signal; a tokio permit taken before a channel closes; the batch of `recvmmsg`, whose
datagrams are dispatched one by one with a chance to stop in between; the back-off of
the accept loop after an error; `BytesCodec`, which has no frames; a custom
`InitCodec` that fails. A UDP address counts as free once its reader's handle is gone,
although the writer may hold the socket a little longer: this allows more reuse than
the code. A custom codec may split a frame into more than two pieces; two are enough
for "inside a frame".

## Not modelled

- When a punch is due: `need_punch`, `should_punch`, the punch statistics and the
  back-off. They are arithmetic on one peer's counters and the clock; `Puncher` lets a
  round begin at any time, which includes every schedule.
- In a punch round: the first phase with predicted ports, and the addresses that are
  not scanned for. They send packets and write nothing that is shared.
- The address lists of `NatInfo`. `StunTest` has the type and the port range.
- Punch consult packets, changes of the whitelist and the timing of the loops in
  `protocol.rs`. `Overlay` lets each loop visit a peer at any time.
- Messages inside QUIC connections, and quinn itself, which is external.
- The UDP writer tasks, which drain one queue into one socket.
- Packet and STUN encodings, certificates and identity, address helpers, builders and
  the example programs: data conversion or configuration without state of their own.
- An abstract specification of a tunnel that both `UdpDispatcher` and `TcpTunnel`
  implement. The two promise different things (a lossy queue, a stream of frames), so
  each states its promises as invariants instead.

------------------------------- MODULE Overlay -------------------------------
(***************************************************************************)
(* Discovery, relaying and hole punching between nodes:                    *)
(* rustp2p-quic/src/protocol.rs (handle_transport_packet, the maintenance, *)
(* heartbeat and NAT observation loops, punch, add_bootstrap) and the peer *)
(* store of transport.rs (upsert_peer_info, confirm_peer_route).           *)
(*                                                                         *)
(* A route key at a node is the neighbour at its other end.  Packets are   *)
(* lost, repeated and reordered: net holds every packet sent so far, and   *)
(* each may be delivered any number of times.  A node behind a NAT is      *)
(* reached only over links its own packets have opened.  A handler is one  *)
(* step (the dispatcher runs them one at a time; ProtocolTasks models what *)
(* they wait for), each visit of a peer by a periodic loop is another.     *)
(* Time is left out: a rate limit may or may not bite.                     *)
(***************************************************************************)
EXTENDS Integers, FiniteSets

CONSTANTS
  Node,        \* the nodes
  Public,      \* those that are behind no NAT
  Bootstrap,   \* <<n, m>>: n calls add_bootstrap with the address of m
  Tcp,         \* links, as sets of two nodes, that are TCP connections
  Allowed,     \* <<n, m>>: m is in the punch whitelist of n
  Observers,   \* the peers asked for the own address (nat_observers)
  MaxTtl,      \* the hop limit of new packets (8 by default)
  MaxPackets,  \* bound: how many different packets are ever sent
  None,
  Broadcast    \* the destination of a bootstrap's HelloRequest

ASSUME OverlayConstants ==
  /\ IsFiniteSet(Node)
  /\ Public \subseteq Node
  /\ Bootstrap \subseteq Node \X Public
  /\ \A l \in Tcp : l \subseteq Node
  /\ Allowed \subseteq Node \X Node
  /\ Observers \subseteq Node
  /\ MaxTtl \in Nat \ {0}
  /\ MaxPackets \in Nat
  /\ None \notin Node /\ Broadcast \notin Node

VARIABLES
  node,  \* node -> its routing state
  net,   \* the packets sent so far
  open   \* <<m, n>>: packets from m pass the NAT of n

vars == <<node, net, open>>

\* No route; larger than any metric that occurs.
Far == MaxTtl + Cardinality(Node)

Metric == 0 .. Far

\* What the peer store holds of a peer; hint is the relay it was heard through.
PeerInfo == [known : BOOLEAN, direct : BOOLEAN, hint : Node \cup {None}]

\* A NatInfo is absent, without a public address, or with one.
NatKind == {"none", "bare", "public"}

\* The request id of a punch: the one of the request sent over the route to the
\* peer, or the one of execute_punch.
Id == {"route", "direct"}

\* routes: peer -> key -> metric.  candidates: peer -> key.  hello, observe:
\* the keys and peers a HelloReply or NatObserveReply is awaited from.  punch:
\* pending_punch.  calls: bootstraps that have sent and not yet noted the key.
\* nat: peer_nat, and the node's own nat_info.
State == [routes : [Node -> [Node -> Metric]], peers : [Node -> PeerInfo],
          candidates : [Node -> Node \cup {None}], hello : SUBSET Node,
          punch : SUBSET (Id \X Node), observe : SUBSET Node, calls : SUBSET Node,
          nat : [Node -> NatKind]]

\* A RouteEntry: the advertiser's own metric and peer info.
Entry == [peer : Node, metric : Metric, hint : Node \cup {None}, nat : NatKind]

-----------------------------------------------------------------------------
(* Routes and the peer store of one node; s is the state of node n. *)

Keys(s, p) == {k \in Node : s.routes[p][k] < Far}

HasDirect(s, p) == \E k \in Node : s.routes[p][k] = 0

\* get_route_by_id under MinHopLowestLatency: a direct route, else one of the
\* shortest (their round-trip times decide).
RouteFor(s, p) ==
  {k \in Keys(s, p) : \A o \in Keys(s, p) : s.routes[p][k] <= s.routes[p][o]}

\* Mutant of RouteToId: an unknown peer is reported as the broadcast id.
RouteToIdUnspecified(s, k) ==
  LET owners == {p \in Node : s.routes[p][k] = 0}
  IN  IF owners = {} THEN Broadcast ELSE CHOOSE p \in owners : TRUE

\* route_to_id: the peer that key k reaches directly.
RouteToId(s, k) ==
  LET owners == {p \in Node : s.routes[p][k] = 0}
  IN  IF owners = {} THEN None ELSE CHOOSE p \in owners : TRUE

\* add_route (RouteTable models it in full): a longer relay route does not
\* join a shorter one, and a direct key is not turned into a relay.
AddRoute(s, p, k, m) ==
  IF \/ m > 0 /\ s.routes[p][k] = 0
     \/ m > 0 /\ \E o \in Node : s.routes[p][o] \in 1 .. m - 1
  THEN s
  ELSE [s EXCEPT !.routes[p][k] = m]

\* Mutant of Merge: what is stored is forgotten.
MergeNew(old, direct, hint) == [known |-> TRUE, direct |-> direct, hint |-> hint]

\* upsert_peer_info: direct is sticky, and a direct peer has no relay.
Merge(old, direct, hint) ==
  [known  |-> TRUE,
   direct |-> direct \/ old.direct,
   hint   |-> IF old.known /\ (direct \/ old.direct) THEN None
              ELSE IF hint = None THEN old.hint ELSE hint]

UpsertPeerInfo(n, s, p, direct, hint) ==
  IF p = n THEN s
  ELSE [s EXCEPT !.peers[p] = Merge(@, direct, hint)]

\* confirm_peer_route.
ConfirmPeerRoute(n, s, p, hint, k, m) ==
  LET relay == IF hint = None THEN RouteToId(s, k) ELSE hint
  IN  UpsertPeerInfo(n, AddRoute(s, p, k, m), p, m = 0,
                     IF m = 0 THEN None ELSE relay)

\* confirm_direct_and_promote; its probe is one of Heartbeat's packets.
ConfirmDirect(n, s, p, k) ==
  [ConfirmPeerRoute(n, s, p, None, k, 0) EXCEPT !.candidates[p] = None]

\* peer_info_from_packet: the hint of a packet's source.
PacketHint(s, pkt) == IF pkt.hops > 0 THEN RouteToId(s, pkt.from) ELSE None

\* confirm_tcp_route.
ConfirmTcp(n, s, pkt) ==
  IF {n, pkt.from} \in Tcp /\ pkt.hops = 0
  THEN ConfirmDirect(n, s, pkt.src, pkt.from)
  ELSE s

\* confirm_relay_route_from_control.
ConfirmRelay(n, s, pkt) ==
  IF pkt.hops > 0
  THEN ConfirmPeerRoute(n, s, pkt.src, PacketHint(s, pkt), pkt.from, pkt.hops)
  ELSE s

\* self_peer_info, as a route entry.
SelfEntry(n, s) == [peer |-> n, metric |-> 0, hint |-> None, nat |-> s.nat[n]]

\* discovery_entries: the node itself and every peer it has a route to.
DiscoveryEntries(n, s, requester) ==
  {SelfEntry(n, s)}
  \cup {[peer |-> p, metric |-> s.routes[p][CHOOSE k \in RouteFor(s, p) : TRUE],
         hint |-> s.peers[p].hint, nat |-> s.nat[p]] :
          p \in {q \in Node \ {requester} : s.peers[q].known /\ Keys(s, q) # {}}}

\* The hop to the advertiser is counted.
IngestMetric(m) == m + 1

\* peer_nat.insert for every entry that carries a NatInfo, stale or not.
LearnNat(s, entries) ==
  [s EXCEPT !.nat = [p \in Node |->
     LET of == {e \in entries : e.peer = p /\ e.nat # "none"}
     IN  IF of = {} THEN @[p] ELSE (CHOOSE e \in of : TRUE).nat]]

\* ingest_route_entries.
Ingest(n, s, entries, via) ==
  LET others == {e \in entries : e.peer # n}
      of(p)  == CHOOSE e \in others : e.peer = p
      all    == {e.peer : e \in others}
      learnt == LearnNat(s, others)
      after(p) == ConfirmPeerRoute(n, learnt, p, of(p).hint, via,
                                   IngestMetric(of(p).metric))
  IN  [learnt EXCEPT
         !.routes = [p \in Node |-> IF p \in all THEN after(p).routes[p] ELSE @[p]],
         !.peers  = [p \in Node |-> IF p \in all THEN after(p).peers[p] ELSE @[p]]]

-----------------------------------------------------------------------------
(* Sending. *)

Packet(type, src, dest, from, to, body) ==
  [type |-> type, src |-> src, dest |-> dest, hops |-> 0, from |-> from,
   to |-> to, body |-> body, id |-> "none"]

\* A punch payload: the sender's NatInfo and a request id.
PunchPacket(type, n, s, p, k, id) ==
  [Packet(type, n, p, n, k, {SelfEntry(n, s)}) EXCEPT !.id = id]

\* send_protocol_to_route over key k.
ToRoute(n, p, k, type, body) == Packet(type, n, p, n, k, body)

\* send_protocol: over the route to p, if there is one.
Over(n, s, p, type, body) ==
  {Packet(type, n, p, n, k, body) : k \in RouteFor(s, p)}

\* The bound leaves room for a call or a loop to send.
Room == Cardinality(net) < MaxPackets

\* Node n goes to state s and sends pkts: every packet that leaves a node lets
\* answers in.  Over the bound they are lost.
Step(n, s, pkts) ==
  /\ node' = [node EXCEPT ![n] = s]
  /\ net' = IF Cardinality(net \cup pkts) <= MaxPackets THEN net \cup pkts ELSE net
  /\ open' = open \cup {<<p.to, n>> : p \in pkts}

-----------------------------------------------------------------------------
(* The handlers: node n, in state s, has received pkt. *)

OnHelloRequest(n, s, pkt) ==
  LET t == IF pkt.hops = 0 THEN ConfirmDirect(n, s, pkt.src, pkt.from)
                           ELSE ConfirmTcp(n, s, pkt)
  IN  Step(n, t, {ToRoute(n, pkt.src, pkt.from, "HelloReply",
                          DiscoveryEntries(n, t, pkt.src))})

\* A reply that was asked for over a direct key confirms it.
OnHelloReply(n, s, pkt) ==
  LET told  == LearnNat(s, {e \in pkt.body : e.peer = pkt.src})
      heard == [told EXCEPT !.nat[n] = IF pkt.hops = 0 THEN "public" ELSE @,
                            !.hello = @ \ {pkt.from}]
      peer  == IF pkt.hops = 0 /\ pkt.from \in s.hello
               THEN ConfirmDirect(n, heard, pkt.src, pkt.from)
               ELSE UpsertPeerInfo(n, heard, pkt.src, TRUE, None)
  IN  Step(n, Ingest(n, peer, pkt.body, pkt.from), {})

OnIDRouteQuery(n, s, pkt) ==
  LET t == ConfirmRelay(n, s, pkt)
  IN  Step(n, t, {ToRoute(n, pkt.src, pkt.from, "IDRouteReply",
                          DiscoveryEntries(n, t, pkt.src))})

OnIDRouteReply(n, s, pkt) ==
  LET t == ConfirmRelay(n, ConfirmTcp(n, s, pkt), pkt)
  IN  Step(n, Ingest(n, t, pkt.body, pkt.from), {})

\* execute_punch: a PunchRequest straight to the peer's public address, if the
\* NatInfo has one.
Punches(n, s, p, public) ==
  IF public THEN {PunchPacket("PunchRequest", n, s, p, p, "direct")} ELSE {}

\* Mutant of Pending: only the request over the route is noted.
PendingRoute(s, p, ids) == [s EXCEPT !.punch = @ \cup ((ids \ {"direct"}) \X {p})]

\* pending_punch.insert.
Pending(s, p, ids) == [s EXCEPT !.punch = @ \cup (ids \X {p})]

\* try_execute_punch: not when there is a direct route; over a relay it may be
\* rate limited; a direct packet shows the address itself.
TryExecutePunch(n, s, pkt, replies) ==
  LET may == <<n, pkt.src>> \in Allowed /\ ~HasDirect(s, pkt.src)
  IN  \/ /\ ~may \/ pkt.hops > 0
         /\ Step(n, s, replies)
      \/ /\ may
         /\ Step(n, Pending(s, pkt.src, {"direct"}),
                 replies \cup Punches(n, s, pkt.src,
                                     s.nat[pkt.src] = "public" \/ pkt.hops = 0))

\* A request that came directly confirms the way it came.
ConfirmPunched(n, s, pkt) ==
  IF pkt.hops = 0 /\ ~HasDirect(s, pkt.src)
  THEN ConfirmDirect(n, s, pkt.src, pkt.from)
  ELSE s

\* handle_punch_payload stores the sender's NatInfo first.
OnPunchRequest(n, s, pkt) ==
  LET t == ConfirmPunched(n, LearnNat(s, pkt.body), pkt)
      u == IF pkt.hops = 0 THEN [t EXCEPT !.candidates[pkt.src] = pkt.from] ELSE t
  IN  TryExecutePunch(n, u, pkt,
        IF <<n, pkt.src>> \in Allowed
        THEN {PunchPacket("PunchReply", n, u, pkt.src, pkt.from, pkt.id)}
        ELSE {})

OnPunchReply(n, s, pkt) ==
  LET heard == LearnNat(s, pkt.body)
      asked == <<pkt.id, pkt.src>>
      t == IF asked \in s.punch THEN ConfirmPunched(n, heard, pkt) ELSE heard
  IN  TryExecutePunch(n, [t EXCEPT !.punch = @ \ {asked}], pkt, {})

OnEchoRequest(n, s, pkt) ==
  Step(n, ConfirmTcp(n, s, pkt), {ToRoute(n, pkt.src, pkt.from, "EchoReply", {})})

\* is_confirmed_or_candidate.
ConfirmedOrCandidate(s, pkt) ==
  /\ pkt.hops = 0
  /\ s.routes[pkt.src][pkt.from] = 0 \/ s.candidates[pkt.src] = pkt.from

OnNatObserveRequest(n, s, pkt) ==
  Step(n, s, IF ConfirmedOrCandidate(s, pkt)
             THEN {ToRoute(n, pkt.src, pkt.from, "NatObserveReply", {})} ELSE {})

\* is_confirmed_or_pending_nat_observe, then the own address is known.
OnNatObserveReply(n, s, pkt) ==
  LET pending == pkt.hops = 0 /\ pkt.src \in s.observe
      t == IF ConfirmedOrCandidate(s, pkt) \/ pkt.hops > 0 THEN s
           ELSE [s EXCEPT !.observe = @ \ {pkt.src}]
  IN  Step(n, IF pkt.src \in Observers /\ (ConfirmedOrCandidate(s, pkt) \/ pending)
              THEN ConfirmDirect(n, [t EXCEPT !.nat[n] = "public"], pkt.src, pkt.from)
              ELSE t, {})

\* An EchoReply only refreshes the round-trip time.
Handle(n, s, pkt) ==
  \/ pkt.type = "HelloRequest" /\ OnHelloRequest(n, s, pkt)
  \/ pkt.type = "HelloReply" /\ OnHelloReply(n, s, pkt)
  \/ pkt.type = "IDRouteQuery" /\ OnIDRouteQuery(n, s, pkt)
  \/ pkt.type = "IDRouteReply" /\ OnIDRouteReply(n, s, pkt)
  \/ pkt.type = "PunchRequest" /\ OnPunchRequest(n, s, pkt)
  \/ pkt.type = "PunchReply" /\ OnPunchReply(n, s, pkt)
  \/ pkt.type = "EchoRequest" /\ OnEchoRequest(n, s, pkt)
  \/ pkt.type = "EchoReply" /\ Step(n, s, {})
  \/ pkt.type = "NatObserveRequest" /\ OnNatObserveRequest(n, s, pkt)
  \/ pkt.type = "NatObserveReply" /\ OnNatObserveReply(n, s, pkt)

\* Mutant of Forward: the hop is not counted.
ForwardUncounted(n, s, pkt) ==
  \/ RouteFor(s, pkt.dest) = {} /\ Step(n, s, {})
  \/ \E k \in RouteFor(s, pkt.dest) :
       Step(n, s, {[pkt EXCEPT !.from = n, !.to = k]})

\* forward_packet: unless the hop limit is reached or there is no route.
Forward(n, s, pkt) ==
  \/ (pkt.hops + 1 = MaxTtl \/ RouteFor(s, pkt.dest) = {}) /\ Step(n, s, {})
  \/ \E k \in RouteFor(s, pkt.dest) :
       /\ pkt.hops + 1 < MaxTtl
       /\ Step(n, s, {[pkt EXCEPT !.hops = @ + 1, !.from = n, !.to = k]})

\* What every packet does before it is forwarded or handled.
Received(n, pkt) ==
  LET s == UpsertPeerInfo(n, node[n], pkt.src, FALSE, PacketHint(node[n], pkt))
  IN  IF pkt.hops = 0 THEN [s EXCEPT !.candidates[pkt.src] = pkt.from] ELSE s

\* handle_transport_packet.
Deliver(pkt) ==
  LET n == pkt.to
      s == Received(n, pkt)
  IN  /\ <<pkt.from, n>> \in open
      /\ pkt.src # n
      /\ IF pkt.dest \in {n, Broadcast} THEN Handle(n, s, pkt) ELSE Forward(n, s, pkt)

-----------------------------------------------------------------------------
(* Calls of the user and visits of the periodic loops. *)

\* add_bootstrap_once sends first and notes the key it expects an answer from
\* afterwards.
BootstrapSend(n, m) ==
  /\ <<n, m>> \in Bootstrap
  /\ Keys(node[n], m) = {}
  /\ Room
  /\ Step(n, [node[n] EXCEPT !.calls = @ \cup {m}],
          {Packet("HelloRequest", n, Broadcast, n, m, {})})

BootstrapNote(n, m) ==
  /\ m \in node[n].calls
  /\ Step(n, [node[n] EXCEPT !.calls = @ \ {m}, !.hello = @ \cup {m}], {})

\* A whole bootstrap that nothing disturbs, while there is no other traffic:
\* BootstrapSend, the two handlers and BootstrapNote, every packet of it gone.
\* It leaves the bound on packets to what comes afterwards.
Join(n, m) ==
  LET t == ConfirmDirect(m, node[m], n, n)
      u == [node[n] EXCEPT !.nat[n] = "public", !.nat[m] = t.nat[m]]
  IN  /\ <<n, m>> \in Bootstrap
      /\ Keys(node[n], m) = {}
      /\ net = {}
      /\ node' = [node EXCEPT
           ![m] = t,
           ![n] = Ingest(n, ConfirmDirect(n, u, m, m), DiscoveryEntries(m, t, n), m)]
      /\ open' = open \cup {<<m, n>>}
      /\ UNCHANGED net

\* start_maintenance_loop, one peer at a time.
Query(n, p) ==
  /\ node[n].peers[p].known
  /\ Room
  /\ \E pkt \in Over(n, node[n], p, "IDRouteQuery", {}) : Step(n, node[n], {pkt})

Probe(n, p) ==
  LET k == node[n].candidates[p]
  IN  /\ k # None
      /\ Keys(node[n], p) = {}
      /\ Room
      /\ Step(n, [node[n] EXCEPT !.hello = @ \cup {k}],
              {ToRoute(n, p, k, "HelloRequest", {})})

\* The PunchRequest over one of the equally good routes, if there is any, and
\* execute_punch, if the peer's address is known.
PunchBoth(n, s, p) ==
  LET public == s.nat[p] = "public"
      t == Pending(s, p, IF public THEN Id ELSE {"route"})
  IN  \/ RouteFor(s, p) = {} /\ Step(n, t, Punches(n, s, p, public))
      \/ \E k \in RouteFor(s, p) :
           Step(n, t, {PunchPacket("PunchRequest", n, s, p, k, "route")}
                      \cup Punches(n, s, p, public))

AutoPunch(n, p) ==
  /\ node[n].peers[p].known
  /\ <<n, p>> \in Allowed
  /\ ~HasDirect(node[n], p)
  /\ Room
  /\ PunchBoth(n, node[n], p)

\* punch: without a route the request id is noted and an error returned; no
\* packet ever carries that id, so only the other case is a step.
Punch(n, p) ==
  /\ <<n, p>> \in Allowed
  /\ RouteFor(node[n], p) # {}
  /\ Room
  /\ PunchBoth(n, node[n], p)

\* start_heartbeat_loop, and spawn_probe_rtt.
Heartbeat(n, p) ==
  /\ node[n].routes[p][p] = 0
  /\ Room
  /\ Step(n, node[n], {ToRoute(n, p, p, "EchoRequest", {})})

\* start_nat_maintenance, the observing loop.
Observe(n, p) ==
  /\ p \in Observers
  /\ HasDirect(node[n], p)
  /\ Room
  /\ \E pkt \in Over(n, node[n], p, "NatObserveRequest", {}) :
       Step(n, [node[n] EXCEPT !.observe = @ \cup {p}], {pkt})

-----------------------------------------------------------------------------

\* A node that has just started.
Fresh(n) ==
  [routes |-> [p \in Node |-> [k \in Node |-> Far]],
   peers |-> [p \in Node |-> [known |-> FALSE, direct |-> FALSE, hint |-> None]],
   candidates |-> [p \in Node |-> None],
   hello |-> {}, punch |-> {}, observe |-> {}, calls |-> {},
   nat |-> [p \in Node |-> IF p = n THEN "bare" ELSE "none"]]

Init ==
  /\ node = [n \in Node |-> Fresh(n)]
  /\ net = {}
  /\ open = {l \in Node \X Public : l[1] # l[2]}

Next ==
  \/ \E pkt \in net : Deliver(pkt)
  \/ \E n, p \in Node :
       /\ n # p
       /\ \/ BootstrapSend(n, p) \/ BootstrapNote(n, p) \/ Join(n, p)
          \/ Query(n, p) \/ Probe(n, p) \/ AutoPunch(n, p) \/ Punch(n, p)
          \/ Heartbeat(n, p) \/ Observe(n, p)

Spec == Init /\ [][Next]_vars

-----------------------------------------------------------------------------
(* Properties. *)

\* Every node's tables hold values of their types, and so do packets.
TypeOK ==
  /\ node \in [Node -> State]
  /\ open \subseteq Node \X Node
  /\ \A pkt \in net : pkt.hops \in 0 .. MaxTtl - 1 /\ pkt.body \subseteq Entry

\* A direct route is the peer's own address, and a packet sent over it passes
\* the peer's NAT, whichever packet confirmed it: a HelloRequest, a reply that was
\* asked for, or a PunchRequest that came directly ("proves bidirectional
\* reachability just as strongly as a PunchReply", handle_transport_packet).
\* DESIGN.md lists a PunchRequest among the packets that confirm nothing; the
\* property says that nothing is lost by the code's doing otherwise.
DirectWorks ==
  \A n, p, k \in Node :
    node[n].routes[p][k] = 0 => k = p /\ <<n, p>> \in open

\* A peer with a direct route is stored as direct and without a relay hint,
\* whatever is heard of it over relays afterwards (upsert_peer_info).
DirectIsStored ==
  \A n, p \in Node :
    HasDirect(node[n], p) => node[n].peers[p].direct /\ node[n].peers[p].hint = None

\* When one end has confirmed a direct route, the other has what it takes: it
\* has one as well, or it has the address as a candidate (start_maintenance_loop
\* probes it once no other route to the peer is left), or it still awaits the
\* answer that confirms it (a request of its own was what reached the first end).
BothEnds ==
  \A n, p \in Node :
    HasDirect(node[n], p) =>
      \/ HasDirect(node[p], n)
      \/ node[p].candidates[n] = n
      \/ n \in node[p].hello \cup node[p].calls
      \/ <<"direct", n>> \in node[p].punch
=============================================================================

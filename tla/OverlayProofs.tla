---------------------------- MODULE OverlayProofs ----------------------------
(***************************************************************************)
(* Proofs about Overlay, for any nodes, NATs, bootstraps and number of     *)
(* packets: types, direct routes work, they are stored as direct, and the  *)
(* other end of a direct route can find it too.                            *)
(*                                                                         *)
(* The idea: whoever sends a packet to a key, or has a route over it, is   *)
(* ready for the node at the other end, and stays so.  First contact is    *)
(* always a packet of the sender's own, noted in hello, calls or punch;    *)
(* what takes the note away is an answer, which leaves a candidate or a    *)
(* direct route behind.                                                    *)
(***************************************************************************)
EXTENDS Overlay, FiniteSetTheorems, WellFoundedInduction, TLAPS

\* s has a direct route to p, or the address to probe.
Found(s, p) == HasDirect(s, p) \/ s.candidates[p] = p

\* Or it is about to be told.
Ready(s, p) ==
  \/ Found(s, p)
  \/ p \in s.hello \cup s.calls
  \/ <<"direct", p>> \in s.punch

\* A stored peer: a direct one has no relay, an unknown one nothing.
Stored(i) == /\ i.direct => i.hint = None
             /\ ~i.known => ~i.direct /\ i.hint = None

\* What holds of one node's state.
Good(s) ==
  /\ s \in State
  /\ \A p, k \in Node : s.routes[p][k] = 0 => k = p
  /\ \A p \in Node : Stored(s.peers[p])
  /\ \A p \in Node : s.routes[p][p] = 0 => s.peers[p].direct
  /\ \A p \in Node : s.candidates[p] \in {p, None}

\* t comes after s: nothing gets less ready, and new routes are over C.
Follows(s, t, C) ==
  /\ Good(t)
  /\ \A p \in Node : Ready(s, p) => Ready(t, p)
  /\ \A p \in Node : Found(s, p) => Found(t, p)
  /\ \A p, k \in Node : s.routes[p][k] = 0 => t.routes[p][k] = 0
  /\ \A p, k \in Node : t.routes[p][k] < Far => s.routes[p][k] < Far \/ k \in C

Type == {"HelloRequest", "HelloReply", "IDRouteQuery", "IDRouteReply", "PunchRequest",
         "PunchReply", "EchoRequest", "EchoReply", "NatObserveRequest", "NatObserveReply"}

\* An entry advertises a metric of a route there is.
Body == {e \in Entry : e.metric < Far}

Pkt == [type : Type, src : Node, dest : Node \cup {Broadcast}, hops : 0 .. MaxTtl - 1,
        from : Node, to : Node, body : SUBSET Body, id : Id \cup {"none"}]

\* A packet that has not been relayed comes from its source; a hello and a
\* punch to an address are not relayed.
Shape(q) ==
  /\ q.hops = 0 => q.from = q.src
  /\ q.type = "HelloRequest" => q.hops = 0 /\ q.dest \in {q.to, Broadcast}
  /\ q.type = "HelloReply" => q.hops = 0 /\ q.dest = q.to
  /\ q.id = "direct" => q.hops = 0 /\ q.dest = q.to

\* n and k are ready for each other, and n's packets reach k.
Contact(n, k) ==
  /\ <<n, k>> \in open
  /\ Ready(node[n], k)
  /\ Ready(node[k], n)

NetOK ==
  \A q \in net :
    /\ q \in Pkt
    /\ Shape(q)
    /\ <<q.to, q.from>> \in open
    /\ Ready(node[q.from], q.to)
    /\ q.hops > 0 => Ready(node[q.to], q.from)

RoutesOK ==
  \A n, p, k \in Node : node[n].routes[p][k] < Far => Contact(n, k)

Inv ==
  /\ node \in [Node -> State]
  /\ \A n \in Node : Good(node[n])
  /\ open \subseteq Node \X Node
  /\ \A l \in (Node \X Public) : l[1] # l[2] => l \in open
  /\ NetOK
  /\ RoutesOK

-----------------------------------------------------------------------------
LEMMA FarType == Far \in Nat /\ MaxTtl \in Nat \ {0} /\ MaxTtl <= Far
  BY OverlayConstants, FS_CardinalityType DEF Far

LEMMA FollowsSelf == ASSUME NEW s, NEW C, Good(s) PROVE Follows(s, s, C)
  BY DEF Follows

LEMMA FollowsTrans ==
  ASSUME NEW s, NEW t, NEW u, NEW C, Follows(s, t, C), Follows(t, u, C)
  PROVE  Follows(s, u, C)
  BY DEF Follows

LEMMA FollowsMore ==
  ASSUME NEW s, NEW t, NEW C, Follows(s, t, {})
  PROVE  Follows(s, t, C)
  BY DEF Follows

\* The relay that route_to_id names.
LEMMA RelayType ==
  ASSUME NEW s, NEW k PROVE RouteToId(s, k) \in Node \cup {None}
  BY DEF RouteToId

LEMMA MergeStored ==
  ASSUME NEW i \in PeerInfo, Stored(i), NEW d \in BOOLEAN, NEW h \in Node \cup {None},
         d => h = None
  PROVE  /\ Merge(i, d, h) \in PeerInfo
         /\ Stored(Merge(i, d, h))
         /\ d \/ i.direct => Merge(i, d, h).direct
  BY DEF Merge, PeerInfo, Stored

LEMMA UpsertFollows ==
  ASSUME NEW n \in Node, NEW s, Good(s), NEW p \in Node, NEW d \in BOOLEAN,
         NEW h \in Node \cup {None}, d => h = None
  PROVE  Follows(s, UpsertPeerInfo(n, s, p, d, h), {})
<1> DEFINE t == UpsertPeerInfo(n, s, p, d, h)
<1>1. CASE p = n
      BY <1>1, FollowsSelf DEF UpsertPeerInfo
<1>2. CASE p # n
  <2>1. s \in State /\ s.peers[p] \in PeerInfo /\ Stored(s.peers[p])
        BY DEF Good, State
  <2>2. t = [s EXCEPT !.peers = [s.peers EXCEPT ![p] = Merge(s.peers[p], d, h)]]
        BY <1>2, <2>1 DEF UpsertPeerInfo, State
  <2>3. PICK m \in PeerInfo : /\ m = Merge(s.peers[p], d, h) /\ Stored(m)
                              /\ s.peers[p].direct => m.direct
        BY <2>1, MergeStored
  <2>4. t = [s EXCEPT !.peers = [s.peers EXCEPT ![p] = m]]
        BY <2>2, <2>3
  <2> HIDE DEF t
  <2>5. /\ t \in State /\ t.routes = s.routes /\ t.candidates = s.candidates
        /\ t.hello = s.hello /\ t.calls = s.calls /\ t.punch = s.punch
        /\ t.peers = [s.peers EXCEPT ![p] = m]
        BY <2>1, <2>4 DEF State
  <2>6. Good(t)
        BY <2>1, <2>3, <2>5 DEF Good, State
  <2> QED
      BY <2>5, <2>6 DEF Follows, Ready, Found, HasDirect, t
<1> QED
    BY <1>1, <1>2

\* t is s, perhaps with the route of metric m to p over k, and with all the
\* direct routes of s.
RouteAdded(s, t, p, k, m) ==
  /\ t \in State
  /\ t.peers = s.peers /\ t.candidates = s.candidates /\ t.hello = s.hello
  /\ t.calls = s.calls /\ t.punch = s.punch /\ t.nat = s.nat
  /\ \A q, o \in Node : t.routes[q][o] # s.routes[q][o] =>
       q = p /\ o = k /\ t.routes[q][o] = m
  /\ \A q, o \in Node : s.routes[q][o] = 0 => t.routes[q][o] = 0
  /\ m = 0 => t.routes[p][k] = 0

LEMMA AddRouteEffect ==
  ASSUME NEW s \in State, NEW p \in Node, NEW k \in Node, NEW m \in Metric
  PROVE  RouteAdded(s, AddRoute(s, p, k, m), p, k, m)
<1> DEFINE t == AddRoute(s, p, k, m)
           r == [s.routes EXCEPT ![p] = [s.routes[p] EXCEPT ![k] = m]]
<1>1. CASE t = s
  <2>1. m = 0 => s.routes[p][k] = 0
    <3>1. SUFFICES ASSUME m = 0 PROVE s.routes[p][k] = 0
          OBVIOUS
    <3>2. t = [s EXCEPT !.routes[p][k] = m]
          BY <3>1 DEF AddRoute
    <3>3. t.routes[p][k] = m
          BY <3>2 DEF State
    <3> QED
        BY <1>1, <3>1, <3>3
  <2> QED
      BY <1>1, <2>1 DEF State, RouteAdded
<1>2. CASE t # s
  <2>1. t = [s EXCEPT !.routes = r] /\ ~(m > 0 /\ s.routes[p][k] = 0)
        BY <1>2 DEF AddRoute
  <2>2. r \in [Node -> [Node -> Metric]]
        BY DEF State
  <2> HIDE DEF t
  <2>3. /\ t \in State /\ t.routes = r
        /\ t.peers = s.peers /\ t.candidates = s.candidates /\ t.hello = s.hello
        /\ t.calls = s.calls /\ t.punch = s.punch /\ t.nat = s.nat
        BY <2>1, <2>2 DEF State
  <2>4. \A q, o \in Node : r[q][o] # s.routes[q][o] => q = p /\ o = k /\ r[q][o] = m
        BY DEF State
  <2>5. r[p][k] = m
        BY DEF State
  <2>6. \A q, o \in Node : s.routes[q][o] = 0 => r[q][o] = 0
        BY <2>1, <2>4, FarType DEF Metric
  <2> QED
      BY <2>1, <2>3, <2>4, <2>5, <2>6 DEF RouteAdded, t
<1> QED
    BY <1>1, <1>2

LEMMA ConfirmFollows ==
  ASSUME NEW n \in Node, NEW s, Good(s), NEW p \in Node, p # n, NEW k \in Node,
         NEW m \in Metric, m = 0 => k = p, NEW h \in Node \cup {None}
  PROVE  /\ Follows(s, ConfirmPeerRoute(n, s, p, h, k, m), {k})
         /\ m = 0 => HasDirect(ConfirmPeerRoute(n, s, p, h, k, m), p)
<1> DEFINE a == AddRoute(s, p, k, m)
           hint == IF m = 0 THEN None ELSE IF h = None THEN RouteToId(s, k) ELSE h
           t == ConfirmPeerRoute(n, s, p, h, k, m)
<1>1. s \in State /\ s.peers[p] \in PeerInfo /\ Stored(s.peers[p])
      BY DEF Good, State
<1>2. RouteAdded(s, a, p, k, m)
      BY <1>1, AddRouteEffect
<1>3. hint \in Node \cup {None} /\ (m = 0 => hint = None)
      BY RelayType
<1>4. t = UpsertPeerInfo(n, a, p, m = 0, hint)
      BY DEF ConfirmPeerRoute
<1> HIDE DEF a, hint, t
<1>6. PICK i \in PeerInfo : /\ i = Merge(s.peers[p], m = 0, hint) /\ Stored(i)
                            /\ m = 0 \/ s.peers[p].direct => i.direct
      BY <1>1, <1>3, MergeStored, (m = 0) \in BOOLEAN
<1>7. t = [a EXCEPT !.peers = [s.peers EXCEPT ![p] = i]]
      BY <1>2, <1>4, <1>6 DEF UpsertPeerInfo, RouteAdded
<1>8. /\ t \in State /\ t.routes = a.routes /\ t.candidates = s.candidates
      /\ t.hello = s.hello /\ t.calls = s.calls /\ t.punch = s.punch
      /\ t.peers = [s.peers EXCEPT ![p] = i]
      BY <1>1, <1>2, <1>7 DEF State, RouteAdded
<1>9. \A q, o \in Node : t.routes[q][o] = 0 => o = q
      BY <1>2, <1>8 DEF Good, RouteAdded
<1>10. \A q \in Node : Stored(t.peers[q])
      BY <1>1, <1>6, <1>8 DEF Good, State
<1>11. \A q \in Node : t.routes[q][q] = 0 => t.peers[q].direct
  <2> SUFFICES ASSUME NEW q \in Node, t.routes[q][q] = 0 PROVE t.peers[q].direct
      OBVIOUS
  <2>1. CASE q # p
    <3>1. t.peers[q] = s.peers[q] /\ s.routes[q][q] = 0
          BY <1>1, <1>2, <1>8, <2>1 DEF State, RouteAdded
    <3> QED
        BY <3>1 DEF Good
  <2>2. CASE q = p
    <3>1. t.peers[q] = i
          BY <1>1, <1>8, <2>2 DEF State
    <3>2. m = 0 \/ s.routes[p][p] = 0
          BY <1>2, <1>8, <2>2 DEF RouteAdded
    <3> QED
        BY <1>6, <2>2, <3>1, <3>2 DEF Good
  <2> QED
      BY <2>1, <2>2
<1>12. Good(t)
      BY <1>8, <1>9, <1>10, <1>11 DEF Good
<1>13. \A q \in Node : Found(s, q) => Found(t, q)
      BY <1>2, <1>8 DEF Found, HasDirect, RouteAdded
<1>13a. \A q \in Node : Ready(s, q) => Ready(t, q)
      BY <1>8, <1>13 DEF Ready
<1>13b. \A q, o \in Node : s.routes[q][o] = 0 => t.routes[q][o] = 0
      BY <1>2, <1>8 DEF RouteAdded
<1>14. \A q, o \in Node : t.routes[q][o] < Far => s.routes[q][o] < Far \/ o \in {k}
      BY <1>2, <1>8 DEF RouteAdded
<1>15. m = 0 => HasDirect(t, p)
      BY <1>2, <1>8 DEF HasDirect, RouteAdded
<1> QED
    BY <1>12, <1>13, <1>13a, <1>13b, <1>14, <1>15 DEF Follows, t

LEMMA ConfirmDirectFollows ==
  ASSUME NEW n \in Node, NEW s, Good(s), NEW p \in Node, p # n
  PROVE  /\ Follows(s, ConfirmDirect(n, s, p, p), {p})
         /\ HasDirect(ConfirmDirect(n, s, p, p), p)
<1> DEFINE t == ConfirmPeerRoute(n, s, p, None, p, 0)
           u == ConfirmDirect(n, s, p, p)
<1>1. 0 \in Metric
      BY FarType DEF Metric
<1>2. Follows(s, t, {p}) /\ HasDirect(t, p)
      BY <1>1, ConfirmFollows
<1>3. u = [t EXCEPT !.candidates[p] = None]
      BY DEF ConfirmDirect
<1> HIDE DEF t, u
<1>4. Good(t) /\ t \in State
      BY <1>2 DEF Follows, Good
<1>5. /\ u \in State /\ u.routes = t.routes /\ u.peers = t.peers /\ u.hello = t.hello
      /\ u.calls = t.calls /\ u.punch = t.punch
      /\ \A q \in Node : u.candidates[q] = t.candidates[q] \/ (q = p /\ u.candidates[q] = None)
      BY <1>3, <1>4 DEF State
<1>6. Good(u)
      BY <1>4, <1>5 DEF Good
<1>7. HasDirect(u, p)
      BY <1>2, <1>5 DEF HasDirect
<1>8. \A q \in Node : Found(t, q) => Found(u, q)
      BY <1>5, <1>7 DEF Found, HasDirect
<1>9. \A q \in Node : Ready(t, q) => Ready(u, q)
      BY <1>5, <1>8 DEF Ready
<1>10. Follows(t, u, {p})
      BY <1>5, <1>6, <1>8, <1>9 DEF Follows
<1> QED
    BY <1>2, <1>7, <1>10, FollowsTrans DEF u

\* A step that touches no route, peer or candidate and only adds notes.
LEMMA NotesFollow ==
  ASSUME NEW s, Good(s), NEW t \in State,
         t.routes = s.routes, t.peers = s.peers, t.candidates = s.candidates,
         s.hello \cup s.calls \subseteq t.hello \cup t.calls, s.punch \subseteq t.punch
  PROVE  Follows(s, t, {})
<1>1. Good(t)
      BY DEF Good
<1>2. \A q \in Node : Found(s, q) => Found(t, q)
      BY DEF Found, HasDirect
<1>3. \A q \in Node : Ready(s, q) => Ready(t, q)
      BY <1>2 DEF Ready
<1> QED
    BY <1>1, <1>2, <1>3 DEF Follows

\* One that takes away notes about a peer that is found.
LEMMA AnswerFollows ==
  ASSUME NEW s, Good(s), NEW t \in State, NEW p \in Node, Found(s, p),
         t.routes = s.routes, t.peers = s.peers, t.candidates = s.candidates,
         (s.hello \cup s.calls) \ {p} \subseteq t.hello \cup t.calls,
         \A q \in Node : q # p /\ <<"direct", q>> \in s.punch => <<"direct", q>> \in t.punch
  PROVE  Follows(s, t, {})
<1>1. Good(t)
      BY DEF Good
<1>2. \A q \in Node : Found(s, q) => Found(t, q)
      BY DEF Found, HasDirect
<1>3. \A q \in Node : Ready(s, q) => Ready(t, q)
      BY <1>2 DEF Ready
<1> QED
    BY <1>1, <1>2, <1>3 DEF Follows

LEMMA LearnNatFollows ==
  ASSUME NEW s, Good(s), NEW entries \in SUBSET Entry
  PROVE  Follows(s, LearnNat(s, entries), {})
<1> DEFINE of(p) == {e \in entries : e.peer = p /\ e.nat # "none"}
           nat == [p \in Node |-> IF of(p) = {} THEN s.nat[p] ELSE (CHOOSE e \in of(p) : TRUE).nat]
           t == LearnNat(s, entries)
<1>1. s \in State
      BY DEF Good
<1>2. nat \in [Node -> NatKind]
  <2> SUFFICES ASSUME NEW p \in Node
               PROVE  (IF of(p) = {} THEN s.nat[p] ELSE (CHOOSE e \in of(p) : TRUE).nat) \in NatKind
      OBVIOUS
  <2>1. CASE of(p) = {}
        BY <1>1, <2>1 DEF State
  <2>2. CASE of(p) # {}
    <3>1. (CHOOSE e \in of(p) : TRUE) \in of(p)
          BY <2>2
    <3>2. (CHOOSE e \in of(p) : TRUE) \in Entry
          BY <3>1
    <3> QED
        BY <2>2, <3>2 DEF Entry
  <2> QED
      BY <2>1, <2>2
<1>3. t = [s EXCEPT !.nat = nat]
      BY DEF LearnNat
<1> HIDE DEF nat, t
<1>4. /\ t \in State /\ t.routes = s.routes /\ t.peers = s.peers
      /\ t.candidates = s.candidates /\ t.hello = s.hello /\ t.calls = s.calls
      /\ t.punch = s.punch
      BY <1>1, <1>2, <1>3 DEF State
<1> QED
    BY <1>4, NotesFollow DEF t

LEMMA IngestFollows ==
  ASSUME NEW n \in Node, NEW s, Good(s), NEW entries \in SUBSET Body, NEW via \in Node
  PROVE  Follows(s, Ingest(n, s, entries, via), {via})
<1> DEFINE others == {e \in entries : e.peer # n}
           of(p) == CHOOSE e \in others : e.peer = p
           all == {e.peer : e \in others}
           learnt == LearnNat(s, others)
           after(p) == ConfirmPeerRoute(n, learnt, p, of(p).hint, via,
                                        IngestMetric(of(p).metric))
           routes == [p \in Node |-> IF p \in all THEN after(p).routes[p] ELSE learnt.routes[p]]
           peers == [p \in Node |-> IF p \in all THEN after(p).peers[p] ELSE learnt.peers[p]]
           t == Ingest(n, s, entries, via)
<1>1. others \subseteq Body /\ others \subseteq Entry
      BY DEF Body
<1>2. Follows(s, learnt, {}) /\ Follows(s, learnt, {via})
      BY <1>1, LearnNatFollows, FollowsMore
<1>3. Good(learnt) /\ learnt \in State
      BY <1>2 DEF Follows, Good
<1>4. t = [learnt EXCEPT !.routes = routes, !.peers = peers]
      BY DEF Ingest
<1>5. \A p \in all : of(p) \in Body /\ of(p).peer = p /\ p # n /\ p \in Node
  <2> SUFFICES ASSUME NEW p \in all PROVE of(p) \in Body /\ of(p).peer = p /\ p # n /\ p \in Node
      OBVIOUS
  <2>1. of(p) \in others /\ of(p).peer = p
        OBVIOUS
  <2> QED
      BY <1>1, <2>1 DEF Entry
<1> HIDE DEF others, of, all, learnt, t
<1>6. ASSUME NEW p \in all
      PROVE  Follows(learnt, after(p), {via})
  <2>1. /\ of(p).metric \in Nat /\ of(p).metric < Far /\ of(p).hint \in Node \cup {None}
        BY <1>5, FarType DEF Body, Entry, Metric
  <2>2. IngestMetric(of(p).metric) \in Metric /\ IngestMetric(of(p).metric) # 0
        BY <2>1, FarType DEF IngestMetric, Metric
  <2> HIDE DEF after
  <2> QED
      BY <1>3, <1>5, <2>1, <2>2, ConfirmFollows DEF after
<1> HIDE DEF after
<1>7. \A p \in all : Good(after(p)) /\ after(p) \in State
      BY <1>6 DEF Follows, Good
<1>8. routes \in [Node -> [Node -> Metric]] /\ peers \in [Node -> PeerInfo]
      BY <1>3, <1>7 DEF State
<1>9. \A p \in Node : routes[p] = IF p \in all THEN after(p).routes[p] ELSE learnt.routes[p]
      OBVIOUS
<1>10. \A p \in Node : peers[p] = IF p \in all THEN after(p).peers[p] ELSE learnt.peers[p]
      OBVIOUS
<1> HIDE DEF routes, peers
<1>11. /\ t \in State /\ t.routes = routes /\ t.peers = peers
       /\ t.candidates = learnt.candidates /\ t.hello = learnt.hello
       /\ t.calls = learnt.calls /\ t.punch = learnt.punch
      BY <1>3, <1>4, <1>8 DEF State
<1>12. Good(t)
      BY <1>3, <1>5, <1>7, <1>9, <1>10, <1>11 DEF Good
<1>13. \A p, k \in Node : learnt.routes[p][k] = 0 => t.routes[p][k] = 0
  <2> SUFFICES ASSUME NEW p \in Node, NEW k \in Node
      PROVE  learnt.routes[p][k] = 0 => t.routes[p][k] = 0
      OBVIOUS
  <2>1. CASE p \in all
    <3>1. t.routes[p] = after(p).routes[p]
          BY <1>9, <1>11, <2>1
    <3>2. learnt.routes[p][k] = 0 => after(p).routes[p][k] = 0
          BY <1>6, <2>1 DEF Follows
    <3> QED
        BY ONLY <3>1, <3>2
  <2>2. CASE p \notin all
    <3>1. t.routes[p] = learnt.routes[p]
          BY <1>9, <1>11, <2>2
    <3> QED
        BY ONLY <3>1
  <2> QED
      BY ONLY <2>1, <2>2
<1>14. \A p, k \in Node : t.routes[p][k] < Far => learnt.routes[p][k] < Far \/ k \in {via}
  <2> SUFFICES ASSUME NEW p \in Node, NEW k \in Node
      PROVE  t.routes[p][k] < Far => learnt.routes[p][k] < Far \/ k \in {via}
      OBVIOUS
  <2>1. CASE p \in all
    <3>1. t.routes[p] = after(p).routes[p]
          BY <1>9, <1>11, <2>1
    <3>2. after(p).routes[p][k] < Far => learnt.routes[p][k] < Far \/ k \in {via}
          BY <1>6, <2>1 DEF Follows
    <3> QED
        BY ONLY <3>1, <3>2
  <2>2. CASE p \notin all
    <3>1. t.routes[p] = learnt.routes[p]
          BY <1>9, <1>11, <2>2
    <3> QED
        BY ONLY <3>1
  <2> QED
      BY ONLY <2>1, <2>2
<1>15. \A p \in Node : Found(learnt, p) => Found(t, p)
      BY <1>11, <1>13 DEF Found, HasDirect
<1>16. \A p \in Node : Ready(learnt, p) => Ready(t, p)
      BY <1>11, <1>15 DEF Ready
<1>17. Follows(learnt, t, {via})
      BY <1>12, <1>13, <1>14, <1>15, <1>16 DEF Follows
<1> QED
    BY <1>2, <1>17, FollowsTrans DEF t

LEMMA LeastNat ==
  ASSUME NEW T \in SUBSET Nat, T # {}
  PROVE  \E x \in T : \A y \in T : x <= y
<1> DEFINE R == {ss \in Nat \X Nat : ss[1] < ss[2]}
<1>1. IsWellFoundedOn(R, Nat)
      BY NatLessThanWellFounded, Zenon DEF OpToRel
<1> HIDE DEF R
<1>2. PICK x \in T : \A y \in T : ~(<<y, x>> \in R)
      BY <1>1, WFMin
<1>3. \A y \in T : ~(y < x)
      BY <1>2 DEF R
<1> QED
    BY <1>3

LEMMA SomeRoute ==
  ASSUME NEW s \in State, NEW p \in Node, Keys(s, p) # {}
  PROVE  RouteFor(s, p) # {}
<1> DEFINE T == {s.routes[p][k] : k \in Keys(s, p)}
<1>1. T \in SUBSET Nat /\ T # {}
  <2>1. \A k \in Node : s.routes[p][k] \in Nat
        BY FarType DEF State, Metric
  <2>2. Keys(s, p) \subseteq Node
        BY DEF Keys
  <2> QED
      BY <2>1, <2>2
<1>2. PICK x \in T : \A y \in T : x <= y
  <2> HIDE DEF T
  <2> QED
      BY <1>1, LeastNat
<1>3. PICK k \in Keys(s, p) : s.routes[p][k] = x
      OBVIOUS
<1>4. \A o \in Keys(s, p) : s.routes[p][k] <= s.routes[p][o]
      BY <1>2, <1>3
<1> QED
    BY <1>3, <1>4 DEF RouteFor

LEMMA RouteForKey ==
  ASSUME NEW s \in State, NEW p \in Node, NEW k \in RouteFor(s, p)
  PROVE  k \in Node /\ s.routes[p][k] < Far
  BY DEF RouteFor, Keys

LEMMA SelfEntryType ==
  ASSUME NEW n \in Node, NEW s \in State PROVE SelfEntry(n, s) \in Body
<1>1. s.nat[n] \in NatKind /\ 0 \in Metric /\ 0 < Far
      BY FarType DEF State, Metric
<1> QED
    BY <1>1 DEF SelfEntry, Body, Entry

LEMMA DiscoveryType ==
  ASSUME NEW n \in Node, NEW s \in State, NEW r
  PROVE  DiscoveryEntries(n, s, r) \in SUBSET Body
<1> DEFINE Q == {q \in Node \ {r} : s.peers[q].known /\ Keys(s, q) # {}}
           metric(p) == s.routes[p][CHOOSE k \in RouteFor(s, p) : TRUE]
           entry(p) == [peer |-> p, metric |-> metric(p), hint |-> s.peers[p].hint,
                        nat |-> s.nat[p]]
<1>1. ASSUME NEW p \in Q PROVE entry(p) \in Body
  <2>1. RouteFor(s, p) # {} /\ p \in Node
        BY SomeRoute
  <2>2. (CHOOSE k \in RouteFor(s, p) : TRUE) \in RouteFor(s, p)
        BY <2>1
  <2>3. metric(p) < Far /\ metric(p) \in Metric
        BY <2>1, <2>2, RouteForKey DEF State
  <2>4. s.peers[p].hint \in Node \cup {None} /\ s.nat[p] \in NatKind
        BY <2>1 DEF State, PeerInfo
  <2> HIDE DEF metric
  <2> QED
      BY <2>1, <2>3, <2>4 DEF Body, Entry
<1>2. DiscoveryEntries(n, s, r) = {SelfEntry(n, s)} \cup {entry(p) : p \in Q}
      BY DEF DiscoveryEntries
<1> HIDE DEF entry, Q
<1> QED
    BY <1>1, <1>2, SelfEntryType

LEMMA HintType ==
  ASSUME NEW s, NEW q PROVE PacketHint(s, q) \in Node \cup {None}
  BY RelayType DEF PacketHint

\* Noting the address of p to probe.
LEMMA CandidateFollows ==
  ASSUME NEW s, Good(s), NEW p \in Node, NEW C
  PROVE  /\ Follows(s, [s EXCEPT !.candidates[p] = p], C)
         /\ Found([s EXCEPT !.candidates[p] = p], p)
<1> DEFINE t == [s EXCEPT !.candidates[p] = p]
<1>1. s \in State
      BY DEF Good
<1>2. /\ t \in State /\ t.routes = s.routes /\ t.peers = s.peers
      /\ t.hello = s.hello /\ t.calls = s.calls /\ t.punch = s.punch
      /\ t.candidates[p] = p
      /\ \A o \in Node : o # p => t.candidates[o] = s.candidates[o]
      BY <1>1 DEF State
<1> HIDE DEF t
<1>3. Good(t)
  <2>1. \A o \in Node : t.candidates[o] \in {o, None}
        BY <1>2 DEF Good
  <2> QED
      BY <1>2, <2>1 DEF Good
<1>4. \A o \in Node : Found(s, o) => Found(t, o)
      BY <1>2 DEF Found, HasDirect
<1>5. \A o \in Node : Ready(s, o) => Ready(t, o)
      BY <1>2, <1>4 DEF Ready
<1>6. Follows(s, t, C)
      BY <1>2, <1>3, <1>4, <1>5 DEF Follows
<1>7. Found(t, p)
      BY <1>2 DEF Found
<1> QED
    BY <1>6, <1>7 DEF t

\* What delivery does first; a packet that was not relayed leaves a candidate.
LEMMA ReceivedFollows ==
  ASSUME NEW q \in Pkt, Shape(q), Good(node[q.to])
  PROVE  /\ Follows(node[q.to], Received(q.to, q), {q.from})
         /\ q.hops = 0 => Found(Received(q.to, q), q.from)
<1> DEFINE n == q.to
           s == UpsertPeerInfo(n, node[n], q.src, FALSE, PacketHint(node[n], q))
           t == Received(n, q)
<1>1. q.src \in Node /\ q.from \in Node /\ n \in Node
      BY DEF Pkt
<1>2. Follows(node[n], s, {}) /\ Follows(node[n], s, {q.from})
      BY <1>1, HintType, UpsertFollows, FollowsMore
<1>3. CASE q.hops # 0
      BY <1>2, <1>3 DEF Received
<1>4. CASE q.hops = 0
  <2>1. t = [s EXCEPT !.candidates[q.src] = q.from] /\ q.from = q.src
        BY <1>4 DEF Received, Shape
  <2>2. Good(s)
        BY <1>2 DEF Follows
  <2> HIDE DEF s, t
  <2>3. t = [s EXCEPT !.candidates[q.from] = q.from]
        BY <2>1
  <2>4. Follows(s, t, {q.from}) /\ Found(t, q.from)
        BY <1>1, <2>2, <2>3, CandidateFollows
  <2>5. Follows(node[n], t, {q.from})
        BY <1>2, <2>4, FollowsTrans
  <2> QED
      BY <2>4, <2>5 DEF t
<1> QED
    BY <1>3, <1>4

LEMMA ConfirmTcpFollows ==
  ASSUME NEW q \in Pkt, Shape(q), q.src # q.to, NEW s, Good(s)
  PROVE  Follows(s, ConfirmTcp(q.to, s, q), {q.from})
<1>1. q.src \in Node /\ q.from \in Node /\ q.to \in Node
      BY DEF Pkt
<1>2. CASE {q.to, q.from} \in Tcp /\ q.hops = 0
  <2>1. q.from = q.src /\ ConfirmTcp(q.to, s, q) = ConfirmDirect(q.to, s, q.src, q.src)
        BY <1>2 DEF Shape, ConfirmTcp
  <2> QED
      BY <1>1, <2>1, ConfirmDirectFollows
<1>3. CASE ~({q.to, q.from} \in Tcp /\ q.hops = 0)
      BY <1>3, FollowsSelf DEF ConfirmTcp
<1> QED
    BY <1>2, <1>3

LEMMA ConfirmRelayFollows ==
  ASSUME NEW q \in Pkt, q.src # q.to, NEW s, Good(s)
  PROVE  Follows(s, ConfirmRelay(q.to, s, q), {q.from})
<1>1. /\ q.src \in Node /\ q.from \in Node /\ q.to \in Node
      /\ q.hops \in 0 .. MaxTtl - 1
      BY DEF Pkt
<1>2. CASE q.hops > 0
  <2>1. q.hops \in Metric /\ q.hops # 0
        BY <1>1, <1>2, FarType DEF Metric
  <2> QED
      BY <1>1, <1>2, <2>1, HintType, ConfirmFollows DEF ConfirmRelay
<1>3. CASE ~(q.hops > 0)
      BY <1>3, FollowsSelf DEF ConfirmRelay
<1> QED
    BY <1>2, <1>3

LEMMA ConfirmPunchedFollows ==
  ASSUME NEW q \in Pkt, Shape(q), q.src # q.to, NEW s, Good(s)
  PROVE  Follows(s, ConfirmPunched(q.to, s, q), {q.from})
<1>1. q.src \in Node /\ q.from \in Node /\ q.to \in Node
      BY DEF Pkt
<1>2. CASE q.hops = 0 /\ ~HasDirect(s, q.src)
  <2>1. /\ q.from = q.src
        /\ ConfirmPunched(q.to, s, q) = ConfirmDirect(q.to, s, q.src, q.src)
        BY <1>2 DEF Shape, ConfirmPunched
  <2> QED
      BY <1>1, <2>1, ConfirmDirectFollows
<1>3. CASE ~(q.hops = 0 /\ ~HasDirect(s, q.src))
      BY <1>3, FollowsSelf DEF ConfirmPunched
<1> QED
    BY <1>2, <1>3

-----------------------------------------------------------------------------
(* A step of a node. *)

\* A packet that n, then in state t, may send.
Sent(n, t, q) ==
  /\ q \in Pkt
  /\ Shape(q)
  /\ q.from = n
  /\ Ready(t, q.to)
  /\ q.hops > 0 => Ready(node[q.to], n)

\* The keys in C may become routes of n, then in state t.
MayUse(n, t, C) ==
  \A k \in C : k \in Node /\ <<n, k>> \in open /\ Ready(t, k) /\ Ready(node[k], n)

LEMMA StepKeeps ==
  ASSUME Inv, NEW n \in Node, NEW t, NEW pkts, NEW C, Step(n, t, pkts),
         Follows(node[n], t, C), MayUse(n, t, C), \A q \in pkts : Sent(n, t, q)
  PROVE  Inv'
<1>1. /\ node' = [node EXCEPT ![n] = t]
      /\ net' \subseteq net \cup pkts
      /\ open' = open \cup {<<q.to, n>> : q \in pkts}
      BY DEF Step
<1>2. node \in [Node -> State] /\ t \in State /\ Good(t)
      BY DEF Inv, Follows, Good
<1>3. \A m \in Node : node'[m] = IF m = n THEN t ELSE node[m]
      BY <1>1, <1>2
<1>4. \A m, k \in Node : Ready(node[m], k) => Ready(node'[m], k)
      BY <1>3 DEF Follows
<1>5. node' \in [Node -> State] /\ \A m \in Node : Good(node'[m])
      BY <1>1, <1>2, <1>3 DEF Inv
<1>6. open \subseteq open' /\ \A q \in pkts : <<q.to, n>> \in open' /\ q.to \in Node
      BY <1>1 DEF Sent, Pkt
<1>7. open' \subseteq Node \X Node
      BY <1>1, <1>6 DEF Inv
<1>8. ASSUME NEW q \in net'
      PROVE  /\ q \in Pkt /\ Shape(q) /\ <<q.to, q.from>> \in open'
             /\ Ready(node'[q.from], q.to)
             /\ q.hops > 0 => Ready(node'[q.to], q.from)
  <2>1. CASE q \in net
    <3>1. /\ q \in Pkt /\ Shape(q) /\ <<q.to, q.from>> \in open
          /\ Ready(node[q.from], q.to)
          /\ q.hops > 0 => Ready(node[q.to], q.from)
          BY <2>1 DEF Inv, NetOK
    <3>2. q.from \in Node /\ q.to \in Node
          BY <3>1 DEF Pkt
    <3> QED
        BY <1>4, <1>6, <3>1, <3>2
  <2>2. CASE q \in pkts
    <3>1. /\ q \in Pkt /\ Shape(q) /\ q.from = n /\ Ready(t, q.to)
          /\ q.hops > 0 => Ready(node[q.to], n)
          BY <2>2 DEF Sent
    <3> QED
        BY <1>3, <1>4, <1>6, <2>2, <3>1
  <2> QED
      BY <1>1, <1>8, <2>1, <2>2
<1>9. ASSUME NEW m \in Node, NEW p \in Node, NEW k \in Node, node'[m].routes[p][k] < Far
      PROVE  <<m, k>> \in open' /\ Ready(node'[m], k) /\ Ready(node'[k], m)
  <2>1. CASE node[m].routes[p][k] < Far
    <3>1. <<m, k>> \in open /\ Ready(node[m], k) /\ Ready(node[k], m)
          BY <2>1 DEF Inv, RoutesOK, Contact
    <3> QED
        BY <1>4, <1>6, <3>1
  <2>2. CASE ~(node[m].routes[p][k] < Far)
    <3>1. m = n /\ k \in C
          BY <1>3, <1>9, <2>2 DEF Follows
    <3>2. <<n, k>> \in open /\ Ready(t, k) /\ Ready(node[k], n)
          BY <3>1 DEF MayUse
    <3> QED
        BY <1>3, <1>4, <1>6, <3>1, <3>2
  <2> QED
      BY <2>1, <2>2
<1>10. NetOK'
      BY <1>8 DEF NetOK
<1>11. RoutesOK'
      BY <1>9 DEF RoutesOK, Contact
<1> QED
    BY <1>5, <1>6, <1>7, <1>10, <1>11 DEF Inv

\* A packet of n's own over key k.
Own(q, n, k) == q \in Pkt /\ Shape(q) /\ q.from = n /\ q.to = k /\ q.hops = 0

LEMMA OwnIsSent ==
  ASSUME NEW n, NEW t, NEW q, NEW k, Own(q, n, k), Ready(t, k)
  PROVE  Sent(n, t, q)
  BY DEF Own, Sent

LEMMA PacketIsOwn ==
  ASSUME NEW n \in Node, NEW p \in Node \cup {Broadcast}, NEW k \in Node,
         NEW type \in Type, NEW body \in SUBSET Body,
         type = "HelloRequest" => p \in {k, Broadcast}, type = "HelloReply" => p = k
  PROVE  Own(Packet(type, n, p, n, k, body), n, k)
  BY FarType DEF Packet, Own, Pkt, Shape, Id

LEMMA PunchIsOwn ==
  ASSUME NEW n \in Node, NEW s \in State, NEW p \in Node, NEW k \in Node,
         NEW type \in {"PunchRequest", "PunchReply"}, NEW id \in Id \cup {"none"},
         id = "direct" => p = k
  PROVE  Own(PunchPacket(type, n, s, p, k, id), n, k)
<1>1. {SelfEntry(n, s)} \in SUBSET Body
      BY SelfEntryType
<1>2. PunchPacket(type, n, s, p, k, id) =
        [type |-> type, src |-> n, dest |-> p, hops |-> 0, from |-> n, to |-> k,
         body |-> {SelfEntry(n, s)}, id |-> id]
      BY DEF PunchPacket, Packet
<1>3. PunchPacket(type, n, s, p, k, id) \in Pkt
      BY <1>1, <1>2, FarType DEF Pkt, Type
<1>4. Shape(PunchPacket(type, n, s, p, k, id))
      BY <1>2 DEF Shape
<1> QED
    BY <1>2, <1>3, <1>4 DEF Own

\* What is known when q is delivered to the node that it is for.
LEMMA Delivered ==
  ASSUME Inv, NEW q \in net
  PROVE  /\ q \in Pkt /\ Shape(q) /\ q.from \in Node /\ q.to \in Node /\ q.src \in Node
         /\ Good(Received(q.to, q)) /\ Received(q.to, q) \in State
         /\ Follows(node[q.to], Received(q.to, q), {q.from})
         /\ Ready(Received(q.to, q), q.from)
         /\ q.hops = 0 => Found(Received(q.to, q), q.from)
<1>1. q \in Pkt /\ Shape(q) /\ (q.hops > 0 => Ready(node[q.to], q.from))
      BY DEF Inv, NetOK
<1>2. q.from \in Node /\ q.to \in Node /\ q.src \in Node /\ q.hops \in Nat
      BY <1>1 DEF Pkt
<1>3. /\ Follows(node[q.to], Received(q.to, q), {q.from})
      /\ q.hops = 0 => Found(Received(q.to, q), q.from)
      BY <1>1, <1>2, ReceivedFollows DEF Inv
<1>4. Ready(Received(q.to, q), q.from)
  <2>1. CASE q.hops = 0
        BY <1>3, <2>1 DEF Ready
  <2>2. CASE q.hops > 0
        BY <1>1, <1>2, <1>3, <2>2 DEF Follows
  <2> QED
      BY <1>2, <2>1, <2>2
<1> QED
    BY <1>1, <1>2, <1>3, <1>4 DEF Follows, Good

LEMMA HandledKeeps ==
  ASSUME Inv, NEW q \in net, NEW t, NEW pkts, Step(q.to, t, pkts),
         Follows(Received(q.to, q), t, {q.from}),
         \A r \in pkts : Sent(q.to, t, r)
  PROVE  Inv'
<1>1. /\ q.from \in Node /\ q.to \in Node /\ Ready(Received(q.to, q), q.from)
      /\ Follows(node[q.to], Received(q.to, q), {q.from})
      BY Delivered
<1>2. Follows(node[q.to], t, {q.from})
      BY <1>1, FollowsTrans
<1>3. <<q.to, q.from>> \in open /\ Ready(node[q.from], q.to)
      BY DEF Inv, NetOK
<1>4. MayUse(q.to, t, {q.from})
      BY <1>1, <1>3 DEF MayUse, Follows
<1> QED
    BY <1>1, <1>2, <1>4, StepKeeps


LEMMA SilentKeeps ==
  ASSUME Inv, NEW q \in net, NEW t, Step(q.to, t, {}),
         Follows(Received(q.to, q), t, {q.from})
  PROVE  Inv'
<1> DEFINE pkts == {}
<1>1. Step(q.to, t, pkts) /\ \A r \in pkts : Sent(q.to, t, r)
      OBVIOUS
<1> HIDE DEF pkts
<1> QED
    BY <1>1, HandledKeeps

\* The handler answers over the key that the packet came over.
LEMMA ReplyKeeps ==
  ASSUME Inv, NEW q \in net, NEW t, NEW r, Step(q.to, t, {r}),
         Follows(Received(q.to, q), t, {q.from}), Own(r, q.to, q.from)
  PROVE  Inv'
<1> DEFINE pkts == {r}
<1>1. Ready(t, q.from)
      BY Delivered DEF Follows
<1>2. Step(q.to, t, pkts) /\ \A x \in pkts : Sent(q.to, t, x)
      BY <1>1, OwnIsSent
<1> HIDE DEF pkts
<1> QED
    BY <1>2, HandledKeeps

-----------------------------------------------------------------------------
(* The handlers. *)

LEMMA HelloRequestKeeps ==
  ASSUME Inv, NEW q \in net, q.src # q.to, q.type = "HelloRequest",
         OnHelloRequest(q.to, Received(q.to, q), q)
  PROVE  Inv'
<1> DEFINE n == q.to
           s == Received(n, q)
           t == IF q.hops = 0 THEN ConfirmDirect(n, s, q.src, q.from) ELSE ConfirmTcp(n, s, q)
           r == ToRoute(n, q.src, q.from, "HelloReply", DiscoveryEntries(n, t, q.src))
<1>1. /\ q \in Pkt /\ Shape(q) /\ q.from \in Node /\ n \in Node /\ q.src \in Node
      /\ Good(s) /\ Ready(s, q.from)
      BY Delivered
<1>2. q.hops = 0 /\ q.from = q.src
      BY <1>1 DEF Shape
<1>3. Step(n, t, {r})
      BY DEF OnHelloRequest
<1>4. t = ConfirmDirect(n, s, q.src, q.src)
      BY <1>2
<1> HIDE DEF s, t
<1>5. Follows(s, t, {q.from})
      BY <1>1, <1>2, <1>4, ConfirmDirectFollows
<1>6. t \in State /\ Ready(t, q.from)
      BY <1>1, <1>5 DEF Follows, Good
<1>7. Own(r, n, q.from)
      BY <1>1, <1>2, <1>6, DiscoveryType, PacketIsOwn, SMTT(20) DEF ToRoute, Type
<1> HIDE DEF r
<1> QED
    BY <1>3, <1>5, <1>7, ReplyKeeps DEF s

LEMMA HelloReplyKeeps ==
  ASSUME Inv, NEW q \in net, q.src # q.to, q.type = "HelloReply",
         OnHelloReply(q.to, Received(q.to, q), q)
  PROVE  Inv'
<1> DEFINE n == q.to
           s == Received(n, q)
           told == LearnNat(s, {e \in q.body : e.peer = q.src})
           heard == [told EXCEPT !.nat[n] = IF q.hops = 0 THEN "public" ELSE @,
                                 !.hello = @ \ {q.from}]
           peer == IF q.hops = 0 /\ q.from \in s.hello
                   THEN ConfirmDirect(n, heard, q.src, q.from)
                   ELSE UpsertPeerInfo(n, heard, q.src, TRUE, None)
           t == Ingest(n, peer, q.body, q.from)
<1>1. /\ q \in Pkt /\ Shape(q) /\ q.from \in Node /\ n \in Node /\ q.src \in Node
      /\ Good(s) /\ (q.hops = 0 => Found(s, q.from))
      BY Delivered
<1>2. q.hops = 0 /\ q.from = q.src /\ q.body \in SUBSET Body
      BY <1>1 DEF Shape, Pkt
<1>3. Step(n, t, {})
      BY DEF OnHelloReply
<1>4. Follows(s, told, {})
  <2>1. {e \in q.body : e.peer = q.src} \in SUBSET Entry
        BY <1>2 DEF Body
  <2> HIDE DEF s
  <2> QED
      BY <1>1, <2>1, LearnNatFollows
<1> HIDE DEF s, told
<1>5. Good(told) /\ told \in State /\ Found(told, q.from)
      BY <1>1, <1>2, <1>4 DEF Follows, Good
<1>6. /\ heard \in State /\ heard.routes = told.routes /\ heard.peers = told.peers
      /\ heard.candidates = told.candidates /\ heard.hello = told.hello \ {q.from}
      /\ heard.calls = told.calls /\ heard.punch = told.punch
  <2>1. heard = [told EXCEPT !.nat[n] = "public", !.hello = told.hello \ {q.from}]
        BY <1>2
  <2> HIDE DEF heard
  <2> QED
      BY <1>1, <1>5, <2>1 DEF State, NatKind
<1> HIDE DEF heard
<1>7. Follows(told, heard, {})
      BY <1>1, <1>5, <1>6, AnswerFollows
<1>8. Good(heard)
      BY <1>7 DEF Follows
<1>9. Follows(heard, peer, {q.from})
  <2>1. CASE q.from \in s.hello
        BY <1>1, <1>2, <1>8, <2>1, ConfirmDirectFollows
  <2>2. CASE q.from \notin s.hello
    <3>1. peer = UpsertPeerInfo(n, heard, q.src, TRUE, None)
          BY <2>2
    <3> HIDE DEF peer
    <3> QED
        BY <1>1, <1>8, <3>1, UpsertFollows, FollowsMore
  <2> QED
      BY <2>1, <2>2
<1> HIDE DEF peer
<1>10. Follows(peer, t, {q.from})
  <2>1. Good(peer)
        BY <1>9 DEF Follows
  <2> QED
      BY <1>1, <1>2, <2>1, IngestFollows
<1> HIDE DEF t
<1>11. Follows(s, t, {q.from})
      BY <1>4, <1>7, <1>9, <1>10, FollowsMore, FollowsTrans
<1> QED
    BY <1>3, <1>11, SilentKeeps DEF s

LEMMA RouteQueryKeeps ==
  ASSUME Inv, NEW q \in net, q.src # q.to, OnIDRouteQuery(q.to, Received(q.to, q), q)
  PROVE  Inv'
<1> DEFINE n == q.to
           s == Received(n, q)
           t == ConfirmRelay(n, s, q)
           r == ToRoute(n, q.src, q.from, "IDRouteReply", DiscoveryEntries(n, t, q.src))
<1>1. /\ q \in Pkt /\ Shape(q) /\ q.from \in Node /\ n \in Node /\ q.src \in Node
      /\ Good(s) /\ Ready(s, q.from)
      BY Delivered
<1>2. Step(n, t, {r})
      BY DEF OnIDRouteQuery
<1> HIDE DEF s
<1>3. Follows(s, t, {q.from})
      BY <1>1, ConfirmRelayFollows
<1> HIDE DEF t
<1>4. t \in State /\ Ready(t, q.from)
      BY <1>1, <1>3 DEF Follows, Good
<1>5. Own(r, n, q.from)
  <2>1. PICK body \in SUBSET Body : body = DiscoveryEntries(n, t, q.src)
        BY <1>1, <1>4, DiscoveryType
  <2>2. r = Packet("IDRouteReply", n, q.src, n, q.from, body)
        BY <2>1 DEF ToRoute
  <2>3. Own(Packet("IDRouteReply", n, q.src, n, q.from, body), n, q.from)
        BY <1>1, PacketIsOwn DEF Type
  <2> QED
      BY ONLY <2>2, <2>3
<1> HIDE DEF r
<1> QED
    BY <1>2, <1>3, <1>5, ReplyKeeps DEF s

LEMMA RouteReplyKeeps ==
  ASSUME Inv, NEW q \in net, q.src # q.to, OnIDRouteReply(q.to, Received(q.to, q), q)
  PROVE  Inv'
<1> DEFINE n == q.to
           s == Received(n, q)
           c == ConfirmTcp(n, s, q)
           t == ConfirmRelay(n, c, q)
           u == Ingest(n, t, q.body, q.from)
<1>1. /\ q \in Pkt /\ Shape(q) /\ q.from \in Node /\ n \in Node /\ Good(s)
      BY Delivered
<1>2. q.body \in SUBSET Body
      BY <1>1 DEF Pkt
<1>3. Step(n, u, {})
      BY DEF OnIDRouteReply
<1> HIDE DEF s
<1>4. Follows(s, c, {q.from})
      BY <1>1, ConfirmTcpFollows
<1> HIDE DEF c
<1>5. Follows(c, t, {q.from})
      BY <1>1, <1>4, ConfirmRelayFollows DEF Follows
<1> HIDE DEF t
<1>6. Follows(t, u, {q.from})
  <2>1. Good(t)
        BY <1>5 DEF Follows
  <2> QED
      BY <1>1, <1>2, <2>1, IngestFollows, ZenonT(30)
<1> HIDE DEF u
<1>7. Follows(s, u, {q.from})
      BY <1>4, <1>5, <1>6, FollowsTrans
<1> QED
    BY <1>3, <1>7, SilentKeeps DEF s

LEMMA EchoRequestKeeps ==
  ASSUME Inv, NEW q \in net, q.src # q.to, OnEchoRequest(q.to, Received(q.to, q), q)
  PROVE  Inv'
<1> DEFINE n == q.to
           s == Received(n, q)
           t == ConfirmTcp(n, s, q)
           r == ToRoute(n, q.src, q.from, "EchoReply", {})
<1>1. /\ q \in Pkt /\ Shape(q) /\ q.from \in Node /\ n \in Node /\ q.src \in Node
      /\ Good(s) /\ Ready(s, q.from)
      BY Delivered
<1>2. Step(n, t, {r})
      BY DEF OnEchoRequest
<1> HIDE DEF s
<1>3. Follows(s, t, {q.from})
      BY <1>1, ConfirmTcpFollows
<1> HIDE DEF t
<1>4. Ready(t, q.from)
      BY <1>1, <1>3 DEF Follows
<1>5. Own(r, n, q.from)
      BY <1>1, PacketIsOwn DEF ToRoute, Type
<1> HIDE DEF r
<1> QED
    BY <1>2, <1>3, <1>5, ReplyKeeps DEF s

LEMMA ObserveRequestKeeps ==
  ASSUME Inv, NEW q \in net, OnNatObserveRequest(q.to, Received(q.to, q), q)
  PROVE  Inv'
<1> DEFINE n == q.to
           s == Received(n, q)
           r == ToRoute(n, q.src, q.from, "NatObserveReply", {})
           pkts == IF ConfirmedOrCandidate(s, q) THEN {r} ELSE {}
<1>1. /\ q.from \in Node /\ n \in Node /\ q.src \in Node /\ Good(s) /\ Ready(s, q.from)
      BY Delivered
<1>2. Step(n, s, pkts)
      BY DEF OnNatObserveRequest
<1> HIDE DEF s
<1>3. Own(r, n, q.from)
      BY <1>1, PacketIsOwn DEF ToRoute, Type
<1>4. \A x \in pkts : Sent(n, s, x)
      BY <1>1, <1>3, OwnIsSent
<1>5. Follows(s, s, {q.from})
      BY <1>1, FollowsSelf
<1> HIDE DEF pkts
<1> QED
    BY <1>2, <1>4, <1>5, HandledKeeps DEF s

LEMMA ObserveReplyKeeps ==
  ASSUME Inv, NEW q \in net, q.src # q.to, OnNatObserveReply(q.to, Received(q.to, q), q)
  PROVE  Inv'
<1> DEFINE n == q.to
           s == Received(n, q)
           t == IF ConfirmedOrCandidate(s, q) \/ q.hops > 0 THEN s
                ELSE [s EXCEPT !.observe = @ \ {q.src}]
           confirms == /\ q.src \in Observers
                       /\ ConfirmedOrCandidate(s, q) \/ (q.hops = 0 /\ q.src \in s.observe)
           u == [t EXCEPT !.nat[n] = "public"]
           v == IF confirms THEN ConfirmDirect(n, u, q.src, q.from) ELSE t
<1>1. /\ q \in Pkt /\ Shape(q) /\ q.from \in Node /\ n \in Node /\ q.src \in Node
      /\ Good(s) /\ s \in State
      BY Delivered
<1>2. Step(n, v, {})
      BY DEF OnNatObserveReply
<1>3. confirms => q.from = q.src
      BY <1>1 DEF ConfirmedOrCandidate, Shape
<1> HIDE DEF s
<1>4. /\ t \in State /\ t.routes = s.routes /\ t.peers = s.peers
      /\ t.candidates = s.candidates /\ t.hello = s.hello /\ t.calls = s.calls
      /\ t.punch = s.punch
      BY <1>1 DEF State
<1> HIDE DEF t, confirms
<1>5. /\ u \in State /\ u.routes = s.routes /\ u.peers = s.peers
      /\ u.candidates = s.candidates /\ u.hello = s.hello /\ u.calls = s.calls
      /\ u.punch = s.punch
      BY <1>1, <1>4 DEF State, NatKind
<1> HIDE DEF u
<1>6. Follows(s, t, {q.from}) /\ Follows(s, u, {q.from})
      BY <1>1, <1>4, <1>5, NotesFollow, FollowsMore
<1>7. Follows(s, v, {q.from})
  <2>1. CASE confirms
    <3>1. v = ConfirmDirect(n, u, q.src, q.src) /\ Good(u)
          BY <1>3, <1>6, <2>1 DEF Follows
    <3>2. Follows(u, v, {q.from})
          BY <1>1, <1>3, <2>1, <3>1, ConfirmDirectFollows
    <3> HIDE DEF v
    <3> QED
        BY <1>6, <3>2, FollowsTrans
  <2>2. CASE ~confirms
        BY <1>6, <2>2
  <2> QED
      BY <2>1, <2>2
<1> HIDE DEF v
<1> QED
    BY <1>2, <1>7, SilentKeeps DEF s

LEMMA PendingFollows ==
  ASSUME NEW s, Good(s), NEW p \in Node, NEW ids \in SUBSET Id
  PROVE  /\ Follows(s, Pending(s, p, ids), {})
         /\ "direct" \in ids => Ready(Pending(s, p, ids), p)
<1> DEFINE t == Pending(s, p, ids)
<1>1. s \in State /\ t = [s EXCEPT !.punch = s.punch \cup (ids \X {p})]
      BY DEF Good, Pending
<1> HIDE DEF t
<1>2. /\ t \in State /\ t.routes = s.routes /\ t.peers = s.peers
      /\ t.candidates = s.candidates /\ t.hello = s.hello /\ t.calls = s.calls
      /\ t.punch = s.punch \cup (ids \X {p})
      BY <1>1 DEF State
<1>3. Follows(s, t, {})
      BY <1>2, NotesFollow
<1>4. "direct" \in ids => Ready(t, p)
      BY <1>2 DEF Ready
<1> QED
    BY <1>3, <1>4 DEF t

LEMMA PunchesAreOwn ==
  ASSUME NEW n \in Node, NEW s \in State, NEW p \in Node, NEW public,
         NEW r \in Punches(n, s, p, public)
  PROVE  public /\ Own(r, n, p)
<1>1. public /\ r = PunchPacket("PunchRequest", n, s, p, p, "direct")
      BY DEF Punches
<1> QED
    BY <1>1, PunchIsOwn DEF Id

LEMMA TryPunchKeeps ==
  ASSUME Inv, NEW q \in net, NEW u, Follows(Received(q.to, q), u, {q.from}),
         NEW replies, \A r \in replies : Own(r, q.to, q.from),
         TryExecutePunch(q.to, u, q, replies)
  PROVE  Inv'
<1> DEFINE n == q.to
           t == Pending(u, q.src, {"direct"})
           public == u.nat[q.src] = "public" \/ q.hops = 0
           pkts == replies \cup Punches(n, u, q.src, public)
<1>1. n \in Node /\ q.from \in Node /\ q.src \in Node /\ Ready(Received(n, q), q.from)
      BY Delivered
<1>2. Good(u) /\ u \in State /\ Ready(u, q.from)
      BY <1>1 DEF Follows, Good
<1>3. CASE Step(n, u, replies)
  <2>1. \A r \in replies : Sent(n, u, r)
        BY <1>2, OwnIsSent
  <2> QED
      BY <1>3, <2>1, HandledKeeps
<1>4. CASE Step(n, t, pkts)
  <2>1. {"direct"} \in SUBSET Id
        BY DEF Id
  <2>2. Follows(u, t, {}) /\ Ready(t, q.src)
        BY <1>1, <1>2, <2>1, PendingFollows
  <2> HIDE DEF t
  <2>3. Follows(u, t, {q.from})
        BY <2>2, FollowsMore
  <2>4. Follows(Received(n, q), t, {q.from})
        BY <2>3, FollowsTrans
  <2>5. Ready(t, q.from)
        BY <1>1, <1>2, <2>2 DEF Follows
  <2>6. \A r \in replies : Sent(n, t, r)
        BY <2>5, OwnIsSent
  <2>7. \A r \in Punches(n, u, q.src, public) : Sent(n, t, r)
        BY <1>1, <1>2, <2>2, PunchesAreOwn, OwnIsSent
  <2>8. \A r \in pkts : Sent(n, t, r)
        BY <2>6, <2>7
  <2> HIDE DEF pkts
  <2> QED
      BY <1>4, <2>4, <2>8, HandledKeeps
<1> QED
    BY <1>3, <1>4 DEF TryExecutePunch

LEMMA PunchRequestKeeps ==
  ASSUME Inv, NEW q \in net, q.src # q.to, OnPunchRequest(q.to, Received(q.to, q), q)
  PROVE  Inv'
<1> DEFINE n == q.to
           s == Received(n, q)
           heard == LearnNat(s, q.body)
           t == ConfirmPunched(n, heard, q)
           u == IF q.hops = 0 THEN [t EXCEPT !.candidates[q.src] = q.from] ELSE t
           r == PunchPacket("PunchReply", n, u, q.src, q.from, q.id)
           replies == IF <<n, q.src>> \in Allowed THEN {r} ELSE {}
<1>1. /\ q \in Pkt /\ Shape(q) /\ q.from \in Node /\ n \in Node /\ q.src \in Node
      /\ Good(s)
      BY Delivered
<1>2. /\ q.body \in SUBSET Entry /\ q.id \in Id \cup {"none"}
      /\ q.hops = 0 => q.from = q.src
      /\ q.id = "direct" => q.src = q.from
      BY <1>1 DEF Pkt, Body, Shape
<1>3. TryExecutePunch(n, u, q, replies)
      BY DEF OnPunchRequest
<1> HIDE DEF s
<1>4. Follows(s, heard, {q.from})
      BY <1>1, <1>2, LearnNatFollows, FollowsMore
<1> HIDE DEF heard
<1>5. Follows(heard, t, {q.from})
      BY <1>1, <1>4, ConfirmPunchedFollows DEF Follows
<1> HIDE DEF t
<1>6. Good(t) /\ t \in State
      BY <1>5 DEF Follows, Good
<1>7. Follows(t, u, {q.from})
  <2>1. CASE q.hops # 0
        BY <1>6, <2>1, FollowsSelf
  <2>2. CASE q.hops = 0
    <3>1. u = [t EXCEPT !.candidates[q.src] = q.src]
          BY <1>2, <2>2
    <3> HIDE DEF u
    <3> QED
        BY <1>1, <1>6, <3>1, CandidateFollows
  <2> QED
      BY <2>1, <2>2
<1> HIDE DEF u
<1>8. Follows(s, u, {q.from}) /\ u \in State
  <2>1. Follows(s, t, {q.from})
        BY <1>4, <1>5, FollowsTrans
  <2>2. Follows(s, u, {q.from})
        BY <1>7, <2>1, FollowsTrans
  <2>3. u \in State
        BY <1>7 DEF Follows, Good
  <2> QED
      BY <2>2, <2>3
<1>9. Own(r, n, q.from)
      BY <1>1, <1>2, <1>8, PunchIsOwn
<1>10. \A x \in replies : Own(x, n, q.from)
      BY <1>9
<1> HIDE DEF replies
<1> QED
    BY <1>3, <1>8, <1>10, TryPunchKeeps DEF s

LEMMA PunchReplyKeeps ==
  ASSUME Inv, NEW q \in net, q.src # q.to, OnPunchReply(q.to, Received(q.to, q), q)
  PROVE  Inv'
<1> DEFINE n == q.to
           s == Received(n, q)
           heard == LearnNat(s, q.body)
           asked == <<q.id, q.src>>
           t == IF asked \in s.punch THEN ConfirmPunched(n, heard, q) ELSE heard
           u == [t EXCEPT !.punch = @ \ {asked}]
           replies == {}
<1>1. /\ q \in Pkt /\ Shape(q) /\ q.from \in Node /\ n \in Node /\ q.src \in Node
      /\ Good(s) /\ (q.hops = 0 => Found(s, q.from))
      BY Delivered
<1>2. /\ q.body \in SUBSET Entry
      /\ q.id = "direct" => Found(s, q.src)
      BY <1>1 DEF Pkt, Body, Shape
<1>3. TryExecutePunch(n, u, q, replies)
      BY DEF OnPunchReply
<1>4. \A x \in replies : Own(x, n, q.from)
      OBVIOUS
<1> HIDE DEF s, replies
<1>5. Follows(s, heard, {q.from})
      BY <1>1, <1>2, LearnNatFollows, FollowsMore
<1> HIDE DEF heard
<1>6. Follows(heard, t, {q.from})
  <2>1. Good(heard)
        BY <1>5 DEF Follows
  <2> QED
      BY <1>1, <2>1, ConfirmPunchedFollows, FollowsSelf
<1> HIDE DEF t
<1>7. Follows(s, t, {q.from})
      BY <1>5, <1>6, FollowsTrans
<1>8. Good(t) /\ t \in State /\ (q.id = "direct" => Found(t, q.src))
      BY <1>1, <1>2, <1>7 DEF Follows, Good
<1>9. Follows(t, u, {q.from})
  <2>1. u = [t EXCEPT !.punch = t.punch \ {<<q.id, q.src>>}]
        OBVIOUS
  <2> HIDE DEF u
  <2>2. /\ u \in State /\ u.routes = t.routes /\ u.peers = t.peers
        /\ u.candidates = t.candidates /\ u.hello = t.hello /\ u.calls = t.calls
        /\ u.punch = t.punch \ {<<q.id, q.src>>}
        BY <1>8, <2>1 DEF State
  <2>3. Good(u)
        BY <1>8, <2>2 DEF Good
  <2>4. \A p \in Node : Found(t, p) => Found(u, p)
        BY <2>2 DEF Found, HasDirect
  <2>5. \A p \in Node : Ready(t, p) => Ready(u, p)
        BY <1>8, <2>2, <2>4 DEF Ready
  <2> QED
      BY <2>2, <2>3, <2>4, <2>5 DEF Follows
<1> HIDE DEF u
<1>10. Follows(s, u, {q.from})
      BY <1>7, <1>9, FollowsTrans
<1> QED
    BY <1>3, <1>4, <1>10, TryPunchKeeps DEF s

\* q as node n sends it on to k, after h hops.
Relayed(q, n, k, h) == [q EXCEPT !.hops = h, !.from = n, !.to = k]

LEMMA RelayedType ==
  ASSUME NEW q \in Pkt, NEW n \in Node, NEW k \in Node, NEW h \in 0 .. MaxTtl - 1
  PROVE  /\ Relayed(q, n, k, h) \in Pkt
         /\ Relayed(q, n, k, h).hops = h
         /\ Relayed(q, n, k, h).from = n
         /\ Relayed(q, n, k, h).to = k
         /\ Relayed(q, n, k, h).type = q.type
         /\ Relayed(q, n, k, h).id = q.id
  BY DEF Pkt, Relayed

LEMMA ForwardKeeps ==
  ASSUME Inv, NEW q \in net, q.dest \notin {q.to, Broadcast},
         Forward(q.to, Received(q.to, q), q)
  PROVE  Inv'
<1> DEFINE n == q.to
           s == Received(n, q)
           relayed(k) == [q EXCEPT !.hops = @ + 1, !.from = n, !.to = k]
<1>1. /\ q \in Pkt /\ Shape(q) /\ q.from \in Node /\ n \in Node /\ q.src \in Node
      /\ Good(s) /\ s \in State /\ Ready(s, q.from) /\ Follows(node[n], s, {q.from})
      BY Delivered
<1>2. Follows(s, s, {q.from})
      BY <1>1, FollowsSelf
<1>3. q.dest \in Node /\ q.hops \in 0 .. MaxTtl - 1
      BY <1>1 DEF Pkt
<1>4. CASE Step(n, s, {})
      BY <1>2, <1>4, SilentKeeps
<1>5. ASSUME NEW k \in RouteFor(s, q.dest), q.hops + 1 < MaxTtl,
             Step(n, s, {relayed(k)})
      PROVE  Inv'
  <2> DEFINE r == relayed(k)
             pkts == {r}
  <2>1. k \in Node /\ s.routes[q.dest][k] < Far
        BY <1>1, <1>3, RouteForKey
  <2>2. Ready(s, k) /\ Ready(node[k], n)
    <3>1. CASE node[n].routes[q.dest][k] < Far
          BY <1>1, <1>3, <2>1, <3>1 DEF Inv, RoutesOK, Contact, Follows
    <3>2. CASE k = q.from
          BY <1>1, <3>2 DEF Inv, NetOK
    <3> QED
        BY <1>1, <1>3, <2>1, <3>1, <3>2 DEF Follows
  <2>3. /\ r \in Pkt /\ r.hops = q.hops + 1 /\ r.from = n /\ r.to = k
        /\ r.type = q.type /\ r.id = q.id
    <3> DEFINE h == q.hops + 1
    <3>1. h \in 0 .. MaxTtl - 1
          BY <1>3, <1>5, FarType
    <3>2. r = Relayed(q, n, k, h)
          BY DEF Relayed
    <3>3. q \in Pkt /\ n \in Node
          BY <1>1
    <3> HIDE DEF r, n, h
    <3>4. /\ Relayed(q, n, k, h) \in Pkt
          /\ Relayed(q, n, k, h).hops = h
          /\ Relayed(q, n, k, h).from = n
          /\ Relayed(q, n, k, h).to = k
          /\ Relayed(q, n, k, h).type = q.type
          /\ Relayed(q, n, k, h).id = q.id
      <4>1. k \in Node
            BY <2>1
      <4> QED
          BY ONLY <3>1, <3>3, <4>1, RelayedType
    <3> QED
        BY <3>2, <3>4 DEF h
  <2> HIDE DEF r
  <2>4. Shape(r)
    <3>1. q.type \notin {"HelloRequest", "HelloReply"} /\ q.id # "direct"
          BY <1>1 DEF Shape
    <3>2. r.hops # 0
          BY <1>3, <2>3
    <3> QED
        BY <2>3, <3>1, <3>2 DEF Shape
  <2>5. \A x \in pkts : Sent(n, s, x)
        BY <2>2, <2>3, <2>4 DEF Sent
  <2>6. Step(n, s, pkts)
        BY <1>5 DEF r
  <2> HIDE DEF pkts
  <2> QED
      BY <1>2, <2>5, <2>6, HandledKeeps
<1> QED
    BY <1>4, <1>5 DEF Forward

LEMMA DeliverKeeps == ASSUME Inv, NEW q \in net, Deliver(q) PROVE Inv'
<1> DEFINE n == q.to
           s == Received(n, q)
<1>1. q.src # n
      BY DEF Deliver
<1>2. CASE q.dest \in {n, Broadcast}
  <2>1. Handle(n, s, q)
        BY <1>2 DEF Deliver
  <2>2. CASE q.type = "EchoReply" /\ Step(n, s, {})
    <3>1. Follows(s, s, {q.from})
          BY Delivered, FollowsSelf
    <3> QED
        BY <2>2, <3>1, SilentKeeps
  <2> QED
      BY <1>1, <2>1, <2>2, HelloRequestKeeps, HelloReplyKeeps, RouteQueryKeeps,
         RouteReplyKeeps, PunchRequestKeeps, PunchReplyKeeps, EchoRequestKeeps,
         ObserveRequestKeeps, ObserveReplyKeeps DEF Handle
<1>3. CASE q.dest \notin {n, Broadcast}
      BY <1>3, ForwardKeeps DEF Deliver
<1> QED
    BY <1>2, <1>3

-----------------------------------------------------------------------------
(* Calls and loops: a node does something of its own accord. *)

LEMMA OwnStepKeeps ==
  ASSUME Inv, NEW n \in Node, NEW t, NEW pkts, Step(n, t, pkts),
         Follows(node[n], t, {}), \A q \in pkts : Sent(n, t, q)
  PROVE  Inv'
<1>1. MayUse(n, t, {})
      BY DEF MayUse
<1> QED
    BY <1>1, StepKeeps

LEMMA BootstrapKeeps ==
  ASSUME Inv, NEW n \in Node, NEW m \in Node, BootstrapSend(n, m) \/ BootstrapNote(n, m)
  PROVE  Inv'
<1>1. node[n] \in State /\ Good(node[n])
      BY DEF Inv
<1>2. CASE BootstrapSend(n, m)
  <2> DEFINE t == [node[n] EXCEPT !.calls = @ \cup {m}]
             r == Packet("HelloRequest", n, Broadcast, n, m, {})
             pkts == {r}
  <2>1. Step(n, t, pkts)
        BY <1>2 DEF BootstrapSend
  <2>2. /\ t \in State /\ t.routes = node[n].routes /\ t.peers = node[n].peers
        /\ t.candidates = node[n].candidates /\ t.hello = node[n].hello
        /\ t.calls = node[n].calls \cup {m} /\ t.punch = node[n].punch
        BY <1>1 DEF State
  <2> HIDE DEF t
  <2>3. Follows(node[n], t, {})
        BY <1>1, <2>2, NotesFollow
  <2>4. Ready(t, m)
        BY <2>2 DEF Ready
  <2>5. Own(r, n, m)
        BY PacketIsOwn DEF Type
  <2>6. \A q \in pkts : Sent(n, t, q)
        BY <2>4, <2>5, OwnIsSent
  <2> HIDE DEF pkts
  <2> QED
      BY <2>1, <2>3, <2>6, OwnStepKeeps
<1>3. CASE BootstrapNote(n, m)
  <2> DEFINE t == [node[n] EXCEPT !.calls = @ \ {m}, !.hello = @ \cup {m}]
             pkts == {}
  <2>1. Step(n, t, pkts)
        BY <1>3 DEF BootstrapNote
  <2>2. /\ t \in State /\ t.routes = node[n].routes /\ t.peers = node[n].peers
        /\ t.candidates = node[n].candidates /\ t.hello = node[n].hello \cup {m}
        /\ t.calls = node[n].calls \ {m} /\ t.punch = node[n].punch
        BY <1>1 DEF State
  <2> HIDE DEF t
  <2>3. Follows(node[n], t, {})
        BY <1>1, <2>2, NotesFollow
  <2>4. \A q \in pkts : Sent(n, t, q)
        OBVIOUS
  <2> HIDE DEF pkts
  <2> QED
      BY <2>1, <2>3, <2>4, OwnStepKeeps
<1> QED
    BY <1>2, <1>3

\* A packet over a route there is.
LEMMA OverIsSent ==
  ASSUME Inv, NEW n \in Node, NEW p \in Node, NEW k \in RouteFor(node[n], p),
         NEW t, Follows(node[n], t, {})
  PROVE  k \in Node /\ Ready(t, k)
<1>1. k \in Node /\ node[n].routes[p][k] < Far
      BY RouteForKey DEF Inv
<1> QED
    BY <1>1 DEF Inv, RoutesOK, Contact, Follows

LEMMA QueryKeeps == ASSUME Inv, NEW n \in Node, NEW p \in Node, Query(n, p) PROVE Inv'
<1> DEFINE r(k) == Packet("IDRouteQuery", n, p, n, k, {})
<1>1. PICK k \in RouteFor(node[n], p) : Step(n, node[n], {r(k)})
      BY DEF Query, Over
<1> DEFINE pkts == {r(k)}
<1>2. Follows(node[n], node[n], {})
      BY FollowsSelf DEF Inv
<1>3. k \in Node /\ Ready(node[n], k)
      BY <1>2, OverIsSent
<1>4. Own(r(k), n, k)
      BY <1>3, PacketIsOwn DEF Type
<1>5. \A q \in pkts : Sent(n, node[n], q)
      BY <1>3, <1>4, OwnIsSent
<1>6. Step(n, node[n], pkts)
      BY <1>1
<1> HIDE DEF pkts
<1> QED
    BY <1>2, <1>5, <1>6, OwnStepKeeps

LEMMA ProbeKeeps == ASSUME Inv, NEW n \in Node, NEW p \in Node, Probe(n, p) PROVE Inv'
<1> DEFINE t == [node[n] EXCEPT !.hello = @ \cup {p}]
           r == ToRoute(n, p, p, "HelloRequest", {})
           pkts == {r}
<1>1. node[n] \in State /\ Good(node[n])
      BY DEF Inv
<1>2. node[n].candidates[p] = p
      BY <1>1 DEF Probe, Good
<1>3. Step(n, t, pkts)
      BY <1>2 DEF Probe
<1>4. /\ t \in State /\ t.routes = node[n].routes /\ t.peers = node[n].peers
      /\ t.candidates = node[n].candidates /\ t.hello = node[n].hello \cup {p}
      /\ t.calls = node[n].calls /\ t.punch = node[n].punch
      BY <1>1 DEF State
<1> HIDE DEF t
<1>5. Follows(node[n], t, {})
      BY <1>1, <1>4, NotesFollow
<1>6. Ready(t, p)
      BY <1>4 DEF Ready
<1>7. Own(r, n, p)
      BY PacketIsOwn DEF Type, ToRoute
<1>8. \A q \in pkts : Sent(n, t, q)
      BY <1>6, <1>7, OwnIsSent
<1> HIDE DEF pkts
<1> QED
    BY <1>3, <1>5, <1>8, OwnStepKeeps

LEMMA PunchKeeps ==
  ASSUME Inv, NEW n \in Node, NEW p \in Node, PunchBoth(n, node[n], p)
  PROVE  Inv'
<1> DEFINE s == node[n]
           public == s.nat[p] = "public"
           ids == IF public THEN Id ELSE {"route"}
           t == Pending(s, p, ids)
           r(k) == PunchPacket("PunchRequest", n, s, p, k, "route")
           direct == Punches(n, s, p, public)
<1>1. s \in State /\ Good(s)
      BY DEF Inv
<1>2. ids \in SUBSET Id /\ (public => "direct" \in ids)
      BY DEF Id
<1>3. \/ Step(n, t, direct)
      \/ \E k \in RouteFor(s, p) : Step(n, t, {r(k)} \cup direct)
      BY DEF PunchBoth
<1> HIDE DEF ids
<1>4. Follows(s, t, {}) /\ (public => Ready(t, p))
      BY <1>1, <1>2, PendingFollows
<1> HIDE DEF t
<1>5. \A q \in direct : Sent(n, t, q)
      BY <1>1, <1>4, PunchesAreOwn, OwnIsSent
<1> HIDE DEF direct
<1>6. ASSUME NEW k \in RouteFor(s, p), Step(n, t, {r(k)} \cup direct)
      PROVE  Inv'
  <2> DEFINE pkts == {r(k)} \cup direct
  <2>1. k \in Node /\ Ready(t, k)
        BY <1>4, OverIsSent
  <2>2. Own(r(k), n, k)
        BY <1>1, <2>1, PunchIsOwn DEF Id
  <2>3. Sent(n, t, r(k))
        BY <2>1, <2>2, OwnIsSent
  <2>4. Step(n, t, pkts) /\ \A q \in pkts : Sent(n, t, q)
        BY <1>5, <1>6, <2>3
  <2> HIDE DEF pkts
  <2> QED
      BY <1>4, <2>4, OwnStepKeeps
<1>7. CASE Step(n, t, direct)
      BY <1>4, <1>5, <1>7, OwnStepKeeps
<1> QED
    BY <1>3, <1>6, <1>7

LEMMA HeartbeatKeeps ==
  ASSUME Inv, NEW n \in Node, NEW p \in Node, Heartbeat(n, p) PROVE Inv'
<1> DEFINE r == ToRoute(n, p, p, "EchoRequest", {})
           pkts == {r}
<1>1. Step(n, node[n], pkts) /\ node[n].routes[p][p] = 0
      BY DEF Heartbeat
<1>2. Follows(node[n], node[n], {})
      BY FollowsSelf DEF Inv
<1>3. Ready(node[n], p)
      BY <1>1 DEF Ready, Found, HasDirect
<1>4. Own(r, n, p)
      BY PacketIsOwn DEF Type, ToRoute
<1>5. \A q \in pkts : Sent(n, node[n], q)
      BY <1>3, <1>4, OwnIsSent
<1> HIDE DEF pkts
<1> QED
    BY <1>1, <1>2, <1>5, OwnStepKeeps

LEMMA ObserveKeeps ==
  ASSUME Inv, NEW n \in Node, NEW p \in Node, Observe(n, p) PROVE Inv'
<1> DEFINE t == [node[n] EXCEPT !.observe = @ \cup {p}]
           r(k) == Packet("NatObserveRequest", n, p, n, k, {})
<1>1. PICK k \in RouteFor(node[n], p) : Step(n, t, {r(k)})
      BY DEF Observe, Over
<1> DEFINE pkts == {r(k)}
<1>2. node[n] \in State /\ Good(node[n])
      BY DEF Inv
<1>3. /\ t \in State /\ t.routes = node[n].routes /\ t.peers = node[n].peers
      /\ t.candidates = node[n].candidates /\ t.hello = node[n].hello
      /\ t.calls = node[n].calls /\ t.punch = node[n].punch
      BY <1>2 DEF State
<1> HIDE DEF t
<1>4. Follows(node[n], t, {})
      BY <1>2, <1>3, NotesFollow
<1>5. k \in Node /\ Ready(t, k)
      BY <1>4, OverIsSent
<1>6. Own(r(k), n, k)
      BY <1>5, PacketIsOwn DEF Type
<1>7. Step(n, t, pkts) /\ \A q \in pkts : Sent(n, t, q)
      BY <1>1, <1>5, <1>6, OwnIsSent
<1> HIDE DEF pkts
<1> QED
    BY <1>4, <1>7, OwnStepKeeps

LEMMA JoinKeeps ==
  ASSUME Inv, NEW n \in Node, NEW m \in Node, n # m, Join(n, m) PROVE Inv'
<1> DEFINE t == ConfirmDirect(m, node[m], n, n)
           u == [node[n] EXCEPT !.nat[n] = "public", !.nat[m] = t.nat[m]]
           v == ConfirmDirect(n, u, m, m)
           entries == DiscoveryEntries(m, t, n)
           w == Ingest(n, v, entries, m)
<1>1. /\ node \in [Node -> State] /\ node[m] \in State /\ node[n] \in State
      /\ Good(node[m]) /\ Good(node[n])
      BY DEF Inv
<1>2. /\ node' = [node EXCEPT ![m] = t, ![n] = w]
      /\ open' = open \cup {<<m, n>>}
      /\ net' = {} /\ m \in Public
      BY OverlayConstants DEF Join
<1>3. Follows(node[m], t, {n}) /\ HasDirect(t, n)
      BY <1>1, ConfirmDirectFollows
<1> HIDE DEF t
<1>4. Good(t) /\ t \in State /\ t.nat[m] \in NatKind
      BY <1>3 DEF Follows, Good, State
<1>5. /\ u \in State /\ u.routes = node[n].routes /\ u.peers = node[n].peers
      /\ u.candidates = node[n].candidates /\ u.hello = node[n].hello
      /\ u.calls = node[n].calls /\ u.punch = node[n].punch
      BY <1>1, <1>4 DEF State, NatKind
<1> HIDE DEF u
<1>6. Follows(node[n], u, {}) /\ Follows(node[n], u, {m})
      BY <1>1, <1>5, NotesFollow, FollowsMore
<1>7. Follows(u, v, {m}) /\ HasDirect(v, m)
      BY <1>6, ConfirmDirectFollows DEF Follows
<1> HIDE DEF v
<1>8. entries \in SUBSET Body
      BY <1>4, DiscoveryType
<1> HIDE DEF entries
<1>9. Follows(v, w, {m})
  <2>1. Good(v)
        BY <1>7 DEF Follows
  <2> QED
      BY <1>8, <2>1, IngestFollows
<1> HIDE DEF w
<1>10. Follows(node[n], w, {m})
      BY <1>6, <1>7, <1>9, FollowsTrans
<1>11. Ready(t, n) /\ Ready(w, m)
  <2>1. Found(t, n) /\ Found(v, m)
        BY <1>3, <1>7 DEF Found
  <2> QED
      BY <1>9, <2>1 DEF Follows, Ready
<1>12. /\ node'[m] = t /\ node'[n] = w
       /\ \A x \in Node : x # m /\ x # n => node'[x] = node[x]
      BY <1>1, <1>2
<1>13. \A x \in Node : Good(node'[x])
      BY <1>4, <1>10, <1>12 DEF Inv, Follows
<1>14. node' \in [Node -> State]
      BY <1>1, <1>2, <1>4, <1>10 DEF Follows, Good
<1>15. \A x, k \in Node : Ready(node[x], k) => Ready(node'[x], k)
      BY <1>3, <1>10, <1>12 DEF Follows
<1>16. open \subseteq open' /\ open' \subseteq Node \X Node /\ <<m, n>> \in open'
      BY <1>2 DEF Inv
<1>17. <<n, m>> \in open'
      BY <1>2, <1>16 DEF Inv
<1>18. ASSUME NEW x \in Node, NEW p \in Node, NEW k \in Node, node'[x].routes[p][k] < Far
       PROVE  <<x, k>> \in open' /\ Ready(node'[x], k) /\ Ready(node'[k], x)
  <2>1. CASE node[x].routes[p][k] < Far
    <3>1. <<x, k>> \in open /\ Ready(node[x], k) /\ Ready(node[k], x)
          BY <2>1 DEF Inv, RoutesOK, Contact
    <3> QED
        BY <1>15, <1>16, <3>1
  <2>2. CASE ~(node[x].routes[p][k] < Far)
    <3>1. (x = m /\ k = n) \/ (x = n /\ k = m)
          BY <1>3, <1>10, <1>12, <1>18, <2>2 DEF Follows
    <3> QED
        BY <1>11, <1>12, <1>16, <1>17, <3>1
  <2> QED
      BY <2>1, <2>2
<1>19. NetOK'
      BY <1>2 DEF NetOK
<1>20. RoutesOK'
      BY <1>18 DEF RoutesOK, Contact
<1> QED
    BY <1>13, <1>14, <1>16, <1>19, <1>20 DEF Inv

LEMMA Starts == Init => Inv
<1> SUFFICES ASSUME Init PROVE Inv
    OBVIOUS
<1>1. Far \in Metric /\ Far # 0 /\ ~(Far < Far)
      BY FarType DEF Metric
<1>2. ASSUME NEW n \in Node PROVE Good(Fresh(n)) /\ Fresh(n) \in State
  <2>1. Fresh(n) \in State
        BY <1>1 DEF Fresh, State, PeerInfo, NatKind
  <2>2. /\ \A p, k \in Node : Fresh(n).routes[p][k] # 0
        /\ \A p \in Node : Stored(Fresh(n).peers[p]) /\ Fresh(n).candidates[p] = None
        BY <1>1 DEF Fresh, Stored
  <2> QED
      BY <2>1, <2>2 DEF Good
<1>3. \A n \in Node : node[n] = Fresh(n)
      BY DEF Init
<1>4. node \in [Node -> State] /\ \A n \in Node : Good(node[n])
      BY <1>2 DEF Init
<1>5. \A n, p, k \in Node : ~(node[n].routes[p][k] < Far)
  <2>1. \A n, p, k \in Node : Fresh(n).routes[p][k] = Far
        BY DEF Fresh
  <2> QED
      BY <1>1, <1>3, <2>1
<1>6. /\ open \subseteq Node \X Node
      /\ \A l \in (Node \X Public) : l[1] # l[2] => l \in open
      BY OverlayConstants DEF Init
<1>7. NetOK /\ RoutesOK
      BY <1>5 DEF Init, NetOK, RoutesOK
<1> QED
    BY <1>4, <1>6, <1>7 DEF Inv

LEMMA Preserved == ASSUME Inv, [Next]_vars PROVE Inv'
<1>1. CASE UNCHANGED vars
      BY <1>1 DEF vars, Inv, NetOK, RoutesOK, Contact
<1>2. ASSUME NEW n \in Node, NEW p \in Node, AutoPunch(n, p) \/ Punch(n, p) PROVE Inv'
      BY <1>2, PunchKeeps DEF AutoPunch, Punch
<1>3. CASE Next
      BY <1>2, <1>3, DeliverKeeps, BootstrapKeeps, JoinKeeps, QueryKeeps, ProbeKeeps,
         HeartbeatKeeps, ObserveKeeps DEF Next
<1> QED
    BY <1>1, <1>3

\* The inductive invariant: every state of a node is good, every packet has
\* its shape, and packets and routes run only between nodes that are ready for
\* each other.
THEOREM InvariantHolds == Spec => []Inv
  BY Starts, Preserved, PTL DEF Spec

-----------------------------------------------------------------------------
\* Tables and packets keep their types; no metric exceeds the hop limit and
\* the number of nodes (ingest_route_entries adds one to what it is told).
THEOREM TypeCorrect == Spec => []TypeOK
<1>1. Inv => TypeOK
      BY DEF Inv, NetOK, Pkt, Body, TypeOK
<1> QED
    BY <1>1, InvariantHolds, PTL

\* A direct route is the peer's own address and passes the peer's NAT, for any
\* network and any order, loss or repetition of packets.
THEOREM DirectRoutesWork == Spec => []DirectWorks
<1>1. Inv => DirectWorks
  <2> SUFFICES ASSUME Inv, NEW n \in Node, NEW p \in Node, NEW k \in Node,
                      node[n].routes[p][k] = 0
               PROVE  k = p /\ <<n, p>> \in open
      BY DEF DirectWorks
  <2>1. k = p
        BY DEF Inv, Good
  <2>2. node[n].routes[p][k] < Far
        BY FarType
  <2> QED
      BY <2>1, <2>2 DEF Inv, RoutesOK, Contact
<1> QED
    BY <1>1, InvariantHolds, PTL

\* A peer with a direct route is stored as direct and without a relay hint,
\* whatever upsert_peer_info is told afterwards.
THEOREM DirectPeersAreStored == Spec => []DirectIsStored
<1>1. Inv => DirectIsStored
  <2> SUFFICES ASSUME Inv, NEW n \in Node, NEW p \in Node, HasDirect(node[n], p)
               PROVE  node[n].peers[p].direct /\ node[n].peers[p].hint = None
      BY DEF DirectIsStored
  <2>1. Good(node[n])
        BY DEF Inv
  <2>2. node[n].routes[p][p] = 0
        BY <2>1 DEF HasDirect, Good
  <2> QED
      BY <2>1, <2>2 DEF Good, Stored
<1> QED
    BY <1>1, InvariantHolds, PTL

\* When one end has a direct route, the other end has it, has the address to
\* probe, or still awaits the answer that confirms it.
THEOREM BothEndsFind == Spec => []BothEnds
<1>1. Inv => BothEnds
  <2> SUFFICES ASSUME Inv, NEW n \in Node, NEW p \in Node, HasDirect(node[n], p)
               PROVE  Ready(node[p], n)
      BY DEF BothEnds, Ready, Found
  <2>1. node[n].routes[p][p] < Far
        BY FarType DEF Inv, HasDirect, Good
  <2> QED
      BY <2>1 DEF Inv, RoutesOK, Contact
<1> QED
    BY <1>1, InvariantHolds, PTL
=============================================================================

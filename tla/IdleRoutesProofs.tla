-------------------------- MODULE IdleRoutesProofs --------------------------
(***************************************************************************)
(* Proofs about IdleRoutes, for every set of peers, keys, metrics and rtts,*)
(* every policy and every read-idle period: the task that evicts routes    *)
(* never oversleeps.                                                       *)
(***************************************************************************)
EXTENDS IdleRoutes, RouteTableProofs, NaturalsInduction

-----------------------------------------------------------------------------
(* The inductive invariant. *)

\* No route of the list has been unread for longer than n.
AgedAtMost(list, n) == \A i \in DOMAIN list : list[i].age <= n

TableAgedAtMost(n) ==
  \A id \in DOMAIN route_table : AgedAtMost(route_table[id].list, n)

\* The table is sound, the task wakes up before any route can have been
\* unread for longer than read_idle, and a task with a victim in its hands
\* does not sleep.
IdleInv ==
  /\ IInv
  /\ sleep \in 0 .. ReadIdle
  /\ victim \in (Peer \X Key) \cup {NoVictim}
  /\ victim # NoVictim => sleep = 0
  /\ TableAgedAtMost(ReadIdle - sleep)

-----------------------------------------------------------------------------
(* No operation of the table makes a route older. *)

\* Reordering a list.
LEMMA ReorderedAges ==
  ASSUME NEW a \in Seq(Route), NEW b, SameRoutes(a, b), NEW n \in Nat, AgedAtMost(a, n)
  PROVE  AgedAtMost(b, n)
  BY SameRoutesKeep DEF AgedAtMost

\* Writing a route that is no older than n.
LEMMA ReplacedAges ==
  ASSUME NEW list \in Seq(Route), NEW i \in DOMAIN list, NEW route, NEW n \in Nat,
         AgedAtMost(list, n), route.age <= n
  PROVE  AgedAtMost([list EXCEPT ![i] = route], n)
  BY DEF AgedAtMost

\* Reading a route.
LEMMA TouchAges ==
  ASSUME NEW list \in Seq(Route), NEW i \in DOMAIN list, NEW n \in Nat,
         AgedAtMost(list, n)
  PROVE  AgedAtMost(Touch(list, i), n)
  <1> DEFINE route == [list[i] EXCEPT !.age = 0]
  <1>1. list[i] \in Route
    BY RouteFields
  <1>2. route.age <= n
    BY <1>1 DEF Route
  <1>3. Touch(list, i) = [list EXCEPT ![i] = route]
    BY DEF Touch
  <1> HIDE DEF route
  <1>4. AgedAtMost([list EXCEPT ![i] = route], n)
    BY <1>2, ReplacedAges
  <1> QED
    BY <1>3, <1>4

\* Pushing a route.
LEMMA PushAges ==
  ASSUME NEW list \in Seq(Route), NEW offer \in Offer, NEW n \in Nat, AgedAtMost(list, n)
  PROVE  AgedAtMost(Reorder(Append(list, Fresh(offer)), Len(list) + 1), n)
  <1> DEFINE b == Append(list, Fresh(offer))
             last == Len(list) + 1
  <1>1. Fresh(offer) \in Route /\ Fresh(offer).age = 0
    BY DEF Fresh, Offer, Route
  <1>2. /\ b \in Seq(Route) /\ last \in DOMAIN b /\ DOMAIN list = 1 .. Len(list)
        /\ DOMAIN b = 1 .. last /\ Len(list) \in Nat
        /\ b[last] = Fresh(offer) /\ \A j \in DOMAIN list : b[j] = list[j]
    BY <1>1
  <1> HIDE DEF b
  <1>3. \A j \in DOMAIN b : j = last \/ j \in DOMAIN list
    BY <1>2
  <1>4. AgedAtMost(b, n)
    BY <1>1, <1>2, <1>3 DEF AgedAtMost
  <1>5. SameRoutes(b, Reorder(b, last))
    BY <1>2, ReorderReorders
  <1> QED
    BY <1>2, <1>4, <1>5, ReorderedAges DEF b

\* Overwriting a route.
LEMMA OverwriteAges ==
  ASSUME NEW list \in Seq(Route), NEW offer \in Offer, NEW i \in DOMAIN list,
         NEW n \in Nat, AgedAtMost(list, n)
  PROVE  AgedAtMost(Reorder(Overwrite(list, i, offer), i), n)
  <1> DEFINE route == [key |-> list[i].key, metric |-> offer.metric, age |-> 0,
                       rtt |-> IF offer.rtt # DEFAULT_RTT THEN offer.rtt
                                                          ELSE list[i].rtt]
             b == Overwrite(list, i, offer)
  <1>1. list[i] \in Route
    BY RouteFields
  <1>2. route \in Route /\ route.age <= n
    BY <1>1 DEF Route, Offer
  <1>3. b = [list EXCEPT ![i] = route]
    BY DEF Overwrite
  <1> HIDE DEF route, b
  <1>4. b \in Seq(Route) /\ DOMAIN b = DOMAIN list
    BY <1>2, <1>3
  <1>5. AgedAtMost(b, n)
    BY <1>2, <1>3, ReplacedAges
  <1>6. SameRoutes(b, Reorder(b, i))
    BY <1>4, ReorderReorders
  <1> QED
    BY <1>4, <1>5, <1>6, ReorderedAges DEF b

\* add_route_ on one list.
LEMMA AddToListAges ==
  ASSUME NEW list \in Seq(Route), UniqueKeys(list), NEW offer \in Offer,
         NEW onlyIfAbsent \in BOOLEAN, NEW n \in Nat, AgedAtMost(list, n)
  PROVE  AgedAtMost(AddToList(list, offer, onlyIfAbsent), n)
  <1> DEFINE i == FirstAt(list, offer.key)
  <1>1. CASE Outranked(list, offer)
    BY <1>1 DEF AddToList
  <1>2. CASE ~Outranked(list, offer) /\ At(list, offer.key) = {}
    <2>1. AddToList(list, offer, onlyIfAbsent) =
            Reorder(Append(list, Fresh(offer)), Len(list) + 1)
      BY <1>2 DEF AddToList
    <2> QED
      BY <2>1, PushAges
  <1>3. CASE ~Outranked(list, offer) /\ At(list, offer.key) # {}
    <2>1. AddToList(list, offer, onlyIfAbsent) =
            IF KeepsKnown(list[i], offer, onlyIfAbsent)
            THEN Touch(list, i) ELSE Reorder(Overwrite(list, i, offer), i)
      BY <1>3 DEF AddToList
    <2>2. i \in DOMAIN list
      BY <1>3, FirstAtFacts
    <2> HIDE DEF i
    <2> QED
      BY <2>1, <2>2, TouchAges, OverwriteAges
  <1> QED
    BY <1>1, <1>2, <1>3

\* A measurement.
LEMMA MeasureAges ==
  ASSUME NEW list \in Seq(Route), NEW i \in DOMAIN list, NEW rtt \in Rtt,
         NEW n \in Nat, AgedAtMost(list, n)
  PROVE  LET b == [list EXCEPT ![i].rtt = rtt]
         IN  AgedAtMost(IF load_balance = "LowestLatency" THEN StableSort(b) ELSE b, n)
  <1> DEFINE route == [list[i] EXCEPT !.rtt = rtt]
             b == [list EXCEPT ![i].rtt = rtt]
  <1>1. list[i] \in Route
    BY RouteFields
  <1>2. route \in Route /\ route.age = list[i].age
    BY <1>1 DEF Route
  <1>3. b = [list EXCEPT ![i] = route]
    OBVIOUS
  <1> HIDE DEF route, b
  <1>4. b \in Seq(Route)
    BY <1>2, <1>3
  <1>5. AgedAtMost(b, n)
    BY <1>2, <1>3, ReplacedAges DEF AgedAtMost
  <1>6. SameRoutes(b, StableSort(b))
    BY <1>4, SortReorders
  <1>7. AgedAtMost(StableSort(b), n)
    BY <1>4, <1>5, <1>6, ReorderedAges
  <1> QED
    BY <1>5, <1>7 DEF b

\* The list of a peer, which is empty when the peer has no entry.
LEMMA ListOfAges ==
  ASSUME IInv, NEW id, NEW n \in Nat, TableAgedAtMost(n)
  PROVE  AgedAtMost(ListOf(id), n)
  BY DEF TableAgedAtMost, AgedAtMost, ListOf, Has

\* Replacing the list of a peer.
LEMMA WriteAges ==
  ASSUME NEW id \in Peer, NEW count, NEW list, NEW n \in Nat, TableAgedAtMost(n),
         AgedAtMost(list, n), route_table' = WithEntry(id, [count |-> count, list |-> list])
  PROVE  TableAgedAtMost(n)'
  <1> SUFFICES ASSUME NEW p \in DOMAIN route_table'
               PROVE  AgedAtMost(route_table'[p].list, n)
    BY DEF TableAgedAtMost
  <1>1. CASE p = id
    <2>1. route_table'[p].list = list
      BY <1>1 DEF WithEntry
    <2> QED
      BY <2>1
  <1>2. CASE p # id
    <2>1. p \in DOMAIN route_table /\ route_table'[p] = route_table[p]
      BY <1>2 DEF WithEntry
    <2> QED
      BY <2>1 DEF TableAgedAtMost
  <1> QED
    BY <1>1, <1>2

\* Dropping the entry of a peer.
LEMMA DropAges ==
  ASSUME NEW id, NEW n \in Nat, TableAgedAtMost(n),
         route_table' = Without(route_table, {id})
  PROVE  TableAgedAtMost(n)'
  BY DEF TableAgedAtMost, Without

LEMMA AddLockedAges ==
  ASSUME IInv, NEW id \in Peer, NEW offer \in Offer, NEW onlyIfAbsent \in BOOLEAN,
         AddLocked(id, offer, onlyIfAbsent), NEW n \in Nat, TableAgedAtMost(n)
  PROVE  TableAgedAtMost(n)'
  <1> DEFINE out == AddToList(ListOf(id), offer, onlyIfAbsent)
  <1>1. AgedAtMost(out, n)
    BY ListOfFacts, ListOfAges, AddToListAges
  <1>2. route_table' = WithEntry(id, [count |-> CountOf(id), list |-> out])
    BY DEF AddLocked, WithList
  <1> HIDE DEF out
  <1> QED
    BY <1>1, <1>2, WriteAges

LEMMA ReadAges ==
  ASSUME IInv, NEW id \in Peer, NEW k, At(ListOf(id), k) # {},
         route_table' = WithList(id, Touch(ListOf(id), FirstAt(ListOf(id), k))),
         NEW n \in Nat, TableAgedAtMost(n)
  PROVE  TableAgedAtMost(n)'
  <1> DEFINE out == Touch(ListOf(id), FirstAt(ListOf(id), k))
  <1>1. FirstAt(ListOf(id), k) \in DOMAIN ListOf(id)
    BY ListOfFacts, FirstAtFacts
  <1>2. AgedAtMost(out, n)
    BY <1>1, ListOfFacts, ListOfAges, TouchAges
  <1>3. route_table' = WithEntry(id, [count |-> CountOf(id), list |-> out])
    BY DEF WithList
  <1> HIDE DEF out
  <1> QED
    BY <1>2, <1>3, WriteAges

LEMMA UpdateRttAges ==
  ASSUME IInv, NEW id \in Peer, NEW k \in Key, NEW rtt \in Rtt, UpdateRtt(id, k, rtt),
         NEW n \in Nat, TableAgedAtMost(n)
  PROVE  TableAgedAtMost(n)'
  <1> DEFINE list == ListOf(id)
             i == FirstAt(list, k)
             b == [list EXCEPT ![i].rtt = rtt]
             out == IF load_balance = "LowestLatency" THEN StableSort(b) ELSE b
  <1>1. route_table' = WithEntry(id, [count |-> CountOf(id), list |-> out])
    BY DEF UpdateRtt, WithList
  <1>2. i \in DOMAIN list
    BY ListOfFacts, FirstAtFacts DEF UpdateRtt
  <1>3. list \in Seq(Route) /\ AgedAtMost(list, n)
    BY ListOfFacts, ListOfAges
  <1> HIDE DEF list, i
  <1>4. AgedAtMost(out, n)
    BY <1>2, <1>3, MeasureAges
  <1> HIDE DEF out
  <1> QED
    BY <1>1, <1>4, WriteAges

LEMMA RemoveRouteAges ==
  ASSUME IInv, NEW id \in Peer, NEW k \in Key, RemoveRoute(id, k),
         NEW n \in Nat, TableAgedAtMost(n)
  PROVE  TableAgedAtMost(n)'
  <1> DEFINE list == ListOf(id)
             rest == Retain(list, k)
  <1>1. list \in Seq(Route) /\ UniqueKeys(list) /\ AgedAtMost(list, n)
    BY ListOfFacts, ListOfAges
  <1>2. route_table' = IF rest = <<>> THEN Without(route_table, {id})
                       ELSE WithEntry(id, [count |-> CountOf(id), list |-> rest])
    BY DEF RemoveRoute, RemoveLocked, WithList
  <1> HIDE DEF list
  <1>3. AgedAtMost(rest, n)
    BY <1>1, RetainFacts DEF AgedAtMost
  <1> HIDE DEF rest
  <1> QED
    BY <1>2, <1>3, WriteAges, DropAges

LEMMA GetRouteByIdAges ==
  ASSUME IInv, NEW id \in Peer, GetRouteById(id), NEW n \in Nat, TableAgedAtMost(n)
  PROVE  TableAgedAtMost(n)'
  BY ListOfAges, WriteAges DEF GetRouteById

\* Whatever the users of the table do, a route is no older for it: it stays
\* as it is, or it has just been read.
LEMMA UseAges ==
  ASSUME IInv, TableUse, NEW n \in Nat, TableAgedAtMost(n)
  PROVE  TableAgedAtMost(n)'
  <1>1. ASSUME NEW id \in Peer, NEW offer \in Offer,
               \/ AddRoute(id, offer) \/ AddIfAbsentLocked(id, offer)
        PROVE  TableAgedAtMost(n)'
    BY <1>1, AddLockedAges DEF AddRoute, AddIfAbsentLocked
  <1>2. ASSUME NEW id \in Peer, NEW offer \in Offer, AddIfAbsentFound(id, offer)
        PROVE  TableAgedAtMost(n)'
    BY <1>2, ReadAges DEF AddIfAbsentFound
  <1>3. ASSUME NEW id \in Peer, NEW k \in Key, UpdateReadTime(id, k)
        PROVE  TableAgedAtMost(n)'
    BY <1>3, ReadAges DEF UpdateReadTime
  <1>4. ASSUME NEW id \in Peer, NEW k \in Key, NEW rtt \in Rtt, UpdateRtt(id, k, rtt)
        PROVE  TableAgedAtMost(n)'
    BY <1>4, UpdateRttAges
  <1>5. ASSUME NEW id \in Peer, NEW k \in Key, RemoveRoute(id, k)
        PROVE  TableAgedAtMost(n)'
    BY <1>5, RemoveRouteAges
  <1>6. ASSUME NEW id \in Peer, RemoveAll(id)
        PROVE  TableAgedAtMost(n)'
    BY <1>6, DropAges DEF RemoveAll
  <1>7. ASSUME NEW id \in Peer, GetRouteById(id)
        PROVE  TableAgedAtMost(n)'
    BY <1>7, GetRouteByIdAges
  <1> QED
    BY <1>1, <1>2, <1>3, <1>4, <1>5, <1>6, <1>7 DEF TableUse

\* One unit of time.
LEMMA TickAges ==
  ASSUME IInv, Tick, NEW n \in Nat, TableAgedAtMost(n)
  PROVE  TableAgedAtMost(n + 1)'
  <1> SUFFICES ASSUME NEW p \in DOMAIN route_table'
               PROVE  AgedAtMost(route_table'[p].list, n + 1)
    BY DEF TableAgedAtMost
  <1> DEFINE list == route_table[p].list
  <1>1. p \in DOMAIN route_table /\ route_table'[p] = [route_table[p] EXCEPT !.list = Older(@)]
    BY DEF Tick, Aged
  <1>2. route_table[p] \in Entry /\ list \in Seq(Route)
    BY <1>1 DEF IInv, TypeOK, IsMap, Entry
  <1>3. route_table'[p].list = Older(list)
    BY <1>1, <1>2 DEF Entry
  <1>4. AgedAtMost(list, n)
    BY <1>1 DEF TableAgedAtMost
  <1> HIDE DEF list
  <1>5. ASSUME NEW i \in DOMAIN list
        PROVE  Older(list)[i].age <= n + 1
    <2>1. list[i] \in Route /\ list[i].age \in Nat
      BY <1>2, RouteFields
    <2>2. Older(list)[i].age = list[i].age + 1
      BY <2>1 DEF Older, Route
    <2> QED
      BY <1>4, <2>1, <2>2 DEF AgedAtMost
  <1>6. DOMAIN Older(list) = DOMAIN list
    BY DEF Older
  <1> QED
    BY <1>3, <1>5, <1>6 DEF AgedAtMost

-----------------------------------------------------------------------------
(* The oldest route. *)

\* A non-empty set of numbers has a smallest one.
LEMMA SmallestExists ==
  ASSUME NEW T, T \subseteq Nat, T # {}
  PROVE  \E x \in T : \A y \in T : x <= y
  <1> DEFINE R == OpToRel(<, Nat)
  <1>1. IsWellFoundedOn(R, Nat)
    BY NatLessThanWellFounded
  <1>2. \A x, y \in Nat : y < x => <<y, x>> \in R
    BY DEF OpToRel
  <1> HIDE DEF R
  <1>3. PICK x \in T : \A y \in T : ~(<<y, x>> \in R)
    BY <1>1, WFMin
  <1>4. ASSUME NEW y \in T
        PROVE  x <= y
    <2>1. x \in Nat /\ y \in Nat /\ ~(y < x)
      BY <1>2, <1>3
    <2> QED
      BY <2>1
  <1> QED
    BY <1>4

\* What AllRoutes holds.
LEMMA AllRoutesFacts ==
  ASSUME IInv
  PROVE  /\ \A r \in AllRoutes :
              \E id \in DOMAIN route_table : \E i \in DOMAIN route_table[id].list :
                r = <<id, route_table[id].list[i]>>
         /\ \A id \in DOMAIN route_table : \A i \in DOMAIN route_table[id].list :
              <<id, route_table[id].list[i]>> \in AllRoutes
         /\ \A r \in AllRoutes :
              r[1] \in Peer /\ r[2].key \in Key /\ r[2].age \in Nat
  <1>1. \A r \in AllRoutes :
          \E id \in DOMAIN route_table : \E i \in DOMAIN route_table[id].list :
            r = <<id, route_table[id].list[i]>>
    BY DEF AllRoutes
  <1>2. \A id \in DOMAIN route_table : \A i \in DOMAIN route_table[id].list :
          <<id, route_table[id].list[i]>> \in AllRoutes
    BY DEF AllRoutes
  <1>3. ASSUME NEW r \in AllRoutes
        PROVE  r[1] \in Peer /\ r[2].key \in Key /\ r[2].age \in Nat
    <2>1. PICK id \in DOMAIN route_table :
            \E i \in DOMAIN route_table[id].list : r = <<id, route_table[id].list[i]>>
      BY <1>1
    <2>2. id \in Peer /\ route_table[id].list \in Seq(Route)
      BY DEF IInv, TypeOK, IsMap, GoodList
    <2> QED
      BY <2>1, <2>2, RouteFields
  <1> QED
    BY <1>1, <1>2, <1>3

\* The bound on the table as a bound on AllRoutes.
LEMMA AllRoutesAges ==
  ASSUME IInv, NEW n \in Int
  PROVE  TableAgedAtMost(n) <=> \A r \in AllRoutes : r[2].age <= n
  <1>1. ASSUME TableAgedAtMost(n), NEW r \in AllRoutes
        PROVE  r[2].age <= n
    <2>1. PICK id \in DOMAIN route_table :
            \E i \in DOMAIN route_table[id].list : r = <<id, route_table[id].list[i]>>
      BY AllRoutesFacts
    <2> QED
      BY <1>1, <2>1 DEF TableAgedAtMost, AgedAtMost
  <1>2. ASSUME \A r \in AllRoutes : r[2].age <= n,
               NEW id \in DOMAIN route_table, NEW i \in DOMAIN route_table[id].list
        PROVE  route_table[id].list[i].age <= n
    <2>1. <<id, route_table[id].list[i]>> \in AllRoutes
      BY AllRoutesFacts
    <2> QED
      BY <1>2, <2>1
  <1> QED
    BY <1>1, <1>2 DEF TableAgedAtMost, AgedAtMost

\* oldest_route finds a route when there is one: no route is older than n, so
\* one is closest to it.
LEMMA OldestExists ==
  ASSUME IInv, NEW n \in Nat, TableAgedAtMost(n), AllRoutes # {}
  PROVE  Oldest # {}
  <1> DEFINE T == {n - r[2].age : r \in AllRoutes}
  <1>1. \A r \in AllRoutes : r[2].age \in Nat /\ r[2].age <= n
    BY AllRoutesFacts, AllRoutesAges
  <1>2. T \subseteq Nat /\ T # {}
    BY <1>1
  <1>3. PICK x \in T : \A y \in T : x <= y
    <2> HIDE DEF T
    <2> QED
      BY <1>2, SmallestExists
  <1>4. PICK r \in AllRoutes : x = n - r[2].age
    OBVIOUS
  <1>5. ASSUME NEW other \in AllRoutes
        PROVE  r[2].age >= other[2].age
    <2>1. x <= n - other[2].age
      BY <1>3
    <2>2. r[2].age \in Nat /\ other[2].age \in Nat
      BY <1>1
    <2> QED
      BY <1>4, <2>1, <2>2
  <1> QED
    BY <1>5 DEF Oldest

\* When no route has expired, next_idle sleeps a positive time, and when it
\* wakes up no route can be older than read_idle.
LEMMA SleepIsShortEnough ==
  ASSUME IInv, TableAgedAtMost(ReadIdle), \A r \in Oldest : r[2].age < ReadIdle,
         NEW s, s = IF SleepFor = 0 THEN 1 ELSE SleepFor
  PROVE  s \in 1 .. ReadIdle /\ TableAgedAtMost(ReadIdle - s)
  <1> USE IdleConstants
  <1>1. CASE AllRoutes = {}
    <2>1. SleepFor = ReadIdle \div 3
      BY <1>1 DEF SleepFor
    <2>2. s \in 1 .. ReadIdle
      BY <2>1
    <2> QED
      BY <1>1, <2>2, AllRoutesAges
  <1>2. CASE AllRoutes # {}
    <2> DEFINE r == CHOOSE o \in Oldest : TRUE
    <2>1. r \in Oldest
      BY <1>2, OldestExists
    <2>2. SleepFor = ReadIdle - r[2].age
      BY <1>2 DEF SleepFor
    <2> HIDE DEF r
    <2>3. r[2].age \in Nat /\ r[2].age < ReadIdle
      BY <2>1, AllRoutesFacts DEF Oldest
    <2>4. s = ReadIdle - r[2].age
      BY <2>2, <2>3
    <2>5. s \in 1 .. ReadIdle /\ ReadIdle - s = r[2].age
      BY <2>3, <2>4
    <2>6. \A other \in AllRoutes : other[2].age <= r[2].age
      BY <2>1, <2>3, AllRoutesFacts DEF Oldest
    <2> QED
      BY <2>3, <2>5, <2>6, AllRoutesAges
  <1> QED
    BY <1>1, <1>2

-----------------------------------------------------------------------------
(* The steps. *)

LEMMA IdleInitInv ==
  ASSUME IdleInit
  PROVE  IdleInv
  <1>1. IInv
    BY InitInvariant DEF IdleInit, Init
  <1>2. TableAgedAtMost(ReadIdle - sleep)
    BY DEF IdleInit, TableInit, TableAgedAtMost
  <1> QED
    BY <1>1, <1>2, IdleConstants DEF IdleInit, IdleInv

\* The users of the table.
LEMMA UseInv ==
  ASSUME IdleInv, Use
  PROVE  IdleInv'
  <1>1. IInv'
    BY NextKeeps DEF IdleInv, Use, Next
  <1>2. PICK n \in Nat : n = ReadIdle - sleep
    BY IdleConstants DEF IdleInv
  <1>3. TableAgedAtMost(n)'
    BY <1>2, UseAges DEF IdleInv, Use
  <1>4. UNCHANGED <<sleep, victim>>
    BY DEF Use, reaperVars
  <1>5. TableAgedAtMost(ReadIdle - sleep)'
    BY <1>2, <1>3, <1>4
  <1> QED
    BY <1>1, <1>4, <1>5 DEF IdleInv

\* A step that leaves the table alone keeps what is said of it.
LEMMA SameTable ==
  ASSUME IInv, UNCHANGED tableVars
  PROVE  IInv' /\ \A n \in Int : TableAgedAtMost(n) => TableAgedAtMost(n)'
  BY NextKeeps DEF tableVars, TableAgedAtMost, AgedAtMost

\* The task.
LEMMA ReaperInv ==
  ASSUME IdleInv, Reaper
  PROVE  IdleInv'
  <1> USE IdleConstants
  <1>1. CASE NextIdle
    <2>1. IInv' /\ sleep' = 0 /\ TableAgedAtMost(ReadIdle)'
      BY <1>1, SameTable DEF NextIdle, IdleInv, Running
    <2>2. victim' \in Peer \X Key
      BY <1>1, AllRoutesFacts DEF NextIdle, Oldest, IdleInv
    <2>3. TableAgedAtMost(ReadIdle - sleep)'
      BY <2>1
    <2> QED
      BY <2>1, <2>2, <2>3 DEF IdleInv
  <1>2. CASE NextIdleSleeps
    <2>1. sleep = 0 /\ victim' = NoVictim /\ UNCHANGED tableVars
      BY <1>2 DEF NextIdleSleeps, Running
    <2>2. TableAgedAtMost(ReadIdle) /\ IInv
      BY <2>1 DEF IdleInv
    <2>3. PICK s \in 1 .. ReadIdle : s = sleep' /\ TableAgedAtMost(ReadIdle - s)
      BY <1>2, <2>2, SleepIsShortEnough DEF NextIdleSleeps
    <2>4. IInv' /\ TableAgedAtMost(ReadIdle - s)'
      BY <2>1, <2>2, <2>3, SameTable
    <2>5. TableAgedAtMost(ReadIdle - sleep)'
      BY <2>3, <2>4
    <2> QED
      BY <2>1, <2>3, <2>4, <2>5 DEF IdleInv
  <1>3. CASE RemoveIdle
    <2>1. victim \in Peer \X Key /\ sleep = 0 /\ sleep' = 0 /\ victim' = NoVictim
      BY <1>3 DEF RemoveIdle, IdleInv
    <2>2. TableAgedAtMost(ReadIdle) /\ IInv
      BY <2>1 DEF IdleInv
    <2>3. IInv' /\ TableAgedAtMost(ReadIdle)'
      <3>1. CASE Has(victim[1])
        <4>1. RemoveRoute(victim[1], victim[2]) /\ victim[1] \in Peer /\ victim[2] \in Key
          BY <1>3, <2>1, <3>1 DEF RemoveIdle
        <4> QED
          BY <2>2, <4>1, RemoveRouteKeeps, RemoveRouteAges
      <3>2. CASE ~Has(victim[1])
        BY <1>3, <2>2, <3>2, SameTable DEF RemoveIdle
      <3> QED
        BY <3>1, <3>2
    <2>4. TableAgedAtMost(ReadIdle - sleep)'
      BY <2>1, <2>3
    <2> QED
      BY <2>1, <2>3, <2>4 DEF IdleInv
  <1> QED
    BY <1>1, <1>2, <1>3 DEF Reaper

\* Time passes while the task sleeps.
LEMMA PassTimeInv ==
  ASSUME IdleInv, PassTime
  PROVE  IdleInv'
  <1> USE IdleConstants
  <1>1. /\ sleep \in 1 .. ReadIdle /\ sleep' = sleep - 1 /\ victim' = victim
        /\ victim = NoVictim /\ IInv /\ Tick
    BY DEF PassTime, Running, IdleInv
  <1>2. PICK n \in Nat : n = ReadIdle - sleep
    BY <1>1
  <1>3. TableAgedAtMost(n + 1)'
    BY <1>1, <1>2, TickAges DEF IdleInv
  <1>4. n + 1 = ReadIdle - sleep' /\ sleep' \in 0 .. ReadIdle
    BY <1>1, <1>2
  <1>5. TableAgedAtMost(ReadIdle - sleep)'
    BY <1>3, <1>4
  <1>6. IInv'
    BY <1>1, TickKeeps
  <1> QED
    BY <1>1, <1>4, <1>5, <1>6 DEF IdleInv

-----------------------------------------------------------------------------
(* The theorems. *)

\* The invariant holds in every reachable state.
THEOREM IdleInvariant == IdleSpec => []IdleInv
  <1>1. IdleInv /\ [IdleNext]_vars => IdleInv'
    <2>1. ASSUME IdleInv, UNCHANGED vars
          PROVE  IdleInv'
      <3>1. UNCHANGED tableVars /\ UNCHANGED <<sleep, victim>>
        BY <2>1 DEF vars
      <3>2. IInv'
        BY <2>1, <3>1, SameTable DEF IdleInv
      <3>3. PICK n \in Int : n = ReadIdle - sleep
        BY <2>1, IdleConstants DEF IdleInv
      <3>4. TableAgedAtMost(n)'
        BY <2>1, <3>1, <3>3, SameTable DEF IdleInv
      <3>5. TableAgedAtMost(ReadIdle - sleep)'
        BY <3>1, <3>3, <3>4
      <3> QED
        BY <2>1, <3>1, <3>2, <3>5 DEF IdleInv
    <2> QED
      BY <2>1, UseInv, ReaperInv, PassTimeInv DEF IdleNext
  <1> QED
    BY <1>1, IdleInitInv, PTL DEF IdleSpec

\* No route stays in the table unread for longer than read_idle, whatever is
\* added, read or removed while the task of the idle manager sleeps.
THEOREM IdleEvictedInTime == IdleSpec => []EvictedInTime
  <1>1. ASSUME IdleInv
        PROVE  EvictedInTime
    <2>1. IInv /\ sleep \in 0 .. ReadIdle /\ ReadIdle - sleep \in Int
      BY <1>1, IdleConstants DEF IdleInv
    <2>2. \A r \in AllRoutes : r[2].age <= ReadIdle - sleep
      BY <1>1, <2>1, AllRoutesAges DEF IdleInv
    <2>3. \A r \in AllRoutes : r[2].age \in Nat
      BY <2>1, AllRoutesFacts
    <2> QED
      BY <2>1, <2>2, <2>3, IdleConstants DEF EvictedInTime
  <1> QED
    BY <1>1, IdleInvariant, PTL

\* The task changes the table only by remove_route, with whatever it holds by
\* then: the table among the task and its users is the table among users, so
\* what is proved of RouteTable is true here.
THEOREM IdleImplementsTable == IdleSpec => Spec
  <1>1. IdleInit => Init
    BY DEF IdleInit, Init
  <1>2. IdleInv /\ [IdleNext]_vars => [Next]_tableVars
    <2> SUFFICES ASSUME IdleInv, [IdleNext]_vars
                 PROVE  [Next]_tableVars
      OBVIOUS
    <2>1. CASE RemoveIdle
      <3>1. PICK id \in Peer, k \in Key : victim = <<id, k>>
        BY <2>1 DEF IdleInv, RemoveIdle
      <3>2. RemoveRoute(id, k) \/ UNCHANGED tableVars
        BY <2>1, <3>1 DEF RemoveIdle
      <3> QED
        BY <3>2 DEF Next, TableUse
    <2>2. CASE NextIdle \/ NextIdleSleeps
      BY <2>2 DEF NextIdle, NextIdleSleeps
    <2>3. CASE Use \/ PassTime
      BY <2>3 DEF Use, PassTime, Next
    <2>4. CASE UNCHANGED vars
      BY <2>4 DEF vars
    <2> QED
      BY <2>1, <2>2, <2>3, <2>4 DEF IdleNext, Reaper
  <1> QED
    BY <1>1, <1>2, IdleInvariant, PTL DEF IdleSpec, Spec
=============================================================================

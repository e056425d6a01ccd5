---------------------------- MODULE RouteTable ----------------------------
(***************************************************************************)
(* The confirmed-route table of rustp2p-core                               *)
(* (rustp2p-core/src/route_table/table.rs).                                *)
(*                                                                         *)
(* Per peer the table keeps a list of routes in the order the load-balance *)
(* policy gives them, each with the time since it was last read, and an    *)
(* index from the key of a direct route to the peer that owns it.  Every   *)
(* public operation locks the peer's entry, so it is one step; the only    *)
(* operation with two critical sections is add_route_if_absent.            *)
(***************************************************************************)
EXTENDS Integers, Sequences, FiniteSets

CONSTANTS
  Peer,         \* peer ids
  Key,          \* route keys: protocol, local address, peer address
  Metric,       \* hop counts offered by callers (u8)
  Rtt,          \* round-trip times offered by callers (u32)
  DEFAULT_RTT,  \* the "not measured" sentinel, 9999 in the code
  Policies,     \* the load-balance policies a table may be created with
  CountRange,   \* values of the AtomicUsize counter: 2^64 in the code
  MaxAge        \* bound: time stops once a route is this old

LoadBalance == {"MinHopLowestLatency", "RoundRobin", "MostRecent", "LowestLatency"}

ASSUME RouteTableConstants ==
  /\ Metric \subseteq Nat
  /\ Rtt \subseteq Nat
  /\ DEFAULT_RTT \in Nat
  /\ Policies \subseteq LoadBalance
  /\ CountRange \in Nat \ {0}
  /\ MaxAge \in Nat

VARIABLES
  route_table,      \* peer -> [count, list], for the peers that have an entry
  route_key_table,  \* key of a direct route -> the peer that inserted it last
  load_balance      \* the policy, fixed when the table is created

tableVars == <<route_table, route_key_table, load_balance>>

\* What callers pass in: a route without its read time.
Offer == [key : Key, metric : Metric, rtt : Rtt \cup {DEFAULT_RTT}]

\* What the list holds: Route and the Instant next to it, as elapsed time.
Route == [key : Key, metric : Metric, rtt : Rtt \cup {DEFAULT_RTT}, age : Nat]

Entry == [count : 0 .. CountRange - 1, list : Seq(Route)]

\* f is a DashMap from keys in S to values in T.
IsMap(f, S, T) == DOMAIN f \subseteq S /\ f \in [DOMAIN f -> T]

IsDirect(route) == route.metric = 0

-----------------------------------------------------------------------------
(* The order of a peer's list. *)

\* sort_by_key compares rtt alone, or RouteSortKey (metric, then rtt).
SortsBefore(a, b) ==
  IF load_balance = "LowestLatency"
  THEN a.rtt < b.rtt
  ELSE a.metric < b.metric \/ (a.metric = b.metric /\ a.rtt < b.rtt)

\* Position i of the list ends up ahead of position j: the sort is stable.
GoesAhead(list, i, j) ==
  \/ SortsBefore(list[i], list[j])
  \/ ~SortsBefore(list[j], list[i]) /\ i < j

\* The elements of list at the positions in S, in the strict order before.
Arrange(list, S, before) ==
  [n \in 1 .. Cardinality(S) |->
     list[CHOOSE i \in S : Cardinality({j \in S : <<j, i>> \in before}) = n - 1]]

StableSort(list) ==
  LET all == DOMAIN list
  IN  Arrange(list, all, {p \in all \X all : GoesAhead(list, p[1], p[2])})

SwapWithFirst(list, i) == [list EXCEPT ![1] = list[i], ![i] = list[1]]

\* Mutant of Reorder: the sort after an update or a push is forgotten.
ReorderUnsorted(list, i) == list

\* The end of add_route_: position i is the route just updated or pushed.
Reorder(list, i) ==
  IF load_balance = "MostRecent" THEN SwapWithFirst(list, i) ELSE StableSort(list)

-----------------------------------------------------------------------------
(* Operations on one list. *)

\* The positions holding key k, and the first of them.
At(list, k) == {i \in DOMAIN list : list[i].key = k}

FirstAt(list, k) == CHOOSE i \in At(list, k) : \A j \in At(list, k) : i <= j

\* The scan of add_route_ meets a shorter route of the same type before it
\* has passed the offered key.
Outranked(list, offer) ==
  /\ load_balance # "LowestLatency"
  /\ \E i \in DOMAIN list :
       /\ list[i].metric < offer.metric
       /\ IsDirect(list[i]) = IsDirect(offer)
       /\ \A j \in At(list, offer.key) : i <= j

Fresh(offer) ==
  [key |-> offer.key, metric |-> offer.metric, rtt |-> offer.rtt, age |-> 0]

Touch(list, i) == [list EXCEPT ![i].age = 0]

\* Mutant of Overwrite: the sentinel erases a measurement.
OverwriteRtt(list, i, offer) == [list EXCEPT ![i] = Fresh(offer)]

Overwrite(list, i, offer) ==
  [list EXCEPT ![i] =
     [key |-> @.key, metric |-> offer.metric, age |-> 0,
      rtt |-> IF offer.rtt # DEFAULT_RTT THEN offer.rtt ELSE @.rtt]]

\* Mutants of KeepsKnown: each forgets one of the two reasons.
KeepsKnownIfAbsent(route, offer, onlyIfAbsent) == onlyIfAbsent

KeepsKnownDirect(route, offer, onlyIfAbsent) ==
  IsDirect(route) /\ ~IsDirect(offer)

\* The key is known and add_route_ leaves its route as it is: the caller
\* only wanted it present, or the offer would downgrade direct to relay.
KeepsKnown(route, offer, onlyIfAbsent) ==
  onlyIfAbsent \/ (IsDirect(route) /\ ~IsDirect(offer))

\* Mutant of AddToList: the second critical section of add_route_if_absent
\* trusts what the first one saw.
AddToListBlindly(list, offer, onlyIfAbsent) ==
  IF onlyIfAbsent \/ At(list, offer.key) = {}
  THEN Reorder(Append(list, Fresh(offer)), Len(list) + 1)
  ELSE Touch(list, FirstAt(list, offer.key))

\* add_route_ on the list of one peer.
AddToList(list, offer, onlyIfAbsent) ==
  LET i == FirstAt(list, offer.key)
  IN  CASE Outranked(list, offer) -> list
        [] ~Outranked(list, offer) /\ At(list, offer.key) = {} ->
             Reorder(Append(list, Fresh(offer)), Len(list) + 1)
        [] ~Outranked(list, offer) /\ At(list, offer.key) # {} ->
             IF KeepsKnown(list[i], offer, onlyIfAbsent)
             THEN Touch(list, i)
             ELSE Reorder(Overwrite(list, i, offer), i)

-----------------------------------------------------------------------------
(* The table. *)

Has(id) == id \in DOMAIN route_table

ListOf(id) == IF Has(id) THEN route_table[id].list ELSE <<>>

CountOf(id) == IF Has(id) THEN route_table[id].count ELSE 0

\* Insert or replace the entry of id.
WithEntry(id, entry) ==
  [p \in DOMAIN route_table \cup {id} |->
     IF p = id THEN entry ELSE route_table[p]]

WithList(id, list) == WithEntry(id, [count |-> CountOf(id), list |-> list])

Without(f, S) == [x \in DOMAIN f \ S |-> f[x]]

\* The second critical section of add_route_.
AddLocked(id, offer, onlyIfAbsent) ==
  LET list == ListOf(id)
      new  == ~Outranked(list, offer) /\ At(list, offer.key) = {}
  IN  /\ route_table' = WithList(id, AddToList(list, offer, onlyIfAbsent))
      /\ route_key_table' =
           IF new /\ IsDirect(offer)
           THEN [k \in DOMAIN route_key_table \cup {offer.key} |->
                   IF k = offer.key THEN id ELSE route_key_table[k]]
           ELSE route_key_table

AddRoute(id, offer) == AddLocked(id, offer, FALSE) /\ UNCHANGED load_balance

\* add_route_if_absent: the first critical section answers when it finds the
\* key.  When it does not, the second one runs later, on whatever the table
\* has become: every table starts empty, so a caller that saw the key absent
\* may reach it at any moment.
AddIfAbsentFound(id, offer) ==
  /\ At(ListOf(id), offer.key) # {}
  /\ route_table' =
       WithList(id, Touch(ListOf(id), FirstAt(ListOf(id), offer.key)))
  /\ UNCHANGED <<route_key_table, load_balance>>

AddIfAbsentLocked(id, offer) ==
  AddLocked(id, offer, TRUE) /\ UNCHANGED load_balance

UpdateReadTime(id, k) ==
  /\ At(ListOf(id), k) # {}
  /\ route_table' = WithList(id, Touch(ListOf(id), FirstAt(ListOf(id), k)))
  /\ UNCHANGED <<route_key_table, load_balance>>

\* Only LowestLatency re-sorts after a measurement.
UpdateRtt(id, k, rtt) ==
  LET list     == ListOf(id)
      measured == [list EXCEPT ![FirstAt(list, k)].rtt = rtt]
  IN  /\ At(list, k) # {}
      /\ route_table' =
           WithList(id, IF load_balance = "LowestLatency"
                        THEN StableSort(measured) ELSE measured)
      /\ UNCHANGED <<route_key_table, load_balance>>

\* retain() keeps the order of the routes that stay.
Retain(list, k) ==
  LET kept == {i \in DOMAIN list : list[i].key # k}
  IN  Arrange(list, kept, {p \in kept \X kept : p[1] < p[2]})

\* The entries of route_key_table that name id as the owner of a key in S.
Owned(id, S) == {k \in S \cap DOMAIN route_key_table : route_key_table[k] = id}

RemoveLocked(id, k) ==
  LET rest == Retain(ListOf(id), k)
  IN  /\ Has(id)
      /\ route_table' = IF rest = <<>> THEN Without(route_table, {id})
                                       ELSE WithList(id, rest)
      /\ route_key_table' = Without(route_key_table, Owned(id, {k}))

RemoveRoute(id, k) == RemoveLocked(id, k) /\ UNCHANGED load_balance

DirectKeys(list) == {list[i].key : i \in {j \in DOMAIN list : IsDirect(list[j])}}

\* Mutant of RemoveAll: the reverse index is not cleaned.
RemoveAllKeepingIndex(id) ==
  /\ Has(id)
  /\ route_table' = Without(route_table, {id})
  /\ UNCHANGED <<route_key_table, load_balance>>

RemoveAll(id) ==
  /\ Has(id)
  /\ route_table' = Without(route_table, {id})
  /\ route_key_table' =
       Without(route_key_table, Owned(id, DirectKeys(ListOf(id))))
  /\ UNCHANGED load_balance

-----------------------------------------------------------------------------
(* Lookups. *)

DirectAt(list) == {i \in DOMAIN list : IsDirect(list[i])}

\* get_route_by_id as a position of the list: the first direct route, else
\* the first route, else (RoundRobin) the one the counter points at.
Selected(id) ==
  LET list == ListOf(id)
  IN  IF DirectAt(list) # {}
      THEN CHOOSE i \in DirectAt(list) : \A j \in DirectAt(list) : i <= j
      ELSE IF load_balance = "RoundRobin"
           THEN (CountOf(id) % Len(list)) + 1
           ELSE 1

\* Mutant of GetRouteById: the counter is not an unsigned word.
GetRouteByIdNoWrap(id) ==
  /\ load_balance = "RoundRobin"
  /\ Has(id)
  /\ DirectAt(ListOf(id)) = {}
  /\ route_table' =
       WithEntry(id, [count |-> CountOf(id) + 1, list |-> ListOf(id)])
  /\ UNCHANGED <<route_key_table, load_balance>>

\* The one lookup that changes state: RoundRobin over relay routes counts.
GetRouteById(id) ==
  /\ load_balance = "RoundRobin"
  /\ Has(id)
  /\ DirectAt(ListOf(id)) = {}
  /\ route_table' =
       WithEntry(id, [count |-> (CountOf(id) + 1) % CountRange,
                      list  |-> ListOf(id)])
  /\ UNCHANGED <<route_key_table, load_balance>>

\* route_to_id may answer any peer with a direct route over the key.
RouteToId(k) == {id \in DOMAIN route_table : k \in DirectKeys(route_table[id].list)}

-----------------------------------------------------------------------------
\* One unit of time passes: every route has been unread for one unit more.
Older(list) == [i \in DOMAIN list |-> [list[i] EXCEPT !.age = @ + 1]]

Aged == [id \in DOMAIN route_table |->
           [route_table[id] EXCEPT !.list = Older(@)]]

TimeMayPass ==
  \A id \in DOMAIN route_table :
    \A i \in DOMAIN route_table[id].list : route_table[id].list[i].age < MaxAge

Tick ==
  /\ TimeMayPass
  /\ route_table' = Aged
  /\ UNCHANGED <<route_key_table, load_balance>>

TableInit ==
  /\ route_table = <<>>
  /\ route_key_table = <<>>
  /\ load_balance \in Policies

\* What the users of the table may do at any moment.
TableUse ==
  \/ \E id \in Peer, offer \in Offer :
       \/ AddRoute(id, offer)
       \/ AddIfAbsentFound(id, offer)
       \/ AddIfAbsentLocked(id, offer)
  \/ \E id \in Peer, k \in Key :
       \/ UpdateReadTime(id, k)
       \/ \E rtt \in Rtt : UpdateRtt(id, k, rtt)
       \/ RemoveRoute(id, k)
  \/ \E id \in Peer : RemoveAll(id) \/ GetRouteById(id)

Init == TableInit
Next == TableUse \/ Tick
Spec == Init /\ [][Next]_tableVars

-----------------------------------------------------------------------------
(* Properties. *)

HopOrdered == load_balance \in {"MinHopLowestLatency", "RoundRobin"}

\* The state has the shape of RouteTable's two maps (table.rs:74-78).
TypeOK ==
  /\ IsMap(route_table, Peer, Entry)
  /\ IsMap(route_key_table, Key, Peer)
  /\ load_balance \in Policies

\* An entry never stays behind with an empty list: add_route_ inserts one
\* before it knows whether it will accept the route, and remove_route has to
\* take it away with the last route.
NoEmptyEntry == \A id \in DOMAIN route_table : route_table[id].list # <<>>

\* A peer's list never holds two routes with the same key, although
\* add_route_if_absent looks for the key in one critical section and pushes
\* in another.
KeysUnique ==
  \A id \in DOMAIN route_table :
    \A i, j \in DOMAIN route_table[id].list :
      route_table[id].list[i].key = route_table[id].list[j].key => i = j

\* Both: what every reader of a list takes for granted.
ListsWellFormed == NoEmptyEntry /\ KeysUnique

\* The reverse index never goes stale: a key it gives to a peer is the key of
\* a direct route that peer still has, whatever was removed in between.
OwnerHasDirectRoute ==
  \A k \in DOMAIN route_key_table :
    route_key_table[k] \in RouteToId(k)

\* Under the two hop-ordered policies a peer's list is ordered by metric at
\* all times, although update_rtt changes rtts without sorting again.
MetricOrdered ==
  HopOrdered =>
    \A id \in DOMAIN route_table :
      \A i, j \in DOMAIN route_table[id].list :
        i <= j => route_table[id].list[i].metric <= route_table[id].list[j].metric

\* The route the transport reports (route_one, the first of the list) and the
\* route it sends on (get_route_by_id) agree on being direct or relayed under
\* the hop-ordered policies.
ReportMatchesUse ==
  HopOrdered =>
    \A id \in DOMAIN route_table :
      LET list == route_table[id].list
      IN  IsDirect(list[1]) <=> IsDirect(list[Selected(id)])

\* A route that stays in the table never gets worse: a direct one is never
\* turned into a relay (comment at table.rs:422-427), and unless the policy
\* is LowestLatency its hop count never grows, because the scan rejects a
\* longer offer before it looks at the key.
RoutesNeverWorsen ==
  [][\A id \in DOMAIN route_table \cap DOMAIN route_table' :
       \A i \in DOMAIN route_table[id].list :
         LET old == route_table[id].list[i]
         IN  \A j \in At(route_table'[id].list, old.key) :
               LET new == route_table'[id].list[j]
               IN  /\ IsDirect(old) => IsDirect(new)
                   /\ load_balance # "LowestLatency" => new.metric <= old.metric
    ]_tableVars

\* A measured rtt is replaced only by another measurement, never by the
\* sentinel a confirmation carries (comment at table.rs:432-435), as long as
\* no measurement has the sentinel's value.
MeasurementKept ==
  [][DEFAULT_RTT \notin Rtt =>
       \A id \in DOMAIN route_table \cap DOMAIN route_table' :
         \A i \in DOMAIN route_table[id].list :
           \A j \in At(route_table'[id].list, route_table[id].list[i].key) :
             route_table[id].list[i].rtt # DEFAULT_RTT =>
               route_table'[id].list[j].rtt # DEFAULT_RTT]_tableVars

\* add_route_if_absent leaves a known route alone even when the route
\* appeared between its two critical sections: a step that changes the metric
\* or the rtt of a route is none of its steps.
IfAbsentNeverOverwrites ==
  [][\A id \in DOMAIN route_table :
       \A i \in DOMAIN ListOf(id) :
         LET old  == ListOf(id)[i]
             kept == \E j \in DOMAIN ListOf(id)' :
                       /\ ListOf(id)'[j].key = old.key
                       /\ ListOf(id)'[j].metric = old.metric
                       /\ ListOf(id)'[j].rtt = old.rtt
         IN  ~kept => \A offer \in Offer :
                        offer.key = old.key => ~AddIfAbsentLocked(id, offer)
    ]_tableVars
=============================================================================

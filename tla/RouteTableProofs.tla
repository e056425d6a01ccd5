------------------------- MODULE RouteTableProofs -------------------------
(***************************************************************************)
(* Proofs about RouteTable, for every set of peers, keys, metrics and rtts *)
(* and every policy.                                                       *)
(***************************************************************************)
EXTENDS RouteTable, FiniteSetTheorems, TLAPS

-----------------------------------------------------------------------------
(* Arranging the positions of a list. *)

\* A strict total order on the positions in S.
TotalOrder(S, before) ==
  /\ \A i \in S : <<i, i>> \notin before
  /\ \A i, j \in S : i # j => <<i, j>> \in before \/ <<j, i>> \in before
  /\ \A i, j, k \in S :
       <<i, j>> \in before /\ <<j, k>> \in before => <<i, k>> \in before

\* How many positions come before i.
Below(S, before, i) == Cardinality({j \in S : <<j, i>> \in before})

\* A position with more positions before it comes later: the count of
\* Arrange tells positions apart.
LEMMA BelowMonotone ==
  ASSUME NEW S, IsFiniteSet(S), NEW before, TotalOrder(S, before),
         NEW i \in S, NEW j \in S, <<i, j>> \in before
  PROVE  Below(S, before, i) < Below(S, before, j)
  <1> DEFINE Bi == {x \in S : <<x, i>> \in before}
             Bj == {x \in S : <<x, j>> \in before}
  <1>1. Bi \subseteq Bj
    BY DEF TotalOrder
  <1>2. i \in Bj /\ i \notin Bi
    BY DEF TotalOrder
  <1>3. IsFiniteSet(Bj) /\ IsFiniteSet(Bi)
    BY FS_Subset
  <1>4. Cardinality(Bi) <= Cardinality(Bj) /\ Cardinality(Bi) # Cardinality(Bj)
    BY <1>1, <1>2, <1>3, FS_Subset
  <1>5. Cardinality(Bi) \in Nat /\ Cardinality(Bj) \in Nat
    BY <1>3, FS_CardinalityType
  <1> QED
    BY <1>4, <1>5 DEF Below

\* The counts of the positions are 0 .. Cardinality(S) - 1, each taken by
\* exactly one position.
LEMMA BelowBijective ==
  ASSUME NEW S, IsFiniteSet(S), NEW before, TotalOrder(S, before)
  PROVE  /\ \A i \in S : Below(S, before, i) \in 0 .. Cardinality(S) - 1
         /\ \A i, j \in S : Below(S, before, i) = Below(S, before, j) => i = j
         /\ \A n \in 0 .. Cardinality(S) - 1 :
              \E i \in S : Below(S, before, i) = n
  <1> DEFINE c == Cardinality(S)
             f == [i \in S |-> Below(S, before, i)]
  <1>1. c \in Nat
    BY FS_CardinalityType
  <1>2. ASSUME NEW i \in S
        PROVE  Below(S, before, i) \in 0 .. c - 1
    <2> DEFINE B == {x \in S : <<x, i>> \in before}
    <2>1. B \in SUBSET S /\ B # S
      BY DEF TotalOrder
    <2>2. IsFiniteSet(B) /\ Cardinality(B) <= c /\ Cardinality(B) # c
      BY <2>1, FS_Subset
    <2>3. Cardinality(B) \in Nat
      BY <2>2, FS_CardinalityType
    <2> QED
      BY <1>1, <2>2, <2>3 DEF Below
  <1>3. ASSUME NEW i \in S, NEW j \in S,
               Below(S, before, i) = Below(S, before, j)
        PROVE  i = j
    <2>1. CASE <<i, j>> \in before
      BY <1>1, <1>2, <1>3, <2>1, BelowMonotone
    <2>2. CASE <<j, i>> \in before
      BY <1>1, <1>2, <1>3, <2>2, BelowMonotone
    <2> QED
      BY <2>1, <2>2 DEF TotalOrder
  <1>4. f \in Injection(S, 0 .. c - 1)
    BY <1>2, <1>3 DEF Injection, IsInjective
  <1>5. IsFiniteSet(0 .. c - 1) /\ Cardinality(0 .. c - 1) = c
    BY <1>1, FS_Interval, SMTT(30)
  <1>6. f \in Surjection(S, 0 .. c - 1)
    BY <1>4, <1>5, FS_Injection
  <1> QED
    BY <1>2, <1>3, <1>6 DEF Surjection

\* place lists the positions in S in the strict order before.
Lists(place, S, before) ==
  /\ place \in [1 .. Cardinality(S) -> S]
  /\ \A i \in S : \E n \in 1 .. Cardinality(S) : place[n] = i
  /\ \A m, n \in 1 .. Cardinality(S) :
       m < n => <<place[m], place[n]>> \in before

\* Arrange puts out the elements at the positions in S, each once, in order.
LEMMA ArrangeFacts ==
  ASSUME NEW T, NEW list \in Seq(T), NEW S \in SUBSET DOMAIN list,
         NEW before, TotalOrder(S, before)
  PROVE  /\ Arrange(list, S, before) \in Seq(T)
         /\ Len(Arrange(list, S, before)) = Cardinality(S)
         /\ \E place : /\ Lists(place, S, before)
                       /\ \A n \in 1 .. Cardinality(S) :
                            Arrange(list, S, before)[n] = list[place[n]]
  <1> DEFINE c == Cardinality(S)
             place == [n \in 1 .. c |->
                         CHOOSE i \in S : Below(S, before, i) = n - 1]
             out == Arrange(list, S, before)
  <1>1. IsFiniteSet(S)
    <2>1. DOMAIN list = 1 .. Len(list) /\ Len(list) \in Nat
      OBVIOUS
    <2>2. IsFiniteSet(1 .. Len(list))
      BY <2>1, FS_Interval
    <2> QED
      BY <2>1, <2>2, FS_Subset
  <1>2. c \in Nat
    BY <1>1, FS_CardinalityType
  <1>3. ASSUME NEW n \in 1 .. c
        PROVE  place[n] \in S /\ Below(S, before, place[n]) = n - 1
    <2>1. n - 1 \in 0 .. c - 1
      BY <1>2
    <2>2. \E i \in S : Below(S, before, i) = n - 1
      BY <1>1, <2>1, BelowBijective
    <2> QED
      BY <2>2
  <1>4. \A i \in S : \E n \in 1 .. c : place[n] = i
    <2> TAKE i \in S
    <2>1. Below(S, before, i) \in 0 .. c - 1
      BY <1>1, BelowBijective
    <2> DEFINE n == Below(S, before, i) + 1
    <2>2. n \in 1 .. c /\ Below(S, before, i) = n - 1
      BY <1>2, <2>1
    <2> HIDE DEF n
    <2>3. Below(S, before, place[n]) = Below(S, before, i) /\ place[n] \in S
      BY <1>3, <2>2
    <2>4. place[n] = i
      BY <1>1, <2>3, BelowBijective
    <2> QED
      BY <2>2, <2>4
  <1>5. ASSUME NEW m \in 1 .. c, NEW n \in 1 .. c, m < n
        PROVE  <<place[m], place[n]>> \in before
    <2>1. /\ place[m] \in S /\ place[n] \in S
          /\ Below(S, before, place[m]) = m - 1
          /\ Below(S, before, place[n]) = n - 1
      BY <1>3
    <2>2. place[m] # place[n]
      BY <1>5, <2>1
    <2>3. CASE <<place[n], place[m]>> \in before
      <3>1. Below(S, before, place[n]) < Below(S, before, place[m])
        BY <1>1, <2>1, <2>3, BelowMonotone
      <3> QED
        BY <1>5, <2>1, <3>1
    <2> QED
      BY <2>1, <2>2, <2>3 DEF TotalOrder
  <1>6. out = [n \in 1 .. c |-> list[place[n]]]
    BY DEF Arrange, Below
  <1>7. out \in Seq(T) /\ Len(out) = c
    BY <1>2, <1>3, <1>6, SMTT(30)
  <1>8. Lists(place, S, before)
    BY <1>3, <1>4, <1>5 DEF Lists
  <1>9. \A n \in 1 .. c : out[n] = list[place[n]]
    BY <1>6
  <1> HIDE DEF place, out
  <1> QED
    BY <1>7, <1>8, <1>9 DEF out

-----------------------------------------------------------------------------
(* The two uses of Arrange. *)

\* Metric, then rtt, then position: the lexicographic order is transitive.
LEMMA LexTransitive ==
  ASSUME NEW m1 \in Nat, NEW r1 \in Nat, NEW i1 \in Nat,
         NEW m2 \in Nat, NEW r2 \in Nat, NEW i2 \in Nat,
         NEW m3 \in Nat, NEW r3 \in Nat, NEW i3 \in Nat,
         \/ m1 < m2 \/ (m1 = m2 /\ r1 < r2)
         \/ ~(m2 < m1 \/ (m2 = m1 /\ r2 < r1)) /\ i1 < i2,
         \/ m2 < m3 \/ (m2 = m3 /\ r2 < r3)
         \/ ~(m3 < m2 \/ (m3 = m2 /\ r3 < r2)) /\ i2 < i3
  PROVE  \/ m1 < m3 \/ (m1 = m3 /\ r1 < r3)
         \/ ~(m3 < m1 \/ (m3 = m1 /\ r3 < r1)) /\ i1 < i3
  OBVIOUS

\* The order of the stable sort is a strict total order of the positions.
LEMMA AheadIsTotal ==
  ASSUME NEW list \in Seq(Route)
  PROVE  TotalOrder(DOMAIN list,
           {p \in (DOMAIN list) \X (DOMAIN list) : GoesAhead(list, p[1], p[2])})
  <1> DEFINE D == DOMAIN list
  <1>1. D \subseteq Nat
    OBVIOUS
  <1>2. \A i \in D : list[i].metric \in Nat /\ list[i].rtt \in Nat
    <2> TAKE i \in D
    <2>1. list[i] \in Route
      OBVIOUS
    <2> QED
      BY <2>1, RouteTableConstants DEF Route
  <1> HIDE DEF D
  <1>3. ASSUME NEW i \in D, NEW j \in D, NEW k \in D
        PROVE  /\ ~GoesAhead(list, i, i)
               /\ i # j => GoesAhead(list, i, j) \/ GoesAhead(list, j, i)
               /\ GoesAhead(list, i, j) /\ GoesAhead(list, j, k)
                    => GoesAhead(list, i, k)
    <2>1. i \in Nat /\ j \in Nat /\ k \in Nat
      BY <1>1
    <2>2. /\ list[i].metric \in Nat /\ list[i].rtt \in Nat
          /\ list[j].metric \in Nat /\ list[j].rtt \in Nat
          /\ list[k].metric \in Nat /\ list[k].rtt \in Nat
      BY <1>2
    <2>3. CASE load_balance = "LowestLatency"
      <3> DEFINE r(x) == list[x].rtt
                 Ahead(x, y) == r(x) < r(y) \/ (~(r(y) < r(x)) /\ x < y)
      <3>1. \A x, y : GoesAhead(list, x, y) <=> Ahead(x, y)
        BY <2>3 DEF GoesAhead, SortsBefore
      <3>2. r(i) \in Nat /\ r(j) \in Nat /\ r(k) \in Nat
        BY <2>2
      <3> HIDE DEF r
      <3>3. ~Ahead(i, i) /\ (i # j => Ahead(i, j) \/ Ahead(j, i))
        BY <2>1, <3>2
      <3>4. Ahead(i, j) /\ Ahead(j, k) => Ahead(i, k)
        BY <2>1, <3>2
      <3> QED
        BY <3>1, <3>3, <3>4
    <2>4. CASE load_balance # "LowestLatency"
      <3>1. ~GoesAhead(list, i, i)
        BY <2>1, <2>2, <2>4 DEF GoesAhead, SortsBefore
      <3>2. i # j => GoesAhead(list, i, j) \/ GoesAhead(list, j, i)
        BY <2>1, <2>2, <2>4 DEF GoesAhead, SortsBefore
      <3>3. GoesAhead(list, i, j) /\ GoesAhead(list, j, k)
              => GoesAhead(list, i, k)
        <4> DEFINE m(x) == list[x].metric
                   r(x) == list[x].rtt
                   Lex(x, y) == \/ m(x) < m(y) \/ (m(x) = m(y) /\ r(x) < r(y))
                                \/ /\ ~(m(y) < m(x) \/ (m(y) = m(x) /\ r(y) < r(x)))
                                   /\ x < y
        <4>1. \A x, y : GoesAhead(list, x, y) <=> Lex(x, y)
          BY <2>4 DEF GoesAhead, SortsBefore
        <4>2. m(i) \in Nat /\ r(i) \in Nat /\ m(j) \in Nat /\ r(j) \in Nat
                /\ m(k) \in Nat /\ r(k) \in Nat
          BY <2>2
        <4> HIDE DEF m, r
        <4>3. Lex(i, j) /\ Lex(j, k) => Lex(i, k)
          BY <2>1, <4>2, LexTransitive
        <4> QED
          BY <4>1, <4>3
      <3> QED
        BY <3>1, <3>2, <3>3
    <2> QED
      BY <2>3, <2>4
  <1> QED
    BY <1>3 DEF TotalOrder, D

\* sort_by_key permutes the list and leaves no pair in the wrong order.
LEMMA StableSortFacts ==
  ASSUME NEW list \in Seq(Route)
  PROVE  /\ StableSort(list) \in Seq(Route)
         /\ Len(StableSort(list)) = Len(list)
         /\ \E place \in [1 .. Len(list) -> 1 .. Len(list)] :
              /\ \A i \in 1 .. Len(list) : \E n \in 1 .. Len(list) : place[n] = i
              /\ \A n \in 1 .. Len(list) : StableSort(list)[n] = list[place[n]]
              /\ \A m, n \in 1 .. Len(list) :
                   m < n => place[m] # place[n] /\ GoesAhead(list, place[m], place[n])
  <1> DEFINE D == DOMAIN list
             before == {p \in D \X D : GoesAhead(list, p[1], p[2])}
  <1>1. TotalOrder(D, before)
    BY AheadIsTotal
  <1>2. D = 1 .. Len(list) /\ Len(list) \in Nat
    OBVIOUS
  <1>3. Cardinality(D) = Len(list)
    <2> HIDE DEF D
    <2>1. 1 \in Int /\ Len(list) \in Int
      BY <1>2
    <2>2. Cardinality(1 .. Len(list)) = IF 1 > Len(list) THEN 0 ELSE Len(list) - 1 + 1
      BY ONLY <2>1, FS_Interval
    <2> QED
      BY <1>2, <2>2
  <1>4. StableSort(list) = Arrange(list, D, before)
    BY DEF StableSort
  <1>5. PICK place : /\ Lists(place, D, before)
                     /\ \A n \in 1 .. Cardinality(D) :
                          Arrange(list, D, before)[n] = list[place[n]]
    <2> HIDE DEF before
    <2> QED
      BY <1>1, ArrangeFacts
  <1>6. /\ Arrange(list, D, before) \in Seq(Route)
        /\ Len(Arrange(list, D, before)) = Cardinality(D)
    BY <1>1, ArrangeFacts
  <1>7. \A m, n \in 1 .. Len(list) :
          m < n => place[m] # place[n] /\ GoesAhead(list, place[m], place[n])
    <2> SUFFICES ASSUME NEW m \in 1 .. Len(list), NEW n \in 1 .. Len(list), m < n
                 PROVE  place[m] # place[n] /\ GoesAhead(list, place[m], place[n])
      OBVIOUS
    <2>1. <<place[m], place[n]>> \in before /\ place[m] \in D /\ place[n] \in D
      BY <1>3, <1>5 DEF Lists
    <2>2. place[m] # place[n]
      BY <1>1, <2>1 DEF TotalOrder
    <2> QED
      BY <2>1, <2>2
  <1>8. /\ place \in [1 .. Len(list) -> 1 .. Len(list)]
        /\ \A i \in 1 .. Len(list) : \E n \in 1 .. Len(list) : place[n] = i
    BY <1>2, <1>3, <1>5 DEF Lists
  <1>9. \A n \in 1 .. Len(list) : StableSort(list)[n] = list[place[n]]
    BY <1>3, <1>4, <1>5
  <1> QED
    BY <1>3, <1>4, <1>6, <1>7, <1>8, <1>9

-----------------------------------------------------------------------------
(* What the operations on one list keep. *)

UniqueKeys(list) ==
  \A i, j \in DOMAIN list : list[i].key = list[j].key => i = j

ByMetric(list) ==
  \A i, j \in DOMAIN list : i <= j => list[i].metric <= list[j].metric

\* b holds the routes of a in another order.
SameRoutes(a, b) ==
  /\ b \in Seq(Route)
  /\ Len(b) = Len(a)
  /\ \E place \in [1 .. Len(a) -> 1 .. Len(a)] :
       /\ \A i \in 1 .. Len(a) : \E n \in 1 .. Len(a) : place[n] = i
       /\ \A m, n \in 1 .. Len(a) : place[m] = place[n] => m = n
       /\ \A n \in 1 .. Len(a) : b[n] = a[place[n]]

\* Every direct route of a is in b and direct there.
KeepsDirect(a, b) ==
  \A i \in DOMAIN a :
    IsDirect(a[i]) => \E j \in DOMAIN b : b[j].key = a[i].key /\ IsDirect(b[j])

\* A route that is in a and in b is no worse in b.
NoWorse(a, b) ==
  \A i \in DOMAIN a : \A j \in DOMAIN b :
    a[i].key = b[j].key =>
      /\ IsDirect(a[i]) => IsDirect(b[j])
      /\ load_balance # "LowestLatency" => b[j].metric <= a[i].metric
      /\ DEFAULT_RTT \notin Rtt /\ a[i].rtt # DEFAULT_RTT => b[j].rtt # DEFAULT_RTT

\* The fields of a route.
LEMMA RouteFields ==
  ASSUME NEW list \in Seq(Route), NEW i \in DOMAIN list
  PROVE  /\ list[i] \in Route
         /\ list[i].key \in Key
         /\ list[i].metric \in Metric /\ list[i].metric \in Nat
         /\ list[i].rtt \in Rtt \cup {DEFAULT_RTT} /\ list[i].rtt \in Nat
         /\ list[i].age \in Nat
         /\ i \in Nat
  <1>1. list[i] \in Route /\ i \in Nat
    OBVIOUS
  <1> QED
    BY <1>1, RouteTableConstants DEF Route

\* Reordering loses and duplicates no route.
LEMMA SameRoutesKeep ==
  ASSUME NEW a \in Seq(Route), NEW b, SameRoutes(a, b)
  PROVE  /\ b \in Seq(Route)
         /\ \A i \in DOMAIN a : \E j \in DOMAIN b : b[j] = a[i]
         /\ \A j \in DOMAIN b : \E i \in DOMAIN a : b[j] = a[i]
         /\ UniqueKeys(a) => UniqueKeys(b)
         /\ a # <<>> => b # <<>>
  <1>1. b \in Seq(Route) /\ Len(b) = Len(a) /\ Len(a) \in Nat
    BY DEF SameRoutes
  <1>2. DOMAIN a = 1 .. Len(a) /\ DOMAIN b = 1 .. Len(a)
    BY <1>1
  <1>3. PICK place \in [1 .. Len(a) -> 1 .. Len(a)] :
          /\ \A i \in 1 .. Len(a) : \E n \in 1 .. Len(a) : place[n] = i
          /\ \A m, n \in 1 .. Len(a) : place[m] = place[n] => m = n
          /\ \A n \in 1 .. Len(a) : b[n] = a[place[n]]
    BY DEF SameRoutes
  <1>4. \A i \in DOMAIN a : \E j \in DOMAIN b : b[j] = a[i]
    BY <1>2, <1>3
  <1>5. \A j \in DOMAIN b : \E i \in DOMAIN a : b[j] = a[i]
    BY <1>2, <1>3
  <1>6. UniqueKeys(a) => UniqueKeys(b)
    <2> SUFFICES ASSUME UniqueKeys(a), NEW m \in 1 .. Len(a), NEW n \in 1 .. Len(a),
                        b[m].key = b[n].key
                 PROVE  m = n
      BY <1>2 DEF UniqueKeys
    <2>1. a[place[m]].key = a[place[n]].key
      BY <1>3
    <2>2. place[m] = place[n]
      BY <1>2, <1>3, <2>1 DEF UniqueKeys
    <2> QED
      BY <1>3, <2>2
  <1>7. a # <<>> => b # <<>>
    BY <1>1
  <1> QED
    BY <1>1, <1>4, <1>5, <1>6, <1>7

\* sort_by_key is a reordering, and by metric when the sort key is one.
LEMMA SortReorders ==
  ASSUME NEW list \in Seq(Route)
  PROVE  /\ SameRoutes(list, StableSort(list))
         /\ HopOrdered => ByMetric(StableSort(list))
  <1> DEFINE out == StableSort(list)
  <1>1. out \in Seq(Route) /\ Len(out) = Len(list) /\ Len(list) \in Nat
    BY StableSortFacts
  <1>2. PICK place \in [1 .. Len(list) -> 1 .. Len(list)] :
          /\ \A i \in 1 .. Len(list) : \E n \in 1 .. Len(list) : place[n] = i
          /\ \A n \in 1 .. Len(list) : out[n] = list[place[n]]
          /\ \A m, n \in 1 .. Len(list) :
               m < n => place[m] # place[n] /\ GoesAhead(list, place[m], place[n])
    BY StableSortFacts
  <1> HIDE DEF out
  <1>3. \A m, n \in 1 .. Len(list) : place[m] = place[n] => m = n
    BY <1>1, <1>2
  <1>4. SameRoutes(list, out)
    BY <1>1, <1>2, <1>3 DEF SameRoutes
  <1>5. ASSUME HopOrdered, NEW m \in DOMAIN out, NEW n \in DOMAIN out, m <= n
        PROVE  out[m].metric <= out[n].metric
    <2>1. m \in 1 .. Len(list) /\ n \in 1 .. Len(list) /\ DOMAIN list = 1 .. Len(list)
      BY <1>1
    <2>2. /\ place[m] \in DOMAIN list /\ place[n] \in DOMAIN list
          /\ out[m] = list[place[m]] /\ out[n] = list[place[n]]
      BY <1>2, <2>1
    <2>3. /\ list[place[m]].metric \in Nat /\ list[place[n]].metric \in Nat
      BY <2>2, RouteFields
    <2>4. CASE m = n
      BY <2>2, <2>3, <2>4
    <2>5. CASE m < n
      <3>1. GoesAhead(list, place[m], place[n])
        BY <1>2, <2>1, <2>5
      <3>2. load_balance # "LowestLatency"
        BY <1>5 DEF HopOrdered
      <3>3. ~(list[place[n]].metric < list[place[m]].metric)
        BY <2>3, <3>1, <3>2 DEF GoesAhead, SortsBefore
      <3> QED
        BY <2>2, <2>3, <3>3
    <2> QED
      BY <1>5, <2>1, <2>4, <2>5
  <1> QED
    BY <1>4, <1>5 DEF ByMetric, out

\* So is the end of add_route_, under every policy.
LEMMA ReorderReorders ==
  ASSUME NEW list \in Seq(Route), NEW i \in DOMAIN list
  PROVE  /\ SameRoutes(list, Reorder(list, i))
         /\ HopOrdered => ByMetric(Reorder(list, i))
  <1>1. CASE load_balance # "MostRecent"
    BY <1>1, SortReorders DEF Reorder
  <1>2. CASE load_balance = "MostRecent"
    <2> DEFINE out == SwapWithFirst(list, i)
               place == [n \in 1 .. Len(list) |->
                           IF n = 1 THEN i ELSE IF n = i THEN 1 ELSE n]
    <2>1. DOMAIN list = 1 .. Len(list) /\ Len(list) \in Nat /\ 1 \in DOMAIN list
      OBVIOUS
    <2>2. out \in Seq(Route) /\ Len(out) = Len(list)
      BY <2>1 DEF SwapWithFirst
    <2>3. place \in [1 .. Len(list) -> 1 .. Len(list)]
      BY <2>1
    <2>4. \A n \in 1 .. Len(list) : out[n] = list[place[n]]
      BY <2>1 DEF SwapWithFirst
    <2>5. \A n \in 1 .. Len(list) : place[place[n]] = n
      BY <2>1
    <2> HIDE DEF place, out
    <2>6. SameRoutes(list, out)
      <3>1. \A x \in 1 .. Len(list) : \E n \in 1 .. Len(list) : place[n] = x
        BY <2>3, <2>5
      <3>2. \A m, n \in 1 .. Len(list) : place[m] = place[n] => m = n
        BY <2>3, <2>5
      <3> QED
        BY <2>2, <2>3, <2>4, <3>1, <3>2 DEF SameRoutes
    <2>7. ~HopOrdered
      BY <1>2 DEF HopOrdered
    <2> QED
      BY <1>2, <2>6, <2>7 DEF Reorder, out
  <1> QED
    BY <1>1, <1>2

\* With unique keys FirstAt finds the position of a key that is there.
LEMMA FirstAtFacts ==
  ASSUME NEW list \in Seq(Route), UniqueKeys(list), NEW k, At(list, k) # {}
  PROVE  /\ FirstAt(list, k) \in DOMAIN list
         /\ list[FirstAt(list, k)].key = k
         /\ \A j \in At(list, k) : j = FirstAt(list, k)
  <1>1. PICK i \in At(list, k) : TRUE
    OBVIOUS
  <1>2. \A j \in At(list, k) : j = i
    BY <1>1 DEF At, UniqueKeys
  <1>3. i \in Nat
    BY <1>1 DEF At
  <1>4. \A j \in At(list, k) : i <= j
    BY <1>2, <1>3
  <1>5. FirstAt(list, k) \in At(list, k)
    BY <1>1, <1>4 DEF FirstAt
  <1> QED
    BY <1>2, <1>5 DEF At

\* A reordering of a list that is no worse is no worse.
LEMMA NoWorseReordered ==
  ASSUME NEW a \in Seq(Route), NEW b \in Seq(Route), NEW c,
         SameRoutes(b, c), NoWorse(a, b), KeepsDirect(a, b)
  PROVE  NoWorse(a, c) /\ KeepsDirect(a, c)
  <1>1. \A j \in DOMAIN c : \E i \in DOMAIN b : c[j] = b[i]
    BY SameRoutesKeep
  <1>2. \A i \in DOMAIN b : \E j \in DOMAIN c : c[j] = b[i]
    BY SameRoutesKeep
  <1>3. NoWorse(a, c)
    <2> SUFFICES ASSUME NEW i \in DOMAIN a, NEW j \in DOMAIN c, a[i].key = c[j].key
                 PROVE  /\ IsDirect(a[i]) => IsDirect(c[j])
                        /\ load_balance # "LowestLatency" =>
                             c[j].metric <= a[i].metric
                        /\ DEFAULT_RTT \notin Rtt /\ a[i].rtt # DEFAULT_RTT =>
                             c[j].rtt # DEFAULT_RTT
      BY DEF NoWorse
    <2>1. PICK n \in DOMAIN b : c[j] = b[n]
      BY <1>1
    <2> QED
      BY <2>1 DEF NoWorse
  <1>4. KeepsDirect(a, c)
    <2> SUFFICES ASSUME NEW i \in DOMAIN a, IsDirect(a[i])
                 PROVE  \E j \in DOMAIN c : c[j].key = a[i].key /\ IsDirect(c[j])
      BY DEF KeepsDirect
    <2>1. PICK n \in DOMAIN b : b[n].key = a[i].key /\ IsDirect(b[n])
      BY DEF KeepsDirect
    <2>2. PICK j \in DOMAIN c : c[j] = b[n]
      BY <1>2
    <2> QED
      BY <2>1, <2>2
  <1> QED
    BY <1>3, <1>4

\* A list without duplicates is no worse than itself.
LEMMA SelfNoWorse ==
  ASSUME NEW list \in Seq(Route), UniqueKeys(list)
  PROVE  NoWorse(list, list) /\ KeepsDirect(list, list)
  <1>1. NoWorse(list, list)
    BY RouteFields DEF NoWorse, UniqueKeys
  <1> QED
    BY <1>1 DEF KeepsDirect

\* Replacing the route at one position by one with the same key.
LEMMA ReplaceFacts ==
  ASSUME NEW list \in Seq(Route), UniqueKeys(list), NEW i \in DOMAIN list,
         NEW route \in Route, route.key = list[i].key,
         IsDirect(list[i]) => IsDirect(route),
         load_balance # "LowestLatency" => route.metric <= list[i].metric,
         DEFAULT_RTT \notin Rtt /\ list[i].rtt # DEFAULT_RTT =>
           route.rtt # DEFAULT_RTT
  PROVE  LET out == [list EXCEPT ![i] = route]
         IN  /\ out \in Seq(Route)
             /\ Len(out) = Len(list)
             /\ out # <<>>
             /\ UniqueKeys(out)
             /\ NoWorse(list, out)
             /\ KeepsDirect(list, out)
             /\ route.metric = list[i].metric /\ ByMetric(list) => ByMetric(out)
  <1> DEFINE out == [list EXCEPT ![i] = route]
  <1>1. /\ out \in Seq(Route) /\ Len(out) = Len(list)
        /\ DOMAIN out = DOMAIN list /\ out # <<>>
    OBVIOUS
  <1>2. \A j \in DOMAIN list : out[j].key = list[j].key
    OBVIOUS
  <1>3. \A j \in DOMAIN list : j # i => out[j] = list[j]
    OBVIOUS
  <1>4. out[i] = route
    OBVIOUS
  <1>5. \A j \in DOMAIN list : list[j].metric \in Nat /\ list[j].metric <= list[j].metric
    BY RouteFields
  <1> HIDE DEF out
  <1>6. UniqueKeys(out)
    BY <1>1, <1>2 DEF UniqueKeys
  <1>7. NoWorse(list, out)
    <2> SUFFICES ASSUME NEW m \in DOMAIN list, NEW n \in DOMAIN out,
                        list[m].key = out[n].key
                 PROVE  /\ IsDirect(list[m]) => IsDirect(out[n])
                        /\ load_balance # "LowestLatency" =>
                             out[n].metric <= list[m].metric
                        /\ DEFAULT_RTT \notin Rtt /\ list[m].rtt # DEFAULT_RTT =>
                             out[n].rtt # DEFAULT_RTT
      BY DEF NoWorse
    <2>1. m = n
      BY <1>1, <1>2 DEF UniqueKeys
    <2>2. CASE n = i
      BY <1>4, <2>1, <2>2
    <2>3. CASE n # i
      BY <1>1, <1>3, <1>5, <2>1, <2>3
    <2> QED
      BY <2>2, <2>3
  <1>8. KeepsDirect(list, out)
    <2> SUFFICES ASSUME NEW m \in DOMAIN list, IsDirect(list[m])
                 PROVE  out[m].key = list[m].key /\ IsDirect(out[m])
      BY <1>1 DEF KeepsDirect
    <2>1. CASE m = i
      BY <1>2, <1>4, <2>1
    <2>2. CASE m # i
      BY <1>3, <2>2
    <2> QED
      BY <2>1, <2>2
  <1>9. route.metric = list[i].metric /\ ByMetric(list) => ByMetric(out)
    BY <1>1, <1>3, <1>4 DEF ByMetric
  <1> QED
    BY <1>1, <1>6, <1>7, <1>8, <1>9 DEF out

\* What add_route_ does to the list of a peer.
AddedWell(list, offer, out) ==
  /\ out \in Seq(Route)
  /\ out # <<>>
  /\ UniqueKeys(out)
  /\ HopOrdered => ByMetric(out)
  /\ NoWorse(list, out)
  /\ KeepsDirect(list, out)
  /\ ~Outranked(list, offer) /\ At(list, offer.key) = {} /\ IsDirect(offer) =>
       \E j \in DOMAIN out : out[j].key = offer.key /\ IsDirect(out[j])

\* A pushed route.
LEMMA PushFacts ==
  ASSUME NEW list \in Seq(Route), UniqueKeys(list), NEW offer \in Offer,
         At(list, offer.key) = {}
  PROVE  AddedWell(list, offer, Reorder(Append(list, Fresh(offer)), Len(list) + 1))
  <1> DEFINE b == Append(list, Fresh(offer))
             last == Len(list) + 1
             out == Reorder(b, last)
  <1>1. Fresh(offer) \in Route
    BY DEF Fresh, Offer, Route
  <1>2. /\ b \in Seq(Route) /\ last \in DOMAIN b
        /\ DOMAIN list = 1 .. Len(list) /\ Len(list) \in Nat
        /\ DOMAIN b = 1 .. last
        /\ b[last] = Fresh(offer)
        /\ \A j \in DOMAIN list : b[j] = list[j]
    BY <1>1
  <1>3. Fresh(offer).key = offer.key /\ (IsDirect(offer) => IsDirect(Fresh(offer)))
    BY DEF Fresh, IsDirect
  <1> HIDE DEF b
  <1>4. \A j \in DOMAIN b : j = last \/ j \in DOMAIN list
    BY <1>2
  <1>5. \A j \in DOMAIN list : list[j].key # offer.key
    BY DEF At
  <1>6. UniqueKeys(b)
    BY <1>2, <1>3, <1>4, <1>5 DEF UniqueKeys
  <1>7. NoWorse(list, b)
    <2> SUFFICES ASSUME NEW i \in DOMAIN list, NEW j \in DOMAIN b, list[i].key = b[j].key
                 PROVE  b[j] = list[i] /\ list[i].metric <= list[i].metric
      BY DEF NoWorse
    <2>1. j \in DOMAIN list
      BY <1>2, <1>3, <1>4, <1>5
    <2>2. i = j
      BY <1>2, <2>1 DEF UniqueKeys
    <2> QED
      BY <1>2, <2>1, <2>2, RouteFields
  <1>8. KeepsDirect(list, b)
    <2> SUFFICES ASSUME NEW i \in DOMAIN list, IsDirect(list[i])
                 PROVE  i \in DOMAIN b /\ b[i].key = list[i].key /\ IsDirect(b[i])
      BY DEF KeepsDirect
    <2> QED
      BY <1>2
  <1>9. SameRoutes(b, out) /\ (HopOrdered => ByMetric(out))
    BY <1>2, ReorderReorders
  <1> HIDE DEF out, last
  <1>10. /\ out \in Seq(Route) /\ (b # <<>> => out # <<>>) /\ UniqueKeys(out)
         /\ \A i \in DOMAIN b : \E j \in DOMAIN out : out[j] = b[i]
    <2>1. b \in Seq(Route) /\ SameRoutes(b, out)
      BY <1>2, <1>9
    <2> QED
      BY <1>6, <2>1, SameRoutesKeep
  <1>11. NoWorse(list, out) /\ KeepsDirect(list, out)
    BY <1>2, <1>7, <1>8, <1>9, NoWorseReordered
  <1>12. out # <<>>
    BY <1>2, <1>10
  <1>13. IsDirect(offer) => \E j \in DOMAIN out : out[j].key = offer.key /\ IsDirect(out[j])
    BY <1>2, <1>3, <1>10
  <1> QED
    BY <1>9, <1>10, <1>11, <1>12, <1>13 DEF AddedWell, out, b, last

\* A known route that add_route_ leaves as it is, its read time apart.
LEMMA TouchFacts ==
  ASSUME NEW list \in Seq(Route), UniqueKeys(list), NEW i \in DOMAIN list
  PROVE  LET out == Touch(list, i)
         IN  /\ out \in Seq(Route)
             /\ out # <<>>
             /\ UniqueKeys(out)
             /\ NoWorse(list, out)
             /\ KeepsDirect(list, out)
             /\ ByMetric(list) => ByMetric(out)
  <1> DEFINE route == [list[i] EXCEPT !.age = 0]
  <1>1. list[i] \in Route /\ list[i].metric \in Nat
    BY RouteFields
  <1>2. /\ route \in Route /\ route.key = list[i].key
        /\ route.metric = list[i].metric /\ route.rtt = list[i].rtt
    BY <1>1 DEF Route
  <1>3. Touch(list, i) = [list EXCEPT ![i] = route]
    BY DEF Touch
  <1> HIDE DEF route
  <1>4. IsDirect(list[i]) => IsDirect(route)
    BY <1>2 DEF IsDirect
  <1>5. route.metric <= list[i].metric
    BY <1>1, <1>2
  <1> QED
    BY <1>2, <1>3, <1>4, <1>5, ReplaceFacts

\* A known route that takes the metric and the measurement of the offer.
LEMMA OverwriteFacts ==
  ASSUME NEW list \in Seq(Route), UniqueKeys(list), NEW offer \in Offer,
         NEW i \in DOMAIN list, list[i].key = offer.key,
         ~Outranked(list, offer), ~(IsDirect(list[i]) /\ ~IsDirect(offer))
  PROVE  AddedWell(list, offer, Reorder(Overwrite(list, i, offer), i))
  <1> DEFINE route == [key |-> list[i].key, metric |-> offer.metric, age |-> 0,
                       rtt |-> IF offer.rtt # DEFAULT_RTT THEN offer.rtt
                                                          ELSE list[i].rtt]
             b == Overwrite(list, i, offer)
             out == Reorder(b, i)
  <1>1. /\ list[i] \in Route /\ list[i].metric \in Nat /\ i \in Nat
        /\ list[i].key \in Key /\ list[i].rtt \in Rtt \cup {DEFAULT_RTT}
    BY RouteFields
  <1>2. /\ offer.metric \in Metric /\ offer.metric \in Nat
        /\ offer.rtt \in Rtt \cup {DEFAULT_RTT}
    BY RouteTableConstants DEF Offer
  <1>3. route \in Route
    BY <1>1, <1>2 DEF Route
  <1>4. /\ route.key = list[i].key /\ route.metric = offer.metric
        /\ list[i].rtt # DEFAULT_RTT => route.rtt # DEFAULT_RTT
    OBVIOUS
  <1>5. b = [list EXCEPT ![i] = route]
    BY DEF Overwrite
  <1> HIDE DEF route, b
  <1>6. IsDirect(list[i]) => IsDirect(route)
    BY <1>4 DEF IsDirect
  <1>7. load_balance # "LowestLatency" => route.metric <= list[i].metric
    <2> SUFFICES ASSUME load_balance # "LowestLatency",
                        ~(offer.metric <= list[i].metric)
                 PROVE  FALSE
      BY <1>4
    <2>1. list[i].metric < offer.metric
      BY <1>1, <1>2
    <2>2. IsDirect(list[i]) = IsDirect(offer)
      BY <1>1, <1>2, <2>1 DEF IsDirect
    <2>3. \A j \in At(list, offer.key) : i <= j
      BY <1>1 DEF At, UniqueKeys
    <2> QED
      BY <2>1, <2>2, <2>3 DEF Outranked
  <1>8. /\ b \in Seq(Route) /\ Len(b) = Len(list) /\ b # <<>> /\ UniqueKeys(b)
        /\ NoWorse(list, b) /\ KeepsDirect(list, b)
    <2>1. DEFAULT_RTT \notin Rtt /\ list[i].rtt # DEFAULT_RTT => route.rtt # DEFAULT_RTT
      BY <1>4
    <2>2. route.key = list[i].key
      BY <1>4
    <2> QED
      BY <1>3, <1>5, <1>6, <1>7, <2>1, <2>2, ReplaceFacts
  <1>9. i \in DOMAIN b
    BY <1>8
  <1>10. SameRoutes(b, out) /\ (HopOrdered => ByMetric(out))
    BY <1>8, <1>9, ReorderReorders
  <1> HIDE DEF out
  <1>11. out \in Seq(Route) /\ out # <<>> /\ UniqueKeys(out)
    BY <1>8, <1>10, SameRoutesKeep
  <1>12. NoWorse(list, out) /\ KeepsDirect(list, out)
    BY <1>8, <1>10, NoWorseReordered
  <1>13. At(list, offer.key) # {}
    BY DEF At
  <1> QED
    BY <1>10, <1>11, <1>12, <1>13 DEF AddedWell, out, b

\* add_route_ keeps a list without duplicates, in order, and no worse.
LEMMA AddToListFacts ==
  ASSUME NEW list \in Seq(Route), UniqueKeys(list), HopOrdered => ByMetric(list),
         NEW offer \in Offer, NEW onlyIfAbsent \in BOOLEAN
  PROVE  AddedWell(list, offer, AddToList(list, offer, onlyIfAbsent))
  <1> DEFINE i == FirstAt(list, offer.key)
  <1>1. CASE Outranked(list, offer)
    <2>1. AddToList(list, offer, onlyIfAbsent) = list
      BY <1>1 DEF AddToList
    <2>2. list # <<>>
      BY <1>1 DEF Outranked
    <2>3. NoWorse(list, list) /\ KeepsDirect(list, list)
      BY SelfNoWorse
    <2> QED
      BY <1>1, <2>1, <2>2, <2>3 DEF AddedWell
  <1>2. CASE ~Outranked(list, offer) /\ At(list, offer.key) = {}
    <2>1. AddToList(list, offer, onlyIfAbsent) =
            Reorder(Append(list, Fresh(offer)), Len(list) + 1)
      BY <1>2 DEF AddToList
    <2> QED
      BY <1>2, <2>1, PushFacts
  <1>3. CASE ~Outranked(list, offer) /\ At(list, offer.key) # {}
    <2>1. i \in DOMAIN list /\ list[i].key = offer.key
      BY <1>3, FirstAtFacts
    <2> HIDE DEF i
    <2>2. AddToList(list, offer, onlyIfAbsent) =
            IF KeepsKnown(list[i], offer, onlyIfAbsent)
            THEN Touch(list, i) ELSE Reorder(Overwrite(list, i, offer), i)
      BY <1>3 DEF AddToList, i
    <2>3. CASE KeepsKnown(list[i], offer, onlyIfAbsent)
      BY <1>3, <2>1, <2>2, <2>3, TouchFacts DEF AddedWell
    <2>4. CASE ~KeepsKnown(list[i], offer, onlyIfAbsent)
      <3>1. ~(IsDirect(list[i]) /\ ~IsDirect(offer))
        BY <2>4 DEF KeepsKnown
      <3> QED
        BY <1>3, <2>1, <2>2, <2>4, <3>1, OverwriteFacts
    <2> QED
      BY <2>3, <2>4
  <1> QED
    BY <1>1, <1>2, <1>3

\* retain() keeps the routes with another key, in order, as they are.
LEMMA RetainFacts ==
  ASSUME NEW list \in Seq(Route), UniqueKeys(list), NEW k
  PROVE  LET out == Retain(list, k)
         IN  /\ out \in Seq(Route)
             /\ UniqueKeys(out)
             /\ ByMetric(list) => ByMetric(out)
             /\ NoWorse(list, out)
             /\ \A i \in DOMAIN list :
                  list[i].key # k => \E j \in DOMAIN out : out[j] = list[i]
             /\ \A j \in DOMAIN out : \E i \in DOMAIN list : out[j] = list[i]
  <1> DEFINE kept == {i \in DOMAIN list : list[i].key # k}
             before == {p \in kept \X kept : p[1] < p[2]}
             c == Cardinality(kept)
             out == Retain(list, k)
  <1>1. kept \in SUBSET DOMAIN list /\ \A i \in kept : i \in Nat
    OBVIOUS
  <1>2. \A i, j \in kept : <<i, j>> \in before <=> i < j
    OBVIOUS
  <1>3. out = Arrange(list, kept, before)
    BY DEF Retain
  <1>4. \A i \in DOMAIN list : list[i].key # k => i \in kept
    OBVIOUS
  <1> HIDE DEF kept, before, out
  <1>5. TotalOrder(kept, before)
    <2>1. \A i, j, l \in kept :
            <<i, j>> \in before /\ <<j, l>> \in before => <<i, l>> \in before
      BY <1>1, <1>2
    <2>2. \A i, j \in kept : i # j => <<i, j>> \in before \/ <<j, i>> \in before
      BY <1>1, <1>2
    <2>3. \A i \in kept : <<i, i>> \notin before
      BY <1>1, <1>2
    <2> QED
      BY <2>1, <2>2, <2>3 DEF TotalOrder
  <1>6. /\ out \in Seq(Route) /\ Len(out) = c
        /\ \E place : /\ Lists(place, kept, before)
                      /\ \A n \in 1 .. c : out[n] = list[place[n]]
    <2>1. kept \in SUBSET DOMAIN list
      BY <1>1
    <2> QED
      BY <1>3, <1>5, <2>1, ArrangeFacts
  <1>7. PICK place : /\ Lists(place, kept, before)
                     /\ \A n \in 1 .. c : out[n] = list[place[n]]
    BY <1>6
  <1>8. DOMAIN out = 1 .. c /\ c \in Nat
    BY <1>6
  <1> HIDE DEF c
  <1>9. /\ \A n \in DOMAIN out : place[n] \in kept /\ place[n] \in DOMAIN list
        /\ \A n \in DOMAIN out : out[n] = list[place[n]]
        /\ \A i \in kept : \E n \in DOMAIN out : place[n] = i
        /\ \A m, n \in DOMAIN out : m < n => place[m] < place[n]
    BY <1>1, <1>2, <1>7, <1>8 DEF Lists, c
  <1>10. UniqueKeys(out)
    <2> SUFFICES ASSUME NEW m \in DOMAIN out, NEW n \in DOMAIN out,
                        out[m].key = out[n].key
                 PROVE  m = n
      BY DEF UniqueKeys
    <2>1. place[m] = place[n]
      BY <1>9 DEF UniqueKeys
    <2>2. place[m] \in Nat /\ place[n] \in Nat /\ m \in Nat /\ n \in Nat
      BY <1>1, <1>8, <1>9
    <2> QED
      BY <1>9, <2>1, <2>2
  <1>11. ByMetric(list) => ByMetric(out)
    <2> SUFFICES ASSUME ByMetric(list), NEW m \in DOMAIN out, NEW n \in DOMAIN out, m <= n
                 PROVE  out[m].metric <= out[n].metric
      BY DEF ByMetric
    <2>1. place[m] \in Nat /\ place[n] \in Nat /\ m \in Nat /\ n \in Nat
      BY <1>1, <1>8, <1>9
    <2>2. place[m] <= place[n]
      BY <1>9, <2>1
    <2> QED
      BY <1>9, <2>2 DEF ByMetric
  <1>12. NoWorse(list, out)
    <2> SUFFICES ASSUME NEW i \in DOMAIN list, NEW n \in DOMAIN out,
                        list[i].key = out[n].key
                 PROVE  out[n] = list[i] /\ list[i].metric <= list[i].metric
      BY DEF NoWorse
    <2>1. place[n] = i
      BY <1>9 DEF UniqueKeys
    <2> QED
      BY <1>9, <2>1, RouteFields
  <1>13. \A i \in DOMAIN list :
           list[i].key # k => \E j \in DOMAIN out : out[j] = list[i]
    BY <1>4, <1>9
  <1>14. \A j \in DOMAIN out : \E i \in DOMAIN list : out[j] = list[i]
    BY <1>9
  <1> QED
    BY <1>6, <1>10, <1>11, <1>12, <1>13, <1>14 DEF out

\* update_rtt on one list.
LEMMA MeasureFacts ==
  ASSUME NEW list \in Seq(Route), UniqueKeys(list), NEW i \in DOMAIN list,
         NEW rtt \in Rtt, HopOrdered => ByMetric(list)
  PROVE  LET b   == [list EXCEPT ![i].rtt = rtt]
             out == IF load_balance = "LowestLatency" THEN StableSort(b) ELSE b
         IN  /\ out \in Seq(Route)
             /\ out # <<>>
             /\ UniqueKeys(out)
             /\ NoWorse(list, out)
             /\ KeepsDirect(list, out)
             /\ HopOrdered => ByMetric(out)
  <1> DEFINE route == [list[i] EXCEPT !.rtt = rtt]
             b == [list EXCEPT ![i].rtt = rtt]
             out == IF load_balance = "LowestLatency" THEN StableSort(b) ELSE b
  <1>1. list[i] \in Route /\ list[i].metric \in Nat
    BY RouteFields
  <1>2. /\ route \in Route /\ route.key = list[i].key
        /\ route.metric = list[i].metric /\ route.rtt = rtt
    BY <1>1 DEF Route
  <1>3. b = [list EXCEPT ![i] = route]
    OBVIOUS
  <1> HIDE DEF route, b
  <1>4. IsDirect(list[i]) => IsDirect(route)
    BY <1>2 DEF IsDirect
  <1>5. route.metric <= list[i].metric
    BY <1>1, <1>2
  <1>6. DEFAULT_RTT \notin Rtt /\ list[i].rtt # DEFAULT_RTT => route.rtt # DEFAULT_RTT
    BY <1>2
  <1>7. /\ b \in Seq(Route) /\ b # <<>> /\ UniqueKeys(b)
        /\ NoWorse(list, b) /\ KeepsDirect(list, b)
        /\ ByMetric(list) => ByMetric(b)
    BY <1>2, <1>3, <1>4, <1>5, <1>6, ReplaceFacts
  <1>8. CASE load_balance # "LowestLatency"
    BY <1>7, <1>8 DEF b
  <1>9. CASE load_balance = "LowestLatency"
    <2> DEFINE s == StableSort(b)
    <2>1. SameRoutes(b, s)
      BY <1>7, SortReorders
    <2> HIDE DEF s
    <2>2. s \in Seq(Route) /\ s # <<>> /\ UniqueKeys(s)
      BY <1>7, <2>1, SameRoutesKeep
    <2>3. NoWorse(list, s) /\ KeepsDirect(list, s)
      BY <1>7, <2>1, NoWorseReordered
    <2>4. ~HopOrdered
      BY <1>9 DEF HopOrdered
    <2> QED
      BY <1>9, <2>2, <2>3, <2>4 DEF s, b
  <1> QED
    BY <1>8, <1>9

\* Time changes nothing but the ages.
LEMMA OlderFacts ==
  ASSUME NEW list \in Seq(Route), UniqueKeys(list)
  PROVE  LET out == Older(list)
         IN  /\ out \in Seq(Route)
             /\ list # <<>> => out # <<>>
             /\ UniqueKeys(out)
             /\ NoWorse(list, out)
             /\ KeepsDirect(list, out)
             /\ ByMetric(list) => ByMetric(out)
  <1> DEFINE out == Older(list)
  <1>1. DOMAIN list = 1 .. Len(list) /\ Len(list) \in Nat
    OBVIOUS
  <1>2. DOMAIN out = DOMAIN list
    BY DEF Older
  <1>3. ASSUME NEW i \in DOMAIN list
        PROVE  /\ out[i] \in Route /\ out[i].key = list[i].key
               /\ out[i].metric = list[i].metric /\ out[i].rtt = list[i].rtt
               /\ list[i].metric <= list[i].metric
    <2>1. out[i] = [list[i] EXCEPT !.age = @ + 1]
      BY DEF Older
    <2>2. list[i] \in Route /\ list[i].metric \in Nat
      BY RouteFields
    <2> HIDE DEF out
    <2> QED
      BY <2>1, <2>2 DEF Route
  <1>4. out \in Seq(Route)
    <2>1. out = [i \in 1 .. Len(list) |-> [list[i] EXCEPT !.age = @ + 1]]
      BY <1>1 DEF Older
    <2>2. \A i \in 1 .. Len(list) : out[i] \in Route
      BY <1>1, <1>3
    <2> QED
      BY <1>1, <2>1, <2>2
  <1>5. list # <<>> => out # <<>>
    BY <1>2, <1>4
  <1> HIDE DEF out
  <1>6. UniqueKeys(out) /\ (ByMetric(list) => ByMetric(out))
    BY <1>2, <1>3 DEF UniqueKeys, ByMetric
  <1>7. NoWorse(list, out)
    <2> SUFFICES ASSUME NEW i \in DOMAIN list, NEW j \in DOMAIN out,
                        list[i].key = out[j].key
                 PROVE  /\ IsDirect(list[i]) => IsDirect(out[j])
                        /\ out[j].metric <= list[i].metric
                        /\ out[j].rtt = list[i].rtt
      BY DEF NoWorse
    <2>1. i = j
      BY <1>2, <1>3 DEF UniqueKeys
    <2> QED
      BY <1>3, <2>1 DEF IsDirect
  <1>8. KeepsDirect(list, out)
    BY <1>2, <1>3 DEF KeepsDirect, IsDirect
  <1> QED
    BY <1>4, <1>5, <1>6, <1>7, <1>8 DEF out

-----------------------------------------------------------------------------
(* The inductive invariant. *)

\* A list as add_route_ leaves it.
GoodList(list) ==
  /\ list \in Seq(Route)
  /\ list # <<>>
  /\ UniqueKeys(list)
  /\ HopOrdered => ByMetric(list)

HasDirect(list, k) == \E j \in DOMAIN list : list[j].key = k /\ IsDirect(list[j])

\* Every entry holds a good list, and the reverse index names an owner that
\* still has the direct route.
IInv ==
  /\ TypeOK
  /\ \A id \in DOMAIN route_table : GoodList(route_table[id].list)
  /\ \A k \in DOMAIN route_key_table :
       /\ route_key_table[k] \in DOMAIN route_table
       /\ HasDirect(route_table[route_key_table[k]].list, k)

\* No route of a step's old table is worse in its new table.
NeverWorse ==
  \A id \in DOMAIN route_table \cap DOMAIN route_table' :
    NoWorse(route_table[id].list, route_table'[id].list)

\* The invariant in the words of the module's properties.
LEMMA InvariantImplies ==
  ASSUME IInv
  PROVE  TypeOK /\ ListsWellFormed /\ OwnerHasDirectRoute /\ MetricOrdered
  <1>1. NoEmptyEntry /\ KeysUnique
    BY DEF IInv, GoodList, UniqueKeys, NoEmptyEntry, KeysUnique
  <1>2. MetricOrdered
    BY DEF IInv, GoodList, ByMetric, MetricOrdered
  <1>3. OwnerHasDirectRoute
    <2> SUFFICES ASSUME NEW k \in DOMAIN route_key_table
                 PROVE  route_key_table[k] \in RouteToId(k)
      BY DEF OwnerHasDirectRoute
    <2>1. /\ route_key_table[k] \in DOMAIN route_table
          /\ HasDirect(route_table[route_key_table[k]].list, k)
      BY DEF IInv
    <2> QED
      BY <2>1 DEF HasDirect, RouteToId, DirectKeys
  <1> QED
    BY <1>1, <1>2, <1>3 DEF IInv, ListsWellFormed

\* What an operation finds in the entry of a peer, present or not.
LEMMA ListOfFacts ==
  ASSUME IInv, NEW id
  PROVE  /\ ListOf(id) \in Seq(Route)
         /\ UniqueKeys(ListOf(id))
         /\ HopOrdered => ByMetric(ListOf(id))
         /\ CountOf(id) \in 0 .. CountRange - 1
         /\ Has(id) => ListOf(id) = route_table[id].list /\ GoodList(ListOf(id))
         /\ ~Has(id) => ListOf(id) = <<>>
  <1>1. CASE Has(id)
    <2>1. route_table[id] \in Entry
      BY <1>1 DEF IInv, TypeOK, IsMap, Has
    <2>2. GoodList(route_table[id].list)
      BY <1>1 DEF IInv, Has
    <2> QED
      BY <1>1, <2>1, <2>2 DEF ListOf, CountOf, Entry, GoodList
  <1>2. CASE ~Has(id)
    <2>1. UniqueKeys(<<>>) /\ ByMetric(<<>>) /\ <<>> \in Seq(Route)
      BY DEF UniqueKeys, ByMetric
    <2>2. 0 \in 0 .. CountRange - 1
      BY RouteTableConstants
    <2> QED
      BY <1>2, <2>1, <2>2 DEF ListOf, CountOf
  <1> QED
    BY <1>1, <1>2

\* The shape of every step that writes one entry.
LEMMA WriteEntry ==
  ASSUME IInv, NEW id \in Peer, NEW count \in 0 .. CountRange - 1, NEW list,
         list \in Seq(Route), list # <<>>, UniqueKeys(list),
         HopOrdered => ByMetric(list), NoWorse(ListOf(id), list),
         route_table' = WithEntry(id, [count |-> count, list |-> list]),
         load_balance' = load_balance
  PROVE  /\ IsMap(route_table, Peer, Entry)' /\ (load_balance \in Policies)'
         /\ DOMAIN route_table' = DOMAIN route_table \cup {id}
         /\ route_table'[id].list = list
         /\ \A p \in DOMAIN route_table \ {id} : route_table'[p] = route_table[p]
         /\ \A p \in DOMAIN route_table' : GoodList(route_table[p].list)'
         /\ NeverWorse
  <1> DEFINE entry == [count |-> count, list |-> list]
  <1>1. entry \in Entry /\ entry.list = list
    BY DEF Entry
  <1> HIDE DEF entry
  <1>2. /\ DOMAIN route_table' = DOMAIN route_table \cup {id}
        /\ route_table'[id] = entry
        /\ \A p \in DOMAIN route_table \ {id} : route_table'[p] = route_table[p]
        /\ route_table' = [p \in DOMAIN route_table \cup {id} |->
                             IF p = id THEN entry ELSE route_table[p]]
    BY DEF WithEntry, entry
  <1>3. IsMap(route_table, Peer, Entry)' /\ (load_balance \in Policies)'
    BY <1>1, <1>2 DEF IInv, TypeOK, IsMap
  <1>4. ASSUME NEW p \in DOMAIN route_table'
        PROVE  GoodList(route_table[p].list)'
    <2>1. CASE p = id
      BY <1>1, <1>2, <2>1 DEF GoodList, HopOrdered
    <2>2. CASE p # id
      <3>1. p \in DOMAIN route_table /\ route_table'[p] = route_table[p]
        BY <1>2, <1>4, <2>2
      <3>2. GoodList(route_table[p].list)
        BY <3>1 DEF IInv
      <3> QED
        BY <3>1, <3>2 DEF GoodList, HopOrdered
    <2> QED
      BY <2>1, <2>2
  <1>5. NeverWorse
    <2> SUFFICES ASSUME NEW p \in DOMAIN route_table, p \in DOMAIN route_table'
                 PROVE  NoWorse(route_table[p].list, route_table'[p].list)
      BY DEF NeverWorse
    <2>1. CASE p = id
      BY <1>1, <1>2, <2>1 DEF ListOf, Has
    <2>2. CASE p # id
      <3>1. route_table'[p] = route_table[p]
        BY <1>2, <2>2
      <3>2. GoodList(route_table[p].list)
        BY DEF IInv
      <3> QED
        BY <3>1, <3>2, SelfNoWorse DEF GoodList
    <2> QED
      BY <2>1, <2>2
  <1> QED
    BY <1>1, <1>2, <1>3, <1>4, <1>5

\* When the entry keeps its direct routes and the index is not touched, the
\* index stays right.
LEMMA WriteKeepingDirect ==
  ASSUME IInv, NEW id \in Peer, NEW count \in 0 .. CountRange - 1, NEW list,
         list \in Seq(Route), list # <<>>, UniqueKeys(list),
         HopOrdered => ByMetric(list), NoWorse(ListOf(id), list),
         KeepsDirect(ListOf(id), list),
         route_table' = WithEntry(id, [count |-> count, list |-> list]),
         load_balance' = load_balance, route_key_table' = route_key_table
  PROVE  IInv' /\ NeverWorse
  <1>1. /\ IsMap(route_table, Peer, Entry)' /\ (load_balance \in Policies)'
        /\ DOMAIN route_table' = DOMAIN route_table \cup {id}
        /\ route_table'[id].list = list
        /\ \A p \in DOMAIN route_table \ {id} : route_table'[p] = route_table[p]
        /\ \A p \in DOMAIN route_table' : GoodList(route_table[p].list)'
        /\ NeverWorse
    BY WriteEntry
  <1>2. TypeOK'
    BY <1>1 DEF IInv, TypeOK, IsMap
  <1>3. ASSUME NEW k \in DOMAIN route_key_table
        PROVE  /\ route_key_table[k] \in DOMAIN route_table'
               /\ HasDirect(route_table'[route_key_table[k]].list, k)
    <2> DEFINE p == route_key_table[k]
    <2>1. p \in DOMAIN route_table /\ HasDirect(route_table[p].list, k)
      BY DEF IInv
    <2> HIDE DEF p
    <2>2. CASE p = id
      <3>1. HasDirect(ListOf(id), k)
        BY <2>1, <2>2 DEF ListOf, Has
      <3>2. HasDirect(list, k)
        BY <3>1 DEF HasDirect, KeepsDirect
      <3> QED
        BY <1>1, <2>1, <2>2, <3>2 DEF p
    <2>3. CASE p # id
      BY <1>1, <2>1, <2>3 DEF p
    <2> QED
      BY <2>2, <2>3
  <1> QED
    BY <1>1, <1>2, <1>3 DEF IInv

-----------------------------------------------------------------------------
(* One step. *)

LEMMA AddLockedKeeps ==
  ASSUME IInv, NEW id \in Peer, NEW offer \in Offer, NEW onlyIfAbsent \in BOOLEAN,
         AddLocked(id, offer, onlyIfAbsent), load_balance' = load_balance
  PROVE  IInv' /\ NeverWorse
  <1> DEFINE list == ListOf(id)
             out == AddToList(list, offer, onlyIfAbsent)
             new == ~Outranked(list, offer) /\ At(list, offer.key) = {}
  <1>1. /\ list \in Seq(Route) /\ UniqueKeys(list)
        /\ HopOrdered => ByMetric(list)
        /\ CountOf(id) \in 0 .. CountRange - 1
    BY ListOfFacts
  <1>2. AddedWell(list, offer, out)
    BY <1>1, AddToListFacts
  <1>3. route_table' = WithEntry(id, [count |-> CountOf(id), list |-> out])
    BY DEF AddLocked, WithList
  <1>4. CASE ~(new /\ IsDirect(offer))
    <2>1. route_key_table' = route_key_table
      BY <1>4 DEF AddLocked
    <2> QED
      BY <1>1, <1>2, <1>3, <2>1, WriteKeepingDirect DEF AddedWell
  <1>5. CASE new /\ IsDirect(offer)
    <2>1. route_key_table' = [k \in DOMAIN route_key_table \cup {offer.key} |->
                                IF k = offer.key THEN id ELSE route_key_table[k]]
      BY <1>5 DEF AddLocked
    <2>2. HasDirect(out, offer.key)
      BY <1>2, <1>5 DEF AddedWell, HasDirect
    <2> HIDE DEF out, list, new
    <2>3. /\ IsMap(route_table, Peer, Entry)' /\ (load_balance \in Policies)'
          /\ DOMAIN route_table' = DOMAIN route_table \cup {id}
          /\ route_table'[id].list = out
          /\ \A p \in DOMAIN route_table \ {id} : route_table'[p] = route_table[p]
          /\ \A p \in DOMAIN route_table' : GoodList(route_table[p].list)'
          /\ NeverWorse
      BY <1>1, <1>2, <1>3, WriteEntry DEF AddedWell, list
    <2>4. offer.key \in Key
      BY DEF Offer
    <2>5. TypeOK'
      BY <2>1, <2>3, <2>4 DEF IInv, TypeOK, IsMap
    <2>6. ASSUME NEW k \in DOMAIN route_key_table'
          PROVE  /\ route_key_table'[k] \in DOMAIN route_table'
                 /\ HasDirect(route_table'[route_key_table'[k]].list, k)
      <3>1. CASE k = offer.key
        BY <2>1, <2>2, <2>3, <3>1
      <3>2. CASE k # offer.key
        <4> DEFINE p == route_key_table[k]
        <4>1. k \in DOMAIN route_key_table /\ route_key_table'[k] = p
          BY <2>1, <2>6, <3>2
        <4>2. p \in DOMAIN route_table /\ HasDirect(route_table[p].list, k)
          BY <4>1 DEF IInv
        <4> HIDE DEF p
        <4>3. CASE p = id
          <5>1. HasDirect(list, k)
            BY <4>2, <4>3 DEF list, ListOf, Has
          <5>2. HasDirect(out, k)
            BY <1>2, <5>1 DEF HasDirect, KeepsDirect, AddedWell
          <5> QED
            BY <2>3, <4>1, <4>3, <5>2
        <4>4. CASE p # id
          BY <2>3, <4>1, <4>2, <4>4
        <4> QED
          BY <4>3, <4>4
      <3> QED
        BY <3>1, <3>2
    <2> QED
      BY <2>3, <2>5, <2>6 DEF IInv
  <1> QED
    BY <1>4, <1>5

LEMMA TouchKeeps ==
  ASSUME IInv, NEW id \in Peer, NEW k, At(ListOf(id), k) # {},
         route_table' = WithList(id, Touch(ListOf(id), FirstAt(ListOf(id), k))),
         UNCHANGED <<route_key_table, load_balance>>
  PROVE  IInv' /\ NeverWorse
  <1> DEFINE list == ListOf(id)
             i == FirstAt(list, k)
             out == Touch(list, i)
  <1>1. /\ list \in Seq(Route) /\ UniqueKeys(list)
        /\ HopOrdered => ByMetric(list)
        /\ CountOf(id) \in 0 .. CountRange - 1
    BY ListOfFacts
  <1>2. i \in DOMAIN list
    BY <1>1, FirstAtFacts
  <1> HIDE DEF i
  <1>3. /\ out \in Seq(Route) /\ out # <<>> /\ UniqueKeys(out)
        /\ NoWorse(list, out) /\ KeepsDirect(list, out)
        /\ ByMetric(list) => ByMetric(out)
    BY <1>1, <1>2, TouchFacts
  <1>4. route_table' = WithEntry(id, [count |-> CountOf(id), list |-> out])
    BY DEF WithList, i
  <1> HIDE DEF out
  <1> QED
    BY <1>1, <1>3, <1>4, WriteKeepingDirect

LEMMA UpdateRttKeeps ==
  ASSUME IInv, NEW id \in Peer, NEW k \in Key, NEW rtt \in Rtt, UpdateRtt(id, k, rtt)
  PROVE  IInv' /\ NeverWorse
  <1> DEFINE list == ListOf(id)
             i == FirstAt(list, k)
             b == [list EXCEPT ![i].rtt = rtt]
             out == IF load_balance = "LowestLatency" THEN StableSort(b) ELSE b
  <1>1. /\ list \in Seq(Route) /\ UniqueKeys(list)
        /\ HopOrdered => ByMetric(list)
        /\ CountOf(id) \in 0 .. CountRange - 1
    BY ListOfFacts
  <1>2. i \in DOMAIN list
    BY <1>1, FirstAtFacts DEF UpdateRtt
  <1>3. route_table' = WithEntry(id, [count |-> CountOf(id), list |-> out])
    BY DEF UpdateRtt, WithList
  <1> HIDE DEF i
  <1>4. /\ out \in Seq(Route) /\ out # <<>> /\ UniqueKeys(out)
        /\ NoWorse(list, out) /\ KeepsDirect(list, out)
        /\ HopOrdered => ByMetric(out)
    BY <1>1, <1>2, MeasureFacts
  <1> HIDE DEF out
  <1>5. load_balance' = load_balance /\ route_key_table' = route_key_table
    BY DEF UpdateRtt
  <1> QED
    BY <1>1, <1>3, <1>4, <1>5, WriteKeepingDirect

LEMMA GetRouteByIdKeeps ==
  ASSUME IInv, NEW id \in Peer, GetRouteById(id)
  PROVE  IInv' /\ NeverWorse
  <1> DEFINE list == ListOf(id)
             count == (CountOf(id) + 1) % CountRange
  <1>1. /\ list \in Seq(Route) /\ UniqueKeys(list) /\ list # <<>>
        /\ HopOrdered => ByMetric(list)
        /\ CountOf(id) \in 0 .. CountRange - 1
    BY ListOfFacts DEF GetRouteById, GoodList
  <1>2. count \in 0 .. CountRange - 1
    BY <1>1, RouteTableConstants
  <1>3. route_table' = WithEntry(id, [count |-> count, list |-> list])
    BY DEF GetRouteById
  <1>4. load_balance' = load_balance /\ route_key_table' = route_key_table
    BY DEF GetRouteById
  <1>5. NoWorse(list, list) /\ KeepsDirect(list, list)
    BY <1>1, SelfNoWorse
  <1> HIDE DEF count
  <1> QED
    BY <1>1, <1>2, <1>3, <1>4, <1>5, WriteKeepingDirect

\* The index keeps only what it had, without what is removed with the routes.
LEMMA IndexShrinks ==
  ASSUME IInv, NEW S, route_key_table' = Without(route_key_table, S)
  PROVE  /\ IsMap(route_key_table, Key, Peer)'
         /\ DOMAIN route_key_table' = DOMAIN route_key_table \ S
         /\ \A k \in DOMAIN route_key_table' : route_key_table'[k] = route_key_table[k]
  BY DEF IInv, TypeOK, IsMap, Without

\* An entry goes away: the keys the index gave to it have to go with it.
LEMMA DropEntry ==
  ASSUME IInv, NEW id \in Peer, NEW S,
         route_table' = Without(route_table, {id}),
         route_key_table' = Without(route_key_table, S),
         \A k \in DOMAIN route_key_table : route_key_table[k] = id => k \in S,
         load_balance' = load_balance
  PROVE  IInv' /\ NeverWorse
  <1>1. /\ DOMAIN route_table' = DOMAIN route_table \ {id}
        /\ \A p \in DOMAIN route_table' : route_table'[p] = route_table[p]
        /\ IsMap(route_table, Peer, Entry)'
    BY DEF IInv, TypeOK, IsMap, Without
  <1>2. /\ IsMap(route_key_table, Key, Peer)'
        /\ DOMAIN route_key_table' = DOMAIN route_key_table \ S
        /\ \A k \in DOMAIN route_key_table' : route_key_table'[k] = route_key_table[k]
    BY IndexShrinks
  <1>3. TypeOK'
    BY <1>1, <1>2 DEF IInv, TypeOK
  <1>4. ASSUME NEW p \in DOMAIN route_table'
        PROVE  GoodList(route_table[p].list)'
    <2>1. GoodList(route_table[p].list)
      BY <1>1 DEF IInv
    <2> QED
      BY <1>1, <2>1 DEF GoodList, HopOrdered
  <1>5. ASSUME NEW k \in DOMAIN route_key_table'
        PROVE  /\ route_key_table'[k] \in DOMAIN route_table'
               /\ HasDirect(route_table'[route_key_table'[k]].list, k)
    <2>1. /\ k \in DOMAIN route_key_table /\ route_key_table[k] # id
          /\ route_key_table'[k] = route_key_table[k]
      BY <1>2
    <2>2. /\ route_key_table[k] \in DOMAIN route_table
          /\ HasDirect(route_table[route_key_table[k]].list, k)
      BY <2>1 DEF IInv
    <2> QED
      BY <1>1, <2>1, <2>2
  <1>6. NeverWorse
    <2> SUFFICES ASSUME NEW p \in DOMAIN route_table, p \in DOMAIN route_table'
                 PROVE  NoWorse(route_table[p].list, route_table'[p].list)
      BY DEF NeverWorse
    <2>1. GoodList(route_table[p].list) /\ route_table'[p] = route_table[p]
      BY <1>1 DEF IInv
    <2> QED
      BY <2>1, SelfNoWorse DEF GoodList
  <1> QED
    BY <1>3, <1>4, <1>5, <1>6 DEF IInv

LEMMA RemoveRouteKeeps ==
  ASSUME IInv, NEW id \in Peer, NEW k \in Key, RemoveRoute(id, k)
  PROVE  IInv' /\ NeverWorse
  <1> DEFINE list == ListOf(id)
             rest == Retain(list, k)
             S == Owned(id, {k})
  <1>1. /\ list \in Seq(Route) /\ UniqueKeys(list)
        /\ HopOrdered => ByMetric(list)
        /\ CountOf(id) \in 0 .. CountRange - 1
        /\ list = route_table[id].list
    BY ListOfFacts DEF RemoveRoute, RemoveLocked
  <1> HIDE DEF list
  <1>2. /\ rest \in Seq(Route) /\ UniqueKeys(rest) /\ NoWorse(list, rest)
        /\ ByMetric(list) => ByMetric(rest)
        /\ \A i \in DOMAIN list :
             list[i].key # k => \E j \in DOMAIN rest : rest[j] = list[i]
    <2>1. list \in Seq(Route) /\ UniqueKeys(list)
      BY <1>1
    <2> QED
      BY <2>1, RetainFacts
  <1>3. /\ load_balance' = load_balance
        /\ route_key_table' = Without(route_key_table, S)
        /\ rest = <<>> => route_table' = Without(route_table, {id})
        /\ rest # <<>> =>
             route_table' = WithEntry(id, [count |-> CountOf(id), list |-> rest])
    BY DEF RemoveRoute, RemoveLocked, WithList, list
  <1> HIDE DEF rest
  <1>4. ASSUME NEW x \in DOMAIN route_key_table, route_key_table[x] = id, x # k
        PROVE  HasDirect(rest, x)
    <2>1. HasDirect(list, x)
      BY <1>1, <1>4 DEF IInv
    <2> QED
      BY <1>2, <1>4, <2>1 DEF HasDirect
  <1>5. \A x \in DOMAIN route_key_table : route_key_table[x] = id /\ x = k => x \in S
    BY DEF Owned
  <1> HIDE DEF S
  <1>6. CASE rest = <<>>
    <2>1. \A x : ~HasDirect(rest, x)
      BY <1>6 DEF HasDirect
    <2>2. \A x \in DOMAIN route_key_table : route_key_table[x] = id => x \in S
      BY <1>4, <1>5, <2>1
    <2> QED
      BY <1>3, <1>6, <2>2, DropEntry
  <1>7. CASE rest # <<>>
    <2>1. /\ IsMap(route_table, Peer, Entry)' /\ (load_balance \in Policies)'
          /\ DOMAIN route_table' = DOMAIN route_table \cup {id}
          /\ route_table'[id].list = rest
          /\ \A p \in DOMAIN route_table \ {id} : route_table'[p] = route_table[p]
          /\ \A p \in DOMAIN route_table' : GoodList(route_table[p].list)'
          /\ NeverWorse
      BY <1>1, <1>2, <1>3, <1>7, WriteEntry DEF list
    <2>2. /\ IsMap(route_key_table, Key, Peer)'
          /\ DOMAIN route_key_table' = DOMAIN route_key_table \ S
          /\ \A x \in DOMAIN route_key_table' : route_key_table'[x] = route_key_table[x]
      BY <1>3, IndexShrinks
    <2>3. ASSUME NEW x \in DOMAIN route_key_table'
          PROVE  /\ route_key_table'[x] \in DOMAIN route_table'
                 /\ HasDirect(route_table'[route_key_table'[x]].list, x)
      <3>1. /\ x \in DOMAIN route_key_table /\ x \notin S
            /\ route_key_table'[x] = route_key_table[x]
        BY <2>2
      <3>2. /\ route_key_table[x] \in DOMAIN route_table
            /\ HasDirect(route_table[route_key_table[x]].list, x)
        BY <3>1 DEF IInv
      <3>3. CASE route_key_table[x] = id
        <4>1. HasDirect(rest, x)
          BY <1>4, <1>5, <3>1, <3>3
        <4> QED
          BY <2>1, <3>1, <3>3, <4>1
      <3>4. CASE route_key_table[x] # id
        BY <2>1, <3>1, <3>2, <3>4
      <3> QED
        BY <3>3, <3>4
    <2> QED
      BY <2>1, <2>2, <2>3 DEF IInv, TypeOK
  <1> QED
    BY <1>6, <1>7

LEMMA RemoveAllKeeps ==
  ASSUME IInv, NEW id \in Peer, RemoveAll(id)
  PROVE  IInv' /\ NeverWorse
  <1> DEFINE S == Owned(id, DirectKeys(ListOf(id)))
  <1>1. /\ route_table' = Without(route_table, {id})
        /\ route_key_table' = Without(route_key_table, S)
        /\ load_balance' = load_balance
    BY DEF RemoveAll
  <1>2. ASSUME NEW k \in DOMAIN route_key_table, route_key_table[k] = id
        PROVE  k \in S
    <2>1. HasDirect(ListOf(id), k)
      BY <1>2 DEF IInv, ListOf, Has
    <2> QED
      BY <1>2, <2>1 DEF HasDirect, DirectKeys, Owned
  <1> HIDE DEF S
  <1> QED
    BY <1>1, <1>2, DropEntry

LEMMA TickKeeps ==
  ASSUME IInv, Tick
  PROVE  IInv' /\ NeverWorse
  <1>1. /\ DOMAIN route_table' = DOMAIN route_table
        /\ \A p \in DOMAIN route_table :
             route_table'[p] = [route_table[p] EXCEPT !.list = Older(@)]
        /\ route_table' = Aged
        /\ route_key_table' = route_key_table /\ load_balance' = load_balance
    BY DEF Tick, Aged
  <1>2. ASSUME NEW p \in DOMAIN route_table
        PROVE  /\ route_table'[p] \in Entry
               /\ route_table'[p].list = Older(route_table[p].list)
               /\ GoodList(route_table'[p].list)
               /\ NoWorse(route_table[p].list, route_table'[p].list)
               /\ KeepsDirect(route_table[p].list, route_table'[p].list)
    <2> DEFINE list == route_table[p].list
               out == Older(list)
    <2>1. GoodList(list) /\ route_table[p] \in Entry
      BY DEF IInv, TypeOK, IsMap
    <2>2. /\ out \in Seq(Route) /\ (list # <<>> => out # <<>>) /\ UniqueKeys(out)
          /\ NoWorse(list, out) /\ KeepsDirect(list, out)
          /\ ByMetric(list) => ByMetric(out)
      BY <2>1, OlderFacts DEF GoodList
    <2>3. route_table'[p] = [route_table[p] EXCEPT !.list = out]
      BY <1>1
    <2> HIDE DEF out
    <2>4. route_table'[p] \in Entry /\ route_table'[p].list = out
      BY <2>1, <2>2, <2>3 DEF Entry
    <2> QED
      BY <2>1, <2>2, <2>4 DEF GoodList, out
  <1>3. TypeOK'
    <2>1. route_table' = [p \in DOMAIN route_table |-> route_table'[p]]
      BY <1>1 DEF Aged
    <2>2. route_table' \in [DOMAIN route_table -> Entry]
      BY <1>2, <2>1
    <2> QED
      BY <1>1, <2>2 DEF IInv, TypeOK, IsMap
  <1>4. \A p \in DOMAIN route_table' : GoodList(route_table[p].list)'
    BY <1>1, <1>2 DEF GoodList, HopOrdered
  <1>5. ASSUME NEW k \in DOMAIN route_key_table
        PROVE  /\ route_key_table[k] \in DOMAIN route_table
               /\ HasDirect(route_table'[route_key_table[k]].list, k)
    <2>1. /\ route_key_table[k] \in DOMAIN route_table
          /\ HasDirect(route_table[route_key_table[k]].list, k)
      BY DEF IInv
    <2>2. PICK a, b : /\ a = route_table[route_key_table[k]].list
                      /\ b = route_table'[route_key_table[k]].list
      OBVIOUS
    <2>3. KeepsDirect(a, b) /\ HasDirect(a, k)
      BY <1>2, <2>1, <2>2
    <2>4. HasDirect(b, k)
      BY ONLY <2>3 DEF HasDirect, KeepsDirect
    <2> QED
      BY <2>1, <2>2, <2>4
  <1>6. NeverWorse
    BY <1>2 DEF NeverWorse
  <1> QED
    BY <1>1, <1>3, <1>4, <1>5, <1>6 DEF IInv

LEMMA InitInvariant ==
  ASSUME Init
  PROVE  IInv
  <1>1. IsMap(<<>>, Peer, Entry) /\ IsMap(<<>>, Key, Peer) /\ DOMAIN <<>> = {}
    BY DEF IsMap
  <1> QED
    BY <1>1 DEF Init, TableInit, IInv, TypeOK

\* Every step of the table keeps the invariant and makes no route worse.
LEMMA NextKeeps ==
  ASSUME IInv, [Next]_tableVars
  PROVE  IInv' /\ NeverWorse
  <1>1. ASSUME NEW id \in Peer, NEW offer \in Offer, AddRoute(id, offer)
        PROVE  IInv' /\ NeverWorse
    BY <1>1, AddLockedKeeps DEF AddRoute
  <1>2. ASSUME NEW id \in Peer, NEW offer \in Offer, AddIfAbsentFound(id, offer)
        PROVE  IInv' /\ NeverWorse
    BY <1>2, TouchKeeps DEF AddIfAbsentFound
  <1>3. ASSUME NEW id \in Peer, NEW offer \in Offer, AddIfAbsentLocked(id, offer)
        PROVE  IInv' /\ NeverWorse
    BY <1>3, AddLockedKeeps DEF AddIfAbsentLocked
  <1>4. ASSUME NEW id \in Peer, NEW k \in Key, UpdateReadTime(id, k)
        PROVE  IInv' /\ NeverWorse
    BY <1>4, TouchKeeps DEF UpdateReadTime
  <1>5. ASSUME NEW id \in Peer, NEW k \in Key, NEW rtt \in Rtt, UpdateRtt(id, k, rtt)
        PROVE  IInv' /\ NeverWorse
    BY <1>5, UpdateRttKeeps
  <1>6. ASSUME NEW id \in Peer, NEW k \in Key, RemoveRoute(id, k)
        PROVE  IInv' /\ NeverWorse
    BY <1>6, RemoveRouteKeeps
  <1>7. ASSUME NEW id \in Peer, RemoveAll(id)
        PROVE  IInv' /\ NeverWorse
    BY <1>7, RemoveAllKeeps
  <1>8. ASSUME NEW id \in Peer, GetRouteById(id)
        PROVE  IInv' /\ NeverWorse
    BY <1>8, GetRouteByIdKeeps
  <1>9. CASE Tick
    BY <1>9, TickKeeps
  <1>10. CASE UNCHANGED tableVars
    <2>1. IInv'
      <3>1. /\ route_table' = route_table /\ route_key_table' = route_key_table
            /\ load_balance' = load_balance
        BY <1>10 DEF tableVars
      <3> QED
        BY <3>1 DEF IInv, TypeOK, IsMap, GoodList, HopOrdered
    <2>2. NeverWorse
      BY <1>10, SelfNoWorse DEF IInv, GoodList, NeverWorse, tableVars
    <2> QED
      BY <2>1, <2>2
  <1> QED
    BY <1>1, <1>2, <1>3, <1>4, <1>5, <1>6, <1>7, <1>8, <1>9, <1>10 DEF Next, TableUse

-----------------------------------------------------------------------------
(* The theorems. *)

\* The invariant holds in every reachable state.
THEOREM InvariantHolds == Spec => []IInv
  BY InitInvariant, NextKeeps, PTL DEF Spec

\* The two maps keep their shape, whatever callers do (TypeOK).
THEOREM TypeCorrect == Spec => []TypeOK
  <1>1. IInv => TypeOK
    BY DEF IInv
  <1> QED
    BY <1>1, InvariantHolds, PTL

\* No entry stays behind empty and no key is listed twice for a peer, although
\* add_route_if_absent checks and pushes in two critical sections.
THEOREM ListsStayWellFormed == Spec => []ListsWellFormed
  <1>1. IInv => ListsWellFormed
    BY InvariantImplies
  <1> QED
    BY <1>1, InvariantHolds, PTL

\* The reverse index names only peers that still have the direct route.
THEOREM IndexStaysRight == Spec => []OwnerHasDirectRoute
  <1>1. IInv => OwnerHasDirectRoute
    BY InvariantImplies
  <1> QED
    BY <1>1, InvariantHolds, PTL

\* What route_one reports and what get_route_by_id uses agree on being direct.
THEOREM ReportAgrees == Spec => []ReportMatchesUse
  <1>1. ASSUME IInv
        PROVE  ReportMatchesUse
    <2> SUFFICES ASSUME HopOrdered, NEW id \in DOMAIN route_table
                 PROVE  IsDirect(route_table[id].list[1]) <=>
                        IsDirect(route_table[id].list[Selected(id)])
      BY DEF ReportMatchesUse
    <2> DEFINE list == route_table[id].list
    <2>1. /\ list \in Seq(Route) /\ list # <<>> /\ ByMetric(list)
          /\ ListOf(id) = list /\ CountOf(id) \in 0 .. CountRange - 1
      BY <1>1, ListOfFacts DEF GoodList, Has
    <2>2. 1 \in DOMAIN list /\ Len(list) \in Nat \ {0} /\ DOMAIN list = 1 .. Len(list)
      BY <2>1
    <2> HIDE DEF list
    <2>3. \A i \in DOMAIN list : list[i].metric \in Nat /\ i \in Nat
      BY <2>1, RouteFields
    <2>4. CASE DirectAt(list) # {}
      <3>1. PICK i \in DOMAIN list : list[i].metric = 0
        BY <2>4 DEF DirectAt, IsDirect
      <3>2. list[1].metric <= list[i].metric
        BY <2>1, <2>2, <2>3, <3>1 DEF ByMetric
      <3>3. 1 \in DirectAt(list)
        BY <2>2, <2>3, <3>1, <3>2 DEF DirectAt, IsDirect
      <3>4. \A j \in DirectAt(list) : 1 <= j
        BY <2>2 DEF DirectAt
      <3>5. Selected(id) = CHOOSE n \in DirectAt(list) : \A j \in DirectAt(list) : n <= j
        BY <2>1, <2>4 DEF Selected
      <3>6. Selected(id) \in DirectAt(list)
        BY <3>3, <3>4, <3>5
      <3> QED
        BY <3>3, <3>6 DEF DirectAt, list
    <2>5. CASE DirectAt(list) = {}
      <3>1. Selected(id) \in DOMAIN list
        <4>1. CASE load_balance = "RoundRobin"
          <5>1. Selected(id) = (CountOf(id) % Len(list)) + 1
            BY <2>1, <2>5, <4>1 DEF Selected
          <5>2. CountOf(id) % Len(list) \in 0 .. Len(list) - 1
            BY <2>1, <2>2, RouteTableConstants
          <5> QED
            BY <2>2, <5>1, <5>2
        <4>2. CASE load_balance # "RoundRobin"
          BY <2>1, <2>2, <2>5, <4>2 DEF Selected
        <4> QED
          BY <4>1, <4>2
      <3>2. \A i \in DOMAIN list : ~IsDirect(list[i])
        BY <2>5 DEF DirectAt
      <3> QED
        BY <2>2, <3>1, <3>2 DEF list
    <2> QED
      BY <2>4, <2>5
  <1> QED
    BY <1>1, InvariantHolds, PTL

\* A route that stays is never downgraded to a relay, nor made longer unless
\* the policy is LowestLatency.
THEOREM NoRouteWorsens == Spec => RoutesNeverWorsen
  <1>1. ASSUME IInv, [Next]_tableVars
        PROVE  \A id \in DOMAIN route_table \cap DOMAIN route_table' :
                 \A i \in DOMAIN route_table[id].list :
                   LET old == route_table[id].list[i]
                   IN  \A j \in At(route_table'[id].list, old.key) :
                         LET new == route_table'[id].list[j]
                         IN  /\ IsDirect(old) => IsDirect(new)
                             /\ load_balance # "LowestLatency" =>
                                  new.metric <= old.metric
    <2>1. NeverWorse
      BY <1>1, NextKeeps
    <2> QED
      BY <2>1 DEF NeverWorse, NoWorse, At
  <1> QED
    BY <1>1, InvariantHolds, PTL DEF Spec, RoutesNeverWorsen

\* A measured rtt is never erased by the sentinel a confirmation carries.
THEOREM MeasurementsAreKept == Spec => MeasurementKept
  <1>1. ASSUME IInv, [Next]_tableVars
        PROVE  DEFAULT_RTT \notin Rtt =>
                 \A id \in DOMAIN route_table \cap DOMAIN route_table' :
                   \A i \in DOMAIN route_table[id].list :
                     \A j \in At(route_table'[id].list, route_table[id].list[i].key) :
                       route_table[id].list[i].rtt # DEFAULT_RTT =>
                         route_table'[id].list[j].rtt # DEFAULT_RTT
    <2>1. NeverWorse
      BY <1>1, NextKeeps
    <2> QED
      BY <2>1 DEF NeverWorse, NoWorse, At
  <1> QED
    BY <1>1, InvariantHolds, PTL DEF Spec, MeasurementKept

\* add_route_ with only_if_absent on a list that knows the key: every route
\* keeps its key, metric and rtt.
LEMMA IfAbsentKeeps ==
  ASSUME NEW list \in Seq(Route), UniqueKeys(list), NEW offer \in Offer,
         NEW i \in DOMAIN list, offer.key = list[i].key
  PROVE  LET out == AddToList(list, offer, TRUE)
         IN  /\ i \in DOMAIN out
             /\ out[i].key = list[i].key
             /\ out[i].metric = list[i].metric
             /\ out[i].rtt = list[i].rtt
  <1> DEFINE n == FirstAt(list, offer.key)
  <1>1. CASE Outranked(list, offer)
    <2>1. AddToList(list, offer, TRUE) = list
      BY <1>1 DEF AddToList
    <2> QED
      BY <2>1
  <1>2. CASE ~Outranked(list, offer)
    <2>1. At(list, offer.key) # {}
      BY DEF At
    <2>2. n \in DOMAIN list
      BY <2>1, FirstAtFacts
    <2> HIDE DEF n
    <2>3. list[n] \in Route
      BY <2>2, RouteFields
    <2>4. AddToList(list, offer, TRUE) = Touch(list, n)
      <3>1. KeepsKnown(list[n], offer, TRUE)
        BY DEF KeepsKnown
      <3> QED
        BY <1>2, <2>1, <3>1 DEF AddToList, n
    <2>5. Touch(list, n) = [list EXCEPT ![n] = [list[n] EXCEPT !.age = 0]]
      BY DEF Touch
    <2>6. /\ [list[n] EXCEPT !.age = 0].key = list[n].key
          /\ [list[n] EXCEPT !.age = 0].metric = list[n].metric
          /\ [list[n] EXCEPT !.age = 0].rtt = list[n].rtt
      BY <2>3 DEF Route
    <2>7. CASE i = n
      BY <2>2, <2>4, <2>5, <2>6, <2>7
    <2>8. CASE i # n
      BY <2>4, <2>5, <2>8
    <2> QED
      BY <2>7, <2>8
  <1> QED
    BY <1>1, <1>2

\* A step that changes the metric or the rtt of a known route is none of
\* add_route_if_absent's, even when the route appeared between its two
\* critical sections.
THEOREM IfAbsentIsHarmless == Spec => IfAbsentNeverOverwrites
  <1>1. ASSUME IInv
        PROVE  \A id \in DOMAIN route_table :
                 \A i \in DOMAIN ListOf(id) :
                   LET old  == ListOf(id)[i]
                       kept == \E j \in DOMAIN ListOf(id)' :
                                 /\ ListOf(id)'[j].key = old.key
                                 /\ ListOf(id)'[j].metric = old.metric
                                 /\ ListOf(id)'[j].rtt = old.rtt
                   IN  ~kept => \A offer \in Offer :
                                  offer.key = old.key => ~AddIfAbsentLocked(id, offer)
    <2> SUFFICES ASSUME NEW id \in DOMAIN route_table, NEW i \in DOMAIN ListOf(id),
                        NEW offer \in Offer, offer.key = ListOf(id)[i].key,
                        AddIfAbsentLocked(id, offer)
                 PROVE  \E j \in DOMAIN ListOf(id)' :
                          /\ ListOf(id)'[j].key = ListOf(id)[i].key
                          /\ ListOf(id)'[j].metric = ListOf(id)[i].metric
                          /\ ListOf(id)'[j].rtt = ListOf(id)[i].rtt
      OBVIOUS
    <2>1. ListOf(id) \in Seq(Route) /\ UniqueKeys(ListOf(id))
      BY <1>1, ListOfFacts
    <2>2. route_table' = WithList(id, AddToList(ListOf(id), offer, TRUE))
      BY DEF AddIfAbsentLocked, AddLocked
    <2>3. ListOf(id)' = AddToList(ListOf(id), offer, TRUE)
      BY <2>2 DEF ListOf, Has, WithList, WithEntry
    <2>4. PICK list \in Seq(Route) : list = ListOf(id) /\ UniqueKeys(list)
      BY <2>1
    <2>5. i \in DOMAIN list /\ offer.key = list[i].key
      BY <2>4
    <2>6. PICK out : out = AddToList(list, offer, TRUE)
      OBVIOUS
    <2>7. /\ i \in DOMAIN out /\ out[i].key = list[i].key
          /\ out[i].metric = list[i].metric /\ out[i].rtt = list[i].rtt
      BY ONLY offer \in Offer, list \in Seq(Route), <2>4, <2>5, <2>6, IfAbsentKeeps
    <2>8. ListOf(id)' = out
      BY <2>3, <2>4, <2>6
    <2> QED
      BY <2>4, <2>7, <2>8
  <1> QED
    BY <1>1, InvariantHolds, PTL DEF Spec, IfAbsentNeverOverwrites
=============================================================================

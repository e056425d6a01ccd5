------------------------------ MODULE StunTest ------------------------------
(***************************************************************************)
(* rustp2p-core/src/stun/mod.rs: what a NAT test may report.  A test has   *)
(* two rounds, each with a new socket per address family; a socket asks    *)
(* one server after another and collects the mapped addresses it is told.  *)
(* The test shares no state with other tasks, so it is a set of results:   *)
(* one for every way in which answers are lost, late or duplicated.  An    *)
(* answer is taken for that of the current query whatever query it was     *)
(* meant for: its transaction id is not looked at, and connecting the      *)
(* socket to the next server keeps what has already been received from the *)
(* one before (the answer to a repeated request).                          *)
(***************************************************************************)
EXTENDS Integers, Sequences, FiniteSets, FiniteSetsExt

CONSTANTS
  Servers,  \* the servers in order: family and destination
  Changed,  \* family -> destination -> its other address, 0 if it names none
  MaxDest   \* the destinations are numbered from 1 to MaxDest

Family == {"v4", "v6"}

ASSUME StunConstants ==
  /\ MaxDest \in Nat
  /\ Servers \in Seq([family : Family, dest : 1 .. MaxDest])
  /\ Changed \in [Family -> [1 .. MaxDest -> 0 .. MaxDest]]

NatKind == {"cone", "symmetric"}

\* The port a NAT maps the socket of a round and family to, as destination d
\* sees it: a cone NAT has one, a symmetric NAT one per destination.
MappedPort(nat, round, f, d) ==
  100 * round + (IF f = "v4" THEN 0 ELSE 50) + (IF nat = "cone" THEN 0 ELSE d)

-----------------------------------------------------------------------------
\* test_nat_: the destinations whose answer the socket may read after asking
\* d; asked are those it asked before.  0: both tries time out.
Answer(d, asked) == {0, d} \cup asked

\* test_nat: what a server adds to the answers.  The second query goes to the
\* other address the first answer names; its failure is tolerated.
TestNat(f, d, asked) ==
  {{}} \cup
  UNION {LET c == Changed[f][first]
         IN  {{first}} \cup (IF c = 0 THEN {}
                             ELSE {{first, second} : second \in Answer(c, asked \cup {d}) \ {0}}) :
           first \in Answer(d, asked) \ {0}}

\* The destinations server i's socket may have asked before.
Asked(i) ==
  LET before == {j \in 1 .. i - 1 : Servers[j].family = Servers[i].family}
  IN  (UNION {{Servers[j].dest, Changed[Servers[j].family][Servers[j].dest]} : j \in before})
        \ {0}

\* stun_test_nat0: what each family's socket may have heard after i servers.
\* A family without a socket hears nothing, nor does a round that fails.
Heard[i \in 0 .. Len(Servers)] ==
  IF i = 0 THEN {[f \in Family |-> {}]}
  ELSE LET f == Servers[i].family
       IN  UNION {{[h EXCEPT ![f] = @ \cup new] :
                     new \in TestNat(f, Servers[i].dest, Asked(i))} : h \in Heard[i - 1]}

\* mapped_port_range, of one family.
MappedPortRange(ports) == IF ports = {} THEN 0 ELSE Max(ports) - Min(ports)

\* Mutant of MappedNatType: the families are not told apart.
MappedNatTypeUnion(mapped) ==
  IF Cardinality(UNION {mapped[f] : f \in Family}) > 1 THEN "Symmetric" ELSE "Cone"

MappedNatType(mapped) ==
  IF \E f \in Family : Cardinality(mapped[f]) > 1 THEN "Symmetric" ELSE "Cone"

\* The result of a round that heard h.
RoundResult(nat, round, h) ==
  LET mapped == [f \in Family |-> {MappedPort(nat, round, f, d) : d \in h[f]}]
  IN  [type |-> MappedNatType(mapped),
       range |-> Max({MappedPortRange(mapped[f]) : f \in Family})]

\* stun_test_nat_bound: a symmetric first round is the result.
Combine(r1, r2) ==
  IF r1.type = "Symmetric" THEN r1
  ELSE [type |-> r2.type, range |-> Max({r1.range, r2.range})]

\* The results a test may have behind each kind of NAT.
StunResults ==
  [nat \in NatKind |->
     LET Round(n) == {RoundResult(nat, n, h) : h \in Heard[Len(Servers)]}
     IN  {Combine(r1, r2) : r1 \in Round(1), r2 \in Round(2)}]
=============================================================================

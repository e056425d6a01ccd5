------------------------------ MODULE Puncher ------------------------------
(***************************************************************************)
(* Puncher of rustp2p-core/src/punch/mod.rs, a handle that tasks share:    *)
(* the assistant sockets that apply_nat_model opens and closes, and the    *)
(* rounds of punch_now, which scan the ports of a peer behind a symmetric  *)
(* NAT a part at a time and remember in port_cursor where to go on.        *)
(*                                                                         *)
(* Rounds for one key of that map are modelled, the first public address   *)
(* of a peer: peers behind one address share the cursor, and their rounds  *)
(* are rounds like any other.  Other keys appear when the bounded map is   *)
(* full.  The packets a round sends between its accesses to the shared map *)
(* change nothing shared and are one step with the first of them.  Left    *)
(* out: when a round is due (need_punch), and the addresses that are not   *)
(* scanned for.                                                            *)
(***************************************************************************)
EXTENDS Integers, FiniteSets, FiniteSetsExt

CONSTANTS
  Applier,        \* tasks that call apply_nat_model
  MaxAssistants,  \* max_assistant_sockets
  PunchTask,      \* tasks that call punch_now
  PeerInfo,       \* what the peer's NatInfo may say: NAT type, public addresses
  Model,          \* the punch models: sets of policy sets
  NumPorts,       \* length of shuffled_ports (65535 in the code)
  MaxK2,          \* the lengths of a scan (1200 to 1499 in the code)
  Nobody

ASSUME PuncherConstants ==
  /\ MaxAssistants \in Nat /\ NumPorts \in Nat \ {0} /\ MaxK2 \subseteq Nat \ {0}
  /\ PeerInfo \subseteq [type : {"Cone", "Symmetric"}, ips : Nat]
  /\ Nobody \notin Applier

VARIABLES
  assistants,  \* how many assistant sockets are open
  modelLock,   \* who holds the assistant model lock
  applier,     \* task -> where its apply_nat_model is
  applied,     \* history: what the last finished apply_nat_model did
  cursor,      \* the peer's entry in port_cursor, 0 if it has none
  round,       \* task -> where its round is
  tried        \* history: the ports a scan has sent to, at all addresses it knew

assistantVars == <<assistants, modelLock, applier, applied>>
roundVars     == <<cursor, round, tried>>

NoCall == [pc |-> "idle", type |-> "Cone", left |-> 0]

-----------------------------------------------------------------------------
(* apply_nat_model. *)

ApplyNatModel(a, type) ==
  /\ applier[a].pc = "idle"
  /\ applier' = [applier EXCEPT ![a] = [pc |-> "lock", type |-> type, left |-> 0]]
  /\ UNCHANGED <<assistants, modelLock, applied>>

\* Mutant of Missing: the sockets that are there are not counted.
MissingAll(type) == IF type = "Symmetric" THEN MaxAssistants ELSE 0

\* How many sockets are to be added.
Missing(type) ==
  IF type = "Symmetric" /\ MaxAssistants > assistants
  THEN MaxAssistants - assistants ELSE 0

\* Mutant of LockModel: there is no lock.
LockNothing(a) ==
  /\ applier[a].pc = "lock"
  /\ applier' = [applier EXCEPT ![a].pc = "change", ![a].left = Missing(applier[a].type)]
  /\ UNCHANGED <<assistants, modelLock, applied>>

LockModel(a) ==
  /\ applier[a].pc = "lock"
  /\ modelLock = Nobody
  /\ modelLock' = a
  /\ applier' = [applier EXCEPT ![a].pc = "change", ![a].left = Missing(applier[a].type)]
  /\ UNCHANGED <<assistants, applied>>

Unlock(a, outcome) ==
  /\ modelLock' = Nobody
  /\ applied' = outcome
  /\ applier' = [applier EXCEPT ![a] = NoCall]

AddAssistant(a) ==
  /\ applier[a].pc = "change"
  /\ applier[a].left > 0
  /\ assistants' = assistants + 1
  /\ applier' = [applier EXCEPT ![a].left = @ - 1]
  /\ UNCHANGED <<modelLock, applied>>

\* A socket cannot be bound: those already added stay.
AddFails(a) ==
  /\ applier[a].pc = "change"
  /\ applier[a].left > 0
  /\ Unlock(a, "failed")
  /\ UNCHANGED assistants

\* All sockets are there, or, behind a cone NAT, all are removed.
ApplyDone(a) ==
  /\ applier[a].pc = "change"
  /\ applier[a].left = 0
  /\ assistants' = IF applier[a].type = "Cone" THEN 0 ELSE assistants
  /\ Unlock(a, applier[a].type)

-----------------------------------------------------------------------------
(* punch_now. *)

\* PunchModel::is_match: every set of the model has the policy, and there is one.
IsMatch(model, policy) == model # {} /\ \A set \in model : policy \in set

\* punch_udp scans for a symmetric peer with a public address.
Scans(info, model) ==
  /\ IsMatch(model, "IPv4Udp")
  /\ info.type = "Symmetric"
  /\ info.ips > 0

RoundState == [pc : {"idle", "scan", "write", "tcp"}, ips : Nat, index : 0 .. NumPorts - 1]

InRound(pc, ips, index) == [pc |-> pc, ips |-> ips, index |-> index]

NoRound == InRound("idle", 0, 0)

\* punch_now as far as the scan; without one the TCP connects are next.
PunchNow(t, info, model) ==
  /\ round[t].pc = "idle"
  /\ round' = [round EXCEPT ![t] = IF Scans(info, model) THEN InRound("scan", info.ips, 0)
                                                         ELSE InRound("tcp", 0, 0)]
  /\ UNCHANGED <<cursor, tried>>

\* Mutant of PunchSymmetric: the port at which it stops counts as done.
PunchSymmetricNext(ports, ips, max) ==
  LET stop == {i \in 0 .. ports - 1 : \E ip \in 1 .. ips : i * ips + ip = max}
  IN  IF stop = {} THEN ports ELSE Min(stop) + 1

\* How many of the ports get a packet for each of the addresses: one packet
\* less than max is sent.
PunchSymmetric(ports, ips, max) ==
  LET stop == {i \in 0 .. ports - 1 : \E ip \in 1 .. ips : i * ips + ip = max}
  IN  IF stop = {} THEN ports ELSE Min(stop)

\* Mutant of ScanFrom: every round begins at the first port.
ScanFromFirst == 0

ScanFrom == cursor

\* Phase 2: read the cursor, scan.
Scan(t, max) ==
  LET start == ScanFrom
      end   == Min({start + max, NumPorts})
      index == start + PunchSymmetric(end - start, round[t].ips, max)
      sent  == {p \in start .. end - 1 : (p - start + 1) * round[t].ips < max}
  IN  /\ round[t].pc = "scan"
      /\ tried' = tried \cup sent
      /\ round' = [round EXCEPT ![t] = InRound("write", 0, IF index >= NumPorts THEN 0
                                                                                ELSE index)]
      /\ UNCHANGED cursor

\* Afterwards the cursor is written, whatever other rounds wrote meanwhile.
WriteCursor(t) ==
  /\ round[t].pc = "write"
  /\ cursor' = round[t].index
  /\ round' = [round EXCEPT ![t] = InRound("tcp", 0, 0)]
  /\ UNCHANGED tried

\* The TCP connects end, one way or another.
JoinTcp(t) ==
  /\ round[t].pc = "tcp"
  /\ round' = [round EXCEPT ![t] = NoRound]
  /\ UNCHANGED <<cursor, tried>>

\* A round of another peer finds port_cursor full and clears it.
OthersClear ==
  /\ cursor # 0
  /\ cursor' = 0
  /\ UNCHANGED <<round, tried>>

-----------------------------------------------------------------------------
PuncherInit ==
  /\ assistants = 0
  /\ modelLock = Nobody
  /\ applier = [a \in Applier |-> NoCall]
  /\ applied = "none"
  /\ cursor = 0
  /\ round = [t \in PunchTask |-> NoRound]
  /\ tried = {}

\* What apply_nat_model does after it was called.
ApplyStep == \E a \in Applier : LockModel(a) \/ AddAssistant(a) \/ AddFails(a) \/ ApplyDone(a)

RoundStep ==
  \/ \E t \in PunchTask :
       \/ \E info \in PeerInfo, model \in Model : PunchNow(t, info, model)
       \/ \E max \in MaxK2 : Scan(t, max)
       \/ WriteCursor(t)
       \/ JoinTcp(t)
  \/ OthersClear

PuncherTypeOK ==
  /\ assistants \in 0 .. MaxAssistants
  /\ modelLock \in Applier \cup {Nobody}
  /\ applier \in [Applier -> [pc : {"idle", "lock", "change"}, type : {"Cone", "Symmetric"},
                              left : 0 .. MaxAssistants]]
  /\ applied \in {"none", "failed", "Cone", "Symmetric"}
  /\ cursor \in 0 .. NumPorts - 1
  /\ round \in [PunchTask -> RoundState]
  /\ tried \subseteq 0 .. NumPorts - 1

-----------------------------------------------------------------------------
\* Once nobody changes the model, the sockets are those of the type applied
\* last: all assistants or none.  Calls of apply_nat_model on clones of the
\* puncher, which count the sockets and then add what is missing, do not mix.
AssistantsMatch ==
  modelLock = Nobody =>
    /\ applied = "Symmetric" => assistants = MaxAssistants
    /\ applied = "Cone" => assistants = 0

\* Every port before the cursor has got its packets, one for each address that
\* the round which counted it knew: rounds for the same public address
\* that overlap, stop at the packet limit in the middle of a port or lose the
\* cursor to a full map never make a scan skip a port ("The cursor persists
\* across punch attempts so we don't re-scan the same ports every time").
NoPortSkipped == \A p \in 0 .. cursor - 1 : p \in tried

\* As long as rounds with a scan go on and the cursor is not lost for ever
\* again, every port gets its packet.
EveryPortTried ==
  []<><<\E t \in PunchTask : WriteCursor(t)>>_roundVars
    /\ ~[]<><<OthersClear>>_roundVars
  => <>(tried = 0 .. NumPorts - 1)
=============================================================================

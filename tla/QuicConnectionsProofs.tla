----------------------- MODULE QuicConnectionsProofs -----------------------
(***************************************************************************)
(* The maps of QuicPeerSocket and the connection cache of QuicEndpoint,    *)
(* for any numbers of targets, addresses, callers and connections.         *)
(* SocketInv is inductive for the maps alone, and with it they implement   *)
(* AddressBook.  QuicInv extends it to the callers, the connections and    *)
(* the cache, whose steps are steps of the maps or leave them alone.       *)
(***************************************************************************)
EXTENDS QuicConnections, TLAPS

\* Address a is of no use to anybody but t: it is mapped to t or free, and
\* only calls for t hold it.
Claim(a, t) ==
  /\ a \in Addr
  /\ virtualByAddr[a] \in {t, None}
  /\ \A k \in Task : a \in {task[k].addr, task[k].other} => task[k].target = t

\* A connection that came about and went to t.
Reaching(i, t) ==
  /\ i \in ConnId
  /\ conns[i].status \in {"live", "closed"} /\ conns[i].reaches = t

\* What a caller that waits relies on.
CallerOK(c) ==
  LET d == call[c]
  IN  /\ d.pc # "idle" => d.target # None
      /\ d.pc = "registering" =>
           /\ task[c].target = d.target
           /\ task[c].pc \notin {"idle", "forget", "unmap"}
      /\ d.pc = "cache" /\ d.target \notin Via => Claim(d.addr, d.target)
      /\ d.pc = "handshake" =>
           /\ d.conn \in ConnId /\ conns[d.conn].status = "handshake"
           /\ Claim(conns[d.conn].addr, d.target)
      /\ d.pc \in {"insert", "start"} =>
           Reaching(d.conn, d.target) /\ conns[d.conn].addr \in Addr

\* Two callers never wait for the same handshake.
OwnHandshake ==
  \A c, d \in Caller :
    c # d /\ At(c, "handshake") /\ At(d, "handshake") => call[c].conn # call[d].conn

CacheOK == \A t \in Target : cache[t] # 0 => Reaching(cache[t], t)

\* An incoming connection has the address its first packet came with.
IncomingOK == \A i \in ConnId : conns[i].status = "incoming" => conns[i].addr \in Addr

\* The inductive invariant.
QuicInv ==
  /\ SocketInv /\ TypeOK
  /\ \A c \in Caller : CallerOK(c)
  /\ OwnHandshake
  /\ CacheOK
  /\ IncomingOK

-----------------------------------------------------------------------------
(* The maps. *)

\* Every map is empty and no call is running.
LEMMA SocketInitInv == SocketInit => SocketInv
  BY VirtualPeersConstants
     DEF SocketInit, SocketInv, SocketTypeOK, TaskState, NoCall, Call, Routed, CallOK, Apart

\* Starting a call changes nothing but the caller's own state.
LEMMA StartInv ==
  ASSUME SocketInv, NEW k \in Task, NEW t \in Target, Register(k, t) \/ Release(k, t)
  PROVE  SocketInv'
<1> USE VirtualPeersConstants DEF SocketInv, Register, Release
<1>1. SocketTypeOK'
  BY DEF SocketTypeOK, TaskState, NoCall, Call, CallOK
<1>2. Routed'
  BY DEF SocketTypeOK, TaskState, NoCall, Call, Routed, CallOK, Apart
<1>3. ASSUME NEW j \in Task
      PROVE  CallOK(j)'
  BY DEF SocketTypeOK, TaskState, NoCall, Call, Routed, CallOK, Apart
<1>4. ASSUME NEW i \in Task, NEW j \in Task
      PROVE  Apart(i, j)'
  BY DEF SocketTypeOK, TaskState, NoCall, Call, Routed, CallOK, Apart
<1> QED
  BY <1>1, <1>2, <1>3, <1>4

\* So does ending one.
LEMMA ReturnInv ==
  ASSUME SocketInv, NEW k \in Task, Return(k)
  PROVE  SocketInv'
<1> USE VirtualPeersConstants DEF SocketInv, Return
<1>1. SocketTypeOK'
  BY DEF SocketTypeOK, TaskState, NoCall, Call, CallOK
<1>2. Routed'
  BY DEF SocketTypeOK, TaskState, NoCall, Call, Routed, CallOK, Apart
<1>3. ASSUME NEW j \in Task
      PROVE  CallOK(j)'
  BY DEF SocketTypeOK, TaskState, NoCall, Call, Routed, CallOK, Apart
<1>4. ASSUME NEW i \in Task, NEW j \in Task
      PROVE  Apart(i, j)'
  BY DEF SocketTypeOK, TaskState, NoCall, Call, Routed, CallOK, Apart
<1> QED
  BY <1>1, <1>2, <1>3, <1>4

\* The address read for the target is mapped to it, so whoever else holds that
\* address holds it for the same target.
LEMMA LookInv ==
  ASSUME SocketInv, NEW k \in Task, Look(k)
  PROVE  SocketInv'
<1> DEFINE t == task[k].target
           a == virtualByPeer[t]
<1> USE VirtualPeersConstants
<1>1. /\ task \in [Task -> TaskState] /\ \A j \in Task : CallOK(j)
      /\ \A i, j \in Task : Apart(i, j)
  BY DEF SocketInv, SocketTypeOK
<1>2. /\ t \in Target /\ task[k].addr = None /\ task[k].other = None
      /\ task[k] \in TaskState
  BY <1>1 DEF Look, CallOK, TaskState
<1>3. /\ a \in Addr \cup {None}
      /\ a # None => virtualByAddr[a] = t
  BY <1>2 DEF SocketInv, SocketTypeOK, Routed
<1>4. /\ task' \in [Task -> TaskState]
      /\ task'[k].pc = (IF a = None THEN "allocate" ELSE "ensure")
      /\ task'[k].target = t /\ task'[k].addr = a /\ task'[k].other = None
      /\ \A j \in Task : j # k => task'[j] = task[j]
  BY <1>1, <1>2, <1>3 DEF Look, TaskState
<1>5. UNCHANGED <<virtualByAddr, virtualByPeer>>
  BY DEF Look
<1> HIDE DEF t
<1>6. SocketTypeOK' /\ Routed'
  BY <1>4, <1>5 DEF SocketInv, SocketTypeOK, Routed
<1> HIDE DEF a
<1>7. ASSUME NEW j \in Task
      PROVE  CallOK(j)'
  <2>1. CASE j = k
    BY <1>2, <1>3, <1>4, <1>5, <2>1 DEF CallOK
  <2>2. CASE j # k
    BY <1>1, <1>4, <1>5, <2>2 DEF CallOK
  <2> QED
    BY <2>1, <2>2
<1>8. ASSUME NEW i \in Task, NEW j \in Task
      PROVE  Apart(i, j)'
  <2>1. CASE i # k /\ j # k
    BY <1>1, <1>4, <2>1 DEF Apart
  <2>2. CASE i = k /\ j = k
    BY <1>4, <2>2 DEF Apart
  <2>3. CASE i = k /\ j # k
    BY <1>1, <1>2, <1>3, <1>4, <2>3 DEF Apart, CallOK
  <2>4. CASE i # k /\ j = k
    <3>1. task[i].addr # None /\ task[i].addr = a => task[i].target = t
      BY <1>1, <1>2, <1>3 DEF CallOK
    <3>2. task[i].pc = "publish" => task[i].addr # a /\ task[i].addr # None
      BY <1>1, <1>2 DEF CallOK, a
    <3> QED
      BY <1>4, <2>4, <3>1, <3>2 DEF Apart
  <2> QED
    BY <2>1, <2>2, <2>3, <2>4
<1> QED
  BY <1>6, <1>7, <1>8 DEF SocketInv

\* The new address is free and nobody holds it.
LEMMA AllocateInv ==
  ASSUME SocketInv, NEW k \in Task, NEW a \in Addr, Allocate(k, a)
  PROVE  SocketInv'
<1> USE VirtualPeersConstants DEF SocketInv, Allocate, Held
<1>1. SocketTypeOK'
  BY DEF SocketTypeOK, TaskState, NoCall, Call, CallOK
<1>2. Routed'
  BY DEF SocketTypeOK, TaskState, NoCall, Call, Routed, CallOK, Apart
<1>3. ASSUME NEW j \in Task
      PROVE  CallOK(j)'
  BY DEF SocketTypeOK, TaskState, NoCall, Call, Routed, CallOK, Apart
<1>4. ASSUME NEW i \in Task, NEW j \in Task
      PROVE  Apart(i, j)'
  BY DEF SocketTypeOK, TaskState, NoCall, Call, Routed, CallOK, Apart
<1> QED
  BY <1>1, <1>2, <1>3, <1>4

\* Either the own address, mapped to the target, is published, or the published
\* one is held as well.
LEMMA PublishInv ==
  ASSUME SocketInv, NEW k \in Task, PublishAddr(k)
  PROVE  SocketInv'
<1> USE VirtualPeersConstants DEF SocketInv, PublishAddr
<1>1. SocketTypeOK'
  BY DEF SocketTypeOK, TaskState, NoCall, Call, CallOK
<1>2. Routed'
  BY DEF SocketTypeOK, TaskState, NoCall, Call, Routed, CallOK, Apart
<1>3. ASSUME NEW j \in Task
      PROVE  CallOK(j)'
  BY DEF SocketTypeOK, TaskState, NoCall, Call, Routed, CallOK, Apart
<1>4. ASSUME NEW i \in Task, NEW j \in Task
      PROVE  Apart(i, j)'
  BY DEF SocketTypeOK, TaskState, NoCall, Call, Routed, CallOK, Apart
<1> QED
  BY <1>1, <1>2, <1>3, <1>4

\* The reserved address is not published.
LEMMA UndoInv ==
  ASSUME SocketInv, NEW k \in Task, Undo(k)
  PROVE  SocketInv'
<1> DEFINE t == task[k].target
           a == task[k].addr
           o == task[k].other
<1> USE VirtualPeersConstants
<1>1. /\ task \in [Task -> TaskState] /\ \A j \in Task : CallOK(j)
      /\ \A i, j \in Task : Apart(i, j)
      /\ virtualByAddr \in [Addr -> Target \cup {None}]
  BY DEF SocketInv, SocketTypeOK
<1>2. /\ t \in Target /\ a \in Addr /\ o \in Addr /\ task[k] \in TaskState
      /\ task[k].pc = "undo"
  BY <1>1 DEF Undo, CallOK, TaskState
<1>3. /\ virtualByAddr[a] \in {t, None} /\ virtualByAddr[o] \in {t, None}
      /\ \A u \in Target : virtualByPeer[u] # a
  BY <1>1, <1>2 DEF CallOK
<1>4. /\ task' \in [Task -> TaskState]
      /\ task'[k].pc = "ensure"
      /\ task'[k].target = t /\ task'[k].addr = o /\ task'[k].other = None
      /\ \A j \in Task : j # k => task'[j] = task[j]
  BY <1>1, <1>2 DEF Undo, TaskState
<1>5. /\ virtualByAddr' \in [Addr -> Target \cup {None}]
      /\ virtualByAddr'[a] = None
      /\ \A b \in Addr : b # a => virtualByAddr'[b] = virtualByAddr[b]
      /\ virtualByPeer' = virtualByPeer
  BY <1>1, <1>2, <1>3 DEF Undo
<1>6. SocketTypeOK'
  BY <1>4, <1>5 DEF SocketInv, SocketTypeOK
<1>7. Routed'
  BY <1>3, <1>5 DEF SocketInv, SocketTypeOK, Routed
<1>8. \A j \in Task : task[j].addr \in Addr \cup {None} /\ task[j].other \in Addr \cup {None}
  BY <1>1 DEF TaskState
<1>9. \A j \in Task : j # k /\ task[j].pc = "publish" => task[j].addr # a
  BY <1>1 DEF Apart
<1> HIDE DEF t, a, o
<1>10. ASSUME NEW j \in Task
       PROVE  CallOK(j)'
  <2>1. CASE j = k
    BY <1>2, <1>3, <1>4, <1>5, <2>1 DEF CallOK
  <2>2. CASE j # k
    BY <1>1, <1>4, <1>5, <1>8, <1>9, <2>2 DEF CallOK
  <2> QED
    BY <2>1, <2>2
<1>11. \A j \in Task : /\ o \in {task[j].addr, task[j].other} => task[j].target = t
                       /\ j # k /\ task[j].pc = "publish" => task[j].addr # o
  BY <1>1, <1>2 DEF Apart, t, a, o
<1>12. ASSUME NEW i \in Task, NEW j \in Task
       PROVE  Apart(i, j)'
  <2>1. CASE i # k /\ j # k
    BY <1>1, <1>4, <2>1 DEF Apart
  <2>2. CASE i = k /\ j = k
    BY <1>4, <2>2 DEF Apart
  <2>3. CASE i = k /\ j # k
    BY <1>4, <1>11, <2>3 DEF Apart
  <2>4. CASE i # k /\ j = k
    <3>1. task[i].pc = "publish" => task[i].addr # None
      BY <1>1 DEF CallOK
    <3> QED
      BY <1>4, <1>11, <2>4, <3>1 DEF Apart
  <2> QED
    BY <2>1, <2>2, <2>3, <2>4
<1> QED
  BY <1>6, <1>7, <1>10, <1>12 DEF SocketInv

\* The address is the target's or free.
LEMMA EnsureInv ==
  ASSUME SocketInv, NEW k \in Task, Ensure(k)
  PROVE  SocketInv'
<1> USE VirtualPeersConstants DEF SocketInv, Ensure
<1>1. SocketTypeOK'
  BY DEF SocketTypeOK, TaskState, NoCall, Call, CallOK
<1>2. Routed'
  BY DEF SocketTypeOK, TaskState, NoCall, Call, Routed, CallOK, Apart
<1>3. ASSUME NEW j \in Task
      PROVE  CallOK(j)'
  BY DEF SocketTypeOK, TaskState, NoCall, Call, Routed, CallOK, Apart
<1>4. ASSUME NEW i \in Task, NEW j \in Task
      PROVE  Apart(i, j)'
  BY DEF SocketTypeOK, TaskState, NoCall, Call, Routed, CallOK, Apart
<1> QED
  BY <1>1, <1>2, <1>3, <1>4

\* The published address belongs to this target alone, so once it is withdrawn
\* nobody publishes it.
LEMMA ForgetInv ==
  ASSUME SocketInv, NEW k \in Task, Forget(k)
  PROVE  SocketInv'
<1> USE VirtualPeersConstants DEF SocketInv
<1>1. SocketTypeOK'
  BY DEF Forget, SocketTypeOK, TaskState, NoCall, Call, CallOK
<1>2. Routed'
  BY DEF Forget, SocketTypeOK, TaskState, NoCall, Call, Routed, CallOK, Apart
<1>3. PICK t \in Target, a \in Addr \cup {None} :
        /\ t = task[k].target /\ a = virtualByPeer[t]
        /\ a # None => virtualByAddr[a] = t
  BY DEF Forget, SocketTypeOK, TaskState, CallOK, Routed
<1>4. /\ virtualByPeer' = [virtualByPeer EXCEPT ![t] = None]
      /\ task' = [task EXCEPT ![k] = IF a = None THEN NoCall ELSE Call("unmap", t, a)]
      /\ virtualByAddr' = virtualByAddr
  BY <1>3 DEF Forget
<1>5. /\ task'[k] = IF a = None THEN NoCall ELSE Call("unmap", t, a)
      /\ \A j \in Task : j # k => task'[j] = task[j]
  BY <1>4 DEF SocketTypeOK
<1>6. /\ virtualByPeer'[t] = None
      /\ \A u \in Target : u # t => virtualByPeer'[u] = virtualByPeer[u]
  BY <1>4 DEF SocketTypeOK
<1>7. \A u \in Target : a # None => virtualByPeer'[u] # a
  BY <1>3, <1>6 DEF Routed
<1>8. ASSUME NEW j \in Task
      PROVE  CallOK(j)'
  <2>1. CASE j = k
    BY <1>3, <1>4, <1>5, <1>7, <2>1, SMTT(20) DEF NoCall, Call, CallOK
  <2>2. CASE j # k
    <3>1. task'[j] = task[j] /\ CallOK(j)
      BY <1>5, <2>2
    <3> QED
      BY <1>4, <1>6, <3>1 DEF CallOK
  <2> QED
    BY ONLY <2>1, <2>2
<1>9. ASSUME NEW j \in Task, a # None
      PROVE  /\ a \in {task[j].addr, task[j].other} => task[j].target = t
             /\ task[j].pc = "publish" => task[j].addr # a
  <2>1. CallOK(j) /\ virtualByAddr[a] = t /\ t # None /\ virtualByPeer[t] = a
    BY <1>3, <1>9
  <2> QED
    BY <1>9, <2>1 DEF CallOK
<1>10. ASSUME NEW i \in Task, NEW j \in Task
       PROVE  Apart(i, j)'
  <2>1. CASE i # k /\ j # k
    BY <1>5, <2>1 DEF Apart
  <2>2. CASE i = k /\ j = k
    BY <1>5, <2>2 DEF Apart, NoCall, Call
  <2>3. CASE i = k /\ j # k
    <3>1. task'[j] = task[j]
      BY <1>5, <2>3
    <3> QED
      BY <1>5, <1>9, <2>3, <3>1 DEF Apart, NoCall, Call
  <2>4. CASE i # k /\ j = k
    <3>1. task'[i] = task[i] /\ CallOK(i)
      BY <1>5, <2>4
    <3>2. task[i].pc = "publish" => task[i].addr # None
      BY <3>1 DEF CallOK
    <3> QED
      BY <1>5, <1>9, <2>4, <3>1, <3>2 DEF Apart, NoCall, Call
  <2> QED
    BY <2>1, <2>2, <2>3, <2>4
<1> QED
  BY <1>1, <1>2, <1>8, <1>10

\* What is unmapped is not published.
LEMMA UnmapInv ==
  ASSUME SocketInv, NEW k \in Task, Unmap(k)
  PROVE  SocketInv'
<1> USE VirtualPeersConstants DEF SocketInv, Unmap
<1>1. SocketTypeOK'
  BY DEF SocketTypeOK, TaskState, NoCall, Call, CallOK
<1>2. Routed'
  BY DEF SocketTypeOK, TaskState, NoCall, Call, Routed, CallOK, Apart
<1>3. ASSUME NEW j \in Task
      PROVE  CallOK(j)'
  BY DEF SocketTypeOK, TaskState, NoCall, Call, Routed, CallOK, Apart
<1>4. ASSUME NEW i \in Task, NEW j \in Task
      PROVE  Apart(i, j)'
  BY DEF SocketTypeOK, TaskState, NoCall, Call, Routed, CallOK, Apart
<1> QED
  BY <1>1, <1>2, <1>3, <1>4

\* Whatever task makes the next step.
LEMMA SocketNextInv == SocketInv /\ [SocketNext]_socketVars => SocketInv'
<1> SUFFICES ASSUME SocketInv, [SocketNext]_socketVars
             PROVE  SocketInv'
  OBVIOUS
<1>1. CASE UNCHANGED socketVars
  BY <1>1 DEF socketVars, SocketInv, SocketTypeOK, Routed, CallOK, Apart
<1>2. CASE SocketNext
  <2>1. PICK k \in Task :
          \/ SocketStep(k, Addr)
          \/ Return(k)
          \/ \E t \in Target : Register(k, t) \/ Release(k, t)
    BY <1>2 DEF SocketNext
  <2>2. CASE SocketStep(k, Addr)
    BY <2>2, LookInv, AllocateInv, PublishInv, UndoInv, EnsureInv, ForgetInv,
       UnmapInv DEF SocketStep
  <2>3. CASE Return(k)
    BY <2>3, ReturnInv
  <2>4. CASE \E t \in Target : Register(k, t) \/ Release(k, t)
    BY <2>4, StartInv
  <2> QED
    BY <2>1, <2>2, <2>3, <2>4
<1> QED
  BY <1>1, <1>2

\* The calls of any number of tasks keep the maps consistent: SocketInv is an
\* invariant of QuicPeerSocket.
THEOREM SocketInvariant == SocketSpec => []SocketInv
  BY SocketNextInv, SocketInitInv, PTL DEF SocketSpec

\* A step of a call is a step of the address book or leaves both maps alone.
LEMMA StepImplements ==
  ASSUME SocketInv, NEW k \in Task, SocketStep(k, Addr)
  PROVE  Book!Next \/ UNCHANGED <<virtualByAddr, virtualByPeer>>
<1> DEFINE t == task[k].target
           a == task[k].addr
<1> USE DEF SocketInv
<1>1. CASE Look(k)
  BY <1>1 DEF Look
<1>2. ASSUME NEW b \in Addr, Allocate(k, b)
      PROVE  Book!Next
  <2>1. t \in Target
    BY <1>2 DEF SocketTypeOK, TaskState, CallOK, Allocate
  <2>2. Book!Assign(b, t)
    BY <1>2 DEF Allocate, Book!Assign
  <2> QED
    BY <2>1, <2>2 DEF Book!Next
<1>3. CASE PublishAddr(k)
  <2>1. t \in Target /\ a \in Addr /\ virtualByAddr[a] = t
    BY <1>3 DEF SocketTypeOK, TaskState, CallOK, PublishAddr
  <2>2. Book!Publish(a, t) \/ UNCHANGED <<virtualByAddr, virtualByPeer>>
    BY <1>3, <2>1 DEF PublishAddr, Book!Publish
  <2> QED
    BY <2>1, <2>2 DEF Book!Next
<1>4. CASE Undo(k) \/ Unmap(k)
  <2>1. a \in Addr /\ \A u \in Target : virtualByPeer[u] # a
    BY <1>4 DEF SocketTypeOK, TaskState, CallOK, Undo, Unmap
  <2>2. Book!Free(a) \/ UNCHANGED <<virtualByAddr, virtualByPeer>>
    BY <1>4, <2>1 DEF Undo, Unmap, Book!Free
  <2> QED
    BY <2>1, <2>2 DEF Book!Next
<1>5. CASE Ensure(k)
  <2>1. t \in Target /\ a \in Addr /\ virtualByAddr[a] \in {t, None}
    BY <1>5 DEF SocketTypeOK, TaskState, CallOK, Ensure
  <2>2. Book!Assign(a, t) \/ UNCHANGED <<virtualByAddr, virtualByPeer>>
    BY <1>5, <2>1 DEF SocketTypeOK, Ensure, Book!Assign
  <2> QED
    BY <2>1, <2>2 DEF Book!Next
<1>6. CASE Forget(k)
  <2>1. t \in Target
    BY <1>6 DEF SocketTypeOK, TaskState, CallOK, Forget
  <2>2. Book!Withdraw(t)
    BY <1>6 DEF Forget, Book!Withdraw
  <2> QED
    BY <2>1, <2>2 DEF Book!Next
<1> QED
  BY <1>1, <1>2, <1>3, <1>4, <1>5, <1>6 DEF SocketStep

LEMMA BookStep ==
  SocketInv /\ [SocketNext]_socketVars => [Book!Next]_<<virtualByAddr, virtualByPeer>>
<1> SUFFICES ASSUME SocketInv, SocketNext
             PROVE  Book!Next \/ UNCHANGED <<virtualByAddr, virtualByPeer>>
  BY DEF socketVars
<1>1. PICK k \in Task :
        \/ SocketStep(k, Addr)
        \/ Return(k)
        \/ \E t \in Target : Register(k, t) \/ Release(k, t)
  BY DEF SocketNext
<1> QED
  BY <1>1, StepImplements DEF Return, Register, Release

LEMMA BookInit == SocketInit => Book!Init
  BY DEF SocketInit, Book!Init

\* QuicPeerSocket implements the address book, whatever calls interleave
\* (register_virtual_peer, release_virtual_peer and their per-route forms).
THEOREM SocketImplementsBook == SocketSpec => ImplementsBook
  BY BookInit, BookStep, SocketInvariant, PTL DEF SocketSpec, ImplementsBook, Book!Spec

-----------------------------------------------------------------------------
(* Claims. *)

\* Starting a call or ending one does not touch a claim.
LEMMA ClaimCall ==
  ASSUME SocketInv, NEW a, NEW t \in Target, Claim(a, t), NEW k \in Task, NEW u,
         Register(k, u) \/ Release(k, u) \/ Return(k)
  PROVE  Claim(a, t)'
<1>1. task \in [Task -> TaskState] /\ UNCHANGED virtualByAddr
  BY DEF SocketInv, SocketTypeOK, Register, Release, Return
<1>2. task'[k].addr = None /\ task'[k].other = None /\ \A j \in Task : j # k => task'[j] = task[j]
  BY <1>1 DEF Register, Release, Return, Call, NoCall
<1>3. a # None
  BY VirtualPeersConstants DEF Claim
<1> QED
  BY <1>1, <1>2, <1>3 DEF Claim

\* What a step of a call does to the addresses it holds, and to the maps.
LEMMA ClaimStep ==
  ASSUME SocketInv, NEW a, NEW t \in Target, Claim(a, t), NEW k \in Task, NEW F,
         F \subseteq Addr, a \notin F, SocketStep(k, F)
  PROVE  Claim(a, t)'
<1> DEFINE u == task[k].target
<1> USE VirtualPeersConstants
<1>1. /\ task \in [Task -> TaskState] /\ CallOK(k)
      /\ virtualByAddr \in [Addr -> Target \cup {None}]
      /\ virtualByPeer \in [Target -> Addr \cup {None}]
      /\ Routed
  BY DEF SocketInv, SocketTypeOK
<1>2. /\ a \in Addr /\ virtualByAddr[a] \in {t, None} /\ a # None
      /\ \A j \in Task : a \in {task[j].addr, task[j].other} => task[j].target = t
  BY DEF Claim
<1>3. task[k] \in TaskState /\ task[k].pc # "idle"
  BY <1>1 DEF SocketStep, Look, PublishAddr, Undo, Ensure, Forget, Unmap, Allocate
<1>4. u \in Target
  BY <1>1, <1>3 DEF CallOK, TaskState
<1>5. virtualByPeer[u] = a => u = t
  BY <1>2, <1>4, <1>1 DEF Routed
<1>6. \A j \in Task : j # k => task'[j] = task[j]
  BY <1>1 DEF SocketStep, Look, PublishAddr, Undo, Ensure, Forget, Unmap, Allocate
<1>7. ASSUME virtualByAddr'[a] \in {t, None},
             a \in {task'[k].addr, task'[k].other} => task'[k].target = t
      PROVE  Claim(a, t)'
  BY <1>2, <1>6, <1>7 DEF Claim
<1>8. CASE Look(k)
  <2>1. /\ UNCHANGED virtualByAddr /\ task'[k].addr = virtualByPeer[u]
        /\ task'[k].other = task[k].other /\ task'[k].target = u
    BY <1>1, <1>3, <1>8 DEF Look, TaskState
  <2> QED
    BY <1>2, <1>5, <1>7, <2>1
<1>9. CASE PublishAddr(k)
  <2>1. /\ UNCHANGED virtualByAddr /\ task'[k].addr = task[k].addr
        /\ task'[k].other \in {task[k].other, virtualByPeer[u]} /\ task'[k].target = u
    BY <1>1, <1>3, <1>9 DEF PublishAddr, TaskState
  <2> QED
    BY <1>2, <1>5, <1>7, <2>1
<1>10. CASE Undo(k)
  <2>1. /\ task'[k].addr = task[k].other /\ task'[k].other = None /\ task'[k].target = u
    BY <1>1, <1>3, <1>10 DEF Undo, TaskState
  <2>2. task[k].addr \in Addr
    BY <1>1, <1>3, <1>10 DEF Undo, CallOK, TaskState
  <2>3. virtualByAddr'[a] \in {virtualByAddr[a], None}
    BY <1>1, <1>2, <1>10, <2>2 DEF Undo
  <2> QED
    BY <1>2, <1>7, <2>1, <2>3
<1>11. CASE Ensure(k)
  <2>1. /\ task'[k].addr = task[k].addr /\ task'[k].other = task[k].other
        /\ task'[k].target = u
    BY <1>1, <1>3, <1>11 DEF Ensure, TaskState
  <2>2. task[k].addr \in Addr
    BY <1>1, <1>3, <1>11 DEF Ensure, CallOK, TaskState
  <2>3. virtualByAddr'[a] = IF a = task[k].addr THEN u ELSE virtualByAddr[a]
    BY <1>1, <1>2, <1>11, <2>2 DEF Ensure
  <2> QED
    BY <1>2, <1>7, <2>1, <2>3
<1>12. CASE Forget(k)
  <2>1. /\ UNCHANGED virtualByAddr /\ task'[k].other = None
        /\ \/ task'[k].addr = None
           \/ task'[k].addr = virtualByPeer[u] /\ task'[k].target = u
    BY <1>1, <1>3, <1>12 DEF Forget, NoCall, Call
  <2> QED
    BY <1>2, <1>5, <1>7, <2>1
<1>13. CASE Unmap(k)
  <2>1. task'[k].addr = None /\ task'[k].other = None
    BY <1>1, <1>13 DEF Unmap, NoCall, Call
  <2>2. task[k].addr \in Addr
    BY <1>1, <1>3, <1>13 DEF Unmap, CallOK, TaskState
  <2>3. virtualByAddr'[a] \in {virtualByAddr[a], None}
    BY <1>1, <1>2, <1>13, <2>2 DEF Unmap
  <2> QED
    BY <1>2, <1>7, <2>1, <2>3
<1>14. CASE \E b \in F : Allocate(k, b)
  <2>1. PICK b \in F : Allocate(k, b)
    BY <1>14
  <2>2. task'[k].addr = b /\ task'[k].other = task[k].other /\ task'[k].target = u
    BY <1>1, <1>3, <2>1 DEF Allocate, TaskState
  <2>3. virtualByAddr'[a] = virtualByAddr[a] /\ a # b
    BY <1>1, <1>2, <2>1 DEF Allocate
  <2> QED
    BY <1>2, <1>7, <2>2, <2>3
<1> QED
  BY <1>8, <1>9, <1>10, <1>11, <1>12, <1>13, <1>14 DEF SocketStep

\* An address that register_virtual_peer returned is the target's own.
LEMMA ClaimReturned ==
  ASSUME SocketInv, NEW k \in Task, task[k].pc = "registered"
  PROVE  /\ task[k].addr \in Addr /\ task[k].target \in Target
         /\ Claim(task[k].addr, task[k].target)
<1>1. task \in [Task -> TaskState] /\ CallOK(k) /\ \A j \in Task : Apart(k, j)
  BY DEF SocketInv, SocketTypeOK
<1>2. task[k].addr # None /\ task[k].addr \in Addr /\ task[k].target \in Target
  BY <1>1 DEF CallOK, TaskState
<1>3. virtualByAddr[task[k].addr] \in {task[k].target, None}
  BY <1>1, <1>2 DEF CallOK
<1>4. \A j \in Task : task[k].addr \in {task[j].addr, task[j].other} => task[j].target = task[k].target
  BY <1>1, <1>2 DEF Apart
<1> QED
  BY <1>2, <1>3, <1>4 DEF Claim

-----------------------------------------------------------------------------
(* What every step of the endpoint does to the maps and to a connection. *)

LEMMA Tasks ==
  /\ Via \subseteq Target /\ MaxConns \in Nat
  /\ Loop \in Task /\ Loop \notin Reader
  /\ \A r \in Reader : r \in Task
  /\ \A c \in Caller : c \in Task /\ c # Loop /\ c \notin Reader
  BY QuicConstants

LEMMA CallFacts ==
  ASSUME QuicInv, NEW c \in Caller
  PROVE  /\ call \in [Caller -> CallState] /\ conns \in [ConnId -> Conn]
         /\ cache \in [Target -> 0 .. MaxConns] /\ task \in [Task -> TaskState]
         /\ call[c] \in CallState /\ CallerOK(c)
         /\ call[c].pc # "idle" => call[c].target \in Target
<1>1. /\ call \in [Caller -> CallState] /\ conns \in [ConnId -> Conn]
      /\ cache \in [Target -> 0 .. MaxConns] /\ task \in [Task -> TaskState] /\ CallerOK(c)
  BY DEF QuicInv, TypeOK, SocketTypeOK
<1>2. call[c] \in CallState
  BY <1>1
<1>3. call[c].pc # "idle" => call[c].target \in Target
  BY <1>1, <1>2 DEF CallState, CallerOK
<1> QED
  BY <1>1, <1>2, <1>3

\* The endpoint changes the maps through QuicPeerSocket only.
LEMMA SocketPart ==
  ASSUME QuicInv, [QuicNext]_quicVars
  PROVE  \/ \E k \in Task : SocketStep(k, Fresh)
         \/ \E k \in Task : Return(k)
         \/ \E k \in Task, t \in Target : Register(k, t) \/ Release(k, t)
         \/ UNCHANGED socketVars
<1>1. CASE UNCHANGED quicVars
  BY <1>1 DEF quicVars, socketVars
<1>2. CASE \E k \in Task : SocketStep(k, Fresh) /\ UNCHANGED <<call, conns, cache>>
  BY <1>2
<1>3. ASSUME NEW c \in Caller, CallCached(c) \/ CallConnect(c) \/ Connected(c) \/ ConnectFails(c)
               \/ Insert(c) \/ StartConnectionTasks(c) \/ CallReturns(c)
      PROVE  UNCHANGED socketVars
  BY <1>3 DEF CallCached, CallConnect, Connected, ConnectFails, Insert, StartConnectionTasks,
     CallReturns, socketVars
<1>4. ASSUME NEW c \in Caller, CallRegister(c)
      PROVE  \E k \in Task, t \in Target : Register(k, t)
  <2>1. Register(c, call[c].target) /\ call[c].target \in Via
    BY <1>4 DEF CallRegister
  <2> QED
    BY <2>1, Tasks
<1>5. ASSUME NEW c \in Caller, CallRegistered(c)
      PROVE  \E k \in Task : Return(k)
  BY <1>5, Tasks DEF CallRegistered
<1>6. ASSUME NEW c \in Caller, CallFailed(c) \/ OpenFails(c)
      PROVE  UNCHANGED socketVars \/ \E k \in Task, t \in Target : Release(k, t)
  <2>1. call[c].target \in Target
    BY <1>6, CallFacts DEF CallFailed, OpenFails, At
  <2>2. UNCHANGED socketVars \/ Release(c, call[c].target)
    BY <1>6 DEF CallFailed, OpenFails, ReleaseIf
  <2> QED
    BY <2>1, <2>2, Tasks
<1>7. ASSUME NEW c \in Caller, NEW t \in Target, CallStart(c, t)
      PROVE  UNCHANGED socketVars \/ Register(c, t)
  BY <1>7 DEF CallStart
<1>8. CASE \E t \in Target : LoopRegister(t)
  BY <1>8, Tasks DEF LoopRegister
<1>9. CASE LoopInject
  BY <1>9, Tasks DEF LoopInject
<1>10. ASSUME NEW i \in ConnId, Accept(i) \/ AcceptFails(i) \/ Close(i)
       PROVE  UNCHANGED socketVars
  BY <1>10 DEF Accept, AcceptFails, Close, socketVars
<1>11. ASSUME NEW i \in ConnId, NEW r \in Reader, ReaderEnds(i, r)
       PROVE  UNCHANGED socketVars \/ \E k \in Task, t \in Target : Release(k, t)
  <2>1. conns[i] \in Conn
    BY DEF QuicInv, TypeOK
  <2>2. UNCHANGED socketVars \/ (conns[i].peer # None /\ Release(r, conns[i].peer))
    BY <1>11 DEF ReaderEnds, IsCached
  <2>3. conns[i].peer # None => conns[i].peer \in Target
    BY <2>1 DEF Conn
  <2> QED
    BY <2>2, <2>3, Tasks
<1>12. CASE \E c \in Caller :
              \/ CallCached(c) \/ CallRegister(c) \/ CallRegistered(c) \/ CallConnect(c)
              \/ Connected(c) \/ ConnectFails(c) \/ Insert(c) \/ StartConnectionTasks(c)
              \/ CallFailed(c) \/ CallReturns(c) \/ OpenFails(c)
              \/ \E t \in Target : CallStart(c, t)
  BY <1>3, <1>4, <1>5, <1>6, <1>7, <1>12, Tasks
<1>13. CASE \E i \in ConnId : \/ Accept(i) \/ AcceptFails(i) \/ Close(i)
                              \/ \E r \in Reader : ReaderEnds(i, r)
  BY <1>10, <1>11, <1>13
<1> QED
  BY <1>1, <1>2, <1>8, <1>9, <1>12, <1>13 DEF QuicNext

LEMMA FreshAddr == Fresh \subseteq Addr
  BY DEF Fresh

LEMMA SocketPartNext == QuicInv /\ [QuicNext]_quicVars => [SocketNext]_socketVars
<1> SUFFICES ASSUME QuicInv, [QuicNext]_quicVars PROVE [SocketNext]_socketVars
  OBVIOUS
<1>1. ASSUME NEW k \in Task, SocketStep(k, Fresh) PROVE SocketStep(k, Addr)
  BY <1>1, FreshAddr DEF SocketStep
<1> QED
  BY <1>1, SocketPart DEF SocketNext

\* No claim on an address that somebody remembers is lost.
ClaimsKept ==
  \A a \in Addr, t \in Target : a \notin Fresh /\ Claim(a, t) => Claim(a, t)'

LEMMA StepKeepsClaims == ASSUME QuicInv, [QuicNext]_quicVars PROVE ClaimsKept
<1> SUFFICES ASSUME NEW a \in Addr, NEW t \in Target, a \notin Fresh, Claim(a, t)
             PROVE  Claim(a, t)'
  BY DEF ClaimsKept
<1>1. SocketInv
  BY DEF QuicInv
<1>2. ASSUME NEW k \in Task, SocketStep(k, Fresh) PROVE Claim(a, t)'
  BY <1>1, <1>2, FreshAddr, ClaimStep
<1>3. ASSUME NEW k \in Task, Return(k) PROVE Claim(a, t)'
  BY <1>1, <1>3, ClaimCall
<1>4. ASSUME NEW k \in Task, NEW u \in Target, Register(k, u) \/ Release(k, u) PROVE Claim(a, t)'
  BY <1>1, <1>4, ClaimCall
<1>5. CASE UNCHANGED socketVars
  BY <1>5 DEF socketVars, Claim
<1> QED
  BY <1>2, <1>3, <1>4, <1>5, SocketPart

\* A connection that came about stays what it is, open or closed.
ConnsKept ==
  \A i \in ConnId : conns[i].status \in {"live", "closed"} =>
    /\ conns'[i].status \in {"live", "closed"}
    /\ conns'[i].reaches = conns[i].reaches
    /\ conns'[i].addr = conns[i].addr

\* So it is enough to look at the connection a step is about.
LEMMA OneConn ==
  ASSUME NEW i \in ConnId, NEW r, conns \in [ConnId -> Conn], conns' = [conns EXCEPT ![i] = r],
         \/ conns[i].status \notin {"live", "closed"}
         \/ /\ r.status \in {"live", "closed"} /\ r.reaches = conns[i].reaches
            /\ r.addr = conns[i].addr
  PROVE  ConnsKept
<1>1. conns'[i] = r /\ \A j \in ConnId : j # i => conns'[j] = conns[j]
  OBVIOUS
<1> QED
  BY <1>1 DEF ConnsKept

\* A caller that does not move.
LEMMA OtherCaller ==
  ASSUME QuicInv, ClaimsKept, ConnsKept, NEW d \in Caller, call'[d] = call[d],
         At(d, "registering") =>
           task'[d].target = task[d].target /\ task'[d].pc \notin {"idle", "forget", "unmap"},
         At(d, "handshake") => conns'[call[d].conn] = conns[call[d].conn]
  PROVE  CallerOK(d)'
<1> DEFINE e == call[d]
<1>1. CallerOK(d) /\ e \in CallState /\ (e.pc # "idle" => e.target \in Target)
  BY CallFacts
<1>2. ASSUME e.pc = "cache", e.target \notin Via PROVE Claim(e.addr, e.target)'
  <2>1. Claim(e.addr, e.target) /\ e.addr \in Addr /\ e.target \in Target
    BY <1>1, <1>2 DEF CallerOK, Claim
  <2>2. e.addr \notin Fresh
    BY DEF Fresh
  <2>3. \A a \in Addr, t \in Target : a \notin Fresh /\ Claim(a, t) => Claim(a, t)'
    BY DEF ClaimsKept
  <2>4. PICK a \in Addr, t \in Target : a = e.addr /\ t = e.target
    BY <2>1
  <2>5. Claim(a, t)'
    BY <2>1, <2>2, <2>3, <2>4
  <2>6. e.addr' = a /\ e.target' = t
    BY <2>4
  <2> QED
    BY <2>5, <2>6 DEF Claim
<1>3. ASSUME e.pc = "handshake"
      PROVE  /\ e.conn \in ConnId /\ conns'[e.conn].status = "handshake"
             /\ Claim(conns[e.conn].addr, e.target)'
  <2> DEFINE a == conns[e.conn].addr
  <2>1. /\ e.conn \in ConnId /\ conns[e.conn].status = "handshake" /\ Claim(a, e.target)
        /\ a \in Addr /\ e.target \in Target
    BY <1>1, <1>3 DEF CallerOK, Claim
  <2>2. a \notin Fresh
    BY <2>1 DEF Fresh
  <2>3. conns'[e.conn] = conns[e.conn] /\ e' = e
    BY <1>3 DEF At
  <2>4. PICK b \in Addr, t \in Target : b = a /\ t = e.target
    BY <2>1
  <2>5. Claim(b, t)'
    BY <2>1, <2>2, <2>4 DEF ClaimsKept
  <2>6. a' = b /\ e.target' = t
    BY <2>3, <2>4
  <2>7. Claim(a, e.target)'
    BY <2>5, <2>6 DEF Claim
  <2> QED
    BY <2>1, <2>3, <2>7
<1>4. ASSUME e.pc \in {"insert", "start"}
      PROVE  Reaching(e.conn, e.target)' /\ conns'[e.conn].addr \in Addr
  <2>1. Reaching(e.conn, e.target) /\ conns[e.conn].addr \in Addr
    BY <1>1, <1>4 DEF CallerOK
  <2> QED
    BY <2>1 DEF Reaching, ConnsKept
<1>5. e' = e
  OBVIOUS
<1>6. e.pc = "registering" =>
        task'[d].target = e.target /\ task'[d].pc \notin {"idle", "forget", "unmap"}
  BY <1>1 DEF CallerOK, At
<1> HIDE DEF e
<1>7. call'[d] = e
  BY <1>5 DEF e
<1> QED
  BY <1>1, <1>2, <1>3, <1>4, <1>5, <1>6, <1>7 DEF CallerOK

LEMMA OtherHandshake ==
  ASSUME QuicInv, NEW i \in ConnId, NEW r, conns' = [conns EXCEPT ![i] = r], NEW d \in Caller,
         At(d, "handshake"), conns[i].status # "handshake" \/ i # call[d].conn
  PROVE  conns'[call[d].conn] = conns[call[d].conn]
<1>1. call[d].conn \in ConnId /\ conns[call[d].conn].status = "handshake"
  BY CallFacts DEF CallerOK, At
<1>2. conns \in [ConnId -> Conn] /\ i # call[d].conn
  BY <1>1 DEF QuicInv, TypeOK
<1> QED
  BY <1>1, <1>2

LEMMA CacheFrame ==
  ASSUME QuicInv, ConnsKept, \A t \in Target : cache'[t] = 0 \/ cache'[t] = cache[t]
  PROVE  CacheOK'
<1>1. CacheOK
  BY DEF QuicInv
<1> SUFFICES ASSUME NEW t \in Target, cache'[t] # 0 PROVE Reaching(cache[t], t)'
  BY DEF CacheOK, Reaching
<1>2. cache'[t] = cache[t] /\ Reaching(cache[t], t)
  BY <1>1 DEF CacheOK
<1> QED
  BY <1>2 DEF Reaching, ConnsKept

LEMMA HandshakeFrame ==
  ASSUME QuicInv,
         \A d \in Caller : call'[d].pc = "handshake" =>
           call[d].pc = "handshake" /\ call'[d].conn = call[d].conn
  PROVE  OwnHandshake'
  BY DEF QuicInv, OwnHandshake, At

\* With SocketInv' and IncomingOK' these make up QuicInv'.
RestInv ==
  /\ call \in [Caller -> CallState]
  /\ conns \in [ConnId -> Conn]
  /\ cache \in [Target -> 0 .. MaxConns]
  /\ \A c \in Caller : CallerOK(c)
  /\ OwnHandshake
  /\ CacheOK

LEMMA SocketStepRest ==
  ASSUME QuicInv, ClaimsKept, NEW k \in Task, SocketStep(k, Fresh), UNCHANGED <<call, conns, cache>>
  PROVE  RestInv'
<1>1. call \in [Caller -> CallState] /\ conns \in [ConnId -> Conn]
      /\ cache \in [Target -> 0 .. MaxConns] /\ task \in [Task -> TaskState]
  BY DEF QuicInv, TypeOK, SocketTypeOK
<1>2. ConnsKept
  BY DEF ConnsKept
<1>3. ASSUME NEW d \in Caller, At(d, "registering")
      PROVE  task'[d].target = task[d].target /\ task'[d].pc \notin {"idle", "forget", "unmap"}
  <2>1. task[d].pc \notin {"idle", "forget", "unmap"} /\ d \in Task /\ task[d] \in TaskState
    BY <1>1, <1>3, CallFacts, Tasks DEF CallerOK, At
  <2>2. CASE d # k
    <3>1. task'[d] = task[d]
      BY <1>1, <2>1, <2>2 DEF SocketStep, Look, PublishAddr, Undo, Ensure, Forget, Unmap, Allocate
    <3> QED
      BY <2>1, <3>1
  <2>3. CASE d = k
    <3>1. CASE Look(k) \/ PublishAddr(k)
      BY <1>1, <2>1, <2>3, <3>1 DEF Look, PublishAddr, TaskState
    <3>2. CASE Undo(k) \/ Ensure(k)
      BY <1>1, <2>1, <2>3, <3>2 DEF Undo, Ensure, TaskState
    <3>3. CASE \E a \in Fresh : Allocate(k, a)
      BY <1>1, <2>1, <2>3, <3>3 DEF Allocate, TaskState
    <3> QED
      BY <2>1, <2>3, <3>1, <3>2, <3>3 DEF SocketStep, Forget, Unmap
  <2> QED
    BY <2>2, <2>3
<1>4. ASSUME NEW d \in Caller PROVE CallerOK(d)'
  BY <1>2, <1>3, OtherCaller
<1>5. OwnHandshake'
  BY HandshakeFrame
<1>6. CacheOK'
  BY <1>2, CacheFrame
<1> QED
  BY <1>1, <1>4, <1>5, <1>6 DEF RestInv

LEMMA NoConnType == NoConn \in Conn
<1>1. 0 \in 0 .. 2
  OBVIOUS
<1> QED
  BY <1>1 DEF NoConn, Conn

LEMMA StartedType ==
  ASSUME NEW n \in Conn, NEW p \in Target \cup {None}
  PROVE  /\ Started(n, p) \in Conn /\ Started(n, p).status = n.status
         /\ Started(n, p).reaches = n.reaches /\ Started(n, p).addr = n.addr
<1>1. 2 \in 0 .. 2
  OBVIOUS
<1> QED
  BY <1>1 DEF Started, Conn

LEMMA LoopRest ==
  ASSUME QuicInv, ClaimsKept,
         \/ \E t \in Target : LoopRegister(t)
         \/ LoopInject
         \/ \E i \in ConnId : Accept(i) \/ AcceptFails(i)
  PROVE  RestInv'
<1>1. call \in [Caller -> CallState] /\ conns \in [ConnId -> Conn]
      /\ cache \in [Target -> 0 .. MaxConns] /\ task \in [Task -> TaskState]
  BY DEF QuicInv, TypeOK, SocketTypeOK
<1>2. UNCHANGED <<call, cache>>
  BY DEF LoopRegister, LoopInject, Accept, AcceptFails
<1>3. \A d \in Caller : task'[d] = task[d]
  BY <1>1, Tasks DEF LoopRegister, LoopInject, Accept, AcceptFails, Register, Return
<1>4. /\ conns' \in [ConnId -> Conn] /\ ConnsKept
      /\ \A d \in Caller : At(d, "handshake") => conns'[call[d].conn] = conns[call[d].conn]
  <2>1. CASE UNCHANGED conns
    BY <1>1, <2>1 DEF ConnsKept
  <2>2. ASSUME NEW i \in ConnId, NEW r \in Conn, conns' = [conns EXCEPT ![i] = r],
               conns[i].status \in {"unused", "incoming"}
        PROVE  /\ conns' \in [ConnId -> Conn] /\ ConnsKept
               /\ \A d \in Caller :
                    At(d, "handshake") => conns'[call[d].conn] = conns[call[d].conn]
    <3>1. ConnsKept
      BY <1>1, <2>2, OneConn
    <3>2. ASSUME NEW d \in Caller, At(d, "handshake")
          PROVE  conns'[call[d].conn] = conns[call[d].conn]
      BY <2>2, <3>2, OtherHandshake
    <3>3. conns' \in [ConnId -> Conn]
      BY <1>1, <2>2
    <3> QED
      BY <3>1, <3>2, <3>3
  <2>3. ASSUME LoopInject, ~UNCHANGED conns
        PROVE  \E i \in ConnId, r \in Conn :
                 conns' = [conns EXCEPT ![i] = r] /\ conns[i].status \in {"unused", "incoming"}
    <3> DEFINE r == [NoConn EXCEPT !.status = "incoming", !.addr = task[Loop].addr,
                                   !.reaches = task[Loop].target]
    <3>1. PICK i \in ConnId : conns[i].status = "unused" /\ conns' = [conns EXCEPT ![i] = r]
      BY <2>3 DEF LoopInject, NewConn
    <3>2. task[Loop].addr \in Addr /\ task[Loop].target \in Target
      BY <2>3, Tasks, ClaimReturned DEF QuicInv, LoopInject, Return
    <3>3. r \in Conn
      BY <3>2, NoConnType DEF Conn
    <3> HIDE DEF r
    <3> QED
      BY <3>1, <3>3
  <2>4. ASSUME NEW i \in ConnId, Accept(i)
        PROVE  \E r \in Conn :
                 conns' = [conns EXCEPT ![i] = r] /\ conns[i].status \in {"unused", "incoming"}
    <3> DEFINE n == [conns[i] EXCEPT !.status = "live"]
               p == virtualByAddr[conns[i].addr]
               r == Started(n, p)
    <3>1. conns[i].status = "incoming" /\ conns' = [conns EXCEPT ![i] = r]
      BY <1>1, <2>4 DEF Accept, Accepting
    <3>2. conns[i] \in Conn /\ conns[i].addr \in Addr
      BY <1>1, <3>1 DEF QuicInv, IncomingOK
    <3>3. n \in Conn
      BY <3>2 DEF Conn
    <3>4. p \in Target \cup {None}
      BY <3>2 DEF QuicInv, SocketInv, SocketTypeOK
    <3>5. r \in Conn
      <4> HIDE DEF n, p
      <4> QED
        BY <3>3, <3>4, StartedType
    <3> HIDE DEF r
    <3> QED
      BY <3>1, <3>5
  <2>5. ASSUME NEW i \in ConnId, AcceptFails(i)
        PROVE  \E r \in Conn :
                 conns' = [conns EXCEPT ![i] = r] /\ conns[i].status \in {"unused", "incoming"}
    <3> DEFINE r == [NoConn EXCEPT !.status = "refused"]
    <3>1. conns[i].status = "incoming" /\ conns' = [conns EXCEPT ![i] = r]
      BY <2>5 DEF AcceptFails, Accepting
    <3>2. r \in Conn
      BY NoConnType DEF Conn
    <3> HIDE DEF r
    <3> QED
      BY <3>1, <3>2
  <2> QED
    BY <2>1, <2>2, <2>3, <2>4, <2>5 DEF LoopRegister
<1>5. ASSUME NEW d \in Caller PROVE CallerOK(d)'
  <2>1. At(d, "registering") => task[d].pc \notin {"idle", "forget", "unmap"}
    BY CallFacts DEF CallerOK, At
  <2> QED
    BY <1>2, <1>3, <1>4, <2>1, OtherCaller
<1>6. OwnHandshake'
  BY <1>2, HandshakeFrame
<1>7. CacheOK'
  BY <1>2, <1>4, CacheFrame
<1> QED
  BY <1>1, <1>2, <1>4, <1>5, <1>6, <1>7 DEF RestInv

LEMMA CloseRest ==
  ASSUME QuicInv, ClaimsKept, NEW i \in ConnId,
         Close(i) \/ \E r \in Reader : ReaderEnds(i, r)
  PROVE  RestInv'
<1>1. /\ call \in [Caller -> CallState] /\ conns \in [ConnId -> Conn]
      /\ cache \in [Target -> 0 .. MaxConns] /\ task \in [Task -> TaskState]
      /\ conns[i] \in Conn
  BY DEF QuicInv, TypeOK, SocketTypeOK
<1>2. UNCHANGED call
  BY DEF Close, ReaderEnds
<1>3. \A d \in Caller : task'[d] = task[d]
  BY <1>1, Tasks DEF Close, ReaderEnds, Release, socketVars
<1>4. PICK r \in Conn :
        /\ conns' = [conns EXCEPT ![i] = r] /\ conns[i].status \in {"live", "closed"}
        /\ r.status \in {"live", "closed"} /\ r.reaches = conns[i].reaches
        /\ r.addr = conns[i].addr
  <2>1. CASE Close(i)
    <3> DEFINE r == [conns[i] EXCEPT !.status = "closed"]
    <3>1. conns' = [conns EXCEPT ![i] = r] /\ conns[i].status = "live"
      BY <1>1, <2>1 DEF Close
    <3>2. /\ r \in Conn /\ r.status = "closed" /\ r.reaches = conns[i].reaches
          /\ r.addr = conns[i].addr
      BY <1>1 DEF Conn
    <3> HIDE DEF r
    <3> QED
      BY <3>1, <3>2
  <2>2. CASE \E q \in Reader : ReaderEnds(i, q)
    <3> DEFINE r == [conns[i] EXCEPT !.readers = @ - 1]
    <3>1. /\ conns' = [conns EXCEPT ![i] = r] /\ conns[i].status = "closed"
          /\ conns[i].readers > 0
      BY <1>1, <2>2 DEF ReaderEnds
    <3>2. conns[i].readers - 1 \in 0 .. 2
      BY <1>1, <3>1 DEF Conn
    <3>3. /\ r \in Conn /\ r.status = conns[i].status /\ r.reaches = conns[i].reaches
          /\ r.addr = conns[i].addr
      BY <1>1, <3>2 DEF Conn
    <3> HIDE DEF r
    <3> QED
      BY <3>1, <3>3
  <2> QED
    BY <2>1, <2>2
<1>5. ConnsKept
  BY <1>1, <1>4, OneConn
<1>6. /\ cache' \in [Target -> 0 .. MaxConns]
      /\ \A t \in Target : cache'[t] = 0 \/ cache'[t] = cache[t]
  <2>1. UNCHANGED cache \/ \E t : cache' = [cache EXCEPT ![t] = 0]
    BY DEF Close, ReaderEnds
  <2>2. 0 \in 0 .. MaxConns
    BY Tasks
  <2> QED
    BY <1>1, <2>1, <2>2
<1>7. ASSUME NEW d \in Caller PROVE CallerOK(d)'
  <2>1. At(d, "registering") => task[d].pc \notin {"idle", "forget", "unmap"}
    BY CallFacts DEF CallerOK, At
  <2>2. At(d, "handshake") => conns'[call[d].conn] = conns[call[d].conn]
    BY <1>4, OtherHandshake
  <2> QED
    BY <1>2, <1>3, <1>5, <2>1, <2>2, OtherCaller
<1>8. OwnHandshake'
  BY <1>2, HandshakeFrame
<1>9. CacheOK'
  BY <1>5, <1>6, CacheFrame
<1>10. conns' \in [ConnId -> Conn]
  BY <1>1, <1>4
<1> QED
  BY <1>1, <1>2, <1>6, <1>7, <1>8, <1>9, <1>10 DEF RestInv

\* What a step of caller c leaves alone.
LEMMA CallerStep ==
  ASSUME QuicInv, NEW c \in Caller, NEW s \in CallState, call' = [call EXCEPT ![c] = s],
         \/ UNCHANGED socketVars
         \/ \E t : Register(c, t) \/ Release(c, t)
         \/ Return(c)
  PROVE  /\ call' \in [Caller -> CallState] /\ call'[c] = s
         /\ \A d \in Caller : d # c => call'[d] = call[d] /\ task'[d] = task[d]
<1>1. call \in [Caller -> CallState] /\ task \in [Task -> TaskState]
  BY CallFacts
<1>2. call' \in [Caller -> CallState] /\ call'[c] = s
      /\ \A d \in Caller : d # c => call'[d] = call[d]
  BY <1>1
<1>3. \A d \in Caller : d # c => task'[d] = task[d]
  BY <1>1, Tasks DEF socketVars, Register, Release, Return
<1> QED
  BY <1>2, <1>3

\* The steps of a caller that leave the connections alone.
LEMMA QuietCaller ==
  ASSUME QuicInv, ClaimsKept, UNCHANGED conns, NEW c \in Caller, NEW s \in CallState,
         call' = [call EXCEPT ![c] = s], s.pc # "handshake",
         \/ UNCHANGED socketVars
         \/ \E t : Register(c, t) \/ Release(c, t)
         \/ Return(c),
         CallerOK(c)', cache' \in [Target -> 0 .. MaxConns], CacheOK'
  PROVE  RestInv'
<1>1. /\ call' \in [Caller -> CallState] /\ call'[c] = s
      /\ \A d \in Caller : d # c => call'[d] = call[d] /\ task'[d] = task[d]
  BY CallerStep
<1>2. conns' \in [ConnId -> Conn] /\ ConnsKept
  BY CallFacts DEF ConnsKept
<1>3. ASSUME NEW d \in Caller PROVE CallerOK(d)'
  <2>1. CASE d = c
    BY <2>1
  <2>2. CASE d # c
    <3>1. At(d, "registering") => task[d].pc \notin {"idle", "forget", "unmap"}
      BY CallFacts DEF CallerOK, At
    <3> QED
      BY <1>1, <1>2, <2>2, <3>1, OtherCaller
  <2> QED
    BY <2>1, <2>2
<1>4. OwnHandshake'
  <2>1. \A d \in Caller : call'[d].pc = "handshake" =>
           call[d].pc = "handshake" /\ call'[d].conn = call[d].conn
    BY <1>1
  <2> QED
    BY <2>1, HandshakeFrame
<1> QED
  BY <1>1, <1>2, <1>3, <1>4 DEF RestInv

LEMMA GotoType ==
  ASSUME QuicInv, NEW c \in Caller,
         NEW pc \in {"registering", "insert", "start", "failed"}, Goto(c, pc)
  PROVE  \E s \in CallState :
           /\ call' = [call EXCEPT ![c] = s]
           /\ s.pc = pc /\ s.target = call[c].target /\ s.addr = call[c].addr
           /\ s.conn = call[c].conn
<1> DEFINE s == [call[c] EXCEPT !.pc = pc]
<1>1. call \in [Caller -> CallState] /\ call[c] \in CallState
  BY CallFacts
<1>2. call' = [call EXCEPT ![c] = s]
  BY <1>1 DEF Goto
<1>3. /\ s \in CallState /\ s.pc = pc /\ s.target = call[c].target /\ s.addr = call[c].addr
      /\ s.conn = call[c].conn
  BY <1>1 DEF CallState
<1> HIDE DEF s
<1> QED
  BY <1>2, <1>3

LEMMA CallStartRest ==
  ASSUME QuicInv, ClaimsKept, NEW c \in Caller, NEW t \in Target, CallStart(c, t)
  PROVE  RestInv'
<1>1. /\ call \in [Caller -> CallState] /\ cache \in [Target -> 0 .. MaxConns]
      /\ task \in [Task -> TaskState] /\ c \in Task
  BY CallFacts, Tasks
<1>2. UNCHANGED <<conns, cache>> /\ t # None /\ 0 \in 0 .. MaxConns
  BY VirtualPeersConstants, Tasks DEF CallStart
<1>3. ConnsKept
  BY <1>2 DEF ConnsKept
<1>4. cache' \in [Target -> 0 .. MaxConns] /\ CacheOK'
  BY <1>1, <1>2, <1>3, CacheFrame
<1>5. CASE t \in Via /\ call' = [call EXCEPT ![c] = Calling("cache", t, None, 0)]
           /\ UNCHANGED socketVars
  <2> DEFINE s == Calling("cache", t, None, 0)
  <2>1. s \in CallState /\ s.pc = "cache" /\ s.target = t
    BY <1>2 DEF Calling, CallState
  <2>2. call'[c] = s
    BY <1>1, <1>5
  <2> HIDE DEF s
  <2>3. CallerOK(c)'
    BY <1>2, <1>5, <2>1, <2>2 DEF CallerOK
  <2>4. call' = [call EXCEPT ![c] = s] /\ UNCHANGED conns
    BY <1>2, <1>5 DEF s
  <2> QED
    BY <1>4, <1>5, <2>1, <2>3, <2>4, QuietCaller
<1>6. CASE t \notin Via /\ call' = [call EXCEPT ![c] = Calling("registering", t, None, 0)]
           /\ Register(c, t)
  <2> DEFINE s == Calling("registering", t, None, 0)
  <2>1. s \in CallState /\ s.pc = "registering" /\ s.target = t
    BY <1>2 DEF Calling, CallState
  <2>2. call'[c] = s
    BY <1>1, <1>6
  <2> HIDE DEF s
  <2>3. task'[c].target = t /\ task'[c].pc = "look"
    BY <1>1, <1>6 DEF Register, Call
  <2>4. CallerOK(c)'
    BY <1>2, <2>1, <2>2, <2>3 DEF CallerOK
  <2>5. call' = [call EXCEPT ![c] = s] /\ UNCHANGED conns
    BY <1>2, <1>6 DEF s
  <2> QED
    BY <1>4, <1>6, <2>1, <2>4, <2>5, QuietCaller
<1>7. CASE t \notin Via /\ call' = [call EXCEPT ![c] = Calling("returned", t, None, 0)]
           /\ UNCHANGED socketVars
  <2> DEFINE s == Calling("returned", t, None, 0)
  <2>1. s \in CallState /\ s.pc = "returned" /\ s.target = t
    BY <1>2 DEF Calling, CallState
  <2>2. call'[c] = s
    BY <1>1, <1>7
  <2> HIDE DEF s
  <2>3. CallerOK(c)'
    BY <1>2, <1>7, <2>1, <2>2 DEF CallerOK
  <2>4. call' = [call EXCEPT ![c] = s] /\ UNCHANGED conns
    BY <1>2, <1>7 DEF s
  <2> QED
    BY <1>4, <1>7, <2>1, <2>3, <2>4, QuietCaller
<1> QED
  BY <1>5, <1>6, <1>7 DEF CallStart

\* The caller is done, or has what it asked for.
LEMMA CallEndsRest ==
  ASSUME QuicInv, ClaimsKept, NEW c \in Caller,
         CallCached(c) \/ CallReturns(c) \/ CallFailed(c) \/ OpenFails(c)
  PROVE  RestInv'
<1> DEFINE t == call[c].target
<1>1. /\ call \in [Caller -> CallState] /\ cache \in [Target -> 0 .. MaxConns]
      /\ 0 \in 0 .. MaxConns
  BY CallFacts, Tasks
<1>2. UNCHANGED conns /\ t \in Target /\ t # None
  BY CallFacts, VirtualPeersConstants DEF CallCached, CallReturns, CallFailed, OpenFails, At
<1>3. ConnsKept
  BY <1>2 DEF ConnsKept
<1>4. UNCHANGED cache \/ RemoveIfClosed(t)
  BY DEF CallCached, CallReturns, CallFailed, OpenFails
<1>5. UNCHANGED cache \/ cache' = [cache EXCEPT ![t] = 0]
  BY <1>4 DEF RemoveIfClosed
<1>6. /\ cache' \in [Target -> 0 .. MaxConns]
      /\ \A u \in Target : cache'[u] = 0 \/ cache'[u] = cache[u]
  BY <1>1, <1>5
<1>7. CacheOK'
  BY <1>3, <1>6, CacheFrame
<1>8. UNCHANGED socketVars \/ \E u : Release(c, u)
  BY DEF CallCached, CallReturns, CallFailed, OpenFails, ReleaseIf, socketVars
<1>9. PICK s \in CallState : /\ call' = [call EXCEPT ![c] = s]
                             /\ s.pc \in {"idle", "returned"}
                             /\ s.pc = "returned" => s.target = t
  <2>1. CASE CallCached(c) \/ CallFailed(c)
    <3>1. call' = [call EXCEPT ![c] = Calling("returned", t, None, 0)]
      BY <1>1, <2>1 DEF CallCached, CallFailed
    <3> QED
      <4> DEFINE s == Calling("returned", t, None, 0)
      <4>1. s \in CallState /\ s.pc = "returned" /\ s.target = t
        BY <1>1, <1>2 DEF Calling, CallState
      <4> HIDE DEF s
      <4> QED
        BY <3>1, <4>1 DEF s
  <2>2. CASE CallReturns(c) \/ OpenFails(c)
    <3>1. call' = [call EXCEPT ![c] = Calling("idle", None, None, 0)]
      BY <2>2 DEF CallReturns, OpenFails, NotCalling
    <3> QED
      <4> DEFINE s == Calling("idle", None, None, 0)
      <4>1. s \in CallState /\ s.pc = "idle"
        BY <1>1 DEF Calling, CallState
      <4> HIDE DEF s
      <4> QED
        BY <3>1, <4>1 DEF s
  <2> QED
    BY <2>1, <2>2
<1>10. CallerOK(c)'
  <2>1. call'[c] = s
    BY <1>1, <1>9
  <2> QED
    BY <1>2, <1>9, <2>1 DEF CallerOK
<1> HIDE DEF t
<1> QED
  BY <1>2, <1>6, <1>7, <1>8, <1>9, <1>10, QuietCaller

LEMMA CallRegisterRest ==
  ASSUME QuicInv, ClaimsKept, NEW c \in Caller, CallRegister(c)
  PROVE  RestInv'
<1>1. /\ call \in [Caller -> CallState] /\ cache \in [Target -> 0 .. MaxConns]
      /\ task \in [Task -> TaskState] /\ c \in Task
  BY CallFacts, Tasks
<1>2. /\ UNCHANGED <<conns, cache>> /\ Register(c, call[c].target) /\ Goto(c, "registering")
      /\ call[c].target \in Via
  BY DEF CallRegister
<1>3. ConnsKept
  BY <1>2 DEF ConnsKept
<1>4. cache' \in [Target -> 0 .. MaxConns] /\ CacheOK'
  BY <1>1, <1>2, <1>3, CacheFrame
<1>5. PICK s \in CallState : /\ call' = [call EXCEPT ![c] = s]
                             /\ s.pc = "registering" /\ s.target = call[c].target
  BY <1>2, GotoType
<1>6. task'[c].target = s.target /\ task'[c].pc = "look" /\ s.target # None
  BY <1>1, <1>2, <1>5, Tasks, VirtualPeersConstants DEF Register, Call
<1>7. CallerOK(c)'
  <2>1. call'[c] = s
    BY <1>1, <1>5
  <2> QED
    BY <1>5, <1>6, <2>1 DEF CallerOK
<1> QED
  BY <1>2, <1>4, <1>5, <1>7, QuietCaller

LEMMA InsertRest ==
  ASSUME QuicInv, ClaimsKept, NEW c \in Caller, Insert(c)
  PROVE  RestInv'
<1>1. PICK t \in Target, i \in ConnId :
        /\ t = call[c].target /\ i = call[c].conn /\ t # None
        /\ Reaching(i, t) /\ conns[i].addr \in Addr /\ i \in 0 .. MaxConns
  BY CallFacts, VirtualPeersConstants DEF Insert, At, CallerOK, Reaching, CallState
<1>2. /\ call \in [Caller -> CallState] /\ cache \in [Target -> 0 .. MaxConns]
  BY CallFacts
<1>3. UNCHANGED <<conns, socketVars>> /\ cache' = [cache EXCEPT ![t] = i] /\ Goto(c, "start")
  BY <1>1 DEF Insert, socketVars
<1>4. PICK s \in CallState : /\ call' = [call EXCEPT ![c] = s] /\ s.pc = "start"
                             /\ s.target = t /\ s.conn = i
  BY <1>1, <1>3, GotoType
<1>5. Reaching(i, t)'
  BY <1>1, <1>3 DEF Reaching
<1>6. CallerOK(c)'
  <2>1. call'[c] = s
    BY <1>2, <1>4
  <2>2. Reaching(s.conn, s.target)' /\ conns'[s.conn].addr \in Addr
    BY <1>1, <1>3, <1>4, <1>5
  <2> QED
    BY <1>1, <1>4, <2>1, <2>2 DEF CallerOK
<1>7. cache' \in [Target -> 0 .. MaxConns]
  BY <1>1, <1>2, <1>3
<1>8. CacheOK'
  <2> SUFFICES ASSUME NEW u \in Target, cache'[u] # 0 PROVE Reaching(cache[u], u)'
    BY DEF CacheOK
  <2>1. CASE u = t
    BY <1>2, <1>3, <1>5, <2>1
  <2>2. CASE u # t
    <3>1. cache'[u] = cache[u] /\ Reaching(cache[u], u)
      BY <1>2, <1>3, <2>2 DEF QuicInv, CacheOK
    <3> QED
      BY <1>3, <3>1 DEF Reaching
  <2> QED
    BY <2>1, <2>2
<1> QED
  BY <1>3, <1>4, <1>6, <1>7, <1>8, QuietCaller

\* The steps of a caller that change connection i.
LEMMA BusyCaller ==
  ASSUME QuicInv, ClaimsKept, UNCHANGED cache, NEW c \in Caller, NEW s \in CallState,
         call' = [call EXCEPT ![c] = s],
         UNCHANGED socketVars \/ Return(c),
         NEW i \in ConnId, NEW r \in Conn, conns' = [conns EXCEPT ![i] = r],
         \/ conns[i].status = "unused"
         \/ At(c, "handshake") /\ i = call[c].conn
         \/ /\ conns[i].status \in {"live", "closed"} /\ r.status \in {"live", "closed"}
            /\ r.reaches = conns[i].reaches /\ r.addr = conns[i].addr,
         s.pc = "handshake" => s.conn = i /\ conns[i].status = "unused",
         CallerOK(c)'
  PROVE  RestInv'
<1>1. /\ call' \in [Caller -> CallState] /\ call'[c] = s
      /\ \A d \in Caller : d # c => call'[d] = call[d] /\ task'[d] = task[d]
  BY CallerStep
<1>2. conns \in [ConnId -> Conn] /\ cache \in [Target -> 0 .. MaxConns]
  BY CallFacts
<1>3. conns' \in [ConnId -> Conn] /\ cache' \in [Target -> 0 .. MaxConns]
  BY <1>2
<1>4. At(c, "handshake") => call[c].conn \in ConnId /\ conns[call[c].conn].status = "handshake"
  BY CallFacts DEF CallerOK, At
<1>5. ConnsKept
  BY <1>2, <1>4, OneConn
<1>6. ASSUME NEW d \in Caller, d # c, At(d, "handshake")
      PROVE  i # call[d].conn
  <2>1. conns[call[d].conn].status = "handshake"
    BY <1>6, CallFacts DEF CallerOK, At
  <2>2. At(c, "handshake") => call[c].conn # call[d].conn
    BY <1>6 DEF QuicInv, OwnHandshake
  <2> QED
    BY <2>1, <2>2
<1>7. ASSUME NEW d \in Caller PROVE CallerOK(d)'
  <2>1. CASE d = c
    BY <2>1
  <2>2. CASE d # c
    <3>1. At(d, "registering") => task[d].pc \notin {"idle", "forget", "unmap"}
      BY CallFacts DEF CallerOK, At
    <3>2. At(d, "handshake") => conns'[call[d].conn] = conns[call[d].conn]
      BY <1>6, <2>2, OtherHandshake
    <3> QED
      BY <1>1, <1>5, <2>2, <3>1, <3>2, OtherCaller
  <2> QED
    BY <2>1, <2>2
<1>8. OwnHandshake'
  <2> SUFFICES ASSUME NEW d \in Caller, NEW e \in Caller, d # e,
                      call'[d].pc = "handshake", call'[e].pc = "handshake"
               PROVE  call'[d].conn # call'[e].conn
    BY DEF OwnHandshake, At
  <2>1. CASE d # c /\ e # c
    BY <1>1, <2>1 DEF QuicInv, OwnHandshake, At
  <2>2. CASE d = c
    BY <1>1, <1>6, <2>2 DEF At
  <2>3. CASE e = c
    BY <1>1, <1>6, <2>3 DEF At
  <2> QED
    BY <2>1, <2>2, <2>3
<1>9. CacheOK'
  BY <1>5, CacheFrame
<1> QED
  BY <1>1, <1>3, <1>7, <1>8, <1>9 DEF RestInv

LEMMA ConnectRest ==
  ASSUME QuicInv, ClaimsKept, UNCHANGED cache, NEW c \in Caller, NEW a \in Addr,
         NEW t \in Target, t = call[c].target, Connect(c, a), Claim(a, t)',
         UNCHANGED socketVars \/ Return(c)
  PROVE  RestInv'
<1> DEFINE r == [NoConn EXCEPT !.status = "handshake", !.addr = a]
<1>1. PICK i \in ConnId :
        /\ conns[i].status = "unused" /\ conns' = [conns EXCEPT ![i] = r]
        /\ call' = [call EXCEPT ![c] = Calling("handshake", @.target, None, i)]
  BY DEF Connect, NewConn
<1> DEFINE s == Calling("handshake", t, None, i)
<1>2. i \in 0 .. MaxConns /\ t # None
  BY Tasks, VirtualPeersConstants DEF ConnId
<1>3. s \in CallState /\ s.pc = "handshake" /\ s.target = t /\ s.conn = i
  BY <1>2 DEF Calling, CallState
<1>4. call' = [call EXCEPT ![c] = s] /\ call'[c] = s
  BY <1>1, CallFacts
<1>5. r \in Conn /\ r.status = "handshake" /\ r.addr = a
  BY NoConnType DEF Conn
<1> HIDE DEF r, s
<1>6. conns'[i] = r
  BY <1>1, CallFacts
<1>7. CallerOK(c)'
  <2>1. Claim(conns[i].addr, t)'
    BY <1>5, <1>6
  <2> QED
    BY <1>2, <1>3, <1>4, <1>5, <1>6, <2>1 DEF CallerOK
<1> QED
  BY <1>1, <1>3, <1>4, <1>5, <1>7, BusyCaller

LEMMA CallConnectRest ==
  ASSUME QuicInv, ClaimsKept, NEW c \in Caller, CallConnect(c)
  PROVE  RestInv'
<1>1. PICK a \in Addr, t \in Target : a = call[c].addr /\ t = call[c].target /\ Claim(a, t)
  <2>1. call[c].pc = "cache" /\ call[c].target \notin Via
    BY DEF CallConnect, At
  <2>2. CallerOK(c) /\ call[c].target \in Target
    BY <2>1, CallFacts
  <2>3. Claim(call[c].addr, call[c].target)
    BY <2>1, <2>2 DEF CallerOK
  <2>4. call[c].addr \in Addr
    BY <2>3 DEF Claim
  <2> QED
    BY <2>2, <2>3, <2>4
<1>2. a \notin Fresh
  BY <1>1 DEF Fresh
<1>3. Claim(a, t)'
  BY <1>1, <1>2 DEF ClaimsKept
<1>4. UNCHANGED cache /\ UNCHANGED socketVars /\ Connect(c, a)
  BY <1>1 DEF CallConnect, socketVars
<1> QED
  BY <1>1, <1>3, <1>4, ConnectRest

LEMMA CallRegisteredRest ==
  ASSUME QuicInv, ClaimsKept, NEW c \in Caller, CallRegistered(c)
  PROVE  RestInv'
<1>1. /\ At(c, "registering") /\ Return(c) /\ task[c].pc = "registered" /\ UNCHANGED cache
      /\ c \in Task /\ SocketInv
  BY Tasks DEF CallRegistered, Return, QuicInv
<1>2. PICK a \in Addr, t \in Target :
        a = task[c].addr /\ t = task[c].target /\ t = call[c].target /\ Claim(a, t)
  BY <1>1, CallFacts, ClaimReturned DEF CallerOK, At
<1>3. Claim(a, t)'
  BY <1>1, <1>2, ClaimCall
<1>4. CASE Connect(c, task[c].addr)
  BY <1>1, <1>2, <1>3, <1>4, ConnectRest
<1>5. CASE call' = [call EXCEPT ![c].pc = "cache", ![c].addr = task[c].addr] /\ UNCHANGED conns
  <2> DEFINE s == [call[c] EXCEPT !.pc = "cache", !.addr = a]
  <2>1. call \in [Caller -> CallState] /\ call[c] \in CallState
    BY CallFacts
  <2>2. call' = [call EXCEPT ![c] = s]
    BY <1>2, <1>5, <2>1
  <2>3. s \in CallState /\ s.pc = "cache" /\ s.target = t /\ s.addr = a
    BY <1>2, <2>1 DEF CallState
  <2> HIDE DEF s
  <2>4. call'[c] = s
    BY <2>1, <2>2
  <2>5. CallerOK(c)'
    <3>1. t # None
      BY VirtualPeersConstants
    <3> QED
      BY <1>3, <2>3, <2>4, <3>1 DEF CallerOK
  <2>6. ConnsKept
    BY <1>5 DEF ConnsKept
  <2>7. cache' \in [Target -> 0 .. MaxConns] /\ CacheOK'
    BY <1>1, <2>6, CallFacts, CacheFrame
  <2> QED
    BY <1>1, <1>5, <2>2, <2>3, <2>5, <2>7, QuietCaller
<1> QED
  BY <1>4, <1>5 DEF CallRegistered

\* The address was the target's or free throughout the handshake, so the
\* packets went to the target.
LEMMA ConnectedRest ==
  ASSUME QuicInv, ClaimsKept, NEW c \in Caller, Connected(c)
  PROVE  RestInv'
<1>1. PICK t \in Target, i \in ConnId :
        /\ t = call[c].target /\ i = call[c].conn /\ Claim(conns[i].addr, t)
        /\ conns[i].status = "handshake"
  BY CallFacts DEF Connected, At, CallerOK
<1>2. /\ virtualByAddr[conns[i].addr] = t /\ conns[i].addr \in Addr /\ t # None
  BY <1>1, VirtualPeersConstants DEF Connected, Claim
<1> DEFINE r == [conns[i] EXCEPT !.status = "live", !.reaches = t]
<1>3. conns \in [ConnId -> Conn] /\ conns[i] \in Conn /\ call \in [Caller -> CallState]
  BY CallFacts
<1>4. conns' = [conns EXCEPT ![i] = r]
  BY <1>1, <1>2, <1>3 DEF Connected
<1>5. r \in Conn /\ r.status = "live" /\ r.reaches = t /\ r.addr = conns[i].addr
  BY <1>3 DEF Conn
<1> HIDE DEF r
<1>6. Goto(c, "insert") /\ UNCHANGED socketVars /\ UNCHANGED cache /\ At(c, "handshake")
  BY DEF Connected, socketVars
<1>7. PICK s \in CallState : /\ call' = [call EXCEPT ![c] = s] /\ s.pc = "insert"
                             /\ s.target = t /\ s.conn = i
  BY <1>1, <1>6, GotoType
<1>8. conns'[i] = r /\ call'[c] = s
  BY <1>3, <1>4, <1>7
<1>9. CallerOK(c)'
  <2>1. Reaching(i, t)' /\ conns'[i].addr \in Addr
    BY <1>2, <1>5, <1>8 DEF Reaching
  <2> QED
    BY <1>2, <1>7, <1>8, <2>1 DEF CallerOK
<1> QED
  BY <1>1, <1>4, <1>5, <1>6, <1>7, <1>9, BusyCaller

LEMMA ConnectFailsRest ==
  ASSUME QuicInv, ClaimsKept, NEW c \in Caller, ConnectFails(c)
  PROVE  RestInv'
<1>1. PICK t \in Target, i \in ConnId : t = call[c].target /\ i = call[c].conn
  BY CallFacts DEF ConnectFails, At, CallerOK
<1> DEFINE r == [NoConn EXCEPT !.status = "closed"]
<1>2. r \in Conn
  BY NoConnType DEF Conn
<1>3. /\ conns' = [conns EXCEPT ![i] = r] /\ At(c, "handshake") /\ Goto(c, "failed")
      /\ UNCHANGED socketVars /\ UNCHANGED cache
  BY <1>1 DEF ConnectFails, socketVars
<1> HIDE DEF r
<1>4. PICK s \in CallState : call' = [call EXCEPT ![c] = s] /\ s.pc = "failed" /\ s.target = t
  BY <1>1, <1>3, GotoType
<1>5. CallerOK(c)'
  <2>1. call'[c] = s /\ t # None
    BY <1>4, CallFacts, VirtualPeersConstants
  <2> QED
    BY <1>4, <2>1 DEF CallerOK
<1> QED
  BY <1>1, <1>2, <1>3, <1>4, <1>5, BusyCaller

LEMMA StartTasksRest ==
  ASSUME QuicInv, ClaimsKept, NEW c \in Caller, StartConnectionTasks(c)
  PROVE  RestInv'
<1>1. PICK t \in Target, i \in ConnId :
        /\ t = call[c].target /\ i = call[c].conn /\ Reaching(i, t)
        /\ conns[i].addr \in Addr
  BY CallFacts DEF StartConnectionTasks, At, CallerOK, Reaching
<1> DEFINE p == virtualByAddr[conns[i].addr]
           r == Started(conns[i], p)
           s == Calling("returned", t, None, 0)
<1>2. conns \in [ConnId -> Conn] /\ conns[i] \in Conn /\ call \in [Caller -> CallState]
  BY CallFacts
<1>3. p \in Target \cup {None}
  BY <1>1 DEF QuicInv, SocketInv, SocketTypeOK
<1>4. conns' = [conns EXCEPT ![i] = r]
  BY <1>1, <1>2 DEF StartConnectionTasks
<1>5. call' = [call EXCEPT ![c] = s] /\ UNCHANGED socketVars /\ UNCHANGED cache
  BY <1>1, <1>2 DEF StartConnectionTasks, socketVars
<1>6. /\ r \in Conn /\ r.status = conns[i].status /\ r.reaches = conns[i].reaches
      /\ r.addr = conns[i].addr
  <2> HIDE DEF p
  <2> QED
    BY <1>2, <1>3, StartedType
<1>7. s \in CallState /\ s.pc = "returned" /\ s.target = t /\ t # None
  BY Tasks, VirtualPeersConstants DEF Calling, CallState
<1> HIDE DEF p, r, s
<1>8. CallerOK(c)'
  <2>1. call'[c] = s
    BY <1>2, <1>5
  <2> QED
    BY <1>7, <2>1 DEF CallerOK
<1>9. conns[i].status \in {"live", "closed"}
  BY <1>1 DEF Reaching
<1>10. r.status \in {"live", "closed"} /\ s.pc # "handshake"
  BY <1>6, <1>7, <1>9
<1> QED
  BY <1>4, <1>5, <1>6, <1>7, <1>8, <1>9, <1>10, BusyCaller

\* A step makes no connection incoming but with the address of its packet.
LEMMA IncomingKept ==
  ASSUME QuicInv, [QuicNext]_quicVars
  PROVE  IncomingOK'
<1>1. conns \in [ConnId -> Conn] /\ IncomingOK
  BY DEF QuicInv, TypeOK
<1>2. CASE UNCHANGED conns
  BY <1>1, <1>2 DEF IncomingOK
<1>3. ASSUME NEW i \in ConnId, NEW r, conns' = [conns EXCEPT ![i] = r],
             r.status = "incoming" => r.addr \in Addr
      PROVE  IncomingOK'
  BY <1>1, <1>3 DEF IncomingOK
<1>4. ASSUME NEW c \in Caller, NEW a, Connect(c, a)
      PROVE  IncomingOK'
  <2>1. PICK i \in ConnId :
          conns' = [conns EXCEPT ![i] = [NoConn EXCEPT !.status = "handshake", !.addr = a]]
    BY <1>4 DEF Connect, NewConn
  <2> QED
    BY <1>3, <2>1 DEF NoConn
<1>5. ASSUME NEW c \in Caller, Connected(c) \/ ConnectFails(c) \/ StartConnectionTasks(c)
      PROVE  IncomingOK'
  <2>1. PICK i \in ConnId : i = call[c].conn /\ conns[i] \in Conn
    BY <1>1, <1>5, CallFacts
       DEF Connected, ConnectFails, StartConnectionTasks, At, CallerOK, Reaching
  <2>2. CASE Connected(c)
    <3> DEFINE r == [conns[i] EXCEPT !.status = "live",
                                     !.reaches = virtualByAddr[conns[i].addr]]
    <3>1. conns' = [conns EXCEPT ![i] = r] /\ r.status = "live"
      BY <1>1, <2>1, <2>2 DEF Connected, Conn
    <3> HIDE DEF r
    <3> QED
      BY <1>3, <3>1
  <2>3. CASE ConnectFails(c)
    <3> DEFINE r == [NoConn EXCEPT !.status = "closed"]
    <3>1. conns' = [conns EXCEPT ![i] = r]
      BY <2>1, <2>3 DEF ConnectFails
    <3>2. r.status = "closed"
      BY DEF NoConn
    <3> HIDE DEF r
    <3> QED
      BY <1>3, <3>1, <3>2
  <2>4. CASE StartConnectionTasks(c)
    <3> DEFINE r == Started(conns[i], virtualByAddr[conns[i].addr])
    <3>1. conns' = [conns EXCEPT ![i] = r]
      BY <1>1, <2>1, <2>4 DEF StartConnectionTasks
    <3>2. conns[i].status \in {"live", "closed"}
      BY <2>1, <2>4, CallFacts DEF StartConnectionTasks, At, CallerOK, Reaching
    <3>3. r.status = conns[i].status
      BY <2>1 DEF Started, Conn
    <3> HIDE DEF r
    <3> QED
      BY <1>3, <3>1, <3>2, <3>3
  <2> QED
    BY <1>5, <2>2, <2>3, <2>4
<1>6. CASE LoopInject
  <2>1. task[Loop].addr \in Addr
    BY <1>6, Tasks, ClaimReturned DEF QuicInv, LoopInject, Return
  <2>2. CASE ~UNCHANGED conns
    <3> DEFINE r == [NoConn EXCEPT !.status = "incoming", !.addr = task[Loop].addr,
                                   !.reaches = task[Loop].target]
    <3>1. PICK i \in ConnId : conns' = [conns EXCEPT ![i] = r]
      BY <1>6, <2>2 DEF LoopInject, NewConn
    <3>2. r.addr = task[Loop].addr
      BY DEF NoConn
    <3> HIDE DEF r
    <3> QED
      BY <1>3, <2>1, <3>1, <3>2
  <2> QED
    BY <1>2, <2>2
<1>7. ASSUME NEW i \in ConnId,
             \/ Accept(i) \/ AcceptFails(i) \/ Close(i)
             \/ \E r \in Reader : ReaderEnds(i, r)
      PROVE  IncomingOK'
  <2>1. conns[i] \in Conn
    BY <1>1
  <2>2. PICK r : conns' = [conns EXCEPT ![i] = r] /\ r.status # "incoming"
    <3>1. CASE Accept(i)
      <4> DEFINE n == [conns[i] EXCEPT !.status = "live"]
                 r == Started(n, virtualByAddr[conns[i].addr])
      <4>1. conns' = [conns EXCEPT ![i] = r]
        BY <1>1, <3>1 DEF Accept
      <4>2. r.status = "live"
        BY <2>1 DEF Started, Conn
      <4> HIDE DEF r
      <4> QED
        BY <4>1, <4>2
    <3>2. CASE AcceptFails(i)
      <4> DEFINE r == [NoConn EXCEPT !.status = "refused"]
      <4>1. conns' = [conns EXCEPT ![i] = r]
        BY <3>2 DEF AcceptFails
      <4>2. r.status = "refused"
        BY DEF NoConn
      <4> HIDE DEF r
      <4> QED
        BY <4>1, <4>2
    <3>3. CASE Close(i)
      <4> DEFINE r == [conns[i] EXCEPT !.status = "closed"]
      <4>1. conns' = [conns EXCEPT ![i] = r] /\ r.status = "closed"
        BY <1>1, <2>1, <3>3 DEF Close, Conn
      <4> HIDE DEF r
      <4> QED
        BY <4>1
    <3>4. CASE \E q \in Reader : ReaderEnds(i, q)
      <4> DEFINE r == [conns[i] EXCEPT !.readers = @ - 1]
      <4>1. conns' = [conns EXCEPT ![i] = r] /\ conns[i].status = "closed"
        BY <1>1, <3>4 DEF ReaderEnds
      <4>2. r.status = conns[i].status
        BY <2>1 DEF Conn
      <4> HIDE DEF r
      <4> QED
        BY <4>1, <4>2
    <3> QED
      BY <1>7, <3>1, <3>2, <3>3, <3>4
  <2> QED
    BY <1>3, <2>2
<1> QED
  BY <1>2, <1>4, <1>5, <1>6, <1>7 DEF QuicNext, quicVars, CallCached, CallRegister,
     CallRegistered, CallConnect, Insert, CallFailed, CallReturns, OpenFails, CallStart,
     LoopRegister

-----------------------------------------------------------------------------
(* What holds in every state and at every step of the endpoint. *)

LEMMA QuicInitInv == QuicInit => QuicInv
<1> SUFFICES ASSUME QuicInit PROVE QuicInv
  OBVIOUS
<1>1. SocketInv
  BY SocketInitInv DEF QuicInit
<1>2. call \in [Caller -> CallState] /\ \A c \in Caller : call[c].pc = "idle"
  <2>1. NotCalling \in CallState /\ NotCalling.pc = "idle"
    BY Tasks DEF NotCalling, Calling, CallState
  <2> QED
    BY <2>1 DEF QuicInit
<1>3. conns \in [ConnId -> Conn] /\ cache \in [Target -> 0 .. MaxConns]
  BY NoConnType, Tasks DEF QuicInit
<1>4. \A c \in Caller : CallerOK(c)
  BY <1>2 DEF CallerOK
<1>5. OwnHandshake /\ CacheOK /\ IncomingOK
  BY <1>2 DEF OwnHandshake, At, CacheOK, IncomingOK, NoConn, QuicInit
<1> QED
  BY <1>1, <1>2, <1>3, <1>4, <1>5 DEF QuicInv, TypeOK, SocketInv

LEMMA QuicNextInv == QuicInv /\ [QuicNext]_quicVars => QuicInv'
<1> SUFFICES ASSUME QuicInv, [QuicNext]_quicVars PROVE QuicInv'
  OBVIOUS
<1>1. SocketInv'
  BY SocketPartNext, SocketNextInv DEF QuicInv
<1>2. ClaimsKept
  BY StepKeepsClaims
<1>3. RestInv'
  <2>1. CASE UNCHANGED quicVars
    <3>1. UNCHANGED <<call, conns, cache, task, virtualByAddr>>
      BY <2>1 DEF quicVars
    <3>2. ConnsKept
      BY <3>1 DEF ConnsKept
    <3>3. ASSUME NEW d \in Caller PROVE CallerOK(d)'
      <4>1. At(d, "registering") => task[d].pc \notin {"idle", "forget", "unmap"}
        BY CallFacts DEF CallerOK, At
      <4> QED
        BY <1>2, <3>1, <3>2, <4>1, OtherCaller
    <3>4. OwnHandshake' /\ CacheOK'
      BY <3>1, <3>2, HandshakeFrame, CacheFrame
    <3> QED
      BY <3>1, <3>3, <3>4 DEF QuicInv, TypeOK, RestInv
  <2>2. CASE \E k \in Task : SocketStep(k, Fresh) /\ UNCHANGED <<call, conns, cache>>
    BY <1>2, <2>2, SocketStepRest
  <2>3. CASE \E c \in Caller :
               \/ CallCached(c) \/ CallRegister(c) \/ CallRegistered(c) \/ CallConnect(c)
               \/ Connected(c) \/ ConnectFails(c) \/ Insert(c) \/ StartConnectionTasks(c)
               \/ CallFailed(c) \/ CallReturns(c) \/ OpenFails(c)
               \/ \E t \in Target : CallStart(c, t)
    BY <1>2, <2>3, CallStartRest, CallEndsRest, CallRegisterRest, CallRegisteredRest,
       CallConnectRest, ConnectedRest, ConnectFailsRest, InsertRest, StartTasksRest
  <2>4. CASE \/ \E t \in Target : LoopRegister(t)
             \/ LoopInject
             \/ \E i \in ConnId : Accept(i) \/ AcceptFails(i)
    BY <1>2, <2>4, LoopRest
  <2>5. CASE \E i \in ConnId : Close(i) \/ \E r \in Reader : ReaderEnds(i, r)
    BY <1>2, <2>5, CloseRest
  <2> QED
    BY <2>1, <2>2, <2>3, <2>4, <2>5 DEF QuicNext
<1>4. IncomingOK'
  BY IncomingKept
<1> QED
  BY <1>1, <1>3, <1>4 DEF QuicInv, RestInv, TypeOK, SocketInv

\* The inductive invariant: the address that a caller remembers, or that its
\* handshake uses, is nobody else's; the connection it waits for is its own;
\* and a connection that came about has reached the caller's target.
THEOREM QuicInvariant == QuicSpec => []QuicInv
  BY QuicInitInv, QuicNextInv, PTL DEF QuicSpec

\* CachedReaches: no interleaving of register_virtual_peer and
\* release_virtual_peer hands a caller of connection_to or connection_to_via a
\* connection to somebody else.
THEOREM QuicCachedReaches == QuicSpec => []CachedReaches
<1>1. QuicInv => CachedReaches
  BY DEF QuicInv, CacheOK, Reaching, CachedReaches
<1> QED
  BY <1>1, QuicInvariant, PTL

\* ImplementsBook: callers, loops and readers use QuicPeerSocket in such a way
\* that its maps are the address book they need.
THEOREM QuicImplementsBook == QuicSpec => ImplementsBook
<1>1. QuicInit => Book!Init
  BY BookInit DEF QuicInit
<1>2. QuicInv /\ [QuicNext]_quicVars => [Book!Next]_<<virtualByAddr, virtualByPeer>>
  BY SocketPartNext, BookStep DEF QuicInv
<1> QED
  BY <1>1, <1>2, QuicInvariant, PTL DEF QuicSpec, ImplementsBook, Book!Spec

\* Only Insert, RemoveIfClosed and a reader's cleanup change the cache.
LEMMA CacheStep ==
  ASSUME QuicInv, [QuicNext]_quicVars, NEW t \in Target, Live(t)
  PROVE  cache'[t] >= 1
<1>1. cache \in [Target -> 0 .. MaxConns] /\ MaxConns \in Nat /\ cache[t] >= 1
  BY Tasks DEF QuicInv, TypeOK, Live
<1>2. ASSUME cache'[t] = cache[t] PROVE cache'[t] >= 1
  BY <1>1, <1>2
<1>3. CASE UNCHANGED cache
  BY <1>2, <1>3
<1>4. ASSUME NEW c \in Caller, Insert(c) PROVE cache'[t] >= 1
  <2>1. PICK u \in Target, i \in ConnId : u = call[c].target /\ i = call[c].conn
    BY <1>4, CallFacts DEF Insert, At, CallerOK, Reaching
  <2>2. cache' = [cache EXCEPT ![u] = i]
    BY <1>4, <2>1 DEF Insert
  <2>3. i >= 1
    BY <1>1, <2>1 DEF ConnId
  <2> QED
    BY <1>1, <2>1, <2>2, <2>3
<1>5. ASSUME NEW u, RemoveIfClosed(u) PROVE cache'[t] >= 1
  BY <1>1, <1>5 DEF RemoveIfClosed
<1>6. ASSUME NEW i \in ConnId, NEW r \in Reader, ReaderEnds(i, r) PROVE cache'[t] >= 1
  <2>1. CASE IsCached(conns[i].peer, i)
    <3>1. conns[i].peer # t
      BY <1>6, <2>1 DEF ReaderEnds, IsCached, Live
    <3>2. cache' = [cache EXCEPT ![conns[i].peer] = 0]
      BY <1>6, <2>1 DEF ReaderEnds
    <3> QED
      BY <1>1, <3>1, <3>2
  <2>2. CASE ~IsCached(conns[i].peer, i)
    BY <1>1, <1>6, <2>2 DEF ReaderEnds
  <2> QED
    BY <2>1, <2>2
<1>7. ASSUME NEW c \in Caller, CallFailed(c) \/ OpenFails(c) PROVE cache'[t] >= 1
  BY <1>1, <1>5, <1>7 DEF CallFailed, OpenFails
<1> QED
  BY <1>3, <1>4, <1>6, <1>7 DEF QuicNext, quicVars, CallCached, CallRegister, CallRegistered,
     CallConnect, Connected, ConnectFails, StartConnectionTasks, CallReturns, CallStart,
     LoopRegister, LoopInject, Accept, AcceptFails, Close

\* LiveStaysCached: neither a failed call nor the readers of an older
\* connection take a live connection out of the cache.
THEOREM QuicLiveStaysCached == QuicSpec => LiveStaysCached
<1>1. QuicInv /\ [QuicNext]_quicVars => [\A t \in Target : Live(t) => cache'[t] >= 1]_quicVars
  BY CacheStep
<1> QED
  BY <1>1, QuicInvariant, PTL DEF QuicSpec, LiveStaysCached
=============================================================================

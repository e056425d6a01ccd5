---------------------------- MODULE VirtualPeers ----------------------------
(***************************************************************************)
(* QuicPeerSocket of rustp2p-quic/src/quic.rs: the maps between peers and  *)
(* the synthetic socket addresses quinn sees.  virtual_by_peer and         *)
(* via_virtual_addrs are one map here, over targets (a peer, or a peer and *)
(* a route key): the two sets of functions differ in nothing else.         *)
(*                                                                         *)
(* Each map operation is atomic and each function makes several of them,   *)
(* so calls of different tasks interleave.  An address is drawn at random  *)
(* from 2^16 hosts and 64512 ports: the model draws one that no running    *)
(* call remembers, which the code relies on without checking it.           *)
(***************************************************************************)
CONSTANTS
  Target,  \* peers, and pairs of a peer and a route key
  Addr,    \* synthetic addresses
  Task,    \* the tasks that call the socket
  None

ASSUME VirtualPeersConstants == None \notin Target /\ None \notin Addr

VARIABLES
  virtualByAddr,  \* address -> target
  virtualByPeer,  \* target -> address
  task            \* task -> the call it makes, addr and other being its locals

socketVars == <<virtualByAddr, virtualByPeer, task>>

TaskState ==
  [pc : {"idle", "look", "allocate", "publish", "undo", "ensure", "registered",
         "forget", "unmap"},
   target : Target \cup {None}, addr : Addr \cup {None}, other : Addr \cup {None}]

Call(pc, t, a) == [pc |-> pc, target |-> t, addr |-> a, other |-> None]

NoCall == Call("idle", None, None)

\* The addresses that a call in progress holds.
Held == {task[k].addr : k \in Task} \cup {task[k].other : k \in Task}

-----------------------------------------------------------------------------
(* register_virtual_peer and register_virtual_peer_via. *)

Register(k, t) ==
  /\ task[k].pc = "idle"
  /\ task' = [task EXCEPT ![k] = Call("look", t, None)]
  /\ UNCHANGED <<virtualByAddr, virtualByPeer>>

Look(k) ==
  LET a == virtualByPeer[task[k].target]
  IN  /\ task[k].pc = "look"
      /\ task' = [task EXCEPT ![k].pc = IF a = None THEN "allocate" ELSE "ensure",
                              ![k].addr = a]
      /\ UNCHANGED <<virtualByAddr, virtualByPeer>>

\* Mutant of Allocate: the address may be somebody's.
AllocateTaken(k, a) ==
  /\ task[k].pc = "allocate"
  /\ a \notin Held
  /\ virtualByAddr' = [virtualByAddr EXCEPT ![a] = task[k].target]
  /\ task' = [task EXCEPT ![k].pc = "publish", ![k].addr = a]
  /\ UNCHANGED virtualByPeer

\* allocate_virtual_addr.
Allocate(k, a) ==
  /\ task[k].pc = "allocate"
  /\ virtualByAddr[a] = None
  /\ a \notin Held
  /\ virtualByAddr' = [virtualByAddr EXCEPT ![a] = task[k].target]
  /\ task' = [task EXCEPT ![k].pc = "publish", ![k].addr = a]
  /\ UNCHANGED virtualByPeer

\* The vacant entry is taken; an occupied one is used instead of the own address.
PublishAddr(k) ==
  LET t == task[k].target
  IN  /\ task[k].pc = "publish"
      /\ \/ /\ virtualByPeer[t] = None
            /\ virtualByPeer' = [virtualByPeer EXCEPT ![t] = task[k].addr]
            /\ task' = [task EXCEPT ![k].pc = "registered"]
         \/ /\ virtualByPeer[t] # None
            /\ task' = [task EXCEPT ![k].pc = "undo", ![k].other = virtualByPeer[t]]
            /\ UNCHANGED virtualByPeer
      /\ UNCHANGED virtualByAddr

\* release_reserved_virtual_addr.
Undo(k) ==
  LET a == task[k].addr
  IN  /\ task[k].pc = "undo"
      /\ virtualByAddr' = IF virtualByAddr[a] = task[k].target
                          THEN [virtualByAddr EXCEPT ![a] = None] ELSE virtualByAddr
      /\ task' = [task EXCEPT ![k].pc = "ensure", ![k].addr = task[k].other,
                              ![k].other = None]
      /\ UNCHANGED virtualByPeer

\* ensure_virtual_mapping.
Ensure(k) ==
  /\ task[k].pc = "ensure"
  /\ virtualByAddr' = [virtualByAddr EXCEPT ![task[k].addr] = task[k].target]
  /\ task' = [task EXCEPT ![k].pc = "registered"]
  /\ UNCHANGED virtualByPeer

\* The call has returned task[k].addr, and the caller is done with it.
Return(k) ==
  /\ task[k].pc = "registered"
  /\ task' = [task EXCEPT ![k] = NoCall]
  /\ UNCHANGED <<virtualByAddr, virtualByPeer>>

-----------------------------------------------------------------------------
(* release_virtual_peer and release_virtual_peer_via. *)

Release(k, t) ==
  /\ task[k].pc = "idle"
  /\ task' = [task EXCEPT ![k] = Call("forget", t, None)]
  /\ UNCHANGED <<virtualByAddr, virtualByPeer>>

\* Mutant of Forget: the address is unmapped before it is withdrawn.
ForgetLast(k) ==
  LET a == virtualByPeer[task[k].target]
  IN  /\ task[k].pc = "forget"
      /\ task' = [task EXCEPT ![k] = IF a = None THEN NoCall
                                       ELSE Call("unmap", task[k].target, a)]
      /\ UNCHANGED <<virtualByAddr, virtualByPeer>>

Forget(k) ==
  LET a == virtualByPeer[task[k].target]
  IN  /\ task[k].pc = "forget"
      /\ virtualByPeer' = [virtualByPeer EXCEPT ![task[k].target] = None]
      /\ task' = [task EXCEPT ![k] = IF a = None THEN NoCall
                                       ELSE Call("unmap", task[k].target, a)]
      /\ UNCHANGED virtualByAddr

Unmap(k) ==
  /\ task[k].pc = "unmap"
  /\ virtualByAddr' = [virtualByAddr EXCEPT ![task[k].addr] = None]
  /\ task' = [task EXCEPT ![k] = NoCall]
  /\ UNCHANGED virtualByPeer

-----------------------------------------------------------------------------

SocketInit ==
  /\ virtualByAddr = [a \in Addr |-> None]
  /\ virtualByPeer = [t \in Target |-> None]
  /\ task = [k \in Task |-> NoCall]

\* A step inside a call; allocation chooses among the addresses fresh.
SocketStep(k, fresh) ==
  \/ Look(k) \/ PublishAddr(k) \/ Undo(k) \/ Ensure(k) \/ Forget(k) \/ Unmap(k)
  \/ \E a \in fresh : Allocate(k, a)

SocketNext ==
  \E k \in Task :
    \/ SocketStep(k, Addr)
    \/ Return(k)
    \/ \E t \in Target : Register(k, t) \/ Release(k, t)

SocketSpec == SocketInit /\ [][SocketNext]_socketVars

-----------------------------------------------------------------------------
(* Properties. *)

\* The maps and the locals of every call hold values of their types.
SocketTypeOK ==
  /\ virtualByAddr \in [Addr -> Target \cup {None}]
  /\ virtualByPeer \in [Target -> Addr \cup {None}]
  /\ task \in [Task -> TaskState]

Book == INSTANCE AddressBook WITH owner <- virtualByAddr, published <- virtualByPeer

\* The maps implement the address book: whatever calls interleave, an address
\* never goes from one target to another while in use, and the address that
\* register_virtual_peer publishes for a target is mapped to that target until
\* it is withdrawn (register_virtual_peer, release_virtual_peer).
ImplementsBook == Book!Spec

\* The published address of a target is mapped to it.
Routed ==
  \A t \in Target : virtualByPeer[t] # None => virtualByAddr[virtualByPeer[t]] = t

\* An address that a call holds is its target's or free; what it is about to
\* publish is mapped; what it is about to unmap is not published.
CallOK(k) ==
  LET c == task[k]
  IN  /\ c.pc # "idle" => c.target # None
      /\ c.addr # None <=> c.pc \in {"publish", "undo", "ensure", "registered", "unmap"}
      /\ c.other # None <=> c.pc = "undo"
      /\ c.addr # None => virtualByAddr[c.addr] \in {c.target, None}
      /\ c.other # None => virtualByAddr[c.other] \in {c.target, None}
      /\ c.pc = "publish" => virtualByAddr[c.addr] = c.target
      /\ c.pc \in {"publish", "undo", "unmap"} =>
           \A t \in Target : virtualByPeer[t] # c.addr

\* Calls that hold the same address have the same target, and an address that
\* is not published yet is held by one call only.
Apart(j, k) ==
  LET c == task[j]
      d == task[k]
  IN  /\ c.addr # None /\ c.addr \in {d.addr, d.other} => c.target = d.target
      /\ c.other # None /\ c.other = d.other => c.target = d.target
      /\ j # k /\ c.pc = "publish" => c.addr \notin {d.addr, d.other}

\* The inductive invariant behind ImplementsBook.
SocketInv ==
  /\ SocketTypeOK
  /\ Routed
  /\ \A k \in Task : CallOK(k)
  /\ \A j, k \in Task : Apart(j, k)
=============================================================================

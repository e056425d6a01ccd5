--------------------------- MODULE UdpDispatcher ---------------------------
(***************************************************************************)
(* How datagrams of the shared UDP sockets become tunnels:                 *)
(* rustp2p-core/src/endpoint/tunnel.rs (UdpDispatcher, Tunnel, the Drop of *)
(* its read half), the reader tasks of pool.rs, and the receiving side of  *)
(* service.rs (TunnelIncoming).                                            *)
(*                                                                         *)
(* One reader task per socket looks a datagram's five-tuple up in the      *)
(* shared routes map and queues the datagram, or registers a new tunnel    *)
(* and publishes it to the accept queue.  Each access to a map entry is    *)
(* one step; tasks interleave between the steps.  Payloads are left out: a *)
(* queue is the number of datagrams in it.                                 *)
(***************************************************************************)
EXTENDS Integers, Sequences

CONSTANTS
  Local, Remote,            \* socket addresses
  Reader,                   \* the reader tasks that may ever be spawned
  Main,                     \* those of the main sockets, spawned by bind
  LocalOf,                  \* the address of each reader's socket
  TUNNEL_CHANNEL_CAPACITY,  \* datagrams one tunnel keeps (128 in the code)
  AcceptCapacity,           \* tunnels waiting for next() (512 in the code)
  MaxTunnels                \* bound: how many tunnels are ever registered

ASSUME UdpConstants ==
  /\ Main \subseteq Reader
  /\ LocalOf \in [Reader -> Local]
  /\ \A m \in Main, r \in Reader : LocalOf[m] = LocalOf[r] => m = r
  /\ TUNNEL_CHANNEL_CAPACITY \in Nat \ {0}
  /\ AcceptCapacity \in Nat \ {0}
  /\ MaxTunnels \in Nat

VARIABLES
  routes,      \* five-tuple -> id of the registered tunnel
  tunnels,     \* id -> the tunnel; ids are handed out in order
  accept,      \* the accept queue: ids
  incoming,    \* where the drop of TunnelIncoming has got to
  assistants,  \* the readers whose socket is in assistant_udp
  reader       \* the reader tasks

vars == <<routes, tunnels, accept, incoming, assistants, reader>>

Key == Local \X Remote

\* pc "refused" and "orphaned": publishing failed, the tunnel is being dropped;
\* after "orphaned" the loop ends.  "leave": the loop has ended and the
\* reader's handle on its socket is gone.
Active == {"recv", "publish", "refused", "orphaned"}
PC     == Active \cup {"absent", "leave", "done"}

\* A tunnel's receive half: held by the reader that made it, by the accept
\* queue, by the application; its Drop has unregistered it; it is gone.
Held  == {"publishing", "waiting", "owned"}
Stage == Held \cup {"dropping", "dropped"}

Tunnel == [key : Key, by : Reader, queued : 0 .. TUNNEL_CHANNEL_CAPACITY,
           stage : Stage, early : BOOLEAN]

Task == [pc : PC, tunnel : Nat, hears : BOOLEAN]

Registered(t) == tunnels[t].key \in DOMAIN routes /\ routes[tunnels[t].key] = t

\* Mutant of Unregister: whoever holds the key is unregistered.
UnregisterAny(t) == [k \in DOMAIN routes \ {tunnels[t].key} |-> routes[k]]

\* unregister: routes without the entry of tunnel t, if it is still t's.
Unregister(t) == [k \in {x \in DOMAIN routes : routes[x] # t} |-> routes[k]]

At(t, stage) == [tunnels EXCEPT ![t].stage = stage]

\* The reader goes on, with no tunnel in its hands.
To(r, pc) == [reader EXCEPT ![r].pc = pc, ![r].tunnel = 0]

-----------------------------------------------------------------------------
(* The reader tasks. *)

\* The port can be bound again: no socket of that address is open.
AddressFree(l) ==
  \A r \in Reader : LocalOf[r] = l =>
    r \notin assistants /\ reader[r].pc \in {"absent", "leave", "done"}

\* add_assistant_udp.  A reader subscribed after the shutdown signal was sent
\* does not hear it.
AddAssistant(r) ==
  /\ reader[r].pc = "absent"
  /\ AddressFree(LocalOf[r])
  /\ reader' = [reader EXCEPT ![r].pc = "recv",
                              ![r].hears = incoming \in {"open", "cleared"}]
  /\ assistants' = assistants \cup {r}
  /\ UNCHANGED <<routes, tunnels, accept, incoming>>

CleanAssistants ==
  /\ assistants # {}
  /\ assistants' = {}
  /\ UNCHANGED <<routes, tunnels, accept, incoming, reader>>

\* The registration for a datagram is there and its queue is open.
Open(k) == k \in DOMAIN routes /\ tunnels[routes[k]].stage # "dropped"

\* Mutant of Enqueue: the channel of a tunnel is unbounded.
EnqueueUnbounded(r, remote) ==
  LET k == <<LocalOf[r], remote>>
  IN  /\ reader[r].pc = "recv"
      /\ Open(k)
      /\ tunnels' = [tunnels EXCEPT ![routes[k]].queued = @ + 1]
      /\ UNCHANGED <<routes, accept, incoming, assistants, reader>>

\* dispatch, the occupied entry: queue the datagram, or drop it when full.
Enqueue(r, remote) ==
  LET k == <<LocalOf[r], remote>>
  IN  /\ reader[r].pc = "recv"
      /\ Open(k)
      /\ tunnels[routes[k]].queued < TUNNEL_CHANNEL_CAPACITY
      /\ tunnels' = [tunnels EXCEPT ![routes[k]].queued = @ + 1]
      /\ UNCHANGED <<routes, accept, incoming, assistants, reader>>

\* A previous socket of the address has not been cleaned up after yet.
Haunted(r) ==
  \E q \in Reader \ {r} : LocalOf[q] = LocalOf[r] /\ reader[q].pc = "leave"

NewTunnel(r, k, queued) ==
  [key |-> k, by |-> r, queued |-> queued, stage |-> "publishing",
   early |-> Haunted(r)]

\* Mutant of Register: the first datagram is left to be queued later.
RegisterEmpty(r, remote) ==
  LET k == <<LocalOf[r], remote>>
  IN  /\ reader[r].pc = "recv"
      /\ ~Open(k)
      /\ Len(tunnels) < MaxTunnels
      /\ tunnels' = Append(tunnels, NewTunnel(r, k, 0))
      /\ routes' = [x \in DOMAIN routes \cup {k} |->
                      IF x = k THEN Len(tunnels) + 1 ELSE routes[x]]
      /\ reader' = [reader EXCEPT ![r].pc = "publish",
                                  ![r].tunnel = Len(tunnels) + 1]
      /\ UNCHANGED <<accept, incoming, assistants>>

\* dispatch, the vacant entry (or one whose queue was closed): a new tunnel
\* with its first datagram already queued.
Register(r, remote) ==
  LET k == <<LocalOf[r], remote>>
  IN  /\ reader[r].pc = "recv"
      /\ ~Open(k)
      /\ Len(tunnels) < MaxTunnels
      /\ tunnels' = Append(tunnels, NewTunnel(r, k, 1))
      /\ routes' = [x \in DOMAIN routes \cup {k} |->
                      IF x = k THEN Len(tunnels) + 1 ELSE routes[x]]
      /\ reader' = [reader EXCEPT ![r].pc = "publish",
                                  ![r].tunnel = Len(tunnels) + 1]
      /\ UNCHANGED <<accept, incoming, assistants>>

\* accept_tx.try_send and its three outcomes.
Publish(r) ==
  /\ reader[r].pc = "publish"
  /\ incoming # "closed"
  /\ Len(accept) < AcceptCapacity
  /\ tunnels' = At(reader[r].tunnel, "waiting")
  /\ accept' = Append(accept, reader[r].tunnel)
  /\ reader' = To(r, "recv")
  /\ UNCHANGED <<routes, incoming, assistants>>

PublishFull(r) ==
  /\ reader[r].pc = "publish"
  /\ incoming # "closed"
  /\ Len(accept) >= AcceptCapacity
  /\ routes' = Unregister(reader[r].tunnel)
  /\ tunnels' = At(reader[r].tunnel, "dropping")
  /\ reader' = [reader EXCEPT ![r].pc = "refused"]
  /\ UNCHANGED <<accept, incoming, assistants>>

PublishClosed(r) ==
  /\ reader[r].pc = "publish"
  /\ incoming = "closed"
  /\ routes' = Unregister(reader[r].tunnel)
  /\ tunnels' = At(reader[r].tunnel, "dropping")
  /\ reader' = [reader EXCEPT ![r].pc = "orphaned"]
  /\ UNCHANGED <<accept, incoming, assistants>>

\* The end of drop(tunnel) in the reader: data_rx goes after unregister.
Refused(r) ==
  /\ reader[r].pc \in {"refused", "orphaned"}
  /\ tunnels' = At(reader[r].tunnel, "dropped")
  /\ reader' = To(r, IF reader[r].pc = "refused" THEN "recv" ELSE "leave")
  /\ UNCHANGED <<routes, accept, incoming, assistants>>

\* A socket error that is not recoverable ends the loop.
RecvError(r) ==
  /\ reader[r].pc = "recv"
  /\ reader' = To(r, "leave")
  /\ UNCHANGED <<routes, tunnels, accept, incoming, assistants>>

Signalled(r) == reader[r].hears /\ incoming \in {"signalled", "closed"}

Removed(r) == r \notin Main /\ r \notin assistants /\ reader[r].pc # "absent"

\* Mutant of Stop: the select has no arm for the socket's own signal.
StopGlobalOnly(r) ==
  /\ reader[r].pc = "recv"
  /\ Signalled(r)
  /\ reader' = To(r, "leave")
  /\ UNCHANGED <<routes, tunnels, accept, incoming, assistants>>

\* The two shutdown arms of the select.
Stop(r) ==
  /\ reader[r].pc = "recv"
  /\ Signalled(r) \/ Removed(r)
  /\ reader' = To(r, "leave")
  /\ UNCHANGED <<routes, tunnels, accept, incoming, assistants>>

\* Mutant of Leave: the registrations of the socket are left behind.
LeaveRoutes(r) ==
  /\ reader[r].pc = "leave"
  /\ reader' = To(r, "done")
  /\ UNCHANGED <<routes, tunnels, accept, incoming, assistants>>

\* The end of run_udp_reader: unregister_local.
Leave(r) ==
  /\ reader[r].pc = "leave"
  /\ routes' = [k \in {x \in DOMAIN routes : x[1] # LocalOf[r]} |-> routes[k]]
  /\ reader' = To(r, "done")
  /\ UNCHANGED <<tunnels, accept, incoming, assistants>>

-----------------------------------------------------------------------------
(* The application and TunnelIncoming. *)

\* TunnelIncoming::next.
AcceptNext ==
  /\ incoming = "open"
  /\ accept # <<>>
  /\ tunnels' = At(Head(accept), "owned")
  /\ accept' = Tail(accept)
  /\ UNCHANGED <<routes, incoming, assistants, reader>>

\* TunnelReadHalf::recv and try_recv.
Recv(t) ==
  /\ tunnels[t].stage = "owned"
  /\ tunnels[t].queued > 0
  /\ tunnels' = [tunnels EXCEPT ![t].queued = @ - 1]
  /\ UNCHANGED <<routes, accept, incoming, assistants, reader>>

\* Mutant of DropTunnel: the registration is left behind.
DropSilently(t) ==
  /\ tunnels[t].stage = "owned"
  /\ tunnels' = At(t, "dropping")
  /\ UNCHANGED <<routes, accept, incoming, assistants, reader>>

\* Drop of the read half: unregister first, then data_rx.
DropTunnel(t) ==
  /\ tunnels[t].stage = "owned"
  /\ routes' = Unregister(t)
  /\ tunnels' = At(t, "dropping")
  /\ UNCHANGED <<accept, incoming, assistants, reader>>

CloseQueue(t) ==
  /\ tunnels[t].stage = "dropping"
  /\ ~\E r \in Reader : /\ reader[r].pc \in {"refused", "orphaned"}
                        /\ reader[r].tunnel = t
  /\ tunnels' = At(t, "dropped")
  /\ UNCHANGED <<routes, accept, incoming, assistants, reader>>

\* Drop of TunnelIncoming: shutdown clears the routes, then signals, then
\* the accept queue closes and the tunnels in it are dropped.
ShutdownClear ==
  /\ incoming = "open"
  /\ incoming' = "cleared"
  /\ routes' = <<>>
  /\ UNCHANGED <<tunnels, accept, assistants, reader>>

ShutdownSignal ==
  /\ incoming = "cleared"
  /\ incoming' = "signalled"
  /\ UNCHANGED <<routes, tunnels, accept, assistants, reader>>

CloseAccept ==
  /\ incoming = "signalled"
  /\ incoming' = "closed"
  /\ UNCHANGED <<routes, tunnels, accept, assistants, reader>>

DrainAccept ==
  /\ incoming = "closed"
  /\ accept # <<>>
  /\ routes' = Unregister(Head(accept))
  /\ tunnels' = At(Head(accept), "dropping")
  /\ accept' = Tail(accept)
  /\ UNCHANGED <<incoming, assistants, reader>>

-----------------------------------------------------------------------------
Init ==
  /\ routes = <<>>
  /\ tunnels = <<>>
  /\ accept = <<>>
  /\ incoming = "open"
  /\ assistants = {}
  /\ reader = [r \in Reader |-> [pc |-> IF r \in Main THEN "recv" ELSE "absent",
                                 tunnel |-> 0, hears |-> r \in Main]]

ReaderStep(r) ==
  \/ Publish(r)
  \/ PublishFull(r)
  \/ PublishClosed(r)
  \/ Refused(r)
  \/ Leave(r)

Next ==
  \/ \E r \in Reader :
       \/ ReaderStep(r)
       \/ Stop(r)
       \/ RecvError(r)
       \/ \E remote \in Remote : Enqueue(r, remote) \/ Register(r, remote)
  \/ \E r \in Reader \ Main : AddAssistant(r)
  \/ CleanAssistants
  \/ AcceptNext
  \/ \E t \in DOMAIN tunnels : Recv(t) \/ DropTunnel(t) \/ CloseQueue(t)
  \/ ShutdownClear
  \/ ShutdownSignal
  \/ CloseAccept
  \/ DrainAccept

Spec == Init /\ [][Next]_vars

\* The runtime polls every task that can run.  A select whose shutdown arm is
\* ready again and again takes it in the end: tokio polls its arms in random
\* order.
Fairness ==
  \A r \in Reader : WF_vars(ReaderStep(r)) /\ SF_vars(Stop(r))

FairSpec == Spec /\ Fairness

-----------------------------------------------------------------------------
(* Properties. *)

\* The state has its shape (tunnel.rs:15-24, pool.rs:34-49).
TypeOK ==
  /\ DOMAIN routes \subseteq Key
  /\ routes \in [DOMAIN routes -> DOMAIN tunnels]
  /\ tunnels \in Seq(Tunnel)
  /\ Len(tunnels) <= MaxTunnels
  /\ accept \in Seq(DOMAIN tunnels)
  /\ Len(accept) <= AcceptCapacity
  /\ incoming \in {"open", "cleared", "signalled", "closed"}
  /\ assistants \subseteq Reader \ Main
  /\ reader \in [Reader -> Task]
  /\ \A r \in Reader :
       reader[r].pc \in {"publish", "refused", "orphaned"} =>
         reader[r].tunnel \in DOMAIN tunnels

\* No black hole: whatever drops in whatever order, a registration belongs to
\* a tunnel of that five-tuple that somebody still holds.  A datagram is never
\* queued where nobody can read it, and dispatch never meets a closed queue.
RegisteredIsHeld ==
  \A k \in DOMAIN routes :
    /\ tunnels[routes[k]].key = k
    /\ tunnels[routes[k]].stage \in Held

\* Nothing leaks: a registration exists only while a reader of its address has
\* not finished.  Clearing at shutdown is not enough for this, a reader may
\* register again between the clear and the signal (pool.rs:381-384).
RegistrationHasReader ==
  \A k \in DOMAIN routes :
    \E r \in Reader : LocalOf[r] = k[1] /\ reader[r].pc \notin {"absent", "done"}

\* A tunnel somebody holds keeps being fed while its socket is read and the
\* source is open: dropping an older tunnel of the same five-tuple unregisters
\* "exactly that" one (rustp2p-core/DESIGN.md:68).  The exception is a socket
\* that was given the port of one whose reader had not cleaned up yet.
HeldIsRegistered ==
  \A t \in DOMAIN tunnels :
    \/ tunnels[t].stage \notin Held
    \/ incoming # "open"
    \/ reader[tunnels[t].by].pc \in {"leave", "done"}
    \/ tunnels[t].early
    \/ Registered(t)

\* A tunnel is handed out with the datagram that created it: the first packet
\* "is queued before the tunnel is yielded" (rustp2p-core/DESIGN.md:64).
FirstDatagramKept ==
  \A t \in DOMAIN tunnels :
    tunnels[t].stage \in {"publishing", "waiting"} => tunnels[t].queued > 0

\* Every reader that can hear the shutdown, or whose socket was removed, ends.
ReadersStop ==
  \A r \in Reader : (Signalled(r) \/ Removed(r)) ~> (reader[r].pc = "done")
=============================================================================

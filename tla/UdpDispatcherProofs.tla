------------------------ MODULE UdpDispatcherProofs ------------------------
(***************************************************************************)
(* Proofs about UdpDispatcher, for every number of sockets, peers and      *)
(* tunnels and every queue capacity.                                       *)
(***************************************************************************)
EXTENDS UdpDispatcher, TLAPS

-----------------------------------------------------------------------------
(* The inductive invariant. *)

\* What a reader holds while it publishes or drops a tunnel.
Hands ==
  \A r \in Reader :
    /\ reader[r].pc = "publish" =>
         tunnels[reader[r].tunnel].stage = "publishing" /\ tunnels[reader[r].tunnel].by = r
    /\ reader[r].pc \in {"refused", "orphaned"} =>
         tunnels[reader[r].tunnel].stage = "dropping" /\ tunnels[reader[r].tunnel].by = r

\* The accept queue holds tunnels that wait, each once.
Queue ==
  /\ \A i \in DOMAIN accept : tunnels[accept[i]].stage = "waiting"
  /\ \A i, j \in DOMAIN accept : accept[i] = accept[j] => i = j

\* A tunnel's five-tuple has the address of the socket it came in on.
Origins ==
  \A t \in DOMAIN tunnels :
    tunnels[t].key[1] = LocalOf[tunnels[t].by] /\ reader[tunnels[t].by].pc # "absent"

\* At most one socket of an address is read at a time.
Exclusive ==
  \A q, r \in Reader :
    LocalOf[q] = LocalOf[r] /\ reader[q].pc \in Active /\ reader[r].pc \in Active => q = r

\* While the socket of a tunnel that was not early is read, no other reader of
\* the address is left that could still unregister it.
Settled ==
  \A t \in DOMAIN tunnels : \A q \in Reader :
    ~tunnels[t].early /\ reader[tunnels[t].by].pc \in Active
    /\ LocalOf[q] = LocalOf[tunnels[t].by] /\ q # tunnels[t].by
      => reader[q].pc \in {"absent", "done"}

IInv ==
  /\ TypeOK
  /\ RegisteredIsHeld
  /\ RegistrationHasReader
  /\ HeldIsRegistered
  /\ FirstDatagramKept
  /\ Hands
  /\ Queue
  /\ Origins
  /\ Exclusive
  /\ Settled

-----------------------------------------------------------------------------
(* The operators of the module. *)

\* Moving a tunnel to another stage changes nothing else.
LEMMA AtFacts ==
  ASSUME tunnels \in Seq(Tunnel), NEW t \in DOMAIN tunnels, NEW stage \in Stage
  PROVE  /\ At(t, stage) \in Seq(Tunnel)
         /\ Len(At(t, stage)) = Len(tunnels)
         /\ DOMAIN At(t, stage) = DOMAIN tunnels
         /\ At(t, stage)[t].stage = stage
         /\ \A u \in DOMAIN tunnels :
              /\ At(t, stage)[u].key = tunnels[u].key
              /\ At(t, stage)[u].by = tunnels[u].by
              /\ At(t, stage)[u].queued = tunnels[u].queued
              /\ At(t, stage)[u].early = tunnels[u].early
              /\ u # t => At(t, stage)[u].stage = tunnels[u].stage
  <1> DEFINE out == At(t, stage)
             moved == [tunnels[t] EXCEPT !.stage = stage]
  <1>1. tunnels[t] \in Tunnel
    OBVIOUS
  <1>2. /\ moved \in Tunnel /\ moved.stage = stage /\ moved.key = tunnels[t].key
        /\ moved.by = tunnels[t].by /\ moved.queued = tunnels[t].queued
        /\ moved.early = tunnels[t].early
    BY <1>1 DEF Tunnel
  <1>3. out = [tunnels EXCEPT ![t] = moved]
    BY DEF At
  <1> HIDE DEF moved, out
  <1>4. out \in Seq(Tunnel) /\ Len(out) = Len(tunnels) /\ DOMAIN out = DOMAIN tunnels
    BY <1>2, <1>3
  <1>5. out[t] = moved /\ \A u \in DOMAIN tunnels : u # t => out[u] = tunnels[u]
    BY <1>3
  <1> QED
    BY <1>2, <1>4, <1>5 DEF out

\* So does moving a reader, apart from what it holds.
LEMMA ToFacts ==
  ASSUME reader \in [Reader -> Task], NEW r \in Reader, NEW pc \in PC
  PROVE  /\ To(r, pc) \in [Reader -> Task]
         /\ To(r, pc)[r].pc = pc
         /\ \A q \in Reader : q # r => To(r, pc)[q] = reader[q]
         /\ \A q \in Reader : To(r, pc)[q].hears = reader[q].hears
  BY DEF To, Task

\* unregister takes away the entry of one tunnel at most.
LEMMA UnregisterFacts ==
  ASSUME TypeOK, NEW t
  PROVE  /\ DOMAIN Unregister(t) = {k \in DOMAIN routes : routes[k] # t}
         /\ \A k \in DOMAIN Unregister(t) : Unregister(t)[k] = routes[k]
         /\ Unregister(t) \in [DOMAIN Unregister(t) -> DOMAIN tunnels]
  BY DEF Unregister, TypeOK

\* The fields of a tunnel.
LEMMA TunnelFields ==
  ASSUME TypeOK, NEW t \in DOMAIN tunnels
  PROVE  /\ tunnels[t] \in Tunnel
         /\ tunnels[t].by \in Reader
         /\ tunnels[t].key \in Key
         /\ tunnels[t].early \in BOOLEAN
         /\ tunnels[t].stage \in Stage
  <1>1. tunnels[t] \in Tunnel
    BY DEF TypeOK
  <1> QED
    BY <1>1 DEF Tunnel

LEMMA InitInvariant ==
  ASSUME Init
  PROVE  IInv
  <1>1. /\ DOMAIN routes = {} /\ DOMAIN tunnels = {} /\ DOMAIN accept = {}
        /\ tunnels \in Seq(Tunnel) /\ accept \in Seq(DOMAIN tunnels)
        /\ Len(tunnels) = 0 /\ Len(accept) = 0
        /\ routes \in [DOMAIN routes -> DOMAIN tunnels]
    BY DEF Init
  <1>2. /\ reader \in [Reader -> Task]
        /\ \A r \in Reader : reader[r].pc = IF r \in Main THEN "recv" ELSE "absent"
    BY DEF Init, Task, PC, Active
  <1>3. TypeOK
    BY <1>1, <1>2, UdpConstants DEF Init, TypeOK
  <1>4. Exclusive
    BY <1>2, UdpConstants DEF Exclusive, Active
  <1>5. Hands
    BY <1>2 DEF Hands
  <1> QED
    BY <1>1, <1>3, <1>4, <1>5
    DEF IInv, RegisteredIsHeld, RegistrationHasReader, HeldIsRegistered,
        FirstDatagramKept, Queue, Origins, Settled

\* Only the number of queued datagrams of a tunnel changes.
LEMMA RequeueKeeps ==
  ASSUME IInv, NEW t \in DOMAIN tunnels, NEW other \in Tunnel,
         tunnels' = [tunnels EXCEPT ![t] = other],
         other.key = tunnels[t].key, other.by = tunnels[t].by,
         other.stage = tunnels[t].stage, other.early = tunnels[t].early,
         other.queued > 0 \/ other.stage \notin {"publishing", "waiting"},
         UNCHANGED <<routes, accept, incoming, assistants, reader>>
  PROVE  IInv'
  <1>1. /\ tunnels \in Seq(Tunnel)
        /\ tunnels' \in Seq(Tunnel) /\ DOMAIN tunnels' = DOMAIN tunnels
        /\ Len(tunnels') = Len(tunnels)
    BY DEF IInv, TypeOK
  <1>2. \A u \in DOMAIN tunnels :
          /\ tunnels'[u].key = tunnels[u].key /\ tunnels'[u].by = tunnels[u].by
          /\ tunnels'[u].stage = tunnels[u].stage /\ tunnels'[u].early = tunnels[u].early
    OBVIOUS
  <1>3. tunnels'[t] = other /\ \A u \in DOMAIN tunnels : u # t => tunnels'[u] = tunnels[u]
    OBVIOUS
  <1>4. TypeOK'
    BY <1>1 DEF IInv, TypeOK
  <1>5. RegisteredIsHeld'
    BY <1>1, <1>2 DEF IInv, RegisteredIsHeld, TypeOK
  <1>6. RegistrationHasReader' /\ Exclusive'
    BY DEF IInv, RegistrationHasReader, Exclusive
  <1>7. HeldIsRegistered'
    BY <1>1, <1>2 DEF IInv, HeldIsRegistered, Registered
  <1>8. FirstDatagramKept'
    BY <1>1, <1>3 DEF IInv, FirstDatagramKept
  <1>9. Hands'
    BY <1>2 DEF IInv, Hands, TypeOK
  <1>10. Queue'
    BY <1>2 DEF IInv, Queue, TypeOK
  <1>11. Origins' /\ Settled'
    BY <1>1, <1>2 DEF IInv, Origins, Settled
  <1> QED
    BY <1>4, <1>5, <1>6, <1>7, <1>8, <1>9, <1>10, <1>11 DEF IInv

-----------------------------------------------------------------------------
(* One step: the reader tasks. *)

LEMMA LoopEnds ==
  ASSUME IInv, NEW r \in Reader, reader[r].pc = "recv", reader' = To(r, "leave"),
         UNCHANGED <<routes, tunnels, accept, incoming, assistants>>
  PROVE  IInv'
  <1>1. /\ reader' \in [Reader -> Task] /\ reader'[r].pc = "leave"
        /\ \A q \in Reader : q # r => reader'[q] = reader[q]
    BY ToFacts DEF IInv, TypeOK, PC
  <1>2. \A q \in Reader : reader'[q].pc \in Active => reader[q].pc \in Active
    BY <1>1 DEF Active
  <1>3. \A t \in DOMAIN tunnels : tunnels[t].by \in Reader
    BY TunnelFields DEF IInv
  <1>11. TypeOK'
    BY <1>1 DEF IInv, TypeOK
  <1>4. RegisteredIsHeld' /\ FirstDatagramKept' /\ Queue'
    BY DEF IInv, RegisteredIsHeld, FirstDatagramKept, Queue
  <1>5. RegistrationHasReader'
    BY <1>1 DEF IInv, RegistrationHasReader
  <1>6. HeldIsRegistered'
    BY <1>3, <1>1 DEF IInv, HeldIsRegistered, Registered
  <1>7. Hands'
    BY <1>1 DEF IInv, Hands
  <1>8. Origins'
    BY <1>3, <1>1 DEF IInv, Origins
  <1>9. Exclusive'
    BY <1>2 DEF IInv, Exclusive
  <1>10. Settled'
    <2> SUFFICES ASSUME NEW t \in DOMAIN tunnels, NEW q \in Reader, ~tunnels[t].early,
                        reader'[tunnels[t].by].pc \in Active,
                        LocalOf[q] = LocalOf[tunnels[t].by], q # tunnels[t].by
                 PROVE  reader'[q].pc \in {"absent", "done"}
      BY DEF Settled
    <2>1. reader[q].pc \in {"absent", "done"}
      BY <1>3, <1>2 DEF IInv, Settled
    <2> QED
      BY <1>1, <2>1
  <1> QED
    BY <1>4, <1>5, <1>6, <1>7, <1>8, <1>9, <1>10, <1>11 DEF IInv

LEMMA AddAssistantKeeps ==
  ASSUME IInv, NEW r \in Reader \ Main, AddAssistant(r)
  PROVE  IInv'
  <1> USE DEF AddAssistant
  <1>1. /\ reader' \in [Reader -> Task] /\ reader'[r].pc = "recv"
        /\ \A q \in Reader : q # r => reader'[q] = reader[q]
        /\ reader[r].pc = "absent"
    <2> DEFINE h == incoming \in {"open", "cleared"}
               task == [reader[r] EXCEPT !.pc = "recv", !.hears = h]
    <2>1. h \in BOOLEAN
      OBVIOUS
    <2>2. reader' = [reader EXCEPT ![r] = task] /\ reader[r].pc = "absent"
      OBVIOUS
    <2>3. reader \in [Reader -> Task] /\ reader[r] \in Task
      BY DEF IInv, TypeOK
    <2> HIDE DEF AddAssistant, h
    <2>4. task \in Task /\ task.pc = "recv"
      BY <2>1, <2>3 DEF Task, PC, Active
    <2> HIDE DEF task
    <2> QED
      BY <2>2, <2>3, <2>4
  <1>2. \A q \in Reader : LocalOf[q] = LocalOf[r] => reader[q].pc \in {"absent", "leave", "done"}
    BY DEF AddressFree
  <1> USE DEF Active
  <1>3. TypeOK'
    BY <1>1 DEF IInv, TypeOK
  <1>4. RegisteredIsHeld' /\ FirstDatagramKept' /\ Queue'
    BY DEF IInv, RegisteredIsHeld, FirstDatagramKept, Queue
  <1>5. RegistrationHasReader'
    BY <1>1 DEF IInv, RegistrationHasReader
  <1>6. ASSUME NEW t \in DOMAIN tunnels
        PROVE  /\ tunnels[t].by \in Reader /\ tunnels[t].by # r
               /\ reader'[tunnels[t].by] = reader[tunnels[t].by]
    <2>1. tunnels[t].by \in Reader
      BY <1>6, TunnelFields DEF IInv
    <2> QED
      BY <1>1, <2>1 DEF IInv, Origins
  <1>7. HeldIsRegistered'
    <2>1. UNCHANGED <<tunnels, routes, incoming>>
      OBVIOUS
    <2>2. HeldIsRegistered
      BY DEF IInv
    <2> HIDE DEF AddAssistant
    <2> QED
      BY <1>6, <2>1, <2>2 DEF HeldIsRegistered, Registered
  <1>8. Hands'
    BY <1>1 DEF IInv, Hands
  <1>9. Origins'
    <2>1. tunnels' = tunnels /\ Origins
      BY DEF IInv
    <2> HIDE DEF AddAssistant
    <2> QED
      BY <1>6, <2>1 DEF Origins
  <1>10. Exclusive'
    BY <1>1, <1>2 DEF IInv, Exclusive
  <1>11. Settled'
    <2> SUFFICES ASSUME NEW t \in DOMAIN tunnels, NEW q \in Reader, ~tunnels[t].early,
                        reader'[tunnels[t].by].pc \in Active,
                        LocalOf[q] = LocalOf[tunnels[t].by], q # tunnels[t].by
                 PROVE  reader'[q].pc \in {"absent", "done"}
      BY DEF Settled
    <2>1. reader[tunnels[t].by].pc \in Active
      BY <1>6
    <2>2. q # r
      BY <1>2, <1>6, <2>1
    <2> QED
      BY <1>1, <1>6, <2>1, <2>2 DEF IInv, Settled
  <1> QED
    BY <1>3, <1>4, <1>5, <1>7, <1>8, <1>9, <1>10, <1>11 DEF IInv

LEMMA EnqueueKeeps ==
  ASSUME IInv, NEW r \in Reader, NEW remote \in Remote, Enqueue(r, remote)
  PROVE  IInv'
  <1> DEFINE k == <<LocalOf[r], remote>>
             t == routes[k]
             fuller == [tunnels[t] EXCEPT !.queued = @ + 1]
  <1>1. t \in DOMAIN tunnels /\ tunnels[t] \in Tunnel
    BY DEF Enqueue, Open, IInv, TypeOK
  <1>2. tunnels[t].queued < TUNNEL_CHANNEL_CAPACITY
    BY DEF Enqueue
  <1>3. tunnels' = [tunnels EXCEPT ![t] = fuller]
    BY DEF Enqueue
  <1>4. UNCHANGED <<routes, accept, incoming, assistants, reader>>
    BY DEF Enqueue
  <1> HIDE DEF t
  <1>5. /\ fuller \in Tunnel /\ fuller.key = tunnels[t].key /\ fuller.by = tunnels[t].by
        /\ fuller.stage = tunnels[t].stage /\ fuller.early = tunnels[t].early
        /\ fuller.queued > 0
    BY <1>1, <1>2, UdpConstants DEF Tunnel
  <1> HIDE DEF fuller
  <1> QED
    BY <1>1, <1>3, <1>4, <1>5, RequeueKeeps

LEMMA RecvKeeps ==
  ASSUME IInv, NEW t \in DOMAIN tunnels, Recv(t)
  PROVE  IInv'
  <1> DEFINE emptier == [tunnels[t] EXCEPT !.queued = @ - 1]
  <1>1. tunnels[t] \in Tunnel /\ tunnels[t].queued > 0 /\ tunnels[t].stage = "owned"
    BY DEF Recv, IInv, TypeOK
  <1>2. tunnels' = [tunnels EXCEPT ![t] = emptier]
    BY DEF Recv
  <1>3. UNCHANGED <<routes, accept, incoming, assistants, reader>>
    BY DEF Recv
  <1>4. /\ emptier \in Tunnel /\ emptier.key = tunnels[t].key /\ emptier.by = tunnels[t].by
        /\ emptier.stage = tunnels[t].stage /\ emptier.early = tunnels[t].early
    BY <1>1, UdpConstants DEF Tunnel
  <1> HIDE DEF emptier
  <1> QED
    BY <1>1, <1>2, <1>3, <1>4, RequeueKeeps

-----------------------------------------------------------------------------
(* What most steps leave alone. *)

\* No reader starts, or finishes after its loop.
SamePhase ==
  \A q \in Reader :
    \/ reader'[q].pc = reader[q].pc
    \/ reader[q].pc \in Active /\ reader'[q].pc \in Active \cup {"leave"}

\* Tunnels differ in their stage and their queue at most.
SameTunnels ==
  /\ DOMAIN tunnels' = DOMAIN tunnels
  /\ \A u \in DOMAIN tunnels :
       /\ tunnels'[u].key = tunnels[u].key
       /\ tunnels'[u].by = tunnels[u].by
       /\ tunnels'[u].queued = tunnels[u].queued
       /\ tunnels'[u].early = tunnels[u].early

LEMMA FrameKeeps ==
  ASSUME IInv, SamePhase, SameTunnels, DOMAIN routes' \subseteq DOMAIN routes
  PROVE  RegistrationHasReader' /\ Exclusive' /\ Settled' /\ Origins'
  <1>1. \A q \in Reader :
          /\ reader'[q].pc \in Active => reader[q].pc \in Active
          /\ reader[q].pc \in {"absent", "done"} <=> reader'[q].pc \in {"absent", "done"}
          /\ reader[q].pc = "absent" <=> reader'[q].pc = "absent"
    BY DEF SamePhase, Active
  <1>2. \A t \in DOMAIN tunnels : tunnels[t].by \in Reader
    BY TunnelFields DEF IInv
  <1>3. RegistrationHasReader'
    BY <1>1 DEF IInv, RegistrationHasReader
  <1>4. Exclusive'
    BY <1>1 DEF IInv, Exclusive
  <1>5. Settled'
    BY <1>1, <1>2 DEF IInv, Settled, SameTunnels
  <1>6. Origins'
    BY <1>1, <1>2 DEF IInv, Origins, SameTunnels
  <1> QED
    BY <1>3, <1>4, <1>5, <1>6

\* A receive half is dropped, by whoever holds it: unregister first.
LEMMA DroppingKeeps ==
  ASSUME IInv, SamePhase, NEW t \in DOMAIN tunnels, routes' = Unregister(t),
         tunnels' = At(t, "dropping"), incoming' = incoming
  PROVE  /\ SameTunnels /\ DOMAIN routes' \subseteq DOMAIN routes
         /\ tunnels' \in Seq(Tunnel) /\ Len(tunnels') = Len(tunnels)
         /\ routes' \in [DOMAIN routes' -> DOMAIN tunnels']
         /\ tunnels'[t].stage = "dropping"
         /\ \A u \in DOMAIN tunnels : u # t => tunnels'[u].stage = tunnels[u].stage
         /\ RegisteredIsHeld' /\ HeldIsRegistered' /\ FirstDatagramKept'
  <1>1. /\ tunnels' \in Seq(Tunnel) /\ Len(tunnels') = Len(tunnels)
        /\ tunnels'[t].stage = "dropping" /\ SameTunnels
        /\ \A u \in DOMAIN tunnels : u # t => tunnels'[u].stage = tunnels[u].stage
    BY AtFacts DEF IInv, TypeOK, Stage, Held, SameTunnels
  <1>2. /\ DOMAIN routes' = {k \in DOMAIN routes : routes[k] # t}
        /\ \A k \in DOMAIN routes' : routes'[k] = routes[k]
        /\ routes' \in [DOMAIN routes' -> DOMAIN tunnels]
    BY UnregisterFacts DEF IInv
  <1>3. \A k \in DOMAIN routes : routes[k] \in DOMAIN tunnels
    BY DEF IInv, TypeOK
  <1>4. RegisteredIsHeld'
    BY <1>1, <1>2, <1>3 DEF IInv, RegisteredIsHeld, SameTunnels
  <1>5. \A u \in DOMAIN tunnels : tunnels[u].by \in Reader
    BY TunnelFields DEF IInv
  <1>6. HeldIsRegistered'
    <2> SUFFICES ASSUME NEW u \in DOMAIN tunnels,
                        tunnels'[u].stage \in Held, incoming' = "open",
                        reader'[tunnels'[u].by].pc \notin {"leave", "done"},
                        ~tunnels'[u].early
                 PROVE  Registered(u)'
      BY <1>1 DEF HeldIsRegistered, SameTunnels
    <2>1. u # t /\ tunnels[u].stage \in Held
      BY <1>1 DEF Held
    <2>2. reader[tunnels[u].by].pc \notin {"leave", "done"}
      BY <1>1, <1>5 DEF SamePhase, SameTunnels, Active
    <2>3. Registered(u)
      BY <1>1, <2>1, <2>2 DEF IInv, HeldIsRegistered, SameTunnels
    <2> QED
      BY <1>1, <1>2, <2>1, <2>3 DEF Registered, SameTunnels
  <1>7. FirstDatagramKept'
    BY <1>1 DEF IInv, FirstDatagramKept, SameTunnels
  <1> QED
    BY <1>1, <1>2, <1>4, <1>6, <1>7 DEF SameTunnels

\* Any other change of stage, with the routes left alone.
LEMMA MovingKeeps ==
  ASSUME IInv, SamePhase, NEW t \in DOMAIN tunnels, NEW stage \in Stage,
         routes' = routes, tunnels' = At(t, stage), incoming' = incoming,
         stage \in Held <=> tunnels[t].stage \in Held,
         stage \in {"publishing", "waiting"} => tunnels[t].stage \in {"publishing", "waiting"}
  PROVE  /\ SameTunnels
         /\ tunnels' \in Seq(Tunnel) /\ Len(tunnels') = Len(tunnels)
         /\ tunnels'[t].stage = stage
         /\ \A u \in DOMAIN tunnels : u # t => tunnels'[u].stage = tunnels[u].stage
         /\ RegisteredIsHeld' /\ HeldIsRegistered' /\ FirstDatagramKept'
  <1>1. /\ tunnels' \in Seq(Tunnel) /\ Len(tunnels') = Len(tunnels)
        /\ tunnels'[t].stage = stage /\ SameTunnels
        /\ \A u \in DOMAIN tunnels : u # t => tunnels'[u].stage = tunnels[u].stage
    BY AtFacts DEF IInv, TypeOK, SameTunnels
  <1>2. \A u \in DOMAIN tunnels : tunnels'[u].stage \in Held <=> tunnels[u].stage \in Held
    BY <1>1
  <1>3. \A k \in DOMAIN routes : routes[k] \in DOMAIN tunnels
    BY DEF IInv, TypeOK
  <1>4. RegisteredIsHeld'
    BY <1>1, <1>2, <1>3 DEF IInv, RegisteredIsHeld, SameTunnels
  <1>5. \A u \in DOMAIN tunnels : tunnels[u].by \in Reader
    BY TunnelFields DEF IInv
  <1>6. \A u \in DOMAIN tunnels :
          reader[tunnels[u].by].pc \in {"leave", "done"} =>
            reader'[tunnels'[u].by].pc \in {"leave", "done"}
    BY <1>1, <1>5 DEF SamePhase, SameTunnels, Active
  <1>7. HeldIsRegistered'
    BY <1>1, <1>2, <1>6 DEF IInv, HeldIsRegistered, SameTunnels, Registered
  <1>8. FirstDatagramKept'
    BY <1>1 DEF IInv, FirstDatagramKept, SameTunnels
  <1> QED
    BY <1>1, <1>4, <1>7, <1>8

-----------------------------------------------------------------------------
(* One step: publishing a tunnel. *)

\* The tunnel in a reader's hands is in nobody else's and not in the queue.
LEMMA InHands ==
  ASSUME IInv, NEW r \in Reader, reader[r].pc \in {"publish", "refused", "orphaned"}
  PROVE  /\ reader[r].tunnel \in DOMAIN tunnels
         /\ tunnels[reader[r].tunnel].by = r
         /\ tunnels[reader[r].tunnel].stage =
              IF reader[r].pc = "publish" THEN "publishing" ELSE "dropping"
         /\ \A q \in Reader \ {r} : reader[q].pc \in {"publish", "refused", "orphaned"}
                                => reader[q].tunnel # reader[r].tunnel
         /\ \A i \in DOMAIN accept : accept[i] # reader[r].tunnel
  <1>1. \A q \in Reader : reader[q].pc \in {"publish", "refused", "orphaned"} =>
          reader[q].tunnel \in DOMAIN tunnels /\ tunnels[reader[q].tunnel].by = q
    BY DEF IInv, TypeOK, Hands
  <1>2. tunnels[reader[r].tunnel].stage =
          IF reader[r].pc = "publish" THEN "publishing" ELSE "dropping"
    <2>1. \/ reader[r].pc = "publish" /\ tunnels[reader[r].tunnel].stage = "publishing"
          \/ reader[r].pc # "publish" /\ tunnels[reader[r].tunnel].stage = "dropping"
      BY DEF IInv, Hands
    <2> QED
      BY <2>1
  <1>3. \A i \in DOMAIN accept : tunnels[accept[i]].stage = "waiting"
    BY DEF IInv, Queue
  <1>4. \A i \in DOMAIN accept : accept[i] # reader[r].tunnel
    BY <1>2, <1>3
  <1> QED
    BY <1>1, <1>2, <1>4

\* The readers' hands are as before, except that the tunnel t one of them holds
\* is now being dropped.
LEMMA HandsKeep ==
  ASSUME IInv, SameTunnels, NEW t,
         \A u \in DOMAIN tunnels : u # t => tunnels'[u].stage = tunnels[u].stage,
         \A q \in Reader : reader'[q].pc \in {"publish", "refused", "orphaned"} =>
           \/ reader'[q] = reader[q] /\ reader[q].tunnel # t
           \/ /\ reader'[q].pc # "publish" /\ reader'[q].tunnel = t
              /\ t \in DOMAIN tunnels /\ tunnels[t].by = q
              /\ tunnels'[t].stage = "dropping"
  PROVE  /\ Hands'
         /\ \A q \in Reader : reader'[q].pc \in {"publish", "refused", "orphaned"} =>
              reader'[q].tunnel \in DOMAIN tunnels'
  <1> SUFFICES ASSUME NEW q \in Reader,
                      reader'[q].pc \in {"publish", "refused", "orphaned"}
               PROVE  /\ reader'[q].tunnel \in DOMAIN tunnels'
                      /\ tunnels'[reader'[q].tunnel].by = q
                      /\ reader'[q].pc = "publish" =>
                           tunnels'[reader'[q].tunnel].stage = "publishing"
                      /\ reader'[q].pc # "publish" =>
                           tunnels'[reader'[q].tunnel].stage = "dropping"
    BY DEF Hands
  <1>1. CASE reader'[q] = reader[q] /\ reader[q].tunnel # t
    <2>1. /\ reader[q].tunnel \in DOMAIN tunnels
          /\ tunnels[reader[q].tunnel].by = q
          /\ reader[q].pc = "publish" => tunnels[reader[q].tunnel].stage = "publishing"
          /\ reader[q].pc # "publish" => tunnels[reader[q].tunnel].stage = "dropping"
      BY <1>1 DEF IInv, TypeOK, Hands
    <2> QED
      BY <1>1, <2>1 DEF SameTunnels
  <1>2. CASE /\ reader'[q].pc # "publish" /\ reader'[q].tunnel = t
             /\ t \in DOMAIN tunnels /\ tunnels[t].by = q
             /\ tunnels'[t].stage = "dropping"
    BY <1>2 DEF SameTunnels
  <1> QED
    BY <1>1, <1>2

\* The accept queue is as before and the tunnel that moves is not in it.
LEMMA QueueKeeps ==
  ASSUME IInv, NEW t, \A i \in DOMAIN accept : accept[i] # t, accept' = accept,
         \A u \in DOMAIN tunnels : u # t => tunnels'[u].stage = tunnels[u].stage
  PROVE  Queue'
  <1>1. \A i \in DOMAIN accept : accept[i] \in DOMAIN tunnels
    BY DEF IInv, TypeOK
  <1> QED
    BY <1>1 DEF IInv, Queue

\* The head of the accept queue was taken and is the only tunnel that moved.
LEMMA TailKeeps ==
  ASSUME IInv, accept # <<>>, accept' = Tail(accept), DOMAIN tunnels' = DOMAIN tunnels,
         \A u \in DOMAIN tunnels :
           u # Head(accept) => tunnels'[u].stage = tunnels[u].stage
  PROVE  /\ Head(accept) \in DOMAIN tunnels
         /\ tunnels[Head(accept)].stage = "waiting"
         /\ accept' \in Seq(DOMAIN tunnels') /\ Len(accept') <= AcceptCapacity
         /\ Queue'
  <1>1. accept \in Seq(DOMAIN tunnels) /\ Len(accept) <= AcceptCapacity
    BY DEF IInv, TypeOK
  <1>2. /\ DOMAIN accept = 1 .. Len(accept) /\ Len(accept) \in Nat /\ Len(accept) > 0
        /\ Head(accept) = accept[1] /\ 1 \in DOMAIN accept
    BY <1>1
  <1>3. /\ accept' \in Seq(DOMAIN tunnels) /\ Len(accept') = Len(accept) - 1
        /\ DOMAIN accept' = 1 .. Len(accept) - 1
        /\ \A i \in 1 .. Len(accept) - 1 : accept'[i] = accept[i + 1]
    BY <1>1, <1>2
  <1>4. /\ \A i \in DOMAIN accept : tunnels[accept[i]].stage = "waiting"
        /\ \A i \in DOMAIN accept : accept[i] \in DOMAIN tunnels
        /\ \A i, j \in DOMAIN accept : accept[i] = accept[j] => i = j
    BY <1>1 DEF IInv, Queue
  <1>5. \A i \in DOMAIN accept' : i + 1 \in DOMAIN accept /\ i + 1 # 1
    BY <1>2, <1>3
  <1>6. \A i \in DOMAIN accept' : tunnels'[accept'[i]].stage = "waiting"
    BY <1>2, <1>3, <1>4, <1>5
  <1>7. \A i, j \in DOMAIN accept' : accept'[i] = accept'[j] => i = j
    <2> SUFFICES ASSUME NEW i \in DOMAIN accept', NEW j \in DOMAIN accept',
                        accept'[i] = accept'[j]
                 PROVE  i = j
      OBVIOUS
    <2>1. i + 1 = j + 1
      BY <1>3, <1>4, <1>5
    <2> QED
      BY <1>2, <1>3, <2>1
  <1>8. Len(accept') <= AcceptCapacity
    BY <1>1, <1>2, <1>3, UdpConstants
  <1> QED
    BY <1>2, <1>3, <1>4, <1>6, <1>7, <1>8 DEF Queue

LEMMA PublishKeeps ==
  ASSUME IInv, NEW r \in Reader, Publish(r)
  PROVE  IInv'
  <1> DEFINE t == reader[r].tunnel
  <1>1. /\ t \in DOMAIN tunnels /\ tunnels[t].stage = "publishing"
        /\ \A q \in Reader \ {r} : reader[q].pc \in {"publish", "refused", "orphaned"}
                               => reader[q].tunnel # t
        /\ \A i \in DOMAIN accept : accept[i] # t
    BY InHands DEF Publish
  <1> HIDE DEF t
  <1>2. /\ reader[r].pc = "publish" /\ Len(accept) < AcceptCapacity
        /\ tunnels' = At(t, "waiting") /\ accept' = Append(accept, t)
        /\ reader' = To(r, "recv")
        /\ UNCHANGED <<routes, incoming, assistants>>
    BY DEF Publish, t
  <1>3. /\ reader' \in [Reader -> Task] /\ reader'[r].pc = "recv"
        /\ \A q \in Reader : q # r => reader'[q] = reader[q]
    BY <1>2, ToFacts DEF IInv, TypeOK, PC, Active
  <1>4. SamePhase
    BY <1>2, <1>3 DEF SamePhase, Active
  <1>5. "waiting" \in Stage /\ "waiting" \in Held /\ "publishing" \in Held
    BY DEF Stage, Held
  <1>6. /\ SameTunnels
        /\ tunnels' \in Seq(Tunnel) /\ Len(tunnels') = Len(tunnels)
        /\ tunnels'[t].stage = "waiting"
        /\ \A u \in DOMAIN tunnels : u # t => tunnels'[u].stage = tunnels[u].stage
        /\ RegisteredIsHeld' /\ HeldIsRegistered' /\ FirstDatagramKept'
    BY <1>1, <1>2, <1>4, <1>5, MovingKeeps
  <1>7. RegistrationHasReader' /\ Exclusive' /\ Settled' /\ Origins'
    BY <1>2, <1>4, <1>6, FrameKeeps
  <1>8. accept \in Seq(DOMAIN tunnels) /\ DOMAIN tunnels' = DOMAIN tunnels
    BY <1>6 DEF IInv, TypeOK, SameTunnels
  <1>9. /\ accept' \in Seq(DOMAIN tunnels) /\ Len(accept') = Len(accept) + 1
        /\ DOMAIN accept' = 1 .. Len(accept) + 1
        /\ accept'[Len(accept) + 1] = t
        /\ \A i \in 1 .. Len(accept) : accept'[i] = accept[i]
        /\ DOMAIN accept = 1 .. Len(accept) /\ Len(accept) \in Nat
    BY <1>1, <1>2, <1>8
  <1>10. TypeOK'
    <2>1. /\ routes' \in [DOMAIN routes' -> DOMAIN tunnels'] /\ DOMAIN routes' \subseteq Key
          /\ Len(tunnels') <= MaxTunnels
      BY <1>2, <1>6, <1>8 DEF IInv, TypeOK
    <2>2. accept' \in Seq(DOMAIN tunnels') /\ Len(accept') <= AcceptCapacity
      BY <1>2, <1>8, <1>9, UdpConstants
    <2>3. \A q \in Reader : reader'[q].pc \in {"publish", "refused", "orphaned"} =>
            reader'[q].tunnel \in DOMAIN tunnels'
      BY <1>3, <1>8 DEF IInv, TypeOK
    <2> QED
      BY <1>2, <1>3, <1>6, <2>1, <2>2, <2>3 DEF IInv, TypeOK
  <1>11. Hands'
    <2>1. \A q \in Reader : reader'[q].pc \in {"publish", "refused", "orphaned"} =>
            reader'[q] = reader[q] /\ reader[q].tunnel # t
      BY <1>1, <1>3
    <2> QED
      BY <1>6, <2>1, HandsKeep
  <1>12. Queue'
    <2>1. \A i \in DOMAIN accept' : i = Len(accept) + 1 \/ i \in DOMAIN accept
      BY <1>9
    <2>2. \A i \in DOMAIN accept : accept[i] \in DOMAIN tunnels
      BY <1>8
    <2>3. \A i \in DOMAIN accept' : tunnels'[accept'[i]].stage = "waiting"
      <3>1. \A i \in DOMAIN accept : tunnels'[accept[i]].stage = "waiting"
        BY <1>1, <1>6, <2>2 DEF IInv, Queue
      <3>2. \A i \in DOMAIN accept : accept'[i] = accept[i]
        BY <1>9
      <3> QED
        BY <1>6, <1>9, <2>1, <3>1, <3>2
    <2>4. \A i, j \in DOMAIN accept' : accept'[i] = accept'[j] => i = j
      <3>1. \A i \in DOMAIN accept : accept'[i] = accept[i]
        BY <1>9
      <3>2. \A i \in DOMAIN accept : accept'[i] # accept'[Len(accept) + 1]
        BY <1>1, <1>9, <3>1
      <3> QED
        BY <2>1, <3>1, <3>2 DEF IInv, Queue
    <2> QED
      BY <2>3, <2>4 DEF Queue
  <1> QED
    BY <1>6, <1>7, <1>10, <1>11, <1>12 DEF IInv

\* Publishing fails, the accept queue being full or closed.
LEMMA PublishFailsKeeps ==
  ASSUME IInv, NEW r \in Reader, reader[r].pc = "publish",
         NEW pc \in {"refused", "orphaned"},
         routes' = Unregister(reader[r].tunnel),
         tunnels' = At(reader[r].tunnel, "dropping"),
         reader' = [reader EXCEPT ![r].pc = pc],
         UNCHANGED <<accept, incoming, assistants>>
  PROVE  IInv'
  <1> DEFINE t == reader[r].tunnel
  <1>1. /\ t \in DOMAIN tunnels /\ tunnels[t].stage = "publishing" /\ tunnels[t].by = r
        /\ \A q \in Reader \ {r} : reader[q].pc \in {"publish", "refused", "orphaned"}
                               => reader[q].tunnel # t
        /\ \A i \in DOMAIN accept : accept[i] # t
    BY InHands DEF IInv, Hands
  <1>2. /\ reader' \in [Reader -> Task] /\ reader'[r].pc = pc /\ reader'[r].tunnel = t
        /\ \A q \in Reader : q # r => reader'[q] = reader[q]
    BY DEF IInv, TypeOK, Task, PC, Active
  <1>3. SamePhase
    BY <1>2 DEF SamePhase, Active
  <1> HIDE DEF t
  <1>4. routes' = Unregister(t) /\ tunnels' = At(t, "dropping") /\ incoming' = incoming
    BY DEF t
  <1>5. /\ SameTunnels /\ DOMAIN routes' \subseteq DOMAIN routes
        /\ tunnels' \in Seq(Tunnel) /\ Len(tunnels') = Len(tunnels)
        /\ routes' \in [DOMAIN routes' -> DOMAIN tunnels']
        /\ tunnels'[t].stage = "dropping"
        /\ \A u \in DOMAIN tunnels : u # t => tunnels'[u].stage = tunnels[u].stage
        /\ RegisteredIsHeld' /\ HeldIsRegistered' /\ FirstDatagramKept'
    BY <1>1, <1>3, <1>4, DroppingKeeps
  <1>6. RegistrationHasReader' /\ Exclusive' /\ Settled' /\ Origins'
    BY <1>3, <1>5, FrameKeeps
  <1>7. /\ Hands'
        /\ \A q \in Reader : reader'[q].pc \in {"publish", "refused", "orphaned"} =>
             reader'[q].tunnel \in DOMAIN tunnels'
    <2>1. \A q \in Reader \ {r} : reader'[q].pc \in {"publish", "refused", "orphaned"} =>
            reader'[q] = reader[q] /\ reader[q].tunnel # t
      BY <1>1, <1>2
    <2>2. reader'[r].pc # "publish"
      BY <1>2
    <2> QED
      BY <1>1, <1>2, <1>5, <2>1, <2>2, HandsKeep
  <1>8. TypeOK'
    BY <1>1, <1>2, <1>5, <1>7 DEF IInv, TypeOK, SameTunnels
  <1>9. Queue'
    BY <1>1, <1>5, QueueKeeps
  <1> QED
    BY <1>5, <1>6, <1>7, <1>8, <1>9 DEF IInv

\* A reader has dropped the tunnel it could not publish.
LEMMA RefusedKeeps ==
  ASSUME IInv, NEW r \in Reader, Refused(r)
  PROVE  IInv'
  <1> DEFINE t == reader[r].tunnel
             pc == IF reader[r].pc = "refused" THEN "recv" ELSE "leave"
  <1>1. /\ t \in DOMAIN tunnels /\ tunnels[t].stage = "dropping"
        /\ \A q \in Reader \ {r} : reader[q].pc \in {"publish", "refused", "orphaned"}
                                     => reader[q].tunnel # t
        /\ \A i \in DOMAIN accept : accept[i] # t
    BY InHands DEF Refused
  <1>2. pc \in {"recv", "leave"} /\ pc \in PC
    BY DEF PC, Active
  <1>3. /\ tunnels' = At(t, "dropped") /\ reader' = To(r, pc)
        /\ reader[r].pc \in {"refused", "orphaned"}
        /\ UNCHANGED <<routes, accept, incoming, assistants>>
    BY DEF Refused
  <1> HIDE DEF t, pc
  <1>4. /\ reader' \in [Reader -> Task] /\ reader'[r].pc = pc
        /\ \A q \in Reader : q # r => reader'[q] = reader[q]
    BY <1>2, <1>3, ToFacts DEF IInv, TypeOK
  <1>5. SamePhase
    BY <1>2, <1>3, <1>4 DEF SamePhase, Active
  <1>6. /\ "dropped" \in Stage /\ "dropped" \notin Held /\ "dropping" \notin Held
        /\ "dropped" \notin {"publishing", "waiting"}
    BY DEF Stage, Held
  <1>7. /\ SameTunnels
        /\ tunnels' \in Seq(Tunnel) /\ Len(tunnels') = Len(tunnels)
        /\ \A u \in DOMAIN tunnels : u # t => tunnels'[u].stage = tunnels[u].stage
        /\ RegisteredIsHeld' /\ HeldIsRegistered' /\ FirstDatagramKept'
    BY <1>1, <1>3, <1>5, <1>6, MovingKeeps
  <1>8. RegistrationHasReader' /\ Exclusive' /\ Settled' /\ Origins'
    BY <1>3, <1>5, <1>7, FrameKeeps
  <1>9. /\ Hands'
        /\ \A q \in Reader : reader'[q].pc \in {"publish", "refused", "orphaned"} =>
             reader'[q].tunnel \in DOMAIN tunnels'
    <2>1. \A q \in Reader : reader'[q].pc \in {"publish", "refused", "orphaned"} =>
            reader'[q] = reader[q] /\ reader[q].tunnel # t
      BY <1>1, <1>2, <1>4
    <2> QED
      BY <1>7, <2>1, HandsKeep
  <1>10. TypeOK'
    BY <1>3, <1>4, <1>7, <1>9 DEF IInv, TypeOK, SameTunnels
  <1>11. Queue'
    BY <1>1, <1>3, <1>7, QueueKeeps
  <1> QED
    BY <1>7, <1>8, <1>9, <1>10, <1>11 DEF IInv

-----------------------------------------------------------------------------
(* One step: the application and TunnelIncoming. *)

LEMMA CloseQueueKeeps ==
  ASSUME IInv, NEW t \in DOMAIN tunnels, CloseQueue(t)
  PROVE  IInv'
  <1>1. /\ tunnels[t].stage = "dropping" /\ tunnels' = At(t, "dropped")
        /\ \A q \in Reader : reader[q].pc \in {"refused", "orphaned"} => reader[q].tunnel # t
        /\ UNCHANGED <<routes, accept, incoming, assistants, reader>>
    BY DEF CloseQueue
  <1>2. \A q \in Reader : reader[q].pc \in {"publish", "refused", "orphaned"} =>
          reader[q].tunnel # t
    BY <1>1 DEF IInv, Hands
  <1>3. \A i \in DOMAIN accept : accept[i] # t
    BY <1>1 DEF IInv, Queue
  <1>4. SamePhase
    BY <1>1 DEF SamePhase
  <1>5. /\ "dropped" \in Stage /\ "dropped" \notin Held /\ "dropping" \notin Held
        /\ "dropped" \notin {"publishing", "waiting"}
    BY DEF Stage, Held
  <1>6. /\ SameTunnels
        /\ tunnels' \in Seq(Tunnel) /\ Len(tunnels') = Len(tunnels)
        /\ \A u \in DOMAIN tunnels : u # t => tunnels'[u].stage = tunnels[u].stage
        /\ RegisteredIsHeld' /\ HeldIsRegistered' /\ FirstDatagramKept'
    BY <1>1, <1>4, <1>5, MovingKeeps
  <1>7. RegistrationHasReader' /\ Exclusive' /\ Settled' /\ Origins'
    BY <1>1, <1>4, <1>6, FrameKeeps
  <1>8. Hands'
    BY <1>1, <1>2, <1>6, HandsKeep
  <1>9. TypeOK'
    BY <1>1, <1>6 DEF IInv, TypeOK, SameTunnels
  <1>10. Queue'
    BY <1>1, <1>3, <1>6, QueueKeeps
  <1> QED
    BY <1>6, <1>7, <1>8, <1>9, <1>10 DEF IInv

LEMMA DropTunnelKeeps ==
  ASSUME IInv, NEW t \in DOMAIN tunnels, DropTunnel(t)
  PROVE  IInv'
  <1>1. /\ tunnels[t].stage = "owned" /\ tunnels' = At(t, "dropping")
        /\ routes' = Unregister(t)
        /\ UNCHANGED <<accept, incoming, assistants, reader>>
    BY DEF DropTunnel
  <1>2. \A q \in Reader : reader[q].pc \in {"publish", "refused", "orphaned"} =>
          reader[q].tunnel # t
    BY <1>1 DEF IInv, Hands
  <1>3. \A i \in DOMAIN accept : accept[i] # t
    BY <1>1 DEF IInv, Queue
  <1>4. SamePhase
    BY <1>1 DEF SamePhase
  <1>5. /\ SameTunnels /\ DOMAIN routes' \subseteq DOMAIN routes
        /\ tunnels' \in Seq(Tunnel) /\ Len(tunnels') = Len(tunnels)
        /\ routes' \in [DOMAIN routes' -> DOMAIN tunnels']
        /\ \A u \in DOMAIN tunnels : u # t => tunnels'[u].stage = tunnels[u].stage
        /\ RegisteredIsHeld' /\ HeldIsRegistered' /\ FirstDatagramKept'
    BY <1>1, <1>4, DroppingKeeps
  <1>6. RegistrationHasReader' /\ Exclusive' /\ Settled' /\ Origins'
    BY <1>4, <1>5, FrameKeeps
  <1>7. Hands'
    BY <1>1, <1>2, <1>5, HandsKeep
  <1>8. TypeOK'
    BY <1>1, <1>5 DEF IInv, TypeOK, SameTunnels
  <1>9. Queue'
    BY <1>1, <1>3, <1>5, QueueKeeps
  <1> QED
    BY <1>5, <1>6, <1>7, <1>8, <1>9 DEF IInv

\* The head of the accept queue is in no reader's hands.
LEMMA HeadWaits ==
  ASSUME IInv, accept # <<>>
  PROVE  /\ Head(accept) \in DOMAIN tunnels
         /\ tunnels[Head(accept)].stage = "waiting"
         /\ \A q \in Reader : reader[q].pc \in {"publish", "refused", "orphaned"} =>
              reader[q].tunnel # Head(accept)
  <1>1. Head(accept) \in DOMAIN tunnels /\ tunnels[Head(accept)].stage = "waiting"
    <2>1. accept \in Seq(DOMAIN tunnels)
      BY DEF IInv, TypeOK
    <2>2. 1 \in DOMAIN accept /\ Head(accept) = accept[1]
      BY <2>1
    <2> QED
      BY <2>1, <2>2 DEF IInv, Queue
  <1> QED
    BY <1>1 DEF IInv, Hands

LEMMA AcceptNextKeeps ==
  ASSUME IInv, AcceptNext
  PROVE  IInv'
  <1> DEFINE t == Head(accept)
  <1>1. /\ t \in DOMAIN tunnels /\ tunnels[t].stage = "waiting"
        /\ \A q \in Reader : reader[q].pc \in {"publish", "refused", "orphaned"} =>
             reader[q].tunnel # t
    BY HeadWaits DEF AcceptNext
  <1>2. /\ accept # <<>> /\ tunnels' = At(t, "owned") /\ accept' = Tail(accept)
        /\ UNCHANGED <<routes, incoming, assistants, reader>>
    BY DEF AcceptNext
  <1>3. SamePhase
    BY <1>2 DEF SamePhase
  <1>4. "owned" \in Stage /\ "owned" \in Held /\ "waiting" \in Held
    BY DEF Stage, Held
  <1>5. /\ SameTunnels
        /\ tunnels' \in Seq(Tunnel) /\ Len(tunnels') = Len(tunnels)
        /\ \A u \in DOMAIN tunnels : u # t => tunnels'[u].stage = tunnels[u].stage
        /\ RegisteredIsHeld' /\ HeldIsRegistered' /\ FirstDatagramKept'
    BY <1>1, <1>2, <1>3, <1>4, MovingKeeps
  <1>6. RegistrationHasReader' /\ Exclusive' /\ Settled' /\ Origins'
    BY <1>2, <1>3, <1>5, FrameKeeps
  <1>7. Hands'
    BY <1>1, <1>2, <1>5, HandsKeep
  <1>8. /\ Queue' /\ DOMAIN tunnels' = DOMAIN tunnels
        /\ accept' \in Seq(DOMAIN tunnels') /\ Len(accept') <= AcceptCapacity
    BY <1>2, <1>5, TailKeeps DEF SameTunnels
  <1>9. TypeOK'
    BY <1>2, <1>5, <1>8 DEF IInv, TypeOK
  <1> QED
    BY <1>5, <1>6, <1>7, <1>8, <1>9 DEF IInv

LEMMA DrainAcceptKeeps ==
  ASSUME IInv, DrainAccept
  PROVE  IInv'
  <1> DEFINE t == Head(accept)
  <1>1. /\ t \in DOMAIN tunnels /\ tunnels[t].stage = "waiting"
        /\ \A q \in Reader : reader[q].pc \in {"publish", "refused", "orphaned"} =>
             reader[q].tunnel # t
    BY HeadWaits DEF DrainAccept
  <1>2. /\ accept # <<>> /\ tunnels' = At(t, "dropping") /\ accept' = Tail(accept)
        /\ routes' = Unregister(t)
        /\ UNCHANGED <<incoming, assistants, reader>>
    BY DEF DrainAccept
  <1>3. SamePhase
    BY <1>2 DEF SamePhase
  <1>4. /\ SameTunnels /\ DOMAIN routes' \subseteq DOMAIN routes
        /\ tunnels' \in Seq(Tunnel) /\ Len(tunnels') = Len(tunnels)
        /\ routes' \in [DOMAIN routes' -> DOMAIN tunnels']
        /\ \A u \in DOMAIN tunnels : u # t => tunnels'[u].stage = tunnels[u].stage
        /\ RegisteredIsHeld' /\ HeldIsRegistered' /\ FirstDatagramKept'
    BY <1>1, <1>2, <1>3, DroppingKeeps
  <1>5. RegistrationHasReader' /\ Exclusive' /\ Settled' /\ Origins'
    BY <1>3, <1>4, FrameKeeps
  <1>6. Hands'
    BY <1>1, <1>2, <1>4, HandsKeep
  <1>7. /\ Queue' /\ DOMAIN tunnels' = DOMAIN tunnels
        /\ accept' \in Seq(DOMAIN tunnels') /\ Len(accept') <= AcceptCapacity
    BY <1>2, <1>4, TailKeeps DEF SameTunnels
  <1>8. TypeOK'
    BY <1>2, <1>4, <1>7 DEF IInv, TypeOK
  <1> QED
    BY <1>4, <1>5, <1>6, <1>7, <1>8 DEF IInv

\* The steps of the shutdown itself and the removal of the assistant sockets
\* touch no reader and no tunnel.
LEMMA QuietKeeps ==
  ASSUME IInv, UNCHANGED <<tunnels, accept, reader>>,
         assistants' \subseteq assistants,
         \/ routes' = routes /\ incoming' = incoming
         \/ /\ routes' = routes \/ routes' = <<>>
            /\ incoming' \in {"cleared", "signalled", "closed"}
  PROVE  IInv'
  <1>1. /\ DOMAIN routes' \subseteq DOMAIN routes
        /\ \A k \in DOMAIN routes' : routes'[k] = routes[k]
        /\ routes' \in [DOMAIN routes' -> DOMAIN tunnels]
    <2>1. CASE routes' = routes
      BY <2>1 DEF IInv, TypeOK
    <2>2. CASE routes' = <<>>
      <3>1. DOMAIN routes' = {} /\ routes' = [x \in {} |-> x]
        BY <2>2
      <3> QED
        BY <3>1
    <2> QED
      BY <2>1, <2>2
  <1>2. TypeOK'
    BY <1>1 DEF IInv, TypeOK
  <1>3. RegisteredIsHeld' /\ RegistrationHasReader'
    BY <1>1 DEF IInv, RegisteredIsHeld, RegistrationHasReader
  <1>4. HeldIsRegistered'
    BY DEF IInv, HeldIsRegistered, Registered
  <1> QED
    BY <1>2, <1>3, <1>4 DEF IInv, FirstDatagramKept, Hands, Queue, Origins, Exclusive, Settled

-----------------------------------------------------------------------------
(* One step: a reader finishes, a reader registers a tunnel. *)

LEMMA LeaveKeeps ==
  ASSUME IInv, NEW r \in Reader, Leave(r)
  PROVE  IInv'
  <1>1. /\ reader[r].pc = "leave" /\ reader' = To(r, "done")
        /\ routes' = [k \in {x \in DOMAIN routes : x[1] # LocalOf[r]} |-> routes[k]]
        /\ UNCHANGED <<tunnels, accept, incoming, assistants>>
    BY DEF Leave
  <1>2. /\ reader' \in [Reader -> Task] /\ reader'[r].pc = "done"
        /\ \A q \in Reader : q # r => reader'[q] = reader[q]
    BY <1>1, ToFacts DEF IInv, TypeOK, PC
  <1>3. /\ DOMAIN routes' = {x \in DOMAIN routes : x[1] # LocalOf[r]}
        /\ \A k \in DOMAIN routes' : routes'[k] = routes[k]
        /\ routes' \in [DOMAIN routes' -> DOMAIN tunnels]
    BY <1>1 DEF IInv, TypeOK
  <1>4. \A t \in DOMAIN tunnels : tunnels[t].by \in Reader
    BY TunnelFields DEF IInv
  <1>5. \A q \in Reader : reader'[q].pc \in Active => reader[q].pc \in Active /\ q # r
    BY <1>2 DEF Active
  <1>6. TypeOK'
    BY <1>1, <1>2, <1>3 DEF IInv, TypeOK
  <1>7. RegisteredIsHeld'
    BY <1>1, <1>3 DEF IInv, RegisteredIsHeld
  <1>8. RegistrationHasReader'
    BY <1>2, <1>3 DEF IInv, RegistrationHasReader
  <1>9. HeldIsRegistered'
    <2> SUFFICES ASSUME NEW t \in DOMAIN tunnels, tunnels[t].stage \in Held,
                        incoming = "open", ~tunnels[t].early,
                        reader'[tunnels[t].by].pc \notin {"leave", "done"}
                 PROVE  Registered(t)'
      BY <1>1 DEF HeldIsRegistered
    <2>1. /\ tunnels[t].by # r
          /\ reader[tunnels[t].by].pc \notin {"absent", "leave", "done"}
      BY <1>2, <1>4 DEF IInv, Origins
    <2>2. reader[tunnels[t].by] \in Task
      BY <1>4 DEF IInv, TypeOK
    <2>3. reader[tunnels[t].by].pc \in Active
      BY <2>1, <2>2 DEF Task, PC
    <2>4. LocalOf[tunnels[t].by] # LocalOf[r]
      BY <1>1, <1>4, <2>1, <2>3 DEF IInv, Settled
    <2>5. Registered(t)
      BY <2>1 DEF IInv, HeldIsRegistered
    <2>6. tunnels[t].key[1] = LocalOf[tunnels[t].by]
      BY DEF IInv, Origins
    <2> QED
      BY <1>1, <1>3, <2>4, <2>5, <2>6 DEF Registered
  <1>10. FirstDatagramKept' /\ Queue'
    BY <1>1 DEF IInv, FirstDatagramKept, Queue
  <1>11. Hands'
    <2>1. Hands /\ tunnels' = tunnels
      BY <1>1 DEF IInv
    <2> QED
      BY <1>2, <2>1 DEF Hands
  <1>12. Origins'
    BY <1>1, <1>2, <1>4 DEF IInv, Origins
  <1>13. Exclusive'
    BY <1>5 DEF IInv, Exclusive
  <1>14. Settled'
    <2> SUFFICES ASSUME NEW t \in DOMAIN tunnels, NEW q \in Reader, ~tunnels[t].early,
                        reader'[tunnels[t].by].pc \in Active,
                        LocalOf[q] = LocalOf[tunnels[t].by], q # tunnels[t].by
                 PROVE  reader'[q].pc \in {"absent", "done"}
      BY <1>1 DEF Settled
    <2>1. reader[q].pc \in {"absent", "done"}
      BY <1>4, <1>5 DEF IInv, Settled
    <2> QED
      BY <1>2, <2>1
  <1> QED
    BY <1>6, <1>7, <1>8, <1>9, <1>10, <1>11, <1>12, <1>13, <1>14 DEF IInv

LEMMA RegisterKeeps ==
  ASSUME IInv, NEW r \in Reader, NEW remote \in Remote, Register(r, remote)
  PROVE  IInv'
  <1> DEFINE k == <<LocalOf[r], remote>>
             n == Len(tunnels) + 1
             new == NewTunnel(r, k, 1)
             early == Haunted(r)
  <1>1. /\ reader[r].pc = "recv" /\ ~Open(k) /\ Len(tunnels) < MaxTunnels
        /\ tunnels' = Append(tunnels, new)
        /\ routes' = [x \in DOMAIN routes \cup {k} |-> IF x = k THEN n ELSE routes[x]]
        /\ reader' = [reader EXCEPT ![r].pc = "publish", ![r].tunnel = n]
        /\ UNCHANGED <<accept, incoming, assistants>>
    BY DEF Register
  <1>2. k \in Key /\ k[1] = LocalOf[r]
    BY UdpConstants DEF Key
  <1>3. early \in BOOLEAN
    BY DEF Haunted
  <1>4. new = [key |-> k, by |-> r, queued |-> 1, stage |-> "publishing", early |-> early]
    BY DEF NewTunnel
  <1> HIDE DEF k, new, early
  <1>5. /\ new \in Tunnel /\ new.key = k /\ new.by = r /\ new.queued = 1
        /\ new.stage = "publishing" /\ new.early = early
    BY <1>2, <1>3, <1>4, UdpConstants DEF Tunnel, Stage, Held
  <1>6. /\ tunnels \in Seq(Tunnel) /\ accept \in Seq(DOMAIN tunnels)
        /\ routes \in [DOMAIN routes -> DOMAIN tunnels] /\ Len(tunnels) \in Nat
        /\ DOMAIN tunnels = 1 .. Len(tunnels)
    BY DEF IInv, TypeOK
  <1>7. /\ tunnels' \in Seq(Tunnel) /\ Len(tunnels') = n /\ n \in Nat
        /\ DOMAIN tunnels' = DOMAIN tunnels \cup {n} /\ n \notin DOMAIN tunnels
        /\ tunnels'[n] = new
        /\ \A u \in DOMAIN tunnels : tunnels'[u] = tunnels[u]
    BY <1>1, <1>5, <1>6
  <1> HIDE DEF n
  <1>8. /\ DOMAIN routes' = DOMAIN routes \cup {k} /\ routes'[k] = n
        /\ \A x \in DOMAIN routes : x # k => routes'[x] = routes[x]
        /\ routes' \in [DOMAIN routes' -> DOMAIN tunnels']
    BY <1>1, <1>6, <1>7
  <1>9. /\ reader' \in [Reader -> Task] /\ reader'[r].pc = "publish"
        /\ reader'[r].tunnel = n
        /\ \A q \in Reader : q # r => reader'[q] = reader[q]
    <2>1. n \in Nat /\ reader \in [Reader -> Task]
      BY <1>7 DEF IInv, TypeOK
    <2>2. [reader[r] EXCEPT !.pc = "publish", !.tunnel = n] \in Task
      BY <2>1 DEF Task, PC, Active
    <2>3. reader' = [reader EXCEPT ![r] = [reader[r] EXCEPT !.pc = "publish", !.tunnel = n]]
      BY <1>1
    <2> QED
      BY <2>1, <2>2, <2>3 DEF Task
  <1>10. \A t \in DOMAIN tunnels : tunnels[t].by \in Reader
    BY TunnelFields DEF IInv
  <1>11. \A q \in Reader :
           /\ reader'[q].pc \in Active <=> reader[q].pc \in Active
           /\ reader'[q].pc \notin Active => reader'[q].pc = reader[q].pc
    BY <1>1, <1>9 DEF Active
  <1>12. TypeOK'
    <2>1. accept' \in Seq(DOMAIN tunnels') /\ Len(accept') <= AcceptCapacity
      <3>1. DOMAIN tunnels \subseteq DOMAIN tunnels'
        BY <1>7
      <3> QED
        BY <1>1, <1>6, <3>1 DEF IInv, TypeOK
    <2>2. \A q \in Reader : reader'[q].pc \in {"publish", "refused", "orphaned"} =>
            reader'[q].tunnel \in DOMAIN tunnels'
      BY <1>7, <1>9 DEF IInv, TypeOK
    <2>3. Len(tunnels') <= MaxTunnels
      BY <1>1, <1>6, <1>7, UdpConstants DEF n
    <2> QED
      BY <1>1, <1>2, <1>7, <1>8, <1>9, <2>1, <2>2, <2>3 DEF IInv, TypeOK
  <1>13. RegisteredIsHeld'
    <2> SUFFICES ASSUME NEW x \in DOMAIN routes'
                 PROVE  /\ tunnels'[routes'[x]].key = x
                        /\ tunnels'[routes'[x]].stage \in Held
      BY DEF RegisteredIsHeld
    <2>1. CASE x = k
      BY <1>5, <1>7, <1>8, <2>1 DEF Held
    <2>2. CASE x # k
      <3>1. /\ x \in DOMAIN routes /\ routes'[x] = routes[x]
            /\ routes[x] \in DOMAIN tunnels
        BY <1>6, <1>8, <2>2
      <3> QED
        BY <1>7, <3>1 DEF IInv, RegisteredIsHeld
    <2> QED
      BY <2>1, <2>2
  <1>14. RegistrationHasReader'
    <2>1. \A q \in Reader : reader[q].pc \notin {"absent", "done"} =>
            reader'[q].pc \notin {"absent", "done"}
      BY <1>9
    <2>2. reader'[r].pc \notin {"absent", "done"}
      BY <1>9
    <2> QED
      BY <1>2, <1>8, <2>1, <2>2 DEF IInv, RegistrationHasReader
  <1>15. HeldIsRegistered'
    <2> SUFFICES ASSUME NEW t \in DOMAIN tunnels', tunnels'[t].stage \in Held,
                        incoming = "open", ~tunnels'[t].early,
                        reader'[tunnels'[t].by].pc \notin {"leave", "done"}
                 PROVE  Registered(t)'
      BY <1>1 DEF HeldIsRegistered
    <2>1. CASE t = n
      BY <1>5, <1>7, <1>8, <2>1 DEF Registered
    <2>2. CASE t \in DOMAIN tunnels
      <3>1. reader[tunnels[t].by].pc \notin {"leave", "done"}
        BY <1>1, <1>7, <1>9, <1>10, <2>2
      <3>2. Registered(t)
        BY <1>7, <2>2, <3>1 DEF IInv, HeldIsRegistered
      <3>3. tunnels[t].stage # "dropped"
        BY <1>7, <2>2 DEF Held
      <3>4. tunnels[t].key # k
        BY <1>1, <3>2, <3>3 DEF Registered, Open
      <3> QED
        BY <1>7, <1>8, <2>2, <3>2, <3>4 DEF Registered
    <2> QED
      BY <1>7, <2>1, <2>2
  <1>16. FirstDatagramKept'
    BY <1>5, <1>7 DEF IInv, FirstDatagramKept
  <1>17. Hands'
    <2> SUFFICES ASSUME NEW q \in Reader
                 PROVE  /\ reader'[q].pc = "publish" =>
                             /\ tunnels'[reader'[q].tunnel].stage = "publishing"
                             /\ tunnels'[reader'[q].tunnel].by = q
                        /\ reader'[q].pc \in {"refused", "orphaned"} =>
                             /\ tunnels'[reader'[q].tunnel].stage = "dropping"
                             /\ tunnels'[reader'[q].tunnel].by = q
      BY DEF Hands
    <2>1. CASE q = r
      BY <1>5, <1>7, <1>9, <2>1
    <2>2. CASE q # r
      <3>1. /\ reader'[q] = reader[q]
            /\ reader[q].pc \in {"publish", "refused", "orphaned"} =>
                 reader[q].tunnel \in DOMAIN tunnels
        <4>1. reader'[q] = reader[q]
          BY <1>9, <2>2
        <4> QED
          BY <4>1 DEF IInv, TypeOK
      <3> QED
        <4>1. /\ reader[q].pc = "publish" =>
                   /\ tunnels[reader[q].tunnel].stage = "publishing"
                   /\ tunnels[reader[q].tunnel].by = q
              /\ reader[q].pc \in {"refused", "orphaned"} =>
                   /\ tunnels[reader[q].tunnel].stage = "dropping"
                   /\ tunnels[reader[q].tunnel].by = q
          BY DEF IInv, Hands
        <4> QED
          BY <1>7, <3>1, <4>1
    <2> QED
      BY <2>1, <2>2
  <1>18. Queue'
    <2>1. \A i \in DOMAIN accept : accept[i] \in DOMAIN tunnels
      BY <1>6
    <2> QED
      BY <1>1, <1>7, <2>1 DEF IInv, Queue
  <1>19. Origins'
    <2> SUFFICES ASSUME NEW t \in DOMAIN tunnels'
                 PROVE  /\ tunnels'[t].key[1] = LocalOf[tunnels'[t].by]
                        /\ reader'[tunnels'[t].by].pc # "absent"
      BY DEF Origins
    <2>1. CASE t = n
      BY <1>2, <1>5, <1>7, <1>9, <2>1
    <2>2. CASE t \in DOMAIN tunnels
      BY <1>7, <1>9, <1>10, <2>2 DEF IInv, Origins
    <2> QED
      BY <1>7, <2>1, <2>2
  <1>20. Exclusive'
    BY <1>11 DEF IInv, Exclusive
  <1>21. Settled'
    <2> SUFFICES ASSUME NEW t \in DOMAIN tunnels', NEW q \in Reader, ~tunnels'[t].early,
                        reader'[tunnels'[t].by].pc \in Active,
                        LocalOf[q] = LocalOf[tunnels'[t].by], q # tunnels'[t].by
                 PROVE  reader'[q].pc \in {"absent", "done"}
      BY DEF Settled
    <2>1. CASE t = n
      <3>1. tunnels'[t].by = r /\ ~early
        BY <1>5, <1>7, <2>1
      <3>2. reader[q].pc # "leave"
        BY <3>1 DEF early, Haunted
      <3>3. reader[r].pc \in Active
        BY <1>1 DEF Active
      <3>4. reader[q].pc \notin Active
        BY <3>1, <3>3 DEF IInv, Exclusive
      <3>5. reader[q].pc \in PC
        BY DEF IInv, TypeOK, Task
      <3> QED
        BY <1>9, <3>1, <3>2, <3>4, <3>5 DEF PC
    <2>2. CASE t \in DOMAIN tunnels
      <3>1. reader[q].pc \in {"absent", "done"}
        BY <1>7, <1>10, <1>11, <2>2 DEF IInv, Settled
      <3>2. reader[q].pc \notin Active
        BY <3>1 DEF Active
      <3> QED
        BY <1>11, <3>1, <3>2
    <2> QED
      BY <1>7, <2>1, <2>2
  <1> QED
    BY <1>12, <1>13, <1>14, <1>15, <1>16, <1>17, <1>18, <1>19, <1>20, <1>21 DEF IInv

-----------------------------------------------------------------------------
(* Every step. *)

LEMMA NextKeeps ==
  ASSUME IInv, [Next]_vars
  PROVE  IInv'
  <1>1. ASSUME NEW r \in Reader, ReaderStep(r)
        PROVE  IInv'
    <2>1. CASE Publish(r)
      BY <2>1, PublishKeeps
    <2>2. CASE PublishFull(r) \/ PublishClosed(r)
      BY <2>2, PublishFailsKeeps DEF PublishFull, PublishClosed
    <2>3. CASE Refused(r)
      BY <2>3, RefusedKeeps
    <2>4. CASE Leave(r)
      BY <2>4, LeaveKeeps
    <2> QED
      BY <1>1, <2>1, <2>2, <2>3, <2>4 DEF ReaderStep
  <1>2. ASSUME NEW r \in Reader, Stop(r) \/ RecvError(r)
        PROVE  IInv'
    BY <1>2, LoopEnds DEF Stop, RecvError
  <1>3. ASSUME NEW r \in Reader, NEW remote \in Remote,
               Enqueue(r, remote) \/ Register(r, remote)
        PROVE  IInv'
    BY <1>3, EnqueueKeeps, RegisterKeeps
  <1>4. ASSUME NEW r \in Reader \ Main, AddAssistant(r)
        PROVE  IInv'
    BY <1>4, AddAssistantKeeps
  <1>5. ASSUME NEW t \in DOMAIN tunnels, Recv(t) \/ DropTunnel(t) \/ CloseQueue(t)
        PROVE  IInv'
    BY <1>5, RecvKeeps, DropTunnelKeeps, CloseQueueKeeps
  <1>6. CASE CleanAssistants
    BY <1>6, QuietKeeps DEF CleanAssistants
  <1>7. CASE ShutdownClear \/ ShutdownSignal \/ CloseAccept
    BY <1>7, QuietKeeps DEF ShutdownClear, ShutdownSignal, CloseAccept
  <1>8. CASE AcceptNext
    BY <1>8, AcceptNextKeeps
  <1>9. CASE DrainAccept
    BY <1>9, DrainAcceptKeeps
  <1>10. CASE UNCHANGED vars
    BY <1>10, QuietKeeps DEF vars
  <1> QED
    BY <1>1, <1>2, <1>3, <1>4, <1>5, <1>6, <1>7, <1>8, <1>9, <1>10 DEF Next

\* The inductive invariant holds of every behaviour of the readers, the
\* application and the shutdown (tunnel.rs:36-110, 365-374, pool.rs:381-448).
THEOREM InvariantHolds == Spec => []IInv
  <1>1. Init => IInv
    BY InitInvariant
  <1>2. IInv /\ [Next]_vars => IInv'
    BY NextKeeps
  <1> QED
    BY <1>1, <1>2, PTL DEF Spec

\* Types and bounds: no tunnel queues more than TUNNEL_CHANNEL_CAPACITY
\* datagrams and the accept queue never exceeds its capacity (tunnel.rs:45-53,
\* 76-84).
THEOREM TypeCorrect == Spec => []TypeOK
  <1>1. IInv => TypeOK
    BY DEF IInv
  <1> QED
    BY <1>1, InvariantHolds, PTL

\* A five-tuple is only ever registered for a tunnel of that five-tuple whose
\* receive half is alive (tunnel.rs:95-101, 365-374).
THEOREM NoBlackHole == Spec => []RegisteredIsHeld
  <1>1. IInv => RegisteredIsHeld
    BY DEF IInv
  <1> QED
    BY <1>1, InvariantHolds, PTL

\* A registration never outlives the readers of its address, whatever races
\* with the shutdown (tunnel.rs:103-110, pool.rs:381-384, 447).
THEOREM NoLeakedRegistration == Spec => []RegistrationHasReader
  <1>1. IInv => RegistrationHasReader
    BY DEF IInv
  <1> QED
    BY <1>1, InvariantHolds, PTL

\* A live tunnel of a socket that is being read stays registered, except on a
\* port taken over before its last reader had cleaned up (tunnel.rs:95-110).
THEOREM LiveTunnelStaysFed == Spec => []HeldIsRegistered
  <1>1. IInv => HeldIsRegistered
    BY DEF IInv
  <1> QED
    BY <1>1, InvariantHolds, PTL

\* A tunnel that waits to be accepted holds its first datagram
\* (tunnel.rs:54-77).
THEOREM FirstDatagramStays == Spec => []FirstDatagramKept
  <1>1. IInv => FirstDatagramKept
    BY DEF IInv
  <1> QED
    BY <1>1, InvariantHolds, PTL
=============================================================================

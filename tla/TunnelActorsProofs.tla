------------------------- MODULE TunnelActorsProofs -------------------------
(***************************************************************************)
(* Proofs about the tunnel actors and the tasks around them, for every     *)
(* number of tunnels, keys and callers and every capacity of a channel.    *)
(***************************************************************************)
EXTENDS ProtocolTasks, SequenceTheorems, TLAPS

\* The part of ActorTypeOK the argument needs.
MapTypeOK ==
  /\ actors \in Seq(Actor)
  /\ tunnels \in [Key -> 0 .. Len(actors)]
  /\ sending \in [Sender -> 0 .. Len(actors)]

MapInv == MapTypeOK /\ MapHoldsLatest

Open == Live \cup {"leave"}

\* The elements of the sequence of actors.
LEMMA ActorAt ==
  ASSUME MapTypeOK, NEW id \in Ids
  PROVE  actors[id] \in Actor /\ actors[id].key \in Key
<1>1. actors[id] \in Actor
  BY ElementOfSeq DEF MapTypeOK, Ids
<1>. QED
  BY <1>1 DEF Actor

\* Actor id becomes a: the sequence keeps its length and its other elements.
LEMMA UpdateActor ==
  ASSUME MapTypeOK, NEW id \in Ids, NEW a \in Actor,
         actors' = [actors EXCEPT ![id] = a]
  PROVE  /\ actors' \in Seq(Actor)
         /\ Len(actors') = Len(actors)
         /\ \A o \in Ids : actors'[o] = IF o = id THEN a ELSE actors[o]
  BY ExceptSeq DEF MapTypeOK, Ids

\* A step of actor id that keeps its key, is not a return to the loop and not
\* an unregistration keeps the map as it should be (Goto, SendAccepted).
LEMMA StepInPlace ==
  ASSUME MapInv, NEW id \in Ids, NEW a \in Actor,
         actors' = [actors EXCEPT ![id] = a],
         a.key = actors[id].key,
         a.pc \in Live => actors[id].pc \in Live,
         actors[id].pc \in Open => a.pc \in Open,
         tunnels' = tunnels,
         sending' \in [Sender -> 0 .. Len(actors)]
  PROVE  MapInv'
<1>1. /\ actors' \in Seq(Actor)
      /\ Len(actors') = Len(actors)
      /\ \A o \in Ids : actors'[o] = IF o = id THEN a ELSE actors[o]
  BY UpdateActor DEF MapInv
<1>2. Ids' = Ids
  BY <1>1 DEF Ids
<1>3. \A o \in Ids : actors'[o].key = actors[o].key
  BY <1>1
<1>4. \A o \in Ids : Latest(o)' <=> Latest(o)
  BY <1>2, <1>3 DEF Latest
<1>5. MapTypeOK'
  BY <1>1 DEF MapInv, MapTypeOK
<1>6. \A k \in Key : tunnels[k] # 0 => tunnels[k] \in Ids
  BY DEF MapInv, MapTypeOK, Ids
<1>7. MapHoldsLatest'
  <2>1. ASSUME NEW k \in Key, tunnels'[k] # 0
        PROVE  /\ actors'[tunnels'[k]].key = k
               /\ Latest(tunnels[k])'
               /\ actors'[tunnels'[k]].pc \in Live \cup {"leave"}
    BY <1>1, <1>3, <1>4, <1>6, <2>1 DEF MapInv, MapHoldsLatest, Open
  <2>2. ASSUME NEW o \in Ids, actors'[o].pc \in Live, Latest(o)'
        PROVE  tunnels'[actors'[o].key] = o
    BY <1>1, <1>3, <1>4, <2>2 DEF MapInv, MapHoldsLatest
  <2>. QED
    BY <1>2, <2>1, <2>2 DEF MapHoldsLatest
<1>. QED
  BY <1>5, <1>7 DEF MapInv

\* start_tunnel_actor: the new actor is the latest of its key and of no other.
LEMMA StartKeepsMap ==
  ASSUME MapInv, NEW k \in Key, StartTunnelActor(k), OutCapacity \in Nat
  PROVE  MapInv'
<1> DEFINE b == NewActor(k)
<1>0. PICK n : n = Len(actors) + 1
  OBVIOUS
<1>1. b \in Actor
  BY DEF NewActor, Actor, ActorPC, Live
<1>2. Len(actors) \in Nat
  BY LenProperties DEF MapInv, MapTypeOK
<1>3. /\ actors' \in Seq(Actor)
      /\ Len(actors') = n
      /\ \A o \in Ids : actors'[o] = actors[o]
      /\ actors'[n] = b
  BY <1>0, <1>1, <1>2, AppendProperties DEF StartTunnelActor, MapInv, MapTypeOK, Ids
<1>4. Ids' = Ids \cup {n} /\ n \notin Ids
  BY <1>0, <1>2, <1>3 DEF Ids
<1>5. tunnels' = [tunnels EXCEPT ![k] = n] /\ sending' = sending
  BY <1>0 DEF StartTunnelActor
<1>6. MapTypeOK'
  BY <1>0, <1>2, <1>3, <1>5 DEF MapInv, MapTypeOK
<1>7. \A j \in Key : j # k => tunnels'[j] = tunnels[j]
  BY <1>5 DEF MapInv, MapTypeOK
<1>8. tunnels'[k] = n /\ b.key = k /\ b.pc = "select"
  BY <1>5 DEF MapInv, MapTypeOK, NewActor
<1>9. \A o \in Ids : o < n /\ o \in Nat
  BY <1>0, <1>2 DEF Ids
<1>10. Latest(n)'
  BY <1>0, <1>2, <1>4, <1>9 DEF Latest
<1>11. \A o \in Ids : Latest(o)' <=> Latest(o) /\ actors[o].key # k
  BY <1>3, <1>4, <1>8, <1>9 DEF Latest
<1>12. \A j \in Key : tunnels[j] # 0 => tunnels[j] \in Ids
  BY <1>2 DEF MapInv, MapTypeOK, Ids
<1>13. \A o \in Ids : actors[o].key \in Key
  BY ActorAt DEF MapInv
<1>14. MapHoldsLatest'
  <2>1. ASSUME NEW j \in Key, tunnels'[j] # 0
        PROVE  /\ actors'[tunnels'[j]].key = j
               /\ Latest(tunnels[j])'
               /\ actors'[tunnels'[j]].pc \in Live \cup {"leave"}
    <3>1. CASE j = k
      BY <3>1, <1>3, <1>8, <1>10 DEF Live
    <3>2. CASE j # k
      BY <3>2, <2>1, <1>3, <1>7, <1>11, <1>12 DEF MapInv, MapHoldsLatest
    <3>. QED
      BY <3>1, <3>2
  <2>2. ASSUME NEW o \in Ids', actors'[o].pc \in Live, Latest(o)'
        PROVE  tunnels'[actors'[o].key] = o
    <3>1. CASE o = n
      BY <3>1, <1>3, <1>8
    <3>2. CASE o \in Ids
      BY <3>2, <2>2, <1>3, <1>7, <1>11, <1>13 DEF MapInv, MapHoldsLatest
    <3>. QED
      BY <3>1, <3>2, <1>4
  <2>. QED
    BY <2>1, <2>2 DEF MapHoldsLatest
<1>. QED
  BY <1>6, <1>14 DEF MapInv

\* The end of an actor: remove_if takes its own entry, never a successor's.
LEMMA UnregisterKeepsMap ==
  ASSUME MapInv, NEW id \in Ids, ActorUnregisters(id)
  PROVE  MapInv'
<1> DEFINE a == [actors[id] EXCEPT !.pc = "removed", !.kind = "none"]
<1>1. actors[id] \in Actor
  BY ActorAt DEF MapInv
<1>2. /\ a \in Actor /\ a.key = actors[id].key /\ a.pc = "removed"
      /\ actors[id].key \in Key
  BY <1>1 DEF Actor, ActorPC
<1>3. actors' = [actors EXCEPT ![id] = a]
  BY DEF ActorUnregisters, Goto
<1>4. /\ actors' \in Seq(Actor)
      /\ Len(actors') = Len(actors)
      /\ \A o \in Ids : actors'[o] = IF o = id THEN a ELSE actors[o]
  BY <1>2, <1>3, UpdateActor DEF MapInv
<1>5. Ids' = Ids
  BY <1>4 DEF Ids
<1>6. \A o \in Ids : actors'[o].key = actors[o].key
  BY <1>2, <1>4
<1>7. \A o \in Ids : Latest(o)' <=> Latest(o)
  BY <1>5, <1>6 DEF Latest
<1>8. Len(actors) \in Nat
  BY LenProperties DEF MapInv, MapTypeOK
<1>9. /\ tunnels' \in [Key -> 0 .. Len(actors)]
      /\ \A k \in Key : tunnels'[k] = IF k = actors[id].key /\ tunnels[k] = id
                                      THEN 0 ELSE tunnels[k]
  BY <1>2, <1>8 DEF ActorUnregisters, Without, MapInv, MapTypeOK
<1>10. MapTypeOK'
  BY <1>4, <1>9 DEF ActorUnregisters, MapInv, MapTypeOK
<1>11. \A k \in Key : tunnels[k] # 0 => tunnels[k] \in Ids
  BY <1>8 DEF MapInv, MapTypeOK, Ids
<1>12. MapHoldsLatest'
  <2>1. ASSUME NEW k \in Key, tunnels'[k] # 0
        PROVE  /\ actors'[tunnels'[k]].key = k
               /\ Latest(tunnels[k])'
               /\ actors'[tunnels'[k]].pc \in Live \cup {"leave"}
    BY <2>1, <1>4, <1>6, <1>7, <1>9, <1>11 DEF MapInv, MapHoldsLatest
  <2>2. ASSUME NEW o \in Ids', actors'[o].pc \in Live, Latest(o)'
        PROVE  tunnels'[actors'[o].key] = o
    <3>1. o \in Ids /\ o # id /\ Latest(o) /\ actors'[o] = actors[o]
      BY <2>2, <1>2, <1>4, <1>5, <1>7 DEF Live
    <3>2. actors[o].key \in Key
      BY <3>1, ActorAt DEF MapInv
    <3>. QED
      BY <2>2, <3>1, <3>2, <1>9 DEF MapInv, MapHoldsLatest
  <2>. QED
    BY <2>1, <2>2 DEF MapHoldsLatest
<1>. QED
  BY <1>10, <1>12 DEF MapInv

\* A send that finds the channel closed: its actor is no longer in the map, so
\* the entry of a successor stays.
LEMMA ClosedKeepsMap ==
  ASSUME MapInv, NEW t \in Sender, SendClosed(t)
  PROVE  MapInv'
<1>1. sending[t] \in Ids /\ Len(actors) \in Nat
  BY LenProperties DEF MapInv, MapTypeOK, SendClosed, Ids
<1>2. actors[sending[t]].key \in Key
  BY <1>1, ActorAt DEF MapInv
<1>3. tunnels[actors[sending[t]].key] # sending[t]
  BY <1>1, <1>2 DEF MapInv, MapHoldsLatest, SendClosed, Live, Ids
<1>4. tunnels' = tunnels /\ actors' = actors
  BY <1>3 DEF SendClosed, Without
<1>5. sending' \in [Sender -> 0 .. Len(actors)]
  BY <1>1 DEF SendClosed, MapInv, MapTypeOK
<1>. QED
  BY <1>4, <1>5 DEF MapInv, MapTypeOK, MapHoldsLatest, Latest, Ids

\* Every step of the actors and of the tasks that send.
LEMMA ActorsKeepMap ==
  ASSUME MapInv, ActorsNext, OutCapacity \in Nat
  PROVE  MapInv'
<1>1. ASSUME NEW id \in Ids
      PROVE  actors[id] \in Actor /\ actors[id].key \in Key
  BY ActorAt DEF MapInv
<1>2. ASSUME NEW id \in Ids, NEW pc \in {"select", "leave"},
             actors' = Goto(id, pc), actors[id].pc \in Live,
             tunnels' = tunnels, sending' = sending
      PROVE  MapInv'
  <2> DEFINE a == [actors[id] EXCEPT !.pc = pc, !.kind = "none"]
  <2>1. a \in Actor /\ a.key = actors[id].key /\ a.pc = pc
    BY <1>1 DEF Actor, ActorPC, Live
  <2>2. actors' = [actors EXCEPT ![id] = a]
    BY <1>2 DEF Goto
  <2>. QED
    BY <1>2, <2>1, <2>2, StepInPlace DEF MapInv, MapTypeOK, Open, Live
<1>3. ASSUME NEW id \in Ids, ActorRecvNone(id) PROVE MapInv'
  BY <1>2, <1>3 DEF ActorRecvNone, Live
<1>4. ASSUME NEW id \in Ids, ActorForward(id) PROVE MapInv'
  BY <1>2, <1>4 DEF ActorForward, Live
<1>5. ASSUME NEW id \in Ids, ActorTakeOutbound(id) PROVE MapInv'
  <2> DEFINE a == [actors[id] EXCEPT !.pc = "write", !.out = @ - 1]
  <2>1. a \in Actor /\ a.key = actors[id].key /\ a.pc = "write"
    <3>1. actors[id].out \in 0 .. OutCapacity /\ actors[id].out > 0
      BY <1>1, <1>5 DEF ActorTakeOutbound, Actor
    <3>2. actors[id].out - 1 \in 0 .. OutCapacity
      BY <3>1
    <3>. QED
      BY <1>1, <3>2 DEF Actor, ActorPC, Live
  <2>2. actors' = [actors EXCEPT ![id] = a]
    BY <1>5 DEF ActorTakeOutbound
  <2>. QED
    BY <1>5, <2>1, <2>2, StepInPlace
    DEF ActorTakeOutbound, MapInv, MapTypeOK, Open, Live
<1>6. ASSUME NEW id \in Ids, ActorWritten(id) PROVE MapInv'
  BY <1>2, <1>6 DEF ActorWritten, Live
<1>7. ASSUME NEW id \in Ids, ActorNoSender(id) PROVE MapInv'
  BY <1>2, <1>7 DEF ActorNoSender, Live
<1>8. ASSUME NEW id \in Ids, ActorIdleEnds(id) PROVE MapInv'
  BY <1>2, <1>8 DEF ActorIdleEnds
<1>9. ASSUME NEW id \in Ids, ActorDrops(id) PROVE MapInv'
  <2> DEFINE a == [actors[id] EXCEPT !.pc = "dropped", !.out = 0]
  <2>1. a \in Actor /\ a.key = actors[id].key /\ a.pc = "dropped"
    <3>1. 0 \in 0 .. OutCapacity
      OBVIOUS
    <3>. QED
      BY <1>1, <3>1 DEF Actor, ActorPC
  <2>2. actors' = [actors EXCEPT ![id] = a]
    BY <1>9 DEF ActorDrops
  <2>. QED
    BY <1>9, <2>1, <2>2, StepInPlace DEF ActorDrops, MapInv, MapTypeOK, Open, Live
<1>10. ASSUME NEW id \in Ids, NEW kind \in Kind, ActorRecv(id, kind) PROVE MapInv'
  <2> DEFINE a == [actors[id] EXCEPT !.pc = "raw", !.kind = kind]
  <2>1. a \in Actor /\ a.key = actors[id].key /\ a.pc = "raw"
    BY <1>1 DEF Actor, ActorPC, Live
  <2>2. actors' = [actors EXCEPT ![id] = a]
    BY <1>10 DEF ActorRecv
  <2>. QED
    BY <1>10, <2>1, <2>2, StepInPlace DEF ActorRecv, MapInv, MapTypeOK, Open, Live
<1>11. ASSUME NEW t \in Sender, NEW k \in Key, SendToActor(t, k) PROVE MapInv'
  <2>1. sending' \in [Sender -> 0 .. Len(actors)]
    BY <1>11 DEF SendToActor, MapInv, MapTypeOK
  <2>. QED
    BY <1>11, <2>1
    DEF SendToActor, MapInv, MapTypeOK, MapHoldsLatest, Latest, Ids
<1>12. ASSUME NEW t \in Sender, SendAccepted(t) PROVE MapInv'
  <2> DEFINE id == sending[t]
             a == [actors[id] EXCEPT !.out = @ + 1]
  <2>1. id \in Ids /\ Len(actors) \in Nat
    BY <1>12, LenProperties DEF MapInv, MapTypeOK, SendAccepted, Ids
  <2>2. a \in Actor /\ a.key = actors[id].key /\ a.pc = actors[id].pc
    BY <1>1, <1>12, <2>1 DEF SendAccepted, Actor
  <2>3. actors' = [actors EXCEPT ![id] = a]
    BY <1>12 DEF SendAccepted
  <2>4. sending' \in [Sender -> 0 .. Len(actors)]
    BY <1>12, <2>1 DEF SendAccepted, MapInv, MapTypeOK
  <2>. QED
    BY <1>12, <2>1, <2>2, <2>3, <2>4, StepInPlace DEF SendAccepted
<1>13. CASE RecvWire
  BY <1>13 DEF RecvWire, MapInv, MapTypeOK, MapHoldsLatest, Latest, Ids
<1>. QED
  BY <1>3, <1>4, <1>5, <1>6, <1>7, <1>8, <1>9, <1>10, <1>11, <1>12, <1>13,
     StartKeepsMap, UnregisterKeepsMap, ClosedKeepsMap DEF ActorsNext, ActorNext

\* What the actors do among the other tasks is what they do alone.
LEMMA TasksDriveActors ==
  ASSUME TaskConstants, Busy => dispatcher.packet.key \in Key, Next
  PROVE  ActorsNext \/ UNCHANGED actorVars
<1>1. "dispatcher" \in Sender /\ "sender" \in Sender
  BY DEF TaskConstants
<1>2. CASE DispatcherNext
  <2>1. CASE DispatcherRecv
    BY <2>1 DEF DispatcherRecv, ActorsNext
  <2>2. CASE DispatcherSend
    <3>1. PICK k \in SendKey : SendToActor("dispatcher", k)
      BY <2>2 DEF DispatcherSend
    <3>2. k \in Key
      BY <2>2, <3>1 DEF DispatcherSend, SendKey, Busy
    <3>. QED
      BY <1>1, <3>1, <3>2 DEF ActorsNext
  <2>3. CASE DispatcherSent
    BY <1>1, <2>3 DEF DispatcherSent, ActorsNext
  <2>. QED
    BY <1>2, <2>1, <2>2, <2>3
    DEF DispatcherNext, DispatcherTop, DispatcherSendDirect, DispatcherHello,
        DispatcherQuic, DispatcherPunch
<1>3. ASSUME NEW id \in Ids, NEW kind \in Kind, Arrive(id, kind) PROVE ActorsNext
  BY <1>3 DEF Arrive, ActorsNext
<1>4. ASSUME NEW k \in Key, CoreSend(k) PROVE ActorsNext
  BY <1>1, <1>4 DEF CoreSend, ActorsNext
<1>5. CASE CoreSent
  BY <1>1, <1>5 DEF CoreSent, ActorsNext
<1>. QED
  BY <1>2, <1>3, <1>4, <1>5
  DEF Next, ActorsNext, QuicTakes, Close, BootstrapSend, BootstrapTakes,
      BootstrapTimeout, BootstrapFails

-----------------------------------------------------------------------------
(* What the channels hold. *)

\* An actor that waits to forward a packet has one.
RawKinds == \A id \in Ids : actors[id].pc = "raw" => actors[id].kind \in Kind

\* The raw channel and the number of actors.
RawTypes ==
  /\ Len(actors) <= MaxActors
  /\ raw \in Seq(Packet) /\ Len(raw) <= RawCapacity

\* A step of actor id in place.
LEMMA InPlaceKinds ==
  ASSUME MapTypeOK, RawKinds, NEW id \in Ids, NEW a \in Actor,
         actors' = [actors EXCEPT ![id] = a], a.pc = "raw" => a.kind \in Kind
  PROVE  RawKinds' /\ Len(actors') = Len(actors)
<1>1. /\ Len(actors') = Len(actors)
      /\ \A o \in Ids : actors'[o] = IF o = id THEN a ELSE actors[o]
  BY UpdateActor
<1>2. Ids' = Ids
  BY <1>1 DEF Ids
<1>. QED
  BY <1>1, <1>2 DEF RawKinds

\* Every step of the actors and of the tasks that send keeps the raw channel
\* within its capacity and full of packets.
LEMMA ActorsKeepRaw ==
  ASSUME MapTypeOK, RawKinds, RawTypes, ActorsNext, TunnelConstants
  PROVE  RawKinds' /\ RawTypes'
<1>1. ASSUME NEW id \in Ids
      PROVE  actors[id] \in Actor /\ actors[id].key \in Key
  BY ActorAt
<1>2. ASSUME NEW id \in Ids, NEW pc \in {"select", "leave", "removed"},
             actors' = Goto(id, pc)
      PROVE  RawKinds' /\ Len(actors') = Len(actors)
  <2> DEFINE a == [actors[id] EXCEPT !.pc = pc, !.kind = "none"]
  <2>1. a \in Actor /\ a.pc = pc
    BY <1>1 DEF Actor, ActorPC, Live
  <2>2. actors' = [actors EXCEPT ![id] = a]
    BY <1>2 DEF Goto
  <2>. QED
    BY <2>1, <2>2, InPlaceKinds
<1>3. ASSUME RawKinds', Len(actors') = Len(actors), raw' = raw
      PROVE  RawKinds' /\ RawTypes'
  BY <1>3 DEF RawTypes
<1>4. ASSUME NEW k \in Key, StartTunnelActor(k) PROVE RawKinds' /\ RawTypes'
  <2>0. PICK n : n = Len(actors) + 1
    OBVIOUS
  <2>1. NewActor(k) \in Actor /\ NewActor(k).pc = "select"
    BY TunnelConstants DEF NewActor, Actor, ActorPC, Live, TunnelConstants
  <2>2. Len(actors) \in Nat /\ Len(actors) < MaxActors /\ raw' = raw
    BY <1>4, LenProperties DEF MapTypeOK, StartTunnelActor
  <2>3. /\ Len(actors') = n
        /\ \A o \in Ids : actors'[o] = actors[o]
        /\ actors'[n] = NewActor(k)
    BY <1>4, <2>0, <2>1, <2>2, AppendProperties DEF StartTunnelActor, MapTypeOK, Ids
  <2>4. Ids' = Ids \cup {n}
    BY <2>0, <2>2, <2>3 DEF Ids
  <2>5. RawKinds'
    BY <2>1, <2>3, <2>4 DEF RawKinds
  <2>6. Len(actors') <= MaxActors
    BY <2>0, <2>2, <2>3 DEF TunnelConstants
  <2>. QED
    BY <2>2, <2>5, <2>6 DEF RawTypes
<1>5. ASSUME NEW id \in Ids, ActorForward(id) PROVE RawKinds' /\ RawTypes'
  <2> DEFINE p == [key |-> actors[id].key, kind |-> actors[id].kind]
  <2>1. p \in Packet
    BY <1>1, <1>5 DEF ActorForward, RawKinds, Packet
  <2>2. raw' = Append(raw, p) /\ Len(raw) < RawCapacity /\ actors' = Goto(id, "select")
    BY <1>5 DEF ActorForward
  <2> HIDE DEF p
  <2>3. raw \in Seq(Packet) /\ Len(raw) \in Nat
    BY LenProperties DEF RawTypes
  <2>4. raw' \in Seq(Packet) /\ Len(raw') = Len(raw) + 1
    BY <2>1, <2>2, <2>3, AppendProperties
  <2>5. Len(raw') <= RawCapacity
    BY <2>2, <2>3, <2>4 DEF TunnelConstants
  <2>6. RawKinds' /\ Len(actors') = Len(actors)
    BY <1>2, <2>2
  <2>. QED
    BY <2>4, <2>5, <2>6 DEF RawTypes
<1>6. ASSUME NEW id \in Ids,
             \/ ActorRecvNone(id) \/ ActorWritten(id) \/ ActorNoSender(id)
             \/ ActorIdleEnds(id) \/ ActorUnregisters(id)
      PROVE  RawKinds' /\ RawTypes'
  BY <1>2, <1>3, <1>6
  DEF ActorRecvNone, ActorWritten, ActorNoSender, ActorIdleEnds, ActorUnregisters
<1>7. ASSUME NEW id \in Ids, ActorTakeOutbound(id) PROVE RawKinds' /\ RawTypes'
  <2> DEFINE a == [actors[id] EXCEPT !.pc = "write", !.out = @ - 1]
  <2>1. a \in Actor /\ a.pc = "write"
    <3>1. actors[id].out \in 0 .. OutCapacity /\ actors[id].out > 0
      BY <1>1, <1>7 DEF ActorTakeOutbound, Actor
    <3>2. actors[id].out - 1 \in 0 .. OutCapacity
      BY <3>1 DEF TunnelConstants
    <3>. QED
      BY <1>1, <3>2 DEF Actor, ActorPC, Live
  <2>2. actors' = [actors EXCEPT ![id] = a]
    BY <1>7 DEF ActorTakeOutbound
  <2> HIDE DEF a
  <2>. QED
    BY <1>3, <1>7, <2>1, <2>2, InPlaceKinds DEF ActorTakeOutbound
<1>8. ASSUME NEW id \in Ids, ActorDrops(id) PROVE RawKinds' /\ RawTypes'
  <2> DEFINE a == [actors[id] EXCEPT !.pc = "dropped", !.out = 0]
  <2>1. a \in Actor /\ a.pc = "dropped"
    <3>1. 0 \in 0 .. OutCapacity
      BY DEF TunnelConstants
    <3>. QED
      BY <1>1, <3>1 DEF Actor, ActorPC
  <2>2. actors' = [actors EXCEPT ![id] = a]
    BY <1>8 DEF ActorDrops
  <2> HIDE DEF a
  <2>. QED
    BY <1>3, <1>8, <2>1, <2>2, InPlaceKinds DEF ActorDrops
<1>9. ASSUME NEW id \in Ids, NEW kind \in Kind, ActorRecv(id, kind)
      PROVE  RawKinds' /\ RawTypes'
  <2> DEFINE a == [actors[id] EXCEPT !.pc = "raw", !.kind = kind]
  <2>1. a \in Actor /\ a.kind = kind
    BY <1>1 DEF Actor, ActorPC, Live
  <2>2. actors' = [actors EXCEPT ![id] = a]
    BY <1>9 DEF ActorRecv
  <2> HIDE DEF a
  <2>. QED
    BY <1>3, <1>9, <2>1, <2>2, InPlaceKinds DEF ActorRecv
<1>10. ASSUME NEW t \in Sender, SendAccepted(t) PROVE RawKinds' /\ RawTypes'
  <2>1. PICK id \in Ids : id = sending[t]
    BY <1>10, LenProperties DEF MapTypeOK, SendAccepted, Ids
  <2> DEFINE a == [actors[id] EXCEPT !.out = @ + 1]
  <2>2. a \in Actor /\ a.pc = actors[id].pc /\ a.kind = actors[id].kind
    <3>1. actors[id].out \in 0 .. OutCapacity /\ actors[id].out < OutCapacity
      BY <1>1, <1>10, <2>1 DEF SendAccepted, Actor
    <3>2. actors[id].out + 1 \in 0 .. OutCapacity
      BY <3>1 DEF TunnelConstants
    <3>. QED
      BY <1>1, <3>2 DEF Actor
  <2>3. actors' = [actors EXCEPT ![id] = a]
    BY <1>10, <2>1 DEF SendAccepted
  <2>4. a.pc = "raw" => a.kind \in Kind
    BY <2>2 DEF RawKinds
  <2> HIDE DEF a
  <2>. QED
    BY <1>3, <1>10, <2>2, <2>3, <2>4, InPlaceKinds DEF SendAccepted
<1>11. CASE UNCHANGED <<actors, raw>>
  BY <1>3, <1>11 DEF RawKinds, Ids
<1>12. CASE RecvWire
  <2>1. actors' = actors /\ raw' = Tail(raw) /\ raw # << >> /\ raw \in Seq(Packet)
    BY <1>12 DEF RecvWire, RawTypes
  <2>2. raw' \in Seq(Packet) /\ Len(raw') = Len(raw) - 1 /\ Len(raw) \in Nat
    BY <2>1, HeadTailProperties, LenProperties
  <2>3. Len(raw') <= RawCapacity
    BY <2>2 DEF RawTypes, TunnelConstants
  <2>4. RawKinds'
    BY <2>1 DEF RawKinds, Ids
  <2>. QED
    BY <2>1, <2>2, <2>3, <2>4 DEF RawTypes
<1>. QED
  BY <1>4, <1>5, <1>6, <1>7, <1>8, <1>9, <1>10, <1>11, <1>12
  DEF ActorsNext, ActorNext, SendToActor, SendClosed

-----------------------------------------------------------------------------
(* The other tasks. *)

\* While it handles a packet, the dispatcher has one.
DispatcherTypes ==
  /\ dispatcher \in [pc : DispatcherPC, packet : Packet \cup {NoPacket}]
  /\ Busy => dispatcher.packet \in Packet

ChannelTypes ==
  /\ hello \in Seq(Key) /\ Len(hello) <= HelloCapacity
  /\ quic \in 0 .. QuicCapacity

CallTypes == bootstrap \in [Caller -> Call]

CountTypes == closed \in BOOLEAN /\ replies \in 0 .. MaxReplies

\* The inductive invariant of the composition.
TaskInv ==
  /\ MapInv /\ RawKinds /\ RawTypes
  /\ DispatcherTypes /\ ChannelTypes /\ CallTypes /\ CountTypes

\* The packet at the head of the raw channel.
LEMMA HeadIsPacket ==
  ASSUME RawTypes, raw # << >>
  PROVE  Head(raw) \in Packet /\ Head(raw).kind \in Kind
<1>1. Head(raw) \in Packet
  BY HeadTailProperties DEF RawTypes
<1>. QED
  BY <1>1 DEF Packet

LEMMA TasksKeepDispatcher ==
  ASSUME DispatcherTypes, RawTypes, Next
  PROVE  DispatcherTypes'
<1>1. ASSUME NEW pc \in {"top", "recv", "ended"}, At(pc) PROVE DispatcherTypes'
  <2>1. dispatcher' = [pc |-> pc, packet |-> NoPacket]
    BY <1>1 DEF At
  <2>. QED
    BY <2>1 DEF DispatcherTypes, DispatcherPC, Busy
<1>2. CASE DispatcherRecv
  <2>1. raw # << >>
    BY <1>2 DEF DispatcherRecv, RecvWire
  <2>2. PICK p \in Packet : p = Head(raw)
    BY <2>1, HeadIsPacket
  <2>3. Waits(p.kind) \in {"hello", "quic", "punch", "send", "top"}
    BY DEF Waits
  <2>4. PICK pc \in {"hello", "quic", "punch", "send", "top"} : pc = Waits(p.kind)
    BY <2>3
  <2>5. dispatcher' = [pc |-> pc, packet |-> IF pc = "top" THEN NoPacket ELSE p]
    BY <1>2, <2>2, <2>4 DEF DispatcherRecv
  <2>. QED
    BY <2>5 DEF DispatcherTypes, DispatcherPC, Busy
<1>3. CASE DispatcherPunch
  <2>1. PICK pc \in {"send", "top"} : At(pc)
    BY <1>3 DEF DispatcherPunch
  <2>2. dispatcher.packet \in Packet
    BY <1>3 DEF DispatcherPunch, DispatcherTypes, Busy
  <2>3. CASE pc = "send"
    <3>1. dispatcher' = [pc |-> "send", packet |-> dispatcher.packet]
      BY <2>1, <2>3 DEF At
    <3>. QED
      BY <2>2, <3>1 DEF DispatcherTypes, DispatcherPC, Busy
  <2>. QED
    BY <1>1, <2>1, <2>3
<1>4. CASE UNCHANGED dispatcher
  BY <1>4 DEF DispatcherTypes, Busy
<1>5. CASE DispatcherNext
  BY <1>1, <1>2, <1>3, <1>4, <1>5
  DEF DispatcherNext, DispatcherTop, DispatcherSend, DispatcherSendDirect,
      DispatcherSent, DispatcherHello, DispatcherQuic, taskVars
<1>. QED
  BY <1>4, <1>5
  DEF Next, taskVars, Arrive, QuicTakes, CoreSend, CoreSent, BootstrapSend,
      BootstrapTakes, BootstrapTimeout, BootstrapFails, Close

\* The hello channel and the QUIC channel stay within their capacities.
LEMMA TasksKeepChannels ==
  ASSUME DispatcherTypes, ChannelTypes, Next, TaskConstants
  PROVE  ChannelTypes'
<1>1. CASE DispatcherHello
  <2>1. PICK k \in Key : k = dispatcher.packet.key
    BY <1>1 DEF DispatcherHello, DispatcherTypes, Busy, Packet
  <2>2. hello \in Seq(Key) /\ Len(hello) \in Nat /\ Len(hello) < HelloCapacity
    BY <1>1, LenProperties DEF DispatcherHello, ChannelTypes
  <2>3. hello' = Append(hello, k) /\ quic' = quic
    BY <1>1, <2>1 DEF DispatcherHello
  <2>4. hello' \in Seq(Key) /\ Len(hello') = Len(hello) + 1
    BY <2>2, <2>3, AppendProperties
  <2>5. Len(hello') <= HelloCapacity
    BY <2>2, <2>4 DEF TaskConstants
  <2>. QED
    BY <2>3, <2>4, <2>5 DEF ChannelTypes
<1>2. CASE DispatcherQuic
  BY <1>2 DEF DispatcherQuic, ChannelTypes, TaskConstants
<1>3. CASE QuicTakes
  BY <1>3 DEF QuicTakes, ChannelTypes, TaskConstants
<1>4. ASSUME NEW c \in Caller, BootstrapTakes(c) PROVE ChannelTypes'
  <2>1. hello \in Seq(Key) /\ hello # << >> /\ hello' = Tail(hello) /\ quic' = quic
    BY <1>4 DEF BootstrapTakes, ChannelTypes
  <2>2. hello' \in Seq(Key) /\ Len(hello') = Len(hello) - 1 /\ Len(hello) \in Nat
    BY <2>1, HeadTailProperties, LenProperties
  <2>3. Len(hello') <= HelloCapacity
    BY <2>2 DEF ChannelTypes, TaskConstants
  <2>. QED
    BY <2>1, <2>2, <2>3 DEF ChannelTypes
<1>5. CASE UNCHANGED <<hello, quic>>
  BY <1>5 DEF ChannelTypes
<1>6. CASE DispatcherNext
  BY <1>1, <1>2, <1>5, <1>6
  DEF DispatcherNext, DispatcherTop, DispatcherRecv, DispatcherSend,
      DispatcherSendDirect, DispatcherSent, DispatcherPunch, taskVars
<1>. QED
  BY <1>3, <1>4, <1>5, <1>6
  DEF Next, taskVars, Arrive, CoreSend, CoreSent, BootstrapSend, BootstrapTimeout,
      BootstrapFails, Close

\* add_bootstrap makes no more attempts than it may.
LEMMA TasksKeepCalls ==
  ASSUME CallTypes, Next, TaskConstants
  PROVE  CallTypes'
<1>1. ASSUME NEW c \in Caller PROVE bootstrap[c] \in Call
  BY DEF CallTypes
<1>2. ASSUME NEW c \in Caller, NEW pc \in {"wait", "sleep", "found", "failed"},
             ToCall(c, pc)
      PROVE  CallTypes'
  <2> DEFINE call == [bootstrap[c] EXCEPT !.pc = pc]
  <2>1. call \in Call
    BY <1>1 DEF Call
  <2>2. bootstrap' = [bootstrap EXCEPT ![c] = call]
    BY <1>2 DEF ToCall
  <2> HIDE DEF call
  <2>. QED
    BY <2>1, <2>2 DEF CallTypes
<1>3. ASSUME NEW c \in Caller, BootstrapSend(c) PROVE CallTypes'
  <2>1. PICK pc \in {"wait", "sleep"} :
          bootstrap' = [bootstrap EXCEPT ![c] = [pc |-> pc, tries |-> @.tries + 1]]
    BY <1>3 DEF BootstrapSend
  <2>2. bootstrap[c].tries \in 0 .. Attempts /\ bootstrap[c].tries < Attempts
    BY <1>1, <1>3 DEF BootstrapSend, Call
  <2>3. bootstrap[c].tries + 1 \in 0 .. Attempts
    BY <2>2 DEF TaskConstants
  <2>4. [pc |-> pc, tries |-> bootstrap[c].tries + 1] \in Call
    BY <2>3 DEF Call
  <2>. QED
    BY <2>1, <2>4 DEF CallTypes
<1>4. ASSUME NEW c \in Caller,
             BootstrapTakes(c) \/ BootstrapTimeout(c) \/ BootstrapFails(c)
      PROVE  CallTypes'
  BY <1>2, <1>4 DEF BootstrapTakes, BootstrapTimeout, BootstrapFails
<1>5. CASE UNCHANGED bootstrap
  BY <1>5 DEF CallTypes
<1>6. CASE DispatcherNext
  BY <1>5, <1>6
  DEF DispatcherNext, DispatcherTop, DispatcherRecv, DispatcherSend,
      DispatcherSendDirect, DispatcherSent, DispatcherHello, DispatcherQuic,
      DispatcherPunch, taskVars
<1>. QED
  BY <1>3, <1>4, <1>5, <1>6
  DEF Next, taskVars, Arrive, QuicTakes, CoreSend, CoreSent, Close

LEMMA TasksKeepCounts ==
  ASSUME CountTypes, Next, TaskConstants
  PROVE  CountTypes'
<1>1. ASSUME NEW id \in Ids, NEW kind \in Kind, Arrive(id, kind) PROVE CountTypes'
  BY <1>1 DEF Arrive, CountTypes, TaskConstants
<1>2. CASE Close
  BY <1>2 DEF Close, CountTypes
<1>3. CASE UNCHANGED <<closed, replies>>
  BY <1>3 DEF CountTypes
<1>4. CASE DispatcherNext
  BY <1>3, <1>4
  DEF DispatcherNext, DispatcherTop, DispatcherRecv, DispatcherSend,
      DispatcherSendDirect, DispatcherSent, DispatcherHello, DispatcherQuic,
      DispatcherPunch, taskVars
<1>. QED
  BY <1>1, <1>2, <1>3, <1>4
  DEF Next, taskVars, QuicTakes, CoreSend, CoreSent, BootstrapSend, BootstrapTakes,
      BootstrapTimeout, BootstrapFails

-----------------------------------------------------------------------------
(* The theorems. *)

LEMMA TaskInitInv ==
  ASSUME Init, TunnelConstants, TaskConstants
  PROVE  TaskInv
<1>1. Len(actors) = 0 /\ actors \in Seq(Actor) /\ Len(raw) = 0 /\ raw \in Seq(Packet)
  BY DEF Init, ActorInit
<1>2. MapTypeOK
  BY <1>1 DEF Init, ActorInit, MapTypeOK
<1>3. Ids = {} /\ \A k \in Key : tunnels[k] = 0
  BY <1>1 DEF Init, ActorInit, Ids
<1>4. MapInv /\ RawKinds
  BY <1>2, <1>3 DEF MapInv, MapHoldsLatest, RawKinds
<1>5. RawTypes
  BY <1>1 DEF RawTypes, TunnelConstants
<1>6. DispatcherTypes
  BY DEF Init, DispatcherTypes, DispatcherPC, Busy
<1>7. ChannelTypes
  BY DEF Init, ChannelTypes, TaskConstants
<1>8. CallTypes
  <2>1. [pc |-> "idle", tries |-> 0] \in Call
    BY DEF Call, TaskConstants
  <2>. QED
    BY <2>1 DEF Init, CallTypes
<1>9. CountTypes
  <2>1. closed \in BOOLEAN
    BY DEF Init
  <2>2. replies \in 0 .. MaxReplies
    BY DEF Init, TaskConstants
  <2>. QED
    BY <2>1, <2>2 DEF CountTypes
<1>. QED
  BY <1>4, <1>5, <1>6, <1>7, <1>8, <1>9 DEF TaskInv

\* The invariant holds in every reachable state, whatever tunnels are accepted
\* and end and whatever the dispatcher, the core sender and the bootstrap
\* callers do meanwhile.
THEOREM TaskInvariant == Spec => []TaskInv
<1>1. Init => TaskInv
  BY TaskInitInv, TunnelConstants, TaskConstants
<1>2. TaskInv /\ [Next]_vars => TaskInv'
  <2> SUFFICES ASSUME TaskInv, [Next]_vars PROVE TaskInv'
    OBVIOUS
  <2>1. ASSUME ActorsNext PROVE MapInv' /\ RawKinds' /\ RawTypes'
    <3>1. OutCapacity \in Nat
      BY TunnelConstants DEF TunnelConstants
    <3>2. MapInv'
      BY <2>1, <3>1, ActorsKeepMap DEF TaskInv
    <3>3. RawKinds' /\ RawTypes'
      BY <2>1, ActorsKeepRaw, TunnelConstants DEF TaskInv, MapInv
    <3>. QED
      BY <3>2, <3>3
  <2>2. ASSUME UNCHANGED actorVars PROVE MapInv' /\ RawKinds' /\ RawTypes'
    <3>1. MapInv'
      BY <2>2 DEF actorVars, TaskInv, MapInv, MapTypeOK, MapHoldsLatest, Latest, Ids
    <3>2. RawKinds' /\ RawTypes'
      BY <2>2 DEF actorVars, TaskInv, RawKinds, RawTypes, Ids
    <3>. QED
      BY <3>1, <3>2
  <2>3. CASE UNCHANGED vars
    <3>1. DispatcherTypes' /\ ChannelTypes' /\ CallTypes' /\ CountTypes'
      BY <2>3 DEF vars, taskVars, TaskInv, DispatcherTypes, Busy, ChannelTypes,
                  CallTypes, CountTypes
    <3>. QED
      BY <2>2, <2>3, <3>1 DEF vars, TaskInv
  <2>4. CASE Next
    <3>1. Busy => dispatcher.packet.key \in Key
      BY DEF TaskInv, DispatcherTypes, Packet
    <3>2. MapInv' /\ RawKinds' /\ RawTypes'
      BY <2>1, <2>2, <2>4, <3>1, TasksDriveActors, TaskConstants
    <3>3. DispatcherTypes' /\ ChannelTypes'
      BY <2>4, TasksKeepDispatcher, TasksKeepChannels, TaskConstants DEF TaskInv
    <3>4. CallTypes' /\ CountTypes'
      BY <2>4, TasksKeepCalls, TasksKeepCounts, TaskConstants DEF TaskInv
    <3>. QED
      BY <3>2, <3>3, <3>4 DEF TaskInv
  <2>. QED
    BY <2>3, <2>4
<1>. QED
  BY <1>1, <1>2, PTL DEF Spec

\* No channel holds more than its capacity and no task a value it cannot
\* have: in particular the packet in the dispatcher's hands is one an actor
\* received, and add_bootstrap makes no more attempts than it may.
THEOREM TaskTypes == Spec => []TypeOK
<1>1. TaskInv => TypeOK
  BY DEF TaskInv, MapInv, MapTypeOK, RawTypes, DispatcherTypes, ChannelTypes,
         CallTypes, CountTypes, TypeOK, ActorTypeOK
<1>. QED
  BY <1>1, TaskInvariant, PTL

\* An entry of the tunnels map is the key's most recent actor and that actor
\* has not unregistered itself; the most recent actor of a key, while it runs,
\* is in the map (start_tunnel_actor, send_to_route of transport.rs).
THEOREM TunnelsMapInvariant == Spec => []MapHoldsLatest
<1>1. TaskInv => MapHoldsLatest
  BY DEF TaskInv, MapInv
<1>. QED
  BY <1>1, TaskInvariant, PTL

\* The actors alone, among any tasks that send at any time to any keys, keep
\* the map right too: nothing the dispatcher does is needed for it.
THEOREM ActorsMapInvariant == ActorSpec => []MapHoldsLatest
<1>1. ActorInit => MapInv
  <2> SUFFICES ASSUME ActorInit PROVE MapInv
    OBVIOUS
  <2>1. Len(actors) = 0 /\ actors \in Seq(Actor)
    BY DEF ActorInit
  <2>2. MapTypeOK
    BY <2>1 DEF ActorInit, MapTypeOK
  <2>3. Ids = {} /\ \A k \in Key : tunnels[k] = 0
    BY <2>1 DEF ActorInit, Ids
  <2>. QED
    BY <2>2, <2>3 DEF MapInv, MapHoldsLatest
<1>2. MapInv /\ [ActorsNext]_actorVars => MapInv'
  <2> SUFFICES ASSUME MapInv, [ActorsNext]_actorVars PROVE MapInv'
    OBVIOUS
  <2>1. CASE ActorsNext
    BY <2>1, ActorsKeepMap, TunnelConstants DEF TunnelConstants
  <2>2. CASE UNCHANGED actorVars
    BY <2>2 DEF actorVars, MapInv, MapTypeOK, MapHoldsLatest, Latest, Ids
  <2>. QED
    BY <2>1, <2>2
<1>3. MapInv => MapHoldsLatest
  BY DEF MapInv
<1>. QED
  BY <1>1, <1>2, <1>3, PTL DEF ActorSpec

\* The dispatcher, the QUIC loop, the core sender and add_bootstrap use the
\* actors as TunnelActors says a task may: every step of theirs is a step of
\* ActorSpec or leaves the actors, their map and the raw channel alone.
THEOREM TasksImplementActors == Spec => ActorSpec
<1>1. Init => ActorInit
  BY DEF Init
<1>2. TaskInv /\ [Next]_vars => [ActorsNext]_actorVars
  <2> SUFFICES ASSUME TaskInv, [Next]_vars PROVE [ActorsNext]_actorVars
    OBVIOUS
  <2>1. CASE Next
    <3>1. Busy => dispatcher.packet.key \in Key
      BY DEF TaskInv, DispatcherTypes, Packet
    <3>. QED
      BY <2>1, <3>1, TasksDriveActors, TaskConstants
  <2>2. CASE UNCHANGED vars
    BY <2>2 DEF vars
  <2>. QED
    BY <2>1, <2>2
<1>. QED
  BY <1>1, <1>2, TaskInvariant, PTL DEF Spec, ActorSpec
=============================================================================

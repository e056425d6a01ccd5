--------------------------- MODULE TcpTunnelProofs ---------------------------
(***************************************************************************)
(* The invariants of TcpTunnel for channels, buffers and numbers of frames *)
(* of any size.  Inv has four parts: the types, the way of the inbound     *)
(* frames, the way of the outbound frames, and the order in which the      *)
(* tunnel is made and published.                                           *)
(***************************************************************************)
EXTENDS TcpTunnel, SequenceTheorems, TLAPS

Unit == Nat \X {"head", "body"}

\* s is the numbers after m.
Run(s, m) == s \in Seq(Nat) /\ \A i \in 1 .. Len(s) : s[i] = m + i

\* s is the units of the frames after m, up to n.
Stream(s, m, n) ==
  /\ s \in Seq(Unit)
  /\ Len(s) = 2 * (n - m)
  /\ \A i \in 1 .. n - m :
       s[2 * i - 1] = <<m + i, "head">> /\ s[2 * i] = <<m + i, "body">>

ReaderType == [pc : {"none", "select", "decode", "send", "done"}, buf : Seq(Unit),
               hand : 0 .. MaxIn]

InTypes ==
  /\ peer \in [sent : 0 .. MaxIn, net : Seq(Unit), state : {"open", "eof", "reset"}]
  /\ reader \in ReaderType
  /\ data \in Seq(Nat) /\ Len(data) <= ChannelCapacity
  /\ app \in [got : Seq(Nat), ended : BOOLEAN]

OutTypes ==
  /\ writer \in [pc : {"none", "select", "write", "done"}, hand : 0 .. MaxOut]
  /\ out \in Seq(Nat) /\ Len(out) <= ChannelCapacity
  /\ sent \in 0 .. MaxOut
  /\ wire \in [frames : Seq(Nat), torn : BOOLEAN, unread : 0 .. SendBuffer]

HalfTypes == halves \in [read : {"none", "held", "closing", "dropped"},
                         writers : 0 .. MaxWriters]

PubTypes ==
  /\ tunnel \in {"none", "publishing", "waiting", "owned", "dropping"}
  /\ publisher \in [kind : {"accept", "punch"},
                    pc : {"select", "split", "initial", "publish", "done"}]
  /\ accept \in Seq({"this", "other"}) /\ Len(accept) <= AcceptCapacity
  /\ incoming \in {"open", "signalled", "closed"}
  /\ hears \in [{"reader", "writer"} -> BOOLEAN]

Types == InTypes /\ OutTypes /\ HalfTypes /\ PubTypes

\* How many frames have reached the read half or its channel.
Arrived == Len(app.got) + Len(data)

\* The read task may have stopped before the end of the stream.
CutShort ==
  \/ peer.state = "reset"
  \/ Signalled("reader")
  \/ TooLargeIn \cap 1 .. peer.sent # {}

\* The frames after m are in the read task's buffer and in the network; the
\* read task holds frame m, or has passed it on.
Split(m) ==
  /\ Stream(reader.buf \o peer.net, m, peer.sent)
  /\ reader.pc = "send" => reader.hand = m
  /\ reader.pc # "done" /\ halves.read \in {"none", "held"} =>
       m = IF reader.pc = "send" THEN Arrived + 1 ELSE Arrived

InFlow ==
  /\ Run(app.got, 0) /\ Run(data, Len(app.got))
  /\ \E m \in 0 .. peer.sent : Split(m)
  /\ halves.read = "none" <=> reader.pc = "none"
  /\ reader.pc \in {"none", "select"} => Len(reader.buf) < 2
  /\ reader.pc = "done" /\ halves.read = "held" =>
       CutShort \/ (peer.state = "eof" /\ Arrived = peer.sent)
  /\ app.ended =>
       /\ reader.pc = "done" /\ data = <<>>
       /\ CutShort \/ (peer.state = "eof" /\ Arrived = peer.sent)

\* How many frames the write task has taken from the channel and not refused.
Taken == IF writer.pc = "write" THEN Len(wire.frames) + 1 ELSE Len(wire.frames)

OutFlow ==
  /\ Run(wire.frames, 0)
  /\ writer.pc # "done" => Run(out, Taken) /\ sent = Taken + Len(out)
  /\ writer.pc = "write" => writer.hand = Taken
  /\ wire.torn =>
       writer.pc = "write" \/ (writer.pc = "done" /\ peer.state = "reset")
  /\ writer.pc = "done" =>
       \/ peer.state = "reset"
       \/ Signalled("writer")
       \/ TooLargeOut \cap 1 .. sent # {}
       \/ halves.writers = 0 /\ Len(wire.frames) = sent

\* First the reader is spawned, then the writer; then the first frame is sent
\* and the tunnel published, and only then is it in the accept queue.
Order ==
  /\ reader.pc = "none" => writer.pc = "none" /\ publisher.pc \in {"select", "done"}
  /\ publisher.pc = "split" => writer.pc = "none"
  /\ writer.pc = "none" => sent = 0 /\ tunnel = "none"
  /\ tunnel \in {"none", "publishing"} =>
       \A i \in 1 .. Len(accept) : accept[i] # "this"
  /\ publisher.pc = "initial" => sent = 0
  /\ publisher.pc \in {"initial", "publish"} =>
       tunnel = "publishing" /\ writer.pc # "none"

Inv == Types /\ InFlow /\ OutFlow /\ Order

-----------------------------------------------------------------------------
(* Runs of numbers and streams of units. *)

LEMMA Sizes ==
  /\ ChannelCapacity \in Nat \ {0} /\ AcceptCapacity \in Nat \ {0}
  /\ SendBuffer \in Nat \ {0} /\ MaxWriters \in Nat \ {0} /\ MaxOut \in Nat \ {0}
  /\ MaxIn \in Nat
  BY TcpConstants

LEMMA RunEmpty == ASSUME NEW m \in Nat PROVE Run(<<>>, m)
  BY DEF Run

LEMMA RunOne ==
  ASSUME NEW m \in Nat, NEW x, x = m + 1
  PROVE  Run(<<x>>, m) /\ Len(<<x>>) = 1
<1>1. <<x>> \in Seq(Nat) /\ Len(<<x>>) = 1 /\ <<x>>[1] = x
      OBVIOUS
<1>2. \A i \in 1 .. Len(<<x>>) : i = 1
      BY <1>1
<1> QED
    BY <1>1, <1>2 DEF Run

LEMMA RunAppend ==
  ASSUME NEW s, NEW m \in Nat, Run(s, m), NEW x, x = m + Len(s) + 1
  PROVE  Run(Append(s, x), m) /\ Len(Append(s, x)) = Len(s) + 1
<1>1. s \in Seq(Nat) /\ Len(s) \in Nat /\ x \in Nat
      BY DEF Run
<1>2. /\ Append(s, x) \in Seq(Nat) /\ Len(Append(s, x)) = Len(s) + 1
      /\ \A i \in 1 .. Len(s) : Append(s, x)[i] = s[i]
      /\ Append(s, x)[Len(s) + 1] = x
      BY <1>1, AppendProperties
<1>3. PICK n, t : n \in Nat /\ n = Len(s) /\ t = Append(s, x)
      BY <1>1
<1>4. \A i \in 1 .. n : t[i] = m + i
      BY <1>2, <1>3 DEF Run
<1>5. t[n + 1] = m + (n + 1)
      BY <1>2, <1>3
<1>6. \A i \in 1 .. n + 1 : t[i] = m + i
  <2>1. \A i \in 1 .. n + 1 : i \in 1 .. n \/ i = n + 1
        BY <1>3
  <2> QED
      BY <1>4, <1>5, <2>1
<1> QED
    BY <1>2, <1>3, <1>6 DEF Run

LEMMA RunTail ==
  ASSUME NEW s, NEW m \in Nat, Run(s, m), s # <<>>
  PROVE  /\ Head(s) = m + 1 /\ Run(Tail(s), m + 1)
         /\ Len(Tail(s)) = Len(s) - 1 /\ Len(s) \in Nat \ {0}
<1>1. s \in Seq(Nat) /\ Len(s) \in Nat \ {0} /\ Head(s) = s[1]
      BY EmptySeq DEF Run
<1>2. /\ Tail(s) \in Seq(Nat) /\ Len(Tail(s)) = Len(s) - 1
      /\ \A i \in 1 .. Len(Tail(s)) : Tail(s)[i] = s[i + 1]
      BY <1>1, HeadTailProperties
<1> QED
    BY <1>1, <1>2 DEF Run

LEMMA RunConcat ==
  ASSUME NEW s, NEW t, NEW m \in Nat, Run(s, m), Run(t, m + Len(s))
  PROVE  Run(s \o t, m) /\ Len(s \o t) = Len(s) + Len(t)
<1>1. s \in Seq(Nat) /\ t \in Seq(Nat) /\ Len(s) \in Nat /\ Len(t) \in Nat
      BY DEF Run
<1>2. /\ s \o t \in Seq(Nat) /\ Len(s \o t) = Len(s) + Len(t)
      /\ \A i \in 1 .. Len(s) + Len(t) :
           (s \o t)[i] = IF i <= Len(s) THEN s[i] ELSE t[i - Len(s)]
      BY <1>1, ConcatProperties
<1> QED
    BY <1>1, <1>2 DEF Run

LEMMA RunUpto == ASSUME NEW s, Run(s, 0) PROVE s = Upto(Len(s))
<1>1. s \in Seq(Nat) /\ Len(s) \in Nat
      BY DEF Run
<1>2. Upto(Len(s)) \in Seq(Nat) /\ Len(Upto(Len(s))) = Len(s)
      BY <1>1 DEF Upto
<1>3. \A i \in 1 .. Len(s) : s[i] = Upto(Len(s))[i]
      BY <1>1 DEF Run, Upto
<1> QED
    BY <1>1, <1>2, <1>3, SeqEqual

LEMMA UnitsType ==
  ASSUME NEW n \in Nat
  PROVE  /\ Units(n) \in Seq(Unit) /\ Len(Units(n)) = 2
         /\ Units(n)[1] = <<n, "head">> /\ Units(n)[2] = <<n, "body">>
  BY DEF Units, Unit

LEMMA StreamAppend ==
  ASSUME NEW s, NEW m \in Nat, NEW n \in Nat, m <= n, Stream(s, m, n)
  PROVE  Stream(s \o Units(n + 1), m, n + 1)
<1> DEFINE u == Units(n + 1)
           t == s \o u
<1>1. /\ s \in Seq(Unit) /\ Len(s) = 2 * (n - m) /\ n - m \in Nat
      /\ u \in Seq(Unit) /\ Len(u) = 2
      /\ u[1] = <<n + 1, "head">> /\ u[2] = <<n + 1, "body">>
      BY UnitsType DEF Stream
<1> HIDE DEF u
<1>2. /\ t \in Seq(Unit) /\ Len(t) = Len(s) + Len(u)
      /\ \A i \in 1 .. Len(s) + Len(u) :
           t[i] = IF i <= Len(s) THEN s[i] ELSE u[i - Len(s)]
      BY <1>1, ConcatProperties
<1> HIDE DEF t
<1>3. Len(t) = 2 * (n + 1 - m) /\ Len(s) + Len(u) = Len(s) + 2
      BY <1>1, <1>2
<1>4. ASSUME NEW i \in 1 .. n + 1 - m
      PROVE  t[2 * i - 1] = <<m + i, "head">> /\ t[2 * i] = <<m + i, "body">>
  <2>1. CASE i <= n - m
    <3>1. /\ i \in 1 .. n - m /\ 2 * i - 1 \in 1 .. Len(s) + 2 /\ 2 * i \in 1 .. Len(s) + 2
          /\ 2 * i - 1 <= Len(s) /\ 2 * i <= Len(s)
          BY <1>1, <2>1
    <3> QED
        BY <1>2, <1>3, <3>1 DEF Stream
  <2>2. CASE i = n + 1 - m
    <3>1. /\ 2 * i - 1 \in 1 .. Len(s) + 2 /\ 2 * i \in 1 .. Len(s) + 2
          /\ 2 * i - 1 > Len(s) /\ 2 * i > Len(s)
          /\ 2 * i - 1 - Len(s) = 1 /\ 2 * i - Len(s) = 2 /\ m + i = n + 1
          BY <1>1, <2>2
    <3> QED
        BY <1>1, <1>2, <1>3, <3>1
  <2> QED
      BY <2>1, <2>2
<1>5. Stream(t, m, n + 1)
  <2>1. t \in Seq(Unit) /\ Len(t) = 2 * (n + 1 - m)
        BY <1>2, <1>3
  <2> QED
      BY <1>4, <2>1 DEF Stream
<1> QED
    BY <1>5 DEF t, u

\* Taking the first frame off a stream.
LEMMA StreamTake ==
  ASSUME NEW s, NEW m \in Nat, NEW n \in Nat, m <= n, Stream(s, m, n), s # <<>>
  PROVE  /\ s[1][1] = m + 1 /\ m + 1 <= n /\ Len(s) \in Nat /\ Len(s) >= 2
         /\ Stream(SubSeq(s, 3, Len(s)), m + 1, n)
<1> DEFINE t == SubSeq(s, 3, Len(s))
<1>1. /\ s \in Seq(Unit) /\ Len(s) = 2 * (n - m) /\ n - m \in Nat
      /\ Len(s) \in Nat \ {0}
      BY EmptySeq DEF Stream
<1>2. n - m >= 1 /\ Len(s) >= 2
      BY <1>1
<1>3. s[1] = <<m + 1, "head">>
  <2>1. 1 \in 1 .. n - m
        BY <1>1, <1>2
  <2>2. s[2 * 1 - 1] = <<m + 1, "head">>
        BY <2>1 DEF Stream
  <2> QED
      BY <2>2
<1>4. \A i \in 3 .. Len(s) : s[i] \in Unit
      BY <1>1
<1>5. /\ t \in Seq(Unit)
      /\ Len(t) = IF 3 <= Len(s) THEN Len(s) - 3 + 1 ELSE 0
      /\ \A i \in 1 .. Len(s) - 3 + 1 : t[i] = s[3 + i - 1]
      BY <1>1, <1>4, SubSeqProperties
<1> HIDE DEF t
<1>6. Len(t) = 2 * (n - (m + 1))
      BY <1>1, <1>2, <1>5
<1>7. ASSUME NEW i \in 1 .. n - (m + 1)
      PROVE  t[2 * i - 1] = <<m + 1 + i, "head">> /\ t[2 * i] = <<m + 1 + i, "body">>
  <2>1. /\ i + 1 \in 1 .. n - m /\ m + (i + 1) = m + 1 + i
        /\ 2 * i - 1 \in 1 .. Len(s) - 3 + 1 /\ 2 * i \in 1 .. Len(s) - 3 + 1
        /\ 3 + (2 * i - 1) - 1 = 2 * (i + 1) - 1 /\ 3 + 2 * i - 1 = 2 * (i + 1)
        BY <1>1, <1>2
  <2>2. /\ s[2 * (i + 1) - 1] = <<m + (i + 1), "head">>
        /\ s[2 * (i + 1)] = <<m + (i + 1), "body">>
        BY <2>1 DEF Stream
  <2> QED
      BY <1>5, <2>1, <2>2
<1>8. Stream(t, m + 1, n)
      BY <1>5, <1>6, <1>7 DEF Stream
<1> QED
    BY <1>1, <1>2, <1>3, <1>8 DEF t

\* The frames of a stream.
LEMMA StreamFrames ==
  ASSUME NEW s, NEW m \in Nat, NEW n \in Nat, m <= n, Stream(s, m, n)
  PROVE  Run(Frames(s), m) /\ Len(Frames(s)) = n - m
<1>1. Len(s) = 2 * (n - m) /\ n - m \in Nat
      BY DEF Stream
<1>2. Len(s) \div 2 = n - m
      BY <1>1
<1>3. Frames(s) = [i \in 1 .. n - m |-> s[2 * i][1]]
      BY <1>2 DEF Frames
<1>4. \A i \in 1 .. n - m : s[2 * i][1] = m + i
      BY DEF Stream
<1>5. Frames(s) = [i \in 1 .. n - m |-> m + i]
      BY <1>3, <1>4
<1> QED
    BY <1>1, <1>5 DEF Run

LEMMA ConcatUnits == \A p, q, r \in Seq(Unit) : (p \o q) \o r = p \o (q \o r)
<1> TAKE p, q, r \in Seq(Unit)
<1>1. PICK U : U = Unit
      OBVIOUS
<1>2. p \in Seq(U) /\ q \in Seq(U) /\ r \in Seq(U)
      BY <1>1
<1> QED
    BY ONLY <1>2, ConcatAssociative, SMTT(60)

\* read_buf moves units from the network to the buffer.
LEMMA MoveUnits ==
  ASSUME NEW b \in Seq(Unit), NEW s \in Seq(Unit), NEW n \in 1 .. Len(s)
  PROVE  /\ b \o SubSeq(s, 1, n) \in Seq(Unit)
         /\ SubSeq(s, n + 1, Len(s)) \in Seq(Unit)
         /\ (b \o SubSeq(s, 1, n)) \o SubSeq(s, n + 1, Len(s)) = b \o s
<1> DEFINE x == SubSeq(s, 1, n)
           y == SubSeq(s, n + 1, Len(s))
<1>1. Len(s) \in Nat /\ \A i \in 1 .. Len(s) : s[i] \in Unit
      BY LenProperties
<1>2. x \in Seq(Unit)
      BY <1>1, SubSeqProperties
<1>3. y \in Seq(Unit)
      BY <1>1, SubSeqProperties
<1>4. x \o y = s
  <2>1. 1 \in 1 .. Len(s) + 1 /\ n \in 1 - 1 .. Len(s) /\ Len(s) \in n .. Len(s)
        BY <1>1
  <2>2. x \o y = SubSeq(s, 1, Len(s))
        BY <2>1, ConcatAdjacentSubSeq
  <2> QED
      BY <2>2, SubSeqFull
<1> HIDE DEF x, y
<1>5. (b \o x) \o y = b \o (x \o y)
      BY <1>2, <1>3, ConcatUnits, ZenonT(60)
<1>6. b \o x \in Seq(Unit)
      BY <1>2, ConcatProperties
<1> QED
    BY <1>2, <1>3, <1>4, <1>5, <1>6 DEF x, y

\* decode takes units off the front of the buffer.
LEMMA TakeUnits ==
  ASSUME NEW b \in Seq(Unit), NEW s \in Seq(Unit), Len(b) >= 2
  PROVE  /\ SubSeq(b, 3, Len(b)) \in Seq(Unit)
         /\ SubSeq(b, 3, Len(b)) \o s = SubSeq(b \o s, 3, Len(b \o s))
<1> DEFINE c == SubSeq(b, 3, Len(b))
<1>1. Len(b) \in Nat /\ Len(s) \in Nat /\ \A i \in 1 .. Len(b) : b[i] \in Unit
      BY LenProperties
<1>2. \A i \in 3 .. Len(b) : b[i] \in Unit
      BY <1>1
<1>3. /\ c \in Seq(Unit) /\ Len(c) = IF 3 <= Len(b) THEN Len(b) - 3 + 1 ELSE 0
      /\ \A i \in 1 .. Len(b) - 3 + 1 : c[i] = b[3 + i - 1]
      BY <1>1, <1>2, SubSeqProperties
<1> HIDE DEF c
<1>4. Len(c) = Len(b) - 2
  <2>1. Len(c) = IF 3 <= Len(b) THEN Len(b) - 3 + 1 ELSE 0
        BY <1>3
  <2>2. CASE Len(b) = 2
        BY <2>1, <2>2
  <2>3. CASE Len(b) >= 3
        BY <1>1, <2>1, <2>3
  <2>4. Len(b) \in Nat /\ Len(b) >= 2
        BY <1>1
  <2>5. \A k \in Nat : k >= 2 => k = 2 \/ k >= 3
        OBVIOUS
  <2> QED
      BY <2>2, <2>3, <2>4, <2>5
<1> DEFINE t == b \o s
<1>5. /\ t \in Seq(Unit) /\ Len(t) = Len(b) + Len(s)
      /\ \A i \in 1 .. Len(b) + Len(s) : t[i] = IF i <= Len(b) THEN b[i] ELSE s[i - Len(b)]
      BY ConcatProperties
<1> HIDE DEF t
<1>6. \A i \in 3 .. Len(t) : t[i] \in Unit
      BY <1>1, <1>5, LenProperties
<1> DEFINE u == SubSeq(t, 3, Len(t))
<1>7. /\ u \in Seq(Unit) /\ Len(u) = IF 3 <= Len(t) THEN Len(t) - 3 + 1 ELSE 0
      /\ \A i \in 1 .. Len(t) - 3 + 1 : u[i] = t[3 + i - 1]
      BY <1>1, <1>5, <1>6, SubSeqProperties
<1> HIDE DEF u
<1>8. Len(u) = Len(t) - 2
      BY <1>1, <1>5, <1>7
<1>9. /\ c \o s \in Seq(Unit) /\ Len(c \o s) = Len(c) + Len(s)
      /\ \A i \in 1 .. Len(c) + Len(s) :
           (c \o s)[i] = IF i <= Len(c) THEN c[i] ELSE s[i - Len(c)]
      BY <1>3, ConcatProperties
<1>10. \A i \in 1 .. Len(c) + Len(s) : (c \o s)[i] = u[i]
  <2> SUFFICES ASSUME NEW i \in 1 .. Len(c) + Len(s) PROVE (c \o s)[i] = u[i]
      OBVIOUS
  <2>1. /\ i \in 1 .. Len(t) - 3 + 1 /\ i + 2 \in 1 .. Len(b) + Len(s)
        /\ 3 + i - 1 = i + 2 /\ i + 2 - Len(b) = i - Len(c)
        /\ i <= Len(c) <=> i + 2 <= Len(b)
        /\ i <= Len(c) => i \in 1 .. Len(b) - 3 + 1
        BY <1>1, <1>4, <1>5
  <2>2. u[i] = IF i + 2 <= Len(b) THEN b[i + 2] ELSE s[i + 2 - Len(b)]
    <3>1. u[i] = t[3 + i - 1]
          BY <1>7, <2>1
    <3>2. t[i + 2] = IF i + 2 <= Len(b) THEN b[i + 2] ELSE s[i + 2 - Len(b)]
          BY <1>5, <2>1
    <3> QED
        BY <2>1, <3>1, <3>2
  <2>3. (c \o s)[i] = IF i <= Len(c) THEN b[i + 2] ELSE s[i - Len(c)]
        BY <1>3, <1>9, <2>1
  <2>4. CASE i <= Len(c)
    <3>1. u[i] = b[i + 2]
          BY ONLY <2>1, <2>2, <2>4
    <3>2. (c \o s)[i] = b[i + 2]
          BY ONLY <2>3, <2>4
    <3> QED
        BY ONLY <3>1, <3>2
  <2>5. CASE ~(i <= Len(c))
    <3>1. u[i] = s[i + 2 - Len(b)]
          BY ONLY <2>1, <2>2, <2>5
    <3>2. (c \o s)[i] = s[i - Len(c)]
          BY ONLY <2>3, <2>5
    <3>3. i + 2 - Len(b) = i - Len(c)
          BY ONLY <2>1
    <3> QED
        BY ONLY <3>1, <3>2, <3>3
  <2> QED
      BY ONLY <2>4, <2>5
<1>11. c \o s = u
  <2>1. Len(c \o s) = Len(u)
        BY <1>1, <1>4, <1>5, <1>8, <1>9
  <2> DEFINE v == c \o s
  <2>2. v \in Seq(Unit) /\ Len(v) = Len(u) /\ \A i \in 1 .. Len(v) : v[i] = u[i]
        BY <1>9, <1>10, <2>1
  <2> HIDE DEF v
  <2>3. v = u
        BY <1>7, <2>2, SeqEqual
  <2> QED
      BY <2>3 DEF v
<1> QED
    BY <1>3, <1>11 DEF c, u, t

\* The first unit of a buffer and what follows it is the buffer's.
LEMMA FirstUnit ==
  ASSUME NEW b \in Seq(Unit), NEW s \in Seq(Unit), b # <<>>
  PROVE  b \o s # <<>> /\ (b \o s)[1] = b[1]
<1>1. Len(b) \in Nat \ {0} /\ Len(s) \in Nat
      BY EmptySeq
<1>2. /\ Len(b \o s) = Len(b) + Len(s)
      /\ \A i \in 1 .. Len(b) + Len(s) :
           (b \o s)[i] = IF i <= Len(b) THEN b[i] ELSE s[i - Len(b)]
      BY ConcatProperties
<1>3. 1 \in 1 .. Len(b) + Len(s) /\ 1 <= Len(b) /\ Len(b) + Len(s) # 0
      BY <1>1
<1> QED
    BY <1>2, <1>3

-----------------------------------------------------------------------------
(* Initially, and what a step leaves alone. *)

LEMMA InitInv == Init => Inv
<1> SUFFICES ASSUME Init PROVE Inv
    OBVIOUS
<1>1. Types
      BY Sizes DEF Init, Types, InTypes, ReaderType, OutTypes, HalfTypes, PubTypes
<1>2. InFlow
  <2>1. Split(0)
        BY DEF Init, Split, Stream, Arrived
  <2> QED
      BY <2>1, RunEmpty DEF Init, InFlow
<1>3. OutFlow
      BY RunEmpty DEF Init, OutFlow, Taken
<1>4. Order
      BY DEF Init, Order
<1> QED
    BY <1>1, <1>2, <1>3, <1>4 DEF Inv

LEMMA InFrame ==
  ASSUME InFlow, UNCHANGED inVars, halves'.read = halves.read,
         Signalled("reader") => Signalled("reader")'
  PROVE  InFlow'
<1>1. UNCHANGED <<peer, reader, data, app>>
      BY DEF inVars
<1>2. CutShort => CutShort'
      BY <1>1 DEF CutShort
<1>3. ASSUME NEW m \in 0 .. peer.sent, Split(m) PROVE Split(m)'
      BY <1>1, <1>3 DEF Split, Arrived
<1> QED
    BY <1>1, <1>2, <1>3 DEF InFlow, Arrived

LEMMA OutFrame ==
  ASSUME OutFlow, UNCHANGED outVars, peer.state = "reset" => peer'.state = "reset",
         halves.writers = 0 => halves'.writers = 0,
         Signalled("writer") => Signalled("writer")'
  PROVE  OutFlow'
<1>1. UNCHANGED <<writer, out, sent, wire>>
      BY DEF outVars
<1> QED
    BY <1>1 DEF OutFlow, Taken

-----------------------------------------------------------------------------
(* The types of what a step changes. *)

LEMMA PeerTypes == ASSUME Inv, PeerSend \/ PeerClose PROVE InTypes'
<1>1. /\ peer \in [sent : 0 .. MaxIn, net : Seq(Unit), state : {"open", "eof", "reset"}]
      /\ UNCHANGED <<reader, data, app>>
      BY DEF Inv, Types, InTypes, PeerSend, PeerClose
<1>2. ASSUME PeerSend
      PROVE  peer' \in [sent : 0 .. MaxIn, net : Seq(Unit), state : {"open", "eof", "reset"}]
  <2> DEFINE net == peer.net \o Units(peer.sent + 1)
  <2>1. net \in Seq(Unit)
        BY <1>1, UnitsType, ConcatProperties
  <2>2. peer.sent + 1 \in 0 .. MaxIn /\ peer' = [peer EXCEPT !.sent = @ + 1, !.net = net]
        BY <1>1, <1>2, Sizes DEF PeerSend
  <2> HIDE DEF net
  <2> QED
      BY <1>1, <2>1, <2>2
<1>3. ASSUME PeerClose
      PROVE  peer' \in [sent : 0 .. MaxIn, net : Seq(Unit), state : {"open", "eof", "reset"}]
      BY <1>1, <1>3 DEF PeerClose
<1> QED
    BY <1>1, <1>2, <1>3 DEF Inv, Types, InTypes

LEMMA ReadSomeTypes == ASSUME Inv, ReadSome PROVE InTypes'
<1>1. PICK n \in 1 .. Len(peer.net) :
        /\ reader' = [reader EXCEPT !.pc = "decode", !.buf = @ \o SubSeq(peer.net, 1, n)]
        /\ peer' = [peer EXCEPT !.net = SubSeq(@, n + 1, Len(@))]
      BY DEF ReadSome
<1>2. peer.net \in Seq(Unit) /\ reader.buf \in Seq(Unit)
      BY DEF Inv, Types, InTypes, ReaderType
<1> DEFINE buf == reader.buf \o SubSeq(peer.net, 1, n)
           net == SubSeq(peer.net, n + 1, Len(peer.net))
<1>3. buf \in Seq(Unit) /\ net \in Seq(Unit)
      BY <1>2, MoveUnits
<1>4. reader' = [reader EXCEPT !.pc = "decode", !.buf = buf] /\ peer' = [peer EXCEPT !.net = net]
      BY <1>1
<1> HIDE DEF buf, net
<1>5. reader' \in ReaderType
      BY <1>3, <1>4 DEF Inv, Types, InTypes, ReaderType
<1>6. peer' \in [sent : 0 .. MaxIn, net : Seq(Unit), state : {"open", "eof", "reset"}]
      BY <1>3, <1>4 DEF Inv, Types, InTypes
<1> QED
    BY <1>5, <1>6 DEF Inv, Types, InTypes, ReadSome

LEMMA ReadEndTypes == ASSUME Inv, ReadEnd \/ ReadStop \/ DeliverFails PROVE InTypes'
<1>1. reader' \in ReaderType
  <2>1. reader \in ReaderType /\ 0 \in 0 .. MaxIn
        BY Sizes DEF Inv, Types, InTypes
  <2>2. \/ reader' = [reader EXCEPT !.pc = "done"]
        \/ reader' = [reader EXCEPT !.pc = "done", !.hand = 0]
        BY DEF ReadEnd, ReadStop, DeliverFails
  <2>3. CASE reader' = [reader EXCEPT !.pc = "done"]
        BY <2>1, <2>3 DEF ReaderType
  <2>4. CASE reader' = [reader EXCEPT !.pc = "done", !.hand = 0]
        BY <2>1, <2>4 DEF ReaderType
  <2> QED
      BY <2>2, <2>3, <2>4
<1> QED
    BY <1>1 DEF Inv, Types, InTypes, ReadEnd, ReadStop, DeliverFails

\* decode takes the next frame of the stream off the buffer, refuses it, or
\* waits for the rest of it.
LEMMA Decoded ==
  ASSUME Inv, Decode, NEW m \in 0 .. peer.sent, Split(m)
  PROVE  \/ /\ reader' = [reader EXCEPT !.pc = "done"]
            /\ m + 1 \in TooLargeIn \cap 1 .. peer.sent
         \/ /\ reader' = [pc |-> "send", hand |-> m + 1,
                          buf |-> SubSeq(reader.buf, 3, Len(reader.buf))]
            /\ SubSeq(reader.buf, 3, Len(reader.buf)) \in Seq(Unit)
            /\ m + 1 \in 1 .. peer.sent
            /\ Stream(SubSeq(reader.buf, 3, Len(reader.buf)) \o peer.net, m + 1, peer.sent)
         \/ /\ reader' = [reader EXCEPT !.pc = "select"]
            /\ Len(reader.buf) < 2
<1> DEFINE b == reader.buf
           n == peer.net
           s == b \o n
<1>1. b \in Seq(Unit) /\ n \in Seq(Unit) /\ peer.sent \in Nat /\ Len(b) \in Nat
      BY DEF Inv, Types, InTypes, ReaderType
<1>2. Stream(s, m, peer.sent) /\ m \in Nat /\ m <= peer.sent
      BY <1>1 DEF Split
<1>3. ASSUME b # <<>> PROVE s # <<>> /\ s[1][1] = b[1][1]
  <2> HIDE DEF b, n
  <2> QED
      BY <1>1, <1>3, FirstUnit
<1>4. ASSUME b # <<>> PROVE b[1][1] = m + 1 /\ m + 1 \in 1 .. peer.sent
  <2>1. s # <<>> /\ s[1][1] = b[1][1]
        BY <1>3, <1>4
  <2> HIDE DEF s, b
  <2>2. s[1][1] = m + 1 /\ m + 1 <= peer.sent
        BY <1>1, <1>2, <2>1, StreamTake
  <2> QED
      BY <1>1, <1>2, <2>1, <2>2
<1>5. CASE b # <<>> /\ b[1][1] \in TooLargeIn
  <2>1. reader' = [reader EXCEPT !.pc = "done"]
        BY <1>5 DEF Decode
  <2> QED
      BY <1>4, <1>5, <2>1
<1>6. CASE ~(b # <<>> /\ b[1][1] \in TooLargeIn) /\ Len(b) >= 2
  <2> DEFINE c == SubSeq(b, 3, Len(b))
  <2>1. b # <<>>
        BY <1>6
  <2>2. reader' = [pc |-> "send", hand |-> b[1][1], buf |-> c]
        BY <1>6 DEF Decode
  <2>3. c \in Seq(Unit) /\ c \o n = SubSeq(s, 3, Len(s))
    <3> HIDE DEF b, n
    <3> QED
        BY <1>1, <1>6, TakeUnits
  <2>4. Stream(SubSeq(s, 3, Len(s)), m + 1, peer.sent)
    <3>1. s # <<>>
          BY <1>3, <2>1
    <3> HIDE DEF s
    <3> QED
        BY <1>1, <1>2, <3>1, StreamTake
  <2>5. b[1][1] = m + 1 /\ m + 1 \in 1 .. peer.sent
        BY <1>4, <2>1
  <2>6. Stream(c \o n, m + 1, peer.sent)
        BY <2>3, <2>4
  <2> HIDE DEF c
  <2>7. reader' = [pc |-> "send", hand |-> m + 1, buf |-> c]
        BY <2>2, <2>5
  <2> QED
      BY <2>3, <2>5, <2>6, <2>7 DEF c
<1>7. CASE ~(b # <<>> /\ b[1][1] \in TooLargeIn) /\ ~(Len(b) >= 2)
  <2>1. reader' = [reader EXCEPT !.pc = "select"]
        BY <1>7 DEF Decode
  <2>2. Len(b) < 2
        BY <1>1, <1>7
  <2> QED
      BY <2>1, <2>2
<1> QED
    BY <1>5, <1>6, <1>7

LEMMA DecodeTypes == ASSUME Inv, Decode PROVE InTypes'
<1>1. PICK m \in 0 .. peer.sent : Split(m)
      BY DEF Inv, InFlow
<1>2. reader \in ReaderType /\ peer.sent \in 0 .. MaxIn
      BY DEF Inv, Types, InTypes
<1>3. CASE \E pc \in {"done", "select"} : reader' = [reader EXCEPT !.pc = pc]
  <2>1. reader' \in ReaderType
        BY <1>2, <1>3 DEF ReaderType
  <2> QED
      BY <2>1 DEF Inv, Types, InTypes, Decode
<1>4. CASE /\ reader' = [pc |-> "send", hand |-> m + 1,
                         buf |-> SubSeq(reader.buf, 3, Len(reader.buf))]
           /\ SubSeq(reader.buf, 3, Len(reader.buf)) \in Seq(Unit)
           /\ m + 1 \in 1 .. peer.sent
  <2>1. m + 1 \in 0 .. MaxIn
        BY <1>2, <1>4, Sizes
  <2>2. reader' \in ReaderType
        BY <1>4, <2>1 DEF ReaderType
  <2> QED
      BY <2>2 DEF Inv, Types, InTypes, Decode
<1> QED
    BY <1>1, <1>3, <1>4, Decoded

LEMMA DeliverTypes == ASSUME Inv, Deliver PROVE InTypes'
<1>1. /\ reader \in ReaderType /\ 0 \in 0 .. MaxIn /\ data \in Seq(Nat)
      /\ Len(data) < ChannelCapacity
      BY Sizes DEF Inv, Types, InTypes, Deliver
<1>2. reader' \in ReaderType
      BY <1>1 DEF Deliver, ReaderType
<1>3. reader.hand \in Nat
      BY <1>1, Sizes DEF ReaderType
<1>4. data' = Append(data, reader.hand)
      BY DEF Deliver
<1>5. data' \in Seq(Nat) /\ Len(data') = Len(data) + 1
      BY <1>1, <1>3, <1>4
<1>6. Len(data') <= ChannelCapacity
      BY <1>1, <1>5, Sizes
<1> QED
    BY <1>2, <1>5, <1>6 DEF Inv, Types, InTypes, Deliver

LEMMA AppTypes ==
  ASSUME Inv, Recv \/ RecvEnd \/ DropRead \/ SpawnReader
  PROVE  InTypes'
<1>1. /\ data \in Seq(Nat) /\ Len(data) <= ChannelCapacity /\ reader \in ReaderType
      /\ app \in [got : Seq(Nat), ended : BOOLEAN]
      BY DEF Inv, Types, InTypes
<1>2. ASSUME Recv PROVE InTypes'
  <2>1. data # <<>> /\ data' = Tail(data) /\ app' = [app EXCEPT !.got = Append(@, Head(data))]
        BY <1>2 DEF Recv
  <2>2. /\ Head(data) \in Nat /\ Tail(data) \in Seq(Nat)
        /\ Len(Tail(data)) = Len(data) - 1 /\ Len(data) \in Nat
        BY <1>1, <2>1
  <2> DEFINE got == Append(app.got, Head(data))
  <2>5. got \in Seq(Nat) /\ app' = [app EXCEPT !.got = got]
        BY <1>1, <2>1, <2>2
  <2> HIDE DEF got
  <2>3. app' \in [got : Seq(Nat), ended : BOOLEAN]
        BY <1>1, <2>5
  <2>4. data' \in Seq(Nat) /\ Len(data') <= ChannelCapacity
        BY <1>1, <2>1, <2>2, Sizes
  <2> QED
      BY <1>2, <2>3, <2>4 DEF Inv, Types, InTypes, Recv
<1>3. ASSUME RecvEnd PROVE InTypes'
      BY <1>1, <1>3 DEF Inv, Types, InTypes, RecvEnd
<1>4. ASSUME DropRead PROVE InTypes'
      BY <1>4, Sizes DEF Inv, Types, InTypes, DropRead
<1>5. ASSUME SpawnReader PROVE InTypes'
  <2>1. reader' \in ReaderType
        BY <1>1, <1>5 DEF SpawnReader, ReaderType
  <2> QED
      BY <1>5, <2>1 DEF Inv, Types, InTypes, SpawnReader
<1> QED
    BY <1>2, <1>3, <1>4, <1>5

LEMMA WriterTypes ==
  ASSUME Inv, PeerRead \/ WriterStep \/ WriteStop \/ SpawnWriter
  PROVE  OutTypes'
<1> USE Sizes
<1>1. OutTypes
      BY DEF Inv, Types
<1>2. ASSUME PeerRead PROVE OutTypes'
  <2>1. wire.unread - 1 \in 0 .. SendBuffer
    <3>1. wire.unread \in 0 .. SendBuffer
          BY <1>1 DEF OutTypes
    <3>2. wire.unread > 0
          BY <1>2 DEF PeerRead
    <3>3. SendBuffer \in Nat
          BY TcpConstants
    <3> QED
        BY ONLY <3>1, <3>2, <3>3
  <2>2. wire' \in [frames : Seq(Nat), torn : BOOLEAN, unread : 0 .. SendBuffer]
        BY <1>1, <1>2, <2>1 DEF OutTypes, PeerRead
  <2> QED
      BY <1>1, <1>2, <2>2 DEF OutTypes, PeerRead
<1>3. ASSUME WriteTake PROVE OutTypes'
  <2>1. /\ out # <<>> /\ Tail(out) \in Seq(Nat) /\ Len(Tail(out)) = Len(out) - 1
        /\ Len(out) \in Nat
        BY <1>1, <1>3 DEF OutTypes, WriteTake
  <2>2. Head(out) \in 0 .. MaxOut
    <3>1. Run(out, Taken) /\ sent = Taken + Len(out)
          BY <1>3 DEF Inv, OutFlow, WriteTake
    <3>2. Taken \in Nat
          BY <1>1 DEF Taken, OutTypes
    <3>3. Head(out) = Taken + 1
          BY <2>1, <3>1, <3>2, RunTail
    <3>4. sent \in 0 .. MaxOut
          BY <1>1 DEF OutTypes
    <3> QED
        BY <2>1, <3>1, <3>2, <3>3, <3>4
  <2>3. writer' \in [pc : {"none", "select", "write", "done"}, hand : 0 .. MaxOut]
        BY <1>1, <1>3, <2>2 DEF OutTypes, WriteTake
  <2>4. out' \in Seq(Nat) /\ Len(out') <= ChannelCapacity
        BY <1>1, <1>3, <2>1 DEF OutTypes, WriteTake
  <2> QED
      BY <1>1, <1>3, <2>3, <2>4 DEF OutTypes, WriteTake
<1>4. ASSUME WriteHead PROVE OutTypes'
  <2>1. wire.unread + 1 \in 0 .. SendBuffer
    <3>1. wire.unread \in 0 .. SendBuffer
          BY <1>1 DEF OutTypes
    <3>2. wire.unread < SendBuffer
          BY <1>4 DEF WriteHead
    <3>3. SendBuffer \in Nat
          BY TcpConstants
    <3> QED
        BY ONLY <3>1, <3>2, <3>3
  <2>2. wire' \in [frames : Seq(Nat), torn : BOOLEAN, unread : 0 .. SendBuffer]
        BY <1>1, <1>4, <2>1 DEF OutTypes, WriteHead
  <2> QED
      BY <1>1, <1>4, <2>2 DEF OutTypes, WriteHead
<1>5. ASSUME WriteBody PROVE OutTypes'
      BY <1>1, <1>5 DEF OutTypes, WriteBody
<1>6. ASSUME WriteFails \/ WriteStop \/ WriteEnd PROVE OutTypes'
  <2>1. writer' = [pc |-> "done", hand |-> 0]
        BY <1>6 DEF WriteFails, WriteStop, WriteEnd
  <2> QED
      BY <1>1, <1>6, <2>1 DEF OutTypes, WriteFails, WriteStop, WriteEnd
<1>7. ASSUME SpawnWriter PROVE OutTypes'
      BY <1>1, <1>7 DEF OutTypes, SpawnWriter
<1> QED
    BY <1>2, <1>3, <1>4, <1>5, <1>6, <1>7 DEF WriterStep

LEMMA SendTypes == ASSUME Inv, Send \/ SendInitial PROVE OutTypes'
<1> USE Sizes
<1>1. OutTypes
      BY DEF Inv, Types
<1>2. CASE UNCHANGED outVars
      BY <1>1, <1>2 DEF OutTypes, outVars
<1>3. CASE ~UNCHANGED outVars
  <2>1. /\ out' = Append(out, sent + 1) /\ sent' = sent + 1 /\ UNCHANGED <<writer, wire>>
        /\ writer.pc # "done"
        BY <1>3 DEF Send, SendInitial, outVars
  <2>2. out \in Seq(Nat) /\ Len(out) \in Nat /\ sent \in 0 .. MaxOut
        BY <1>1 DEF OutTypes
  <2>3. sent < MaxOut /\ Len(out) < ChannelCapacity
    <3>1. CASE Send
          BY <3>1 DEF Send
    <3>2. CASE SendInitial
      <4>1. sent = 0 /\ sent = Taken + Len(out)
            BY <2>1, <3>2 DEF Inv, Order, OutFlow, SendInitial
      <4>2. Taken \in Nat
            BY <1>1 DEF Taken, OutTypes
      <4> QED
          BY <2>2, <4>1, <4>2
    <3> QED
        BY <3>1, <3>2
  <2>4. sent' \in 0 .. MaxOut
        BY <2>1, <2>2, <2>3
  <2>5. out' \in Seq(Nat) /\ Len(out') <= ChannelCapacity
        BY <2>1, <2>2, <2>3
  <2> QED
      BY <1>1, <2>1, <2>4, <2>5 DEF OutTypes
<1> QED
    BY <1>2, <1>3

LEMMA HalfTypesKept ==
  ASSUME Inv, SpawnReader \/ CloneWriter \/ DropRead \/ DropReadShutdown \/ DropWriter
  PROVE  HalfTypes'
<1> USE Sizes
<1>1. HalfTypes
      BY DEF Inv, Types
<1>2. ASSUME SpawnReader PROVE HalfTypes'
      BY <1>1, <1>2 DEF HalfTypes, SpawnReader
<1>3. ASSUME CloneWriter PROVE HalfTypes'
  <2>1. halves.writers + 1 \in 0 .. MaxWriters
        BY <1>1, <1>3 DEF HalfTypes, CloneWriter
  <2> QED
      BY <1>1, <1>3, <2>1 DEF HalfTypes, CloneWriter
<1>4. ASSUME DropRead \/ DropReadShutdown PROVE HalfTypes'
      BY <1>1, <1>4 DEF HalfTypes, DropRead, DropReadShutdown
<1>5. ASSUME DropWriter PROVE HalfTypes'
  <2>1. halves.writers - 1 \in 0 .. MaxWriters
        BY <1>1, <1>5 DEF HalfTypes, DropWriter
  <2> QED
      BY <1>1, <1>5, <2>1 DEF HalfTypes, DropWriter
<1> QED
    BY <1>2, <1>3, <1>4, <1>5

LEMMA PubTypesKept ==
  ASSUME Inv,
         \/ SpawnReader \/ PublisherStep \/ PunchTimeout \/ AcceptLoopStops
         \/ OtherArrives \/ AcceptNext \/ ShutdownSignal \/ CloseAccept \/ DrainAccept
  PROVE  PubTypes'
<1> USE Sizes
<1>1. PubTypes
      BY DEF Inv, Types
<1>2. ASSUME SpawnReader \/ SpawnWriter PROVE PubTypes'
  <2>1. hears' \in [{"reader", "writer"} -> BOOLEAN]
    <3>1. CASE SpawnReader
          BY <1>1, <3>1 DEF PubTypes, SpawnReader
    <3>2. CASE SpawnWriter
          BY <1>1, <3>2 DEF PubTypes, SpawnWriter
    <3> QED
        BY <1>2, <3>1, <3>2
  <2>2. CASE SpawnReader
        BY <1>1, <2>1, <2>2 DEF PubTypes, SpawnReader
  <2>3. CASE SpawnWriter
        BY <1>1, <2>1, <2>3 DEF PubTypes, SpawnWriter
  <2> QED
      BY <1>2, <2>2, <2>3
<1>3. ASSUME SendInitial PROVE PubTypes'
      BY <1>1, <1>3 DEF PubTypes, SendInitial
<1>4. ASSUME Publish \/ OtherArrives PROVE PubTypes'
  <2>1. accept' \in Seq({"this", "other"}) /\ Len(accept') <= AcceptCapacity
    <3>1. PICK x \in {"this", "other"} : accept' = Append(accept, x)
          BY <1>4 DEF Publish, OtherArrives
    <3>2. Len(accept) < AcceptCapacity /\ Len(accept) \in Nat
          BY <1>1, <1>4 DEF Publish, OtherArrives, PubTypes
    <3> QED
        BY <1>1, <3>1, <3>2 DEF PubTypes
  <2>2. CASE Publish
        BY <1>1, <2>1, <2>2 DEF PubTypes, Publish, Returned
  <2>3. CASE OtherArrives
        BY <1>1, <2>1, <2>3 DEF PubTypes, OtherArrives
  <2> QED
      BY <1>4, <2>2, <2>3
<1>5. ASSUME PublishFails PROVE PubTypes'
      BY <1>1, <1>5 DEF PubTypes, PublishFails, Returned
<1>6. ASSUME PunchTimeout PROVE PubTypes'
      BY <1>1, <1>6 DEF PubTypes, PunchTimeout
<1>7. ASSUME AcceptLoopStops PROVE PubTypes'
      BY <1>1, <1>7 DEF PubTypes, AcceptLoopStops
<1>8. ASSUME AcceptNext \/ DrainAccept PROVE PubTypes'
  <2>1. accept # <<>> /\ accept' = Tail(accept)
        BY <1>8 DEF AcceptNext, DrainAccept
  <2>2. accept' \in Seq({"this", "other"}) /\ Len(accept') <= AcceptCapacity
        BY <1>1, <2>1 DEF PubTypes
  <2>3. CASE AcceptNext
        BY <1>1, <2>2, <2>3 DEF PubTypes, AcceptNext
  <2>4. CASE DrainAccept
        BY <1>1, <2>2, <2>4 DEF PubTypes, DrainAccept
  <2> QED
      BY <1>8, <2>3, <2>4
<1>9. ASSUME ShutdownSignal \/ CloseAccept PROVE PubTypes'
      BY <1>1, <1>9 DEF PubTypes, ShutdownSignal, CloseAccept
<1> QED
    BY <1>2, <1>3, <1>4, <1>5, <1>6, <1>7, <1>8, <1>9 DEF PublisherStep

LEMMA TypesKept == Inv /\ [Next]_vars => Types'
<1> SUFFICES ASSUME Inv, [Next]_vars PROVE Types'
    OBVIOUS
<1>1. Types
      BY DEF Inv
<1>2. InTypes'
  <2>1. CASE UNCHANGED inVars
        BY <1>1, <2>1 DEF Types, InTypes, inVars
  <2>2. CASE PeerSend \/ PeerClose
        BY <2>2, PeerTypes
  <2>3. CASE ReadSome
        BY <2>3, ReadSomeTypes
  <2>4. CASE ReadEnd \/ ReadStop \/ ReaderStep
        BY <2>4, ReadEndTypes, DecodeTypes, DeliverTypes DEF ReaderStep
  <2>5. CASE SpawnReader \/ Recv \/ RecvEnd \/ DropRead
        BY <2>5, AppTypes
  <2> QED
      BY <2>1, <2>2, <2>3, <2>4, <2>5 DEF Next, vars, inVars, PeerRead, WriterStep, WriteTake,
         WriteHead, WriteBody, WriteFails, WriteEnd, WriteStop, PublisherStep, SpawnWriter,
         SendInitial, Publish, PublishFails, PunchTimeout, AcceptLoopStops, OtherArrives,
         AcceptNext, ShutdownSignal, CloseAccept, DrainAccept, Send, CloneWriter,
         DropReadShutdown, DropWriter
<1>3. OutTypes'
  <2>1. CASE UNCHANGED outVars
        BY <1>1, <2>1 DEF Types, OutTypes, outVars
  <2>2. CASE PeerRead \/ WriterStep \/ WriteStop \/ SpawnWriter
        BY <2>2, WriterTypes
  <2>3. CASE Send \/ SendInitial
        BY <2>3, SendTypes
  <2> QED
      BY <2>1, <2>2, <2>3 DEF Next, vars, outVars, PeerSend, PeerClose, ReadSome, ReadEnd,
         ReadStop, ReaderStep, Decode, Deliver, DeliverFails, SpawnReader, PublisherStep,
         Publish, PublishFails, PunchTimeout, AcceptLoopStops, OtherArrives, AcceptNext,
         ShutdownSignal, CloseAccept, DrainAccept, Recv, RecvEnd, CloneWriter, DropRead,
         DropReadShutdown, DropWriter
<1>4. HalfTypes'
  <2>1. CASE UNCHANGED halves
        BY <1>1, <2>1 DEF Types, HalfTypes
  <2>2. CASE SpawnReader \/ CloneWriter \/ DropRead \/ DropReadShutdown \/ DropWriter
        BY <2>2, HalfTypesKept
  <2> QED
      BY <2>1, <2>2 DEF Next, vars, PeerSend, PeerClose, PeerRead, ReadSome, ReadEnd,
         ReadStop, ReaderStep, Decode, Deliver, DeliverFails, WriterStep, WriteTake,
         WriteHead, WriteBody, WriteFails, WriteEnd, WriteStop, PublisherStep, SpawnWriter,
         SendInitial, Publish, PublishFails, PunchTimeout, AcceptLoopStops, OtherArrives,
         AcceptNext, ShutdownSignal, CloseAccept, DrainAccept, Recv, RecvEnd, Send
<1>5. PubTypes'
  <2>1. CASE UNCHANGED pubVars
        BY <1>1, <2>1 DEF Types, PubTypes, pubVars
  <2>2. CASE \/ SpawnReader \/ PublisherStep \/ PunchTimeout \/ AcceptLoopStops
             \/ OtherArrives \/ AcceptNext \/ ShutdownSignal \/ CloseAccept \/ DrainAccept
        BY <2>2, PubTypesKept
  <2> QED
      BY <2>1, <2>2 DEF Next, vars, pubVars, PeerSend, PeerClose, PeerRead, ReadSome, ReadEnd,
         ReadStop, ReaderStep, Decode, Deliver, DeliverFails, WriterStep, WriteTake,
         WriteHead, WriteBody, WriteFails, WriteEnd, WriteStop, Recv, RecvEnd, Send,
         CloneWriter, DropRead, DropReadShutdown, DropWriter
<1> QED
    BY <1>2, <1>3, <1>4, <1>5 DEF Types

LEMMA OrderKept == Inv /\ [Next]_vars => Order'
<1> SUFFICES ASSUME Inv, [Next]_vars PROVE Order'
    OBVIOUS
<1>1. /\ Order /\ reader \in ReaderType /\ accept \in Seq({"this", "other"})
      /\ writer \in [pc : {"none", "select", "write", "done"}, hand : 0 .. MaxOut]
      /\ publisher \in [kind : {"accept", "punch"},
                        pc : {"select", "split", "initial", "publish", "done"}]
      BY DEF Inv, Types, InTypes, OutTypes, PubTypes
<1>2. ASSUME UNCHANGED <<publisher, sent, tunnel, accept>>, reader'.pc = "none" <=> reader.pc = "none",
             writer'.pc = "none" <=> writer.pc = "none"
      PROVE  Order'
      BY <1>1, <1>2 DEF Order
<1>3. CASE PeerSend \/ PeerClose \/ PeerRead \/ Recv \/ RecvEnd \/ CloneWriter
           \/ DropRead \/ DropReadShutdown \/ DropWriter \/ UNCHANGED vars
      BY <1>2, <1>3 DEF vars, PeerSend, PeerClose, PeerRead, Recv, RecvEnd, CloneWriter,
         DropRead, DropReadShutdown, DropWriter, inVars, outVars, pubVars
<1>4. CASE ReadSome \/ ReadEnd \/ ReadStop \/ ReaderStep
  <2>1. UNCHANGED <<publisher, sent, tunnel, accept, writer>>
        BY <1>4 DEF ReadSome, ReadEnd, ReadStop, ReaderStep, Decode, Deliver, DeliverFails,
           outVars, pubVars
  <2>2. reader.pc # "none" /\ reader'.pc # "none"
    <3>1. CASE ReadSome \/ ReadEnd \/ ReadStop
          BY <1>1, <3>1 DEF ReadSome, ReadEnd, ReadStop, ReaderType
    <3>2. CASE Decode
          BY <1>1, <3>2 DEF Decode, ReaderType
    <3>3. CASE Deliver \/ DeliverFails
          BY <1>1, <3>3 DEF Deliver, DeliverFails, ReaderType
    <3> QED
        BY <1>4, <3>1, <3>2, <3>3 DEF ReaderStep
  <2> QED
      BY <1>2, <2>1, <2>2
<1>5. CASE WriterStep \/ WriteStop
  <2>1. UNCHANGED <<publisher, sent, tunnel, accept, reader>>
        BY <1>5 DEF WriterStep, WriteTake, WriteHead, WriteBody, WriteFails, WriteEnd,
           WriteStop, inVars, pubVars
  <2>2. writer.pc # "none" /\ writer'.pc # "none"
        BY <1>1, <1>5 DEF WriterStep, WriteTake, WriteHead, WriteBody, WriteFails, WriteEnd,
           WriteStop
  <2> QED
      BY <1>2, <2>1, <2>2
<1>6. CASE SpawnReader
      BY <1>1, <1>6 DEF Order, SpawnReader, ReaderType, outVars
<1>7. CASE SpawnWriter
      BY <1>1, <1>7 DEF Order, SpawnWriter, inVars
<1>8. CASE SendInitial
      BY <1>1, <1>8 DEF Order, SendInitial, inVars
<1>9. CASE Publish \/ PublishFails
      BY <1>1, <1>9 DEF Order, Publish, PublishFails, Returned, inVars, outVars
<1>10. CASE PunchTimeout \/ AcceptLoopStops
      BY <1>1, <1>10 DEF Order, PunchTimeout, AcceptLoopStops, inVars, outVars
<1>11. CASE OtherArrives
  <2>1. UNCHANGED <<reader, writer, sent, publisher, tunnel>> /\ accept' = Append(accept, "other")
        BY <1>11 DEF OtherArrives, inVars, outVars
  <2>2. ASSUME \A i \in 1 .. Len(accept) : accept[i] # "this"
        PROVE  \A i \in 1 .. Len(accept') : accept'[i] # "this"
        BY <1>1, <2>1, <2>2
  <2> QED
      BY <1>1, <2>1, <2>2 DEF Order
<1>12. CASE AcceptNext \/ DrainAccept
  <2>1. /\ UNCHANGED <<reader, writer, sent, publisher>> /\ accept # <<>>
        /\ accept' = Tail(accept)
        /\ tunnel' \in {"owned", "dropping"} \/ tunnel' = tunnel
        /\ Head(accept) # "this" => tunnel' = tunnel
        BY <1>12 DEF AcceptNext, DrainAccept, inVars, outVars
  <2>2. ASSUME \A i \in 1 .. Len(accept) : accept[i] # "this"
        PROVE  Head(accept) # "this" /\ \A i \in 1 .. Len(accept') : accept'[i] # "this"
        BY <1>1, <2>1, <2>2
  <2>3. tunnel \in {"none", "publishing"} => tunnel' = tunnel
        BY <1>1, <2>1, <2>2 DEF Order
  <2>4. tunnel' \in {"none", "publishing"} => tunnel' = tunnel
        BY <2>1
  <2> QED
      BY <1>1, <2>1, <2>2, <2>3, <2>4 DEF Order
<1>13. CASE ShutdownSignal \/ CloseAccept
      BY <1>2, <1>13 DEF ShutdownSignal, CloseAccept, inVars, outVars
<1>14. CASE Send
  <2>1. UNCHANGED <<reader, writer, publisher, tunnel, accept>> /\ tunnel = "owned"
        BY <1>14 DEF Send, inVars, pubVars
  <2> QED
      BY <1>1, <2>1 DEF Order
<1> QED
    BY <1>3, <1>4, <1>5, <1>6, <1>7, <1>8, <1>9, <1>10, <1>11, <1>12, <1>13, <1>14
       DEF Next, PublisherStep

-----------------------------------------------------------------------------
(* The way of the inbound frames. *)

\* What the proofs about the read side start from.
LEMMA InFacts ==
  ASSUME Inv
  PROVE  /\ peer.net \in Seq(Unit) /\ peer.sent \in 0 .. MaxIn /\ peer.sent \in Nat
         /\ reader \in ReaderType /\ reader.buf \in Seq(Unit) /\ Len(reader.buf) \in Nat
         /\ Len(app.got) \in Nat /\ Len(data) \in Nat /\ data \in Seq(Nat)
         /\ app \in [got : Seq(Nat), ended : BOOLEAN]
         /\ peer \in [sent : 0 .. MaxIn, net : Seq(Unit), state : {"open", "eof", "reset"}]
         /\ InFlow
<1>1. /\ peer \in [sent : 0 .. MaxIn, net : Seq(Unit), state : {"open", "eof", "reset"}]
      /\ reader \in ReaderType /\ app \in [got : Seq(Nat), ended : BOOLEAN]
      /\ data \in Seq(Nat) /\ InFlow
      BY DEF Inv, Types, InTypes
<1>2. peer.net \in Seq(Unit) /\ peer.sent \in 0 .. MaxIn /\ peer.sent \in Nat
      BY <1>1, Sizes
<1>3. reader.buf \in Seq(Unit) /\ Len(reader.buf) \in Nat
      BY <1>1 DEF ReaderType
<1>4. Len(app.got) \in Nat /\ Len(data) \in Nat
      BY <1>1
<1> QED
    BY <1>1, <1>2, <1>3, <1>4

LEMMA PeerSendIn == ASSUME Inv, PeerSend PROVE InFlow'
<1> USE InFacts
<1>1. /\ peer.state = "open" /\ peer'.state = "open" /\ peer'.sent = peer.sent + 1
      /\ peer'.net = peer.net \o Units(peer.sent + 1)
      /\ UNCHANGED <<reader, data, app, halves, hears, incoming>>
      BY DEF PeerSend, pubVars
<1>2. PICK m \in 0 .. peer.sent : Split(m)
      BY DEF InFlow
<1>3. Stream(reader'.buf \o peer'.net, m, peer'.sent)
  <2> DEFINE u == Units(peer.sent + 1)
             n == peer.net
             b == reader.buf
             s == b \o n
  <2>1. u \in Seq(Unit) /\ n \in Seq(Unit) /\ b \in Seq(Unit) /\ m \in Nat /\ m <= peer.sent
        BY UnitsType
  <2>2. (b \o n) \o u = b \o (n \o u)
    <3> DEFINE U == Unit
    <3>1. u \in Seq(U) /\ n \in Seq(U) /\ b \in Seq(U)
          BY <2>1
    <3> HIDE DEF U, u, n, b
    <3> QED
        BY ONLY <3>1, ConcatAssociative
  <2>3. Stream(s, m, peer.sent)
        BY <1>2 DEF Split
  <2> HIDE DEF s
  <2>4. Stream(s \o Units(peer.sent + 1), m, peer.sent + 1)
        BY <2>1, <2>3, StreamAppend
  <2>5. reader'.buf \o peer'.net = s \o Units(peer.sent + 1)
        BY <1>1, <2>2 DEF s
  <2> QED
      BY <1>1, <2>4, <2>5
<1>4. m \in 0 .. peer'.sent
      BY <1>1
<1>5. Split(m)'
      BY <1>1, <1>2, <1>3 DEF Split, Arrived
<1>6. CutShort => CutShort'
  <2>1. 1 .. peer.sent \subseteq 1 .. peer'.sent
        BY <1>1
  <2> QED
      BY <1>1, <2>1 DEF CutShort, Signalled
<1>7. /\ app.ended => CutShort
      /\ reader.pc = "done" /\ halves.read = "held" => CutShort
      BY <1>1 DEF InFlow
<1> QED
    BY <1>1, <1>4, <1>5, <1>6, <1>7 DEF InFlow

LEMMA PeerCloseIn == ASSUME Inv, PeerClose PROVE InFlow'
<1> USE InFacts
<1>1. /\ peer.state = "open" /\ peer'.sent = peer.sent /\ peer'.net = peer.net
      /\ UNCHANGED <<reader, data, app, halves, hears, incoming>>
      BY DEF PeerClose, pubVars
<1>2. PICK m \in 0 .. peer.sent : Split(m)
      BY DEF InFlow
<1>3. m \in 0 .. peer'.sent /\ Split(m)'
      BY <1>1, <1>2 DEF Split, Arrived
<1>4. CutShort => CutShort'
      BY <1>1 DEF CutShort, Signalled
<1>5. /\ app.ended => CutShort
      /\ reader.pc = "done" /\ halves.read = "held" => CutShort
      BY <1>1 DEF InFlow
<1> QED
    BY <1>1, <1>3, <1>4, <1>5 DEF InFlow

LEMMA ReadSomeIn == ASSUME Inv, ReadSome PROVE InFlow'
<1> USE InFacts
<1>1. PICK n \in 1 .. Len(peer.net) :
        /\ reader' = [reader EXCEPT !.pc = "decode", !.buf = @ \o SubSeq(peer.net, 1, n)]
        /\ peer' = [peer EXCEPT !.net = SubSeq(@, n + 1, Len(@))]
      BY DEF ReadSome
<1>2. /\ reader.pc = "select" /\ reader'.pc = "decode"
      /\ reader'.buf = reader.buf \o SubSeq(peer.net, 1, n)
      BY <1>1 DEF ReadSome, ReaderType
<1>3. peer'.net = SubSeq(peer.net, n + 1, Len(peer.net)) /\ peer'.sent = peer.sent
      BY <1>1
<1>4. UNCHANGED <<data, app, halves>>
      BY DEF ReadSome
<1>5. PICK m \in 0 .. peer.sent : Split(m)
      BY DEF InFlow
<1>6. reader'.buf \o peer'.net = reader.buf \o peer.net
  <2> DEFINE b == reader.buf
             s == peer.net
  <2>1. b \in Seq(Unit) /\ s \in Seq(Unit) /\ n \in 1 .. Len(s)
        OBVIOUS
  <2> HIDE DEF b, s
  <2>2. (b \o SubSeq(s, 1, n)) \o SubSeq(s, n + 1, Len(s)) = b \o s
        BY ONLY <2>1, MoveUnits
  <2> QED
      BY <1>2, <1>3, <2>2 DEF b, s
<1>7. Split(m)'
      BY <1>2, <1>3, <1>4, <1>5, <1>6 DEF Split, Arrived
<1>8. ~app.ended
      BY <1>2 DEF InFlow
<1> QED
    BY <1>2, <1>3, <1>4, <1>7, <1>8 DEF InFlow

LEMMA ReadEndIn == ASSUME Inv, ReadEnd PROVE InFlow'
<1>1. /\ reader.pc = "select" /\ reader'.pc = "done" /\ reader'.buf = reader.buf
      /\ peer.state = "reset" \/ (peer.state = "eof" /\ peer.net = <<>>)
      /\ UNCHANGED <<peer, data, app, halves, hears, incoming>>
      BY InFacts DEF ReadEnd, ReaderType, pubVars
<1>2. PICK m \in 0 .. peer.sent : Split(m)
      BY InFacts DEF InFlow
<1>3. Split(m)'
      BY <1>1, <1>2 DEF Split
<1>4. ASSUME halves.read = "held"
      PROVE  CutShort \/ (peer.state = "eof" /\ Arrived = peer.sent)
  <2>1. CASE peer.state = "reset"
        BY <2>1 DEF CutShort
  <2>2. CASE peer.state = "eof" /\ peer.net = <<>>
    <3>1. Stream(reader.buf \o peer.net, m, peer.sent) /\ m = Arrived
          BY <1>1, <1>2, <1>4 DEF Split
    <3>2. Len(reader.buf \o peer.net) = Len(reader.buf) + Len(peer.net) /\ Len(peer.net) = 0
      <4> DEFINE b == reader.buf
                 s == peer.net
      <4>1. b \in Seq(Unit) /\ s \in Seq(Unit) /\ s = <<>>
            BY <2>2, InFacts
      <4> HIDE DEF b, s
      <4>2. Len(b \o s) = Len(b) + Len(s) /\ Len(s) = 0
            BY ONLY <4>1, ConcatProperties
      <4> QED
          BY <4>2 DEF b, s
    <3>3. Len(reader.buf \o peer.net) = 2 * (peer.sent - m)
          BY <3>1 DEF Stream
    <3>4. Len(reader.buf) < 2
          BY <1>1, InFacts DEF InFlow
    <3>5. peer.sent \in Nat /\ Len(reader.buf) \in Nat
          BY InFacts
    <3>6. peer.sent - m = 0
      <4>1. \A k, l, i, j \in Nat : k < 2 /\ l = 0 /\ k + l = 2 * (i - j) => i - j = 0
            OBVIOUS
      <4>2. m \in Nat /\ Len(peer.net) \in Nat
            BY <3>2, <3>5
      <4>3. Len(reader.buf) + Len(peer.net) = 2 * (peer.sent - m)
            BY <3>2, <3>3
      <4> QED
          BY <3>2, <3>4, <3>5, <4>1, <4>2, <4>3
    <3> QED
        BY <2>2, <3>1, <3>5, <3>6
  <2> QED
      BY <1>1, <2>1, <2>2
<1>5. ~app.ended
      BY <1>1, InFacts DEF InFlow
<1>6. /\ Run(app.got, 0) /\ Run(data, Len(app.got))
      /\ halves.read # "none"
      BY <1>1, InFacts DEF InFlow
<1>7. (CutShort <=> CutShort') /\ Arrived' = Arrived
      BY <1>1 DEF CutShort, Arrived, Signalled
<1> QED
    BY <1>1, <1>3, <1>4, <1>5, <1>6, <1>7 DEF InFlow

LEMMA ReadStopIn == ASSUME Inv, ReadStop PROVE InFlow'
<1>1. /\ reader.pc = "select" /\ reader'.pc = "done" /\ reader'.buf = reader.buf
      /\ Signalled("reader") \/ halves.read = "dropped"
      /\ UNCHANGED <<peer, data, app, halves, hears, incoming>>
      BY InFacts DEF ReadStop, ReaderType, pubVars
<1>2. PICK m \in 0 .. peer.sent : Split(m)
      BY InFacts DEF InFlow
<1>3. Split(m)'
      BY <1>1, <1>2 DEF Split
<1>4. halves'.read = "held" => CutShort'
      BY <1>1 DEF CutShort, Signalled
<1>5. /\ ~app.ended /\ Run(app.got, 0) /\ Run(data, Len(app.got)) /\ halves.read # "none"
      BY <1>1, InFacts DEF InFlow
<1> QED
    BY <1>1, <1>3, <1>4, <1>5 DEF InFlow

LEMMA DecodeIn == ASSUME Inv, Decode PROVE InFlow'
<1>1. reader.pc = "decode" /\ UNCHANGED <<peer, data, app, halves, hears, incoming>>
      BY DEF Decode, pubVars
<1>2. PICK m \in 0 .. peer.sent : Split(m)
      BY InFacts DEF InFlow
<1>3. /\ ~app.ended /\ Run(app.got, 0) /\ Run(data, Len(app.got)) /\ halves.read # "none"
      BY <1>1, InFacts DEF InFlow
<1>4. CASE /\ reader' = [reader EXCEPT !.pc = "done"]
           /\ m + 1 \in TooLargeIn \cap 1 .. peer.sent
  <2>1. reader'.pc = "done" /\ reader'.buf = reader.buf
        BY <1>4, InFacts DEF ReaderType
  <2>2. Split(m)' /\ CutShort'
        BY <1>1, <1>2, <1>4, <2>1 DEF Split, CutShort
  <2> QED
      BY <1>1, <1>3, <2>1, <2>2 DEF InFlow
<1>5. CASE /\ reader' = [pc |-> "send", hand |-> m + 1,
                         buf |-> SubSeq(reader.buf, 3, Len(reader.buf))]
           /\ m + 1 \in 1 .. peer.sent
           /\ Stream(SubSeq(reader.buf, 3, Len(reader.buf)) \o peer.net, m + 1, peer.sent)
  <2>1. /\ reader'.pc = "send" /\ reader'.hand = m + 1
        /\ reader'.buf = SubSeq(reader.buf, 3, Len(reader.buf))
        BY <1>5
  <2>2. Stream(reader'.buf \o peer'.net, m + 1, peer'.sent) /\ Arrived' = Arrived
        BY <1>1, <1>5, <2>1 DEF Arrived
  <2>3. halves.read \in {"none", "held"} => m = Arrived
        BY <1>1, <1>2 DEF Split
  <2>4. Split(m + 1)'
        BY <1>1, <2>1, <2>2, <2>3 DEF Split
  <2>5. m + 1 \in 0 .. peer'.sent
        BY <1>1, <1>5, InFacts
  <2> QED
      BY <1>1, <1>3, <2>1, <2>4, <2>5 DEF InFlow
<1>6. CASE reader' = [reader EXCEPT !.pc = "select"] /\ Len(reader.buf) < 2
  <2>1. reader'.pc = "select" /\ reader'.buf = reader.buf
        BY <1>6, InFacts DEF ReaderType
  <2>2. Split(m)'
        BY <1>1, <1>2, <2>1 DEF Split, Arrived
  <2> QED
      BY <1>1, <1>3, <1>6, <2>1, <2>2 DEF InFlow
<1> QED
    BY <1>2, <1>4, <1>5, <1>6, Decoded

LEMMA DeliverIn == ASSUME Inv, Deliver PROVE InFlow'
<1>1. /\ reader.pc = "send" /\ reader'.pc = "decode" /\ reader'.buf = reader.buf
      /\ halves.read = "held" /\ data' = Append(data, reader.hand)
      /\ UNCHANGED <<peer, app, halves, hears, incoming>>
      BY InFacts DEF Deliver, ReaderType, pubVars
<1>2. PICK m \in 0 .. peer.sent : Split(m)
      BY InFacts DEF InFlow
<1>3. reader.hand = m /\ m = Arrived + 1
      BY <1>1, <1>2 DEF Split
<1>4. /\ ~app.ended /\ Run(app.got, 0) /\ Run(data, Len(app.got)) /\ halves.read # "none"
      BY <1>1, InFacts DEF InFlow
<1>5. Run(data', Len(app.got)) /\ Len(data') = Len(data) + 1
  <2>1. Len(app.got) \in Nat /\ reader.hand = Len(app.got) + Len(data) + 1
        BY <1>3, InFacts DEF Arrived
  <2> QED
      BY <1>1, <1>4, <2>1, RunAppend
<1>6. Arrived' = Arrived + 1
      BY <1>1, <1>5, InFacts DEF Arrived
<1>7. Split(m)'
      BY <1>1, <1>2, <1>3, <1>6 DEF Split
<1> QED
    BY <1>1, <1>4, <1>5, <1>7 DEF InFlow

LEMMA DeliverFailsIn == ASSUME Inv, DeliverFails PROVE InFlow'
<1>1. /\ reader.pc = "send" /\ reader'.pc = "done" /\ reader'.buf = reader.buf
      /\ halves.read # "held"
      /\ UNCHANGED <<peer, data, app, halves, hears, incoming>>
      BY InFacts DEF DeliverFails, ReaderType, pubVars
<1>2. PICK m \in 0 .. peer.sent : Split(m)
      BY InFacts DEF InFlow
<1>3. Split(m)'
      BY <1>1, <1>2 DEF Split
<1>4. /\ ~app.ended /\ Run(app.got, 0) /\ Run(data, Len(app.got)) /\ halves.read # "none"
      BY <1>1, InFacts DEF InFlow
<1> QED
    BY <1>1, <1>3, <1>4 DEF InFlow

LEMMA SpawnReaderIn == ASSUME Inv, SpawnReader PROVE InFlow'
<1>1. /\ reader.pc = "none" /\ reader'.pc = "select" /\ reader'.buf = reader.buf
      /\ halves'.read = "held" /\ UNCHANGED <<peer, data, app>>
      BY InFacts DEF SpawnReader, ReaderType
<1>2. PICK m \in 0 .. peer.sent : Split(m)
      BY InFacts DEF InFlow
<1>3. /\ ~app.ended /\ Run(app.got, 0) /\ Run(data, Len(app.got)) /\ halves.read = "none"
      /\ Len(reader.buf) < 2
      BY <1>1, InFacts DEF InFlow
<1>4. Split(m)'
      BY <1>1, <1>2, <1>3 DEF Split, Arrived
<1> QED
    BY <1>1, <1>3, <1>4 DEF InFlow

LEMMA RecvIn == ASSUME Inv, Recv PROVE InFlow'
<1>1. /\ data # <<>> /\ app' = [app EXCEPT !.got = Append(@, Head(data))]
      /\ data' = Tail(data) /\ UNCHANGED <<peer, reader, halves, hears, incoming>>
      BY DEF Recv, pubVars
<1>2. app'.got = Append(app.got, Head(data)) /\ app'.ended = app.ended
      BY <1>1, InFacts
<1>3. /\ Run(app.got, 0) /\ Run(data, Len(app.got)) /\ ~app.ended
      BY <1>1, InFacts DEF InFlow
<1>4. /\ Head(data) = Len(app.got) + 1 /\ Run(Tail(data), Len(app.got) + 1)
      /\ Len(Tail(data)) = Len(data) - 1 /\ Len(data) \in Nat \ {0}
      BY <1>1, <1>3, InFacts, RunTail
<1>5. Run(app'.got, 0) /\ Len(app'.got) = Len(app.got) + 1
  <2>1. Head(data) = 0 + Len(app.got) + 1
        BY <1>4, InFacts
  <2>2. /\ Run(Append(app.got, Head(data)), 0)
        /\ Len(Append(app.got, Head(data))) = Len(app.got) + 1
        BY ONLY <1>3, <2>1, RunAppend
  <2> QED
      BY <1>2, <2>2
<1>6. Run(data', Len(app'.got)) /\ Arrived' = Arrived
  <2>1. Len(data') = Len(data) - 1
        BY <1>1, <1>4
  <2> QED
      BY <1>1, <1>4, <1>5, <2>1, InFacts DEF Arrived
<1>7. PICK m \in 0 .. peer.sent : Split(m)
      BY InFacts DEF InFlow
<1>8. Split(m)'
      BY <1>1, <1>6, <1>7 DEF Split
<1>9. CutShort <=> CutShort'
      BY <1>1 DEF CutShort, Signalled
<1> QED
    BY <1>1, <1>2, <1>3, <1>5, <1>6, <1>8, <1>9, InFacts DEF InFlow

LEMMA RecvEndIn == ASSUME Inv, RecvEnd PROVE InFlow'
<1>1. /\ app' = [app EXCEPT !.ended = TRUE] /\ data = <<>> /\ reader.pc = "done"
      /\ halves.read = "held" /\ UNCHANGED <<peer, reader, data, halves, hears, incoming>>
      BY DEF RecvEnd, pubVars
<1>2. app'.got = app.got
      BY <1>1, InFacts
<1>3. PICK m \in 0 .. peer.sent : Split(m)
      BY InFacts DEF InFlow
<1>4. Split(m)'
      BY <1>1, <1>3 DEF Split
<1>5. (CutShort <=> CutShort') /\ Arrived' = Arrived
      BY <1>1, <1>2 DEF CutShort, Signalled, Arrived
<1> QED
    BY <1>1, <1>2, <1>4, <1>5, InFacts DEF InFlow

LEMMA DropReadIn == ASSUME Inv, DropRead PROVE InFlow'
<1>1. /\ halves.read = "held" /\ halves' = [halves EXCEPT !.read = "closing"]
      /\ data' = <<>> /\ UNCHANGED <<peer, reader, app, hears, incoming>>
      BY DEF DropRead, pubVars
<1>2. halves'.read = "closing"
      BY <1>1 DEF Inv, Types, HalfTypes
<1>3. PICK m \in 0 .. peer.sent : Split(m)
      BY InFacts DEF InFlow
<1>4. Split(m)'
      BY <1>1, <1>2, <1>3 DEF Split
<1>5. Run(data', Len(app.got))
      BY <1>1, InFacts, RunEmpty
<1>6. /\ CutShort <=> CutShort'
      /\ data = <<>> => Arrived' = Arrived
      BY <1>1 DEF CutShort, Signalled, Arrived
<1> QED
    BY <1>1, <1>2, <1>4, <1>5, <1>6, InFacts DEF InFlow

LEMMA DropReadShutdownIn == ASSUME Inv, DropReadShutdown PROVE InFlow'
<1>1. /\ halves.read = "closing" /\ halves'.read = "dropped"
      /\ UNCHANGED <<peer, reader, data, app, hears, incoming>>
      BY DEF Inv, Types, HalfTypes, DropReadShutdown, inVars, pubVars
<1>2. PICK m \in 0 .. peer.sent : Split(m)
      BY InFacts DEF InFlow
<1>3. Split(m)'
      BY <1>1, <1>2 DEF Split
<1>4. (CutShort <=> CutShort') /\ Arrived' = Arrived
      BY <1>1 DEF CutShort, Signalled, Arrived
<1> QED
    BY <1>1, <1>3, <1>4, InFacts DEF InFlow

\* The other steps.
LEMMA OtherIn ==
  ASSUME Inv,
         \/ PeerRead \/ WriterStep \/ WriteStop \/ PublisherStep \/ PunchTimeout
         \/ AcceptLoopStops \/ OtherArrives \/ AcceptNext \/ ShutdownSignal \/ CloseAccept
         \/ DrainAccept \/ Send \/ CloneWriter \/ DropWriter \/ UNCHANGED vars
  PROVE  InFlow'
<1>1. UNCHANGED inVars
      BY DEF vars, inVars, PeerRead, WriterStep, WriteTake, WriteHead, WriteBody, WriteFails,
         WriteEnd, WriteStop, PublisherStep, SpawnWriter, SendInitial, Publish, PublishFails,
         PunchTimeout, AcceptLoopStops, OtherArrives, AcceptNext, ShutdownSignal, CloseAccept,
         DrainAccept, Send, CloneWriter, DropWriter
<1>2. halves'.read = halves.read
  <2>1. CASE CloneWriter \/ DropWriter
        BY <2>1 DEF CloneWriter, DropWriter, Inv, Types, HalfTypes
  <2>2. CASE ~(CloneWriter \/ DropWriter)
    <3>1. UNCHANGED halves
          BY <2>2 DEF vars, PeerRead, WriterStep, WriteTake, WriteHead, WriteBody, WriteFails,
             WriteEnd, WriteStop, PublisherStep, SpawnWriter, SendInitial, Publish, PublishFails,
             PunchTimeout, AcceptLoopStops, OtherArrives, AcceptNext, ShutdownSignal,
             CloseAccept, DrainAccept, Send
    <3> QED
        BY <3>1
  <2> QED
      BY <2>1, <2>2
<1>3. hears'["reader"] = hears["reader"]
  <2>1. CASE SpawnWriter
        BY <2>1 DEF SpawnWriter, Inv, Types, PubTypes
  <2>2. CASE ~SpawnWriter
    <3>1. UNCHANGED hears
          BY <2>2 DEF vars, pubVars, PeerRead, WriterStep, WriteTake, WriteHead, WriteBody,
             WriteFails, WriteEnd, WriteStop, PublisherStep, SendInitial, Publish, PublishFails,
             PunchTimeout, AcceptLoopStops, OtherArrives, AcceptNext, ShutdownSignal,
             CloseAccept, DrainAccept, Send, CloneWriter, DropWriter
    <3> QED
        BY <3>1
  <2> QED
      BY <2>1, <2>2
<1>4. incoming # "open" => incoming' # "open"
      BY DEF vars, pubVars, PeerRead, WriterStep, WriteTake, WriteHead, WriteBody, WriteFails,
         WriteEnd, WriteStop, PublisherStep, SpawnWriter, SendInitial, Publish, PublishFails,
         PunchTimeout, AcceptLoopStops, OtherArrives, AcceptNext, ShutdownSignal, CloseAccept,
         DrainAccept, Send, CloneWriter, DropWriter
<1> QED
    BY <1>1, <1>2, <1>3, <1>4, InFacts, InFrame DEF Signalled

LEMMA InFlowKept == Inv /\ [Next]_vars => InFlow'
<1> SUFFICES ASSUME Inv, [Next]_vars PROVE InFlow'
    OBVIOUS
<1>1. CASE PeerSend \/ PeerClose \/ ReadSome \/ ReadEnd \/ ReadStop \/ ReaderStep
      BY <1>1, PeerSendIn, PeerCloseIn, ReadSomeIn, ReadEndIn, ReadStopIn, DecodeIn, DeliverIn,
         DeliverFailsIn DEF ReaderStep
<1>2. CASE SpawnReader \/ Recv \/ RecvEnd \/ DropRead \/ DropReadShutdown
      BY <1>2, SpawnReaderIn, RecvIn, RecvEndIn, DropReadIn, DropReadShutdownIn
<1>3. CASE \/ PeerRead \/ WriterStep \/ WriteStop \/ PublisherStep \/ PunchTimeout
           \/ AcceptLoopStops \/ OtherArrives \/ AcceptNext \/ ShutdownSignal \/ CloseAccept
           \/ DrainAccept \/ Send \/ CloneWriter \/ DropWriter \/ UNCHANGED vars
      BY <1>3, OtherIn
<1> QED
    BY <1>1, <1>2, <1>3 DEF Next

-----------------------------------------------------------------------------
(* The way of the outbound frames. *)

LEMMA OutFacts ==
  ASSUME Inv
  PROVE  /\ writer \in [pc : {"none", "select", "write", "done"}, hand : 0 .. MaxOut]
         /\ wire \in [frames : Seq(Nat), torn : BOOLEAN, unread : 0 .. SendBuffer]
         /\ out \in Seq(Nat) /\ sent \in Nat /\ Len(wire.frames) \in Nat /\ Len(out) \in Nat
         /\ Taken \in Nat /\ OutFlow
<1>1. /\ writer \in [pc : {"none", "select", "write", "done"}, hand : 0 .. MaxOut]
      /\ wire \in [frames : Seq(Nat), torn : BOOLEAN, unread : 0 .. SendBuffer]
      /\ out \in Seq(Nat) /\ sent \in 0 .. MaxOut /\ OutFlow
      BY DEF Inv, Types, OutTypes
<1>2. Len(wire.frames) \in Nat /\ Len(out) \in Nat /\ sent \in Nat
      BY <1>1, Sizes
<1>3. Taken \in Nat
      BY <1>2 DEF Taken
<1> QED
    BY <1>1, <1>2, <1>3

LEMMA PeerReadOut == ASSUME Inv, PeerRead PROVE OutFlow'
<1>1. /\ wire'.frames = wire.frames /\ wire'.torn = wire.torn
      /\ UNCHANGED <<peer, writer, out, sent, halves, hears, incoming>>
      BY OutFacts DEF PeerRead, inVars, pubVars
<1>2. Taken' = Taken
      BY <1>1 DEF Taken
<1> QED
    BY <1>1, <1>2, OutFacts DEF OutFlow, Signalled

LEMMA WriteTakeOut == ASSUME Inv, WriteTake PROVE OutFlow'
<1>1. /\ writer.pc = "select" /\ out # <<>> /\ out' = Tail(out)
      /\ UNCHANGED <<peer, sent, wire, halves, hears, incoming>>
      BY DEF WriteTake, inVars, pubVars
<1>2. /\ Run(out, Taken) /\ sent = Taken + Len(out) /\ Taken = Len(wire.frames)
      /\ ~wire.torn /\ Run(wire.frames, 0)
      BY <1>1, OutFacts DEF OutFlow, Taken
<1>3. /\ Head(out) = Taken + 1 /\ Run(Tail(out), Taken + 1)
      /\ Len(Tail(out)) = Len(out) - 1 /\ Len(out) \in Nat \ {0}
      BY <1>1, <1>2, OutFacts, RunTail
<1>4. CASE Head(out) \in TooLargeOut
  <2>1. writer'.pc = "done"
        BY <1>4, OutFacts DEF WriteTake
  <2>2. Head(out) \in 1 .. sent
        BY <1>2, <1>3, OutFacts
  <2>3. TooLargeOut \cap 1 .. sent' # {}
        BY <1>1, <1>4, <2>2
  <2> QED
      BY <1>1, <1>2, <2>1, <2>3 DEF OutFlow
<1>5. CASE Head(out) \notin TooLargeOut
  <2>1. writer'.pc = "write" /\ writer'.hand = Head(out)
        BY <1>5 DEF WriteTake
  <2>2. Taken' = Taken + 1
        BY <1>1, <1>2, <2>1 DEF Taken
  <2>3. sent' = Taken' + Len(out')
        BY <1>1, <1>2, <1>3, <2>2, OutFacts
  <2> QED
      BY <1>1, <1>2, <1>3, <2>1, <2>2, <2>3 DEF OutFlow
<1> QED
    BY <1>4, <1>5

LEMMA WriteHeadOut == ASSUME Inv, WriteHead PROVE OutFlow'
<1>1. /\ writer.pc = "write" /\ wire'.frames = wire.frames
      /\ UNCHANGED <<peer, writer, out, sent, halves, hears, incoming>>
      BY OutFacts DEF WriteHead, inVars, pubVars
<1>2. Taken' = Taken
      BY <1>1 DEF Taken
<1> QED
    BY <1>1, <1>2, OutFacts DEF OutFlow

LEMMA WriteBodyOut == ASSUME Inv, WriteBody PROVE OutFlow'
<1>1. /\ writer.pc = "write" /\ wire'.frames = Append(wire.frames, writer.hand)
      /\ wire'.torn = FALSE /\ writer'.pc = "select"
      /\ UNCHANGED <<out, sent, halves, hears, incoming>>
      BY DEF WriteBody, pubVars
<1>2. /\ Run(wire.frames, 0) /\ Run(out, Taken) /\ sent = Taken + Len(out)
      /\ writer.hand = Taken /\ Taken = Len(wire.frames) + 1
      BY <1>1, OutFacts DEF OutFlow, Taken
<1>3. Run(wire'.frames, 0) /\ Len(wire'.frames) = Len(wire.frames) + 1
  <2> DEFINE f == wire.frames
             h == writer.hand
  <2>1. Run(f, 0) /\ h = 0 + Len(f) + 1
        BY <1>2, OutFacts
  <2> HIDE DEF f, h
  <2>2. Run(Append(f, h), 0) /\ Len(Append(f, h)) = Len(f) + 1
        BY <2>1, RunAppend
  <2> QED
      BY <1>1, <2>2 DEF f, h
<1>4. Taken' = Taken
      BY <1>1, <1>2, <1>3 DEF Taken
<1> QED
    BY <1>1, <1>2, <1>3, <1>4 DEF OutFlow

LEMMA WriteEndsOut == ASSUME Inv, WriteFails \/ WriteStop \/ WriteEnd PROVE OutFlow'
<1>1. writer'.pc = "done" /\ UNCHANGED <<peer, out, sent, wire, halves, hears, incoming>>
      BY DEF WriteFails, WriteStop, WriteEnd, inVars, pubVars
<1>2. CASE WriteFails
      BY <1>1, <1>2, OutFacts DEF OutFlow, WriteFails
<1>3. CASE WriteStop
      BY <1>1, <1>3, OutFacts DEF OutFlow, WriteStop, Signalled
<1>4. CASE WriteEnd
  <2>1. writer.pc = "select" /\ halves.writers = 0 /\ out = <<>>
        BY <1>4 DEF WriteEnd
  <2>2. sent = Taken + Len(out) /\ Taken = Len(wire.frames) /\ ~wire.torn /\ Run(wire.frames, 0)
        BY <2>1, OutFacts DEF OutFlow, Taken
  <2>3. Len(wire.frames) = sent
        BY <2>1, <2>2, OutFacts
  <2> QED
      BY <1>1, <2>1, <2>2, <2>3 DEF OutFlow
<1> QED
    BY <1>2, <1>3, <1>4

LEMMA SendsOut == ASSUME Inv, Send \/ SendInitial PROVE OutFlow'
<1>1. CASE UNCHANGED outVars
  <2>1. UNCHANGED <<peer, halves, hears, incoming>>
        BY DEF Send, SendInitial, inVars, pubVars
  <2> QED
      BY <1>1, <2>1, OutFacts, OutFrame DEF Signalled
<1>2. CASE ~UNCHANGED outVars
  <2>1. /\ out' = Append(out, sent + 1) /\ sent' = sent + 1 /\ writer.pc # "done"
        /\ UNCHANGED <<peer, writer, wire, halves, hears, incoming>>
        BY <1>2 DEF Send, SendInitial, inVars, outVars, pubVars
  <2>2. Run(out, Taken) /\ sent = Taken + Len(out)
        BY <2>1, OutFacts DEF OutFlow
  <2>3. Taken' = Taken
        BY <2>1 DEF Taken
  <2>4. Run(out', Taken) /\ Len(out') = Len(out) + 1
    <3>1. sent + 1 = Taken + Len(out) + 1
          BY <2>2
    <3> QED
        BY <2>1, <2>2, <3>1, OutFacts, RunAppend
  <2>5. sent' = Taken' + Len(out')
        BY <2>1, <2>2, <2>3, <2>4, OutFacts
  <2> QED
      BY <2>1, <2>3, <2>4, <2>5, OutFacts DEF OutFlow
<1> QED
    BY <1>1, <1>2

LEMMA SpawnWriterOut == ASSUME Inv, SpawnWriter PROVE OutFlow'
<1>1. writer'.pc = "select" /\ UNCHANGED <<out, sent, wire>> /\ publisher.pc = "split"
      BY OutFacts DEF SpawnWriter
<1>2. writer.pc = "none"
      BY <1>1 DEF Inv, Order
<1>3. Taken' = Taken /\ ~wire.torn
      BY <1>1, <1>2, OutFacts DEF Taken, OutFlow
<1> QED
    BY <1>1, <1>2, <1>3, OutFacts DEF OutFlow

\* The other steps: writers may come and go, but none comes back.
LEMMA OtherOut ==
  ASSUME Inv,
         \/ PeerSend \/ PeerClose \/ ReadSome \/ ReadEnd \/ ReadStop \/ ReaderStep
         \/ Publish \/ PublishFails \/ PunchTimeout \/ AcceptLoopStops \/ OtherArrives
         \/ AcceptNext \/ ShutdownSignal \/ CloseAccept \/ DrainAccept \/ Recv \/ RecvEnd
         \/ CloneWriter \/ DropRead \/ DropReadShutdown \/ DropWriter \/ UNCHANGED vars
  PROVE  OutFlow'
<1>1. UNCHANGED outVars
      BY DEF vars, outVars, PeerSend, PeerClose, ReadSome, ReadEnd, ReadStop, ReaderStep, Decode,
         Deliver, DeliverFails, Publish, PublishFails, PunchTimeout, AcceptLoopStops,
         OtherArrives, AcceptNext, ShutdownSignal, CloseAccept, DrainAccept, Recv, RecvEnd,
         CloneWriter, DropRead, DropReadShutdown, DropWriter
<1>2. peer.state = "reset" => peer'.state = "reset"
  <2>1. CASE PeerSend \/ PeerClose
        BY <2>1 DEF PeerSend, PeerClose
  <2>2. CASE ReadSome
        BY <2>2, InFacts DEF ReadSome
  <2>3. CASE ~(PeerSend \/ PeerClose \/ ReadSome)
    <3>1. UNCHANGED peer
          BY <2>3 DEF vars, inVars, ReadEnd, ReadStop, ReaderStep, Decode,
             Deliver, DeliverFails, Publish, PublishFails, PunchTimeout, AcceptLoopStops,
             OtherArrives, AcceptNext, ShutdownSignal, CloseAccept, DrainAccept, Recv, RecvEnd,
             CloneWriter, DropRead, DropReadShutdown, DropWriter
    <3> QED
        BY <3>1
  <2> QED
      BY <2>1, <2>2, <2>3
<1>3. halves.writers = 0 => halves'.writers = 0
  <2>1. CASE CloneWriter \/ DropWriter
        BY <2>1 DEF CloneWriter, DropWriter, Inv, Types, HalfTypes
  <2>2. CASE DropRead \/ DropReadShutdown
        BY <2>2 DEF DropRead, DropReadShutdown, Inv, Types, HalfTypes
  <2>3. CASE ~(CloneWriter \/ DropWriter \/ DropRead \/ DropReadShutdown)
    <3>1. UNCHANGED halves
          BY <2>3 DEF vars, PeerSend, PeerClose, ReadSome, ReadEnd, ReadStop, ReaderStep, Decode,
             Deliver, DeliverFails, Publish, PublishFails, PunchTimeout, AcceptLoopStops,
             OtherArrives, AcceptNext, ShutdownSignal, CloseAccept, DrainAccept, Recv, RecvEnd
    <3> QED
        BY <3>1
  <2> QED
      BY <2>1, <2>2, <2>3
<1>4. Signalled("writer") => Signalled("writer")'
  <2>1. UNCHANGED hears /\ (incoming # "open" => incoming' # "open")
        BY DEF vars, pubVars, PeerSend, PeerClose, ReadSome, ReadEnd, ReadStop, ReaderStep,
           Decode, Deliver, DeliverFails, Publish, PublishFails, PunchTimeout, AcceptLoopStops,
           OtherArrives, AcceptNext, ShutdownSignal, CloseAccept, DrainAccept, Recv, RecvEnd,
           CloneWriter, DropRead, DropReadShutdown, DropWriter
  <2> QED
      BY <2>1 DEF Signalled
<1> QED
    BY <1>1, <1>2, <1>3, <1>4, OutFacts, OutFrame

LEMMA SpawnReaderOut == ASSUME Inv, SpawnReader PROVE OutFlow'
<1>1. UNCHANGED <<writer, out, sent, wire, peer>> /\ writer.pc = "none"
      BY DEF SpawnReader, outVars, Inv, Order
<1>2. Taken' = Taken
      BY <1>1 DEF Taken
<1> QED
    BY <1>1, <1>2, OutFacts DEF OutFlow

LEMMA OutFlowKept == Inv /\ [Next]_vars => OutFlow'
<1> SUFFICES ASSUME Inv, [Next]_vars PROVE OutFlow'
    OBVIOUS
<1>1. CASE PeerRead \/ WriterStep \/ WriteStop
      BY <1>1, PeerReadOut, WriteTakeOut, WriteHeadOut, WriteBodyOut, WriteEndsOut DEF WriterStep
<1>2. CASE Send \/ SendInitial \/ SpawnWriter \/ SpawnReader
      BY <1>2, SendsOut, SpawnWriterOut, SpawnReaderOut
<1>3. CASE \/ PeerSend \/ PeerClose \/ ReadSome \/ ReadEnd \/ ReadStop \/ ReaderStep
           \/ Publish \/ PublishFails \/ PunchTimeout \/ AcceptLoopStops \/ OtherArrives
           \/ AcceptNext \/ ShutdownSignal \/ CloseAccept \/ DrainAccept \/ Recv \/ RecvEnd
           \/ CloneWriter \/ DropRead \/ DropReadShutdown \/ DropWriter \/ UNCHANGED vars
      BY <1>3, OtherOut
<1> QED
    BY <1>1, <1>2, <1>3 DEF Next, PublisherStep

-----------------------------------------------------------------------------
(* What holds in every state. *)

\* The inductive invariant: the numbers of the frames that the read half got,
\* those in its channel, the one the read task holds and those whose units are
\* in its buffer and in the network follow one another, and so do those on the
\* wire, in the hand of the write task and in its channel.
THEOREM TcpInvariant == Spec => []Inv
<1>1. Inv /\ [Next]_vars => Inv'
      BY TypesKept, OrderKept, InFlowKept, OutFlowKept DEF Inv
<1> QED
    BY InitInv, <1>1, PTL DEF Spec

\* TypeOK, the capacity of both channels, of the accept queue and of the
\* kernel's buffer included.
THEOREM TcpTypes == Spec => []TypeOK
<1>1. ASSUME Inv PROVE TypeOK
  <2>1. peer.sent \in 0 .. MaxIn /\ peer.state \in {"open", "eof", "reset"}
        BY <1>1 DEF Inv, Types, InTypes
  <2>2. /\ reader.pc \in {"none", "select", "decode", "send", "done"}
        /\ reader.hand \in 0 .. MaxIn
        BY <1>1 DEF Inv, Types, InTypes, ReaderType
  <2>3. wire.torn \in BOOLEAN /\ wire.unread \in 0 .. SendBuffer
        BY <1>1 DEF Inv, Types, OutTypes
  <2> QED
      BY <1>1, <2>1, <2>2, <2>3 DEF Inv, Types, InTypes, OutTypes, HalfTypes, PubTypes, TypeOK
<1> QED
    BY <1>1, TcpInvariant, PTL

\* What the read half returned, what is in its channel and what the read task
\* holds are the frames 1, 2, ...
LEMMA InboundRun ==
  ASSUME Inv
  PROVE  /\ Run(Inbound, 0)
         /\ Len(Inbound) = IF reader.pc = "send" /\ halves.read = "held"
                           THEN Arrived + 1 ELSE Arrived
<1> DEFINE g == app.got \o data
<1>1. Run(g, 0) /\ Len(g) = Arrived /\ Len(g) \in Nat
  <2>1. Run(app.got, 0) /\ Run(data, 0 + Len(app.got))
        BY InFacts DEF InFlow
  <2>2. Run(g, 0) /\ Len(g) = Len(app.got) + Len(data)
        BY <2>1, RunConcat
  <2> QED
      BY <2>2, InFacts DEF Arrived
<1> HIDE DEF g
<1>2. CASE reader.pc = "send" /\ halves.read = "held"
  <2>1. Inbound = g \o <<reader.hand>>
        BY <1>2 DEF Inbound, g
  <2>2. reader.hand = Arrived + 1 /\ reader.hand \in Nat
        BY <1>2, InFacts DEF InFlow, Split
  <2>3. Run(<<reader.hand>>, 0 + Len(g)) /\ Len(<<reader.hand>>) = 1
        BY <1>1, <2>2, RunOne
  <2> DEFINE h == <<reader.hand>>
  <2> HIDE DEF h
  <2>4. Run(h, 0 + Len(g)) /\ Len(h) = 1
        BY <2>3 DEF h
  <2>5. Run(g \o h, 0) /\ Len(g \o h) = Len(g) + Len(h)
        BY <1>1, <2>4, RunConcat
  <2> QED
      BY <1>1, <1>2, <2>1, <2>4, <2>5 DEF h
<1>3. CASE ~(reader.pc = "send" /\ halves.read = "held")
  <2>1. Inbound = g \o <<>>
        BY <1>3 DEF Inbound, g
  <2>2. g \o <<>> = g
        BY <1>1 DEF Run
  <2> QED
      BY <1>1, <1>3, <2>1, <2>2
<1> QED
    BY <1>2, <1>3

\* InOrder: in whatever pieces the stream arrives and however long the channel
\* stays full, the read half gets the peer's frames in order, none lost or
\* repeated, and what it has not got yet is still to come.
THEOREM TcpInOrder == Spec => []InOrder
<1>1. ASSUME Inv PROVE InOrder
  <2>1. Run(Inbound, 0)
        BY <1>1, InboundRun
  <2>2. Inbound = Upto(Len(Inbound))
        BY <2>1, RunUpto
  <2>3. ASSUME reader.pc # "done", halves.read \in {"none", "held"}
        PROVE  Inbound \o Frames(reader.buf \o peer.net) = Upto(peer.sent)
    <3> DEFINE f == Frames(reader.buf \o peer.net)
    <3>1. PICK m \in 0 .. peer.sent : Split(m)
          BY <1>1, InFacts DEF InFlow
    <3>2. m \in Nat /\ peer.sent \in Nat /\ m <= peer.sent
          BY <1>1, InFacts
    <3>3. m = Len(Inbound)
      <4>1. reader.pc = "send" => halves.read = "held"
            BY <1>1, <2>3, InFacts DEF InFlow
      <4> QED
          BY <1>1, <2>3, <3>1, <4>1, InboundRun DEF Split
    <3>4. Stream(reader.buf \o peer.net, m, peer.sent)
          BY <3>1 DEF Split
    <3>5. Run(f, m) /\ Len(f) = peer.sent - m
      <4> DEFINE s == reader.buf \o peer.net
      <4> HIDE DEF s
      <4>1. Run(Frames(s), m) /\ Len(Frames(s)) = peer.sent - m
            BY <3>2, <3>4, StreamFrames DEF s
      <4> QED
          BY <4>1 DEF s
    <3> HIDE DEF f
    <3>6. Run(f, 0 + Len(Inbound))
          BY <3>2, <3>3, <3>5
    <3>7. Run(Inbound \o f, 0) /\ Len(Inbound \o f) = Len(Inbound) + Len(f)
          BY <2>1, <3>6, RunConcat
    <3>8. Len(Inbound \o f) = peer.sent
          BY <3>2, <3>3, <3>5, <3>7
    <3> QED
        BY <3>7, <3>8, RunUpto DEF f
  <2> QED
      BY <2>2, <2>3 DEF InOrder
<1> QED
    BY <1>1, TcpInvariant, PTL

\* EndMeansAll: after an orderly close recv returns None only when every frame
\* of the peer has been returned.
THEOREM TcpEndMeansAll == Spec => []EndMeansAll
<1>1. ASSUME Inv PROVE EndMeansAll
  <2> SUFFICES ASSUME app.ended, peer.state = "eof", ~Signalled("reader"),
                      TooLargeIn \cap 1 .. peer.sent = {}
               PROVE  app.got = Upto(peer.sent)
      BY DEF EndMeansAll
  <2>1. ~CutShort
        BY DEF CutShort
  <2>2. data = <<>> /\ Arrived = peer.sent /\ Run(app.got, 0)
        BY <1>1, <2>1, InFacts DEF InFlow
  <2>3. Len(app.got) = peer.sent
        BY <1>1, <2>2, InFacts DEF Arrived
  <2> QED
      BY <2>2, <2>3, RunUpto
<1> QED
    BY <1>1, TcpInvariant, PTL

\* WholeFrames: a write task that has ended has not left half a frame behind,
\* unless the connection broke.
THEOREM TcpWholeFrames == Spec => []WholeFrames
<1>1. ASSUME Inv PROVE WholeFrames
      BY <1>1, OutFacts DEF OutFlow, WholeFrames
<1> QED
    BY <1>1, TcpInvariant, PTL

\* Flushed: the frames reach the wire in the order in which they were accepted,
\* and a write task that ends because every half is gone has written them all.
THEOREM TcpFlushed == Spec => []Flushed
<1>1. ASSUME Inv PROVE Flushed
  <2>1. Run(wire.frames, 0)
        BY <1>1, OutFacts DEF OutFlow
  <2>2. wire.frames = Upto(Len(wire.frames))
        BY <2>1, RunUpto
  <2>3. ASSUME writer.pc = "done", peer.state # "reset", ~Signalled("writer"),
               TooLargeOut \cap 1 .. sent = {}
        PROVE  halves.writers = 0 /\ wire.frames = Upto(sent)
    <3>1. halves.writers = 0 /\ Len(wire.frames) = sent
          BY <1>1, <2>3, OutFacts DEF OutFlow
    <3> QED
        BY <2>2, <3>1
  <2> QED
      BY <2>2, <2>3 DEF Flushed
<1> QED
    BY <1>1, TcpInvariant, PTL
=============================================================================

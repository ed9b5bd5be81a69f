---------------------------- MODULE AdbBus_proofs ----------------------------
(***************************************************************************)
(* The ADB keeps the order of the host's input and its byte handshake with *)
(* any guest, whatever the bytes, the uses and the bounds.  An edge moves  *)
(* from the queue of its device through the frame to the byte that is      *)
(* shifted, and the byte shifted last may be shifted again: Line orders    *)
(* these three for one kind of edge.  Sound adds what the transceiver's    *)
(* flags promise of its frame and its byte; every member function keeps it.*)
(***************************************************************************)
EXTENDS AdbBus, SequenceTheorems, TLAPS

\* The byte shifted last, the frame and the queue hold edges of kind k in order,
\* none above n.
Line(last, frame, queue, k, n) ==
  /\ \A i, j \in 1 .. Len(frame) :
       i < j /\ Carries(frame[i], k) /\ Carries(frame[j], k) => frame[i].n < frame[j].n
  /\ \A i \in 1 .. Len(frame) : Carries(frame[i], k) => frame[i].n <= n
  /\ \A i, j \in 1 .. Len(queue) : i < j => queue[i] < queue[j]
  /\ \A j \in 1 .. Len(queue) : queue[j] <= n
  /\ \A i \in 1 .. Len(frame), j \in 1 .. Len(queue) : Carries(frame[i], k) => frame[i].n < queue[j]
  /\ Carries(last, k) =>
       /\ last.n <= n
       /\ \A i \in 1 .. Len(frame) : Carries(frame[i], k) => last.n < frame[i].n
       /\ \A j \in 1 .. Len(queue) : last.n < queue[j]

\* PB3 will be low only with a byte that ends a frame: the status of the transfer,
\* and the error a frame has to report, are with such bytes.
Flags(t) ==
  /\ t.transferStatus => t.controllerByte.kind \in {"command", "fill"}
  /\ t.irq /\ t.retrying => t.transferStatus
  /\ t.errorReportPending => \A i \in 1 .. Len(t.response) : t.response[i].kind = "fill"
  /\ t.transfer = "host" => t.commandPending

Sound(t, n) ==
  /\ t \in TransceiverType
  /\ Line(t.controllerByte, t.response, t.keyEvents, "key", n)
  /\ Line(t.controllerByte, t.response, t.buttonEvents, "button", n)
  /\ Flags(t)

-----------------------------------------------------------------------------
(* Lines.                                                                   *)

LEMMA LineCleared ==
  ASSUME NEW last \in ByteType, NEW frame \in Seq(ByteType), NEW queue \in Seq(Nat),
         NEW k \in EdgeKinds, NEW n \in Nat, Line(last, frame, queue, k, n)
  PROVE  Line(last, << >>, queue, k, n) /\ Line(last, frame, << >>, k, n)
BY DEF Line

LEMMA LineEdgeless ==
  ASSUME NEW last \in ByteType, NEW frame \in Seq(ByteType), NEW queue \in Seq(Nat), NEW other,
         NEW k \in EdgeKinds, NEW n \in Nat, Line(last, frame, queue, k, n),
         other.kind \notin EdgeKinds
  PROVE  Line(other, frame, queue, k, n)
BY DEF Line, Carries

LEMMA LineNoFrame ==
  ASSUME NEW last \in ByteType, NEW frame \in Seq(ByteType), NEW queue \in Seq(Nat),
         NEW k \in EdgeKinds, NEW n \in Nat, Line(last, << >>, queue, k, n),
         \A i \in 1 .. Len(frame) : ~Carries(frame[i], k)
  PROVE  Line(last, frame, queue, k, n)
BY DEF Line

\* The head of the frame is the next byte to be shifted.
LEMMA LineTaken ==
  ASSUME NEW last \in ByteType, NEW frame \in Seq(ByteType), NEW queue \in Seq(Nat),
         NEW k \in EdgeKinds, NEW n \in Nat, Line(last, frame, queue, k, n), frame # << >>
  PROVE  Line(Head(frame), Tail(frame), queue, k, n)
<1>1. /\ Head(frame) = frame[1] /\ Len(frame) \in Nat /\ Len(frame) >= 1
      /\ Tail(frame) \in Seq(ByteType) /\ Len(Tail(frame)) = Len(frame) - 1
      /\ \A i \in 1 .. Len(Tail(frame)) : Tail(frame)[i] = frame[i + 1]
  OBVIOUS
<1>2. \A i \in 1 .. Len(Tail(frame)) : i + 1 \in 1 .. Len(frame) /\ 1 < i + 1 /\ 1 \in 1 .. Len(frame)
  BY <1>1
<1> QED BY <1>1, <1>2 DEF Line

\* The host adds an edge.
LEMMA LineAppended ==
  ASSUME NEW last \in ByteType, NEW frame \in Seq(ByteType), NEW queue \in Seq(Nat),
         NEW k \in EdgeKinds, NEW n \in Nat, Line(last, frame, queue, k, n)
  PROVE  /\ Line(last, frame, Append(queue, n + 1), k, n + 1)
         /\ Line(last, frame, queue, k, n + 1)
<1>1. /\ Len(Append(queue, n + 1)) = Len(queue) + 1 /\ Len(queue) \in Nat
      /\ \A j \in 1 .. Len(queue) : Append(queue, n + 1)[j] = queue[j] /\ queue[j] \in Nat
      /\ Append(queue, n + 1)[Len(queue) + 1] = n + 1
  OBVIOUS
<1>2. \A i \in 1 .. Len(frame) : frame[i].n \in Nat
  <2>1. \A i \in 1 .. Len(frame) : frame[i] \in ByteType
    OBVIOUS
  <2> QED BY <2>1 DEF ByteType
<1>3. last.n \in Nat
  BY DEF ByteType
<1>4. Line(last, frame, queue, k, n + 1)
  BY <1>1, <1>2, <1>3 DEF Line
<1> DEFINE longer == Append(queue, n + 1)
<1>5. \A j \in 1 .. Len(longer) : j \in 1 .. Len(queue) \/ j = Len(queue) + 1
  BY <1>1
<1> HIDE DEF longer
<1>6. \A i, j \in 1 .. Len(longer) : i < j => longer[i] < longer[j]
  <2> SUFFICES ASSUME NEW i \in 1 .. Len(longer), NEW j \in 1 .. Len(longer), i < j
               PROVE  longer[i] < longer[j]
    OBVIOUS
  <2>1. i \in 1 .. Len(queue)
    BY <1>1, <1>5 DEF longer
  <2> QED BY <1>1, <1>5, <2>1 DEF Line, longer
<1>7. \A j \in 1 .. Len(longer) : longer[j] <= n + 1
  BY <1>1, <1>5 DEF Line, longer
<1>8. \A i \in 1 .. Len(frame), j \in 1 .. Len(longer) : Carries(frame[i], k) => frame[i].n < longer[j]
  BY <1>1, <1>2, <1>5 DEF Line, longer
<1>9. Carries(last, k) => \A j \in 1 .. Len(longer) : last.n < longer[j]
  BY <1>1, <1>3, <1>5 DEF Line, longer
<1> QED BY <1>4, <1>6, <1>7, <1>8, <1>9 DEF Line, longer

\* What the devices' answers leave alone.
Same(t, p) ==
  /\ p.state = t.state /\ p.command = t.command /\ p.transfer = t.transfer
  /\ p.commandPending = t.commandPending /\ p.controllerByte = t.controllerByte
  /\ p.transferStatus = t.transferStatus /\ p.irq = t.irq /\ p.retrying = t.retrying
  /\ p.hostByte = t.hostByte /\ p.delaying = t.delaying

\* No queued edge is lost.
Keeps(t, p) ==
  \A k \in EdgeKinds : Elements(Queue(t, k)) \subseteq Elements(Queue(p, k)) \cup InFrame(p, k)

Cleared(t) == [t EXCEPT !.response = << >>, !.errorReportPending = FALSE]

-----------------------------------------------------------------------------
(* The devices' answers.                                                    *)

LEMMA Fields ==
  ASSUME NEW t \in TransceiverType
  PROVE  /\ t.command \in 0 .. 255 /\ t.response \in Seq(ByteType) /\ t.controllerByte \in ByteType
         /\ t.keyEvents \in Seq(1 .. MaxEdges) /\ t.buttonEvents \in Seq(1 .. MaxEdges)
         /\ t.keyEvents \in Seq(Nat) /\ t.buttonEvents \in Seq(Nat)
         /\ t.motion \in 0 .. MaxMotion /\ t.keyboardAddress \in 0 .. 15 /\ t.mouseAddress \in 0 .. 15
<1>1. /\ t.command \in Bytes \cup {0} /\ t.response \in Seq(ByteType) /\ t.controllerByte \in ByteType
      /\ t.keyEvents \in Seq(1 .. MaxEdges) /\ t.buttonEvents \in Seq(1 .. MaxEdges)
      /\ t.motion \in 0 .. MaxMotion /\ t.keyboardAddress \in 0 .. 15 /\ t.mouseAddress \in 0 .. 15
  BY DEF TransceiverType
<1>2. t.command \in 0 .. 255
  <2>1. \A b \in Bytes \cup {0} : b \in 0 .. 255
    BY AdbAssumption
  <2> QED BY <1>1, <2>1
<1>3. \A q \in Seq(1 .. MaxEdges) : q \in Seq(Nat)
  BY AdbAssumption
<1> QED BY <1>1, <1>2, <1>3

LEMMA CommandFields ==
  ASSUME NEW b \in 0 .. 255
  PROVE  Address(b) \in 0 .. 15 /\ Operation(b) \in 0 .. 3 /\ Register(b) \in 0 .. 3
BY DEF Address, Operation, Register

\* What is left of a sequence after its first elements.
LEMMA RestOfSeq ==
  ASSUME NEW S, NEW q \in Seq(S), NEW m \in Nat, m <= Len(q)
  PROVE  /\ SubSeq(q, m + 1, Len(q)) \in Seq(S)
         /\ Len(SubSeq(q, m + 1, Len(q))) = Len(q) - m
         /\ \A j \in 1 .. Len(q) - m : SubSeq(q, m + 1, Len(q))[j] = q[m + j]
<1> DEFINE rest == SubSeq(q, m + 1, Len(q))
<1>1. Len(q) \in Nat /\ m + 1 \in Int /\ Len(q) \in Int
  OBVIOUS
<1>2. \A i \in m + 1 .. Len(q) : q[i] \in S
  BY <1>1, ElementOfSeq
<1>3. /\ rest \in Seq(S)
      /\ Len(rest) = IF m + 1 <= Len(q) THEN Len(q) - (m + 1) + 1 ELSE 0
      /\ \A j \in 1 .. Len(q) - (m + 1) + 1 : rest[j] = q[m + 1 + j - 1]
  <2> DEFINE from == m + 1
             to == Len(q)
  <2>1. from \in Int /\ to \in Int /\ \A i \in from .. to : q[i] \in S
    BY <1>1, <1>2
  <2> HIDE DEF from, to
  <2>2. /\ SubSeq(q, from, to) \in Seq(S)
        /\ Len(SubSeq(q, from, to)) = IF from <= to THEN to - from + 1 ELSE 0
        /\ \A j \in 1 .. to - from + 1 : SubSeq(q, from, to)[j] = q[from + j - 1]
    BY <2>1, SubSeqProperties
  <2> QED BY <2>2, Zenon DEF from, to
<1> HIDE DEF rest
<1>4. Len(q) - (m + 1) + 1 = Len(q) - m /\ (~(m + 1 <= Len(q)) => Len(q) - m = 0)
  BY <1>1
<1>5. \A j \in 1 .. Len(q) - m : m + 1 + j - 1 = m + j
  BY <1>1
<1>6. Len(rest) = Len(q) - m
  BY <1>3, <1>4
<1>7. \A j \in 1 .. Len(q) - m : rest[j] = q[m + j]
  BY <1>3, <1>4, <1>5
<1> QED BY <1>3, <1>6, <1>7 DEF rest

\* Up to two transitions leave the queue for the frame.
LEMMA KeyboardLine ==
  ASSUME NEW last \in ByteType, NEW queue \in Seq(1 .. MaxEdges), NEW n \in Nat,
         Line(last, << >>, queue, "key", n),
         NEW m \in Nat, m = IF Len(queue) < 2 THEN Len(queue) ELSE 2,
         NEW a \in ByteType, a = IF 1 <= m THEN Byte("key", queue[1]) ELSE Fill,
         NEW b \in ByteType, b = IF 2 <= m THEN Byte("key", queue[2]) ELSE Fill
  PROVE  /\ SubSeq(queue, m + 1, Len(queue)) \in Seq(1 .. MaxEdges)
         /\ Line(last, << a, b >>, SubSeq(queue, m + 1, Len(queue)), "key", n)
         /\ \A j \in 1 .. Len(queue) :
              \/ queue[j] \in Elements(SubSeq(queue, m + 1, Len(queue)))
              \/ \E i \in 1 .. 2 : Carries(<< a, b >>[i], "key") /\ << a, b >>[i].n = queue[j]
<1> DEFINE rest == SubSeq(queue, m + 1, Len(queue))
           frame == << a, b >>
<1>1. Len(queue) \in Nat /\ m <= Len(queue) /\ m <= 2 /\ (m < 2 => m = Len(queue))
  OBVIOUS
<1>2. \A j \in 1 .. Len(queue) : queue[j] \in Nat /\ queue[j] # 0
  BY AdbAssumption
<1>3. /\ rest \in Seq(1 .. MaxEdges) /\ Len(rest) = Len(queue) - m
      /\ \A j \in 1 .. Len(rest) : rest[j] = queue[m + j] /\ m + j \in 1 .. Len(queue)
  <2> HIDE DEF rest
  <2>1. rest \in Seq(1 .. MaxEdges) /\ Len(rest) = Len(queue) - m
        /\ \A j \in 1 .. Len(queue) - m : rest[j] = queue[m + j]
    BY ZenonT(60), <1>1, RestOfSeq DEF rest
  <2>2. \A j \in 1 .. Len(queue) - m : m + j \in 1 .. Len(queue)
    BY <1>1
  <2> QED BY <2>1, <2>2
<1>4. /\ Len(frame) = 2 /\ frame[1] = a /\ frame[2] = b
      /\ Carries(a, "key") => m >= 1 /\ a.n = queue[1]
      /\ Carries(b, "key") => m >= 2 /\ b.n = queue[2]
      /\ m >= 1 => Carries(a, "key") /\ a.n = queue[1]
      /\ m >= 2 => Carries(b, "key") /\ b.n = queue[2]
  BY <1>1, <1>2 DEF Byte, Fill, Carries
<1> HIDE DEF frame, rest
<1>5. /\ m >= 1 => 1 \in 1 .. Len(queue)
      /\ m >= 2 => 2 \in 1 .. Len(queue)
      /\ \A i \in 1 .. 2 : i = 1 \/ i = 2
  BY <1>1
<1>6. Line(last, frame, rest, "key", n)
  <2>1. \A i, j \in 1 .. Len(frame) :
          i < j /\ Carries(frame[i], "key") /\ Carries(frame[j], "key") => frame[i].n < frame[j].n
    BY <1>4, <1>5 DEF Line
  <2>2. \A i \in 1 .. Len(frame) : Carries(frame[i], "key") => frame[i].n <= n
    BY <1>4, <1>5 DEF Line
  <2>3. \A i, j \in 1 .. Len(rest) : i < j => rest[i] < rest[j]
    BY SMTT(30), <1>1, <1>3 DEF Line
  <2>4. \A j \in 1 .. Len(rest) : rest[j] <= n
    BY <1>3 DEF Line
  <2>5. \A i \in 1 .. Len(frame), j \in 1 .. Len(rest) : Carries(frame[i], "key") => frame[i].n < rest[j]
    BY <1>1, <1>3, <1>4, <1>5 DEF Line
  <2>6. Carries(last, "key") =>
          /\ last.n <= n
          /\ \A i \in 1 .. Len(frame) : Carries(frame[i], "key") => last.n < frame[i].n
          /\ \A j \in 1 .. Len(rest) : last.n < rest[j]
    BY <1>3, <1>4, <1>5 DEF Line
  <2> QED BY <2>1, <2>2, <2>3, <2>4, <2>5, <2>6 DEF Line
<1>7. ASSUME NEW j \in 1 .. Len(queue)
      PROVE  \/ queue[j] \in Elements(rest)
             \/ \E i \in 1 .. 2 : Carries(frame[i], "key") /\ frame[i].n = queue[j]
  <2>1. CASE j <= m
    BY <1>1, <1>4, <2>1
  <2>2. CASE j > m
    <3>1. j - m \in 1 .. Len(rest) /\ rest[j - m] = queue[j]
      BY <1>1, <1>3, <2>2
    <3> QED BY <3>1 DEF Elements
  <2> QED BY <1>1, <2>1, <2>2
<1> QED BY <1>3, <1>6, <1>7 DEF frame, rest

\* One edge leaves the queue for the frame.
LEMMA MouseLine ==
  ASSUME NEW last \in ByteType, NEW queue \in Seq(1 .. MaxEdges), NEW n \in Nat,
         Line(last, << >>, queue, "button", n),
         NEW b \in ByteType, b.kind = "motion",
         NEW a \in ByteType, a.kind = "button", NEW rest \in Seq(1 .. MaxEdges),
         queue = << >> => a.n = 0 /\ rest = << >>,
         queue # << >> => a.n = Head(queue) /\ rest = Tail(queue)
  PROVE  /\ Line(last, << a, b >>, rest, "button", n)
         /\ \A j \in 1 .. Len(queue) :
              \/ queue[j] \in Elements(rest)
              \/ Carries(a, "button") /\ a.n = queue[j]
<1> DEFINE frame == << a, b >>
<1>1. Len(frame) = 2 /\ frame[1] = a /\ frame[2] = b /\ ~Carries(b, "button")
  BY DEF Carries
<1> HIDE DEF frame
<1>2. \A i \in 1 .. Len(frame) : Carries(frame[i], "button") => i = 1 /\ frame[i] = a
  BY <1>1
<1>3. CASE queue = << >>
  <2>1. ~Carries(a, "button") /\ rest = << >>
    BY <1>3 DEF Carries
  <2> QED BY <1>2, <1>3, <2>1 DEF Line, frame
<1>4. CASE queue # << >>
  <2>1. /\ rest \in Seq(1 .. MaxEdges) /\ Len(rest) = Len(queue) - 1 /\ Len(queue) \in Nat
        /\ \A j \in 1 .. Len(rest) : rest[j] = queue[j + 1] /\ j + 1 \in 1 .. Len(queue)
        /\ 1 \in 1 .. Len(queue) /\ Head(queue) = queue[1] /\ queue[1] \in 1 .. MaxEdges
    <3>1. rest = Tail(queue)
      BY <1>4
    <3>2. /\ Tail(queue) \in Seq(1 .. MaxEdges) /\ Len(Tail(queue)) = Len(queue) - 1 /\ Len(queue) \in Nat
          /\ \A j \in 1 .. Len(Tail(queue)) : Tail(queue)[j] = queue[j + 1] /\ j + 1 \in 1 .. Len(queue)
          /\ 1 \in 1 .. Len(queue) /\ Head(queue) = queue[1]
      BY <1>4
    <3>3. queue[1] \in 1 .. MaxEdges
      BY <3>2, ElementOfSeq
    <3> QED BY <3>1, <3>2, <3>3
  <2>2. a.n = queue[1] /\ Carries(a, "button")
    BY <1>4, <2>1, AdbAssumption DEF Carries
  <2>3. \A i, j \in 1 .. Len(rest) : i < j => rest[i] < rest[j]
    BY <2>1 DEF Line
  <2>4. \A j \in 1 .. Len(rest) : rest[j] <= n /\ a.n < rest[j]
    <3>1. \A i \in 1 .. Len(queue) : queue[i] <= n /\ (1 < i => queue[1] < queue[i])
      BY <2>1 DEF Line
    <3>2. \A j \in 1 .. Len(rest) : 1 < j + 1
      BY <2>1
    <3> QED BY <2>1, <2>2, <3>1, <3>2
  <2>5. Carries(last, "button") => last.n <= n /\ last.n < a.n /\ \A j \in 1 .. Len(rest) : last.n < rest[j]
    BY <2>1, <2>2 DEF Line
  <2>6. a.n <= n
    BY <2>1, <2>2 DEF Line
  <2>7. Line(last, frame, rest, "button", n)
    <3>1. \A i, j \in 1 .. Len(frame) : ~(i < j /\ Carries(frame[i], "button") /\ Carries(frame[j], "button"))
      BY <1>1, <1>2
    <3>2. \A i \in 1 .. Len(frame) : Carries(frame[i], "button") => frame[i].n = a.n
      BY <1>2
    <3> QED BY <2>3, <2>4, <2>5, <2>6, <3>1, <3>2 DEF Line
  <2>8. ASSUME NEW j \in 1 .. Len(queue)
        PROVE  queue[j] \in Elements(rest) \/ (Carries(a, "button") /\ a.n = queue[j])
    <3>1. CASE j = 1
      BY <2>2, <3>1
    <3>2. CASE j # 1
      <4>1. j - 1 \in 1 .. Len(rest) /\ rest[j - 1] = queue[j]
        BY <2>1, <3>2
      <4> QED BY <4>1 DEF Elements
    <3> QED BY <3>1, <3>2
  <2> QED BY <2>1, <2>7, <2>8 DEF frame
<1> QED BY <1>3, <1>4

\* A frame without edges loses none.
LEMMA FrameWithoutEdges ==
  ASSUME NEW n \in Nat, NEW c, Sound(c, n), c.response = << >>, NEW frame \in Seq(ByteType),
         \A i \in 1 .. Len(frame) : frame[i].kind \notin EdgeKinds, NEW error \in BOOLEAN,
         error => \A i \in 1 .. Len(frame) : frame[i].kind = "fill",
         NEW p \in TransceiverType, Same(c, p), p.response = frame, p.errorReportPending = error,
         p.keyEvents = c.keyEvents, p.buttonEvents = c.buttonEvents
  PROVE  Sound(p, n) /\ Keeps(c, p)
<1>1. c \in TransceiverType /\ c.controllerByte \in ByteType
      /\ c.keyEvents \in Seq(Nat) /\ c.buttonEvents \in Seq(Nat)
  BY Fields DEF Sound
<1>2. \A i \in 1 .. Len(frame) : ~Carries(frame[i], "key") /\ ~Carries(frame[i], "button")
  BY DEF Carries, EdgeKinds
<1>3. /\ Line(c.controllerByte, frame, c.keyEvents, "key", n)
      /\ Line(c.controllerByte, frame, c.buttonEvents, "button", n)
  BY <1>1, <1>2, LineNoFrame DEF Sound, EdgeKinds
<1>4. Flags(p)
  BY DEF Sound, Flags, Same
<1>5. Keeps(c, p)
  BY DEF Keeps, Queue
<1> QED BY <1>3, <1>4, <1>5 DEF Sound, Same

LEMMA TalkKeyboardSound ==
  ASSUME NEW n \in Nat, NEW c, Sound(c, n), c.response = << >>, ~c.errorReportPending
  PROVE  LET p == TalkKeyboard(c) IN
           Sound(p, n) /\ Same(c, p) /\ Keeps(c, p) /\ ~p.errorReportPending
<1> DEFINE q == c.keyEvents
           m == IF Len(q) < 2 THEN Len(q) ELSE 2
           a == IF 1 <= m THEN Byte("key", q[1]) ELSE Fill
           b == IF 2 <= m THEN Byte("key", q[2]) ELSE Fill
           rest == SubSeq(q, m + 1, Len(q))
           p == [c EXCEPT !.response = << a, b >>, !.keyboardPolled = TRUE, !.keyEvents = rest]
<1>1. c \in TransceiverType /\ c.controllerByte \in ByteType /\ q \in Seq(1 .. MaxEdges)
      /\ c.buttonEvents \in Seq(Nat) /\ m \in Nat
  BY Fields DEF Sound
<1>2. TalkKeyboard(c) = c \/ TalkKeyboard(c) = p
  BY <1>1 DEF TalkKeyboard
<1>3. a \in ByteType /\ b \in ByteType /\ a.kind \in {"key", "fill"} /\ b.kind \in {"key", "fill"}
  <2>1. \A i \in 1 .. Len(q) : q[i] \in Nat
    BY <1>1, AdbAssumption
  <2>2. m <= Len(q) /\ Len(q) \in Nat
    BY <1>1
  <2>3. (1 <= m => q[1] \in Nat) /\ (2 <= m => q[2] \in Nat)
    BY <2>1, <2>2
  <2> HIDE DEF m, q
  <2> QED BY <2>3 DEF Byte, Fill, ByteType
<1>4. Line(c.controllerByte, << >>, q, "key", n) /\ Line(c.controllerByte, << >>, c.buttonEvents, "button", n)
  BY DEF Sound
<1>5. /\ rest \in Seq(1 .. MaxEdges)
      /\ Line(c.controllerByte, << a, b >>, rest, "key", n)
      /\ \A j \in 1 .. Len(q) :
           \/ q[j] \in Elements(rest)
           \/ \E i \in 1 .. 2 : Carries(<< a, b >>[i], "key") /\ << a, b >>[i].n = q[j]
  <2>1. m = (IF Len(q) < 2 THEN Len(q) ELSE 2) /\ a = (IF 1 <= m THEN Byte("key", q[1]) ELSE Fill)
        /\ b = (IF 2 <= m THEN Byte("key", q[2]) ELSE Fill)
    OBVIOUS
  <2> HIDE DEF m, a, b, q
  <2> QED BY <1>1, <1>3, <1>4, <2>1, KeyboardLine
<1> HIDE DEF a, b, rest, m
<1>6. << a, b >> \in Seq(ByteType) /\ Len(<< a, b >>) = 2
      /\ \A i \in 1 .. 2 : ~Carries(<< a, b >>[i], "button")
  BY <1>3 DEF Carries
<1>7. Line(c.controllerByte, << a, b >>, c.buttonEvents, "button", n)
  BY <1>1, <1>4, <1>6, LineNoFrame DEF EdgeKinds
<1>8. p \in TransceiverType /\ Same(c, p)
  BY <1>1, <1>5, <1>6 DEF TransceiverType, Same
<1>9. /\ p.controllerByte = c.controllerByte /\ p.response = << a, b >> /\ p.keyEvents = rest
      /\ p.buttonEvents = c.buttonEvents /\ p.errorReportPending = c.errorReportPending
  BY <1>1 DEF TransceiverType
<1>10. Flags(p)
  BY <1>8, <1>9 DEF Sound, Flags, Same
<1> HIDE DEF p
<1>11. Sound(p, n)
  BY <1>5, <1>7, <1>8, <1>9, <1>10 DEF Sound
<1>12. Keeps(c, p)
  <2>1. ASSUME NEW x \in Elements(q)
        PROVE  x \in Elements(rest) \/ x \in InFrame(p, "key")
    <3> DEFINE frame == << a, b >>
    <3>1. PICK j \in 1 .. Len(q) : x = q[j]
      BY <2>1 DEF Elements
    <3>2. CASE q[j] \in Elements(rest)
      BY <3>1, <3>2
    <3>3. CASE \E i \in 1 .. 2 : Carries(frame[i], "key") /\ frame[i].n = q[j]
      <4>1. p.response = frame /\ Len(frame) = 2
        BY <1>6, <1>9
      <4> HIDE DEF frame
      <4> QED BY <3>1, <3>3, <4>1 DEF InFrame
    <3> QED BY <1>5, <3>2, <3>3
  <2> QED BY <1>9, <2>1 DEF Keeps, Queue, EdgeKinds
<1>13. Same(c, c) /\ Keeps(c, c)
  BY DEF Same, Keeps
<1> QED BY <1>2, <1>8, <1>9, <1>11, <1>12, <1>13

LEMMA TalkMouseSound ==
  ASSUME NEW n \in Nat, NEW c, Sound(c, n), c.response = << >>, ~c.errorReportPending
  PROVE  LET p == TalkMouse(c) IN
           Sound(p, n) /\ Same(c, p) /\ Keeps(c, p) /\ ~p.errorReportPending
<1> DEFINE q == c.buttonEvents
           a == Byte("button", IF q = << >> THEN 0 ELSE Head(q))
           b == Byte("motion", IF c.motion = 0 THEN 0 ELSE 1)
           rest == IF q = << >> THEN q ELSE Tail(q)
           p == [c EXCEPT !.response = << a, b >>, !.mousePolled = TRUE,
                          !.motion = IF c.motion = 0 THEN 0 ELSE c.motion - 1, !.buttonEvents = rest]
<1>1. c \in TransceiverType /\ c.controllerByte \in ByteType /\ q \in Seq(1 .. MaxEdges)
      /\ c.keyEvents \in Seq(Nat) /\ c.motion \in 0 .. MaxMotion
  BY Fields DEF Sound
<1>2. TalkMouse(c) = c \/ TalkMouse(c) = p
  BY <1>1 DEF TalkMouse
<1>3. a \in ByteType /\ b \in ByteType /\ a.kind = "button" /\ b.kind = "motion"
  <2>1. (IF q = << >> THEN 0 ELSE Head(q)) \in Nat
    BY <1>1, AdbAssumption
  <2> QED BY <2>1 DEF Byte, ByteType
<1>4. Line(c.controllerByte, << >>, q, "button", n) /\ Line(c.controllerByte, << >>, c.keyEvents, "key", n)
  BY DEF Sound
<1>5. /\ rest \in Seq(1 .. MaxEdges)
      /\ Line(c.controllerByte, << a, b >>, rest, "button", n)
      /\ \A j \in 1 .. Len(q) : q[j] \in Elements(rest) \/ (Carries(a, "button") /\ a.n = q[j])
  <2>1. /\ q = << >> => a.n = 0 /\ rest = << >>
        /\ q # << >> => a.n = Head(q) /\ rest = Tail(q)
    BY DEF Byte
  <2>2. rest \in Seq(1 .. MaxEdges)
    <3> HIDE DEF q
    <3>1. CASE q = << >>
      BY <1>1, <3>1
    <3>2. CASE q # << >>
      BY <1>1, <3>2
    <3> QED BY <3>1, <3>2
  <2> DEFINE last == c.controllerByte
  <2>3. last \in ByteType /\ q \in Seq(1 .. MaxEdges) /\ Line(last, << >>, q, "button", n)
    BY <1>1, <1>4
  <2>4. a \in ByteType /\ b \in ByteType /\ a.kind = "button" /\ b.kind = "motion"
    BY <1>3
  <2> HIDE DEF a, b, rest, q, last
  <2>5. /\ Line(last, << a, b >>, rest, "button", n)
        /\ \A j \in 1 .. Len(q) : q[j] \in Elements(rest) \/ (Carries(a, "button") /\ a.n = q[j])
    BY <2>1, <2>2, <2>3, <2>4, MouseLine
  <2> QED BY <2>2, <2>5 DEF last
<1> HIDE DEF a, b, rest
<1>6. << a, b >> \in Seq(ByteType) /\ Len(<< a, b >>) = 2 /\ << a, b >>[1] = a
      /\ \A i \in 1 .. 2 : ~Carries(<< a, b >>[i], "key")
  BY <1>3 DEF Carries
<1>7. Line(c.controllerByte, << a, b >>, c.keyEvents, "key", n)
  BY <1>1, <1>4, <1>6, LineNoFrame DEF EdgeKinds
<1>8. p \in TransceiverType /\ Same(c, p)
  <2>1. (IF c.motion = 0 THEN 0 ELSE c.motion - 1) \in 0 .. MaxMotion
    BY <1>1, AdbAssumption
  <2> QED BY ZenonT(60), <1>1, <1>5, <1>6, <2>1 DEF TransceiverType, Same
<1>9. /\ p.controllerByte = c.controllerByte /\ p.response = << a, b >> /\ p.buttonEvents = rest
      /\ p.keyEvents = c.keyEvents /\ p.errorReportPending = c.errorReportPending
  BY <1>1 DEF TransceiverType
<1>10. Flags(p)
  BY <1>8, <1>9 DEF Sound, Flags, Same
<1> HIDE DEF p
<1>11. Sound(p, n)
  BY <1>5, <1>7, <1>8, <1>9, <1>10 DEF Sound
<1>12. Keeps(c, p)
  <2>1. ASSUME NEW j \in 1 .. Len(q)
        PROVE  q[j] \in Elements(rest) \cup InFrame(p, "button")
    <3>1. 1 \in 1 .. Len(p.response) /\ p.response[1] = a
      BY <1>6, <1>9
    <3>2. Carries(a, "button") => a.n \in InFrame(p, "button")
      BY <3>1 DEF InFrame
    <3> QED BY <1>5, <3>2
  <2>2. Elements(q) \subseteq Elements(rest) \cup InFrame(p, "button")
    BY <2>1 DEF Elements
  <2> QED BY <1>9, <2>2 DEF Keeps, Queue, EdgeKinds
<1>13. Same(c, c) /\ Keeps(c, c)
  BY DEF Same, Keeps
<1> QED BY <1>2, <1>8, <1>9, <1>11, <1>12, <1>13

LEMMA TalkDeviceSound ==
  ASSUME NEW n \in Nat, NEW c, Sound(c, n), c.response = << >>, ~c.errorReportPending
  PROVE  LET p == TalkDevice(c) IN
           /\ Sound(p, n) /\ Same(c, p) /\ Keeps(c, p)
           /\ p.errorReportPending => p.keyEvents = c.keyEvents /\ p.buttonEvents = c.buttonEvents
<1> DEFINE a == Address(c.command)
           h == << Byte("handler", a), Byte("handler", 1) >>
           handler == [c EXCEPT !.response = h]
           f == << Fill, Fill >>
           error == [c EXCEPT !.response = f, !.errorReportPending = TRUE]
<1>1. c \in TransceiverType /\ a \in Nat
  <2>1. c \in TransceiverType /\ c.command \in 0 .. 255
    BY Fields DEF Sound
  <2>2. Address(c.command) \in 0 .. 15
    BY <2>1, CommandFields
  <2> QED BY <2>1, <2>2
<1>2. \/ TalkDevice(c) = handler \/ TalkDevice(c) = error \/ TalkDevice(c) = c
      \/ TalkDevice(c) = TalkKeyboard(c) \/ TalkDevice(c) = TalkMouse(c)
  BY DEF TalkDevice
<1>3. /\ h \in Seq(ByteType) /\ Len(h) = 2 /\ h[1].kind = "handler" /\ h[2].kind = "handler"
      /\ f \in Seq(ByteType) /\ Len(f) = 2 /\ f[1].kind = "fill" /\ f[2].kind = "fill"
  BY <1>1 DEF Byte, Fill, ByteType
<1> HIDE DEF h, f
<1>4. Sound(handler, n) /\ Same(c, handler) /\ Keeps(c, handler) /\ ~handler.errorReportPending
  <2>1. /\ handler \in TransceiverType /\ Same(c, handler) /\ handler.response = h
        /\ handler.keyEvents = c.keyEvents /\ handler.buttonEvents = c.buttonEvents
        /\ handler.errorReportPending = c.errorReportPending
    BY <1>1, <1>3 DEF TransceiverType, Same
  <2>2. c.errorReportPending \in BOOLEAN
    BY <1>1 DEF TransceiverType
  <2>3. \A i \in 1 .. Len(h) : h[i].kind \notin EdgeKinds
    BY <1>3 DEF EdgeKinds
  <2> HIDE DEF handler
  <2> QED BY <1>3, <2>1, <2>2, <2>3, FrameWithoutEdges
<1>5. /\ Sound(error, n) /\ Same(c, error) /\ Keeps(c, error)
      /\ error.keyEvents = c.keyEvents /\ error.buttonEvents = c.buttonEvents
  <2>1. /\ error \in TransceiverType /\ Same(c, error) /\ error.response = f
        /\ error.keyEvents = c.keyEvents /\ error.buttonEvents = c.buttonEvents
        /\ error.errorReportPending = TRUE
    BY <1>1, <1>3 DEF TransceiverType, Same
  <2>2. \A i \in 1 .. Len(f) : f[i].kind = "fill" /\ f[i].kind \notin EdgeKinds
    BY <1>3 DEF EdgeKinds
  <2> HIDE DEF error
  <2> QED BY <1>3, <2>1, <2>2, FrameWithoutEdges
<1>6. Same(c, c) /\ Keeps(c, c)
  BY DEF Same, Keeps
<1> HIDE DEF handler, error
<1> QED BY <1>2, <1>4, <1>5, <1>6, TalkKeyboardSound, TalkMouseSound

\* A command loses no queued edge, a FLUSH excepted; the frame it leaves is new.
LEMMA DispatchSound ==
  ASSUME NEW n \in Nat, NEW c, Sound(c, n), c.response = << >>, ~c.errorReportPending
  PROVE  LET p == Dispatch(c) IN
           /\ Sound(p, n) /\ Same(c, p)
           /\ Operation(c.command) # Flush => Keeps(c, p)
           /\ p.errorReportPending => p.keyEvents = c.keyEvents /\ p.buttonEvents = c.buttonEvents
<1> DEFINE a == Address(c.command)
           clear == DevicesReset(c)
           flushed == DevicesFlush(c)
           listening == [c EXCEPT !.listenAddress = a, !.listenBytes = << >>]
<1>1. c \in TransceiverType /\ a \in 0 .. 15 /\ Operation(c.command) \in 0 .. 3 /\ << >> \in Seq(Bytes \cup {0})
  <2>1. c \in TransceiverType /\ c.command \in 0 .. 255
    BY Fields DEF Sound
  <2>2. a \in 0 .. 15 /\ Operation(c.command) \in 0 .. 3
    BY <2>1, CommandFields
  <2>3. << >> \in Seq(Bytes \cup {0})
    OBVIOUS
  <2> QED BY <2>1, <2>2, <2>3
<1>2. \/ Dispatch(c) = clear \/ (Operation(c.command) = Flush /\ Dispatch(c) = flushed)
      \/ Dispatch(c) = listening \/ Dispatch(c) = TalkDevice(c) \/ Dispatch(c) = c
  BY DEF Dispatch, Flush, Listen, Talk
<1>3. /\ c.response \in Seq(ByteType) /\ c.controllerByte \in ByteType
      /\ c.keyEvents \in Seq(Nat) /\ c.buttonEvents \in Seq(Nat)
  BY <1>1, Fields
<1>4. Sound(clear, n) /\ Same(c, clear) /\ Keeps(c, clear) /\ ~clear.errorReportPending
  <2>1. clear \in TransceiverType /\ Same(c, clear)
    <3>1. 0 \in 0 .. 15 /\ 2 \in 0 .. 15 /\ 3 \in 0 .. 15
      OBVIOUS
    <3>2. clear \in TransceiverType
      BY <1>1, <3>1 DEF DevicesReset, TransceiverType
    <3>3. Same(c, clear)
      BY <1>1 DEF DevicesReset, TransceiverType, Same
    <3> QED BY <3>2, <3>3
  <2>2. /\ clear.response = c.response /\ clear.errorReportPending = c.errorReportPending
        /\ clear.keyEvents = c.keyEvents /\ clear.buttonEvents = c.buttonEvents
    BY <1>1 DEF DevicesReset, TransceiverType
  <2> HIDE DEF clear
  <2> QED BY <2>1, <2>2 DEF Sound, Same, Flags, Keeps, Queue
<1>5. Sound(listening, n) /\ Same(c, listening) /\ Keeps(c, listening) /\ ~listening.errorReportPending
  <2>1. listening \in TransceiverType /\ Same(c, listening)
    BY <1>1 DEF TransceiverType, Same
  <2>2. /\ listening.response = c.response /\ listening.errorReportPending = c.errorReportPending
        /\ listening.keyEvents = c.keyEvents /\ listening.buttonEvents = c.buttonEvents
    BY <1>1 DEF TransceiverType
  <2> HIDE DEF listening
  <2> QED BY <2>1, <2>2 DEF Sound, Same, Flags, Keeps, Queue
<1>6. Sound(flushed, n) /\ Same(c, flushed) /\ ~flushed.errorReportPending
  <2> DEFINE keys == IF a = c.keyboardAddress THEN << >> ELSE c.keyEvents
             buttons == IF a = c.mouseAddress THEN << >> ELSE c.buttonEvents
             held == IF a = c.mouseAddress THEN 0 ELSE c.motion
  <2>1. keys \in Seq(1 .. MaxEdges) /\ buttons \in Seq(1 .. MaxEdges) /\ held \in 0 .. MaxMotion
    BY <1>1, AdbAssumption DEF TransceiverType
  <2>2. flushed = [c EXCEPT !.keyEvents = keys, !.buttonEvents = buttons, !.motion = held]
    BY <1>1 DEF DevicesFlush, TransceiverType
  <2>3. /\ Line(c.controllerByte, c.response, keys, "key", n)
        /\ Line(c.controllerByte, c.response, buttons, "button", n)
    BY <1>3, LineCleared DEF Sound, EdgeKinds
  <2> HIDE DEF keys, buttons, held, flushed
  <2>4. flushed \in TransceiverType /\ Same(c, flushed)
    BY ZenonT(60), <1>1, <2>1, <2>2 DEF TransceiverType, Same
  <2>5. /\ flushed.response = c.response /\ flushed.errorReportPending = c.errorReportPending
        /\ flushed.keyEvents = keys /\ flushed.buttonEvents = buttons
    BY <1>1, <2>2 DEF TransceiverType
  <2> QED BY <2>3, <2>4, <2>5 DEF Sound, Same, Flags
<1>7. Same(c, c) /\ Keeps(c, c)
  BY DEF Same, Keeps
<1> HIDE DEF clear, flushed, listening
<1> QED BY <1>2, <1>4, <1>5, <1>6, <1>7, TalkDeviceSound

LEMMA PrepareResponseSound ==
  ASSUME NEW n \in Nat, NEW t, Sound(t, n)
  PROVE  LET p == PrepareResponse(t) IN
           /\ Sound(p, n) /\ Same(t, p)
           /\ Operation(t.command) # Flush => Keeps(t, p)
           /\ p.errorReportPending => p.keyEvents = t.keyEvents /\ p.buttonEvents = t.buttonEvents
<1> DEFINE c == Cleared(t)
<1>1. t \in TransceiverType /\ t.response \in Seq(ByteType) /\ t.controllerByte \in ByteType
      /\ t.keyEvents \in Seq(Nat) /\ t.buttonEvents \in Seq(Nat) /\ << >> \in Seq(ByteType)
  BY Fields DEF Sound
<1>2. c \in TransceiverType /\ Same(t, c)
  BY ZenonT(60), <1>1 DEF Cleared, TransceiverType, Same
<1>3. /\ c.response = << >> /\ c.errorReportPending = FALSE
      /\ c.keyEvents = t.keyEvents /\ c.buttonEvents = t.buttonEvents
  BY <1>1 DEF Cleared, TransceiverType
<1>4. /\ Line(t.controllerByte, << >>, t.keyEvents, "key", n)
      /\ Line(t.controllerByte, << >>, t.buttonEvents, "button", n)
  BY <1>1, LineCleared DEF Sound, EdgeKinds
<1>5. PrepareResponse(t) = Dispatch(c)
  BY DEF PrepareResponse, Cleared
<1> HIDE DEF c
<1>6. Sound(c, n)
  BY <1>2, <1>3, <1>4 DEF Sound, Flags, Same
<1> DEFINE p == Dispatch(c)
<1>7. /\ Sound(p, n) /\ Same(c, p)
      /\ Operation(c.command) # Flush => Keeps(c, p)
      /\ p.errorReportPending => p.keyEvents = c.keyEvents /\ p.buttonEvents = c.buttonEvents
  BY <1>3, <1>6, DispatchSound
<1> HIDE DEF p
<1>8. Same(t, p) /\ (Keeps(c, p) => Keeps(t, p)) /\ c.command = t.command
  BY <1>2, <1>3, <1>7 DEF Same, Keeps, Queue
<1> QED BY <1>3, <1>5, <1>7, <1>8 DEF p

-----------------------------------------------------------------------------
(* Transfers.                                                               *)

\* The frame is as it was, or its first byte is now being shifted.
Fetches(t, p) ==
  \/ p.response = t.response
  \/ t.response # << >> /\ p.response = Tail(t.response)
     /\ p.transfer = "controller" /\ p.controllerByte = Head(t.response)

SameQueues(t, p) == p.keyEvents = t.keyEvents /\ p.buttonEvents = t.buttonEvents

\* A transfer under way goes on, outside S3 the frame loses at most the byte
\* being shifted, and no queued edge is lost.
Carried(t, p) ==
  /\ p.commandPending = t.commandPending
  /\ t.transfer # "none" => p.transfer = t.transfer /\ p.controllerByte = t.controllerByte
  /\ p.state # 3 => Fetches(t, p)
  /\ Keeps(t, p)

\* What the transceiver does by itself between two calls.
Follows(t, p) == p.state = t.state /\ Carried(t, p) /\ (t.state # 3 => SameQueues(t, p))

LEMMA SoundKept ==
  ASSUME NEW n \in Nat, NEW t, Sound(t, n), NEW p \in TransceiverType,
         p.controllerByte = t.controllerByte, p.response = t.response, SameQueues(t, p),
         p.transferStatus = t.transferStatus, p.irq /\ p.retrying => t.irq /\ t.retrying,
         p.errorReportPending => t.errorReportPending, p.transfer = "host" => p.commandPending
  PROVE  Sound(p, n) /\ Keeps(t, p)
BY DEF Sound, SameQueues, Flags, Keeps, Queue

LEMMA StartSound ==
  ASSUME NEW n \in Nat, NEW t, Sound(t, n), NEW byte \in ByteType, NEW status \in BOOLEAN,
         NEW kind \in {"controller", "autopoll"},
         byte.kind \notin EdgeKinds \/ byte = t.controllerByte,
         status => byte.kind \in {"command", "fill"}
  PROVE  LET p == StartControllerTransfer(t, byte, status, kind) IN
           /\ Sound(p, n) /\ Keeps(t, p) /\ SameQueues(t, p)
           /\ p.state = t.state /\ p.commandPending = t.commandPending /\ p.response = t.response
<1> DEFINE p == StartControllerTransfer(t, byte, status, kind)
<1>1. t \in TransceiverType /\ t.response \in Seq(ByteType) /\ t.controllerByte \in ByteType
      /\ t.keyEvents \in Seq(Nat) /\ t.buttonEvents \in Seq(Nat)
  BY Fields DEF Sound
<1>2. p \in TransceiverType
  BY ZenonT(60), <1>1 DEF StartControllerTransfer, TransceiverType
<1>3. /\ p.controllerByte = byte /\ p.transferStatus = status /\ p.retrying = FALSE /\ p.transfer = kind
      /\ p.response = t.response /\ SameQueues(t, p) /\ p.errorReportPending = t.errorReportPending
      /\ p.state = t.state /\ p.commandPending = t.commandPending
  BY <1>1 DEF StartControllerTransfer, TransceiverType, SameQueues
<1> HIDE DEF p
<1>4. /\ Line(byte, t.response, t.keyEvents, "key", n)
      /\ Line(byte, t.response, t.buttonEvents, "button", n)
  BY <1>1, LineEdgeless DEF Sound, EdgeKinds
<1>5. Flags(p)
  BY <1>3 DEF Flags, Sound
<1>6. Sound(p, n) /\ Keeps(t, p)
  BY <1>2, <1>3, <1>4, <1>5 DEF Sound, SameQueues, Keeps, Queue
<1> QED BY <1>3, <1>6 DEF p

LEMMA TransferByteSound ==
  ASSUME NEW n \in Nat, NEW t, Sound(t, n), t.transfer = "none"
  PROVE  Sound(TransferByte(t), n) /\ Follows(t, TransferByte(t))
<1> DEFINE p == TransferByte(t)
           byte == IF t.response = << >> THEN Fill ELSE Head(t.response)
           rest == IF t.response = << >> THEN t.response ELSE Tail(t.response)
           status == t.response = << >> \/ t.errorReportPending
<1>1. t \in TransceiverType /\ t.response \in Seq(ByteType) /\ t.controllerByte \in ByteType
      /\ t.keyEvents \in Seq(Nat) /\ t.buttonEvents \in Seq(Nat)
  BY Fields DEF Sound
<1>2. byte \in ByteType /\ rest \in Seq(ByteType) /\ status \in BOOLEAN
  <2>1. Fill \in ByteType
    BY DEF Fill, Byte, ByteType
  <2>2. t.response # << >> => Head(t.response) \in ByteType /\ Tail(t.response) \in Seq(ByteType)
    BY <1>1
  <2>3. t.errorReportPending \in BOOLEAN
    BY <1>1 DEF TransceiverType
  <2> QED BY <1>1, <2>1, <2>2, <2>3
<1>3. p = [t EXCEPT !.response = rest, !.errorReportPending = FALSE, !.controllerByte = byte,
                    !.transferStatus = status, !.lastState = t.state, !.transfer = "controller",
                    !.retrying = FALSE]
  BY <1>1 DEF TransferByte, StartControllerTransfer, TransceiverType
<1>4. status => byte.kind \in {"command", "fill"}
  <2>1. CASE t.response = << >>
    BY <2>1 DEF Fill, Byte
  <2>2. CASE t.response # << >> /\ t.errorReportPending
    <3>1. Head(t.response) = t.response[1] /\ 1 \in 1 .. Len(t.response)
      BY <1>1, <2>2
    <3> QED BY <2>2, <3>1 DEF Sound, Flags
  <2> QED BY <2>1, <2>2
<1>5. /\ Line(byte, rest, t.keyEvents, "key", n)
      /\ Line(byte, rest, t.buttonEvents, "button", n)
  <2>1. CASE t.response = << >>
    <3>1. Fill.kind \notin EdgeKinds
      BY DEF Fill, Byte, EdgeKinds
    <3> QED BY <1>1, <2>1, <3>1, LineEdgeless DEF Sound, EdgeKinds
  <2>2. CASE t.response # << >>
    BY <1>1, <2>2, LineTaken DEF Sound, EdgeKinds
  <2> QED BY <2>1, <2>2
<1>6. p.response = t.response \/ (t.response # << >> /\ p.response = Tail(t.response)
                                   /\ p.controllerByte = Head(t.response))
  BY <1>1, <1>3 DEF TransceiverType
<1> HIDE DEF p, byte, rest, status
<1>7. p \in TransceiverType
  <2> DEFINE u == [t EXCEPT !.response = rest, !.errorReportPending = FALSE, !.controllerByte = byte,
                            !.transferStatus = status]
  <2>1. u \in TransceiverType
    BY <1>1, <1>2 DEF TransceiverType
  <2>2. p = [u EXCEPT !.lastState = t.state, !.transfer = "controller", !.retrying = FALSE]
    BY <1>3
  <2>3. t.state \in 0 .. 3
    BY <1>1 DEF TransceiverType
  <2> HIDE DEF u
  <2> QED BY ZenonT(60), <2>1, <2>2, <2>3 DEF TransceiverType
<1>8. /\ p.response = rest /\ p.errorReportPending = FALSE /\ p.controllerByte = byte
      /\ p.transferStatus = status /\ p.transfer = "controller" /\ p.retrying = FALSE
      /\ SameQueues(t, p) /\ p.state = t.state /\ p.commandPending = t.commandPending
  BY <1>1, <1>3 DEF TransceiverType, SameQueues
<1>9. Flags(p)
  BY <1>4, <1>8 DEF Flags
<1>10. Sound(p, n)
  BY <1>5, <1>7, <1>8, <1>9 DEF Sound, SameQueues
<1>11. Keeps(t, p)
  BY <1>8 DEF SameQueues, Keeps, Queue
<1>12. Follows(t, p)
  BY <1>6, <1>8, <1>11 DEF Follows, Carried, Fetches
<1> QED BY <1>10, <1>12 DEF p

\* A poll in S3 moves edges from the queues to the frame and offers the command.
LEMMA OfferFrameSound ==
  ASSUME NEW n \in Nat, NEW t, Sound(t, n), t.transfer = "none", t.state = 3,
         Operation(t.command) = Talk
  PROVE  Sound(OfferFrame(t), n) /\ Follows(t, OfferFrame(t))
<1> DEFINE ready == PrepareResponse(t)
           more == ready.keyEvents # << >> \/ ready.buttonEvents # << >> \/ ready.motion # 0
           none == [ready EXCEPT !.response = << >>, !.errorReportPending = FALSE]
           asked == [ready EXCEPT !.autoPollRequested = more]
           byte == Byte("command", t.command)
           p == StartControllerTransfer(asked, byte, TRUE, "autopoll")
<1>1. /\ Sound(ready, n) /\ Same(t, ready) /\ Keeps(t, ready)
      /\ ready.errorReportPending => SameQueues(t, ready)
  BY PrepareResponseSound DEF Talk, Flush, SameQueues
<1>2. OfferFrame(t) = IF ready.errorReportPending THEN none ELSE p
  BY DEF OfferFrame
<1>3. byte \in ByteType /\ byte.kind = "command"
  <2>1. t.command \in 0 .. 255
    BY Fields DEF Sound
  <2> QED BY <2>1 DEF Byte, ByteType
<1> HIDE DEF ready, byte
<1>4. ready \in TransceiverType /\ ready.response \in Seq(ByteType) /\ ready.controllerByte \in ByteType
      /\ ready.keyEvents \in Seq(Nat) /\ ready.buttonEvents \in Seq(Nat) /\ << >> \in Seq(ByteType)
  BY <1>1, Fields DEF Sound
<1>5. CASE ready.errorReportPending
  <2>1. none \in TransceiverType
    BY <1>4 DEF TransceiverType
  <2>2. /\ none.response = << >> /\ none.errorReportPending = FALSE /\ SameQueues(ready, none)
        /\ Same(ready, none)
    BY <1>4 DEF TransceiverType, SameQueues, Same
  <2> HIDE DEF none
  <2>3. /\ Line(ready.controllerByte, << >>, ready.keyEvents, "key", n)
        /\ Line(ready.controllerByte, << >>, ready.buttonEvents, "button", n)
    BY <1>1, <1>4, LineCleared DEF Sound, EdgeKinds
  <2>4. Flags(none)
    BY <1>1, <2>2 DEF Sound, Flags, Same
  <2>5. Sound(none, n)
    BY <2>1, <2>2, <2>3, <2>4 DEF Sound, SameQueues, Same
  <2>6. Keeps(t, none)
    BY <1>1, <1>5, <2>2 DEF SameQueues, Keeps, Queue
  <2>7. Follows(t, none)
    BY <1>1, <2>2, <2>6 DEF Follows, Carried, Same
  <2> QED BY <1>2, <1>5, <2>5, <2>7
<1>6. CASE ~ready.errorReportPending
  <2>1. asked \in TransceiverType
    BY ZenonT(60), <1>4 DEF TransceiverType
  <2>2. asked.response = ready.response /\ SameQueues(ready, asked) /\ Same(ready, asked)
        /\ asked.errorReportPending = ready.errorReportPending
    BY <1>4 DEF TransceiverType, SameQueues, Same
  <2> HIDE DEF asked
  <2>3. Sound(asked, n)
    BY <1>1, <2>1, <2>2, SoundKept DEF Same, Sound, Flags
  <2>4. /\ Sound(p, n) /\ SameQueues(asked, p) /\ p.response = asked.response
        /\ p.state = asked.state /\ p.commandPending = asked.commandPending
    BY <1>3, <2>3, StartSound DEF EdgeKinds
  <2> HIDE DEF p
  <2>5. Keeps(t, p)
    BY <1>1, <2>2, <2>4 DEF SameQueues, Keeps, Queue, InFrame
  <2>6. Follows(t, p)
    BY <1>1, <2>2, <2>4, <2>5 DEF Follows, Carried, Same
  <2> QED BY <1>2, <1>6, <2>4, <2>6
<1> QED BY <1>5, <1>6

LEMMA FollowsItself == ASSUME NEW t PROVE Follows(t, t)
BY DEF Follows, Carried, SameQueues, Fetches, Keeps

LEMMA RequestAutoPollSound ==
  ASSUME NEW n \in Nat, NEW t, Sound(t, n)
  PROVE  LET p == RequestAutoPoll(t) IN
           Sound(p, n) /\ Follows(t, p) /\ (t.state # 3 => p.response = t.response)
<1> DEFINE asked == [t EXCEPT !.autoPollRequested = TRUE]
<1>1. t \in TransceiverType
  BY DEF Sound
<1>2. asked \in TransceiverType
  BY <1>1 DEF TransceiverType
<1>3. /\ asked.response = t.response /\ SameQueues(t, asked) /\ Same(t, asked)
      /\ asked.errorReportPending = t.errorReportPending
  BY <1>1 DEF TransceiverType, SameQueues, Same
<1>4. \/ RequestAutoPoll(t) = asked
      \/ /\ t.state = 3 /\ t.transfer = "none" /\ Operation(t.command) = Talk
         /\ RequestAutoPoll(t) = OfferFrame(asked)
  BY DEF RequestAutoPoll
<1> HIDE DEF asked
<1>5. Sound(asked, n) /\ Keeps(t, asked)
  BY <1>2, <1>3, SoundKept DEF Same, Sound, Flags
<1>6. Follows(t, asked)
  BY <1>3, <1>5 DEF Follows, Carried, Same, SameQueues, Fetches
<1>7. CASE t.state = 3 /\ t.transfer = "none" /\ Operation(t.command) = Talk
           /\ RequestAutoPoll(t) = OfferFrame(asked)
  <2> DEFINE p == OfferFrame(asked)
  <2>1. Sound(p, n) /\ Follows(asked, p)
    BY <1>3, <1>5, <1>7, OfferFrameSound DEF Same
  <2> HIDE DEF p
  <2>2. Follows(t, p)
    BY <1>3, <1>7, <2>1 DEF Follows, Carried, Same, SameQueues, Keeps, Queue
  <2> QED BY <1>7, <2>1, <2>2 DEF p
<1> QED BY <1>3, <1>4, <1>5, <1>6, <1>7

LEMMA StartHostSound ==
  ASSUME NEW n \in Nat, NEW t, Sound(t, n), t.commandPending, t.transfer = "none"
  PROVE  LET p == StartHostTransfer(t) IN
           Sound(p, n) /\ Follows(t, p) /\ p.response = t.response /\ SameQueues(t, p)
<1> DEFINE p == StartHostTransfer(t)
<1>1. t \in TransceiverType
  BY DEF Sound
<1>2. p \in TransceiverType
  BY <1>1 DEF TransceiverType, StartHostTransfer
<1>3. /\ p.response = t.response /\ SameQueues(t, p) /\ p.retrying = FALSE
      /\ p.errorReportPending = t.errorReportPending /\ p.controllerByte = t.controllerByte
      /\ p.transferStatus = t.transferStatus /\ p.commandPending = t.commandPending /\ p.state = t.state
  BY <1>1 DEF TransceiverType, SameQueues, StartHostTransfer
<1> HIDE DEF p
<1>4. Sound(p, n) /\ Keeps(t, p)
  BY <1>2, <1>3, SoundKept
<1>5. Follows(t, p)
  BY <1>3, <1>4 DEF Follows, Carried, Fetches
<1> QED BY <1>3, <1>4, <1>5 DEF p

LEMMA ScheduleSound ==
  ASSUME NEW n \in Nat, NEW t, Sound(t, n)
  PROVE  LET p == ScheduleForState(t) IN
           /\ Sound(p, n) /\ Follows(t, p)
           /\ t.state # 3 /\ (t.delaying \/ t.listenAddress # 0) => p.response = t.response
<1>1. \/ ScheduleForState(t) = t
      \/ t.commandPending /\ t.transfer = "none" /\ ScheduleForState(t) = StartHostTransfer(t)
      \/ t.transfer = "none" /\ ~t.delaying /\ t.listenAddress = 0 /\ ScheduleForState(t) = TransferByte(t)
      \/ ScheduleForState(t) = RequestAutoPoll(t)
  BY DEF ScheduleForState
<1>2. CASE ScheduleForState(t) = t
  BY <1>2, FollowsItself
<1>3. CASE t.commandPending /\ t.transfer = "none" /\ ScheduleForState(t) = StartHostTransfer(t)
  BY <1>3, StartHostSound
<1>4. CASE t.transfer = "none" /\ ~t.delaying /\ t.listenAddress = 0
           /\ ScheduleForState(t) = TransferByte(t)
  BY <1>4, TransferByteSound
<1>5. CASE ScheduleForState(t) = RequestAutoPoll(t)
  BY <1>5, RequestAutoPollSound
<1> QED BY <1>1, <1>2, <1>3, <1>4, <1>5

-----------------------------------------------------------------------------
(* What the VIA and the machine call.                                       *)

LEMMA SetViaStateSound ==
  ASSUME NEW n \in Nat, NEW t, Sound(t, n), NEW s \in 0 .. 3
  PROVE  LET p == SetViaState(t, s) IN
           Sound(p, n) /\ Carried(t, p) /\ p.state = s /\ (s = t.state => p = t)
<1> DEFINE freed == [t EXCEPT !.irq = FALSE, !.retrying = FALSE, !.state = s]
           fetched == [freed EXCEPT !.deferredTalkPending = FALSE, !.deferring = FALSE]
           waits == [freed EXCEPT !.delaying = FALSE, !.deferring = TRUE]
           u == IF s \in {1, 2} THEN fetched
                ELSE IF s = 3 /\ t.deferredTalkPending /\ ~t.deferring THEN waits ELSE freed
           p == ScheduleForState(u)
<1>1. t \in TransceiverType
  BY DEF Sound
<1>2. SetViaState(t, s) = IF s = t.state THEN t ELSE p
  BY DEF SetViaState, EnterState
<1>3. Carried(t, t)
  BY FollowsItself DEF Follows
<1>4. freed \in TransceiverType
  BY <1>1 DEF TransceiverType
<1>5. u \in TransceiverType
  <2>1. fetched \in TransceiverType
    BY ZenonT(60), <1>4 DEF TransceiverType
  <2>2. waits \in TransceiverType
    BY ZenonT(60), <1>4 DEF TransceiverType
  <2> HIDE DEF freed, fetched, waits
  <2> QED BY <1>4, <2>1, <2>2
<1>6. /\ u.controllerByte = t.controllerByte /\ u.response = t.response /\ SameQueues(t, u)
      /\ u.transferStatus = t.transferStatus /\ u.irq = FALSE /\ u.errorReportPending = t.errorReportPending
      /\ u.transfer = t.transfer /\ u.commandPending = t.commandPending /\ u.state = s
  BY <1>1 DEF TransceiverType, SameQueues
<1> HIDE DEF u
<1>7. Sound(u, n) /\ Keeps(t, u)
  BY <1>5, <1>6, SoundKept DEF Sound, Flags
<1>8. Sound(p, n) /\ Follows(u, p)
  BY <1>7, ScheduleSound
<1> HIDE DEF p
<1>9. Carried(t, p) /\ p.state = s
  BY <1>6, <1>8 DEF Follows, Carried, Fetches, SameQueues, Keeps, Queue
<1> QED BY <1>2, <1>3, <1>8, <1>9

\* A byte the guest shifts out changes neither frame, queues nor the byte in flight.
LEMMA ShiftRegisterWrittenSound ==
  ASSUME NEW n \in Nat, NEW t, Sound(t, n), NEW b \in Bytes
  PROVE  LET p == ShiftRegisterWritten(t, b) IN
           /\ Sound(p, n) /\ p.state = t.state /\ p.response = t.response /\ SameQueues(t, p)
           /\ t.transfer # "none" => p.transfer = t.transfer /\ p.controllerByte = t.controllerByte
<1> DEFINE staged == [t EXCEPT !.hostByte = b, !.commandPending = TRUE]
<1>1. t \in TransceiverType
  BY DEF Sound
<1>2. staged \in TransceiverType
  BY <1>1 DEF TransceiverType
<1>3. /\ staged.controllerByte = t.controllerByte /\ staged.response = t.response /\ SameQueues(t, staged)
      /\ staged.transferStatus = t.transferStatus /\ staged.irq = t.irq /\ staged.retrying = t.retrying
      /\ staged.errorReportPending = t.errorReportPending
      /\ staged.transfer = t.transfer /\ staged.commandPending = TRUE /\ staged.state = t.state
  BY <1>1 DEF TransceiverType, SameQueues
<1>4. \/ ShiftRegisterWritten(t, b) = staged
      \/ t.transfer = "none" /\ ShiftRegisterWritten(t, b) = StartHostTransfer(staged)
  BY DEF ShiftRegisterWritten
<1> HIDE DEF staged
<1>5. Sound(staged, n)
  BY <1>2, <1>3, SoundKept
<1>6. CASE t.transfer = "none" /\ ShiftRegisterWritten(t, b) = StartHostTransfer(staged)
  BY <1>3, <1>5, <1>6, StartHostSound DEF SameQueues, Follows
<1> QED BY <1>3, <1>4, <1>5, <1>6

LEMMA CompleteListenSound ==
  ASSUME NEW n \in Nat, NEW t, Sound(t, n), Len(t.listenBytes) = 2
  PROVE  LET p == CompleteListen(t) IN
           Sound(p, n) /\ Same(t, p) /\ p.response = t.response /\ SameQueues(t, p)
<1> DEFINE to == t.listenBytes[1] % 16
           p == CompleteListen(t)
<1>1. t \in TransceiverType
  BY DEF Sound
<1>2. to \in 0 .. 15
  <2>1. t.listenBytes \in Seq(Bytes \cup {0})
    BY <1>1 DEF TransceiverType
  <2>2. t.listenBytes[1] \in Bytes \cup {0}
    BY <2>1, ElementOfSeq
  <2>3. \A b \in Bytes \cup {0} : b \in Nat
    BY AdbAssumption
  <2> QED BY <2>2, <2>3
<1> HIDE DEF to
<1> DEFINE k == IF t.listenBytes[2] \in {0, 254} /\ t.listenAddress = t.keyboardAddress
                THEN to ELSE t.keyboardAddress
           m == IF t.listenBytes[2] \in {0, 254} /\ t.listenAddress # t.keyboardAddress
                   /\ t.listenAddress = t.mouseAddress
                THEN to ELSE t.mouseAddress
<1>3. p = [t EXCEPT !.keyboardAddress = k, !.mouseAddress = m, !.listenAddress = 0, !.listenBytes = << >>]
  BY <1>1 DEF CompleteListen, TransceiverType, to
<1>4. k \in 0 .. 15 /\ m \in 0 .. 15 /\ 0 \in 0 .. 15 /\ << >> \in Seq(Bytes \cup {0})
  BY <1>1, <1>2 DEF TransceiverType
<1> HIDE DEF k, m, p
<1>5. p \in TransceiverType
  BY ZenonT(60), <1>1, <1>3, <1>4 DEF TransceiverType
<1>6. Same(t, p) /\ p.response = t.response /\ SameQueues(t, p) /\ p.errorReportPending = t.errorReportPending
  BY <1>1, <1>3 DEF TransceiverType, Same, SameQueues
<1>7. Sound(p, n)
  BY <1>5, <1>6, SoundKept DEF Same, Sound, Flags
<1> QED BY <1>6, <1>7 DEF p

\* A command leaves its answer for the delay to be over; a LISTEN byte touches
\* neither frame nor queues.
LEMMA HostByteTakenSound ==
  ASSUME NEW n \in Nat, NEW t, Sound(t, n)
  PROVE  LET h == HostByteTaken(t) IN
           /\ Sound(h, n) /\ h.state = t.state
           /\ \/ h.response = t.response /\ SameQueues(t, h)
              \/ (h.delaying \/ h.listenAddress # 0) /\ (Operation(t.hostByte) # Flush => Keeps(t, h))
<1> DEFINE bytes == Append(t.listenBytes, t.hostByte)
           listened == [t EXCEPT !.listenBytes = bytes]
           heard == [t EXCEPT !.command = t.hostByte]
           command == PrepareResponse(heard)
           talks == Operation(t.hostByte) = Talk
           delayed == command.listenAddress = 0 \/ t.delaying
           h == [command EXCEPT !.deferredTalkPending = talks, !.delaying = delayed]
<1>1. t \in TransceiverType /\ t.hostByte \in Bytes \cup {0} /\ t.listenBytes \in Seq(Bytes \cup {0})
  BY DEF Sound, TransceiverType
<1>2. \/ HostByteTaken(t) = CompleteListen(listened) /\ Len(bytes) = 2
      \/ HostByteTaken(t) = listened
      \/ HostByteTaken(t) = h
  BY <1>1 DEF HostByteTaken, TransceiverType
<1>3. bytes \in Seq(Bytes \cup {0})
  BY <1>1
<1> HIDE DEF bytes
<1>4. listened \in TransceiverType
  BY <1>1, <1>3 DEF TransceiverType
<1>5. /\ Same(t, listened) /\ listened.response = t.response /\ SameQueues(t, listened)
      /\ listened.errorReportPending = t.errorReportPending /\ listened.listenBytes = bytes
  BY <1>1 DEF TransceiverType, Same, SameQueues
<1> HIDE DEF listened
<1>6. Sound(listened, n)
  BY <1>4, <1>5, SoundKept DEF Same, Sound, Flags
<1>7. CASE HostByteTaken(t) = CompleteListen(listened) /\ Len(bytes) = 2
  <2> DEFINE p == CompleteListen(listened)
  <2>1. Sound(p, n) /\ Same(listened, p) /\ p.response = listened.response /\ SameQueues(listened, p)
    BY <1>5, <1>6, <1>7, CompleteListenSound
  <2> HIDE DEF p
  <2>2. p.state = t.state /\ p.response = t.response /\ SameQueues(t, p)
    BY <1>5, <2>1 DEF Same, SameQueues
  <2> QED BY <1>7, <2>1, <2>2 DEF p
<1>8. CASE HostByteTaken(t) = listened
  BY <1>5, <1>6, <1>8 DEF Same
<1>9. CASE HostByteTaken(t) = h
  <2>1. heard \in TransceiverType
    BY <1>1 DEF TransceiverType
  <2>2. /\ heard.command = t.hostByte /\ heard.state = t.state /\ heard.transfer = t.transfer
        /\ heard.commandPending = t.commandPending /\ heard.controllerByte = t.controllerByte
        /\ heard.transferStatus = t.transferStatus /\ heard.irq = t.irq /\ heard.retrying = t.retrying
        /\ heard.response = t.response /\ SameQueues(t, heard)
        /\ heard.errorReportPending = t.errorReportPending
    BY <1>1 DEF TransceiverType, SameQueues
  <2> HIDE DEF heard
  <2>3. Sound(heard, n)
    BY <2>1, <2>2, SoundKept DEF Sound, Flags
  <2>4. /\ Sound(command, n) /\ Same(heard, command)
        /\ Operation(heard.command) # Flush => Keeps(heard, command)
    BY <2>3, PrepareResponseSound
  <2> HIDE DEF command
  <2>5. command \in TransceiverType /\ talks \in BOOLEAN /\ delayed \in BOOLEAN
    <3>1. command \in TransceiverType /\ t.delaying \in BOOLEAN
      BY <1>1, <2>4 DEF Sound, TransceiverType
    <3> QED BY <3>1
  <2>6. delayed \/ command.listenAddress # 0
    OBVIOUS
  <2> HIDE DEF talks, delayed
  <2>7. h \in TransceiverType
    BY <2>5 DEF TransceiverType
  <2>8. /\ h.state = command.state /\ h.transfer = command.transfer
        /\ h.commandPending = command.commandPending /\ h.controllerByte = command.controllerByte
        /\ h.transferStatus = command.transferStatus /\ h.irq = command.irq /\ h.retrying = command.retrying
        /\ h.response = command.response /\ SameQueues(command, h)
        /\ h.errorReportPending = command.errorReportPending
        /\ h.delaying = delayed /\ h.listenAddress = command.listenAddress
    BY <2>5 DEF TransceiverType, SameQueues
  <2> HIDE DEF h
  <2>9. Sound(h, n)
    BY <2>4, <2>7, <2>8, SoundKept DEF Sound, Flags
  <2>10. Operation(t.hostByte) # Flush => Keeps(t, h)
    BY <2>2, <2>4, <2>8 DEF Keeps, SameQueues, Queue, InFrame
  <2>11. h.state = t.state
    BY <2>2, <2>4, <2>8 DEF Same
  <2> QED BY <1>9, <2>6, <2>8, <2>9, <2>10, <2>11
<1> QED BY <1>2, <1>7, <1>8, <1>9

LEMMA HostTransferDoneSound ==
  ASSUME NEW n \in Nat, NEW t, Sound(t, n)
  PROVE  LET p == HostTransferDone(t) IN
           /\ Sound(p, n) /\ p.state = t.state /\ ~p.commandPending
           /\ Operation(t.hostByte) # Flush /\ t.state # 3 => Keeps(t, p)
<1> DEFINE h == HostByteTaken(t)
           u == [h EXCEPT !.transfer = "none", !.commandPending = FALSE]
           p == ScheduleForState(u)
<1>1. /\ Sound(h, n) /\ h.state = t.state
      /\ \/ h.response = t.response /\ SameQueues(t, h)
         \/ (h.delaying \/ h.listenAddress # 0) /\ (Operation(t.hostByte) # Flush => Keeps(t, h))
  BY HostByteTakenSound
<1>2. HostTransferDone(t) = p
  BY DEF HostTransferDone
<1> HIDE DEF h
<1>3. h \in TransceiverType
  BY <1>1 DEF Sound
<1>4. u \in TransceiverType
  BY <1>3 DEF TransceiverType
<1>5. /\ u.state = h.state /\ u.transfer = "none" /\ u.commandPending = FALSE
      /\ u.controllerByte = h.controllerByte /\ u.transferStatus = h.transferStatus
      /\ u.irq = h.irq /\ u.retrying = h.retrying /\ u.response = h.response /\ SameQueues(h, u)
      /\ u.errorReportPending = h.errorReportPending
      /\ u.delaying = h.delaying /\ u.listenAddress = h.listenAddress
  BY <1>3 DEF TransceiverType, SameQueues
<1> HIDE DEF u
<1>6. Sound(u, n)
  BY <1>1, <1>4, <1>5, SoundKept
<1>7. /\ Sound(p, n) /\ Follows(u, p)
      /\ u.state # 3 /\ (u.delaying \/ u.listenAddress # 0) => p.response = u.response
  BY <1>6, ScheduleSound
<1> HIDE DEF p
<1>8. p.state = t.state /\ ~p.commandPending
  BY <1>1, <1>5, <1>7 DEF Follows, Carried
<1>9. ASSUME Operation(t.hostByte) # Flush, t.state # 3
      PROVE  Keeps(t, p)
  <2>1. SameQueues(h, p)
    BY <1>1, <1>5, <1>7, <1>9 DEF Follows, SameQueues
  <2>2. CASE SameQueues(t, h)
    BY <2>1, <2>2 DEF SameQueues, Keeps, Queue
  <2>3. CASE (h.delaying \/ h.listenAddress # 0) /\ Keeps(t, h)
    <3>1. p.response = h.response
      BY <1>1, <1>5, <1>7, <1>9, <2>3
    <3> QED BY <2>1, <2>3, <3>1 DEF SameQueues, Keeps, Queue, InFrame
  <2> QED BY <1>1, <1>9, <2>2, <2>3
<1> QED BY <1>2, <1>7, <1>8, <1>9

LEMMA ControllerTransferDoneSound ==
  ASSUME NEW n \in Nat, NEW t, Sound(t, n)
  PROVE  LET p == ControllerTransferDone(t) IN
           /\ Sound(p, n) /\ p.state = t.state /\ p.commandPending = t.commandPending
           /\ p.response = t.response /\ SameQueues(t, p)
<1> DEFINE p == ControllerTransferDone(t)
<1>1. t \in TransceiverType
  BY DEF Sound
<1>2. p \in TransceiverType
  BY <1>1 DEF TransceiverType, ControllerTransferDone
<1>3. /\ p.state = t.state /\ p.transfer = "none" /\ p.commandPending = t.commandPending
      /\ p.controllerByte = t.controllerByte /\ p.transferStatus = t.transferStatus
      /\ p.irq = t.transferStatus /\ p.response = t.response /\ SameQueues(t, p)
      /\ p.errorReportPending = t.errorReportPending
  BY <1>1 DEF TransceiverType, SameQueues, ControllerTransferDone
<1> HIDE DEF p
<1>4. Flags(p)
  BY <1>3 DEF Sound, Flags
<1>5. Sound(p, n)
  BY <1>2, <1>3, <1>4 DEF Sound, SameQueues
<1> QED BY <1>3, <1>5 DEF p

\* The end of a countdown: a retry repeats the byte and leaves the frame alone.
LEMMA IdleTickSound ==
  ASSUME NEW n \in Nat, NEW t, Sound(t, n), t.transfer = "none"
  PROVE  LET p == IdleTick(t) IN
           Sound(p, n) /\ Follows(t, p) /\ (t.retrying /\ t.state # 3 => p.response = t.response)
<1>1. t \in TransceiverType /\ t.controllerByte \in ByteType /\ t.transferStatus \in BOOLEAN
  BY DEF Sound, TransceiverType
<1>2. CASE t.retrying
  <2> DEFINE expired == [t EXCEPT !.retrying = FALSE]
             p == StartControllerTransfer(expired, t.controllerByte, t.transferStatus, "controller")
  <2>1. IdleTick(t) = IF t.state # t.lastState THEN expired ELSE p
    BY <1>2 DEF IdleTick, RetryExpires
  <2>2. expired \in TransceiverType
    BY <1>1 DEF TransceiverType
  <2>3. /\ expired.response = t.response /\ SameQueues(t, expired) /\ expired.retrying = FALSE
        /\ expired.controllerByte = t.controllerByte /\ expired.transferStatus = t.transferStatus
        /\ expired.errorReportPending = t.errorReportPending /\ expired.state = t.state
        /\ expired.commandPending = t.commandPending /\ expired.transfer = t.transfer
    BY <1>1 DEF TransceiverType, SameQueues
  <2> HIDE DEF expired
  <2>4. Sound(expired, n) /\ Keeps(t, expired)
    BY <2>2, <2>3, SoundKept
  <2>5. t.transferStatus => t.controllerByte.kind \in {"command", "fill"}
    BY DEF Sound, Flags
  <2>6. /\ Sound(p, n) /\ SameQueues(expired, p)
        /\ p.state = expired.state /\ p.commandPending = expired.commandPending
        /\ p.response = expired.response
    BY <1>1, <2>3, <2>4, <2>5, StartSound
  <2> HIDE DEF p
  <2>7. Follows(t, expired)
    BY <2>3, <2>4 DEF Follows, Carried, Fetches
  <2>8. Follows(t, p)
    BY <2>3, <2>6 DEF Follows, Carried, Fetches, Keeps, Queue, SameQueues
  <2> QED BY <2>1, <2>3, <2>4, <2>6, <2>7, <2>8
<1>3. CASE ~t.retrying /\ t.delaying
  <2> DEFINE u == [t EXCEPT !.delaying = FALSE]
             p == ScheduleForState(u)
  <2>1. IdleTick(t) = p
    BY <1>3 DEF IdleTick, DelayExpires
  <2>2. u \in TransceiverType
    BY <1>1 DEF TransceiverType
  <2>3. /\ u.response = t.response /\ SameQueues(t, u) /\ u.retrying = t.retrying
        /\ u.controllerByte = t.controllerByte /\ u.transferStatus = t.transferStatus
        /\ u.errorReportPending = t.errorReportPending /\ u.state = t.state
        /\ u.commandPending = t.commandPending /\ u.transfer = t.transfer /\ u.irq = t.irq
    BY <1>1 DEF TransceiverType, SameQueues
  <2> HIDE DEF u
  <2>4. Sound(u, n)
    BY <2>2, <2>3, SoundKept DEF Sound, Flags
  <2>5. Sound(p, n) /\ Follows(u, p)
    BY <2>4, ScheduleSound
  <2> HIDE DEF p
  <2>6. Follows(t, p)
    BY <2>3, <2>5 DEF Follows, Carried, Fetches, Keeps, Queue, SameQueues
  <2> QED BY <1>3, <2>1, <2>5, <2>6
<1>4. CASE ~t.retrying /\ ~t.delaying /\ t.deferring
  <2> DEFINE expired == [t EXCEPT !.deferring = FALSE]
             u == [expired EXCEPT !.deferredTalkPending = FALSE]
             byte == Byte("command", t.command)
             p == StartControllerTransfer(u, byte, TRUE, "autopoll")
  <2>1. IdleTick(t) = expired \/ (t.state = 3 /\ IdleTick(t) = p)
    BY <1>4 DEF IdleTick, DeferExpires
  <2>2. expired \in TransceiverType /\ u \in TransceiverType
    BY ZenonT(60), <1>1 DEF TransceiverType
  <2>3. /\ expired.response = t.response /\ SameQueues(t, expired) /\ expired.retrying = t.retrying
        /\ expired.controllerByte = t.controllerByte /\ expired.transferStatus = t.transferStatus
        /\ expired.errorReportPending = t.errorReportPending /\ expired.state = t.state
        /\ expired.commandPending = t.commandPending /\ expired.transfer = t.transfer
        /\ expired.irq = t.irq
    BY <1>1 DEF TransceiverType, SameQueues
  <2>4. /\ u.response = t.response /\ SameQueues(t, u) /\ u.retrying = t.retrying
        /\ u.controllerByte = t.controllerByte /\ u.transferStatus = t.transferStatus
        /\ u.errorReportPending = t.errorReportPending /\ u.state = t.state
        /\ u.commandPending = t.commandPending /\ u.transfer = t.transfer /\ u.irq = t.irq
    BY <1>1 DEF TransceiverType, SameQueues
  <2>5. byte \in ByteType /\ byte.kind = "command"
    <3>1. t.command \in 0 .. 255
      BY <1>1, Fields
    <3> QED BY <3>1 DEF Byte, ByteType
  <2> HIDE DEF expired, u, byte
  <2>6. Sound(expired, n) /\ Keeps(t, expired) /\ Sound(u, n)
    BY <2>2, <2>3, <2>4, SoundKept DEF Sound, Flags
  <2>7. /\ Sound(p, n) /\ SameQueues(u, p) /\ p.state = u.state
        /\ p.commandPending = u.commandPending /\ p.response = u.response
    BY <2>5, <2>6, StartSound DEF EdgeKinds
  <2> HIDE DEF p
  <2>8. Follows(t, expired)
    BY <2>3, <2>6 DEF Follows, Carried, Fetches
  <2>9. Follows(t, p)
    BY <2>4, <2>7 DEF Follows, Carried, Fetches, Keeps, Queue, SameQueues
  <2> QED BY <1>4, <2>1, <2>6, <2>7, <2>8, <2>9
<1>5. CASE ~t.retrying /\ ~t.delaying /\ ~t.deferring
  <2>1. IdleTick(t) = t \/ IdleTick(t) = RequestAutoPoll(t)
    BY <1>5 DEF IdleTick
  <2> QED BY <1>5, <2>1, RequestAutoPollSound, FollowsItself
<1> QED BY <1>2, <1>3, <1>4, <1>5

-----------------------------------------------------------------------------
(* Input of the host.                                                       *)

\* Input loses nothing and does not touch the frame of a guest that fetches.
Adds(t, p) ==
  /\ Carried(t, p) /\ p.state = t.state
  /\ t.state # 3 => p.response = t.response

LEMMA AddsThroughPoll ==
  ASSUME NEW n \in Nat, NEW t, NEW u, Sound(u, n), u.response = t.response,
         u.state = t.state, u.transfer = t.transfer, u.commandPending = t.commandPending,
         u.controllerByte = t.controllerByte,
         \A k \in EdgeKinds : Elements(Queue(t, k)) \subseteq Elements(Queue(u, k))
  PROVE  Sound(RequestAutoPoll(u), n) /\ Adds(t, RequestAutoPoll(u))
<1> DEFINE p == RequestAutoPoll(u)
<1>1. Sound(p, n) /\ Follows(u, p) /\ (u.state # 3 => p.response = u.response)
  BY RequestAutoPollSound
<1> HIDE DEF p
<1>2. Keeps(t, p)
  BY <1>1 DEF Follows, Carried, Keeps
<1>3. Adds(t, p)
  BY <1>1, <1>2 DEF Adds, Follows, Carried, Fetches
<1> QED BY <1>1, <1>3 DEF p

LEMMA AppendKeeps ==
  ASSUME NEW q \in Seq(1 .. MaxEdges), NEW e \in 1 .. MaxEdges
  PROVE  Append(q, e) \in Seq(1 .. MaxEdges) /\ Elements(q) \subseteq Elements(Append(q, e))
<1>1. /\ Append(q, e) \in Seq(1 .. MaxEdges) /\ Len(Append(q, e)) = Len(q) + 1 /\ Len(q) \in Nat
      /\ \A i \in 1 .. Len(q) : Append(q, e)[i] = q[i]
  OBVIOUS
<1>2. \A i \in 1 .. Len(q) : i \in 1 .. Len(Append(q, e))
  BY <1>1
<1> QED BY <1>1, <1>2 DEF Elements

LEMMA QueueKeySound ==
  ASSUME NEW n \in Nat, NEW t, Sound(t, n), n + 1 <= MaxEdges
  PROVE  Sound(QueueKey(t, n + 1), n + 1) /\ Adds(t, QueueKey(t, n + 1))
<1> DEFINE q == Append(t.keyEvents, n + 1)
           u == [t EXCEPT !.keyEvents = q, !.keyboardPolled = FALSE]
<1>1. t \in TransceiverType /\ t.response \in Seq(ByteType) /\ t.controllerByte \in ByteType
      /\ t.keyEvents \in Seq(Nat) /\ t.buttonEvents \in Seq(Nat) /\ t.keyEvents \in Seq(1 .. MaxEdges)
  BY Fields DEF Sound
<1>2. q \in Seq(1 .. MaxEdges) /\ Elements(t.keyEvents) \subseteq Elements(q)
  BY <1>1, AppendKeeps, AdbAssumption
<1>3. /\ Line(t.controllerByte, t.response, q, "key", n + 1)
      /\ Line(t.controllerByte, t.response, t.buttonEvents, "button", n + 1)
  BY <1>1, LineAppended DEF Sound, EdgeKinds
<1>4. QueueKey(t, n + 1) = RequestAutoPoll(u)
  BY <1>1 DEF QueueKey, TransceiverType
<1> HIDE DEF q
<1>5. u \in TransceiverType
  BY <1>1, <1>2 DEF TransceiverType
<1>6. /\ u.response = t.response /\ u.state = t.state /\ u.transfer = t.transfer
      /\ u.commandPending = t.commandPending /\ u.controllerByte = t.controllerByte
      /\ u.keyEvents = q /\ u.buttonEvents = t.buttonEvents /\ u.irq = t.irq /\ u.retrying = t.retrying
      /\ u.transferStatus = t.transferStatus /\ u.errorReportPending = t.errorReportPending
  BY <1>1 DEF TransceiverType
<1> HIDE DEF u
<1>7. Flags(u)
  BY <1>6 DEF Flags, Sound
<1>8. Sound(u, n + 1)
  BY <1>3, <1>5, <1>6, <1>7 DEF Sound
<1>9. \A k \in EdgeKinds : Elements(Queue(t, k)) \subseteq Elements(Queue(u, k))
  BY <1>2, <1>6 DEF Queue
<1> QED BY <1>4, <1>6, <1>8, <1>9, AddsThroughPoll

LEMMA SetMouseButtonSound ==
  ASSUME NEW n \in Nat, NEW t, Sound(t, n), n + 1 <= MaxEdges
  PROVE  Sound(SetMouseButton(t, n + 1), n + 1) /\ Adds(t, SetMouseButton(t, n + 1))
<1> DEFINE q == Append(t.buttonEvents, n + 1)
           u == [t EXCEPT !.buttonEvents = q, !.mousePolled = FALSE]
<1>1. t \in TransceiverType /\ t.response \in Seq(ByteType) /\ t.controllerByte \in ByteType
      /\ t.keyEvents \in Seq(Nat) /\ t.buttonEvents \in Seq(Nat) /\ t.buttonEvents \in Seq(1 .. MaxEdges)
  BY Fields DEF Sound
<1>2. q \in Seq(1 .. MaxEdges) /\ Elements(t.buttonEvents) \subseteq Elements(q)
  BY <1>1, AppendKeeps, AdbAssumption
<1>3. /\ Line(t.controllerByte, t.response, q, "button", n + 1)
      /\ Line(t.controllerByte, t.response, t.keyEvents, "key", n + 1)
  BY <1>1, LineAppended DEF Sound, EdgeKinds
<1>4. SetMouseButton(t, n + 1) = RequestAutoPoll(u)
  BY <1>1 DEF SetMouseButton, TransceiverType
<1> HIDE DEF q
<1>5. u \in TransceiverType
  BY <1>1, <1>2 DEF TransceiverType
<1>6. /\ u.response = t.response /\ u.state = t.state /\ u.transfer = t.transfer
      /\ u.commandPending = t.commandPending /\ u.controllerByte = t.controllerByte
      /\ u.buttonEvents = q /\ u.keyEvents = t.keyEvents /\ u.irq = t.irq /\ u.retrying = t.retrying
      /\ u.transferStatus = t.transferStatus /\ u.errorReportPending = t.errorReportPending
  BY <1>1 DEF TransceiverType
<1> HIDE DEF u
<1>7. Flags(u)
  BY <1>6 DEF Flags, Sound
<1>8. Sound(u, n + 1)
  BY <1>3, <1>5, <1>6, <1>7 DEF Sound
<1>9. \A k \in EdgeKinds : Elements(Queue(t, k)) \subseteq Elements(Queue(u, k))
  BY <1>2, <1>6 DEF Queue
<1> QED BY <1>4, <1>6, <1>8, <1>9, AddsThroughPoll

LEMMA MoveMouseSound ==
  ASSUME NEW n \in Nat, NEW t, Sound(t, n), NEW m \in 0 .. MaxMotion
  PROVE  Sound(MoveMouse(t, m), n) /\ Adds(t, MoveMouse(t, m))
<1> DEFINE u == [t EXCEPT !.motion = m]
<1>1. t \in TransceiverType
  BY DEF Sound
<1>2. MoveMouse(t, m) = RequestAutoPoll(u)
  BY DEF MoveMouse
<1>3. u \in TransceiverType
  BY <1>1 DEF TransceiverType
<1>4. /\ u.response = t.response /\ Same(t, u) /\ SameQueues(t, u)
      /\ u.errorReportPending = t.errorReportPending
  BY <1>1 DEF TransceiverType, Same, SameQueues
<1> HIDE DEF u
<1>5. Sound(u, n)
  BY <1>3, <1>4, SoundKept DEF Same, Sound, Flags
<1>6. \A k \in EdgeKinds : Elements(Queue(t, k)) \subseteq Elements(Queue(u, k))
  BY <1>4 DEF Queue, SameQueues
<1> QED BY <1>2, <1>4, <1>5, <1>6, AddsThroughPoll DEF Same

LEMMA ResetInputSound ==
  ASSUME NEW n \in Nat, NEW t, Sound(t, n)
  PROVE  LET p == ResetInput(t) IN Sound(p, n) /\ Same(t, p) /\ p.response = t.response
<1> DEFINE p == ResetInput(t)
<1>1. t \in TransceiverType /\ t.response \in Seq(ByteType) /\ t.controllerByte \in ByteType
      /\ t.keyEvents \in Seq(Nat) /\ t.buttonEvents \in Seq(Nat)
  BY Fields DEF Sound
<1>2. << >> \in Seq(1 .. MaxEdges) /\ 0 \in 0 .. MaxMotion
  BY AdbAssumption
<1>3. p \in TransceiverType
  BY <1>1, <1>2 DEF ResetInput, TransceiverType
<1>4. /\ Same(t, p) /\ p.response = t.response /\ p.keyEvents = << >> /\ p.buttonEvents = << >>
      /\ p.errorReportPending = t.errorReportPending
  BY <1>1 DEF ResetInput, TransceiverType, Same
<1> HIDE DEF p
<1>5. /\ Line(t.controllerByte, t.response, << >>, "key", n)
      /\ Line(t.controllerByte, t.response, << >>, "button", n)
  BY <1>1, LineCleared DEF Sound, EdgeKinds
<1>6. Flags(p)
  BY <1>4 DEF Flags, Sound, Same
<1> QED BY <1>3, <1>4, <1>5, <1>6 DEF Sound, Same, p

LEMMA NewTransceiverSound ==
  ASSUME NEW n \in Nat
  PROVE  Sound(NewTransceiver, n)
<1>1. /\ << >> \in Seq(ByteType) /\ << >> \in Seq(Bytes \cup {0}) /\ << >> \in Seq(1 .. MaxEdges)
      /\ 0 \in 0 .. MaxMotion /\ Fill \in ByteType
  BY AdbAssumption DEF Fill, Byte, ByteType
<1>2. NewTransceiver \in TransceiverType
  BY <1>1 DEF NewTransceiver, TransceiverType
<1>3. \A k \in EdgeKinds : ~Carries(Fill, k)
  BY DEF Fill, Byte, Carries
<1>4. Line(Fill, << >>, << >>, "key", n) /\ Line(Fill, << >>, << >>, "button", n)
  BY <1>3 DEF Line, EdgeKinds
<1> QED BY <1>2, <1>4 DEF Sound, Flags, NewTransceiver

-----------------------------------------------------------------------------
(* The bus.                                                                 *)

\* A byte that is pending was shifted out by the guest and is not completed yet.
PendingOwed == adb.commandPending => owed

\* The manager puts at most two bytes, and only from S1 and S2.
ManagerPlace ==
  /\ use.guest = "any" => guest.at = "start"
  /\ guest.at = "staged" => guest.listened = 0
  /\ guest.at = "put" => guest.listened < 2 /\ adb.state \in {1, 2}
  /\ guest.at \in {"wait", "got"} /\ Operation(guest.command) = Listen /\ adb.state \in {0, 3}
       => guest.listened < 2

Inv == TypeOK /\ Sound(adb, edges) /\ PendingOwed /\ ManagerPlace

GuestType(commands) ==
  [at : {"start", "idle", "staged", "wait", "got", "put"}, low : BOOLEAN,
   command : Bytes \cup {0}, listened : 0 .. 2, issued : 0 .. commands]

LEMMA UseFields ==
  ASSUME NEW u \in Uses
  PROVE  u.commands \in Nat /\ u.edges \in 0 .. MaxEdges /\ u.guest \in {"any", "manager"}
BY BusAssumption DEF UseType

LEMMA ResetTransceiverSound ==
  ASSUME NEW n \in Nat
  PROVE  /\ Sound(ResetTransceiver, n) /\ ResetTransceiver.state = 0
         /\ ~ResetTransceiver.commandPending
<1>1. Sound(NewTransceiver, n) /\ ~NewTransceiver.commandPending
  BY NewTransceiverSound DEF NewTransceiver
<1> QED BY <1>1, SetViaStateSound DEF ResetTransceiver, Carried

LEMMA InitInv == Init => Inv
<1> SUFFICES ASSUME Init PROVE Inv
  OBVIOUS
<1>1. use.commands \in Nat /\ use.edges \in 0 .. MaxEdges
  BY UseFields DEF Init
<1>2. guest \in GuestType(use.commands)
  BY <1>1 DEF Init, NewGuest, GuestType
<1>3. Sound(adb, edges) /\ adb \in TransceiverType
  BY ResetTransceiverSound DEF Init, Sound
<1>4. TypeOK
  <2>1. edges \in 0 .. use.edges /\ seen \in 0 .. edges
    BY <1>1, AdbAssumption DEF Init
  <2>2. use \in Uses /\ ifr \in BOOLEAN /\ owed \in BOOLEAN
    BY DEF Init
  <2> QED BY <1>2, <1>3, <2>1, <2>2 DEF TypeOK, GuestType
<1>5. PendingOwed /\ ManagerPlace
  BY ResetTransceiverSound DEF Init, PendingOwed, ManagerPlace, NewGuest
<1> QED BY <1>3, <1>4, <1>5 DEF Inv

\* What holds before every step.
LEMMA Before ==
  ASSUME Inv
  PROVE  /\ use \in Uses /\ use.commands \in Nat /\ use.edges \in 0 .. MaxEdges
         /\ adb \in TransceiverType /\ adb.state \in 0 .. 3 /\ ifr \in BOOLEAN /\ owed \in BOOLEAN
         /\ guest \in GuestType(use.commands) /\ edges \in 0 .. use.edges /\ seen \in 0 .. edges
         /\ edges \in Nat /\ Sound(adb, edges)
<1>1. use \in Uses /\ use.commands \in Nat /\ use.edges \in 0 .. MaxEdges
  BY UseFields DEF Inv, TypeOK
<1>2. adb \in TransceiverType /\ adb.state \in 0 .. 3
  BY DEF Inv, TypeOK, TransceiverType
<1>3. /\ ifr \in BOOLEAN /\ owed \in BOOLEAN
      /\ guest \in GuestType(use.commands) /\ edges \in 0 .. use.edges /\ seen \in 0 .. edges
  BY DEF Inv, TypeOK, GuestType
<1>4. edges \in Nat
  BY <1>1, <1>3, AdbAssumption
<1> QED BY <1>1, <1>2, <1>3, <1>4 DEF Inv

\* The invariant after a step of the machine or the host, which leaves the
\* manager and the state it is in alone.
LEMMA SameManager ==
  ASSUME Inv, use' = use, guest' = guest, adb'.state = adb.state \/ guest.at = "start",
         Sound(adb', edges'), PendingOwed',
         edges' \in 0 .. use.edges, seen' \in 0 .. edges', ifr' \in BOOLEAN, owed' \in BOOLEAN
  PROVE  Inv'
<1>1. TypeOK'
  BY DEF Inv, TypeOK, Sound
<1>2. ManagerPlace'
  BY DEF Inv, ManagerPlace
<1> QED BY <1>1, <1>2 DEF Inv

LEMMA TickInv == Inv /\ Tick => Inv'
<1> SUFFICES ASSUME Inv, Tick PROVE Inv'
  OBVIOUS
<1>1. /\ adb \in TransceiverType /\ edges \in Nat /\ Sound(adb, edges) /\ owed \in BOOLEAN
      /\ edges \in 0 .. use.edges /\ seen \in 0 .. edges /\ ifr \in BOOLEAN
  BY Before
<1>2. CASE HostTransferEnds
  <2> DEFINE p == HostTransferDone(adb)
  <2>1. Sound(p, edges) /\ p.state = adb.state /\ ~p.commandPending
    BY <1>1, HostTransferDoneSound
  <2>2. /\ adb' = p /\ ifr' = TRUE /\ owed' = FALSE
        /\ use' = use /\ guest' = guest /\ edges' = edges /\ seen' = seen
    BY <1>2 DEF HostTransferEnds
  <2> HIDE DEF p
  <2> QED BY <1>1, <2>1, <2>2, SameManager DEF PendingOwed
<1>3. CASE ControllerTransferEnds
  <2> DEFINE p == ControllerTransferDone(adb)
  <2>1. Sound(p, edges) /\ p.state = adb.state /\ p.commandPending = adb.commandPending
    BY <1>1, ControllerTransferDoneSound
  <2>2. /\ adb' = p /\ ifr' = TRUE /\ owed' = owed
        /\ use' = use /\ guest' = guest /\ edges' = edges
    BY <1>3 DEF ControllerTransferEnds
  <2>3. seen' \in 0 .. edges
    <3>1. adb.controllerByte.n \in Nat
      BY <1>1, Fields DEF ByteType
    <3>2. Carries(adb.controllerByte, "key") \/ Carries(adb.controllerByte, "button")
            => adb.controllerByte.n <= edges
      BY <1>1 DEF Sound, Line
    <3> QED BY <1>1, <1>3, <3>1, <3>2 DEF ControllerTransferEnds, Carries
  <2> HIDE DEF p
  <2> QED BY <1>1, <2>1, <2>2, <2>3, SameManager DEF PendingOwed, Inv
<1>4. CASE CountdownEnds
  <2> DEFINE p == IdleTick(adb)
  <2>1. Sound(p, edges) /\ Follows(adb, p)
    BY <1>1, <1>4, IdleTickSound DEF CountdownEnds
  <2>2. /\ adb' = p /\ ifr' = ifr /\ owed' = owed
        /\ use' = use /\ guest' = guest /\ edges' = edges /\ seen' = seen
    BY <1>4 DEF CountdownEnds
  <2> HIDE DEF p
  <2> QED BY <1>1, <2>1, <2>2, SameManager DEF PendingOwed, Inv, Follows, Carried
<1> QED BY <1>2, <1>3, <1>4 DEF Tick

LEMMA HostInv ==
  Inv /\ (HostKey \/ HostButton \/ HostResetsInput \/ \E m \in 0 .. MaxMotion : HostMoves(m)) => Inv'
<1> SUFFICES ASSUME Inv, HostKey \/ HostButton \/ HostResetsInput \/ \E m \in 0 .. MaxMotion : HostMoves(m)
             PROVE  Inv'
  OBVIOUS
<1>1. /\ adb \in TransceiverType /\ edges \in Nat /\ Sound(adb, edges) /\ owed \in BOOLEAN
      /\ edges \in 0 .. use.edges /\ seen \in 0 .. edges /\ ifr \in BOOLEAN /\ use.edges \in 0 .. MaxEdges
  BY Before
<1>2. CASE HostKey
  <2> DEFINE p == QueueKey(adb, edges + 1)
  <2>1. edges + 1 <= MaxEdges /\ edges + 1 \in 0 .. use.edges /\ seen \in 0 .. edges + 1
    BY <1>1, <1>2, AdbAssumption DEF HostKey
  <2>2. Sound(p, edges + 1) /\ Adds(adb, p)
    BY <1>1, <2>1, QueueKeySound
  <2>3. /\ adb' = p /\ ifr' = ifr /\ owed' = owed
        /\ use' = use /\ guest' = guest /\ edges' = edges + 1 /\ seen' = seen
    BY <1>2 DEF HostKey
  <2> HIDE DEF p
  <2> QED BY <1>1, <2>1, <2>2, <2>3, SameManager DEF PendingOwed, Inv, Adds, Carried
<1>3. CASE HostButton
  <2> DEFINE p == SetMouseButton(adb, edges + 1)
  <2>1. edges + 1 <= MaxEdges /\ edges + 1 \in 0 .. use.edges /\ seen \in 0 .. edges + 1
    BY <1>1, <1>3, AdbAssumption DEF HostButton
  <2>2. Sound(p, edges + 1) /\ Adds(adb, p)
    BY <1>1, <2>1, SetMouseButtonSound
  <2>3. /\ adb' = p /\ ifr' = ifr /\ owed' = owed
        /\ use' = use /\ guest' = guest /\ edges' = edges + 1 /\ seen' = seen
    BY <1>3 DEF HostButton
  <2> HIDE DEF p
  <2> QED BY <1>1, <2>1, <2>2, <2>3, SameManager DEF PendingOwed, Inv, Adds, Carried
<1>4. CASE HostResetsInput
  <2> DEFINE p == ResetInput(adb)
  <2>1. Sound(p, edges) /\ Same(adb, p)
    BY <1>1, ResetInputSound
  <2>2. /\ adb' = p /\ ifr' = ifr /\ owed' = owed
        /\ use' = use /\ guest' = guest /\ edges' = edges /\ seen' = seen
    BY <1>4 DEF HostResetsInput
  <2> HIDE DEF p
  <2> QED BY <1>1, <2>1, <2>2, SameManager DEF PendingOwed, Inv, Same
<1>5. ASSUME NEW m \in 0 .. MaxMotion, HostMoves(m)
      PROVE  Inv'
  <2> DEFINE p == MoveMouse(adb, m)
  <2>1. Sound(p, edges) /\ Adds(adb, p)
    BY <1>1, MoveMouseSound
  <2>2. /\ adb' = p /\ ifr' = ifr /\ owed' = owed
        /\ use' = use /\ guest' = guest /\ edges' = edges /\ seen' = seen
    BY <1>5 DEF HostMoves
  <2> HIDE DEF p
  <2> QED BY <1>1, <2>1, <2>2, SameManager DEF PendingOwed, Inv, Adds, Carried
<1> QED BY <1>2, <1>3, <1>4, <1>5

LEMMA AnyInv ==
  Inv /\ ((\E b \in Bytes : AnyWrites(b)) \/ (\E s \in 0 .. 3 : AnySetsState(s))) => Inv'
<1> SUFFICES ASSUME Inv, (\E b \in Bytes : AnyWrites(b)) \/ (\E s \in 0 .. 3 : AnySetsState(s))
             PROVE  Inv'
  OBVIOUS
<1>1. /\ edges \in Nat /\ Sound(adb, edges) /\ owed \in BOOLEAN
      /\ edges \in 0 .. use.edges /\ seen \in 0 .. edges /\ ifr \in BOOLEAN
  BY Before
<1>2. ASSUME NEW b \in Bytes, AnyWrites(b)
      PROVE  Inv'
  <2> DEFINE p == ShiftRegisterWritten(adb, b)
  <2>1. Sound(p, edges) /\ p.state = adb.state
    BY <1>1, ShiftRegisterWrittenSound
  <2>2. /\ adb' = p /\ ifr' = FALSE /\ owed' = TRUE
        /\ use' = use /\ guest' = guest /\ edges' = edges /\ seen' = seen
    BY <1>2 DEF AnyWrites, WriteShiftRegister
  <2> HIDE DEF p
  <2> QED BY <1>1, <2>1, <2>2, SameManager DEF PendingOwed
<1>3. ASSUME NEW s \in 0 .. 3, AnySetsState(s)
      PROVE  Inv'
  <2> DEFINE p == SetViaState(adb, s)
  <2>1. Sound(p, edges) /\ Carried(adb, p)
    BY <1>1, SetViaStateSound
  <2>2. /\ adb' = p /\ ifr' = ifr /\ owed' = owed /\ use.guest = "any"
        /\ use' = use /\ guest' = guest /\ edges' = edges /\ seen' = seen
    BY <1>3 DEF AnySetsState
  <2>3. guest.at = "start"
    BY <2>2 DEF Inv, ManagerPlace
  <2> HIDE DEF p
  <2> QED BY <1>1, <2>1, <2>2, <2>3, SameManager DEF PendingOwed, Inv, Carried
<1> QED BY <1>2, <1>3

\* The states the manager goes to.
LEMMA NextStates ==
  ASSUME adb.state \in 0 .. 3
  PROVE  /\ NextState \in 1 .. 3
         /\ NextState # 3 /\ Operation(guest.command) = Listen => adb.state \in {0, 3} \/ guest.listened # 2
<1>1. CASE adb.state \in {0, 3}
  BY <1>1 DEF NextState
<1>2. CASE adb.state \in {1, 2}
  BY <1>2 DEF NextState, Listen
<1> QED BY <1>1, <1>2

\* The invariant after a step of the manager: its own part has to be shown.
LEMMA ManagerMoved ==
  ASSUME Inv, use' = use, edges' = edges, seen' = seen, Sound(adb', edges), PendingOwed',
         ifr' \in BOOLEAN, owed' \in BOOLEAN, guest' \in GuestType(use.commands), ManagerPlace'
  PROVE  Inv'
<1>1. TypeOK'
  BY DEF Inv, TypeOK, Sound, GuestType
<1> QED BY <1>1 DEF Inv

LEMMA ManagerInv == Inv /\ Manager => Inv'
<1> SUFFICES ASSUME Inv, Manager PROVE Inv'
  OBVIOUS
<1>1. /\ edges \in Nat /\ Sound(adb, edges) /\ owed \in BOOLEAN /\ ifr \in BOOLEAN
      /\ guest \in GuestType(use.commands) /\ use.commands \in Nat
      /\ adb.state \in 0 .. 3 /\ adb \in TransceiverType
  BY Before
<1>2. /\ guest.issued \in 0 .. use.commands /\ guest.listened \in 0 .. 2 /\ guest.low \in BOOLEAN
      /\ guest.command \in Bytes \cup {0}
      /\ guest.at \in {"start", "idle", "staged", "wait", "got", "put"}
  BY <1>1 DEF GuestType
<1>3. ManagerPlace /\ PendingOwed
  BY DEF Inv
<1>4. ASSUME NEW b \in Bytes, ManagerStages(b)
      PROVE  Inv'
  <2> DEFINE p == ShiftRegisterWritten(adb, b)
             more == guest.issued + 1
             g == [guest EXCEPT !.at = "staged", !.command = b, !.listened = 0, !.issued = more]
  <2>1. Sound(p, edges)
    BY <1>1, ShiftRegisterWrittenSound
  <2>2. /\ adb' = p /\ ifr' = FALSE /\ owed' = TRUE /\ guest' = g
        /\ use' = use /\ edges' = edges /\ seen' = seen
        /\ guest.issued < use.commands /\ use.guest = "manager"
    BY <1>4 DEF ManagerStages, WriteShiftRegister
  <2>3. more \in 0 .. use.commands /\ 0 \in 0 .. 2
    BY <1>1, <1>2, <2>2
  <2> HIDE DEF more
  <2>4. g \in GuestType(use.commands) /\ g.at = "staged" /\ g.listened = 0
    BY <1>1, <2>3 DEF GuestType
  <2> HIDE DEF p, g
  <2>5. ManagerPlace'
    BY <2>2, <2>4 DEF ManagerPlace
  <2> QED BY <2>1, <2>2, <2>4, <2>5, ManagerMoved DEF PendingOwed
<1>5. CASE ManagerSends
  <2> DEFINE p == SetViaState(adb, 0)
             g == [guest EXCEPT !.at = "wait"]
  <2>1. Sound(p, edges) /\ Carried(adb, p)
    BY <1>1, SetViaStateSound
  <2>2. /\ adb' = p /\ ifr' = ifr /\ owed' = owed /\ guest' = g
        /\ use' = use /\ edges' = edges /\ seen' = seen /\ guest.at = "staged"
    BY <1>5 DEF ManagerSends
  <2>3. g \in GuestType(use.commands) /\ g.at = "wait" /\ g.listened = guest.listened
    BY <1>1 DEF GuestType
  <2> HIDE DEF p, g
  <2>4. ManagerPlace'
    BY <1>3, <2>2, <2>3 DEF ManagerPlace
  <2>5. PendingOwed'
    BY <1>3, <2>1, <2>2 DEF PendingOwed, Carried
  <2> QED BY <1>1, <2>1, <2>2, <2>3, <2>4, <2>5, ManagerMoved
<1>6. CASE ManagerReads
  <2> DEFINE c == IF guest.at = "idle" THEN 0 ELSE guest.command
             g == [guest EXCEPT !.at = "got", !.low = adb.irq, !.command = c]
  <2>1. /\ adb' = adb /\ ifr' = FALSE /\ owed' = owed /\ guest' = g
        /\ use' = use /\ edges' = edges /\ seen' = seen
        /\ use.guest = "manager" /\ guest.at \in {"idle", "wait"}
    BY <1>6 DEF ManagerReads
  <2>2. c \in Bytes \cup {0} /\ adb.irq \in BOOLEAN
    BY <1>1, <1>2 DEF TransceiverType
  <2>3. Operation(c) = Listen => guest.at = "wait" /\ c = guest.command
    BY <2>1 DEF Operation, Listen
  <2> HIDE DEF c
  <2>4. g \in GuestType(use.commands) /\ g.at = "got" /\ g.listened = guest.listened /\ g.command = c
    BY <1>1, <2>2 DEF GuestType
  <2> HIDE DEF g
  <2>5. ManagerPlace'
    BY <1>3, <2>1, <2>3, <2>4 DEF ManagerPlace
  <2>6. PendingOwed'
    BY <1>3, <2>1 DEF PendingOwed
  <2> QED BY <1>1, <2>1, <2>4, <2>5, <2>6, ManagerMoved
<1>7. CASE ManagerAdvances
  <2> DEFINE s == NextState
             p == SetViaState(adb, s)
             next == IF s = 3 THEN "idle"
                     ELSE IF Operation(guest.command) = Listen THEN "put" ELSE "wait"
             g == [guest EXCEPT !.at = next]
  <2>1. /\ adb' = p /\ ifr' = ifr /\ owed' = owed /\ guest' = g
        /\ use' = use /\ edges' = edges /\ seen' = seen /\ guest.at = "got"
    BY <1>7 DEF ManagerAdvances
  <2>2. /\ s \in 1 .. 3
        /\ s # 3 /\ Operation(guest.command) = Listen => adb.state \in {0, 3} \/ guest.listened # 2
    BY <1>1, NextStates
  <2> HIDE DEF s
  <2>3. Sound(p, edges) /\ Carried(adb, p) /\ p.state = s
    BY <1>1, <2>2, SetViaStateSound
  <2>4. g \in GuestType(use.commands) /\ g.at = next /\ g.listened = guest.listened /\ g.command = guest.command
    BY <1>1 DEF GuestType
  <2>5. /\ next = "put" => s # 3 /\ Operation(guest.command) = Listen
        /\ next = "wait" => Operation(guest.command) # Listen
        /\ next \in {"idle", "put", "wait"}
    OBVIOUS
  <2> HIDE DEF p, g, next
  <2>6. next = "put" => guest.listened < 2 /\ s \in {1, 2}
    BY <1>2, <1>3, <2>1, <2>2, <2>5 DEF ManagerPlace
  <2>7. ManagerPlace'
    BY <1>3, <2>1, <2>3, <2>4, <2>5, <2>6 DEF ManagerPlace
  <2>8. PendingOwed'
    BY <1>3, <2>1, <2>3 DEF PendingOwed, Carried
  <2> QED BY <1>1, <2>1, <2>3, <2>4, <2>7, <2>8, ManagerMoved
<1>8. CASE ManagerPuts
  <2> DEFINE more == guest.listened + 1
             b == ListenFrame[more]
             p == ShiftRegisterWritten(adb, b)
             g == [guest EXCEPT !.at = "wait", !.listened = more]
  <2>1. /\ adb' = p /\ ifr' = FALSE /\ owed' = TRUE /\ guest' = g
        /\ use' = use /\ edges' = edges /\ seen' = seen /\ guest.at = "put"
    BY <1>8 DEF ManagerPuts, WriteShiftRegister
  <2>2. more \in 1 .. 2 /\ adb.state \in {1, 2}
    BY <1>2, <1>3, <2>1 DEF ManagerPlace
  <2>3. b \in Bytes
    BY <2>2, BusAssumption
  <2> HIDE DEF more, b
  <2>4. Sound(p, edges) /\ p.state = adb.state
    BY <1>1, <2>3, ShiftRegisterWrittenSound
  <2>5. more \in 0 .. 2
    BY <2>2
  <2>6. g \in GuestType(use.commands) /\ g.at = "wait"
    BY <1>1, <2>5 DEF GuestType
  <2> HIDE DEF p, g
  <2>7. ManagerPlace'
    BY <1>3, <2>1, <2>2, <2>4, <2>6 DEF ManagerPlace
  <2> QED BY <2>1, <2>4, <2>6, <2>7, ManagerMoved DEF PendingOwed
<1>9. CASE ManagerStarts
  <2> DEFINE p == SetViaState(adb, 3)
             g == [guest EXCEPT !.at = "idle"]
  <2>1. Sound(p, edges) /\ Carried(adb, p)
    BY <1>1, SetViaStateSound
  <2>2. /\ adb' = p /\ ifr' = ifr /\ owed' = owed /\ guest' = g
        /\ use' = use /\ edges' = edges /\ seen' = seen /\ use.guest = "manager"
    BY <1>9 DEF ManagerStarts
  <2>3. g \in GuestType(use.commands) /\ g.at = "idle"
    BY <1>1 DEF GuestType
  <2> HIDE DEF p, g
  <2>4. ManagerPlace'
    BY <2>2, <2>3 DEF ManagerPlace
  <2>5. PendingOwed'
    BY <1>3, <2>1, <2>2 DEF PendingOwed, Carried
  <2> QED BY <1>1, <2>1, <2>2, <2>3, <2>4, <2>5, ManagerMoved
<1> QED BY <1>4, <1>5, <1>6, <1>7, <1>8, <1>9 DEF Manager

LEMMA ResetInv == Inv /\ Reset => Inv'
<1> SUFFICES ASSUME Inv, Reset PROVE Inv'
  OBVIOUS
<1>1. edges \in Nat /\ guest \in GuestType(use.commands) /\ use.commands \in Nat
  BY Before
<1> DEFINE g == [NewGuest EXCEPT !.issued = guest.issued]
<1>2. guest.issued \in 0 .. use.commands
  BY <1>1 DEF GuestType
<1>3. g \in GuestType(use.commands) /\ g.at = "start"
  <2>1. NewGuest \in GuestType(use.commands) /\ NewGuest.at = "start"
    BY <1>1 DEF NewGuest, GuestType
  <2> QED BY <1>2, <2>1 DEF GuestType
<1>4. /\ adb' = ResetTransceiver /\ ifr' = FALSE /\ owed' = FALSE /\ guest' = g
      /\ use' = use /\ edges' = edges /\ seen' = seen
  BY DEF Reset
<1>5. Sound(ResetTransceiver, edges) /\ ~ResetTransceiver.commandPending
  BY <1>1, ResetTransceiverSound
<1> HIDE DEF g
<1>6. ManagerPlace'
  BY <1>3, <1>4 DEF ManagerPlace
<1> QED BY <1>3, <1>4, <1>5, <1>6, ManagerMoved DEF PendingOwed

LEMMA InvStep == Inv /\ [Next]_vars => Inv'
<1> SUFFICES ASSUME Inv, [Next]_vars PROVE Inv'
  OBVIOUS
<1>1. CASE UNCHANGED vars
  BY <1>1 DEF vars, Inv, TypeOK, PendingOwed, ManagerPlace
<1>2. CASE Next
  BY <1>2, TickInv, HostInv, AnyInv, ManagerInv, ResetInv DEF Next
<1> QED BY <1>1, <1>2

\* The inductive invariant: edges in line, flags and manager in step.
THEOREM Invariance == Spec => []Inv
<1>1. Init => Inv
  BY InitInv
<1>2. Inv /\ [Next]_vars => Inv'
  BY InvStep
<1> QED BY <1>1, <1>2, PTL DEF Spec

\* The transceiver, the manager and the histories keep their types: no motion
\* beyond the limit, no address or state beyond its bits (AdbTransceiver.cpp:92-430).
THEOREM TypeCorrect == Spec => []TypeOK
<1>1. Inv => TypeOK
  BY DEF Inv
<1> QED BY <1>1, Invariance, PTL

LEMMA InvInOrder == Inv => EdgesInOrder
<1> SUFFICES ASSUME Inv, NEW k \in EdgeKinds
             PROVE  /\ FrameInOrder(adb, k) /\ Increasing(Queue(adb, k))
                    /\ Precedes(InFlight(adb, k), InFrame(adb, k) \cup Elements(Queue(adb, k)))
                    /\ Precedes(InFrame(adb, k), Elements(Queue(adb, k)))
  BY DEF EdgesInOrder
<1> DEFINE q == Queue(adb, k)
<1>1. Line(adb.controllerByte, adb.response, q, k, edges)
  BY DEF Inv, Sound, Queue, EdgeKinds
<1> HIDE DEF q
<1>2. FrameInOrder(adb, k) /\ Increasing(q)
  BY <1>1 DEF Line, FrameInOrder, Increasing
<1>3. Precedes(InFlight(adb, k), InFrame(adb, k))
  BY <1>1 DEF Line, Precedes, InFlight, InFrame
<1>4. Precedes(InFlight(adb, k), Elements(q))
  BY <1>1 DEF Line, Precedes, InFlight, Elements
<1>5. Precedes(InFrame(adb, k), Elements(q))
  BY <1>1 DEF Line, Precedes, InFrame, Elements
<1>6. Precedes(InFlight(adb, k), InFrame(adb, k) \cup Elements(q))
  BY <1>3, <1>4 DEF Precedes
<1> QED BY <1>2, <1>5, <1>6 DEF q

\* Key transitions and button edges reach the guest in the order the host made
\* them, for any guest, any bytes and any number of edges
\* (AdbTransceiver.cpp:282-287, 359-380, 419-430).
THEOREM EdgesInOrderHolds == Spec => []EdgesInOrder
BY InvInOrder, Invariance, PTL

-----------------------------------------------------------------------------
(* The byte handshake.                                                      *)

LEMMA OneByteStep ==
  ASSUME Inv, [Next]_vars, adb.state \in {1, 2}, adb'.state = adb.state, adb'.response # adb.response
  PROVE  adb.transfer = "host" \/ (adb.response # << >> /\ adb'.response = Tail(adb.response) /\ ~adb.retrying)
<1>1. edges \in Nat /\ Sound(adb, edges) /\ use.edges \in 0 .. MaxEdges /\ edges \in 0 .. use.edges
      /\ adb.state \in 0 .. 3
  BY Before
<1>2. CASE Tick
  <2>1. CASE ControllerTransferEnds
    BY <1>1, <2>1, ControllerTransferDoneSound DEF ControllerTransferEnds
  <2>2. CASE CountdownEnds
    BY <1>1, <2>2, IdleTickSound DEF CountdownEnds, Follows, Carried, Fetches
  <2> QED BY <1>2, <2>1, <2>2 DEF Tick, HostTransferEnds
<1>3. ASSUME NEW b \in Bytes, adb' = ShiftRegisterWritten(adb, b)
      PROVE  FALSE
  BY <1>1, <1>3, ShiftRegisterWrittenSound
<1>4. ASSUME NEW s \in 0 .. 3, adb' = SetViaState(adb, s)
      PROVE  FALSE
  BY <1>1, <1>4, SetViaStateSound
<1>5. CASE Manager
  <2>1. CASE ManagerStarts \/ ManagerSends
    BY <1>4, <2>1 DEF ManagerStarts, ManagerSends
  <2>2. CASE ManagerAdvances
    <3>1. NextState \in 0 .. 3
      BY <1>1, NextStates
    <3> QED BY <1>4, <2>2, <3>1 DEF ManagerAdvances
  <2>3. CASE ManagerPuts
    <3>1. guest.listened \in 0 .. 2 /\ guest.listened < 2
      BY <2>3 DEF Inv, ManagerPlace, TypeOK, ManagerPuts
    <3>2. guest.listened + 1 \in 1 .. 2
      BY <3>1
    <3>3. ListenFrame[guest.listened + 1] \in Bytes
      BY <3>2, BusAssumption
    <3> QED BY <1>3, <2>3, <3>3 DEF ManagerPuts, WriteShiftRegister
  <2>4. CASE ManagerReads
    BY <2>4 DEF ManagerReads
  <2> QED BY <1>3, <1>5, <2>1, <2>2, <2>3, <2>4 DEF Manager, ManagerStages, WriteShiftRegister
<1>6. CASE HostKey
  <2>1. edges + 1 <= MaxEdges
    BY <1>1, <1>6, AdbAssumption DEF HostKey
  <2> QED BY <1>1, <1>6, <2>1, QueueKeySound DEF HostKey, Adds
<1>7. CASE HostButton
  <2>1. edges + 1 <= MaxEdges
    BY <1>1, <1>7, AdbAssumption DEF HostButton
  <2> QED BY <1>1, <1>7, <2>1, SetMouseButtonSound DEF HostButton, Adds
<1>8. CASE HostResetsInput
  BY <1>1, <1>8, ResetInputSound DEF HostResetsInput
<1>9. CASE Reset
  BY <1>1, <1>9, ResetTransceiverSound DEF Reset
<1>10. ASSUME NEW m \in 0 .. MaxMotion, HostMoves(m)
       PROVE  FALSE
  BY <1>1, <1>10, MoveMouseSound DEF HostMoves, Adds
<1>11. CASE UNCHANGED vars
  BY <1>11 DEF vars
<1> QED BY <1>2, <1>3, <1>4, <1>5, <1>6, <1>7, <1>8, <1>9, <1>10, <1>11
        DEF Next, AnyWrites, AnySetsState, WriteShiftRegister

\* One completion per byte shifted out, one byte of the frame per state, and PB3
\* low only with a byte that ends a frame, for any guest
\* (hardware-notes.md:71; AdbTransceiver.cpp:92-231).
THEOREM HandshakeHolds == Spec => HandshakeKept
<1>1. Inv => LowOnlyAtEnds
  BY DEF Inv, Sound, Flags, LowOnlyAtEnds
<1>2. Inv /\ [Next]_vars => [HostTransferEnds => owed]_vars
  BY DEF Inv, Sound, Flags, PendingOwed, HostTransferEnds
<1>3. Inv /\ [Next]_vars =>
        [(adb.state \in {1, 2} /\ adb'.state = adb.state /\ adb'.response # adb.response)
           => adb.transfer = "host"
              \/ (adb.response # << >> /\ adb'.response = Tail(adb.response) /\ ~adb.retrying)]_vars
  BY OneByteStep
<1>4. Spec => CompletionsOwed
  BY <1>2, Invariance, PTL DEF Spec, CompletionsOwed
<1>5. Spec => OneBytePerState
  BY <1>3, Invariance, PTL DEF Spec, OneBytePerState
<1>6. Spec => []LowOnlyAtEnds
  BY <1>1, Invariance, PTL
<1> QED BY <1>4, <1>5, <1>6 DEF HandshakeKept

-----------------------------------------------------------------------------
(* Where edges get lost.                                                    *)

\* No edge of kind k on its way is lost between t and p, if seen is n.
LosesNone(t, p, k, n) ==
  /\ InFlight(t, k) \subseteq InFlight(p, k) \cup {n}
  /\ p.state = 3 \/ InFrame(t, k) \subseteq InFrame(p, k) \cup InFlight(p, k)
  /\ Elements(Queue(t, k)) \subseteq Elements(Queue(p, k)) \cup InFrame(p, k)

LEMMA CarriedLosesNone ==
  ASSUME NEW t \in TransceiverType, NEW p, Carried(t, p), NEW k \in EdgeKinds, NEW n
  PROVE  LosesNone(t, p, k, n)
<1>1. InFlight(t, k) \subseteq InFlight(p, k)
  BY DEF Carried, InFlight
<1>2. Fetches(t, p) => InFrame(t, k) \subseteq InFrame(p, k) \cup InFlight(p, k)
  <2>1. CASE p.response = t.response
    BY <2>1 DEF InFrame
  <2>2. CASE /\ t.response # << >> /\ p.response = Tail(t.response)
             /\ p.transfer = "controller" /\ p.controllerByte = Head(t.response)
    <3>1. t.response \in Seq(ByteType)
      BY Fields
    <3>2. /\ Head(t.response) = t.response[1] /\ Len(t.response) \in Nat
          /\ Len(Tail(t.response)) = Len(t.response) - 1
          /\ \A i \in 1 .. Len(Tail(t.response)) : Tail(t.response)[i] = t.response[i + 1]
      BY <2>2, <3>1
    <3>3. ASSUME NEW i \in 1 .. Len(t.response), Carries(t.response[i], k)
          PROVE  t.response[i].n \in InFrame(p, k) \cup InFlight(p, k)
      <4>1. CASE i = 1
        BY <2>2, <3>2, <3>3, <4>1 DEF InFlight
      <4>2. CASE i # 1
        <5>1. i - 1 \in 1 .. Len(p.response) /\ p.response[i - 1] = t.response[i]
          BY <2>2, <3>2, <4>2
        <5> QED BY <3>3, <5>1 DEF InFrame
      <4> QED BY <4>1, <4>2
    <3> QED BY <3>3 DEF InFrame
  <2> QED BY <2>1, <2>2 DEF Fetches
<1> QED BY <1>1, <1>2 DEF LosesNone, Carried, Keeps

\* A step that leaves frame and queues alone, and the transfer if there is one.
LEMMA UntouchedLosesNone ==
  ASSUME NEW t, NEW p, p.response = t.response, SameQueues(t, p),
         t.transfer # "none" => p.transfer = t.transfer /\ p.controllerByte = t.controllerByte,
         NEW k \in EdgeKinds, NEW n
  PROVE  LosesNone(t, p, k, n)
BY DEF LosesNone, InFlight, InFrame, SameQueues, Queue

LEMMA KeptStep ==
  ASSUME Inv, [Next]_vars, ~Reset, NEW k \in EdgeKinds
  PROVE  /\ InFlight(adb, k) \subseteq InFlight(adb', k) \cup {seen'}
         /\ \/ adb.transfer = "host" \/ adb'.state = 3
            \/ InFrame(adb, k) \subseteq InFrame(adb', k) \cup InFlight(adb', k)
         /\ \/ HostResetsInput
            \/ adb.transfer = "host" /\ (Operation(adb.hostByte) = Flush \/ adb.state = 3)
            \/ Elements(Queue(adb, k)) \subseteq Elements(Queue(adb', k)) \cup InFrame(adb', k)
<1>1. edges \in Nat /\ Sound(adb, edges) /\ use.edges \in 0 .. MaxEdges /\ edges \in 0 .. use.edges
      /\ adb.state \in 0 .. 3 /\ adb \in TransceiverType
  BY Before
<1>2. SUFFICES ASSUME ~LosesNone(adb, adb', k, seen')
               PROVE  \/ /\ adb.transfer = "host" /\ InFlight(adb, k) = {}
                         /\ \/ Operation(adb.hostByte) = Flush \/ adb.state = 3
                            \/ Keeps(adb, adb')
                      \/ /\ HostResetsInput /\ InFlight(adb, k) \subseteq InFlight(adb', k)
                         /\ InFrame(adb, k) \subseteq InFrame(adb', k)
  BY DEF LosesNone, Keeps
<1>3. CASE HostTransferEnds
  BY <1>1, <1>3, HostTransferDoneSound DEF HostTransferEnds, InFlight
<1>4. CASE ControllerTransferEnds
  <2> DEFINE p == ControllerTransferDone(adb)
  <2>1. p.response = adb.response /\ SameQueues(adb, p) /\ adb' = p
    BY <1>1, <1>4, ControllerTransferDoneSound DEF ControllerTransferEnds
  <2> HIDE DEF p
  <2>2. InFlight(adb, k) \subseteq {seen'}
    BY <1>4 DEF ControllerTransferEnds, InFlight, Carries, EdgeKinds
  <2> QED BY <1>2, <2>1, <2>2 DEF LosesNone, SameQueues, Queue, InFrame
<1>5. CASE CountdownEnds
  BY <1>1, <1>2, <1>5, IdleTickSound, CarriedLosesNone DEF CountdownEnds, Follows
<1>6. ASSUME NEW b \in Bytes, adb' = ShiftRegisterWritten(adb, b)
      PROVE  FALSE
  BY <1>1, <1>2, <1>6, ShiftRegisterWrittenSound, UntouchedLosesNone
<1>7. ASSUME NEW s \in 0 .. 3, adb' = SetViaState(adb, s)
      PROVE  FALSE
  BY <1>1, <1>2, <1>7, SetViaStateSound, CarriedLosesNone
<1>8. ASSUME adb' = adb
      PROVE  FALSE
  BY <1>2, <1>8 DEF LosesNone
<1>9. CASE Manager
  <2>1. CASE ManagerStarts \/ ManagerSends
    BY <1>7, <2>1 DEF ManagerStarts, ManagerSends
  <2>2. CASE ManagerAdvances
    <3>1. NextState \in 0 .. 3
      BY <1>1, NextStates
    <3> QED BY <1>7, <2>2, <3>1 DEF ManagerAdvances
  <2>3. CASE ManagerPuts
    <3>1. guest.listened \in 0 .. 2 /\ guest.listened < 2
      BY <2>3 DEF Inv, ManagerPlace, TypeOK, ManagerPuts
    <3>2. guest.listened + 1 \in 1 .. 2
      BY <3>1
    <3>3. ListenFrame[guest.listened + 1] \in Bytes
      BY <3>2, BusAssumption
    <3> QED BY <1>6, <2>3, <3>3 DEF ManagerPuts, WriteShiftRegister
  <2>4. CASE ManagerReads
    BY <1>8, <2>4 DEF ManagerReads
  <2> QED BY <1>6, <1>9, <2>1, <2>2, <2>3, <2>4 DEF Manager, ManagerStages, WriteShiftRegister
<1>10. CASE HostKey
  <2>1. edges + 1 <= MaxEdges
    BY <1>1, <1>10, AdbAssumption DEF HostKey
  <2> QED BY <1>1, <1>2, <1>10, <2>1, QueueKeySound, CarriedLosesNone DEF HostKey, Adds
<1>11. CASE HostButton
  <2>1. edges + 1 <= MaxEdges
    BY <1>1, <1>11, AdbAssumption DEF HostButton
  <2> QED BY <1>1, <1>2, <1>11, <2>1, SetMouseButtonSound, CarriedLosesNone DEF HostButton, Adds
<1>12. CASE HostResetsInput
  BY <1>1, <1>12, ResetInputSound DEF HostResetsInput, Same, InFlight, InFrame
<1>13. ASSUME NEW m \in 0 .. MaxMotion, HostMoves(m)
       PROVE  FALSE
  BY <1>1, <1>2, <1>13, MoveMouseSound, CarriedLosesNone DEF HostMoves, Adds
<1>14. CASE UNCHANGED vars
  BY <1>8, <1>14 DEF vars
<1> QED BY <1>3, <1>4, <1>5, <1>6, <1>7, <1>9, <1>10, <1>11, <1>12, <1>13, <1>14
        DEF Next, Tick, AnyWrites, AnySetsState, WriteShiftRegister

\* An edge is lost only by a reset, a FLUSH, a new command, or a poll made in S3
\* before the frame was fetched; never in a retry, nor because more input arrives
\* (AdbTransceiver.cpp:171-216, 265-291, 393-417).
THEOREM EdgesKeptHolds == Spec => EdgesKept
<1>1. Inv /\ [Next]_vars =>
        [Reset \/ \A k \in EdgeKinds :
           /\ InFlight(adb, k) \subseteq InFlight(adb', k) \cup {seen'}
           /\ \/ adb.transfer = "host" \/ adb'.state = 3
              \/ InFrame(adb, k) \subseteq InFrame(adb', k) \cup InFlight(adb', k)
           /\ \/ HostResetsInput
              \/ adb.transfer = "host" /\ (Operation(adb.hostByte) = Flush \/ adb.state = 3)
              \/ Elements(Queue(adb, k)) \subseteq Elements(Queue(adb', k)) \cup InFrame(adb', k)]_vars
  BY KeptStep
<1> QED BY <1>1, Invariance, PTL DEF Spec, EdgesKept
=============================================================================

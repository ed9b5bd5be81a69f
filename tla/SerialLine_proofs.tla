-------------------------- MODULE SerialLine_proofs --------------------------
(***************************************************************************)
(* A serial port loses, repeats and mixes up nothing, whatever the guest,  *)
(* the network thread and the host at the far end do and however they      *)
(* interleave: for every script, any number of bytes, any poll limit and   *)
(* any length of the escape sequence.                                      *)
(*                                                                         *)
(* Fit says what an endpoint and its thread promise each other: where the  *)
(* thread may be while the modem holds a connection, when the bytes it     *)
(* carries are in its hands, and which call they belong to.  Serves is     *)
(* what every method run by the emulated CPU does to the streams.          *)
(***************************************************************************)
EXTENDS SerialLine, SequenceTheorems, TLAPS

Active == {"loop", "write", "read", "enqueue", "test"}

\* Where the thread is, by what the modem and the CPU are doing.
Control(m) ==
  /\ m.connected <=> m.pc \in Active
  /\ m.pc # "enqueue" => m.got = << >>
  /\ m.pc # "write" => m.batch = << >>
  /\ m.kind # "hayes" => ~m.conn /\ m.cont \in {"run", "exit", "gone"}
  /\ m.kind = "none" => m.pc = "none"
  /\ m.pc = "accept" => m.kind = "listen"
  /\ m.conn => m.pc \notin {"none", "open", "accept"}
  /\ m.cont \in {"dialing", "giveUp", "failed"} => ~m.conn
  /\ m.cont \in {"hangup", "zap", "reset", "dial"} => m.conn
  /\ m.kind = "hayes" /\ ~m.conn /\ m.cont \notin {"dialing", "giveUp", "failed"} => m.pc \in {"none", "ended"}
  /\ m.cont = "gone" => m.pc \in {"none", "ended"}
  /\ m.mode = "Online" => m.conn
  /\ m.mode = "Command" => m.plus = 0 \/ m.cont = "gone"
  /\ m.cont \in {"hangup", "dial"} => m.mode = "Command"

\* Whose bytes the thread and the queue hold.
Calls(m) ==
  /\ m.over <= m.call /\ m.clean <= m.call
  /\ m.kind = "hayes" =>
       /\ m.pc \in Active \cup {"open"} => m.over < m.call /\ m.clean < m.call
       /\ \A i \in 1 .. Len(m.got) : m.got[i].call = m.call
       /\ \A i \in 1 .. Len(m.incoming) : m.incoming[i].from = "peer" => m.incoming[i].call > m.clean

Fit(m) == m \in PeerType /\ Control(m) /\ Calls(m)

\* What the far end has heard, the batch, the queue and the pluses held back.
Stream(heard, m) == heard \o m.batch \o m.outgoing \o Pluses(m.plus) = m.online

\* What a method run by the CPU, from m to p, leaves to the thread and the guest:
\* the thread's place and hands, the order of what waits, and the far end's stream.
Serves(m, p) ==
  /\ p.kind = m.kind /\ p.got = m.got /\ p.batch = m.batch
  /\ p.pc = m.pc \/ (m.pc \notin Active /\ p.pc = "open")
  /\ p.pc \in Active => p.call = m.call
  /\ PeerNumbers(p.incoming) \subseteq PeerNumbers(m.incoming)
  /\ Ascending(m.incoming) => Ascending(p.incoming)
  /\ m.pc \in Active => \A heard \in Seq(Tokens) : Stream(heard, m) => Stream(heard, p)

\* The chip: channel A in asynchronous mode, its registers hold bytes while they
\* matter, and nothing arrives on channel B.
Wired(chip) ==
  /\ chip \in [Channels -> ChannelType(ItemType)]
  /\ "async" \in chip["A"].wr[4] /\ ~chip["B"].rxAvailable
  /\ chip["A"].rxAvailable => chip["A"].data \in ItemType
  /\ chip["A"].txCycles > 0 => chip["A"].txData \in ItemType /\ chip["A"].txData.tok \in Tokens

\* The far end is up only while the thread serves its connection.
Link ==
  /\ net.up => modem.pc \in Active /\ Stream(net.heard, modem)
  /\ modem.kind = "hayes" /\ modem.pc \in Active =>
       \A i \in 1 .. Len(net.wire) : net.wire[i].call = modem.call

\* What the guest read last, the unread byte and the three queues hold increasing
\* numbers, none of them beyond what the far end has sent.
Sorted(last, held, in, got, wire, sent) ==
  LET R == {last}
      H == PeerNumbers(held)
      I == PeerNumbers(in)
      G == PeerNumbers(got)
      W == PeerNumbers(wire)
  IN  /\ Ascending(in) /\ Ascending(got) /\ Ascending(wire)
      /\ Precedes(R, H) /\ Precedes(R \cup H, I) /\ Precedes(R \cup H \cup I, G)
      /\ Precedes(R \cup H \cup I \cup G, W)
      /\ \A n \in R \cup H \cup I \cup G \cup W : n <= sent

InOrder == Sorted(guest.last, Unread, modem.incoming, modem.got, net.wire, net.sent)

Inv ==
  /\ TypeOK /\ Wired(scc) /\ TransmitOnce
  /\ Fit(modem) /\ Link
  /\ InOrder

-----------------------------------------------------------------------------
(* Sequences.                                                               *)

\* A sequence cut after its k-th element.
LEMMA Cut ==
  ASSUME NEW S, NEW s \in Seq(S), NEW k \in Nat, k <= Len(s)
  PROVE  /\ SubSeq(s, 1, k) \in Seq(S) /\ Len(SubSeq(s, 1, k)) = k
         /\ \A i \in 1 .. k : SubSeq(s, 1, k)[i] = s[i]
         /\ SubSeq(s, k + 1, Len(s)) \in Seq(S) /\ Len(SubSeq(s, k + 1, Len(s))) = Len(s) - k
         /\ \A i \in 1 .. Len(s) - k : SubSeq(s, k + 1, Len(s))[i] = s[k + i]
<1>1. Len(s) \in Nat /\ k + 1 \in Int /\ k \in Int /\ 1 \in Int /\ Len(s) \in Int
  OBVIOUS
<1>2. (\A i \in k + 1 .. Len(s) : s[i] \in S) /\ (\A i \in 1 .. k : s[i] \in S)
  <2>1. \A i \in k + 1 .. Len(s) : i \in 1 .. Len(s)
    BY <1>1
  <2>2. \A i \in 1 .. k : i \in 1 .. Len(s)
    BY <1>1
  <2> QED BY <2>1, <2>2, ElementOfSeq
<1> DEFINE front == SubSeq(s, 1, k)
           from == k + 1
           to == Len(s)
           rest == SubSeq(s, from, to)
<1>3. /\ front \in Seq(S) /\ Len(front) = (IF 1 <= k THEN k - 1 + 1 ELSE 0)
      /\ \A i \in 1 .. k - 1 + 1 : front[i] = s[1 + i - 1]
  <2> HIDE DEF from, to, rest
  <2> QED BY <1>1, <1>2, SubSeqProperties
<1>4. /\ rest \in Seq(S) /\ Len(rest) = (IF from <= to THEN to - from + 1 ELSE 0)
      /\ \A i \in 1 .. to - from + 1 : rest[i] = s[from + i - 1]
  <2>1. from \in Int /\ to \in Int /\ \A i \in from .. to : s[i] \in S
    BY <1>1, <1>2
  <2> HIDE DEF from, to, front
  <2> QED BY <2>1, SubSeqProperties
<1>5. from = k + 1 /\ to = Len(s)
  OBVIOUS
<1> HIDE DEF front, rest, from, to
<1>6. Len(front) = k /\ \A i \in 1 .. k : front[i] = s[i]
  <2>1. k - 1 + 1 = k /\ \A i \in 1 .. k : 1 + i - 1 = i
    OBVIOUS
  <2> QED BY <1>3, <2>1
<1>7. Len(rest) = Len(s) - k /\ \A i \in 1 .. Len(s) - k : rest[i] = s[k + i]
  <2>1. to - from + 1 = Len(s) - k /\ (~(from <= to) => Len(s) - k = 0)
    BY <1>1, <1>5
  <2>2. \A i \in 1 .. Len(s) - k : from + i - 1 = k + i
    BY <1>1, <1>5
  <2> QED BY <1>4, <2>1, <2>2
<1> QED BY <1>3, <1>4, <1>6, <1>7 DEF front, rest, from, to

\* The front of a concatenation.
LEMMA FrontOfConcat ==
  ASSUME NEW S, NEW s \in Seq(S), NEW t \in Seq(S)
  PROVE  SubSeq(s \o t, 1, Len(s)) = s
<1> DEFINE c == s \o t
           front == SubSeq(c, 1, Len(s))
<1>1. c \in Seq(S) /\ Len(c) = Len(s) + Len(t) /\ Len(s) \in Nat /\ Len(t) \in Nat
      /\ \A i \in 1 .. Len(s) : c[i] = s[i]
  BY ConcatProperties
<1> HIDE DEF c
<1>2. Len(s) <= Len(c)
  BY <1>1
<1>3. front \in Seq(S) /\ Len(front) = Len(s) /\ \A i \in 1 .. Len(s) : front[i] = c[i]
  BY <1>1, <1>2, Cut
<1> HIDE DEF front
<1>4. \A i \in 1 .. Len(front) : front[i] = s[i]
  BY <1>1, <1>3
<1>5. front = s
  BY <1>3, <1>4, SeqEqual
<1> QED BY <1>5 DEF front, c

LEMMA PlusesSeq ==
  ASSUME NEW n \in Nat
  PROVE  /\ Pluses(n) \in Seq(Tokens) /\ Len(Pluses(n)) = n
         /\ Pluses(n + 1) = Pluses(n) \o << "+" >>
         /\ Pluses(0) = << >>
<1>1. "+" \in Tokens
  BY DEF Tokens
<1>2. /\ Pluses(n) \in Seq(Tokens) /\ Len(Pluses(n)) = n
      /\ Pluses(n + 1) \in Seq(Tokens) /\ Len(Pluses(n + 1)) = n + 1
  BY <1>1 DEF Pluses
<1>3. Pluses(0) = << >>
  BY DEF Pluses
<1>4. << "+" >> \in Seq(Tokens) /\ Len(<< "+" >>) = 1 /\ << "+" >>[1] = "+"
  BY <1>1
<1> DEFINE c == Pluses(n) \o << "+" >>
           p == << "+" >>
<1>5. /\ c \in Seq(Tokens) /\ Len(c) = n + 1
      /\ \A i \in 1 .. n + 1 : c[i] = IF i <= n THEN Pluses(n)[i] ELSE p[i - n]
  <2> HIDE DEF p
  <2> QED BY <1>2, <1>4, ConcatProperties DEF p
<1>6. \A i \in 1 .. n + 1 : Pluses(n + 1)[i] = "+" /\ (i <= n => Pluses(n)[i] = "+")
  BY DEF Pluses
<1>7. \A i \in 1 .. n + 1 : i <= n \/ i - n = 1
  OBVIOUS
<1> HIDE DEF c
<1>8. \A i \in 1 .. n + 1 : c[i] = "+"
  BY <1>4, <1>5, <1>6, <1>7
<1>9. Pluses(n + 1) = c
  BY <1>2, <1>5, <1>6, <1>8, SeqEqual
<1> QED BY <1>2, <1>3, <1>9 DEF c

-----------------------------------------------------------------------------
(* Numbers on the way.                                                      *)

LEMMA NumbersOfCut ==
  ASSUME NEW s \in Seq(ItemType), NEW k \in Nat, k <= Len(s), Ascending(s)
  PROVE  LET front == SubSeq(s, 1, k)
             rest == SubSeq(s, k + 1, Len(s))
         IN  /\ Ascending(front) /\ Ascending(rest)
             /\ Precedes(PeerNumbers(front), PeerNumbers(rest))
             /\ PeerNumbers(front) \subseteq PeerNumbers(s) /\ PeerNumbers(rest) \subseteq PeerNumbers(s)
<1> DEFINE front == SubSeq(s, 1, k)
           rest == SubSeq(s, k + 1, Len(s))
<1>1. /\ Len(front) = k /\ \A i \in 1 .. k : front[i] = s[i]
      /\ Len(rest) = Len(s) - k /\ \A i \in 1 .. Len(s) - k : rest[i] = s[k + i]
  BY Cut
<1> HIDE DEF front, rest
<1>2. Len(s) \in Nat /\ (\A i \in 1 .. k : i \in 1 .. Len(s))
      /\ \A i \in 1 .. Len(s) - k : k + i \in 1 .. Len(s)
  OBVIOUS
<1>3. \A i, j \in 1 .. Len(s) - k : i < j => k + i < k + j
  BY <1>2
<1>4. \A i \in 1 .. k, j \in 1 .. Len(s) - k : i < k + j
  BY <1>2
<1>5. Ascending(front)
  BY <1>1, <1>2 DEF Ascending
<1>6. Ascending(rest)
  <2>1. ASSUME NEW i \in 1 .. Len(rest), NEW j \in 1 .. Len(rest), i < j,
               rest[i].from = "peer", rest[j].from = "peer"
        PROVE  rest[i].n < rest[j].n
    <3>1. rest[i] = s[k + i] /\ rest[j] = s[k + j]
      BY <1>1
    <3>2. k + i \in 1 .. Len(s) /\ k + j \in 1 .. Len(s) /\ k + i < k + j
      BY <1>1, <1>2, <1>3, <2>1
    <3> QED BY <2>1, <3>1, <3>2 DEF Ascending
  <2> QED BY <2>1 DEF Ascending
<1>7. Precedes(PeerNumbers(front), PeerNumbers(rest))
  BY <1>1, <1>2, <1>4 DEF Ascending, Precedes, PeerNumbers
<1>8. PeerNumbers(front) \subseteq PeerNumbers(s)
  BY <1>1, <1>2 DEF PeerNumbers
<1>9. PeerNumbers(rest) \subseteq PeerNumbers(s)
  BY SMTT(30), <1>1, <1>2 DEF PeerNumbers
<1> QED BY <1>5, <1>6, <1>7, <1>8, <1>9 DEF front, rest

LEMMA NumbersOfConcat ==
  ASSUME NEW s \in Seq(ItemType), NEW t \in Seq(ItemType)
  PROVE  /\ PeerNumbers(s \o t) = PeerNumbers(s) \cup PeerNumbers(t)
         /\ Ascending(s) /\ Ascending(t) /\ Precedes(PeerNumbers(s), PeerNumbers(t)) => Ascending(s \o t)
<1> DEFINE c == s \o t
<1>1. /\ Len(c) = Len(s) + Len(t) /\ Len(s) \in Nat /\ Len(t) \in Nat
      /\ \A i \in 1 .. Len(s) + Len(t) : c[i] = IF i <= Len(s) THEN s[i] ELSE t[i - Len(s)]
  BY ConcatProperties
<1> HIDE DEF c
<1>2. \A i \in 1 .. Len(c) : \/ (i \in 1 .. Len(s) /\ c[i] = s[i])
                             \/ (i - Len(s) \in 1 .. Len(t) /\ c[i] = t[i - Len(s)])
  BY <1>1
<1>3. \A i \in 1 .. Len(s) : i \in 1 .. Len(c) /\ c[i] = s[i]
  BY <1>1
<1>4. \A i \in 1 .. Len(t) : Len(s) + i \in 1 .. Len(c) /\ c[Len(s) + i] = t[i]
  <2>1. \A i \in 1 .. Len(t) : /\ Len(s) + i \in 1 .. Len(s) + Len(t) /\ ~(Len(s) + i <= Len(s))
                               /\ (Len(s) + i) - Len(s) = i
    BY <1>1
  <2> QED BY <1>1, <2>1
<1>5. PeerNumbers(c) \subseteq PeerNumbers(s) \cup PeerNumbers(t)
  BY <1>2 DEF PeerNumbers
<1>6. PeerNumbers(s) \subseteq PeerNumbers(c)
  BY <1>3 DEF PeerNumbers
<1>7. PeerNumbers(t) \subseteq PeerNumbers(c)
  BY <1>4 DEF PeerNumbers
<1>8. ASSUME Ascending(s), Ascending(t), Precedes(PeerNumbers(s), PeerNumbers(t)),
             NEW i \in 1 .. Len(c), NEW j \in 1 .. Len(c), i < j,
             c[i].from = "peer", c[j].from = "peer"
      PROVE  c[i].n < c[j].n
  <2>1. CASE j <= Len(s)
    <3>1. i \in 1 .. Len(s) /\ j \in 1 .. Len(s)
      BY <1>1, <1>8, <2>1
    <3>2. c[i] = s[i] /\ c[j] = s[j]
      BY <1>3, <3>1
    <3> QED BY <1>8, <3>1, <3>2 DEF Ascending
  <2>2. CASE i > Len(s)
    <3>1. /\ i - Len(s) \in 1 .. Len(t) /\ j - Len(s) \in 1 .. Len(t) /\ i - Len(s) < j - Len(s)
          /\ ~(i <= Len(s)) /\ ~(j <= Len(s))
      BY <1>1, <1>8, <2>2
    <3>2. c[i] = t[i - Len(s)] /\ c[j] = t[j - Len(s)]
      BY <1>1, <3>1
    <3> QED BY <1>8, <3>1, <3>2 DEF Ascending
  <2>3. CASE i <= Len(s) /\ j > Len(s)
    <3>1. i \in 1 .. Len(s) /\ c[i] = s[i]
      BY <1>1, <1>3, <2>3
    <3>2. j - Len(s) \in 1 .. Len(t) /\ c[j] = t[j - Len(s)]
      BY <1>1, <2>3
    <3>3. c[i].n \in PeerNumbers(s) /\ c[j].n \in PeerNumbers(t)
      BY <1>8, <3>1, <3>2 DEF PeerNumbers
    <3> QED BY <1>8, <3>3 DEF Precedes
  <2> QED BY <1>1, <2>1, <2>2, <2>3
<1>9. Ascending(s) /\ Ascending(t) /\ Precedes(PeerNumbers(s), PeerNumbers(t)) => Ascending(c)
  BY <1>8 DEF Ascending
<1> QED BY <1>5, <1>6, <1>7, <1>9 DEF c

LEMMA NumbersOfOne ==
  ASSUME NEW item
  PROVE  /\ PeerNumbers(<< item >>) = IF item.from = "peer" THEN {item.n} ELSE {}
         /\ Ascending(<< item >>) /\ PeerNumbers(<< >>) = {} /\ Ascending(<< >>)
BY DEF PeerNumbers, Ascending

LEMMA NumbersOfAppend ==
  ASSUME NEW s \in Seq(ItemType), NEW item \in ItemType
  PROVE  /\ Append(s, item) \in Seq(ItemType)
         /\ item.from # "peer" => PeerNumbers(Append(s, item)) = PeerNumbers(s)
         /\ item.from = "peer" => PeerNumbers(Append(s, item)) = PeerNumbers(s) \cup {item.n}
         /\ Ascending(s) /\ (item.from = "peer" => Precedes(PeerNumbers(s), {item.n}))
              => Ascending(Append(s, item))
<1> DEFINE one == << item >>
<1>1. one \in Seq(ItemType) /\ Append(s, item) = s \o one
  BY AppendIsConcat
<1>2. PeerNumbers(one) = (IF item.from = "peer" THEN {item.n} ELSE {}) /\ Ascending(one)
  BY NumbersOfOne
<1> HIDE DEF one
<1>3. /\ PeerNumbers(s \o one) = PeerNumbers(s) \cup PeerNumbers(one)
      /\ Ascending(s) /\ Ascending(one) /\ Precedes(PeerNumbers(s), PeerNumbers(one)) => Ascending(s \o one)
  BY <1>1, NumbersOfConcat
<1>4. Precedes(PeerNumbers(s), {})
  BY DEF Precedes
<1> QED BY <1>1, <1>2, <1>3, <1>4

-----------------------------------------------------------------------------
(* The endpoint's methods.                                                  *)

LEMMA ServesTransitive ==
  ASSUME NEW m, NEW p, NEW q, Serves(m, p), Serves(p, q)
  PROVE  Serves(m, q)
BY DEF Serves, Active

LEMMA ServesReflexive ==
  ASSUME NEW m
  PROVE  Serves(m, m)
BY DEF Serves

\* What is neither a queue nor the thread's does not touch the streams.
LEMMA Unseen ==
  ASSUME NEW m, NEW p,
         p.kind = m.kind, p.got = m.got, p.batch = m.batch, p.pc = m.pc, p.call = m.call,
         p.incoming = m.incoming, p.outgoing = m.outgoing, p.plus = m.plus, p.online = m.online
  PROVE  Serves(m, p)
BY DEF Serves, Stream

Answers == {"OK", "ERROR", "CONNECT", "NO CARRIER"}

LEMMA EnqueueFits ==
  ASSUME NEW m, Fit(m), NEW item \in ItemType, item.from # "peer"
  PROVE  Fit(Enqueue(m, item)) /\ Serves(m, Enqueue(m, item))
<1> DEFINE p == Enqueue(m, item)
           queue == Append(m.incoming, item)
<1>1. m \in PeerType /\ m.incoming \in Seq(ItemType)
  BY DEF Fit, PeerType
<1>2. /\ queue \in Seq(ItemType) /\ PeerNumbers(queue) = PeerNumbers(m.incoming)
      /\ Ascending(m.incoming) => Ascending(queue)
  BY <1>1, NumbersOfAppend
<1>3. /\ Len(m.incoming) \in Nat /\ Len(queue) = Len(m.incoming) + 1
      /\ \A i \in 1 .. Len(queue) : queue[i] = m.incoming[i] \/ queue[i] = item
      /\ \A i \in 1 .. Len(queue) : i \in 1 .. Len(m.incoming) => queue[i] = m.incoming[i]
      /\ \A i \in 1 .. Len(queue) : i \notin 1 .. Len(m.incoming) => queue[i] = item
  BY <1>1
<1> HIDE DEF queue
<1>4. p = [m EXCEPT !.incoming = queue]
  BY DEF Enqueue, queue
<1>5. p \in PeerType /\ p.incoming = queue
  BY ZenonT(60), <1>1, <1>2, <1>4 DEF PeerType
<1>6. Control(p)
  <2>1. /\ p.kind = m.kind /\ p.pc = m.pc /\ p.got = m.got /\ p.batch = m.batch
        /\ p.connected = m.connected /\ p.conn = m.conn /\ p.cont = m.cont /\ p.mode = m.mode
        /\ p.plus = m.plus
    BY <1>1, <1>4 DEF PeerType
  <2> HIDE DEF p
  <2> QED BY <2>1 DEF Fit, Control
<1>7. Calls(p)
  <2>1. /\ p.over = m.over /\ p.clean = m.clean /\ p.call = m.call /\ p.kind = m.kind
        /\ p.pc = m.pc /\ p.got = m.got
    BY <1>1, <1>4 DEF PeerType
  <2> HIDE DEF p
  <2>2. ASSUME m.kind = "hayes", NEW i \in 1 .. Len(queue), queue[i].from = "peer"
        PROVE  queue[i].call > m.clean
    <3>1. i \in 1 .. Len(m.incoming) /\ queue[i] = m.incoming[i]
      BY <1>3, <2>2
    <3> QED BY <2>2, <3>1 DEF Fit, Calls
  <2> QED BY <1>5, <2>1, <2>2 DEF Fit, Calls
<1>8. Serves(m, p)
  BY <1>1, <1>2, <1>4, <1>5 DEF Serves, Stream, PeerType
<1> QED BY <1>5, <1>6, <1>7, <1>8 DEF Fit

LEMMA ResultFits ==
  ASSUME NEW m, Fit(m), NEW text \in Answers
  PROVE  Fit(Result(m, text)) /\ Serves(m, Result(m, text))
<1> DEFINE item == Item("modem", text, 0, m.call)
<1>1. item \in ItemType /\ item.from # "peer"
  BY DEF Item, ItemType, Answers, Fit, PeerType
<1> HIDE DEF item
<1>2. Fit(Enqueue(m, item)) /\ Serves(m, Enqueue(m, item))
  BY <1>1, EnqueueFits
<1>3. Result(m, text) = m \/ Result(m, text) = Enqueue(m, item)
  BY DEF Result, item
<1> QED BY <1>2, <1>3, ServesReflexive

Callers == {"hangup", "zap", "reset", "dial", "exit"}

\* hangup when no thread runs, and the join's return.
LEMMA AfterHangupFits ==
  ASSUME NEW m, Fit(m), NEW caller \in Callers, m.pc \in {"none", "ended"},
         caller # "exit" => m.kind \in {"hayes", "none"},
         caller \in {"zap", "hangup", "dial"} => m.kind = "hayes",
         caller \in {"hangup", "dial"} => m.plus = 0
  PROVE  Fit(AfterHangup(m, caller)) /\ Serves(m, AfterHangup(m, caller))
<1> DEFINE idle == [m EXCEPT !.mode = "Command", !.conn = FALSE, !.cont = "run", !.over = m.call]
           cleared == ClearModem(idle)
           dialling == [idle EXCEPT !.cont = "dialing", !.call = @ + 1, !.pc = "open",
                                    !.stop = FALSE, !.connected = FALSE, !.why = "",
                                    !.outgoing = <<>>, !.online = <<>>]
           gone == [idle EXCEPT !.cont = "gone"]
<1>1. m \in PeerType /\ m.pc \notin Active /\ m.call \in Nat /\ m.clean \in Nat
  BY DEF Fit, PeerType, Active
<1>2. /\ << >> \in Seq(ItemType) /\ << >> \in Seq(Tokens) /\ 0 \in 0 .. EscapeLength - 1
      /\ Len(<< >>) = 0
  BY PeerAssumption
<1>3. /\ idle \in PeerType
      /\ idle.kind = m.kind /\ idle.got = m.got /\ idle.batch = m.batch /\ idle.pc = m.pc
      /\ idle.call = m.call /\ idle.incoming = m.incoming /\ idle.plus = m.plus
      /\ idle.mode = "Command" /\ idle.conn = FALSE /\ idle.cont = "run" /\ idle.over = m.call
      /\ idle.clean = m.clean /\ idle.connected = m.connected
  BY <1>1 DEF PeerType
<1>4. m.got = << >> /\ m.batch = << >> /\ m.clean <= m.call /\ m.connected = FALSE
  BY <1>1 DEF Fit, Control, Calls, PeerType
<1> HIDE DEF idle
<1>5. Calls(idle) /\ Serves(m, idle)
  BY <1>1, <1>2, <1>3, <1>4 DEF Fit, Calls, Serves, Active
<1>6. CASE caller = "hangup"
  <2>1. Control(idle)
    BY <1>1, <1>3, <1>4, <1>6 DEF Control, Active
  <2>2. Fit(idle) /\ "OK" \in Answers
    BY <1>3, <1>5, <2>1 DEF Fit, Answers
  <2>3. AfterHangup(m, caller) = Result(idle, "OK")
    BY <1>6 DEF AfterHangup, idle
  <2> QED BY <1>5, <2>2, <2>3, ResultFits, ServesTransitive
<1>7. CASE caller \in {"zap", "reset"}
  <2>1. /\ cleared \in PeerType
        /\ cleared.kind = m.kind /\ cleared.got = m.got /\ cleared.batch = m.batch
        /\ cleared.pc = m.pc /\ cleared.call = m.call /\ cleared.incoming = << >>
        /\ cleared.plus = 0 /\ cleared.mode = "Command" /\ cleared.conn = FALSE
        /\ cleared.cont = "run" /\ cleared.over = m.call /\ cleared.clean = m.call
        /\ cleared.connected = m.connected
    BY ZenonT(60), <1>1, <1>2, <1>3 DEF PeerType, ClearModem
  <2> HIDE DEF cleared
  <2>2. Control(cleared)
    <3>1. m.kind \in {"hayes", "none"} /\ (m.kind = "none" => m.pc = "none")
      BY <1>7 DEF Fit, Control
    <3> QED BY <1>1, <1>4, <2>1, <3>1 DEF Control, Active
  <2>3. Calls(cleared)
    BY <1>1, <1>2, <1>4, <2>1 DEF Calls, Active
  <2>4. Serves(m, cleared)
    BY <1>1, <2>1, NumbersOfOne DEF Serves
  <2>5. Fit(cleared) /\ "OK" \in Answers
    BY <2>1, <2>2, <2>3 DEF Fit, Answers
  <2>6. AfterHangup(m, caller) = Result(cleared, "OK") \/ AfterHangup(m, caller) = cleared
    BY <1>7 DEF AfterHangup, idle, cleared
  <2> QED BY <2>4, <2>5, <2>6, ResultFits, ServesTransitive
<1>8. CASE caller = "dial"
  <2>1. /\ dialling \in PeerType
        /\ dialling.kind = m.kind /\ dialling.got = m.got /\ dialling.batch = m.batch
        /\ dialling.pc = "open" /\ dialling.call = m.call + 1 /\ dialling.incoming = m.incoming
        /\ dialling.plus = m.plus /\ dialling.mode = "Command" /\ dialling.conn = FALSE
        /\ dialling.cont = "dialing" /\ dialling.over = m.call /\ dialling.clean = m.clean
        /\ dialling.connected = FALSE
    <3> DEFINE after == m.call + 1
               half == [idle EXCEPT !.cont = "dialing", !.call = after, !.pc = "open", !.stop = FALSE]
    <3>1. after \in Nat
      BY <1>1
    <3>2. idle.call + 1 = after
      BY <1>3
    <3> HIDE DEF after
    <3>3. /\ half \in PeerType /\ half.call = after /\ half.pc = "open" /\ half.cont = "dialing"
          /\ half.kind = m.kind /\ half.got = m.got /\ half.batch = m.batch
          /\ half.incoming = m.incoming /\ half.plus = m.plus /\ half.mode = "Command"
          /\ half.conn = FALSE /\ half.over = m.call /\ half.clean = m.clean
      BY <1>3, <3>1 DEF PeerType
    <3>4. dialling = [half EXCEPT !.connected = FALSE, !.why = "", !.outgoing = <<>>, !.online = <<>>]
      BY <1>3, <3>2 DEF PeerType
    <3> HIDE DEF half, dialling
    <3> QED BY <1>2, <3>3, <3>4 DEF PeerType, after
  <2> HIDE DEF dialling
  <2>2. Control(dialling)
    BY <1>1, <1>4, <1>8, <2>1 DEF Control, Active
  <2>3. Calls(dialling)
    BY <1>1, <1>2, <1>4, <2>1 DEF Fit, Calls, Active
  <2>4. Serves(m, dialling)
    BY <1>1, <2>1 DEF Serves, Active
  <2>5. AfterHangup(m, caller) = dialling
    BY <1>8 DEF AfterHangup, idle, dialling
  <2> QED BY <2>1, <2>2, <2>3, <2>4, <2>5 DEF Fit
<1>9. CASE caller = "exit"
  <2>1. /\ gone \in PeerType
        /\ gone.kind = m.kind /\ gone.got = m.got /\ gone.batch = m.batch /\ gone.pc = m.pc
        /\ gone.call = m.call /\ gone.incoming = m.incoming /\ gone.plus = m.plus
        /\ gone.mode = "Command" /\ gone.conn = FALSE /\ gone.cont = "gone" /\ gone.over = m.call
        /\ gone.clean = m.clean /\ gone.connected = m.connected
    BY <1>1, <1>3 DEF PeerType
  <2> HIDE DEF gone
  <2>2. Control(gone)
    <3>1. m.kind = "none" => m.pc = "none"
      BY DEF Fit, Control
    <3> QED BY <1>1, <1>4, <2>1, <3>1 DEF Control, Active
  <2>3. Calls(gone)
    BY <1>1, <1>2, <1>4, <2>1 DEF Fit, Calls, Active
  <2>4. Serves(m, gone)
    BY <1>1, <2>1 DEF Serves, Active
  <2>5. AfterHangup(m, caller) = gone
    BY <1>9 DEF AfterHangup, idle, gone
  <2> QED BY <2>1, <2>2, <2>3, <2>4, <2>5 DEF Fit
<1> QED BY <1>6, <1>7, <1>8, <1>9 DEF Callers

\* hangup with a connection to close, and the start of a join in it.
LEMMA HangupFits ==
  ASSUME NEW m, Fit(m), m.cont = "run", m.kind \in {"hayes", "none"}, NEW caller \in Callers,
         caller \in {"zap", "hangup", "dial"} => m.kind = "hayes" /\ m.mode = "Command"
  PROVE  Fit(Hangup(m, caller)) /\ Serves(m, Hangup(m, caller))
<1>1. m \in PeerType
  BY DEF Fit
<1>2. CASE m.conn
  <2> DEFINE p == [m EXCEPT !.stop = TRUE, !.cont = caller]
  <2>1. /\ p \in PeerType /\ p.cont = caller
        /\ p.kind = m.kind /\ p.got = m.got /\ p.batch = m.batch /\ p.pc = m.pc /\ p.call = m.call
        /\ p.incoming = m.incoming /\ p.outgoing = m.outgoing /\ p.plus = m.plus
        /\ p.online = m.online /\ p.mode = m.mode /\ p.conn = m.conn /\ p.over = m.over
        /\ p.clean = m.clean /\ p.connected = m.connected
    BY <1>1 DEF PeerType, Callers
  <2> HIDE DEF p
  <2>2. Serves(m, p)
    BY <2>1, Unseen
  <2>3. Control(p)
    BY <1>2, <2>1 DEF Fit, Control, Callers
  <2>4. Calls(p)
    BY <2>1 DEF Fit, Calls
  <2>5. Hangup(m, caller) = p
    BY <1>2 DEF Hangup, p
  <2> QED BY <2>1, <2>2, <2>3, <2>4, <2>5 DEF Fit
<1>3. CASE ~m.conn
  <2>1. m.pc \in {"none", "ended"}
    BY <1>3 DEF Fit, Control
  <2>2. caller \in {"hangup", "dial"} => m.plus = 0
    BY DEF Fit, Control
  <2>3. Hangup(m, caller) = AfterHangup(m, caller)
    BY <1>3 DEF Hangup
  <2> QED BY <2>1, <2>2, <2>3, AfterHangupFits
<1> QED BY <1>2, <1>3

\* p differs from m in nothing but echo, quiet, typed, stop and why.
Alike(m, p) ==
  /\ p.kind = m.kind /\ p.got = m.got /\ p.batch = m.batch /\ p.pc = m.pc /\ p.call = m.call
  /\ p.incoming = m.incoming /\ p.outgoing = m.outgoing /\ p.plus = m.plus /\ p.online = m.online
  /\ p.mode = m.mode /\ p.conn = m.conn /\ p.over = m.over /\ p.clean = m.clean
  /\ p.connected = m.connected /\ p.cont = m.cont

LEMMA AlikeFits ==
  ASSUME NEW m, Fit(m), NEW p \in PeerType, Alike(m, p)
  PROVE  Fit(p) /\ Serves(m, p)
<1>1. Serves(m, p)
  BY Unseen DEF Alike
<1>2. Control(p)
  BY DEF Fit, Control, Alike
<1>3. Calls(p)
  BY DEF Fit, Calls, Alike
<1> QED BY <1>1, <1>2, <1>3 DEF Fit

LEMMA HandleCommandFits ==
  ASSUME NEW m, Fit(m), m.kind = "hayes", m.mode = "Command", m.cont = "run", NEW line \in Lines
  PROVE  Fit(HandleCommand(m, line)) /\ Serves(m, HandleCommand(m, line))
<1> DEFINE next == HandleCommand(m, line)
<1>1. m \in PeerType
  BY DEF Fit
<1>2. "OK" \in Answers /\ "ERROR" \in Answers /\ "CONNECT" \in Answers /\ "NO CARRIER" \in Answers
  BY DEF Answers
<1>3. ASSUME NEW p \in PeerType, Alike(m, p), NEW text \in Answers
      PROVE  Fit(p) /\ Serves(m, p) /\ Fit(Result(p, text)) /\ Serves(m, Result(p, text))
  <2>1. Fit(p) /\ Serves(m, p)
    BY <1>3, AlikeFits
  <2> QED BY <1>3, <2>1, ResultFits, ServesTransitive
<1>4. CASE m.typed
  <2> DEFINE p == [m EXCEPT !.typed = FALSE]
  <2>1. p \in PeerType /\ Alike(m, p)
    BY <1>1 DEF PeerType, Alike
  <2>2. next = Result(p, "ERROR")
    BY <1>4 DEF HandleCommand
  <2> HIDE DEF p
  <2> QED BY <1>2, <1>3, <2>1, <2>2
<1>5. CASE ~m.typed /\ line \in {"AT", "ATX"}
  <2>1. next = Result(m, "OK") \/ next = Result(m, "ERROR")
    BY <1>5 DEF HandleCommand
  <2> QED BY <1>2, <2>1, ResultFits
<1>6. CASE ~m.typed /\ line \in {"ATE0", "ATE1", "ATQ0", "ATQ1"}
  <2> DEFINE e0 == [m EXCEPT !.echo = FALSE]
             e1 == [m EXCEPT !.echo = TRUE]
             q0 == [m EXCEPT !.quiet = FALSE]
             q1 == [m EXCEPT !.quiet = TRUE]
  <2>1. /\ e0 \in PeerType /\ Alike(m, e0) /\ e1 \in PeerType /\ Alike(m, e1)
        /\ q0 \in PeerType /\ Alike(m, q0) /\ q1 \in PeerType /\ Alike(m, q1)
    BY ZenonT(60), <1>1 DEF PeerType, Alike
  <2>2. next = Result(e0, "OK") \/ next = Result(e1, "OK") \/ next = Result(q0, "OK") \/ next = q1
    BY <1>6 DEF HandleCommand
  <2> HIDE DEF e0, e1, q0, q1
  <2> QED BY <1>2, <1>3, <2>1, <2>2
<1>7. CASE ~m.typed /\ line \in {"ATZ", "ATH", "ATD"}
  <2>1. next = Hangup(m, "zap") \/ next = Hangup(m, "hangup") \/ next = Hangup(m, "dial")
    BY <1>7 DEF HandleCommand
  <2>2. "zap" \in Callers /\ "hangup" \in Callers /\ "dial" \in Callers
    BY DEF Callers
  <2> QED BY <2>1, <2>2, HangupFits
<1>8. CASE ~m.typed /\ line = "ATO"
  <2>1. CASE m.conn /\ m.connected
    <3> DEFINE p == [m EXCEPT !.mode = "Online"]
    <3>1. /\ p \in PeerType /\ p.mode = "Online"
          /\ p.kind = m.kind /\ p.got = m.got /\ p.batch = m.batch /\ p.pc = m.pc /\ p.call = m.call
          /\ p.incoming = m.incoming /\ p.outgoing = m.outgoing /\ p.plus = m.plus /\ p.online = m.online
          /\ p.conn = m.conn /\ p.over = m.over /\ p.clean = m.clean
          /\ p.connected = m.connected /\ p.cont = m.cont
      BY <1>1 DEF PeerType
    <3>2. next = Result(p, "CONNECT")
      BY <1>8, <2>1 DEF HandleCommand
    <3> HIDE DEF p
    <3>3. Control(p)
      BY <2>1, <3>1 DEF Fit, Control
    <3>4. Calls(p)
      BY <3>1 DEF Fit, Calls
    <3>5. Fit(p) /\ Serves(m, p)
      BY <3>1, <3>3, <3>4, Unseen DEF Fit
    <3> QED BY <1>2, <3>2, <3>5, ResultFits, ServesTransitive
  <2>2. CASE ~(m.conn /\ m.connected)
    <3>1. next = Result(m, "NO CARRIER")
      BY <1>8, <2>2 DEF HandleCommand
    <3> QED BY <1>2, <3>1, ResultFits
  <2> QED BY <2>1, <2>2
<1> QED BY <1>4, <1>5, <1>6, <1>7, <1>8 DEF Lines

LEMMA CommandByteFits ==
  ASSUME NEW m, Fit(m), m.kind = "hayes", m.mode = "Command", m.cont = "run", NEW tok \in Tokens
  PROVE  Fit(ReceiveCommandByte(m, tok)) /\ Serves(m, ReceiveCommandByte(m, tok))
<1> DEFINE item == Item("guest", tok, 0, m.call)
           echoed == IF m.echo THEN Enqueue(m, item) ELSE m
<1>1. m \in PeerType
  BY DEF Fit
<1>2. item \in ItemType /\ item.from # "peer"
  BY <1>1 DEF Item, ItemType, PeerType
<1> HIDE DEF item
<1>3. Fit(echoed) /\ Serves(m, echoed)
  BY <1>2, EnqueueFits, ServesReflexive
<1>4. echoed.kind = "hayes" /\ echoed.mode = "Command" /\ echoed.cont = "run"
  BY <1>1 DEF Enqueue, PeerType
<1>5. ReceiveCommandByte(m, tok) =
        IF tok \in Lines THEN HandleCommand(echoed, tok) ELSE [echoed EXCEPT !.typed = TRUE]
  BY DEF ReceiveCommandByte, item
<1> HIDE DEF echoed
<1>6. CASE tok \in Lines
  BY <1>3, <1>4, <1>5, <1>6, HandleCommandFits, ServesTransitive
<1>7. CASE tok \notin Lines
  <2> DEFINE p == [echoed EXCEPT !.typed = TRUE]
  <2>1. p \in PeerType /\ Alike(echoed, p)
    BY <1>3 DEF Fit, PeerType, Alike
  <2> HIDE DEF p
  <2>2. Fit(p) /\ Serves(echoed, p)
    BY <1>3, <2>1, AlikeFits
  <2> QED BY <1>3, <1>5, <1>7, <2>2, ServesTransitive DEF p
<1> QED BY <1>6, <1>7

LEMMA FrontSeq ==
  ASSUME NEW S, NEW s \in Seq(S), NEW k \in Nat
  PROVE  SubSeq(s, 1, Len(s) - k) \in Seq(S)
<1> DEFINE to == Len(s) - k
<1>1. Len(s) \in Nat /\ to \in Int /\ 1 \in Int
  OBVIOUS
<1>2. \A i \in 1 .. to : i \in 1 .. Len(s)
  BY <1>1
<1>3. \A i \in 1 .. to : s[i] \in S
  BY <1>2, ElementOfSeq
<1> HIDE DEF to
<1>4. SubSeq(s, 1, to) \in Seq(S)
  BY <1>1, <1>3, SubSeqProperties
<1> QED BY <1>4 DEF to

\* Concatenation under a name: the solver unfolds it only where it has to.
Cat(s, t) == s \o t

LEMMA Regroup ==
  \A a, b, c \in Seq(Tokens) : Cat(Cat(a, b), c) = Cat(a, Cat(b, c))
<1> TAKE a, b, c \in Seq(Tokens)
<1> QED BY ConcatAssociative DEF Cat

\* A stream in its parts, with n pluses held back.
Laid(base, out, n) == base \o out \o Pluses(n)

\* One more plus held back; the pluses taken back; a byte sent behind them.
LEMMA HeldBack ==
  ASSUME NEW base \in Seq(Tokens), NEW out \in Seq(Tokens), NEW n \in Nat, NEW tok \in Tokens
  PROVE  /\ Laid(base, out, n + 1) = Append(Laid(base, out, n), "+")
         /\ Laid(base, out, 0) = SubSeq(Laid(base, out, n), 1, Len(Laid(base, out, n)) - n)
         /\ Laid(base, out \o Append(Pluses(n), tok), 0) = Append(Laid(base, out, n), tok)
<1> DEFINE front == base \o out
           pluses == Pluses(n)
           online == front \o pluses
           plus == << "+" >>
           one == << tok >>
<1>1. "+" \in Tokens
  BY DEF Tokens
<1>2. plus \in Seq(Tokens) /\ one \in Seq(Tokens)
  BY <1>1
<1>3. /\ pluses \in Seq(Tokens) /\ Len(pluses) = n
      /\ Pluses(n + 1) = pluses \o plus /\ Pluses(0) = << >>
  BY PlusesSeq
<1>4. front \in Seq(Tokens) /\ Len(front) \in Nat
  BY ConcatProperties
<1> HIDE DEF pluses
<1>5. online \in Seq(Tokens) /\ Len(online) = Len(front) + n
  <2> HIDE DEF front
  <2> QED BY <1>3, <1>4, ConcatProperties
<1>6. Append(online, "+") = online \o plus /\ Append(online, tok) = online \o one
      /\ Append(pluses, tok) = pluses \o one
  <2>1. Append(online, "+") = online \o plus
    <3> HIDE DEF online
    <3> QED BY <1>1, <1>5, AppendIsConcat
  <2>2. Append(online, tok) = online \o one
    <3> HIDE DEF online
    <3> QED BY <1>5, AppendIsConcat
  <2>3. Append(pluses, tok) = pluses \o one
    BY <1>3, AppendIsConcat
  <2> QED BY <2>1, <2>2, <2>3
<1> HIDE DEF plus, one
<1>7. front \o Pluses(n + 1) = Append(online, "+")
  <2>1. (front \o pluses) \o plus = front \o (pluses \o plus)
    <3>1. front \in Seq(Tokens) /\ pluses \in Seq(Tokens) /\ plus \in Seq(Tokens)
      BY <1>2, <1>3, <1>4
    <3> HIDE DEF front, online
    <3>2. Cat(Cat(front, pluses), plus) = Cat(front, Cat(pluses, plus))
      BY <3>1, Regroup
    <3> QED BY <3>2 DEF Cat
  <2> QED BY <1>3, <1>6, <2>1
<1>8. front \o Pluses(0) = SubSeq(online, 1, Len(online) - n)
  <2>1. Len(online) - n = Len(front)
    <3> HIDE DEF online, front
    <3> QED BY <1>4, <1>5
  <2>2. SubSeq(online, 1, Len(front)) = front
    <3> HIDE DEF front
    <3> QED BY <1>3, <1>4, FrontOfConcat
  <2>3. front \o << >> = front
    <3> HIDE DEF front
    <3> QED BY <1>4, ConcatEmptySeq
  <2> HIDE DEF online
  <2> QED BY <1>3, <2>1, <2>2, <2>3
<1>9. base \o (out \o Append(pluses, tok)) \o Pluses(0) = Append(online, tok)
  <2> DEFINE tail == pluses \o one
  <2>1. tail \in Seq(Tokens)
    BY <1>2, <1>3, ConcatProperties
  <2>2. (front \o pluses) \o one = front \o tail
    <3>1. front \in Seq(Tokens) /\ pluses \in Seq(Tokens) /\ one \in Seq(Tokens)
      BY <1>2, <1>3, <1>4
    <3> HIDE DEF front, online
    <3>2. Cat(Cat(front, pluses), one) = Cat(front, Cat(pluses, one))
      BY <3>1, Regroup
    <3> QED BY <3>2 DEF Cat
  <2> HIDE DEF tail
  <2>3. base \o (out \o tail) = front \o tail
    <3>1. Cat(Cat(base, out), tail) = Cat(base, Cat(out, tail))
      BY <2>1, Regroup
    <3> QED BY <3>1 DEF Cat
  <2>4. front \o tail \in Seq(Tokens)
    <3> HIDE DEF front
    <3> QED BY <1>4, <2>1, ConcatProperties
  <2>5. (front \o tail) \o << >> = front \o tail
    <3> DEFINE all == front \o tail
    <3> HIDE DEF all
    <3>1. all \o << >> = all
      BY <2>4, ConcatEmptySeq DEF all
    <3> QED BY <3>1 DEF all
  <2>6. Append(pluses, tok) = tail
    BY <1>6 DEF tail
  <2> QED BY <1>3, <1>6, <2>2, <2>3, <2>5, <2>6
<1>10. Laid(base, out, n) = online
  BY DEF pluses, Laid
<1> HIDE DEF online
<1> QED BY <1>7, <1>8, <1>9, <1>10 DEF pluses, Laid

LEMMA OnlineByteFits ==
  ASSUME NEW m, Fit(m), m.kind = "hayes", m.mode = "Online", m.cont = "run", NEW tok \in Tokens
  PROVE  Fit(ReceiveOnlineByte(m, tok)) /\ Serves(m, ReceiveOnlineByte(m, tok))
<1> DEFINE next == ReceiveOnlineByte(m, tok)
<1>1. /\ m \in PeerType /\ m.plus \in Nat /\ m.plus < EscapeLength /\ EscapeLength \in Nat
      /\ m.batch \in Seq(Tokens) /\ m.outgoing \in Seq(Tokens) /\ m.online \in Seq(Tokens)
      /\ m.call \in Nat /\ m.conn = TRUE
  <2>1. m \in PeerType /\ Control(m) /\ EscapeLength \in Nat /\ EscapeLength > 0
    BY PeerAssumption DEF Fit
  <2>2. /\ m.plus \in 0 .. (EscapeLength - 1) /\ m.conn \in BOOLEAN /\ m.call \in Nat
        /\ m.batch \in Seq(Tokens) /\ m.outgoing \in Seq(Tokens) /\ m.online \in Seq(Tokens)
    BY <2>1 DEF PeerType
  <2>3. m.conn = TRUE
    BY <2>1, <2>2 DEF Control
  <2>4. m.plus \in Nat /\ m.plus < EscapeLength
    BY <2>1, <2>2
  <2> QED BY <2>1, <2>2, <2>3, <2>4
<1>2. "OK" \in Answers /\ "NO CARRIER" \in Answers /\ "+" \in Tokens
  BY DEF Answers, Tokens
<1>3. ASSUME NEW heard \in Seq(Tokens), Stream(heard, m)
      PROVE  /\ heard \o m.batch \o m.outgoing \o Pluses(m.plus + 1) = Append(m.online, "+")
             /\ heard \o m.batch \o m.outgoing \o Pluses(0) = SubSeq(m.online, 1, Len(m.online) - m.plus)
             /\ heard \o m.batch \o (m.outgoing \o Append(Pluses(m.plus), tok)) \o Pluses(0)
                  = Append(m.online, tok)
  <2> DEFINE base == heard \o m.batch
             n == m.plus
             out == m.outgoing
             sent == m.online
  <2>1. base \in Seq(Tokens) /\ n \in Nat /\ out \in Seq(Tokens) /\ sent \in Seq(Tokens)
    BY <1>1, ConcatProperties
  <2>2. sent = Laid(base, out, n)
    BY <1>3 DEF Stream, Laid
  <2> HIDE DEF base, n, out, sent
  <2>3. /\ Laid(base, out, n + 1) = Append(sent, "+")
        /\ Laid(base, out, 0) = SubSeq(sent, 1, Len(sent) - n)
        /\ Laid(base, out \o Append(Pluses(n), tok), 0) = Append(sent, tok)
    <3>1. /\ Laid(base, out, n + 1) = Append(Laid(base, out, n), "+")
          /\ Laid(base, out, 0) = SubSeq(Laid(base, out, n), 1, Len(Laid(base, out, n)) - n)
          /\ Laid(base, out \o Append(Pluses(n), tok), 0) = Append(Laid(base, out, n), tok)
      BY ZenonT(40), <2>1, HeldBack
    <3> QED BY <2>2, <3>1, Zenon
  <2> QED BY <2>3 DEF base, n, out, sent, Laid
<1>4. CASE tok = "+" /\ m.plus + 1 = EscapeLength
  <2> DEFINE front == SubSeq(m.online, 1, Len(m.online) - m.plus)
             p == [m EXCEPT !.mode = "Command", !.plus = 0, !.online = front]
  <2>1. front \in Seq(Tokens) /\ 0 \in 0 .. EscapeLength - 1
    BY <1>1, FrontSeq
  <2>2. next = Result(p, "OK")
    BY <1>4 DEF ReceiveOnlineByte
  <2> HIDE DEF front
  <2>3. /\ p \in PeerType /\ p.mode = "Command" /\ p.plus = 0 /\ p.online = front
        /\ p.kind = m.kind /\ p.got = m.got /\ p.batch = m.batch /\ p.pc = m.pc /\ p.call = m.call
        /\ p.incoming = m.incoming /\ p.outgoing = m.outgoing /\ p.conn = m.conn /\ p.over = m.over
        /\ p.clean = m.clean /\ p.connected = m.connected /\ p.cont = m.cont
    BY <1>1, <2>1 DEF PeerType
  <2> HIDE DEF p
  <2>4. Control(p)
    BY <2>3 DEF Fit, Control
  <2>5. Calls(p)
    BY <2>3 DEF Fit, Calls
  <2>6. \A heard \in Seq(Tokens) : Stream(heard, m) => Stream(heard, p)
    BY <1>3, <2>3 DEF Stream, front
  <2>7. Serves(m, p)
    BY <2>3, <2>6 DEF Serves
  <2>8. Fit(p)
    BY <2>3, <2>4, <2>5 DEF Fit
  <2> QED BY <1>2, <2>2, <2>7, <2>8, ResultFits, ServesTransitive
<1>5. CASE tok = "+" /\ m.plus + 1 # EscapeLength
  <2> DEFINE n == m.plus + 1
             longer == Append(m.online, "+")
             p == [m EXCEPT !.plus = n, !.online = longer]
  <2>1. longer \in Seq(Tokens) /\ n \in 0 .. EscapeLength - 1
    <3>1. longer \in Seq(Tokens)
      BY <1>1, <1>2, AppendProperties
    <3>2. n \in 0 .. EscapeLength - 1
      <4> DEFINE k == m.plus
      <4>1. k \in Nat /\ k < EscapeLength /\ EscapeLength \in Nat /\ k + 1 # EscapeLength
        BY <1>1, <1>5
      <4> HIDE DEF k
      <4>2. k + 1 \in 0 .. EscapeLength - 1
        BY <4>1
      <4> QED BY <4>2 DEF k
    <3> QED BY <3>1, <3>2
  <2>2. next = p
    BY <1>1, <1>5 DEF ReceiveOnlineByte
  <2> HIDE DEF longer, n
  <2>3. /\ p \in PeerType /\ p.mode = m.mode /\ p.plus = n /\ p.online = longer
        /\ p.kind = m.kind /\ p.got = m.got /\ p.batch = m.batch /\ p.pc = m.pc /\ p.call = m.call
        /\ p.incoming = m.incoming /\ p.outgoing = m.outgoing /\ p.conn = m.conn /\ p.over = m.over
        /\ p.clean = m.clean /\ p.connected = m.connected /\ p.cont = m.cont
    BY <1>1, <2>1 DEF PeerType
  <2> HIDE DEF p
  <2>4. Control(p)
    BY <2>3 DEF Fit, Control
  <2>5. Calls(p)
    BY <2>3 DEF Fit, Calls
  <2>6. \A heard \in Seq(Tokens) : Stream(heard, m) => Stream(heard, p)
    BY <1>3, <2>3 DEF Stream, longer, n
  <2>7. Serves(m, p)
    BY <2>3, <2>6 DEF Serves
  <2> QED BY <2>2, <2>3, <2>4, <2>5, <2>7 DEF Fit
<1>6. CASE tok # "+" /\ m.connected
  <2> DEFINE queue == m.outgoing \o Append(Pluses(m.plus), tok)
             longer == Append(m.online, tok)
             p == [m EXCEPT !.plus = 0, !.online = longer, !.outgoing = queue]
  <2>1. longer \in Seq(Tokens) /\ queue \in Seq(Tokens) /\ 0 \in 0 .. EscapeLength - 1
    <3> DEFINE tail == Append(Pluses(m.plus), tok)
    <3>1. Pluses(m.plus) \in Seq(Tokens)
      BY <1>1, PlusesSeq
    <3>2. tail \in Seq(Tokens)
      BY <3>1
    <3> HIDE DEF tail
    <3>3. m.outgoing \o tail \in Seq(Tokens)
      BY <1>1, <3>2, ConcatProperties
    <3> QED BY <1>1, <3>3 DEF tail
  <2>2. next = p
    BY <1>1, <1>6 DEF ReceiveOnlineByte
  <2> HIDE DEF longer, queue
  <2>3. /\ p \in PeerType /\ p.mode = m.mode /\ p.plus = 0 /\ p.online = longer
        /\ p.kind = m.kind /\ p.got = m.got /\ p.batch = m.batch /\ p.pc = m.pc /\ p.call = m.call
        /\ p.incoming = m.incoming /\ p.outgoing = queue /\ p.conn = m.conn /\ p.over = m.over
        /\ p.clean = m.clean /\ p.connected = m.connected /\ p.cont = m.cont
    BY <1>1, <2>1 DEF PeerType
  <2> HIDE DEF p
  <2>4. Control(p)
    BY <2>3 DEF Fit, Control
  <2>5. Calls(p)
    BY <2>3 DEF Fit, Calls
  <2>6. \A heard \in Seq(Tokens) : Stream(heard, m) => Stream(heard, p)
    BY <1>3, <2>3 DEF Stream, longer, queue
  <2>7. Serves(m, p)
    BY <2>3, <2>6 DEF Serves
  <2> QED BY <2>2, <2>3, <2>4, <2>5, <2>7 DEF Fit
<1>7. CASE tok # "+" /\ ~m.connected
  <2> DEFINE p == [m EXCEPT !.plus = 0, !.mode = "Command", !.over = m.call]
  <2>1. 0 \in 0 .. EscapeLength - 1 /\ m.pc \notin Active \cup {"open"} /\ m.call \in Nat
    <3>1. m.pc \notin Active \cup {"open"}
      BY <1>1, <1>7 DEF Fit, Control
    <3> QED BY <1>1, <3>1, PeerAssumption
  <2>2. next = Result(p, "NO CARRIER")
    BY <1>7 DEF ReceiveOnlineByte
  <2>3. /\ p \in PeerType /\ p.mode = "Command" /\ p.plus = 0
        /\ p.kind = m.kind /\ p.got = m.got /\ p.batch = m.batch /\ p.pc = m.pc /\ p.call = m.call
        /\ p.incoming = m.incoming /\ p.outgoing = m.outgoing /\ p.conn = m.conn /\ p.over = m.call
        /\ p.clean = m.clean /\ p.connected = m.connected /\ p.cont = m.cont
    BY <1>1, <2>1 DEF PeerType
  <2> HIDE DEF p
  <2>4. Control(p)
    BY <2>3 DEF Fit, Control
  <2>5. Calls(p)
    BY <2>1, <2>3 DEF Fit, Calls
  <2>6. Serves(m, p)
    BY <2>1, <2>3 DEF Serves
  <2>7. Fit(p)
    BY <2>3, <2>4, <2>5 DEF Fit
  <2> QED BY <1>2, <2>2, <2>6, <2>7, ResultFits, ServesTransitive
<1> QED BY <1>4, <1>5, <1>6, <1>7

\* A byte sent when no plus is held back.
LEMMA Sent ==
  ASSUME NEW base \in Seq(Tokens), NEW out \in Seq(Tokens), NEW tok \in Tokens
  PROVE  /\ Laid(base, out \o << tok >>, 0) = Laid(base, out, 0) \o << tok >>
         /\ out \o << tok >> \in Seq(Tokens)
<1> DEFINE one == << tok >>
           online == base \o out
<1>1. one \in Seq(Tokens) /\ online \in Seq(Tokens)
  BY ConcatProperties
<1>2. Pluses(0) = << >>
  BY PlusesSeq
<1> HIDE DEF one, online
<1>3. out \o one \in Seq(Tokens) /\ online \o one \in Seq(Tokens)
  BY <1>1, ConcatProperties
<1>4. (base \o out) \o one = base \o (out \o one)
  BY <1>1, Regroup
<1> DEFINE all == online \o one
<1>5. (base \o out) \o << >> = online /\ all \o << >> = all
  <2>1. online \o << >> = online
    BY <1>1, ConcatEmptySeq
  <2>2. all \o << >> = all
    <3> HIDE DEF all
    <3> QED BY <1>3, ConcatEmptySeq DEF all
  <2> QED BY <2>1, <2>2 DEF online
<1> HIDE DEF all
<1>6. base \o (out \o one) = all
  BY <1>4 DEF all, online
<1>7. Laid(base, out \o one, 0) = all /\ Laid(base, out, 0) = online
  BY <1>2, <1>5, <1>6 DEF Laid
<1> QED BY <1>3, <1>7 DEF one, all

LEMMA SendFits ==
  ASSUME NEW m, Fit(m), m.plus = 0, NEW tok \in Tokens
  PROVE  Fit(Send(m, << tok >>)) /\ Serves(m, Send(m, << tok >>))
<1> DEFINE one == << tok >>
           queue == m.outgoing \o one
           longer == m.online \o one
           p == [m EXCEPT !.outgoing = queue, !.online = longer]
<1>1. /\ m \in PeerType /\ m.batch \in Seq(Tokens) /\ m.outgoing \in Seq(Tokens)
      /\ m.online \in Seq(Tokens)
  BY DEF Fit, PeerType
<1>2. one \in Seq(Tokens)
  OBVIOUS
<1> HIDE DEF one
<1>3. queue \in Seq(Tokens) /\ longer \in Seq(Tokens)
  BY <1>1, <1>2, ConcatProperties
<1>4. Send(m, << tok >>) = p
  BY <1>1 DEF Send, one
<1>5. ASSUME NEW heard \in Seq(Tokens), Stream(heard, m)
      PROVE  heard \o m.batch \o queue \o Pluses(0) = longer
  <2> DEFINE base == heard \o m.batch
             out == m.outgoing
  <2>1. base \in Seq(Tokens) /\ out \in Seq(Tokens)
    BY <1>1, ConcatProperties
  <2>2. m.online = Laid(base, out, 0)
    BY <1>5 DEF Stream, Laid
  <2> HIDE DEF base, out
  <2>3. Laid(base, out \o << tok >>, 0) = Laid(base, out, 0) \o << tok >>
    BY <2>1, Sent, Zenon
  <2> QED BY <2>2, <2>3 DEF base, out, one, Laid
<1> HIDE DEF queue, longer
<1>6. /\ p \in PeerType /\ p.outgoing = queue /\ p.online = longer
      /\ p.kind = m.kind /\ p.got = m.got /\ p.batch = m.batch /\ p.pc = m.pc /\ p.call = m.call
      /\ p.incoming = m.incoming /\ p.plus = m.plus /\ p.mode = m.mode /\ p.conn = m.conn
      /\ p.over = m.over /\ p.clean = m.clean /\ p.connected = m.connected /\ p.cont = m.cont
  BY ZenonT(60), <1>1, <1>3 DEF PeerType
<1> HIDE DEF p
<1>7. Control(p)
  BY <1>6 DEF Fit, Control
<1>8. Calls(p)
  BY <1>6 DEF Fit, Calls
<1>9. \A heard \in Seq(Tokens) : Stream(heard, m) => Stream(heard, p)
  BY <1>5, <1>6 DEF Stream
<1>10. Serves(m, p)
  BY <1>6, <1>9 DEF Serves
<1> QED BY <1>4, <1>6, <1>7, <1>8, <1>10 DEF Fit

LEMMA ReceiveFits ==
  ASSUME NEW m, Fit(m), m.cont = "run", NEW tok \in Tokens
  PROVE  Fit(Receive(m, tok)) /\ Serves(m, Receive(m, tok))
<1>1. m.kind \in Kinds /\ m.mode \in {"Command", "Online"}
  BY DEF Fit, PeerType
<1>2. CASE m.kind = "none"
  <2>1. Receive(m, tok) = m
    BY <1>2 DEF Receive, Plain
  <2> QED BY <2>1, ServesReflexive
<1>3. CASE m.kind \in {"listen", "dial"}
  <2>1. m.plus = 0
    BY <1>1, <1>3 DEF Fit, Control
  <2>2. Receive(m, tok) = Send(m, << tok >>)
    BY <1>3 DEF Receive, Plain
  <2> QED BY <2>1, <2>2, SendFits
<1>4. CASE m.kind = "hayes" /\ m.mode = "Online"
  <2>1. Receive(m, tok) = ReceiveOnlineByte(m, tok)
    BY <1>4 DEF Receive, Plain
  <2> QED BY <1>4, <2>1, OnlineByteFits
<1>5. CASE m.kind = "hayes" /\ m.mode = "Command"
  <2>1. Receive(m, tok) = ReceiveCommandByte(m, tok)
    BY <1>5 DEF Receive, Plain
  <2> QED BY <1>5, <2>1, CommandByteFits
<1> QED BY <1>1, <1>2, <1>3, <1>4, <1>5 DEF Kinds

\* What a poll takes, and what it leaves.
LEMMA PollFits ==
  ASSUME NEW m, Fit(m), Ascending(m.incoming)
  PROVE  /\ Fit(Poll(m)) /\ Serves(m, Poll(m)) /\ Poll(m).cont = m.cont
         /\ Polled(m) \in Seq(ItemType) /\ Ascending(Polled(m))
         /\ PeerNumbers(Polled(m)) \subseteq PeerNumbers(m.incoming)
         /\ Precedes(PeerNumbers(Polled(m)), PeerNumbers(Poll(m).incoming))
<1> DEFINE queue == m.incoming
           k == IF Len(queue) < PollLimit THEN Len(queue) ELSE PollLimit
           polled == SubSeq(queue, 1, k)
           rest == SubSeq(queue, k + 1, Len(queue))
           p == [m EXCEPT !.incoming = rest]
<1>1. m \in PeerType /\ queue \in Seq(ItemType) /\ Len(queue) \in Nat
  <2>1. m \in PeerType /\ queue \in Seq(ItemType)
    BY DEF Fit, PeerType
  <2> QED BY <2>1, LenProperties
<1>2. k \in Nat /\ k <= Len(queue)
  BY <1>1, PeerAssumption
<1> HIDE DEF k
<1>3. /\ polled \in Seq(ItemType) /\ Len(polled) = k
      /\ rest \in Seq(ItemType) /\ Len(rest) = Len(queue) - k
      /\ \A i \in 1 .. Len(queue) - k : rest[i] = queue[k + i]
  <2> HIDE DEF queue
  <2> QED BY <1>1, <1>2, Cut
<1>4. /\ Ascending(polled) /\ Ascending(rest)
      /\ Precedes(PeerNumbers(polled), PeerNumbers(rest))
      /\ PeerNumbers(polled) \subseteq PeerNumbers(queue) /\ PeerNumbers(rest) \subseteq PeerNumbers(queue)
  <2>1. Ascending(queue)
    OBVIOUS
  <2> HIDE DEF queue
  <2> QED BY <1>1, <1>2, <2>1, NumbersOfCut
<1>5. Polled(m) = polled
  BY DEF Polled, k
<1>6. Poll(m) = p
  BY <1>3, <1>5 DEF Poll
<1> HIDE DEF rest, polled
<1>7. /\ p \in PeerType /\ p.incoming = rest
      /\ p.outgoing = m.outgoing /\ p.online = m.online
      /\ p.kind = m.kind /\ p.got = m.got /\ p.batch = m.batch /\ p.pc = m.pc /\ p.call = m.call
      /\ p.plus = m.plus /\ p.mode = m.mode /\ p.conn = m.conn
      /\ p.over = m.over /\ p.clean = m.clean /\ p.connected = m.connected /\ p.cont = m.cont
  BY <1>1, <1>3 DEF PeerType
<1> HIDE DEF p
<1>8. Control(p)
  BY <1>7 DEF Fit, Control
<1>9. Calls(p)
  <2>1. ASSUME m.kind = "hayes", NEW i \in 1 .. Len(rest), rest[i].from = "peer"
        PROVE  rest[i].call > m.clean
    <3>1. k + i \in 1 .. Len(m.incoming) /\ rest[i] = m.incoming[k + i]
      BY <1>1, <1>2, <1>3
    <3> QED BY <2>1, <3>1 DEF Fit, Calls
  <2> QED BY <1>7, <2>1 DEF Fit, Calls
<1>10. Serves(m, p)
  BY <1>4, <1>7 DEF Serves, Stream
<1> QED BY <1>3, <1>4, <1>5, <1>6, <1>7, <1>8, <1>9, <1>10 DEF Fit

LEMMA ResetPeerFits ==
  ASSUME NEW m, Fit(m), m.cont = "run"
  PROVE  Fit(ResetPeer(m)) /\ Serves(m, ResetPeer(m))
<1>1. m \in PeerType /\ m.kind \in Kinds /\ m.mode \in {"Command", "Online"}
  BY DEF Fit, PeerType
<1>2. CASE m.kind \in {"listen", "dial"}
  <2> DEFINE k == Len(m.outgoing)
             front == SubSeq(m.online, 1, Len(m.online) - k)
             p == [m EXCEPT !.outgoing = <<>>, !.incoming = <<>>, !.online = front]
  <2>1. /\ m.plus = 0 /\ m.batch \in Seq(Tokens) /\ m.outgoing \in Seq(Tokens)
        /\ m.online \in Seq(Tokens)
    BY <1>1, <1>2 DEF Fit, Control, PeerType
  <2>2. k \in Nat
    BY <2>1, LenProperties
  <2>3. ResetPeer(m) = p
    BY <1>1, <1>2 DEF ResetPeer, Plain
  <2>4. ASSUME NEW heard \in Seq(Tokens), Stream(heard, m)
        PROVE  heard \o m.batch \o << >> \o Pluses(0) = front
    <3> DEFINE base == heard \o m.batch
               out == m.outgoing
               both == base \o out
    <3>1. base \in Seq(Tokens) /\ out \in Seq(Tokens)
      BY <2>1, ConcatProperties
    <3>2. m.online = both \o Pluses(0) /\ Pluses(0) = << >>
      BY <2>1, <2>4, PlusesSeq DEF Stream
    <3> HIDE DEF base, out
    <3>3. both \in Seq(Tokens) /\ Len(both) = Len(base) + Len(out) /\ Len(base) \in Nat /\ Len(out) \in Nat
      BY <3>1, ConcatProperties, LenProperties
    <3>4. SubSeq(both, 1, Len(base)) = base
      BY <3>1, FrontOfConcat
    <3>5. base \o << >> = base
      BY <3>1, ConcatEmptySeq
    <3> HIDE DEF both
    <3>6. both \o << >> = both /\ Len(both) - Len(out) = Len(base)
      BY <3>3, ConcatEmptySeq
    <3>7. m.online = both
      BY <3>2, <3>6
    <3>8. front = base
      BY <3>4, <3>6, <3>7 DEF out
    <3> QED BY <3>2, <3>5, <3>8 DEF base
  <2>5. front \in Seq(Tokens) /\ << >> \in Seq(Tokens) /\ << >> \in Seq(ItemType) /\ Len(<< >>) = 0
    BY <2>1, <2>2, FrontSeq
  <2> HIDE DEF front, k
  <2>6. /\ p \in PeerType /\ p.outgoing = <<>> /\ p.incoming = <<>> /\ p.online = front
        /\ p.kind = m.kind /\ p.got = m.got /\ p.batch = m.batch /\ p.pc = m.pc /\ p.call = m.call
        /\ p.plus = m.plus /\ p.mode = m.mode /\ p.conn = m.conn
        /\ p.over = m.over /\ p.clean = m.clean /\ p.connected = m.connected /\ p.cont = m.cont
    BY <1>1, <2>5 DEF PeerType
  <2> HIDE DEF p
  <2>7. Control(p)
    BY <2>6 DEF Fit, Control
  <2>8. Calls(p)
    BY <1>2, <2>6 DEF Fit, Calls
  <2>9. \A heard \in Seq(Tokens) : Stream(heard, m) => Stream(heard, p)
    BY <2>1, <2>4, <2>6 DEF Stream
  <2>10. Serves(m, p)
    BY <2>6, <2>9, NumbersOfOne DEF Serves
  <2> QED BY <2>3, <2>6, <2>7, <2>8, <2>10 DEF Fit
<1>3. CASE m.kind \in {"hayes", "none"}
  <2>1. ResetPeer(m) = Hangup(m, "reset") /\ "reset" \in Callers
    BY <1>3 DEF ResetPeer, Plain, Callers
  <2> QED BY <1>3, <2>1, HangupFits
<1> QED BY <1>1, <1>2, <1>3 DEF Kinds

LEMMA DestroyFits ==
  ASSUME NEW m, Fit(m), m.cont = "run"
  PROVE  Fit(Destroy(m)) /\ Serves(m, Destroy(m))
<1>1. m \in PeerType /\ m.kind \in Kinds
  BY DEF Fit, PeerType
<1>2. CASE m.kind \in {"listen", "dial"}
  <2> DEFINE p == [m EXCEPT !.stop = TRUE, !.cont = "exit"]
  <2>1. Destroy(m) = p
    BY <1>2 DEF Destroy, Plain
  <2>2. /\ p \in PeerType /\ p.cont = "exit"
        /\ p.outgoing = m.outgoing /\ p.incoming = m.incoming /\ p.online = m.online
        /\ p.kind = m.kind /\ p.got = m.got /\ p.batch = m.batch /\ p.pc = m.pc /\ p.call = m.call
        /\ p.plus = m.plus /\ p.mode = m.mode /\ p.conn = m.conn
        /\ p.over = m.over /\ p.clean = m.clean /\ p.connected = m.connected
    BY <1>1 DEF PeerType
  <2> HIDE DEF p
  <2>3. Control(p)
    BY <1>2, <2>2 DEF Fit, Control
  <2>4. Calls(p)
    BY <2>2 DEF Fit, Calls
  <2>5. Serves(m, p)
    BY <2>2, Unseen
  <2> QED BY <2>1, <2>2, <2>3, <2>4, <2>5 DEF Fit
<1>3. CASE m.kind \in {"hayes", "none"}
  <2>1. Destroy(m) = Hangup(m, "exit") /\ "exit" \in Callers
    BY <1>3 DEF Destroy, Plain, Callers
  <2> QED BY <1>3, <2>1, HangupFits
<1> QED BY <1>1, <1>2, <1>3 DEF Kinds

\* The steps of the CPU in connectTcp and in a join.
LEMMA DialFits ==
  ASSUME Fit(modem), DialAnswered \/ DialGivesUp \/ DialCloses
  PROVE  Fit(modem') /\ Serves(modem, modem')
<1> DEFINE m == modem
<1>1. m \in PeerType /\ "CONNECT" \in Answers /\ "NO CARRIER" \in Answers
  BY DEF Fit, Answers
<1>2. CASE DialAnswered
  <2> DEFINE p == [m EXCEPT !.conn = TRUE, !.mode = "Online", !.cont = "run"]
  <2>1. modem' = Result(p, "CONNECT") /\ m.cont = "dialing" /\ m.connected
    BY <1>2 DEF DialAnswered
  <2>2. /\ p \in PeerType /\ p.cont = "run" /\ p.conn = TRUE /\ p.mode = "Online"
        /\ p.outgoing = m.outgoing /\ p.incoming = m.incoming /\ p.online = m.online
        /\ p.kind = m.kind /\ p.got = m.got /\ p.batch = m.batch /\ p.pc = m.pc /\ p.call = m.call
        /\ p.plus = m.plus /\ p.over = m.over /\ p.clean = m.clean /\ p.connected = m.connected
    BY <1>1 DEF PeerType
  <2> HIDE DEF p
  <2>3. Control(p)
    BY <2>1, <2>2 DEF Fit, Control, Active
  <2>4. Calls(p)
    BY <2>2 DEF Fit, Calls
  <2>5. Fit(p) /\ Serves(m, p)
    BY <2>2, <2>3, <2>4, Unseen DEF Fit
  <2> QED BY <1>1, <2>1, <2>5, ResultFits, ServesTransitive
<1>3. CASE DialGivesUp
  <2> DEFINE q == Result(m, "NO CARRIER")
             p == [q EXCEPT !.cont = "giveUp"]
  <2>1. modem' = p /\ m.cont = "dialing"
    BY <1>3 DEF DialGivesUp
  <2>2. Fit(q) /\ Serves(m, q) /\ q.cont = m.cont
    <3>1. q.cont = m.cont
      BY <1>1 DEF Result, Enqueue, PeerType
    <3> QED BY <1>1, <3>1, ResultFits
  <2> HIDE DEF q
  <2>3. /\ p \in PeerType /\ p.cont = "giveUp" /\ p.conn = q.conn /\ p.mode = q.mode
        /\ p.outgoing = q.outgoing /\ p.incoming = q.incoming /\ p.online = q.online
        /\ p.kind = q.kind /\ p.got = q.got /\ p.batch = q.batch /\ p.pc = q.pc /\ p.call = q.call
        /\ p.plus = q.plus /\ p.over = q.over /\ p.clean = q.clean /\ p.connected = q.connected
    BY ZenonT(60), <2>2 DEF PeerType, Fit
  <2> HIDE DEF p
  <2>4. Control(p)
    BY <2>1, <2>2, <2>3 DEF Fit, Control
  <2>5. Calls(p)
    BY <2>2, <2>3 DEF Fit, Calls
  <2>6. Fit(p) /\ Serves(q, p)
    BY <2>3, <2>4, <2>5, Unseen DEF Fit
  <2> QED BY <2>1, <2>2, <2>6, ServesTransitive
<1>4. CASE DialCloses
  <2> DEFINE p == [m EXCEPT !.stop = TRUE, !.cont = "failed"]
  <2>1. modem' = p /\ m.cont = "giveUp"
    BY <1>4 DEF DialCloses
  <2>2. /\ p \in PeerType /\ p.cont = "failed" /\ p.conn = m.conn /\ p.mode = m.mode
        /\ p.outgoing = m.outgoing /\ p.incoming = m.incoming /\ p.online = m.online
        /\ p.kind = m.kind /\ p.got = m.got /\ p.batch = m.batch /\ p.pc = m.pc /\ p.call = m.call
        /\ p.plus = m.plus /\ p.over = m.over /\ p.clean = m.clean /\ p.connected = m.connected
    BY <1>1 DEF PeerType
  <2> HIDE DEF p
  <2>3. Control(p)
    BY <2>1, <2>2 DEF Fit, Control
  <2>4. Calls(p)
    BY <2>2 DEF Fit, Calls
  <2>5. Serves(m, p)
    BY <2>2, Unseen
  <2> QED BY <2>1, <2>2, <2>3, <2>4, <2>5 DEF Fit
<1> QED BY <1>2, <1>3, <1>4

LEMMA JoinedFits ==
  ASSUME Fit(modem), Joined
  PROVE  Fit(modem') /\ Serves(modem, modem')
<1> DEFINE m == modem
<1>1. m \in PeerType /\ m.pc \in {"none", "ended"} /\ m.kind \in Kinds
      /\ m.cont \in Callers \cup {"failed"}
  BY DEF Fit, Joined, Joining, PeerType, Callers
<1>2. CASE m.cont = "failed"
  <2> DEFINE p == [m EXCEPT !.cont = "run"]
  <2>1. modem' = p
    BY <1>2 DEF Joined
  <2>2. /\ p \in PeerType /\ p.cont = "run" /\ p.conn = m.conn /\ p.mode = m.mode
        /\ p.outgoing = m.outgoing /\ p.incoming = m.incoming /\ p.online = m.online
        /\ p.kind = m.kind /\ p.got = m.got /\ p.batch = m.batch /\ p.pc = m.pc /\ p.call = m.call
        /\ p.plus = m.plus /\ p.over = m.over /\ p.clean = m.clean /\ p.connected = m.connected
    BY <1>1 DEF PeerType
  <2> HIDE DEF p
  <2>3. Control(p)
    BY <1>1, <1>2, <2>2 DEF Fit, Control
  <2>4. Calls(p)
    BY <2>2 DEF Fit, Calls
  <2>5. Serves(m, p)
    BY <2>2, Unseen
  <2> QED BY <2>1, <2>2, <2>3, <2>4, <2>5 DEF Fit
<1>3. CASE m.cont # "failed"
  <2>1. modem' = AfterHangup(m, m.cont) /\ m.cont \in Callers
    BY <1>1, <1>3 DEF Joined
  <2>2. m.cont # "exit" => m.kind = "hayes"
    BY <1>1, <1>3 DEF Fit, Control, Callers
  <2>3. m.cont \in {"hangup", "dial"} => m.plus = 0
    BY DEF Fit, Control
  <2>4. m.cont \in {"zap", "hangup", "dial"} => m.cont # "exit"
    OBVIOUS
  <2> DEFINE caller == m.cont
  <2>5. caller \in Callers /\ (caller # "exit" => m.kind \in {"hayes", "none"})
        /\ (caller \in {"zap", "hangup", "dial"} => m.kind = "hayes")
        /\ (caller \in {"hangup", "dial"} => m.plus = 0)
    BY <2>1, <2>2, <2>3, <2>4
  <2> HIDE DEF caller
  <2>6. Fit(AfterHangup(m, caller)) /\ Serves(m, AfterHangup(m, caller))
    BY <1>1, <2>5, AfterHangupFits
  <2> QED BY <2>1, <2>6 DEF caller
<1> QED BY <1>2, <1>3

-----------------------------------------------------------------------------
(* The chip.                                                                *)

Channel == ChannelType(ItemType)

LEMMA RegisterNumbers == Registers = {1, 4, 9, 12, 13, 14, 15}
BY DEF Registers, RegisterBits

\* An access of the guest to one channel: the transmitter goes on, and the receiver
\* holds what it held or nothing.
Access(s, t) ==
  /\ t.txCycles = s.txCycles /\ t.txData = s.txData
  /\ t.rxAvailable => s.rxAvailable /\ t.data = s.data

LEMMA DismissAccess ==
  ASSUME NEW s \in Channel, NEW source \in {"rx", "tx", "ext"}
  PROVE  /\ Dismiss(s, source) \in Channel /\ Access(s, Dismiss(s, source))
         /\ Dismiss(s, source).wr = s.wr
<1>1. CASE source = "rx"
  BY <1>1 DEF Channel, ChannelType, Dismiss, Access
<1>2. CASE source = "tx"
  BY <1>2 DEF Channel, ChannelType, Dismiss, Access
<1>3. CASE source = "ext"
  BY <1>3 DEF Channel, ChannelType, Dismiss, Access
<1> QED BY <1>1, <1>2, <1>3

\* An access leaves the chip wired; what it can do to the receiver of channel A.
LEMMA AccessWired ==
  ASSUME NEW chip, Wired(chip), NEW ch \in Channels, NEW s \in Channel, Access(chip[ch], s),
         ch = "A" => "async" \in s.wr[4]
  PROVE  Wired([chip EXCEPT ![ch] = s]) /\ Access(chip["A"], [chip EXCEPT ![ch] = s]["A"])
<1> DEFINE after == [chip EXCEPT ![ch] = s]
<1>1. chip \in [Channels -> Channel] /\ "A" \in Channels /\ "B" \in Channels
  BY DEF Wired, Channel, Channels
<1>2. after \in [Channels -> Channel]
  BY <1>1
<1>3. CASE ch = "A"
  <2>1. after["A"] = s /\ after["B"] = chip["B"]
    BY <1>1, <1>3
  <2> HIDE DEF after
  <2>2. Access(chip["A"], s)
    BY <1>3
  <2> QED BY <1>2, <1>3, <2>1, <2>2 DEF Wired, Access, Channel
<1>4. CASE ch = "B"
  <2>1. after["B"] = s /\ after["A"] = chip["A"]
    BY <1>1, <1>4
  <2>2. Access(chip["B"], s)
    BY <1>4
  <2> HIDE DEF after
  <2> QED BY <1>2, <1>4, <2>1, <2>2 DEF Wired, Access, Channel
<1> QED BY <1>3, <1>4 DEF Channels

LEMMA RestartTimerAccess ==
  ASSUME NEW s \in Channel
  PROVE  RestartTimer(s) \in Channel /\ Access(s, RestartTimer(s)) /\ RestartTimer(s).wr = s.wr
<1> DEFINE time == IF "timer" \in s.wr[14] THEN BaudTime ELSE 0
<1>1. time \in 0 .. BaudTime
  BY SccAssumption
<1>2. RestartTimer(s) = [s EXCEPT !.baud = time]
  BY DEF RestartTimer
<1> HIDE DEF time
<1> QED BY <1>1, <1>2 DEF Channel, ChannelType, Access

LEMMA WriteRegisterWired ==
  ASSUME NEW chip, Wired(chip), NEW ch \in Channels, chip[ch].selected # 0,
         NEW bits \in SUBSET {"rx", "tx", "ext", "async", "master", "timer", "loopback", "zeroCount"},
         ~(ch = "A" /\ chip[ch].selected = 4)
  PROVE  /\ Wired(WriteRegister(chip, ch, bits))
         /\ Access(chip["A"], WriteRegister(chip, ch, bits)["A"])
<1> DEFINE s == chip[ch]
           reg == s.selected
           regs == [s.wr EXCEPT ![reg] = bits]
           written == [s EXCEPT !.wr = regs, !.selected = 0]
           t == IF reg \in {12, 13, 14} THEN RestartTimer(written) ELSE written
<1>1. chip \in [Channels -> Channel]
  BY DEF Wired, Channel
<1>2. s \in Channel
  BY <1>1
<1>3. s.wr \in RegisterType /\ reg \in Registers
  BY <1>2 DEF Channel, ChannelType
<1>4. regs \in RegisterType /\ (reg # 4 => regs[4] = s.wr[4])
  BY <1>3, RegisterNumbers DEF RegisterType
<1>5. [s EXCEPT !.wr[reg] = bits, !.selected = 0] = written
  BY <1>2 DEF Channel, ChannelType
<1> HIDE DEF regs
<1>6. written \in Channel /\ Access(s, written) /\ written.wr = regs
  BY <1>2, <1>4 DEF Channel, ChannelType, Access
<1>7. WriteRegister(chip, ch, bits) = [chip EXCEPT ![ch] = t]
  BY <1>5 DEF WriteRegister
<1> HIDE DEF written
<1>8. t \in Channel /\ Access(s, t) /\ t.wr = regs
  <2>1. RestartTimer(written) \in Channel /\ Access(written, RestartTimer(written))
        /\ RestartTimer(written).wr = regs
    BY <1>6, RestartTimerAccess
  <2> QED BY <1>6, <2>1 DEF Access
<1>9. ch = "A" => "async" \in t.wr[4]
  BY <1>4, <1>8 DEF Wired
<1> HIDE DEF t, reg
<1>10. Wired([chip EXCEPT ![ch] = t]) /\ Access(chip["A"], [chip EXCEPT ![ch] = t]["A"])
  BY <1>8, <1>9, AccessWired
<1> QED BY <1>7, <1>10

LEMMA SelectWired ==
  ASSUME NEW chip, Wired(chip), NEW ch \in Channels, NEW reg \in Registers \cup {0}
  PROVE  /\ Wired(SelectRegister(chip, ch, reg))
         /\ Access(chip["A"], SelectRegister(chip, ch, reg)["A"])
<1> DEFINE t == [chip[ch] EXCEPT !.selected = reg]
<1>1. chip \in [Channels -> Channel]
  BY DEF Wired, Channel
<1>2. t \in Channel /\ Access(chip[ch], t) /\ t.wr = chip[ch].wr
  BY <1>1 DEF Channel, ChannelType, Access
<1>3. SelectRegister(chip, ch, reg) = [chip EXCEPT ![ch] = t]
  BY <1>1 DEF SelectRegister
<1> HIDE DEF t
<1>4. ch = "A" => "async" \in t.wr[4]
  BY <1>2 DEF Wired
<1>5. Wired([chip EXCEPT ![ch] = t]) /\ Access(chip["A"], [chip EXCEPT ![ch] = t]["A"])
  BY <1>2, <1>4, AccessWired
<1> QED BY <1>3, <1>5

LEMMA DismissWired ==
  ASSUME NEW chip, Wired(chip), NEW ch \in Channels, NEW source \in {"rx", "tx", "ext"}
  PROVE  /\ Wired([chip EXCEPT ![ch] = Dismiss(@, source)])
         /\ Access(chip["A"], [chip EXCEPT ![ch] = Dismiss(@, source)]["A"])
<1> DEFINE s == chip[ch]
           t == Dismiss(s, source)
<1>1. chip \in [Channels -> Channel]
  BY DEF Wired, Channel
<1>2. s \in Channel
  BY <1>1
<1>3. t \in Channel /\ Access(s, t) /\ t.wr = s.wr
  <2> HIDE DEF s
  <2> QED BY <1>2, DismissAccess
<1>4. [chip EXCEPT ![ch] = Dismiss(@, source)] = [chip EXCEPT ![ch] = t]
  BY <1>1
<1> HIDE DEF t
<1>5. ch = "A" => "async" \in t.wr[4]
  BY <1>3 DEF Wired
<1> QED BY <1>3, <1>4, <1>5, AccessWired

LEMMA WriteCommandWired ==
  ASSUME NEW chip, Wired(chip), NEW ch \in Channels, NEW command
  PROVE  /\ Wired(WriteCommand(chip, ch, command))
         /\ Access(chip["A"], WriteCommand(chip, ch, command)["A"])
<1> DEFINE after == WriteCommand(chip, ch, command)
<1>1. chip \in [Channels -> Channel] /\ "A" \in Channels /\ "B" \in Channels
  BY DEF Wired, Channel, Channels
<1>2. ASSUME NEW c \in Channels
      PROVE  \E source \in {"rx", "tx", "ext"} :
               [chip EXCEPT ![c] = DismissFirst(@)] = [chip EXCEPT ![c] = Dismiss(@, source)]
  <2>1. \E source \in {"rx", "tx", "ext"} : DismissFirst(chip[c]) = Dismiss(chip[c], source)
    BY DEF DismissFirst
  <2> QED BY <1>1, <2>1
<1>3. \/ after = chip
      \/ \E c \in Channels, source \in {"rx", "tx", "ext"} : after = [chip EXCEPT ![c] = Dismiss(@, source)]
  <2>1. CASE command = "resetExternal"
    BY <2>1 DEF WriteCommand
  <2>2. CASE command = "resetTransmit"
    BY <2>2 DEF WriteCommand
  <2>3. CASE command = "resetHighest"
    <3>1. after = ResetHighestInterrupt(chip)
      BY <2>3 DEF WriteCommand
    <3>2. \/ after = chip
          \/ after = [chip EXCEPT !["A"] = DismissFirst(@)]
          \/ after = [chip EXCEPT !["B"] = DismissFirst(@)]
      BY <3>1 DEF ResetHighestInterrupt
    <3> HIDE DEF after
    <3> QED BY <1>1, <1>2, <3>2
  <2>4. CASE command \notin {"resetExternal", "resetTransmit", "resetHighest"}
    BY <2>4 DEF WriteCommand
  <2> QED BY <2>1, <2>2, <2>3, <2>4
<1>4. Access(chip["A"], chip["A"])
  BY DEF Access
<1> HIDE DEF after
<1>5. ASSUME NEW c \in Channels, NEW source \in {"rx", "tx", "ext"},
             after = [chip EXCEPT ![c] = Dismiss(@, source)]
      PROVE  Wired(after) /\ Access(chip["A"], after["A"])
  <2>1. /\ Wired([chip EXCEPT ![c] = Dismiss(@, source)])
        /\ Access(chip["A"], [chip EXCEPT ![c] = Dismiss(@, source)]["A"])
    BY DismissWired
  <2> QED BY <1>5, <2>1
<1>6. Wired(after) /\ Access(chip["A"], after["A"])
  BY <1>3, <1>4, <1>5
<1> QED BY <1>6 DEF after

LEMMA WriteDataWired ==
  ASSUME NEW chip, Wired(chip), NEW byte \in ItemType, byte.tok \in Tokens
  PROVE  LET after == WriteData(chip, "A", byte)
         IN  /\ Wired(after) /\ after["A"].txCycles > 0
             /\ after["A"].rxAvailable => after["A"].data = byte
<1> DEFINE s == chip["A"]
           available == s.rxAvailable \/ "loopback" \in s.wr[14]
           kept == IF available THEN byte ELSE NoByte
           t == [s EXCEPT !.data = kept, !.txData = byte, !.txCycles = TransmitTime,
                          !.txPending = FALSE, !.rxAvailable = available]
           after == [chip EXCEPT !["A"] = t]
<1>1. /\ chip \in [Channels -> Channel] /\ "A" \in Channels /\ "B" \in Channels
      /\ TransmitTime \in 0 .. TransmitTime /\ TransmitTime > 0
  BY SccAssumption DEF Wired, Channel, Channels
<1>2. s \in Channel /\ available \in BOOLEAN /\ kept \in ItemType \cup {NoByte}
  BY <1>1 DEF Channel, ChannelType
<1>3. WriteData(chip, "A", byte) = after
  BY <1>1 DEF WriteData
<1>4. available => kept = byte
  OBVIOUS
<1> HIDE DEF available, kept
<1>5. /\ t \in Channel /\ t.wr = s.wr /\ t.txCycles = TransmitTime /\ t.txData = byte
      /\ t.rxAvailable = available /\ t.data = kept
  BY <1>1, <1>2 DEF Channel, ChannelType
<1> HIDE DEF t
<1>6. after \in [Channels -> Channel] /\ after["A"] = t /\ after["B"] = chip["B"]
  BY <1>1, <1>5
<1> HIDE DEF after
<1>7. Wired(after)
  BY <1>1, <1>2, <1>4, <1>5, <1>6 DEF Wired, Channel
<1> QED BY <1>1, <1>3, <1>4, <1>5, <1>6, <1>7

LEMMA ReceiveBytesWired ==
  ASSUME NEW chip, Wired(chip), NEW bytes \in Seq(ItemType)
  PROVE  LET after == ReceiveBytes(chip, "A", bytes)
         IN  /\ Wired(after) /\ after["A"].txCycles = chip["A"].txCycles
             /\ after["A"].txData = chip["A"].txData
             /\ bytes = << >> => after = chip
             /\ bytes # << >> => /\ after["A"].rxAvailable /\ after["A"].data = bytes[Len(bytes)]
                                 /\ Len(bytes) \in 1 .. Len(bytes)
<1> DEFINE s == chip["A"]
           byte == bytes[Len(bytes)]
           t == [s EXCEPT !.data = byte, !.rxAvailable = TRUE]
           after == [chip EXCEPT !["A"] = t]
<1>1. CASE bytes = << >>
  BY <1>1 DEF ReceiveBytes
<1>2. CASE bytes # << >>
  <2>1. Len(bytes) \in 1 .. Len(bytes) /\ byte \in ItemType
    <3>1. Len(bytes) \in Nat /\ Len(bytes) # 0
      BY <1>2, EmptySeq, LenProperties
    <3>2. Len(bytes) \in 1 .. Len(bytes)
      BY <3>1
    <3> QED BY <3>2, ElementOfSeq
  <2>2. chip \in [Channels -> Channel] /\ "A" \in Channels /\ "B" \in Channels
    BY DEF Wired, Channel, Channels
  <2>3. ReceiveBytes(chip, "A", bytes) = after
    BY <1>2, <2>2 DEF ReceiveBytes
  <2> HIDE DEF byte
  <2>4. /\ t \in Channel /\ t.wr = s.wr /\ t.txCycles = s.txCycles /\ t.txData = s.txData
        /\ t.data = byte /\ t.rxAvailable = TRUE
    BY <2>1, <2>2 DEF Channel, ChannelType
  <2> HIDE DEF t
  <2>5. after \in [Channels -> Channel] /\ after["A"] = t /\ after["B"] = chip["B"]
    BY <2>2, <2>4
  <2> HIDE DEF after
  <2>6. Wired(after)
    BY <2>1, <2>4, <2>5 DEF Wired, Channel
  <2> QED BY <1>2, <2>1, <2>3, <2>4, <2>5, <2>6 DEF byte
<1> QED BY <1>1, <1>2

\* What time does to one channel.
LEMMA TickChannel ==
  ASSUME NEW s \in Channel, NEW cycles \in Nat \ {0}
  PROVE  LET t == TickTimer(TickTransmitter(s, cycles), cycles)
         IN  /\ t \in Channel /\ t.wr = s.wr /\ t.rxAvailable = s.rxAvailable /\ t.data = s.data
             /\ t.txCycles > 0 <=> s.txCycles > 0 /\ s.txCycles \notin 1 .. cycles
             /\ t.txCycles > 0 => t.txData = s.txData
<1> DEFINE left == CountDown(s.txCycles, cycles)
           byte == IF s.txCycles <= cycles THEN NoByte ELSE s.txData
           pending == s.txPending \/ s.txCycles \in 1 .. cycles
           u == [s EXCEPT !.txCycles = left, !.txData = byte, !.txPending = pending]
<1>1. /\ s.txCycles \in 0 .. TransmitTime /\ s.txData \in ItemType \cup {NoByte}
      /\ s.txPending \in BOOLEAN /\ TransmitTime \in Nat /\ BaudTime \in Nat
  BY SccAssumption DEF Channel, ChannelType
<1>2. ASSUME NEW n \in Nat, NEW limit \in Nat, n <= limit
      PROVE  CountDown(n, cycles) \in 0 .. limit /\ (CountDown(n, cycles) > 0 <=> n > 0 /\ n \notin 1 .. cycles)
  BY <1>2 DEF CountDown
<1>3. /\ left \in 0 .. TransmitTime /\ byte \in ItemType \cup {NoByte} /\ pending \in BOOLEAN
      /\ left > 0 <=> s.txCycles > 0 /\ s.txCycles \notin 1 .. cycles
      /\ left > 0 => byte = s.txData
  <2>1. left \in 0 .. TransmitTime /\ (left > 0 <=> s.txCycles > 0 /\ s.txCycles \notin 1 .. cycles)
    BY <1>1, <1>2
  <2>2. left > 0 => ~(s.txCycles <= cycles)
    BY <1>1 DEF CountDown
  <2> QED BY <1>1, <2>1, <2>2
<1>4. TickTransmitter(s, cycles) = u
  BY DEF TickTransmitter
<1> HIDE DEF left, byte, pending
<1>5. /\ u \in Channel /\ u.wr = s.wr /\ u.rxAvailable = s.rxAvailable /\ u.data = s.data
      /\ u.txCycles = left /\ u.txData = byte
  BY <1>3 DEF Channel, ChannelType
<1> HIDE DEF u
<1> DEFINE zero == u.baud \in 1 .. cycles
           ie == "zeroCount" \in u.wr[15]
           baud == CountDown(u.baud, cycles)
           count == u.zeroCount \/ (zero /\ ie)
           ext == IF zero THEN ie ELSE u.extPending
           t == [u EXCEPT !.baud = baud, !.zeroCount = count, !.extPending = ext]
<1>6. u.baud \in 0 .. BaudTime /\ u.zeroCount \in BOOLEAN /\ u.extPending \in BOOLEAN
  BY <1>5 DEF Channel, ChannelType
<1>7. baud \in 0 .. BaudTime
  BY <1>1, <1>2, <1>6
<1>8. count \in BOOLEAN /\ ext \in BOOLEAN
  <2>1. zero \in BOOLEAN /\ ie \in BOOLEAN
    OBVIOUS
  <2> HIDE DEF zero, ie
  <2>2. ext \in BOOLEAN
    BY <1>6, <2>1
  <2>3. count \in BOOLEAN
    BY Zenon
  <2> QED BY <2>2, <2>3
<1>9. TickTimer(TickTransmitter(s, cycles), cycles) = t
  BY <1>4 DEF TickTimer
<1> HIDE DEF zero, ie, baud, count, ext
<1>10. /\ t \in Channel /\ t.wr = u.wr /\ t.rxAvailable = u.rxAvailable /\ t.data = u.data
       /\ t.txCycles = u.txCycles /\ t.txData = u.txData
  BY ZenonT(60), <1>5, <1>7, <1>8 DEF Channel, ChannelType
<1> HIDE DEF t
<1> QED BY <1>3, <1>5, <1>9, <1>10

LEMMA TickWired ==
  ASSUME NEW chip, Wired(chip), NEW cycles \in Nat \ {0}
  PROVE  LET after == TickChannels(chip, cycles)
         IN  /\ Wired(after)
             /\ after["A"].rxAvailable = chip["A"].rxAvailable /\ after["A"].data = chip["A"].data
             /\ after["A"].txCycles > 0 <=> chip["A"].txCycles > 0 /\ chip["A"].txCycles \notin 1 .. cycles
<1> DEFINE t(ch) == TickTimer(TickTransmitter(chip[ch], cycles), cycles)
           after == TickChannels(chip, cycles)
<1>1. chip \in [Channels -> Channel] /\ "A" \in Channels /\ "B" \in Channels
  BY DEF Wired, Channel, Channels
<1>2. \A ch \in Channels :
        /\ t(ch) \in Channel /\ t(ch).wr = chip[ch].wr /\ t(ch).rxAvailable = chip[ch].rxAvailable
        /\ t(ch).data = chip[ch].data
        /\ t(ch).txCycles > 0 <=> chip[ch].txCycles > 0 /\ chip[ch].txCycles \notin 1 .. cycles
        /\ t(ch).txCycles > 0 => t(ch).txData = chip[ch].txData
  <2> TAKE ch \in Channels
  <2>1. chip[ch] \in Channel
    BY <1>1
  <2> DEFINE s == chip[ch]
  <2> HIDE DEF s
  <2>2. LET r == TickTimer(TickTransmitter(s, cycles), cycles)
         IN  /\ r \in Channel /\ r.wr = s.wr /\ r.rxAvailable = s.rxAvailable /\ r.data = s.data
             /\ r.txCycles > 0 <=> s.txCycles > 0 /\ s.txCycles \notin 1 .. cycles
             /\ r.txCycles > 0 => r.txData = s.txData
    BY <2>1, TickChannel DEF s
  <2> QED BY <2>2 DEF s
<1>3. after = [ch \in Channels |-> t(ch)]
  BY DEF TickChannels
<1> HIDE DEF t
<1>4. after \in [Channels -> Channel] /\ after["A"] = t("A") /\ after["B"] = t("B")
  BY <1>1, <1>2, <1>3
<1> HIDE DEF after
<1>5. Wired(after)
  BY <1>1, <1>2, <1>4 DEF Wired, Channel
<1> QED BY <1>1, <1>2, <1>4, <1>5 DEF after

\* The chip after the driver's initialisation.
LEMMA ProgrammedWired ==
  LET chip == Programmed(ResetScc)
  IN  Wired(chip) /\ chip["A"].txCycles = 0 /\ chip["A"].rxAvailable = FALSE
<1> DEFINE chip == Programmed(ResetScc)
           s(ch) == [ResetChannel EXCEPT !.wr = Program[ch]]
<1>1. "A" \in Channels /\ "B" \in Channels /\ Program \in [Channels -> RegisterType]
      /\ "async" \in Program["A"][4]
  BY LineAssumption DEF Channels
<1>2. chip = [ch \in Channels |-> RestartTimer(s(ch))]
  BY DEF Programmed, ResetScc
<1>3. \A ch \in Channels : /\ s(ch) \in Channel /\ s(ch).wr = Program[ch] /\ s(ch).txCycles = 0
                           /\ s(ch).rxAvailable = FALSE
  <2> TAKE ch \in Channels
  <2>1. Program[ch] \in RegisterType /\ 0 \in 0 .. TransmitTime /\ 0 \in 0 .. BaudTime
    BY <1>1, SccAssumption
  <2> QED BY <2>1 DEF ResetChannel, Channel, ChannelType
<1> HIDE DEF s
<1>4. \A ch \in Channels : /\ RestartTimer(s(ch)) \in Channel /\ Access(s(ch), RestartTimer(s(ch)))
                           /\ RestartTimer(s(ch)).wr = s(ch).wr
  BY <1>3, RestartTimerAccess
<1>5. chip \in [Channels -> Channel] /\ chip["A"] = RestartTimer(s("A")) /\ chip["B"] = RestartTimer(s("B"))
  BY <1>1, <1>2, <1>4
<1>6. chip["A"].rxAvailable \in BOOLEAN /\ chip["B"].rxAvailable \in BOOLEAN
  BY <1>1, <1>5 DEF Channel, ChannelType
<1> HIDE DEF chip
<1>7. /\ chip["A"].txCycles = 0 /\ chip["A"].rxAvailable = FALSE /\ chip["B"].rxAvailable = FALSE
      /\ "async" \in chip["A"].wr[4]
  BY <1>1, <1>3, <1>4, <1>5, <1>6 DEF Access
<1>8. Wired(chip)
  BY <1>5, <1>7 DEF Wired, Channel
<1> QED BY <1>7, <1>8 DEF chip

-----------------------------------------------------------------------------
(* The order of the far end's bytes.                                        *)

LEMMA NumbersNat ==
  ASSUME NEW s \in Seq(ItemType)
  PROVE  PeerNumbers(s) \subseteq Nat
<1>1. \A i \in 1 .. Len(s) : s[i].n \in Nat
  <2> TAKE i \in 1 .. Len(s)
  <2>1. s[i] \in ItemType
    BY ElementOfSeq
  <2> QED BY <2>1 DEF ItemType
<1> QED BY <1>1 DEF PeerNumbers

\* Bytes are lost on the way, and others than the far end's join the queue.
LEMMA SortedNarrows ==
  ASSUME NEW last, NEW held, NEW in, NEW got, NEW wire, NEW sent,
         Sorted(last, held, in, got, wire, sent),
         NEW held2, NEW in2, NEW got2, NEW wire2,
         PeerNumbers(held2) \subseteq PeerNumbers(held), PeerNumbers(in2) \subseteq PeerNumbers(in),
         PeerNumbers(got2) \subseteq PeerNumbers(got), PeerNumbers(wire2) \subseteq PeerNumbers(wire),
         Ascending(in2), Ascending(got2), Ascending(wire2)
  PROVE  Sorted(last, held2, in2, got2, wire2, sent)
BY DEF Sorted, Precedes

\* The guest reads a byte of the far end.
LEMMA SortedRead ==
  ASSUME NEW last, NEW byte, byte.from = "peer", NEW in, NEW got, NEW wire, NEW sent,
         Sorted(last, << byte >>, in, got, wire, sent)
  PROVE  Sorted(byte.n, << >>, in, got, wire, sent)
<1> DEFINE one == << byte >>
           none == << >>
           n == byte.n
<1>1. PeerNumbers(one) = {n} /\ PeerNumbers(none) = {}
  BY NumbersOfOne
<1>2. Sorted(last, one, in, got, wire, sent)
  OBVIOUS
<1> HIDE DEF one, none, n
<1>3. Sorted(n, none, in, got, wire, sent)
  BY <1>1, <1>2 DEF Sorted, Precedes
<1> QED BY <1>3 DEF n, none

\* A poll takes polled and leaves rest: the receiver keeps the last byte polled.
LEMMA SortedPoll ==
  ASSUME NEW last, NEW held, NEW in, NEW got, NEW wire, NEW sent,
         Sorted(last, held, in, got, wire, sent), NEW byte, NEW rest, NEW polled,
         byte.from = "peer" => byte.n \in PeerNumbers(polled),
         PeerNumbers(polled) \subseteq PeerNumbers(in), PeerNumbers(rest) \subseteq PeerNumbers(in),
         Precedes(PeerNumbers(polled), PeerNumbers(rest)), Ascending(rest)
  PROVE  Sorted(last, << byte >>, rest, got, wire, sent)
<1> DEFINE one == << byte >>
<1>1. PeerNumbers(one) \subseteq PeerNumbers(polled)
  BY NumbersOfOne
<1> HIDE DEF one
<1>2. Sorted(last, one, rest, got, wire, sent)
  BY <1>1 DEF Sorted, Precedes
<1> QED BY <1>2 DEF one

\* The thread reads front off the socket.
LEMMA SortedReads ==
  ASSUME NEW last, NEW held, NEW in, NEW wire, NEW sent,
         Sorted(last, held, in, << >>, wire, sent), NEW front, NEW rest,
         PeerNumbers(front) \subseteq PeerNumbers(wire), PeerNumbers(rest) \subseteq PeerNumbers(wire),
         Precedes(PeerNumbers(front), PeerNumbers(rest)), Ascending(front), Ascending(rest)
  PROVE  Sorted(last, held, in, front, rest, sent)
<1> DEFINE none == << >>
<1>1. PeerNumbers(none) = {}
  BY NumbersOfOne
<1>2. Sorted(last, held, in, none, wire, sent)
  OBVIOUS
<1> HIDE DEF none
<1> QED BY <1>1, <1>2 DEF Sorted, Precedes

\* The thread hands over what it has read.
LEMMA SortedEnqueues ==
  ASSUME NEW last, NEW held, NEW in \in Seq(ItemType), NEW got \in Seq(ItemType), NEW wire, NEW sent,
         Sorted(last, held, in, got, wire, sent)
  PROVE  Sorted(last, held, in \o got, << >>, wire, sent)
<1> DEFINE none == << >>
           queue == in \o got
<1>1. PeerNumbers(none) = {} /\ Ascending(none)
  BY NumbersOfOne
<1>2. /\ Ascending(in) /\ Ascending(got) /\ Precedes(PeerNumbers(in), PeerNumbers(got))
  BY DEF Sorted, Precedes
<1>3. PeerNumbers(queue) = PeerNumbers(in) \cup PeerNumbers(got) /\ Ascending(queue)
  BY <1>2, NumbersOfConcat
<1> HIDE DEF none, queue
<1>4. Sorted(last, held, queue, none, wire, sent)
  BY <1>1, <1>3 DEF Sorted, Precedes
<1> QED BY <1>4 DEF none, queue

\* The far end sends its next byte.
LEMMA SortedSends ==
  ASSUME NEW last \in Nat, NEW held \in Seq(ItemType), NEW in \in Seq(ItemType),
         NEW got \in Seq(ItemType), NEW wire \in Seq(ItemType), NEW sent \in Nat,
         Sorted(last, held, in, got, wire, sent),
         NEW item \in ItemType, item.from = "peer", item.n = sent + 1
  PROVE  Sorted(last, held, in, got, Append(wire, item), sent + 1)
<1> DEFINE longer == Append(wire, item)
           next == sent + 1
           all == {last} \cup PeerNumbers(held) \cup PeerNumbers(in) \cup PeerNumbers(got) \cup PeerNumbers(wire)
<1>1. all \subseteq Nat /\ \A n \in all : n <= sent
  BY NumbersNat DEF Sorted
<1>2. (\A n \in all : n <= next /\ n < next) /\ next <= next
  BY <1>1
<1>3. PeerNumbers(longer) = PeerNumbers(wire) \cup {next}
  BY NumbersOfAppend
<1>4. Ascending(longer)
  <2>1. Precedes(PeerNumbers(wire), {item.n}) /\ Ascending(wire)
    BY <1>2 DEF Precedes, Sorted
  <2> QED BY <2>1, NumbersOfAppend
<1> HIDE DEF longer, next
<1>5. Sorted(last, held, in, got, longer, next)
  BY <1>2, <1>3, <1>4 DEF Sorted, Precedes
<1> QED BY <1>5 DEF longer, next

-----------------------------------------------------------------------------
(* The steps.                                                               *)

GuestType(use) == [wrote : 0 .. Len(use.script), took : 0 .. Len(use.script), last : 0 .. use.sent]
NetType(use) == [up : BOOLEAN, wire : Seq(ItemType), heard : Seq(Tokens), sent : 0 .. use.sent]

LEMMA UsageType ==
  ASSUME Inv
  PROVE  /\ Usage.script \in Seq(SUBSET Tokens) /\ Len(Usage.script) \in Nat /\ Usage.sent \in Nat
         /\ \A r \in Usage.rewrites : /\ r[1] \in Channels /\ r[2] \in Registers
                                      /\ r[3] \in {{"timer"}, {"loopback"}, {}}
                                      /\ ~(r[1] = "A" /\ r[2] = 4)
<1>1. modem.kind \in PeerKinds
  BY DEF Inv, TypeOK
<1>2. Usage \in [script : Seq(SUBSET Tokens), sent : Nat, commands : SUBSET WR0Commands,
                 rewrites : SUBSET (Channels \X Registers \X {{"timer"}, {"loopback"}, {}})]
  BY <1>1, LineAssumption DEF Usage
<1>3. \A r \in Usage.rewrites : ~(r[1] = "A" /\ r[2] = 4)
  BY <1>1, LineAssumption DEF Usage
<1>4. Usage.script \in Seq(SUBSET Tokens) /\ Usage.sent \in Nat
      /\ Usage.rewrites \subseteq (Channels \X Registers \X {{"timer"}, {"loopback"}, {}})
  BY <1>2
<1>5. Len(Usage.script) \in Nat
  BY <1>4, LenProperties
<1>6. \A r \in Usage.rewrites : r[1] \in Channels /\ r[2] \in Registers /\ r[3] \in {{"timer"}, {"loopback"}, {}}
  BY <1>4
<1> QED BY <1>3, <1>4, <1>5, <1>6

\* A step of the emulation thread: q is the endpoint after its poll.
LEMMA EmulationKeeps ==
  ASSUME Inv, UNCHANGED <<machine, net>>, Fit(modem'), NEW q, Serves(modem, q), Serves(q, modem'),
         Wired(scc'), TransmitOnce', guest' \in GuestType(Usage),
         Sorted(guest'.last, Unread', q.incoming, modem.got, net.wire, net.sent)
  PROVE  Inv'
<1>1. Serves(modem, modem')
  BY ServesTransitive
<1>2. modem'.kind = modem.kind /\ modem'.got = modem.got /\ machine' = machine /\ net' = net
  BY <1>1 DEF Serves
<1>3. TypeOK'
  <2>1. Usage' = Usage
    BY <1>2 DEF Usage
  <2>2. machine' \in Machines /\ modem' \in PeerType /\ modem'.kind \in PeerKinds
    BY <1>2 DEF Inv, TypeOK, Fit
  <2>3. scc' \in [Channels -> ChannelType(ItemType)]
    BY DEF Wired
  <2>4. net' \in NetType(Usage)
    BY <1>2 DEF Inv, TypeOK, NetType
  <2> QED BY <2>1, <2>2, <2>3, <2>4 DEF TypeOK, GuestType, NetType
<1>4. Link'
  <2>1. ASSUME net.up PROVE modem'.pc \in Active /\ Stream(net.heard, modem')
    <3>1. modem.pc \in Active /\ Stream(net.heard, modem) /\ net.heard \in Seq(Tokens)
      BY <2>1 DEF Inv, Link, TypeOK
    <3> QED BY <1>1, <3>1 DEF Serves
  <2>2. ASSUME modem'.kind = "hayes", modem'.pc \in Active
        PROVE  \A i \in 1 .. Len(net.wire) : net.wire[i].call = modem'.call
    <3>1. modem.pc \in Active /\ modem'.call = modem.call
      BY <1>1, <2>2 DEF Serves, Active
    <3> QED BY <1>2, <2>2, <3>1 DEF Inv, Link
  <2> QED BY <1>2, <2>1, <2>2 DEF Link
<1>5. InOrder'
  <2> DEFINE in == q.incoming
             in2 == modem'.incoming
             held == Unread'
             last == guest'.last
             got == modem.got
             wire == net.wire
             sent == net.sent
  <2>1. Ascending(in) /\ Ascending(got) /\ Ascending(wire)
    BY DEF Sorted
  <2>2. PeerNumbers(in2) \subseteq PeerNumbers(in) /\ Ascending(in2)
    BY <2>1 DEF Serves
  <2>3. Sorted(last, held, in, got, wire, sent)
    OBVIOUS
  <2>4. InOrder' <=> Sorted(last, held, in2, got, wire, sent)
    BY <1>2 DEF InOrder
  <2> HIDE DEF in, in2, held, last, got, wire, sent
  <2>5. Sorted(last, held, in2, got, wire, sent)
    BY <2>1, <2>2, <2>3, SortedNarrows
  <2> QED BY <2>4, <2>5
<1> QED BY <1>3, <1>4, <1>5 DEF Inv

\* The byte in the receiver of channel A.
LEMMA HeldByte ==
  ASSUME NEW s, NEW t, Access(s, t)
  PROVE  LET unread(c) == IF c.rxAvailable THEN << c.data >> ELSE << >>
         IN  PeerNumbers(unread(t)) \subseteq PeerNumbers(unread(s))
<1>1. CASE t.rxAvailable
  BY <1>1 DEF Access
<1>2. CASE ~t.rxAvailable
  BY <1>2, NumbersOfOne
<1> QED BY <1>1, <1>2

\* The receiver of channel A holds no byte of the far end that it did not hold.
LEMMA HeldNarrows ==
  ASSUME Inv, guest'.last = guest.last, PeerNumbers(Unread') \subseteq PeerNumbers(Unread)
  PROVE  Sorted(guest'.last, Unread', modem.incoming, modem.got, net.wire, net.sent)
<1> DEFINE held == Unread
           held2 == Unread'
           last == guest.last
           in == modem.incoming
           got == modem.got
           wire == net.wire
           sent == net.sent
<1>1. Sorted(last, held, in, got, wire, sent)
  BY DEF Inv, InOrder
<1>2. Ascending(in) /\ Ascending(got) /\ Ascending(wire)
  BY <1>1 DEF Sorted
<1>3. PeerNumbers(held2) \subseteq PeerNumbers(held)
  OBVIOUS
<1> HIDE DEF held, held2, last, in, got, wire, sent
<1>4. Sorted(last, held2, in, got, wire, sent)
  BY <1>1, <1>2, <1>3, SortedNarrows
<1> QED BY <1>4 DEF held2, last, in, got, wire, sent

\* A register access of the guest.
LEMMA AccessKeeps ==
  ASSUME Inv, UNCHANGED <<machine, modem, net, guest>>, Wired(scc'), Access(scc["A"], scc'["A"])
  PROVE  Inv'
<1>1. PeerNumbers(Unread') \subseteq PeerNumbers(Unread)
  BY HeldByte DEF Unread
<1>2. TransmitOnce'
  BY DEF Inv, TransmitOnce, Access
<1>3. Fit(modem') /\ Serves(modem, modem) /\ Serves(modem, modem')
  BY ServesReflexive DEF Inv
<1>4. guest' \in GuestType(Usage)
  BY DEF Inv, TypeOK, GuestType
<1>5. Sorted(guest'.last, Unread', modem.incoming, modem.got, net.wire, net.sent)
  BY <1>1, HeldNarrows
<1> QED BY <1>2, <1>3, <1>4, <1>5, EmulationKeeps

\* A step of the CPU in the endpoint.
LEMMA EndpointKeeps ==
  ASSUME Inv, UNCHANGED <<machine, scc, net, guest>>, Fit(modem'), Serves(modem, modem')
  PROVE  Inv'
<1>1. TransmitOnce' /\ Wired(scc') /\ guest' \in GuestType(Usage)
  BY DEF Inv, TransmitOnce, TypeOK, GuestType
<1>2. Sorted(guest'.last, Unread', modem.incoming, modem.got, net.wire, net.sent)
  BY DEF Inv, InOrder, Unread
<1> QED BY <1>1, <1>2, ServesReflexive, EmulationKeeps

LEMMA GuestWritesDataKeeps ==
  ASSUME Inv, NEW tok \in Tokens, GuestWritesData(tok)
  PROVE  Inv'
<1> DEFINE byte == Item("guest", tok, 0, 0)
           chip == WriteData(scc, "A", byte)
<1>1. byte \in ItemType /\ byte.tok \in Tokens /\ byte.from # "peer"
  BY DEF Item, ItemType
<1>2. /\ scc' = chip /\ guest' = [guest EXCEPT !.wrote = @ + 1] /\ modem' = modem
      /\ guest.wrote < Len(Usage.script) /\ scc["A"].txCycles = 0
      /\ UNCHANGED <<machine, net>>
  BY DEF GuestWritesData
<1> HIDE DEF byte
<1>3. /\ Wired(chip) /\ chip["A"].txCycles > 0
      /\ chip["A"].rxAvailable => chip["A"].data = byte
  <2>1. Wired(scc)
    BY DEF Inv
  <2> QED BY <1>1, <2>1, WriteDataWired
<1> HIDE DEF chip
<1>4. guest \in GuestType(Usage) /\ Len(Usage.script) \in Nat
  BY UsageType DEF Inv, TypeOK, GuestType
<1>5. /\ guest' \in GuestType(Usage) /\ guest'.wrote = guest.wrote + 1 /\ guest'.took = guest.took
      /\ guest'.last = guest.last /\ guest.wrote \in Nat /\ guest.took \in Nat
  <2>1. guest.wrote \in Nat /\ guest.wrote + 1 \in 0 .. Len(Usage.script) /\ guest.took \in Nat
    BY <1>2, <1>4 DEF GuestType
  <2> QED BY <1>2, <1>4, <2>1 DEF GuestType
<1>6. TransmitOnce'
  <2>1. guest.wrote = guest.took
    BY <1>2, <1>5 DEF Inv, TransmitOnce
  <2> QED BY <1>2, <1>3, <1>5, <2>1 DEF TransmitOnce
<1>7. PeerNumbers(Unread') = {}
  BY <1>1, <1>2, <1>3, NumbersOfOne DEF Unread
<1>8. Sorted(guest'.last, Unread', modem.incoming, modem.got, net.wire, net.sent)
  BY <1>7, <1>5, HeldNarrows
<1>9. Fit(modem') /\ Serves(modem, modem) /\ Serves(modem, modem') /\ Wired(scc')
  BY <1>2, <1>3, ServesReflexive DEF Inv
<1> QED BY <1>2, <1>5, <1>6, <1>8, <1>9, EmulationKeeps

LEMMA GuestReadsDataKeeps ==
  ASSUME Inv, NEW ch \in Channels, GuestReadsData(ch)
  PROVE  Inv'
<1>1. Wired(scc') /\ Access(scc["A"], scc'["A"]) /\ UNCHANGED <<machine, modem, net>>
  <2>1. Wired(scc) /\ "rx" \in {"rx", "tx", "ext"}
    BY DEF Inv
  <2>2. scc' = [scc EXCEPT ![ch] = Dismiss(@, "rx")]
    BY DEF GuestReadsData, ReadData
  <2>3. /\ Wired([scc EXCEPT ![ch] = Dismiss(@, "rx")])
        /\ Access(scc["A"], [scc EXCEPT ![ch] = Dismiss(@, "rx")]["A"])
    BY <2>1, DismissWired
  <2> QED BY <2>2, <2>3 DEF GuestReadsData
<1>2. CASE guest' = guest
  BY <1>1, <1>2, AccessKeeps
<1>3. CASE guest' # guest
  <2>1. /\ ch = "A" /\ scc["A"].rxAvailable /\ scc["A"].data.from = "peer"
        /\ guest' = [guest EXCEPT !.last = scc["A"].data.n]
    BY <1>3 DEF GuestReadsData, Inv, Wired, Channels
  <2> DEFINE byte == scc["A"].data
  <2>2. scc'["A"].rxAvailable = FALSE
    <3>1. scc["A"] \in Channel /\ scc \in [Channels -> Channel] /\ "A" \in Channels
      BY DEF Inv, Wired, Channel, Channels
    <3>2. scc'["A"] = Dismiss(scc["A"], "rx")
      BY <2>1, <3>1 DEF GuestReadsData, ReadData
    <3> QED BY <3>1, <3>2 DEF Dismiss, Channel, ChannelType
  <2>3. Unread = << byte >> /\ Unread' = << >>
    BY <2>1, <2>2 DEF Unread
  <2>4. Sorted(byte.n, << >>, modem.incoming, modem.got, net.wire, net.sent)
    <3> DEFINE last == guest.last
               in == modem.incoming
               got == modem.got
               wire == net.wire
               sent == net.sent
    <3>1. Sorted(last, << byte >>, in, got, wire, sent) /\ byte.from = "peer"
      BY <2>1, <2>3 DEF Inv, InOrder
    <3> HIDE DEF byte, last, in, got, wire, sent
    <3>2. Sorted(byte.n, << >>, in, got, wire, sent)
      BY <3>1, SortedRead
    <3> QED BY <3>2 DEF in, got, wire, sent
  <2>5. byte \in ItemType /\ byte.n \in Nat /\ byte.n <= net.sent /\ net.sent \in 0 .. Usage.sent
    <3>1. byte \in ItemType
      BY <2>1 DEF Inv, Wired
    <3>2. byte.n <= net.sent
      BY <2>4 DEF Sorted
    <3> QED BY <3>1, <3>2 DEF ItemType, Inv, TypeOK
  <2>6. guest \in GuestType(Usage) /\ byte.n \in 0 .. Usage.sent
    <3>1. byte.n \in 0 .. Usage.sent
      <4>1. Usage.sent \in Nat
        BY UsageType
      <4> HIDE DEF byte
      <4> QED BY <2>5, <4>1
    <3> QED BY <3>1 DEF Inv, TypeOK, GuestType
  <2> HIDE DEF byte
  <2>7. /\ guest' \in GuestType(Usage) /\ guest'.wrote = guest.wrote /\ guest'.took = guest.took
        /\ guest'.last = byte.n
    BY <2>1, <2>6 DEF GuestType, byte
  <2>8. TransmitOnce'
    BY <1>1, <2>7 DEF Inv, TransmitOnce, Access
  <2>9. Fit(modem') /\ Serves(modem, modem) /\ Serves(modem, modem')
    BY <1>1, ServesReflexive DEF Inv
  <2>10. Sorted(guest'.last, Unread', modem.incoming, modem.got, net.wire, net.sent)
    BY <2>3, <2>4, <2>7
  <2> QED BY <1>1, <2>7, <2>8, <2>9, <2>10, EmulationKeeps
<1> QED BY <1>2, <1>3

LEMMA GuestControlKeeps ==
  ASSUME Inv,
         \/ \E ch \in Channels : GuestReadsControl(ch)
         \/ \E r \in Usage.rewrites : GuestSelects(r[1], r[2])
         \/ \E r \in Usage.rewrites : r[2] = scc[r[1]].selected /\ GuestWritesRegister(r[1], r[3])
         \/ \E ch \in Channels, command \in Usage.commands : GuestCommands(ch, command)
  PROVE  Inv'
<1>1. Wired(scc)
  BY DEF Inv
<1>2. ASSUME NEW ch \in Channels, GuestReadsControl(ch) PROVE Inv'
  <2>1. scc' = SelectRegister(scc, ch, 0) /\ UNCHANGED <<machine, modem, net, guest>>
    BY <1>2 DEF GuestReadsControl, ReadControl, SelectRegister
  <2>2. 0 \in Registers \cup {0}
    OBVIOUS
  <2> QED BY <1>1, <2>1, <2>2, SelectWired, AccessKeeps
<1>3. ASSUME NEW r \in Usage.rewrites, GuestSelects(r[1], r[2]) PROVE Inv'
  <2> DEFINE ch == r[1]
             reg == r[2]
  <2>1. scc' = SelectRegister(scc, ch, reg) /\ UNCHANGED <<machine, modem, net, guest>>
    BY <1>3 DEF GuestSelects
  <2>2. ch \in Channels /\ reg \in Registers \cup {0}
    BY UsageType
  <2> HIDE DEF ch, reg
  <2> QED BY <1>1, <2>1, <2>2, SelectWired, AccessKeeps
<1>4. ASSUME NEW r \in Usage.rewrites, r[2] = scc[r[1]].selected, GuestWritesRegister(r[1], r[3]) PROVE Inv'
  <2> DEFINE ch == r[1]
             bits == r[3]
  <2>1. /\ scc' = WriteRegister(scc, ch, bits) /\ UNCHANGED <<machine, modem, net, guest>>
        /\ scc[ch].selected # 0
    BY <1>4 DEF GuestWritesRegister
  <2>2. /\ ch \in Channels /\ ~(ch = "A" /\ scc[ch].selected = 4)
        /\ bits \in SUBSET {"rx", "tx", "ext", "async", "master", "timer", "loopback", "zeroCount"}
    BY <1>4, UsageType
  <2> HIDE DEF ch, bits
  <2>3. Wired(WriteRegister(scc, ch, bits)) /\ Access(scc["A"], WriteRegister(scc, ch, bits)["A"])
    BY <1>1, <2>1, <2>2, WriteRegisterWired
  <2> QED BY <2>1, <2>3, AccessKeeps
<1>5. ASSUME NEW ch \in Channels, NEW command \in Usage.commands, GuestCommands(ch, command) PROVE Inv'
  <2>1. scc' = WriteCommand(scc, ch, command) /\ UNCHANGED <<machine, modem, net, guest>>
    BY <1>5 DEF GuestCommands
  <2> QED BY <1>1, <2>1, WriteCommandWired, AccessKeeps
<1> QED BY <1>2, <1>3, <1>4, <1>5

LEMMA ResetKeeps ==
  ASSUME Inv, Reset
  PROVE  Inv'
<1>1. /\ scc' = Programmed(ResetScc) /\ modem' = ResetPeer(modem) /\ modem.cont = "run"
      /\ guest' = [guest EXCEPT !.took = guest.wrote] /\ UNCHANGED <<machine, net>>
  BY DEF Reset, Running
<1>2. Wired(scc') /\ scc'["A"].txCycles = 0 /\ scc'["A"].rxAvailable = FALSE
  BY <1>1, ProgrammedWired
<1>3. Fit(modem') /\ Serves(modem, modem')
  BY <1>1, ResetPeerFits DEF Inv
<1>4. /\ guest' \in GuestType(Usage) /\ guest'.wrote = guest.wrote /\ guest'.took = guest.wrote
      /\ guest'.last = guest.last /\ guest.wrote \in Nat
  <2>1. guest \in GuestType(Usage) /\ Len(Usage.script) \in Nat
    BY UsageType DEF Inv, TypeOK, GuestType
  <2> QED BY <1>1, <2>1 DEF GuestType
<1>5. TransmitOnce'
  BY <1>2, <1>4 DEF TransmitOnce
<1>6. PeerNumbers(Unread') = {}
  BY <1>2, NumbersOfOne DEF Unread
<1>7. Sorted(guest'.last, Unread', modem.incoming, modem.got, net.wire, net.sent)
  BY <1>6, <1>4, HeldNarrows
<1> QED BY <1>1, <1>2, <1>3, <1>4, <1>5, <1>7, ServesReflexive, EmulationKeeps

LEMMA TickKeeps ==
  ASSUME Inv, NEW cycles \in 1 .. MaxTick, Tick(cycles)
  PROVE  Inv'
<1> DEFINE bytes == Polled(modem)
           q == Poll(modem)
           polled == ReceiveBytes(scc, "A", bytes)
           s == polled["A"]
           sent == Transmitted(s, cycles)
<1>1. /\ scc' = TickChannels(polled, cycles) /\ UNCHANGED <<machine, net>> /\ modem.cont = "run"
      /\ modem' = IF sent = <<>> THEN q ELSE Receive(q, sent[1].tok)
      /\ guest' = [guest EXCEPT !.took = @ + Len(sent)]
  BY DEF Tick, Running
<1>2. Wired(scc) /\ Fit(modem) /\ Ascending(modem.incoming) /\ cycles \in Nat \ {0}
  BY LineAssumption DEF Inv, InOrder, Sorted
<1>3. /\ Fit(q) /\ Serves(modem, q) /\ q.cont = "run"
      /\ bytes \in Seq(ItemType)
      /\ PeerNumbers(bytes) \subseteq PeerNumbers(modem.incoming)
      /\ Precedes(PeerNumbers(bytes), PeerNumbers(q.incoming))
  BY <1>1, <1>2, PollFits
<1> HIDE DEF q, bytes
<1>4. /\ Wired(polled) /\ s.txCycles = scc["A"].txCycles
      /\ bytes = << >> => polled = scc
      /\ bytes # << >> => s.rxAvailable /\ s.data = bytes[Len(bytes)] /\ Len(bytes) \in 1 .. Len(bytes)
  BY <1>2, <1>3, ReceiveBytesWired
<1> HIDE DEF polled
<1>5. /\ Wired(scc') /\ scc'["A"].rxAvailable = s.rxAvailable /\ scc'["A"].data = s.data
      /\ scc'["A"].txCycles > 0 <=> s.txCycles > 0 /\ s.txCycles \notin 1 .. cycles
  BY <1>1, <1>2, <1>4, TickWired
<1>6. /\ s.txCycles \in Nat /\ "async" \in s.wr[4]
      /\ s.txCycles > 0 => s.txData \in ItemType /\ s.txData.tok \in Tokens
  <2>1. s \in Channel
    BY <1>4 DEF Wired, Channel, Channels
  <2> QED BY <1>4, <2>1, SccAssumption DEF Wired, Channel, ChannelType
<1>7. \/ sent = << >> /\ s.txCycles \notin 1 .. cycles
      \/ s.txCycles \in 1 .. cycles /\ sent = << s.txData >>
  BY <1>6 DEF Transmitted
<1>8. Len(sent) = IF s.txCycles \in 1 .. cycles THEN 1 ELSE 0
  <2>1. Len(<< >>) = 0 /\ Len(<< s.txData >>) = 1
    OBVIOUS
  <2> QED BY <1>7, <2>1
<1>9. Fit(modem') /\ Serves(q, modem')
  <2>1. CASE sent = << >>
    BY <1>1, <1>3, <2>1, ServesReflexive
  <2>2. CASE sent # << >>
    <3> DEFINE tok == sent[1].tok
    <3>1. sent[1] = s.txData /\ s.txCycles > 0
      BY <1>2, <1>6, <1>7, <2>2
    <3>2. tok \in Tokens
      BY <1>6, <3>1
    <3>3. modem' = Receive(q, tok)
      BY <1>1, <2>2
    <3> HIDE DEF tok
    <3> QED BY <1>3, <3>2, <3>3, ReceiveFits
  <2> QED BY <2>1, <2>2
<1>10. /\ guest' \in GuestType(Usage) /\ guest'.last = guest.last /\ TransmitOnce'
  <2>1. guest \in GuestType(Usage) /\ Len(Usage.script) \in Nat
    BY UsageType DEF Inv, TypeOK, GuestType
  <2>2. guest.wrote \in 0 .. Len(Usage.script) /\ guest.took \in 0 .. Len(Usage.script)
    BY <2>1 DEF GuestType
  <2>3. guest.wrote = guest.took + (IF s.txCycles > 0 THEN 1 ELSE 0)
    BY <1>4 DEF Inv, TransmitOnce
  <2> DEFINE took == guest.took + Len(sent)
             n == s.txCycles
  <2> HIDE DEF sent, s
  <2>4. n \in 1 .. cycles => n > 0
    BY <1>2, <1>6
  <2>5. took \in 0 .. Len(Usage.script)
    BY <1>8, <2>1, <2>2, <2>3, <2>4
  <2>6. guest.wrote = took + (IF n > 0 /\ n \notin 1 .. cycles THEN 1 ELSE 0)
    BY <1>8, <2>2, <2>3, <2>4
  <2> HIDE DEF took
  <2>7. guest' = [guest EXCEPT !.took = took]
    BY <1>1 DEF took
  <2>8. /\ guest' \in GuestType(Usage) /\ guest'.last = guest.last /\ guest'.wrote = guest.wrote
        /\ guest'.took = took
    BY <2>1, <2>5, <2>7 DEF GuestType
  <2> QED BY <1>5, <2>6, <2>8 DEF TransmitOnce
<1>11. Sorted(guest'.last, Unread', q.incoming, modem.got, net.wire, net.sent)
  <2> DEFINE last == guest.last
             held == Unread
             held2 == Unread'
             in == modem.incoming
             rest == q.incoming
             got == modem.got
             wire == net.wire
             size == net.sent
  <2>1. Sorted(last, held, in, got, wire, size)
    BY DEF Inv, InOrder
  <2>2. Ascending(in) /\ Ascending(got) /\ Ascending(wire)
    BY <2>1 DEF Sorted
  <2>3. PeerNumbers(rest) \subseteq PeerNumbers(in) /\ Ascending(rest)
    BY <1>3, <2>2 DEF Serves
  <2>4. CASE bytes = << >>
    <3>1. held2 = held
      BY <1>4, <1>5, <2>4 DEF Unread, s
    <3> HIDE DEF last, held, held2, in, rest, got, wire, size
    <3>2. Sorted(last, held2, rest, got, wire, size)
      BY <2>1, <2>2, <2>3, <3>1, SortedNarrows
    <3> QED BY <1>10, <3>2 DEF last, held2, rest, got, wire, size
  <2>5. CASE bytes # << >>
    <3> DEFINE byte == bytes[Len(bytes)]
    <3>1. held2 = << byte >>
      BY <1>4, <1>5, <2>5 DEF Unread
    <3>2. byte.from = "peer" => byte.n \in PeerNumbers(bytes)
      BY <1>4, <2>5 DEF PeerNumbers
    <3>3. PeerNumbers(bytes) \subseteq PeerNumbers(in) /\ Precedes(PeerNumbers(bytes), PeerNumbers(rest))
      BY <1>3
    <3> HIDE DEF byte, last, held, held2, in, rest, got, wire, size
    <3>4. Sorted(last, << byte >>, rest, got, wire, size)
      BY <2>1, <2>3, <3>2, <3>3, SortedPoll
    <3> QED BY <1>10, <3>1, <3>4 DEF last, held2, rest, got, wire, size
  <2> QED BY <2>4, <2>5
<1> QED BY <1>1, <1>3, <1>5, <1>9, <1>10, <1>11, EmulationKeeps

\* A step of the network thread or of the far end.
LEMMA NetworkKeeps ==
  ASSUME Inv, UNCHANGED <<machine, scc, guest>>, Fit(modem'), modem'.kind = modem.kind,
         net' \in NetType(Usage), Link',
         Sorted(guest.last, Unread, modem'.incoming, modem'.got, net'.wire, net'.sent)
  PROVE  Inv'
<1>1. Usage' = Usage
  BY DEF Usage
<1>2. TypeOK'
  BY <1>1 DEF Inv, TypeOK, Fit, NetType
<1>3. Wired(scc') /\ TransmitOnce' /\ InOrder'
  BY DEF Inv, TransmitOnce, InOrder, Unread
<1> QED BY <1>2, <1>3 DEF Inv

\* The order of the far end's bytes, once a connection starts from an empty wire.
LEMMA WireDropped ==
  ASSUME Inv
  PROVE  Sorted(guest.last, Unread, modem.incoming, modem.got, << >>, net.sent)
<1> DEFINE last == guest.last
           held == Unread
           in == modem.incoming
           got == modem.got
           wire == net.wire
           none == << >>
           sent == net.sent
<1>1. Sorted(last, held, in, got, wire, sent)
  BY DEF Inv, InOrder
<1>2. Ascending(in) /\ Ascending(got) /\ Ascending(none) /\ PeerNumbers(none) = {}
  BY <1>1, NumbersOfOne DEF Sorted
<1> HIDE DEF last, held, in, got, wire, none, sent
<1>3. Sorted(last, held, in, got, none, sent)
  BY <1>1, <1>2, SortedNarrows
<1> QED BY <1>3 DEF last, held, in, got, none, sent

LEMMA StateTypes ==
  ASSUME Inv
  PROVE  /\ modem \in PeerType /\ Control(modem) /\ Calls(modem)
         /\ modem.incoming \in Seq(ItemType) /\ modem.got \in Seq(ItemType)
         /\ modem.outgoing \in Seq(Tokens) /\ modem.batch \in Seq(Tokens)
         /\ net \in NetType(Usage) /\ net.wire \in Seq(ItemType) /\ net.heard \in Seq(Tokens)
         /\ net.sent \in 0 .. Usage.sent /\ net.up \in BOOLEAN
BY DEF Inv, Fit, TypeOK, PeerType, NetType

LEMMA ConnectedKeeps ==
  ASSUME Inv, modem.pc \in {"open", "accept"}, Connected, UNCHANGED <<machine, scc, guest>>
  PROVE  Inv'
<1> DEFINE m == modem
           p == [m EXCEPT !.pc = "loop", !.connected = TRUE, !.online = m.outgoing]
<1>1. modem' = p /\ net' = [net EXCEPT !.up = TRUE, !.wire = <<>>, !.heard = <<>>]
  BY DEF Connected
<1>2. /\ m \in PeerType /\ Control(m) /\ Calls(m) /\ m.outgoing \in Seq(Tokens)
      /\ net \in NetType(Usage)
  BY StateTypes
<1>3. /\ p \in PeerType /\ p.pc = "loop" /\ p.connected = TRUE /\ p.online = m.outgoing
      /\ p.kind = m.kind /\ p.got = m.got /\ p.batch = m.batch /\ p.call = m.call
      /\ p.incoming = m.incoming /\ p.outgoing = m.outgoing /\ p.plus = m.plus
      /\ p.mode = m.mode /\ p.conn = m.conn /\ p.over = m.over
      /\ p.clean = m.clean /\ p.cont = m.cont
  BY <1>2 DEF PeerType
<1>4. m.conn = FALSE /\ m.plus = 0 /\ m.batch = << >> /\ m.got = << >>
  <2>1. m.conn \in BOOLEAN /\ m.mode \in {"Command", "Online"}
    BY <1>2 DEF PeerType
  <2>2. m.conn = FALSE /\ m.mode = "Command"
    BY <1>2, <2>1 DEF Control
  <2> QED BY <1>2, <2>2 DEF Control
<1> HIDE DEF p
<1>5. Control(p)
  BY <1>2, <1>3, <1>4 DEF Control, Active
<1>6. Calls(p)
  BY <1>2, <1>3, <1>4 DEF Calls, Active, Control
<1>7. << >> \in Seq(ItemType) /\ << >> \in Seq(Tokens) /\ Len(<< >>) = 0
  OBVIOUS
<1>8. /\ net' \in NetType(Usage) /\ net'.up = TRUE /\ net'.wire = << >> /\ net'.heard = << >>
      /\ net'.sent = net.sent
  BY <1>1, <1>2, <1>7 DEF NetType
<1>9. Stream(<< >>, p)
  <2> DEFINE out == m.outgoing
  <2>1. out \in Seq(Tokens) /\ Pluses(0) = << >>
    BY <1>2, PlusesSeq
  <2> HIDE DEF out
  <2>2. << >> \o << >> = << >>
    BY <1>7, ConcatEmptySeq
  <2>3. << >> \o out = out /\ out \o << >> = out
    BY <2>1, ConcatEmptySeq
  <2>4. << >> \o << >> \o out \o Pluses(0) = out
    BY <2>1, <2>2, <2>3
  <2> QED BY <1>3, <1>4, <2>4 DEF Stream, out
<1>10. Link'
  BY <1>1, <1>3, <1>7, <1>8, <1>9 DEF Link, Active
<1>11. Sorted(guest.last, Unread, modem'.incoming, modem'.got, net'.wire, net'.sent)
  BY <1>1, <1>3, <1>8, WireDropped
<1> QED BY <1>1, <1>3, <1>5, <1>6, <1>8, <1>10, <1>11, NetworkKeeps DEF Fit

\* The thread moves to pc, perhaps ending its connection; the far end is not up after it.
LEMMA LeavesKeeps ==
  ASSUME Inv, NEW p, modem' = p, p \in PeerType, UNCHANGED <<machine, scc, guest>>,
         modem.pc \in {"open", "accept", "loop", "write", "read", "test"},
         \/ p.pc = "accept" /\ modem.kind = "listen"
         \/ p.pc = "ended",
         p.connected = FALSE, p.batch = << >>,
         p.kind = modem.kind, p.got = modem.got, p.call = modem.call, p.incoming = modem.incoming,
         p.plus = modem.plus, p.mode = modem.mode, p.conn = modem.conn, p.over = modem.over,
         p.clean = modem.clean, p.cont = modem.cont,
         net' \in NetType(Usage), net'.up = FALSE, net'.sent = net.sent,
         net'.wire = net.wire \/ net'.wire = << >>
  PROVE  Inv'
<1>1. Control(modem) /\ Calls(modem)
  BY StateTypes
<1>2. Control(p)
  BY <1>1 DEF Control, Active
<1>3. Calls(p)
  BY <1>1 DEF Calls, Active
<1>4. Link'
  BY DEF Link, Active
<1>5. Sorted(guest.last, Unread, modem'.incoming, modem'.got, net'.wire, net'.sent)
  BY WireDropped DEF Inv, InOrder
<1> QED BY <1>2, <1>3, <1>4, <1>5, NetworkKeeps DEF Fit

LEMMA ThreadLeavesKeeps ==
  ASSUME Inv, ThreadOpenFails \/ ThreadStops \/ ThreadWriteFails \/ ThreadFindsLost
  PROVE  Inv'
<1> DEFINE m == modem
           Leaves(p) ==
             /\ p \in PeerType /\ p.connected = FALSE /\ p.batch = << >>
             /\ p.kind = m.kind /\ p.got = m.got /\ p.call = m.call /\ p.incoming = m.incoming
             /\ p.plus = m.plus /\ p.mode = m.mode /\ p.conn = m.conn /\ p.over = m.over
             /\ p.clean = m.clean /\ p.cont = m.cont
<1>1. m \in PeerType /\ Control(m) /\ net \in NetType(Usage) /\ << >> \in Seq(Tokens)
      /\ << >> \in Seq(ItemType) /\ net.up \in BOOLEAN
  BY StateTypes
<1>2. m.pc # "write" => m.batch = << >>
  BY <1>1 DEF Control
<1>3. ASSUME NEW why \in {"", "stop", "open", "write", "lost"}, m.pc # "write"
      PROVE  Leaves(End(m, why)) /\ End(m, why).pc = "ended"
  BY ZenonT(60), <1>1, <1>2, <1>3 DEF End, PeerType
<1>4. [net EXCEPT !.up = FALSE] \in NetType(Usage) /\ [net EXCEPT !.up = FALSE].up = FALSE
      /\ [net EXCEPT !.up = FALSE].wire = net.wire /\ [net EXCEPT !.up = FALSE].sent = net.sent
  BY <1>1 DEF NetType
<1>5. CASE ThreadOpenFails
  <2>1. /\ m.pc = "open" /\ modem' = End(m, "open") /\ net' = net /\ UNCHANGED <<machine, scc, guest>>
    BY <1>5 DEF ThreadOpenFails
  <2>2. net.up = FALSE
    BY <1>1, <2>1 DEF Inv, Link, Active
  <2>3. Leaves(End(m, "open")) /\ End(m, "open").pc = "ended"
    BY <1>3, <2>1
  <2> QED BY <1>1, <2>1, <2>2, <2>3, LeavesKeeps
<1>6. CASE ThreadStops
  <2>1. /\ m.pc \in {"accept", "loop"} /\ modem' = End(m, "stop") /\ net' = [net EXCEPT !.up = FALSE]
        /\ UNCHANGED <<machine, scc, guest>>
    BY <1>6 DEF ThreadStops
  <2>2. Leaves(End(m, "stop")) /\ End(m, "stop").pc = "ended"
    BY <1>3, <2>1
  <2> QED BY <1>4, <2>1, <2>2, LeavesKeeps
<1>7. CASE ThreadWriteFails
  <2> DEFINE p == [End(m, "write") EXCEPT !.batch = <<>>]
  <2>1. /\ m.pc = "write" /\ modem' = p /\ net' = [net EXCEPT !.up = FALSE]
        /\ UNCHANGED <<machine, scc, guest>>
    BY <1>7 DEF ThreadWriteFails
  <2>2. Leaves(p) /\ p.pc = "ended"
    BY ZenonT(60), <1>1 DEF End, PeerType
  <2> HIDE DEF p
  <2> QED BY <1>4, <2>1, <2>2, LeavesKeeps
<1>8. CASE ThreadFindsLost
  <2> DEFINE a == [m EXCEPT !.pc = "accept", !.connected = FALSE]
  <2>1. /\ m.pc \in {"read", "test"} /\ modem' = (IF m.kind = "listen" THEN a ELSE End(m, "lost"))
        /\ net' = [net EXCEPT !.wire = <<>>] /\ net.up = FALSE
        /\ UNCHANGED <<machine, scc, guest>>
    BY <1>1, <1>8 DEF ThreadFindsLost
  <2>2. Leaves(a) /\ a.pc = "accept"
    BY <1>1, <1>2, <2>1 DEF PeerType
  <2>3. Leaves(End(m, "lost")) /\ End(m, "lost").pc = "ended"
    BY <1>3, <2>1
  <2>4. net' \in NetType(Usage) /\ net'.up = FALSE /\ net'.wire = << >> /\ net'.sent = net.sent
    BY <1>1, <2>1 DEF NetType
  <2> HIDE DEF a
  <2>5. Leaves(modem') /\ ((modem'.pc = "accept" /\ m.kind = "listen") \/ modem'.pc = "ended")
    BY <2>1, <2>2, <2>3
  <2> QED BY <2>1, <2>4, <2>5, LeavesKeeps
<1> QED BY <1>5, <1>6, <1>7, <1>8

LEMMA ThreadOpensKeeps ==
  ASSUME Inv, ThreadOpens \/ ThreadAccepts
  PROVE  Inv'
<1> DEFINE m == modem
           p == [m EXCEPT !.pc = "accept"]
<1>1. CASE modem.pc \in {"open", "accept"} /\ Connected /\ UNCHANGED <<machine, scc, guest>>
  BY <1>1, ConnectedKeeps
<1>2. CASE m.pc = "open" /\ m.kind = "listen" /\ modem' = p /\ UNCHANGED <<machine, scc, net, guest>>
  <2>1. m \in PeerType /\ Control(m) /\ Calls(m) /\ net \in NetType(Usage)
    BY StateTypes
  <2>2. /\ p \in PeerType /\ p.pc = "accept" /\ p.connected = m.connected
        /\ p.kind = m.kind /\ p.got = m.got /\ p.batch = m.batch /\ p.call = m.call
        /\ p.incoming = m.incoming /\ p.plus = m.plus
        /\ p.mode = m.mode /\ p.conn = m.conn /\ p.over = m.over
        /\ p.clean = m.clean /\ p.cont = m.cont
    BY <2>1 DEF PeerType
  <2> HIDE DEF p
  <2>3. Control(p)
    BY <1>2, <2>1, <2>2 DEF Control, Active
  <2>4. Calls(p)
    BY <1>2, <2>1, <2>2 DEF Calls, Active
  <2>5. Link'
    BY <1>2, <2>2 DEF Inv, Link, Active
  <2>6. Sorted(guest.last, Unread, modem'.incoming, modem'.got, net'.wire, net'.sent)
    BY <1>2, <2>2 DEF Inv, InOrder
  <2> QED BY <1>2, <2>1, <2>2, <2>3, <2>4, <2>5, <2>6, NetworkKeeps DEF Fit
<1> QED BY <1>1, <1>2 DEF ThreadOpens, ThreadAccepts

\* Inside the loop the streams pass from hand to hand.
LEMMA ThreadTakesKeeps ==
  ASSUME Inv, ThreadTakes
  PROVE  Inv'
<1> DEFINE m == modem
           p == [m EXCEPT !.pc = "write", !.batch = m.outgoing, !.outgoing = <<>>]
<1>1. m.pc = "loop" /\ modem' = p /\ UNCHANGED <<machine, scc, net, guest>>
  BY DEF ThreadTakes
<1>2. /\ m \in PeerType /\ Control(m) /\ Calls(m) /\ net \in NetType(Usage)
      /\ net.heard \in Seq(Tokens) /\ m.outgoing \in Seq(Tokens) /\ << >> \in Seq(Tokens)
  BY StateTypes
<1>3. /\ p \in PeerType /\ p.pc = "write" /\ p.batch = m.outgoing /\ p.outgoing = << >>
      /\ p.kind = m.kind /\ p.got = m.got /\ p.connected = m.connected /\ p.call = m.call
      /\ p.incoming = m.incoming /\ p.plus = m.plus /\ p.online = m.online
      /\ p.mode = m.mode /\ p.conn = m.conn /\ p.over = m.over
      /\ p.clean = m.clean /\ p.cont = m.cont
  BY <1>2 DEF PeerType
<1> HIDE DEF p
<1>4. Control(p)
  BY <1>1, <1>2, <1>3 DEF Control, Active
<1>5. Calls(p)
  BY <1>1, <1>2, <1>3 DEF Calls, Active
<1>6. Stream(net.heard, m) => Stream(net.heard, p)
  <2> DEFINE heard == net.heard
             out == m.outgoing
             both == heard \o out
  <2>1. heard \in Seq(Tokens) /\ out \in Seq(Tokens) /\ m.batch = << >>
    BY <1>1, <1>2 DEF Control
  <2>2. both \in Seq(Tokens)
    BY <2>1, ConcatProperties
  <2> HIDE DEF heard, out, both
  <2>3. heard \o << >> = heard /\ both \o << >> = both
    BY <2>1, <2>2, ConcatEmptySeq
  <2> QED BY <1>3, <2>1, <2>3 DEF Stream, heard, out, both
<1>7. Link'
  <2>1. net.up => Stream(net.heard, m)
    BY DEF Inv, Link
  <2> QED BY <1>1, <1>3, <1>6, <2>1 DEF Inv, Link, Active
<1>8. Sorted(guest.last, Unread, modem'.incoming, modem'.got, net'.wire, net'.sent)
  BY <1>1, <1>3 DEF Inv, InOrder
<1> QED BY <1>1, <1>2, <1>3, <1>4, <1>5, <1>7, <1>8, NetworkKeeps DEF Fit

LEMMA ThreadWritesKeeps ==
  ASSUME Inv, ThreadWrites
  PROVE  Inv'
<1> DEFINE m == modem
           p == [m EXCEPT !.pc = "read", !.batch = <<>>]
           longer == net.heard \o m.batch
<1>1. /\ m.pc = "write" /\ modem' = p /\ UNCHANGED <<machine, scc, guest>>
      /\ net' = IF net.up THEN [net EXCEPT !.heard = longer] ELSE net
  BY DEF ThreadWrites
<1>2. /\ m \in PeerType /\ Control(m) /\ Calls(m) /\ net \in NetType(Usage)
      /\ net.heard \in Seq(Tokens) /\ m.batch \in Seq(Tokens) /\ << >> \in Seq(Tokens)
      /\ net.up \in BOOLEAN
  BY StateTypes
<1>3. longer \in Seq(Tokens)
  BY <1>2, ConcatProperties
<1>4. /\ p \in PeerType /\ p.pc = "read" /\ p.batch = << >> /\ p.outgoing = m.outgoing
      /\ p.kind = m.kind /\ p.got = m.got /\ p.connected = m.connected /\ p.call = m.call
      /\ p.incoming = m.incoming /\ p.plus = m.plus /\ p.online = m.online
      /\ p.mode = m.mode /\ p.conn = m.conn /\ p.over = m.over
      /\ p.clean = m.clean /\ p.cont = m.cont
  BY <1>2 DEF PeerType
<1>5. longer \o << >> = longer
  <2> HIDE DEF longer
  <2> QED BY <1>3, ConcatEmptySeq
<1>6. Stream(net.heard, m) => Stream(longer, p)
  <2> HIDE DEF p
  <2> QED BY <1>4, <1>5 DEF Stream
<1> HIDE DEF longer
<1>7. /\ net' \in NetType(Usage) /\ net'.up = net.up /\ net'.wire = net.wire /\ net'.sent = net.sent
      /\ net.up => net'.heard = longer
  BY <1>1, <1>2, <1>3 DEF NetType
<1> HIDE DEF p
<1>8. Control(p)
  BY <1>1, <1>2, <1>4 DEF Control, Active
<1>9. Calls(p)
  BY <1>1, <1>2, <1>4 DEF Calls, Active
<1>10. Link'
  <2>1. net.up => Stream(net.heard, m)
    BY DEF Inv, Link
  <2> QED BY <1>1, <1>4, <1>6, <1>7, <2>1 DEF Inv, Link, Active
<1>11. Sorted(guest.last, Unread, modem'.incoming, modem'.got, net'.wire, net'.sent)
  BY <1>1, <1>4, <1>7 DEF Inv, InOrder
<1> QED BY <1>1, <1>4, <1>7, <1>8, <1>9, <1>10, <1>11, NetworkKeeps DEF Fit

LEMMA ThreadReadsNothingKeeps ==
  ASSUME Inv, ThreadReadsNothing \/ ThreadGoesOn
  PROVE  Inv'
<1> DEFINE m == modem
           p == [m EXCEPT !.pc = "loop"]
<1>1. m.pc \in {"read", "test"} /\ modem' = p /\ UNCHANGED <<machine, scc, net, guest>>
  BY DEF ThreadReadsNothing, ThreadGoesOn
<1>2. m \in PeerType /\ Control(m) /\ Calls(m) /\ net \in NetType(Usage)
  BY StateTypes
<1>3. /\ p \in PeerType /\ p.pc = "loop" /\ p.batch = m.batch /\ p.outgoing = m.outgoing
      /\ p.kind = m.kind /\ p.got = m.got /\ p.connected = m.connected /\ p.call = m.call
      /\ p.incoming = m.incoming /\ p.plus = m.plus /\ p.online = m.online
      /\ p.mode = m.mode /\ p.conn = m.conn /\ p.over = m.over
      /\ p.clean = m.clean /\ p.cont = m.cont
  BY <1>2 DEF PeerType
<1> HIDE DEF p
<1>4. Control(p)
  BY <1>1, <1>2, <1>3 DEF Control, Active
<1>5. Calls(p)
  BY <1>1, <1>2, <1>3 DEF Calls, Active
<1>6. Stream(net.heard, m) => Stream(net.heard, p)
  BY <1>3 DEF Stream
<1>7. Link'
  <2>1. net.up => Stream(net.heard, m)
    BY DEF Inv, Link
  <2> QED BY <1>1, <1>3, <1>6, <2>1 DEF Inv, Link, Active
<1>8. Sorted(guest.last, Unread, modem'.incoming, modem'.got, net'.wire, net'.sent)
  BY <1>1, <1>3 DEF Inv, InOrder
<1> QED BY <1>1, <1>2, <1>3, <1>4, <1>5, <1>7, <1>8, NetworkKeeps DEF Fit

LEMMA ThreadReadsKeeps ==
  ASSUME Inv, NEW k \in 1 .. Usage.sent, ThreadReads(k)
  PROVE  Inv'
<1> DEFINE m == modem
           wire == net.wire
           front == SubSeq(wire, 1, k)
           rest == SubSeq(wire, k + 1, Len(wire))
           p == [m EXCEPT !.pc = "enqueue", !.got = front]
<1>1. /\ m.pc = "read" /\ k <= Len(wire) /\ modem' = p /\ net' = [net EXCEPT !.wire = rest]
      /\ UNCHANGED <<machine, scc, guest>>
  BY DEF ThreadReads
<1>2. /\ m \in PeerType /\ Control(m) /\ Calls(m) /\ net \in NetType(Usage)
      /\ wire \in Seq(ItemType) /\ k \in Nat
  BY StateTypes, UsageType
<1>3. m.got = << >> /\ InOrder
  BY <1>1, <1>2 DEF Control, Inv
<1> DEFINE last == guest.last
           held == Unread
           in == m.incoming
           sent == net.sent
<1>4. Sorted(last, held, in, << >>, wire, sent) /\ Ascending(wire)
  BY <1>3 DEF InOrder, Sorted
<1> DEFINE whole == net.wire
<1>5. /\ front \in Seq(ItemType) /\ Len(front) = k /\ (\A i \in 1 .. k : front[i] = wire[i])
      /\ rest \in Seq(ItemType) /\ Len(rest) = Len(wire) - k
      /\ \A i \in 1 .. Len(wire) - k : rest[i] = wire[k + i]
  <2> HIDE DEF wire
  <2> QED BY <1>1, <1>2, Cut
<1>6. /\ Ascending(front) /\ Ascending(rest)
      /\ Precedes(PeerNumbers(front), PeerNumbers(rest))
      /\ PeerNumbers(front) \subseteq PeerNumbers(wire) /\ PeerNumbers(rest) \subseteq PeerNumbers(wire)
  <2> HIDE DEF wire
  <2> QED BY <1>1, <1>2, <1>4, NumbersOfCut
<1>7. Sorted(last, held, in, front, rest, sent)
  <2> HIDE DEF last, held, in, sent, wire, front, rest
  <2> QED BY <1>4, <1>6, SortedReads
<1> HIDE DEF front, rest
<1>8. /\ p \in PeerType /\ p.pc = "enqueue" /\ p.batch = m.batch /\ p.outgoing = m.outgoing
      /\ p.kind = m.kind /\ p.got = front /\ p.connected = m.connected /\ p.call = m.call
      /\ p.incoming = m.incoming /\ p.plus = m.plus /\ p.online = m.online
      /\ p.mode = m.mode /\ p.conn = m.conn /\ p.over = m.over
      /\ p.clean = m.clean /\ p.cont = m.cont
  BY <1>2, <1>5 DEF PeerType
<1>9. /\ net' \in NetType(Usage) /\ net'.up = net.up /\ net'.wire = rest /\ net'.sent = net.sent
      /\ net'.heard = net.heard
  BY <1>1, <1>2, <1>5 DEF NetType
<1> HIDE DEF p
<1>10. Control(p)
  BY <1>1, <1>2, <1>8 DEF Control, Active
<1>11. m.kind = "hayes" => /\ \A i \in 1 .. Len(front) : front[i].call = m.call
                           /\ \A i \in 1 .. Len(rest) : rest[i].call = m.call
  <2>1. m.kind = "hayes" => \A i \in 1 .. Len(wire) : wire[i].call = m.call
    BY <1>1 DEF Inv, Link, Active
  <2>2. Len(wire) \in Nat
    BY <1>2, LenProperties
  <2> HIDE DEF wire
  <2>3. (\A i \in 1 .. k : i \in 1 .. Len(wire)) /\ \A i \in 1 .. Len(wire) - k : k + i \in 1 .. Len(wire)
    BY <1>1, <1>2, <2>2
  <2> QED BY SMTT(30), <1>5, <2>1, <2>3
<1>12. Calls(p)
  BY <1>1, <1>2, <1>8, <1>11 DEF Calls, Active
<1>13. Stream(net.heard, m) => Stream(net.heard, p)
  BY <1>8 DEF Stream
<1>14. Link'
  <2>1. net.up => Stream(net.heard, m)
    BY DEF Inv, Link
  <2> QED BY <1>1, <1>8, <1>9, <1>11, <1>13, <2>1 DEF Link, Active
<1>15. Sorted(guest.last, Unread, modem'.incoming, modem'.got, net'.wire, net'.sent)
  BY <1>1, <1>7, <1>8, <1>9
<1> QED BY <1>1, <1>8, <1>9, <1>10, <1>12, <1>14, <1>15, NetworkKeeps DEF Fit

LEMMA ThreadEnqueuesKeeps ==
  ASSUME Inv, ThreadEnqueues
  PROVE  Inv'
<1> DEFINE m == modem
           in == m.incoming
           got == m.got
           queue == in \o got
           p == [m EXCEPT !.pc = "test", !.incoming = queue, !.got = <<>>]
<1>1. m.pc = "enqueue" /\ modem' = p /\ UNCHANGED <<machine, scc, net, guest>>
  BY DEF ThreadEnqueues
<1>2. /\ m \in PeerType /\ Control(m) /\ Calls(m) /\ net \in NetType(Usage)
      /\ in \in Seq(ItemType) /\ got \in Seq(ItemType) /\ << >> \in Seq(ItemType) /\ Len(<< >>) = 0
  BY StateTypes
<1>3. /\ queue \in Seq(ItemType) /\ Len(queue) = Len(in) + Len(got) /\ Len(in) \in Nat /\ Len(got) \in Nat
      /\ \A i \in 1 .. Len(in) + Len(got) : queue[i] = IF i <= Len(in) THEN in[i] ELSE got[i - Len(in)]
  <2> HIDE DEF in, got
  <2> QED BY <1>2, ConcatProperties
<1>4. Sorted(guest.last, Unread, queue, << >>, net.wire, net.sent)
  <2> DEFINE last == guest.last
             held == Unread
             wire == net.wire
             sent == net.sent
  <2>1. Sorted(last, held, in, got, wire, sent)
    BY DEF Inv, InOrder
  <2> HIDE DEF last, held, wire, sent, in, got
  <2>2. Sorted(last, held, in \o got, << >>, wire, sent)
    BY <1>2, <2>1, SortedEnqueues
  <2> QED BY <2>2 DEF last, held, wire, sent
<1>5. ASSUME m.kind = "hayes", NEW i \in 1 .. Len(queue), queue[i].from = "peer"
      PROVE  queue[i].call > m.clean
  <2>1. CASE i <= Len(in)
    <3>1. i \in 1 .. Len(in) /\ queue[i] = in[i]
      <4> HIDE DEF in, got, queue
      <4> QED BY <1>3, <2>1
    <3> QED BY <1>2, <1>5, <3>1 DEF Calls
  <2>2. CASE ~(i <= Len(in))
    <3>1. i - Len(in) \in 1 .. Len(got) /\ queue[i] = got[i - Len(in)]
      <4> HIDE DEF in, got, queue
      <4> QED BY <1>3, <2>2
    <3>2. queue[i].call = m.call
      BY <1>2, <1>5, <3>1 DEF Calls
    <3>3. m.clean < m.call /\ m.clean \in Nat /\ m.call \in Nat
      BY <1>1, <1>2, <1>5 DEF Calls, Active, PeerType
    <3> HIDE DEF queue
    <3> QED BY <3>2, <3>3
  <2> QED BY <2>1, <2>2
<1> HIDE DEF queue
<1>6. /\ p \in PeerType /\ p.pc = "test" /\ p.batch = m.batch /\ p.outgoing = m.outgoing
      /\ p.kind = m.kind /\ p.got = << >> /\ p.connected = m.connected /\ p.call = m.call
      /\ p.incoming = queue /\ p.plus = m.plus /\ p.online = m.online
      /\ p.mode = m.mode /\ p.conn = m.conn /\ p.over = m.over
      /\ p.clean = m.clean /\ p.cont = m.cont
  BY <1>2, <1>3 DEF PeerType
<1> HIDE DEF p
<1>7. Control(p)
  BY <1>1, <1>2, <1>6 DEF Control, Active
<1>8. Calls(p)
  BY <1>1, <1>2, <1>5, <1>6 DEF Calls, Active
<1>9. Stream(net.heard, m) => Stream(net.heard, p)
  BY <1>6 DEF Stream
<1>10. Link'
  <2>1. net.up => Stream(net.heard, m)
    BY DEF Inv, Link
  <2> QED BY <1>1, <1>6, <1>9, <2>1 DEF Inv, Link, Active
<1>11. Sorted(guest.last, Unread, modem'.incoming, modem'.got, net'.wire, net'.sent)
  BY <1>1, <1>4, <1>6
<1> QED BY <1>1, <1>2, <1>6, <1>7, <1>8, <1>10, <1>11, NetworkKeeps DEF Fit

LEMMA HostKeeps ==
  ASSUME Inv, HostSends \/ HostHangsUp
  PROVE  Inv'
<1>1. /\ Fit(modem) /\ net \in NetType(Usage) /\ net.wire \in Seq(ItemType) /\ Usage.sent \in Nat
      /\ net.sent \in 0 .. Usage.sent /\ modem.call \in Nat
  BY StateTypes, UsageType DEF Inv, Fit, PeerType
<1>2. CASE HostSends
  <2> DEFINE next == net.sent + 1
             item == Peer(next)
             wire == net.wire
             longer == Append(wire, item)
  <2>1. /\ net.up /\ net.sent < Usage.sent /\ net' = [net EXCEPT !.wire = longer, !.sent = next]
        /\ UNCHANGED <<machine, scc, modem, guest>>
    BY <1>2 DEF HostSends
  <2>2. next \in 0 .. Usage.sent /\ net.sent \in Nat
    BY <1>1, <2>1
  <2>3. /\ item \in ItemType /\ item.from = "peer" /\ item.n = next /\ item.call = modem.call
    <3>1. next \in Nat
      BY <2>2
    <3>2. item = [from |-> "peer", tok |-> "", n |-> next, call |-> modem.call]
      BY DEF Peer, Item
    <3> HIDE DEF next, item
    <3> QED BY <1>1, <3>1, <3>2 DEF ItemType
  <2>4. longer \in Seq(ItemType) /\ Len(longer) = Len(wire) + 1 /\ Len(wire) \in Nat
        /\ (\A i \in 1 .. Len(longer) : i <= Len(wire) => longer[i] = wire[i])
        /\ \A i \in 1 .. Len(longer) : ~(i <= Len(wire)) => longer[i] = item
    <3> HIDE DEF item, wire
    <3>1. wire \in Seq(ItemType) /\ item \in ItemType
      BY <1>1, <2>3 DEF wire
    <3>2. /\ longer \in Seq(ItemType) /\ Len(longer) = Len(wire) + 1 /\ Len(wire) \in Nat
          /\ (\A i \in 1 .. Len(wire) : longer[i] = wire[i]) /\ longer[Len(wire) + 1] = item
      BY <3>1, AppendProperties, LenProperties
    <3> HIDE DEF longer
    <3>3. \A i \in 1 .. Len(longer) : IF i <= Len(wire) THEN i \in 1 .. Len(wire) ELSE i = Len(wire) + 1
      BY <3>2
    <3> QED BY <3>2, <3>3
  <2>5. Sorted(guest.last, Unread, modem.incoming, modem.got, longer, next)
    <3> DEFINE last == guest.last
               held == Unread
               in == modem.incoming
               got == modem.got
               sent == net.sent
    <3>1. Sorted(last, held, in, got, wire, sent) /\ last \in Nat
      BY UsageType DEF Inv, InOrder, TypeOK
    <3>2. held \in Seq(ItemType)
      <4>1. scc["A"].rxAvailable => scc["A"].data \in ItemType
        BY DEF Inv, Wired
      <4> QED BY <4>1 DEF Unread
    <3>3. in \in Seq(ItemType) /\ got \in Seq(ItemType) /\ wire \in Seq(ItemType) /\ sent \in Nat
      BY <2>2, StateTypes
    <3>4. item \in ItemType /\ item.from = "peer" /\ item.n = sent + 1
      BY <2>3
    <3> HIDE DEF last, held, in, got, sent, wire, item
    <3>5. Sorted(last, held, in, got, Append(wire, item), sent + 1)
      BY <3>1, <3>2, <3>3, <3>4, SortedSends
    <3> QED BY <3>5 DEF last, held, in, got, sent
  <2>6. modem.kind = "hayes" /\ modem.pc \in Active => \A i \in 1 .. Len(longer) : longer[i].call = modem.call
    <3>1. ASSUME modem.kind = "hayes", modem.pc \in Active, NEW i \in 1 .. Len(longer)
          PROVE  longer[i].call = modem.call
      <4>1. CASE i <= Len(wire)
        <5>1. i \in 1 .. Len(wire)
          <6> HIDE DEF wire, longer
          <6> QED BY <2>4, <3>1, <4>1
        <5> HIDE DEF longer
        <5> QED BY <2>4, <3>1, <4>1, <5>1 DEF Inv, Link
      <4>2. CASE ~(i <= Len(wire))
        <5> HIDE DEF longer, wire, item
        <5> QED BY <2>3, <2>4, <4>2
      <4> QED BY <4>1, <4>2
    <3> QED BY <3>1
  <2> HIDE DEF longer, next
  <2>7. /\ net' \in NetType(Usage) /\ net'.up = net.up /\ net'.wire = longer /\ net'.sent = next
        /\ net'.heard = net.heard
    BY <1>1, <2>1, <2>2, <2>4 DEF NetType
  <2>8. Link'
    BY <2>1, <2>6, <2>7 DEF Inv, Link, Stream
  <2> QED BY <1>1, <2>1, <2>5, <2>7, <2>8, NetworkKeeps
<1>3. CASE HostHangsUp
  <2>1. net' = [net EXCEPT !.up = FALSE] /\ UNCHANGED <<machine, scc, modem, guest>>
    BY <1>3 DEF HostHangsUp
  <2>2. net' \in NetType(Usage) /\ net'.up = FALSE /\ net'.wire = net.wire /\ net'.sent = net.sent
    BY <1>1, <2>1 DEF NetType
  <2>3. Link'
    BY <2>1, <2>2 DEF Inv, Link
  <2>4. Sorted(guest.last, Unread, modem'.incoming, modem'.got, net'.wire, net'.sent)
    BY <2>1, <2>2 DEF Inv, InOrder
  <2> QED BY <1>1, <2>1, <2>2, <2>3, <2>4, NetworkKeeps
<1> QED BY <1>2, <1>3

LEMMA InitInv == Init => Inv
<1> SUFFICES ASSUME Init PROVE Inv
  OBVIOUS
<1>1. PICK k \in PeerKinds : modem = NewPeer(k)
  BY DEF Init
<1>2. /\ k \in Kinds /\ << >> \in Seq(ItemType) /\ << >> \in Seq(Tokens) /\ Len(<< >>) = 0
      /\ 0 \in 0 .. (EscapeLength - 1)
  BY LineAssumption, PeerAssumption
<1> DEFINE pc == IF k \in {"listen", "dial"} THEN "open" ELSE "none"
<1>3. /\ modem \in PeerType /\ modem.kind = k /\ modem.pc = pc
      /\ modem.got = << >> /\ modem.batch = << >> /\ modem.incoming = << >>
      /\ modem.connected = FALSE /\ modem.conn = FALSE /\ modem.cont = "run" /\ modem.mode = "Command"
      /\ modem.plus = 0 /\ modem.call = 0 /\ modem.over = 0 /\ modem.clean = 0
  BY <1>1, <1>2 DEF NewPeer, PeerType
<1>4. Control(modem)
  BY <1>2, <1>3 DEF Control, Active, Kinds
<1>5. Calls(modem)
  BY <1>2, <1>3 DEF Calls, Active
<1>6. Wired(scc) /\ scc["A"].txCycles = 0 /\ scc["A"].rxAvailable = FALSE
  BY ProgrammedWired DEF Init
<1>7. /\ net = [up |-> FALSE, wire |-> <<>>, heard |-> <<>>, sent |-> 0]
      /\ guest = [wrote |-> 0, took |-> 0, last |-> 0]
  BY DEF Init
<1>8. Use[k].sent \in Nat /\ Len(Use[k].script) \in Nat
  BY LineAssumption, LenProperties
<1>9. TypeOK
  <2>1. scc \in [Channels -> ChannelType(ItemType)]
    BY <1>6 DEF Wired
  <2>2. 0 \in 0 .. Usage.sent /\ 0 \in 0 .. Len(Usage.script)
    BY <1>3, <1>8 DEF Usage
  <2> QED BY <1>2, <1>3, <1>7, <2>1, <2>2 DEF Init, TypeOK
<1>10. TransmitOnce
  BY <1>6, <1>7 DEF TransmitOnce
<1>11. Link
  BY <1>3, <1>7 DEF Link, Active
<1>12. InOrder
  <2> DEFINE none == << >>
  <2>1. PeerNumbers(none) = {} /\ Ascending(none)
    BY NumbersOfOne
  <2>2. Unread = none /\ modem.incoming = none /\ modem.got = none /\ net.wire = none
        /\ guest.last = 0 /\ net.sent = 0
    BY <1>3, <1>6, <1>7 DEF Unread
  <2> HIDE DEF none
  <2> QED BY <2>1, <2>2 DEF InOrder, Sorted, Precedes
<1> QED BY <1>3, <1>4, <1>5, <1>6, <1>9, <1>10, <1>11, <1>12 DEF Inv, Fit

LEMMA NextInv == Inv /\ [Next]_vars => Inv'
<1> SUFFICES ASSUME Inv, [Next]_vars PROVE Inv'
  OBVIOUS
<1>1. CASE UNCHANGED vars
  BY <1>1 DEF Inv, vars, TypeOK, Usage, TransmitOnce, Link, InOrder, Unread
<1>2. ASSUME NEW tok \in Tokens, GuestWritesData(tok) PROVE Inv'
  BY <1>2, GuestWritesDataKeeps
<1>3. ASSUME NEW ch \in Channels, GuestReadsData(ch) PROVE Inv'
  BY <1>3, GuestReadsDataKeeps
<1>4. CASE \/ \E ch \in Channels : GuestReadsControl(ch)
           \/ \E r \in Usage.rewrites : GuestSelects(r[1], r[2])
           \/ \E r \in Usage.rewrites : r[2] = scc[r[1]].selected /\ GuestWritesRegister(r[1], r[3])
           \/ \E ch \in Channels, command \in Usage.commands : GuestCommands(ch, command)
  BY <1>4, GuestControlKeeps
<1>5. ASSUME NEW cycles \in 1 .. MaxTick, Tick(cycles) PROVE Inv'
  BY <1>5, TickKeeps
<1>6. CASE Reset
  BY <1>6, ResetKeeps
<1>7. CASE DialAnswered \/ DialGivesUp \/ DialCloses
  <2>1. Fit(modem') /\ Serves(modem, modem')
    BY <1>7, DialFits DEF Inv
  <2> QED BY <1>7, <2>1, EndpointKeeps DEF DialAnswered, DialGivesUp, DialCloses
<1>8. CASE Joined
  <2>1. Fit(modem') /\ Serves(modem, modem')
    BY <1>8, JoinedFits DEF Inv
  <2> QED BY <1>8, <2>1, EndpointKeeps DEF Joined
<1>9. CASE Shutdown
  <2>1. Fit(modem') /\ Serves(modem, modem')
    BY <1>9, DestroyFits DEF Inv, Shutdown, Running
  <2> QED BY <1>9, <2>1, EndpointKeeps DEF Shutdown
<1>10. CASE ThreadOpens \/ ThreadAccepts
  BY <1>10, ThreadOpensKeeps
<1>11. CASE ThreadOpenFails \/ ThreadStops \/ ThreadWriteFails \/ ThreadFindsLost
  BY <1>11, ThreadLeavesKeeps
<1>12. CASE ThreadTakes
  BY <1>12, ThreadTakesKeeps
<1>13. CASE ThreadWrites
  BY <1>13, ThreadWritesKeeps
<1>14. CASE ThreadReadsNothing \/ ThreadGoesOn
  BY <1>14, ThreadReadsNothingKeeps
<1>15. ASSUME NEW k \in 1 .. Usage.sent, ThreadReads(k) PROVE Inv'
  BY <1>15, ThreadReadsKeeps
<1>16. CASE ThreadEnqueues
  BY <1>16, ThreadEnqueuesKeeps
<1>17. CASE HostSends \/ HostHangsUp
  BY <1>17, HostKeeps
<1>18. CASE Emulation
  BY <1>2, <1>3, <1>4, <1>5, <1>6, <1>7, <1>8, <1>9, <1>18 DEF Emulation
<1>19. CASE Thread
  BY <1>10, <1>11, <1>12, <1>13, <1>14, <1>15, <1>16, <1>19 DEF Thread
<1> QED BY <1>1, <1>17, <1>18, <1>19 DEF Next

-----------------------------------------------------------------------------
(* The theorems.                                                            *)

\* Inv holds in every reachable state of every serial line.
THEOREM Invariance == Spec => []Inv
<1>1. Init => Inv
  BY InitInv
<1>2. Inv /\ [Next]_vars => Inv'
  BY NextInv
<1> QED BY <1>1, <1>2, PTL DEF Spec

\* Type correctness: the queues hold bytes, the held pluses stay below the escape length, the
\* counters of the chip within their start values, and what was sent within the script.
THEOREM TypeCorrect == Spec => []TypeOK
<1>1. Inv => TypeOK
  BY DEF Inv
<1> QED BY <1>1, Invariance, PTL

\* Bytes of the far end reach the guest in order and at most once: through the socket, the
\* thread's buffer, m_incoming and the one-byte receiver, whatever is lost on the way.
THEOREM PeerBytesInOrderHolds == Spec => []PeerBytesInOrder
<1>1. Inv => PeerBytesInOrder
  BY DEF Inv, InOrder, Sorted, PeerBytesInOrder
<1> QED BY <1>1, Invariance, PTL

\* What the guest sends is sent once and kept: the far end has heard, or will hear, exactly
\* what left the transmitter on this connection.
THEOREM StreamKeptHolds == Spec => []StreamKept
<1>1. Inv => StreamKept
  BY DEF Inv, Link, Stream, StreamKept
<1> QED BY <1>1, Invariance, PTL

\* After HayesModem has reported the end of a call its thread holds nothing of that call, and
\* m_incoming nothing of a call before a reset.
THEOREM CallEndsCleanlyHolds == Spec => []CallEndsCleanly
<1>1. ASSUME Inv PROVE CallEndsCleanly
  <2>1. /\ Control(modem) /\ Calls(modem) /\ modem.got \in Seq(ItemType)
        /\ modem.incoming \in Seq(ItemType) /\ modem.over \in Nat /\ modem.call \in Nat
    BY <1>1, StateTypes DEF PeerType
  <2>2. DOMAIN modem.got = 1 .. Len(modem.got) /\ DOMAIN modem.incoming = 1 .. Len(modem.incoming)
    BY <2>1, LenProperties
  <2>3. ASSUME modem.kind = "hayes", NEW i \in 1 .. Len(modem.got) PROVE modem.got[i].call > modem.over
    <3>1. modem.got # << >>
      BY <2>3
    <3>2. modem.over < modem.call /\ modem.got[i].call = modem.call
      BY <2>1, <2>3, <3>1 DEF Control, Calls, Active
    <3> QED BY <2>1, <3>2
  <2> QED BY <2>1, <2>2, <2>3 DEF CallEndsCleanly, Calls
<1> QED BY <1>1, Invariance, PTL

-----------------------------------------------------------------------------
(* Interrupts.                                                              *)

Sources == {"rx", "tx", "ext"}

LEMMA DismissDisables ==
  ASSUME NEW s \in Channel, NEW source \in Sources, NEW other \in Sources
  PROVE  Enabled(Dismiss(s, source), other) <=> (Enabled(s, other) /\ other # source)
<1>1. CASE source = "rx"
  BY <1>1 DEF Channel, ChannelType, Dismiss, Enabled, Sources
<1>2. CASE source = "tx"
  BY <1>2 DEF Channel, ChannelType, Dismiss, Enabled, Sources
<1>3. CASE source = "ext"
  BY <1>3 DEF Channel, ChannelType, Dismiss, Enabled, Sources
<1> QED BY <1>1, <1>2, <1>3 DEF Sources

LEMMA PendingSource ==
  ASSUME NEW chip, NEW ch \in Channels, NEW source \in Sources
  PROVE  << ch, source >> \in Pending(chip) <=> Enabled(chip[ch], source)
BY DEF Pending, Sources

\* modifiedInterruptVector names the first pending source of its order.
LEMMA FirstIsNamed ==
  ASSUME NEW chip, NEW i \in 1 .. 6, VectorOrder[i] \in Pending(chip),
         \A j \in 1 .. (i - 1) : VectorOrder[j] \notin Pending(chip)
  PROVE  InterruptVector(chip) = VectorOrder[i]
<1> DEFINE order == VectorOrder
           P == Pending(chip)
           first(k) == order[k] \in P /\ \A j \in 1 .. (k - 1) : order[j] \notin P
<1>1. DOMAIN order = 1 .. 6
  BY DEF VectorOrder
<1>2. P # {} /\ first(i)
  OBVIOUS
<1>3. InterruptVector(chip) = order[CHOOSE k \in 1 .. 6 : first(k)]
  BY <1>1, <1>2 DEF InterruptVector
<1> HIDE DEF order, P
<1>4. \A k \in 1 .. 6 : first(k) => k = i
  <2> TAKE k \in 1 .. 6
  <2> HAVE first(k)
  <2>1. CASE k < i
    <3>1. k \in 1 .. (i - 1)
      BY <2>1
    <3> QED BY <1>2, <3>1
  <2>2. CASE i < k
    <3>1. i \in 1 .. (k - 1)
      BY <2>2
    <3> QED BY <1>2, <3>1
  <2> QED BY <2>1, <2>2
<1> HIDE DEF first
<1>5. (CHOOSE k \in 1 .. 6 : first(k)) = i
  BY <1>2, <1>4
<1> QED BY <1>3, <1>5 DEF order

\* Dismissing one pending source takes it out of RR3 and leaves the others.
LEMMA DismissTakesOne ==
  ASSUME NEW chip \in [Channels -> Channel], NEW ch \in Channels, NEW source \in Sources
  PROVE  Pending([chip EXCEPT ![ch] = Dismiss(@, source)]) = Pending(chip) \ {<< ch, source >>}
<1> DEFINE after == [chip EXCEPT ![ch] = Dismiss(@, source)]
<1>1. ASSUME NEW c \in Channels, NEW x \in Sources
      PROVE  << c, x >> \in Pending(after) <=> << c, x >> \in Pending(chip) \ {<< ch, source >>}
  <2>1. Enabled(after[c], x) <=> Enabled(chip[c], x) /\ ~(c = ch /\ x = source)
    <3>1. CASE c = ch
      <4>1. chip[ch] \in Channel /\ after[c] = Dismiss(chip[ch], source)
        BY <3>1
      <4> DEFINE s == chip[ch]
      <4> HIDE DEF s
      <4>2. Enabled(Dismiss(s, source), x) <=> (Enabled(s, x) /\ x # source)
        BY <4>1, DismissDisables DEF s
      <4> QED BY <3>1, <4>1, <4>2 DEF s
    <3>2. CASE c # ch
      BY <3>2
    <3> QED BY <3>1, <3>2
  <2> HIDE DEF after
  <2>2. << c, x >> \in Pending(after) <=> Enabled(after[c], x)
    BY PendingSource
  <2>3. << c, x >> \in Pending(chip) <=> Enabled(chip[c], x)
    BY PendingSource
  <2>4. << c, x >> = << ch, source >> <=> c = ch /\ x = source
    OBVIOUS
  <2> QED BY <2>1, <2>2, <2>3, <2>4
<1>2. \A p \in Pending(after) \cup Pending(chip) : \E c \in Channels, x \in Sources : p = << c, x >>
  BY DEF Pending, Sources
<1> HIDE DEF after
<1>3. Pending(after) = Pending(chip) \ {<< ch, source >>}
  BY <1>1, <1>2
<1> QED BY <1>3 DEF after

LEMMA HighestDismissed ==
  ASSUME NEW chip \in [Channels -> Channel]
  PROVE  Pending(ResetHighestInterrupt(chip)) = Pending(chip) \ {InterruptVector(chip)}
<1> DEFINE E(ch, source) == Enabled(chip[ch], source)
           after == ResetHighestInterrupt(chip)
           D(ch, source) == [chip EXCEPT ![ch] = Dismiss(@, source)]
           V == VectorOrder
           P == Pending(chip)
<1>1. /\ V[1] = <<"A", "rx">> /\ V[2] = <<"A", "tx">> /\ V[3] = <<"A", "ext">>
      /\ V[4] = <<"B", "rx">> /\ V[5] = <<"B", "tx">> /\ V[6] = <<"B", "ext">>
  BY DEF VectorOrder
<1>2. /\ "A" \in Channels /\ "B" \in Channels /\ "rx" \in Sources /\ "tx" \in Sources /\ "ext" \in Sources
  BY DEF Channels, Sources
<1>3. /\ (V[1] \in P <=> E("A", "rx")) /\ (V[2] \in P <=> E("A", "tx")) /\ (V[3] \in P <=> E("A", "ext"))
      /\ (V[4] \in P <=> E("B", "rx")) /\ (V[5] \in P <=> E("B", "tx")) /\ (V[6] \in P <=> E("B", "ext"))
  BY <1>1, <1>2, PendingSource
<1>4. ASSUME NEW i \in 1 .. 6, V[i] \in P, \A j \in 1 .. (i - 1) : V[j] \notin P,
             NEW ch \in Channels, NEW source \in Sources, V[i] = << ch, source >>,
             after = D(ch, source)
      PROVE  Pending(after) = P \ {InterruptVector(chip)}
  <2>1. InterruptVector(chip) = V[i]
    BY <1>4, FirstIsNamed
  <2>2. Pending(D(ch, source)) = P \ {<< ch, source >>}
    BY DismissTakesOne
  <2> QED BY <1>4, <2>1, <2>2
<1>5. ASSUME NEW ch \in Channels, NEW source \in Sources, DismissFirst(chip[ch]) = Dismiss(chip[ch], source)
      PROVE  [chip EXCEPT ![ch] = DismissFirst(@)] = D(ch, source)
  BY <1>5
<1>6. CASE E("A", "rx") \/ E("A", "tx") \/ E("A", "ext")
  <2>1. after = [chip EXCEPT !["A"] = DismissFirst(@)]
    BY <1>6 DEF ResetHighestInterrupt
  <2>2. CASE E("A", "rx")
    <3>1. after = D("A", "rx")
      BY <1>2, <1>5, <2>1, <2>2 DEF DismissFirst
    <3>2. V[1] \in P /\ \A j \in 1 .. (1 - 1) : V[j] \notin P
      BY <1>3, <2>2
    <3> HIDE DEF V, P, D, after
    <3>3. Pending(after) = P \ {InterruptVector(chip)}
      BY <1>1, <1>2, <1>4, <3>1, <3>2
    <3> QED BY <3>3 DEF P, after
  <2>3. CASE ~E("A", "rx") /\ E("A", "tx")
    <3>1. after = D("A", "tx")
      BY <1>2, <1>5, <2>1, <2>3 DEF DismissFirst
    <3>2. V[2] \in P /\ \A j \in 1 .. (2 - 1) : j = 1
      BY <1>3, <2>3
    <3>3. V[1] \notin P
      BY <1>3, <2>3
    <3> HIDE DEF V, P, D, after
    <3>4. Pending(after) = P \ {InterruptVector(chip)}
      BY <1>1, <1>2, <1>4, <3>1, <3>2, <3>3
    <3> QED BY <3>4 DEF P, after
  <2>4. CASE ~E("A", "rx") /\ ~E("A", "tx") /\ E("A", "ext")
    <3>1. after = D("A", "ext")
      BY <1>2, <1>5, <2>1, <2>4 DEF DismissFirst
    <3>2. V[3] \in P /\ \A j \in 1 .. (3 - 1) : j \in {1, 2}
      BY <1>3, <2>4
    <3>3. V[1] \notin P /\ V[2] \notin P
      BY <1>3, <2>4
    <3> HIDE DEF V, P, D, after
    <3>4. Pending(after) = P \ {InterruptVector(chip)}
      BY <1>1, <1>2, <1>4, <3>1, <3>2, <3>3
    <3> QED BY <3>4 DEF P, after
  <2> QED BY <1>6, <2>2, <2>3, <2>4
<1>7. CASE ~(E("A", "rx") \/ E("A", "tx") \/ E("A", "ext")) /\ (E("B", "rx") \/ E("B", "tx") \/ E("B", "ext"))
  <2>1. after = [chip EXCEPT !["B"] = DismissFirst(@)]
    BY <1>7 DEF ResetHighestInterrupt
  <2>2. CASE E("B", "rx")
    <3>1. after = D("B", "rx")
      BY <1>2, <1>5, <2>1, <2>2 DEF DismissFirst
    <3>2. V[4] \in P /\ \A j \in 1 .. (4 - 1) : j \in {1, 2, 3}
      BY <1>3, <2>2
    <3>3. V[1] \notin P /\ V[2] \notin P /\ V[3] \notin P
      BY <1>3, <1>7
    <3> HIDE DEF V, P, D, after
    <3>4. Pending(after) = P \ {InterruptVector(chip)}
      BY <1>1, <1>2, <1>4, <3>1, <3>2, <3>3
    <3> QED BY <3>4 DEF P, after
  <2>3. CASE ~E("B", "rx") /\ E("B", "tx")
    <3>1. after = D("B", "tx")
      BY <1>2, <1>5, <2>1, <2>3 DEF DismissFirst
    <3>2. V[5] \in P /\ \A j \in 1 .. (5 - 1) : j \in {1, 2, 3, 4}
      BY <1>3, <2>3
    <3>3. V[1] \notin P /\ V[2] \notin P /\ V[3] \notin P /\ V[4] \notin P
      BY <1>3, <1>7, <2>3
    <3> HIDE DEF V, P, D, after
    <3>4. Pending(after) = P \ {InterruptVector(chip)}
      BY <1>1, <1>2, <1>4, <3>1, <3>2, <3>3
    <3> QED BY <3>4 DEF P, after
  <2>4. CASE ~E("B", "rx") /\ ~E("B", "tx") /\ E("B", "ext")
    <3>1. after = D("B", "ext")
      BY <1>2, <1>5, <2>1, <2>4 DEF DismissFirst
    <3>2. V[6] \in P /\ \A j \in 1 .. (6 - 1) : j \in {1, 2, 3, 4, 5}
      BY <1>3, <2>4
    <3>3. V[1] \notin P /\ V[2] \notin P /\ V[3] \notin P /\ V[4] \notin P /\ V[5] \notin P
      BY <1>3, <1>7, <2>4
    <3> HIDE DEF V, P, D, after
    <3>4. Pending(after) = P \ {InterruptVector(chip)}
      BY <1>1, <1>2, <1>4, <3>1, <3>2, <3>3
    <3> QED BY <3>4 DEF P, after
  <2> QED BY <1>7, <2>2, <2>3, <2>4
<1>8. CASE \A ch \in Channels, source \in Sources : ~E(ch, source)
  <2>1. after = chip
    BY <1>2, <1>8 DEF ResetHighestInterrupt, Sources
  <2>2. P = {}
    BY <1>8 DEF Pending, Sources
  <2> HIDE DEF after
  <2>3. Pending(after) = P \ {InterruptVector(chip)}
    BY <2>1, <2>2
  <2> QED BY <2>3 DEF after
<1> QED BY <1>6, <1>7, <1>8 DEF Channels, Sources

\* WR0's reset highest interrupt clears the source that RR2 of channel B named and no other:
\* resetHighestInterrupt and modifiedInterruptVector have the same order.
THEOREM HighestResetHolds == Spec => HighestReset
<1>1. ASSUME Inv, [Next]_vars, NEW ch \in Channels, GuestCommands(ch, "resetHighest")
      PROVE  Pending(scc)' = Pending(scc) \ {InterruptVector(scc)}
  <2>1. scc \in [Channels -> Channel]
    BY <1>1 DEF Inv, Wired, Channel
  <2>2. scc' = ResetHighestInterrupt(scc)
    BY <1>1 DEF GuestCommands, WriteCommand
  <2>3. Pending(ResetHighestInterrupt(scc)) = Pending(scc) \ {InterruptVector(scc)}
    BY <2>1, HighestDismissed
  <2> QED BY <2>2, <2>3
<1>2. Inv /\ [Next]_vars =>
        [\A ch \in Channels : GuestCommands(ch, "resetHighest") =>
           Pending(scc)' = Pending(scc) \ {InterruptVector(scc)}]_vars
  BY <1>1
<1> QED BY <1>2, Invariance, PTL DEF Spec, HighestReset

=============================================================================

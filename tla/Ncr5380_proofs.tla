--------------------------- MODULE Ncr5380_proofs ---------------------------
(***************************************************************************)
(* The handshake invariants of Ncr5380, for any commands and any guest.    *)
(* A method of the C++ class is an operator on the chip record, so there   *)
(* is one lemma per method: if it is applied to a record that satisfies    *)
(* ChipInv the result satisfies ChipInv.  Inside a write of the initiator  *)
(* command register the record still holds the old ACK level while the     *)
(* handshake code has already acted on the new one, so ChipInv takes the   *)
(* level as a parameter.                                                   *)
(***************************************************************************)
EXTENDS Ncr5380, TLAPS

Typed(c) ==
  /\ c \in ChipType
  /\ c.dataIdx <= c.dataLen
  /\ c.selected <=> c.active # NoTarget

(* Holds on every bus, disturbed or not.                                    *)
Connected(c) ==
  /\ c.phase # "BusFree" => c.selected
  /\ c.phase = "BusFree" =>
       ~c.pending /\ ~c.ready /\ ~c.disturbed /\ c.cmdLen = 0
         /\ c.executed = 0 /\ c.whole
  /\ c.cmdLen > 0 => c.cmd \in Commands
  /\ c.phase \notin {"BusFree", "Command"} => c.cmdLen > 0
  /\ c.pending \/ c.phase = "DataOut" => c.cmdLen > 0 /\ ExpectedDataOut(c.cmd) # 0
  /\ c.pending \/ c.phase \in {"DataOut", "Status", "MessageIn"} => c.dataIdx = c.dataLen

(* The CDB has no byte too many, and is complete only between the two ACK   *)
(* edges of its last byte.                                                  *)
CollectingCdb(c, ack) ==
  c.phase = "Command" =>
    /\ c.executed = 0 /\ ~c.pending /\ ~c.reassert
    /\ c.cmdLen = 0 => c.request
    /\ c.cmdLen > 0 => /\ c.cmdLen <= ExpectedCommandLength(c.cmd)
                       /\ c.ready <=> c.cmdLen = ExpectedCommandLength(c.cmd)
    /\ c.ready => c.cmdLen > 0 /\ ack /\ ~c.request

(* A DATA OUT completion is pending only in DMA mode with all bytes there.  *)
CollectingData(c) ==
  c.phase = "DataOut" =>
    /\ c.executed = 0 /\ ~c.ready
    /\ c.cmdLen = ExpectedCommandLength(c.cmd)
    /\ c.expected <= WholeDataOut(c.cmd)
    /\ c.cmd.op # "format" => c.expected = ExpectedDataOut(c.cmd)
    /\ c.pending => c.dma /\ c.dataOut >= WholeDataOut(c.cmd)

Answering(c) ==
  c.phase \in {"DataIn", "Status", "MessageIn"} => c.executed = 1 /\ ~c.pending /\ ~c.ready

Requesting(c, ack) == c.phase # "BusFree" /\ ~ack => c.request \/ c.reassert

Undisturbed(c, ack) ==
  ~c.disturbed => /\ c.whole
                  /\ CollectingCdb(c, ack)
                  /\ CollectingData(c)
                  /\ Answering(c)
                  /\ Requesting(c, ack)

ChipInv(c, ack) == Typed(c) /\ Connected(c) /\ Undisturbed(c, ack)

(* SEL is low on a busy bus, or the connection is disturbed.                *)
SelLow(c) == c.phase # "BusFree" /\ ~c.disturbed => ~c.sel

IInv == ChipInv(chip, chip.ack) /\ SelLow(chip) /\ targets \subseteq Ids

-----------------------------------------------------------------------------
(* What a command asks for: all facts about lengths the proofs use.         *)
LEMMA Lengths ==
  ASSUME NEW k \in Commands
  PROVE  /\ ExpectedCommandLength(k) \in Nat /\ ExpectedCommandLength(k) > 0
         /\ ExpectedDataOut(k) \in Nat
         /\ WholeDataOut(k) \in Nat
         /\ ExpectedDataOut(k) = 0 => WholeDataOut(k) = 0
         /\ ExpectedDataOut(k) <= WholeDataOut(k)
         /\ k.op # "format" => WholeDataOut(k) = ExpectedDataOut(k)
         /\ k.reply \in Nat
<1>1. k \in CommandType
  BY ConstantAssumption
<1>2. k.count \in Nat /\ k.ip \in BOOLEAN /\ k.defects \in Nat /\ k.pattern \in Nat /\ k.reply \in Nat
  BY <1>1 DEF CommandType
<1>3. \A a, b \in Nat : a * b \in Nat
  OBVIOUS
<1>4. BlockBytes \in Nat /\ SixByteBlocks \in Nat
  BY ConstantAssumption
<1>5. ExpectedDataOut(k) \in Nat
  BY <1>2, <1>3, <1>4 DEF ExpectedDataOut
<1>6. ExpectedCommandLength(k) \in Nat /\ ExpectedCommandLength(k) > 0
  BY DEF ExpectedCommandLength
<1>7. CASE k.op # "format"
  BY <1>2, <1>5, <1>6, <1>7 DEF WholeDataOut, DataOutLength
<1>8. CASE k.op = "format"
  BY <1>2, <1>5, <1>6, <1>8 DEF WholeDataOut, DataOutLength, ExpectedDataOut
<1> QED BY <1>7, <1>8

(* The length worked out from the bytes received so far never exceeds the   *)
(* whole, and bytes that reach it are all the bytes.                        *)
LEMMA FormatLengths ==
  ASSUME NEW k \in Commands, NEW n \in Nat, ExpectedDataOut(k) # 0
  PROVE  /\ DataOutLength(k, n) \in Nat
         /\ DataOutLength(k, n) <= WholeDataOut(k)
         /\ k.op = "format" /\ n >= DataOutLength(k, n) => n >= WholeDataOut(k)
<1>1. k \in CommandType
  BY ConstantAssumption
<1>2. k.count \in Nat /\ k.ip \in BOOLEAN /\ k.defects \in Nat /\ k.pattern \in Nat
  BY <1>1 DEF CommandType
<1>3. CASE k.op # "format"
  BY <1>3, Lengths DEF DataOutLength, WholeDataOut
<1>4. CASE k.op = "format"
  BY <1>2, <1>4 DEF DataOutLength, WholeDataOut, ExpectedDataOut
<1> QED BY <1>3, <1>4

(* A phase change keeps everything but phase, REQ and its reassertion.      *)
LEMMA PollInv ==
  ASSUME NEW c, NEW ack \in BOOLEAN, ChipInv(c, ack)
  PROVE  ChipInv(PollStatus(c), ack)
<1> DEFINE d == PollStatus(c)
<1>1. Typed(d)
  BY ZenonT(60) DEF ChipInv, Typed, ChipType, PollStatus
<1>2. Connected(d)
  BY DEF ChipInv, Typed, ChipType, Connected, PollStatus
<1>3. Undisturbed(d, ack)
  BY DEF ChipInv, Typed, ChipType, Undisturbed, CollectingCdb, CollectingData, Answering,
         Requesting, PollStatus
<1> QED BY <1>1, <1>2, <1>3 DEF ChipInv

LEMMA ReadDataByteInv ==
  ASSUME NEW c, NEW ack \in BOOLEAN, ChipInv(c, ack)
  PROVE  ChipInv(ReadDataByte(c), ack)
<1> DEFINE d == ReadDataByte(c)
<1>1. Typed(d)
  BY DEF ChipInv, Typed, ChipType, ReadDataByte
<1>2. Connected(d)
  BY DEF ChipInv, Typed, ChipType, Connected, ReadDataByte
<1>3. Undisturbed(d, ack)
  BY DEF ChipInv, Typed, ChipType, Undisturbed, CollectingCdb, CollectingData, Answering,
         Requesting, ReadDataByte
<1> QED BY <1>1, <1>2, <1>3 DEF ChipInv

LEMMA IdleInv ==
  ASSUME NEW a \in BOOLEAN, NEW sel \in BOOLEAN, NEW dma \in BOOLEAN, NEW ack \in BOOLEAN
  PROVE  ChipInv(Idle(a, sel, dma), ack)
<1> DEFINE d == Idle(a, sel, dma)
<1>1. Typed(d)
  BY DEF Typed, ChipType, Idle, Phases
<1>2. Connected(d)
  BY DEF Connected, Idle
<1>3. Undisturbed(d, ack)
  BY DEF Undisturbed, CollectingCdb, CollectingData, Answering, Requesting, Idle
<1> QED BY <1>1, <1>2, <1>3 DEF ChipInv

LEMMA DackReadInv ==
  ASSUME NEW c, NEW ack \in BOOLEAN, ChipInv(c, ack)
  PROVE  ChipInv(DackRead(c), ack)
<1> DEFINE r == ReadDataByte(c)
           d == DackRead(c)
<1>0. ChipInv(r, ack) /\ (c.request => r.request)
  BY ReadDataByteInv DEF ReadDataByte, ChipInv, Typed, ChipType
<1>d. d = IF ~c.request THEN c
          ELSE IF r.phase # "DataIn" THEN r
          ELSE IF r.dataIdx >= r.dataLen THEN SetPhase(r, "Status")
          ELSE [r EXCEPT !.request = FALSE, !.reassert = TRUE]
  BY DEF DackRead
<1> SUFFICES ChipInv(d, ack)
  OBVIOUS
<1> HIDE DEF r, d
<1>1. CASE ~c.request \/ r.phase # "DataIn"
  BY <1>0, <1>1, <1>d
<1>2. CASE c.request /\ r.phase = "DataIn" /\ r.dataIdx >= r.dataLen
  <2>1. d = [r EXCEPT !.phase = "Status", !.request = TRUE, !.reassert = FALSE]
    BY <1>2, <1>d DEF SetPhase
  <2>2. Typed(d)
    BY <1>0, <2>1 DEF ChipInv, Typed, ChipType, Phases
  <2>3. Connected(d)
    BY <1>0, <1>2, <2>1 DEF ChipInv, Typed, ChipType, Connected
  <2>4. Undisturbed(d, ack)
    BY <1>0, <1>2, <2>1 DEF ChipInv, Typed, ChipType, Undisturbed, CollectingCdb,
       CollectingData, Answering, Requesting
  <2> QED BY <2>2, <2>3, <2>4 DEF ChipInv
<1>3. CASE c.request /\ r.phase = "DataIn" /\ r.dataIdx < r.dataLen
  <2>1. d = [r EXCEPT !.request = FALSE, !.reassert = TRUE]
    BY <1>0, <1>3, <1>d DEF ChipInv, Typed, ChipType
  <2>2. Typed(d)
    BY <1>0, <2>1 DEF ChipInv, Typed, ChipType
  <2>3. Connected(d)
    BY <1>0, <1>3, <2>1 DEF ChipInv, Typed, ChipType, Connected
  <2>4. Undisturbed(d, ack)
    BY <1>0, <1>3, <2>1 DEF ChipInv, Typed, ChipType, Undisturbed, CollectingCdb,
       CollectingData, Answering, Requesting
  <2> QED BY <2>2, <2>3, <2>4 DEF ChipInv
<1>4. r.dataIdx >= r.dataLen \/ r.dataIdx < r.dataLen
  BY <1>0 DEF ChipInv, Typed, ChipType
<1> QED BY <1>1, <1>2, <1>3, <1>4

(* A CDB byte may be taken when the CDB is not complete.                    *)
LEMMA AcceptInv ==
  ASSUME NEW c, NEW k \in Commands, ChipInv(c, FALSE), c.phase = "Command"
  PROVE  /\ ChipInv(AcceptCommandByte(c, k), TRUE)
         /\ AcceptCommandByte(c, k).cmdLen > 0
         /\ AcceptCommandByte(c, k).phase = "Command"
<1> DEFINE cmd == IF c.cmdLen = 0 THEN k ELSE c.cmd
           len == Append1(c.cmdLen, ExpectedCommandLength(cmd))
           d == AcceptCommandByte(c, k)
<1>1. c \in ChipType /\ c.cmdLen \in Nat /\ cmd \in Commands
  BY DEF ChipInv, Typed, ChipType, Connected
<1>2. ExpectedCommandLength(cmd) \in Nat /\ ExpectedCommandLength(cmd) > 0
  BY <1>1, Lengths
<1> HIDE DEF cmd
<1>3. /\ len \in Nat /\ len > 0
      /\ c.cmdLen < ExpectedCommandLength(cmd) => len = c.cmdLen + 1
  BY <1>1, <1>2 DEF Append1
<1> USE DEF cmd
<1>4. d = [c EXCEPT !.cmd = cmd, !.cmdLen = len, !.request = FALSE,
                    !.ready = @ \/ len >= ExpectedCommandLength(cmd)]
  BY DEF AcceptCommandByte
<1>5. c.pending => cmd = c.cmd
  BY DEF ChipInv, Connected
<1>6. ~c.disturbed => /\ c.cmdLen < ExpectedCommandLength(cmd) /\ ~c.ready
                      /\ c.cmdLen > 0 => cmd = c.cmd
  <2>1. CASE c.cmdLen = 0
    BY <1>1, <1>2, <2>1 DEF ChipInv, ChipType, Undisturbed, CollectingCdb
  <2>2. CASE c.cmdLen > 0
    <3>1. cmd = c.cmd
      BY <2>2
    <3>2. ~c.disturbed =>
            /\ ~c.ready
            /\ c.cmdLen <= ExpectedCommandLength(c.cmd)
            /\ c.ready <=> c.cmdLen = ExpectedCommandLength(c.cmd)
      BY <2>2 DEF ChipInv, Undisturbed, CollectingCdb
    <3> HIDE DEF cmd
    <3> QED BY <1>1, <1>2, <3>1, <3>2
  <2> QED BY <1>1, <2>1, <2>2
<1> HIDE DEF cmd, len, d
<1>7. Typed(d)
  BY ZenonT(60), <1>1, <1>3, <1>4 DEF ChipInv, Typed, ChipType
<1>8. Connected(d) /\ d.cmdLen > 0 /\ d.phase = "Command"
  BY <1>1, <1>3, <1>4, <1>5 DEF ChipInv, Typed, ChipType, Connected
<1>9. Undisturbed(d, TRUE)
  BY <1>1, <1>2, <1>3, <1>4, <1>6 DEF ChipInv, Typed, ChipType, Undisturbed, CollectingCdb,
     CollectingData, Answering, Requesting
<1> QED BY <1>7, <1>8, <1>9 DEF ChipInv, d

(* Out of the Command phase the ACK level matters only for REQ.             *)
LEMMA AnyAck ==
  ASSUME NEW c, NEW ack \in BOOLEAN, ChipInv(c, TRUE), c.phase # "Command",
         c.request \/ c.reassert
  PROVE  ChipInv(c, ack)
BY DEF ChipInv, Undisturbed, CollectingCdb, Requesting

(* A phase change keeps the record in its type, and so does a new buffer.   *)
LEMMA PhaseType ==
  ASSUME NEW c \in ChipType, NEW p \in Phases
  PROVE  SetPhase(c, p) \in ChipType
BY DEF ChipType, SetPhase

LEMMA BufferType ==
  ASSUME NEW c \in ChipType, NEW n \in Nat, NEW e \in Nat
  PROVE  /\ [c EXCEPT !.dataOut = 0, !.dataLen = n, !.dataIdx = 0] \in ChipType
         /\ [c EXCEPT !.dataOut = 0, !.dataLen = n, !.dataIdx = 0, !.expected = e] \in ChipType
BY DEF ChipType

LEMMA RunType ==
  ASSUME NEW c \in ChipType, NEW n
  PROVE  TargetRuns(c, n) \in ChipType
<1> DEFINE executed == IF c.executed = 2 THEN 2 ELSE c.executed + 1
           whole == c.whole /\ c.cmdLen = ExpectedCommandLength(c.cmd) /\ n >= WholeDataOut(c.cmd)
<1>1. TargetRuns(c, n) = [c EXCEPT !.executed = executed, !.whole = whole]
  BY DEF TargetRuns
<1>2. executed \in 0 .. 2
  BY DEF ChipType
<1>3. whole \in BOOLEAN
  OBVIOUS
<1> HIDE DEF executed, whole
<1> QED BY <1>1, <1>2, <1>3 DEF ChipType

(* A CDB that is complete and that nobody has run yet.                      *)
Executable(c) ==
  /\ Typed(c) /\ Connected(c)
  /\ c.phase = "Command" /\ c.cmdLen > 0
  /\ ~c.disturbed => /\ c.whole /\ c.executed = 0 /\ ~c.pending /\ ~c.ready
                     /\ c.cmdLen = ExpectedCommandLength(c.cmd)

LEMMA ReadyExecutable ==
  ASSUME NEW c, ChipInv(c, TRUE), c.phase = "Command", c.cmdLen > 0, c.ready
  PROVE  Executable([c EXCEPT !.ready = FALSE])
<1> DEFINE d == [c EXCEPT !.ready = FALSE]
<1>1. Typed(d)
  BY DEF ChipInv, Typed, ChipType
<1>2. Connected(d) /\ d.phase = "Command" /\ d.cmdLen > 0
  BY DEF ChipInv, Typed, ChipType, Connected
<1>3. ~d.disturbed => /\ d.whole /\ d.executed = 0 /\ ~d.pending /\ ~d.ready
                      /\ d.cmdLen = ExpectedCommandLength(d.cmd)
  BY DEF ChipInv, Typed, ChipType, Undisturbed, CollectingCdb
<1> QED BY <1>1, <1>2, <1>3 DEF Executable

LEMMA ExecuteInv ==
  ASSUME NEW c, NEW ack \in BOOLEAN, Executable(c)
  PROVE  ChipInv(ExecuteCommand(c), ack)
<1> DEFINE d == ExecuteCommand(c)
<1>1. c \in ChipType /\ c.cmd \in Commands /\ c.active # NoTarget /\ c.selected
  BY DEF Executable, Typed, Connected
<1>2. /\ ExpectedCommandLength(c.cmd) \in Nat
      /\ ExpectedDataOut(c.cmd) \in Nat /\ WholeDataOut(c.cmd) \in Nat
      /\ ExpectedDataOut(c.cmd) = 0 => WholeDataOut(c.cmd) = 0
      /\ ExpectedDataOut(c.cmd) <= WholeDataOut(c.cmd)
      /\ c.cmd.reply \in Nat
  BY <1>1, Lengths
<1>3. CASE ExpectedDataOut(c.cmd) # 0
  <2>1. d = [c EXCEPT !.phase = "DataOut", !.request = TRUE, !.reassert = FALSE,
                      !.dataOut = 0, !.dataLen = 0, !.dataIdx = 0,
                      !.expected = ExpectedDataOut(c.cmd)]
    BY <1>1, <1>3 DEF ExecuteCommand, SetPhase
  <2> HIDE DEF d
  <2>2. Typed(d)
    <3>1. d \in ChipType
      BY <1>1, <1>2, <1>3, PhaseType, BufferType DEF ExecuteCommand, Phases, d
    <3>2. /\ d.dataIdx = 0 /\ d.dataLen = 0
          /\ d.selected = c.selected /\ d.active = c.active
      BY <1>1, <2>1 DEF ChipType
    <3> QED BY <3>1, <3>2 DEF Executable, Typed
  <2>3. Connected(d)
    BY <1>1, <1>2, <1>3, <2>1 DEF Executable, Typed, ChipType, Connected
  <2>4. /\ d.phase = "DataOut" /\ d.request /\ d.expected = ExpectedDataOut(c.cmd)
        /\ d.whole = c.whole /\ d.executed = c.executed /\ d.pending = c.pending
        /\ d.ready = c.ready /\ d.cmd = c.cmd /\ d.cmdLen = c.cmdLen
        /\ d.disturbed = c.disturbed
    BY <1>1, <2>1 DEF ChipType
  <2>5. Undisturbed(d, ack)
    BY <1>2, <1>3, <2>4 DEF Executable, Undisturbed, CollectingCdb,
       CollectingData, Answering, Requesting
  <2> QED BY <2>2, <2>3, <2>5 DEF ChipInv, d
<1>4. CASE ExpectedDataOut(c.cmd) = 0
  <2> DEFINE phase == IF c.cmd.reply = 0 THEN "Status" ELSE "DataIn"
             executed == IF c.executed = 2 THEN 2 ELSE c.executed + 1
             whole == c.whole /\ c.cmdLen = ExpectedCommandLength(c.cmd)
                        /\ 0 >= WholeDataOut(c.cmd)
  <2>1. d = [c EXCEPT !.executed = executed, !.whole = whole, !.phase = phase,
                      !.request = TRUE, !.reassert = FALSE,
                      !.dataOut = 0, !.dataLen = c.cmd.reply, !.dataIdx = 0]
    BY <1>1, <1>4 DEF ExecuteCommand, SetPhase, TargetRuns
  <2>2. /\ phase \in {"Status", "DataIn"} /\ (phase = "Status" => c.cmd.reply = 0)
        /\ executed \in 0 .. 2 /\ (c.executed = 0 => executed = 1)
    BY <1>1, <1>2 DEF ChipType
  <2>3. whole \in BOOLEAN
    OBVIOUS
  <2>4. ~c.disturbed => whole /\ executed = 1 /\ ~c.pending /\ ~c.ready
    BY <1>2, <1>4, <2>2 DEF Executable
  <2>5. ~c.pending
    BY <1>4 DEF Executable, Connected
  <2> HIDE DEF d, phase, executed, whole
  <2>6. Typed(d)
    <3>1. SetPhase(TargetRuns(c, 0), phase) \in ChipType
      BY <1>1, <2>2, RunType, PhaseType DEF Phases
    <3>2. d \in ChipType
      BY <1>1, <1>2, <1>4, <3>1, BufferType DEF ExecuteCommand, d, phase
    <3>3. /\ d.dataIdx = 0 /\ d.dataLen = c.cmd.reply
          /\ d.selected = c.selected /\ d.active = c.active
      BY <1>1, <2>1 DEF ChipType
    <3> QED BY <1>2, <3>2, <3>3 DEF Executable, Typed
  <2>7. Connected(d)
    BY <1>1, <1>2, <2>1, <2>2, <2>5 DEF Executable, Typed, ChipType, Connected
  <2>8. /\ d.phase = phase /\ d.request /\ d.whole = whole /\ d.executed = executed
        /\ d.pending = c.pending /\ d.ready = c.ready /\ d.disturbed = c.disturbed
    BY <1>1, <2>1 DEF ChipType
  <2>9. Undisturbed(d, ack)
    BY <2>2, <2>4, <2>8 DEF Undisturbed, CollectingCdb, CollectingData, Answering, Requesting
  <2> QED BY <2>6, <2>7, <2>9 DEF ChipInv, d
<1> QED BY <1>3, <1>4

(* A DATA OUT command whose bytes are all there and that nobody has run.    *)
Completable(c) ==
  /\ Typed(c) /\ Connected(c)
  /\ c.phase # "BusFree" /\ c.cmdLen > 0 /\ c.dataIdx = c.dataLen
  /\ ~c.disturbed => /\ c.whole /\ c.executed = 0 /\ ~c.pending /\ ~c.ready
                     /\ c.cmdLen = ExpectedCommandLength(c.cmd)
                     /\ c.dataOut >= WholeDataOut(c.cmd)

LEMMA CompleteInv ==
  ASSUME NEW c, NEW ack \in BOOLEAN, Completable(c)
  PROVE  /\ ChipInv(CompleteDataOutCommand(c), ack)
         /\ CompleteDataOutCommand(c).phase = "Status"
         /\ CompleteDataOutCommand(c).request
<1> DEFINE d == CompleteDataOutCommand(c)
           executed == IF c.executed = 2 THEN 2 ELSE c.executed + 1
           whole == c.whole /\ c.cmdLen = ExpectedCommandLength(c.cmd)
                      /\ c.dataOut >= WholeDataOut(c.cmd)
<1>1. c \in ChipType /\ c.selected
  BY DEF Completable, Typed, Connected
<1>2. d = [c EXCEPT !.executed = executed, !.whole = whole, !.phase = "Status",
                    !.request = TRUE, !.reassert = FALSE]
  BY <1>1 DEF CompleteDataOutCommand, SetPhase, TargetRuns
<1>3. executed \in 0 .. 2 /\ (c.executed = 0 => executed = 1) /\ whole \in BOOLEAN
  BY <1>1 DEF ChipType
<1>4. ~c.disturbed => whole /\ executed = 1 /\ ~c.pending /\ ~c.ready
  BY <1>3 DEF Completable
<1> HIDE DEF d, executed, whole
<1>5. Typed(d) /\ d.phase = "Status" /\ d.request
  BY ZenonT(60), <1>1, <1>2, <1>3 DEF Completable, Typed, ChipType, Phases
<1>6. Connected(d)
  BY <1>1, <1>2, <1>3 DEF Completable, Typed, ChipType, Connected
<1>7. Undisturbed(d, ack)
  BY <1>1, <1>2, <1>4 DEF Completable, Typed, ChipType, Undisturbed, CollectingCdb,
     CollectingData, Answering, Requesting
<1> QED BY <1>5, <1>6, <1>7 DEF ChipInv, d

(* finishDataPhaseIfDone: it waits, asks for more, completes, or leaves the *)
(* completion pending with REQ up.                                          *)
LEMMA FinishInv ==
  ASSUME NEW c, ChipInv(c, TRUE), c.phase = "DataOut"
  PROVE  LET f == FinishDataPhaseIfDone(c)
         IN  /\ ChipInv(f, TRUE)
             /\ f.phase \in {"DataOut", "Status"}
             /\ f.phase = "Status" => f.request
             /\ f.phase = "DataOut" /\ f.pending /\ ~f.disturbed => f.request
<1> DEFINE f == FinishDataPhaseIfDone(c)
           length == DataOutLength(c.cmd, c.dataOut)
<1>1. c \in ChipType /\ c.cmd \in Commands /\ c.dataOut \in Nat /\ c.expected \in Nat
  BY DEF ChipInv, Typed, ChipType, Connected
<1>2. WholeDataOut(c.cmd) \in Nat /\ ExpectedDataOut(c.cmd) \in Nat
      /\ ExpectedDataOut(c.cmd) <= WholeDataOut(c.cmd)
      /\ (c.cmd.op # "format" => WholeDataOut(c.cmd) = ExpectedDataOut(c.cmd))
  BY <1>1, Lengths
<1>3. ~c.disturbed =>
        /\ length \in Nat /\ length <= WholeDataOut(c.cmd)
        /\ c.cmd.op = "format" /\ c.dataOut >= length => c.dataOut >= WholeDataOut(c.cmd)
        /\ c.expected <= WholeDataOut(c.cmd)
        /\ c.cmd.op # "format" => c.expected = ExpectedDataOut(c.cmd)
        /\ c.pending => c.dma /\ c.dataOut >= WholeDataOut(c.cmd)
  BY <1>1, FormatLengths DEF ChipInv, Connected, Undisturbed, CollectingData
<1>4. length \in Nat
  <2>1. c.cmd \in CommandType
    BY <1>1, ConstantAssumption
  <2> QED BY <1>1, <1>2, <2>1 DEF DataOutLength, CommandType
<1>5. f = IF c.dataOut < c.expected THEN c
          ELSE IF c.cmd.op = "format" /\ c.dataOut < length THEN [c EXCEPT !.expected = length]
          ELSE IF c.dma THEN [c EXCEPT !.pending = TRUE, !.request = TRUE]
          ELSE CompleteDataOutCommand(c)
  BY DEF FinishDataPhaseIfDone
<1> SUFFICES /\ ChipInv(f, TRUE)
             /\ f.phase \in {"DataOut", "Status"}
             /\ f.phase = "Status" => f.request
             /\ f.phase = "DataOut" /\ f.pending /\ ~f.disturbed => f.request
  OBVIOUS
<1> HIDE DEF f, length
<1>6. CASE c.dataOut < c.expected
  <2>1. f = c
    BY <1>5, <1>6
  <2>2. c.disturbed \/ ~c.pending
    BY <1>1, <1>2, <1>3, <1>6
  <2> QED BY <2>1, <2>2
<1>7. CASE ~(c.dataOut < c.expected) /\ c.cmd.op = "format" /\ c.dataOut < length
  <2>1. f = [c EXCEPT !.expected = length]
    BY <1>5, <1>7
  <2>2. Typed(f)
    BY <1>4, <2>1 DEF ChipInv, Typed, ChipType
  <2>3. Connected(f) /\ f.phase = "DataOut"
    BY <2>1 DEF ChipInv, Typed, ChipType, Connected
  <2>4. Undisturbed(f, TRUE)
    BY <1>3, <1>7, <2>1 DEF ChipInv, Typed, ChipType, Undisturbed, CollectingCdb,
       CollectingData, Answering, Requesting
  <2>5. c.disturbed \/ ~c.pending
    BY <1>1, <1>2, <1>3, <1>4, <1>7
  <2>6. f.disturbed = c.disturbed /\ f.pending = c.pending
    BY <1>1, <2>1 DEF ChipType
  <2> QED BY <2>2, <2>3, <2>4, <2>5, <2>6 DEF ChipInv
<1> DEFINE done == ~(c.dataOut < c.expected) /\ ~(c.cmd.op = "format" /\ c.dataOut < length)
<1>8. done /\ ~c.disturbed => c.dataOut >= WholeDataOut(c.cmd)
  BY <1>1, <1>2, <1>3, <1>4
<1>9. CASE done /\ c.dma
  <2>1. f = [c EXCEPT !.pending = TRUE, !.request = TRUE]
    BY <1>5, <1>9
  <2>2. Typed(f)
    BY <2>1 DEF ChipInv, Typed, ChipType
  <2>3. Connected(f) /\ f.phase = "DataOut" /\ f.request
    BY <1>1, <2>1 DEF ChipInv, Typed, ChipType, Connected
  <2>4. Undisturbed(f, TRUE)
    BY <1>1, <1>8, <1>9, <2>1 DEF ChipInv, Typed, ChipType, Undisturbed, CollectingCdb,
       CollectingData, Answering, Requesting
  <2> QED BY <2>2, <2>3, <2>4 DEF ChipInv
<1>10. CASE done /\ ~c.dma
  <2>1. f = CompleteDataOutCommand(c)
    BY <1>5, <1>10
  <2>2. c.disturbed \/ ~c.pending
    BY <1>3, <1>10
  <2>3. Completable(c)
    BY <1>8, <1>10, <2>2 DEF Completable, ChipInv, Connected, Undisturbed, CollectingData
  <2> QED BY <2>1, <2>3, CompleteInv
<1> QED BY <1>6, <1>7, <1>9, <1>10

LEMMA DackWriteInv ==
  ASSUME NEW c, NEW k \in Commands, NEW ack \in BOOLEAN, ChipInv(c, ack)
  PROVE  ChipInv(DackWrite(c, k), ack)
<1>1. c \in ChipType
  BY DEF ChipInv, Typed
<1>2. CASE ~c.request \/ c.phase \notin {"Command", "DataOut"}
  BY <1>1, <1>2 DEF DackWrite, ChipType, Phases
<1>3. CASE c.request /\ c.phase = "Command"
  <2> DEFINE a == AcceptCommandByte(c, k)
             d == [a EXCEPT !.request = TRUE]
  <2>1. ChipInv(c, FALSE)
    BY <1>3 DEF ChipInv, Undisturbed, CollectingCdb, Requesting
  <2>2. ChipInv(a, TRUE) /\ a.cmdLen > 0 /\ a.phase = "Command"
    BY <1>3, <2>1, AcceptInv
  <2>3. DackWrite(c, k) = IF a.ready THEN ExecuteCommand([a EXCEPT !.ready = FALSE]) ELSE d
    BY <1>3 DEF DackWrite
  <2> HIDE DEF a
  <2>4. CASE a.ready
    BY <2>2, <2>3, <2>4, ReadyExecutable, ExecuteInv
  <2>5. CASE ~a.ready
    <3>1. Typed(d)
      BY <2>2 DEF ChipInv, Typed, ChipType
    <3>2. Connected(d)
      BY <2>2 DEF ChipInv, Typed, ChipType, Connected
    <3>3. Undisturbed(d, ack)
      BY <2>2, <2>5 DEF ChipInv, Typed, ChipType, Undisturbed, CollectingCdb,
         CollectingData, Answering, Requesting
    <3> QED BY <2>3, <2>5, <3>1, <3>2, <3>3 DEF ChipInv
  <2> QED BY <2>4, <2>5
<1>4. CASE c.request /\ c.phase = "DataOut"
  <2> DEFINE whole == WholeDataOut(c.cmd)
             n == Append1(c.dataOut, whole)
             b == [c EXCEPT !.dataOut = n, !.request = FALSE]
             f == FinishDataPhaseIfDone(b)
             d == [f EXCEPT !.reassert = TRUE]
  <2>1. c.dataOut \in Nat /\ whole \in Nat
    BY <1>1, <1>4, Lengths DEF ChipInv, Connected, ChipType
  <2> HIDE DEF whole
  <2>2. n \in Nat /\ (c.dataOut >= whole => n >= whole)
    BY <2>1 DEF Append1
  <2>3. DackWrite(c, k) = IF f.phase = "DataOut" /\ ~f.pending THEN d ELSE f
    BY <1>4 DEF DackWrite, whole
  <2> HIDE DEF n
  <2>4. ChipInv(b, TRUE) /\ b.phase = "DataOut"
    <3>1. Typed(b)
      BY <2>2 DEF ChipInv, Typed, ChipType
    <3>2. Connected(b) /\ b.phase = "DataOut"
      BY <1>4 DEF ChipInv, Typed, ChipType, Connected
    <3>3. Undisturbed(b, TRUE)
      BY <1>4, <2>2 DEF ChipInv, Typed, ChipType, Undisturbed, CollectingCdb,
         CollectingData, Answering, Requesting, whole
    <3> QED BY <3>1, <3>2, <3>3 DEF ChipInv
  <2> HIDE DEF b
  <2>5. /\ ChipInv(f, TRUE)
        /\ f.phase \in {"DataOut", "Status"}
        /\ f.phase = "Status" => f.request
        /\ f.phase = "DataOut" /\ f.pending /\ ~f.disturbed => f.request
    BY <2>4, FinishInv
  <2> HIDE DEF f
  <2>6. CASE f.phase = "DataOut" /\ ~f.pending
    <3>1. Typed(d)
      BY <2>5 DEF ChipInv, Typed, ChipType
    <3>2. Connected(d)
      BY <2>5, <2>6 DEF ChipInv, Typed, ChipType, Connected
    <3>3. Undisturbed(d, ack)
      BY <2>5, <2>6 DEF ChipInv, Typed, ChipType, Undisturbed, CollectingCdb,
         CollectingData, Answering, Requesting
    <3> QED BY <2>3, <2>6, <3>1, <3>2, <3>3 DEF ChipInv
  <2>7. CASE ~(f.phase = "DataOut" /\ ~f.pending)
    <3>1. DackWrite(c, k) = f
      BY <2>3, <2>7
    <3>2. Undisturbed(f, ack)
      BY <2>5, <2>7 DEF ChipInv, Undisturbed, CollectingCdb, Requesting
    <3> QED BY <2>5, <3>1, <3>2 DEF ChipInv
  <2> QED BY <2>6, <2>7
<1> QED BY <1>2, <1>3, <1>4

LEMMA WriteModeInv ==
  ASSUME NEW c, NEW ack \in BOOLEAN, NEW dma \in BOOLEAN, ChipInv(c, ack)
  PROVE  ChipInv(WriteMode(c, dma), ack)
<1> DEFINE b == [c EXCEPT !.pending = FALSE]
           d == IF c.dma /\ ~dma /\ c.pending THEN CompleteDataOutCommand(b) ELSE c
           e == [d EXCEPT !.dma = dma]
<1>1. WriteMode(c, dma) = e
  BY DEF WriteMode
<1>2. /\ ChipInv(d, ack)
      /\ ~d.disturbed /\ d.phase = "DataOut" /\ d.pending => dma
  <2>1. CASE c.dma /\ ~dma /\ c.pending
    <3>1. Typed(b)
      BY DEF ChipInv, Typed, ChipType
    <3>2. Connected(b)
      BY DEF ChipInv, Typed, ChipType, Connected
    <3>3. /\ b.phase # "BusFree" /\ b.cmdLen > 0 /\ b.dataIdx = b.dataLen
          /\ ~b.disturbed => /\ b.whole /\ b.executed = 0 /\ ~b.pending /\ ~b.ready
                             /\ b.cmdLen = ExpectedCommandLength(b.cmd)
                             /\ b.dataOut >= WholeDataOut(b.cmd)
      <4>1. c.phase # "BusFree" /\ c.cmdLen > 0 /\ c.dataIdx = c.dataLen
        BY <2>1 DEF ChipInv, Connected
      <4>2. ~c.disturbed => c.phase = "DataOut"
        BY <2>1, <4>1 DEF ChipInv, Typed, ChipType, Phases, Undisturbed, CollectingCdb, Answering
      <4> QED BY <2>1, <4>1, <4>2 DEF ChipInv, Typed, ChipType, Undisturbed, CollectingData
    <3>4. Completable(b)
      BY <3>1, <3>2, <3>3 DEF Completable
    <3> QED BY <2>1, <3>4, CompleteInv
  <2>2. CASE ~(c.dma /\ ~dma /\ c.pending)
    BY <2>2 DEF ChipInv, Undisturbed, CollectingData
  <2> QED BY <2>1, <2>2
<1> HIDE DEF d
<1>3. Typed(e)
  BY <1>2 DEF ChipInv, Typed, ChipType
<1>4. Connected(e)
  BY <1>2 DEF ChipInv, Typed, ChipType, Connected
<1>5. Undisturbed(e, ack)
  BY <1>2 DEF ChipInv, Typed, ChipType, Undisturbed, CollectingCdb,
     CollectingData, Answering, Requesting
<1> QED BY <1>1, <1>3, <1>4, <1>5 DEF ChipInv

LEMMA SelectInv ==
  ASSUME NEW c, NEW ack \in BOOLEAN, NEW sel \in BOOLEAN, NEW hit \in Ids \union {NoTarget},
         ChipInv(c, ack), SelLow(c)
  PROVE  LET d == Select(c, sel, hit)
         IN  /\ ChipInv(d, ack) /\ SelLow(d)
             /\ d.ack = c.ack /\ d.sel = c.sel /\ d.phase = c.phase
             /\ sel /\ d.phase # "BusFree" => d.disturbed
<1> DEFINE busy == c.disturbed \/ (sel /\ c.phase # "BusFree")
           b == [c EXCEPT !.disturbed = busy]
           e == [b EXCEPT !.selected = TRUE, !.active = hit]
           d == Select(c, sel, hit)
<1>1. d = IF sel /\ ~c.selected /\ hit # NoTarget THEN e ELSE b
  BY DEF Select
<1>2. busy \in BOOLEAN /\ (~busy => ~c.disturbed) /\ (c.phase = "BusFree" => busy = c.disturbed)
      /\ (sel /\ c.phase # "BusFree" => busy)
  BY DEF ChipInv, Typed, ChipType
<1> HIDE DEF busy
<1>3. /\ Typed(b) /\ b.ack = c.ack /\ b.sel = c.sel /\ b.phase = c.phase
      /\ b.disturbed = busy /\ b.selected = c.selected
  BY <1>2 DEF ChipInv, Typed, ChipType
<1>4. Connected(b)
  BY <1>2 DEF ChipInv, Typed, ChipType, Connected
<1>5. Undisturbed(b, ack)
  BY <1>2 DEF ChipInv, Typed, ChipType, Undisturbed, CollectingCdb, CollectingData,
     Answering, Requesting
<1>6. SelLow(b)
  BY <1>2, <1>3 DEF SelLow
<1>7. CASE sel /\ ~c.selected /\ hit # NoTarget
  <2> HIDE DEF b
  <2>1. /\ Typed(e) /\ e.ack = b.ack /\ e.sel = b.sel /\ e.phase = b.phase
        /\ e.disturbed = b.disturbed
    BY <1>3, <1>7 DEF Typed, ChipType
  <2>2. Connected(e)
    BY <1>3, <1>4 DEF Typed, ChipType, Connected
  <2>3. Undisturbed(e, ack)
    BY <1>3, <1>5 DEF Typed, ChipType, Undisturbed, CollectingCdb, CollectingData,
       Answering, Requesting
  <2> QED BY <1>1, <1>2, <1>3, <1>6, <1>7, <2>1, <2>2, <2>3 DEF ChipInv, SelLow
<1>8. CASE ~(sel /\ ~c.selected /\ hit # NoTarget)
  BY <1>1, <1>2, <1>3, <1>4, <1>5, <1>6, <1>8 DEF ChipInv
<1> QED BY <1>7, <1>8

LEMMA DropSelectInv ==
  ASSUME NEW c, NEW ack \in BOOLEAN, NEW sel \in BOOLEAN, ChipInv(c, ack), SelLow(c)
  PROVE  LET d == DropSelect(c, sel)
         IN  /\ ChipInv(d, ack) /\ d.ack = c.ack /\ d.disturbed = c.disturbed
             /\ sel => d.phase = c.phase
<1> DEFINE d == [c EXCEPT !.phase = "Command", !.request = TRUE, !.reassert = FALSE]
<1>1. CASE c.sel /\ ~sel /\ c.selected
  <2>1. DropSelect(c, sel) = d
    BY <1>1 DEF DropSelect, SetPhase
  <2>2. Typed(d) /\ d.ack = c.ack /\ d.disturbed = c.disturbed
    BY DEF ChipInv, Typed, ChipType, Phases
  <2>3. Connected(d)
    BY <1>1 DEF ChipInv, Typed, ChipType, Connected
  <2>4. Undisturbed(d, ack)
    <3>1. c.disturbed \/ c.phase = "BusFree"
      BY <1>1 DEF SelLow
    <3> QED BY <3>1 DEF ChipInv, Typed, ChipType, Connected, Undisturbed, CollectingCdb,
       CollectingData, Answering, Requesting
  <2> QED BY <1>1, <2>1, <2>2, <2>3, <2>4 DEF ChipInv
<1>2. CASE ~(c.sel /\ ~sel /\ c.selected)
  BY <1>2 DEF DropSelect
<1> QED BY <1>1, <1>2

(* An ACK edge ends the connection or leaves the history of it alone.       *)
SameConnection(c, d) ==
  d.phase = "BusFree" \/ (c.phase # "BusFree" /\ d.disturbed = c.disturbed)

LEMMA AckRisesInv ==
  ASSUME NEW c, NEW k \in Commands, NEW adb \in BOOLEAN, ChipInv(c, FALSE)
  PROVE  ChipInv(AckRises(c, adb, k), TRUE) /\ SameConnection(c, AckRises(c, adb, k))
<1> DEFINE a == AcceptCommandByte(c, k)
           d == [c EXCEPT !.request = FALSE]
<1>0. ChipInv(c, TRUE) /\ c \in ChipType
  BY DEF ChipInv, Typed, Undisturbed, CollectingCdb, Requesting
<1>1. CASE c.phase = "BusFree" \/ (c.phase = "Command" /\ ~adb)
  BY <1>0, <1>1 DEF AckRises, SameConnection
<1>2. CASE c.phase = "Command" /\ adb
  <2>1. AckRises(c, adb, k) = a
    BY <1>2 DEF AckRises
  <2>2. a.disturbed = c.disturbed
    BY <1>0 DEF AcceptCommandByte, ChipType
  <2> QED BY <1>2, <2>1, <2>2, AcceptInv DEF SameConnection
<1>3. CASE c.phase \notin {"BusFree", "Command"}
  <2>1. AckRises(c, adb, k) = d
    BY <1>3 DEF AckRises
  <2>2. Typed(d) /\ d.disturbed = c.disturbed
    BY DEF ChipInv, Typed, ChipType
  <2>3. Connected(d)
    BY DEF ChipInv, Typed, ChipType, Connected
  <2>4. Undisturbed(d, TRUE)
    BY <1>3 DEF ChipInv, Typed, ChipType, Undisturbed, CollectingCdb, CollectingData,
       Answering, Requesting
  <2> QED BY <1>3, <2>1, <2>2, <2>3, <2>4 DEF ChipInv, SameConnection
<1> QED BY <1>1, <1>2, <1>3

LEMMA AckFallsInv ==
  ASSUME NEW c, ChipInv(c, TRUE)
  PROVE  ChipInv(AckFalls(c), FALSE) /\ SameConnection(c, AckFalls(c))
<1> DEFINE again == [c EXCEPT !.request = TRUE]
<1>0. c \in ChipType /\ c.phase \in Phases /\ c.cmdLen \in Nat
      /\ c.dataIdx \in Nat /\ c.dataLen \in Nat
  BY DEF ChipInv, Typed, ChipType
<1>a. /\ Typed(again) /\ Connected(again) /\ again.disturbed = c.disturbed
      /\ again.phase = c.phase
      /\ ~c.ready \/ c.phase # "Command" => Undisturbed(again, FALSE)
  <2>1. Typed(again) /\ again.disturbed = c.disturbed /\ again.phase = c.phase
    BY DEF ChipInv, Typed, ChipType
  <2>2. Connected(again)
    BY DEF ChipInv, Typed, ChipType, Connected
  <2>3. ASSUME ~c.ready \/ c.phase # "Command" PROVE Undisturbed(again, FALSE)
    BY <2>3 DEF ChipInv, Typed, ChipType, Undisturbed, CollectingCdb, CollectingData,
       Answering, Requesting
  <2> QED BY <2>1, <2>2, <2>3
<1>1. CASE c.phase = "Command"
  <2> DEFINE b == [c EXCEPT !.ready = FALSE]
  <2>1. AckFalls(c) = AckFallsInCommand(c)
    BY <1>1 DEF AckFalls
  <2>2. CASE c.cmdLen = 0
    <3>1. AckFalls(c) = c
      BY <2>1, <2>2 DEF AckFallsInCommand
    <3>2. Undisturbed(c, FALSE)
      BY <1>1, <2>2 DEF ChipInv, Undisturbed, CollectingCdb, Requesting
    <3> QED BY <1>1, <3>1, <3>2 DEF ChipInv, SameConnection
  <2>3. CASE c.cmdLen # 0 /\ c.ready
    <3>1. AckFalls(c) = ExecuteCommand(b)
      BY <2>1, <2>3 DEF AckFallsInCommand
    <3>2. Executable(b)
      <4>1. c.cmdLen > 0
        BY <1>0, <2>3
      <4> QED BY <1>1, <2>3, <4>1, ReadyExecutable
    <3>3. ExecuteCommand(b).disturbed = c.disturbed
      <4>1. b \in ChipType /\ b.disturbed = c.disturbed
        BY <1>0 DEF ChipType
      <4> HIDE DEF b
      <4>2. ExecuteCommand(b).disturbed = b.disturbed
        BY <4>1 DEF ExecuteCommand, SetPhase, TargetRuns, ChipType
      <4> QED BY <4>1, <4>2
    <3> QED BY <1>1, <3>1, <3>2, <3>3, ExecuteInv DEF SameConnection
  <2>4. CASE c.cmdLen # 0 /\ ~c.ready /\ c.cmdLen < ExpectedCommandLength(c.cmd)
    <3>1. AckFalls(c) = again
      BY <2>1, <2>4 DEF AckFallsInCommand
    <3> QED BY <1>1, <1>a, <2>4, <3>1 DEF ChipInv, SameConnection
  <2>5. CASE c.cmdLen # 0 /\ ~c.ready /\ ~(c.cmdLen < ExpectedCommandLength(c.cmd))
    <3>1. AckFalls(c) = c
      BY <2>1, <2>5 DEF AckFallsInCommand
    <3>2. c.disturbed
      <4>1. c.cmd \in Commands
        BY <1>0, <2>5 DEF ChipInv, Connected
      <4>2. ExpectedCommandLength(c.cmd) \in Nat
        BY <4>1, Lengths
      <4>3. SUFFICES ASSUME ~c.disturbed PROVE FALSE
        OBVIOUS
      <4>4. /\ c.cmdLen <= ExpectedCommandLength(c.cmd)
            /\ c.cmdLen # ExpectedCommandLength(c.cmd)
        <5>1. c.cmdLen > 0
          BY <1>0, <2>5
        <5> QED BY <1>1, <2>5, <4>3, <5>1 DEF ChipInv, Undisturbed, CollectingCdb
      <4> QED BY <1>0, <2>5, <4>2, <4>4
    <3> QED BY <1>1, <3>1, <3>2 DEF ChipInv, Undisturbed, SameConnection
  <2> QED BY <2>2, <2>3, <2>4, <2>5
<1>2. CASE c.phase = "DataIn"
  <2> DEFINE d == SetPhase(c, "Status")
  <2>1. CASE c.dataIdx >= c.dataLen
    <3>1. AckFalls(c) = d
      BY <1>2, <2>1 DEF AckFalls
    <3>2. Typed(d) /\ d.disturbed = c.disturbed
      BY DEF SetPhase, ChipInv, Typed, ChipType, Phases
    <3>3. Connected(d)
      BY <1>0, <1>2, <2>1 DEF SetPhase, ChipInv, Typed, ChipType, Connected
    <3>4. Undisturbed(d, FALSE)
      BY <1>2 DEF SetPhase, ChipInv, Typed, ChipType, Undisturbed, CollectingCdb,
         CollectingData, Answering, Requesting
    <3> QED BY <1>2, <3>1, <3>2, <3>3, <3>4 DEF ChipInv, SameConnection
  <2>2. CASE ~(c.dataIdx >= c.dataLen)
    <3>1. AckFalls(c) = again
      BY <1>2, <2>2 DEF AckFalls
    <3> QED BY <1>2, <1>a, <3>1 DEF ChipInv, SameConnection
  <2> QED BY <2>1, <2>2
<1>3. CASE c.phase = "DataOut"
  <2> DEFINE f == FinishDataPhaseIfDone(c)
             d == [f EXCEPT !.request = TRUE]
  <2>1. AckFalls(c) = IF f.phase = "DataOut" THEN d ELSE f
    BY <1>3 DEF AckFalls, AckFallsInDataOut
  <2>2. /\ ChipInv(f, TRUE)
        /\ f.phase \in {"DataOut", "Status"}
        /\ f.phase = "Status" => f.request
    BY <1>3, FinishInv
  <2>3. f.disturbed = c.disturbed
    BY <1>0 DEF FinishDataPhaseIfDone, CompleteDataOutCommand, SetPhase, TargetRuns, ChipType
  <2> HIDE DEF f
  <2>4. CASE f.phase = "DataOut"
    <3>1. Typed(d) /\ d.phase = "DataOut" /\ d.request /\ d.disturbed = f.disturbed
      BY <2>2, <2>4 DEF ChipInv, Typed, ChipType
    <3>2. Connected(d)
      BY <2>2 DEF ChipInv, Typed, ChipType, Connected
    <3>3. Undisturbed(d, FALSE)
      BY <2>2, <2>4 DEF ChipInv, Typed, ChipType, Undisturbed, CollectingCdb,
         CollectingData, Answering, Requesting
    <3> QED BY <1>3, <2>1, <2>3, <2>4, <3>1, <3>2, <3>3 DEF ChipInv, SameConnection
  <2>5. CASE f.phase = "Status"
    BY <1>3, <2>1, <2>2, <2>3, <2>5, AnyAck DEF SameConnection
  <2> QED BY <2>2, <2>4, <2>5
<1>4. CASE c.phase = "Status"
  <2> DEFINE d == SetPhase(c, "MessageIn")
  <2>1. AckFalls(c) = d
    BY <1>4 DEF AckFalls
  <2>2. Typed(d) /\ d.disturbed = c.disturbed
    BY DEF SetPhase, ChipInv, Typed, ChipType, Phases
  <2>3. Connected(d)
    BY <1>4 DEF SetPhase, ChipInv, Typed, ChipType, Connected
  <2>4. Undisturbed(d, FALSE)
    BY <1>4 DEF SetPhase, ChipInv, Typed, ChipType, Undisturbed, CollectingCdb,
       CollectingData, Answering, Requesting
  <2> QED BY <1>4, <2>1, <2>2, <2>3, <2>4 DEF ChipInv, SameConnection
<1>5. CASE c.phase = "MessageIn"
  <2>1. AckFalls(c) = Idle(c.ack, c.sel, c.dma)
    BY <1>5 DEF AckFalls, FreeBus
  <2>2. c.ack \in BOOLEAN /\ c.sel \in BOOLEAN /\ c.dma \in BOOLEAN
    BY <1>0 DEF ChipType
  <2>3. Idle(c.ack, c.sel, c.dma).phase = "BusFree"
    BY DEF Idle
  <2> QED BY <2>1, <2>2, <2>3, IdleInv DEF SameConnection
<1>6. CASE c.phase = "BusFree"
  <2>1. AckFalls(c) = c
    BY <1>6 DEF AckFalls
  <2>2. Undisturbed(c, FALSE)
    BY <1>6 DEF ChipInv, Undisturbed, CollectingCdb, Requesting
  <2> QED BY <1>6, <2>1, <2>2 DEF ChipInv, SameConnection
<1> QED BY <1>0, <1>1, <1>2, <1>3, <1>4, <1>5, <1>6 DEF Phases

LEMMA WriteIcrInv ==
  ASSUME NEW c, NEW sel \in BOOLEAN, NEW ack \in BOOLEAN, NEW adb \in BOOLEAN,
         NEW hit \in Ids \union {NoTarget}, NEW k \in Commands,
         ChipInv(c, c.ack), SelLow(c)
  PROVE  LET v == WriteIcr(c, sel, ack, adb, hit, k)
         IN  ChipInv(v, v.ack) /\ SelLow(v)
<1> DEFINE s == Select(c, sel, hit)
           t == DropSelect(s, sel)
           u == AckEdge(t, ack, adb, k)
           v == [u EXCEPT !.ack = ack, !.sel = sel]
<1>1. WriteIcr(c, sel, ack, adb, hit, k) = v
  BY DEF WriteIcr
<1>2. c.ack \in BOOLEAN
  BY DEF ChipInv, Typed, ChipType
<1>3. /\ ChipInv(s, c.ack) /\ SelLow(s) /\ s.ack = c.ack
      /\ sel /\ s.phase # "BusFree" => s.disturbed
  BY <1>2, SelectInv
<1> HIDE DEF s
<1>4. /\ ChipInv(t, c.ack) /\ t.ack = c.ack
      /\ sel /\ t.phase # "BusFree" => t.disturbed
  BY <1>2, <1>3, DropSelectInv
<1> HIDE DEF t
<1>5. ChipInv(u, ack) /\ (u = t \/ SameConnection(t, u))
  <2>1. CASE ack = t.ack
    BY <1>4, <2>1 DEF AckEdge
  <2>2. CASE ack # t.ack /\ ack
    <3>1. t.ack = FALSE
      BY <1>2, <1>4, <2>2
    <3> QED BY <1>4, <2>2, <3>1, AckRisesInv DEF AckEdge
  <2>3. CASE ack # t.ack /\ ~ack
    <3>1. t.ack = TRUE
      BY <1>2, <1>4, <2>3
    <3> QED BY <1>4, <2>3, <3>1, AckFallsInv DEF AckEdge
  <2> QED BY <2>1, <2>2, <2>3
<1>6. sel /\ u.phase # "BusFree" => u.disturbed
  BY <1>4, <1>5 DEF SameConnection
<1> HIDE DEF u
<1>7. /\ Typed(v) /\ v.ack = ack /\ v.sel = sel
      /\ v.phase = u.phase /\ v.disturbed = u.disturbed
  BY ZenonT(60), <1>5 DEF ChipInv, Typed, ChipType
<1>8. Connected(v)
  BY <1>5 DEF ChipInv, Typed, ChipType, Connected
<1>9. Undisturbed(v, ack)
  BY <1>5 DEF ChipInv, Typed, ChipType, Undisturbed, CollectingCdb, CollectingData,
     Answering, Requesting
<1> HIDE DEF v
<1> QED BY <1>1, <1>6, <1>7, <1>8, <1>9 DEF ChipInv, SelLow

(* Which register bits an access other than an ICR write can change, and    *)
(* what it can do to the connection.                                        *)
KeepsIcr(c, d) ==
  /\ d.ack = c.ack /\ d.sel = c.sel /\ d.disturbed = c.disturbed
  /\ c.phase = "BusFree" => d.phase = "BusFree"

LEMMA KeepsInv ==
  ASSUME NEW c, NEW d, ChipInv(d, c.ack), SelLow(c), KeepsIcr(c, d)
  PROVE  ChipInv(d, d.ack) /\ SelLow(d)
BY DEF KeepsIcr, SelLow

LEMMA PollKeeps ==
  ASSUME NEW c \in ChipType
  PROVE  KeepsIcr(c, PollStatus(c))
BY DEF KeepsIcr, PollStatus, ChipType

LEMMA DackReadKeeps ==
  ASSUME NEW c \in ChipType
  PROVE  KeepsIcr(c, DackRead(c)) /\ KeepsIcr(c, ReadDataByte(c))
BY DEF KeepsIcr, DackRead, ReadDataByte, SetPhase, ChipType

LEMMA DackWriteKeeps ==
  ASSUME NEW c \in ChipType, NEW k
  PROVE  KeepsIcr(c, DackWrite(c, k))
<1>1. CASE ~c.request \/ c.phase \notin {"Command", "DataOut"}
  BY <1>1 DEF KeepsIcr, DackWrite, ChipType
<1>2. CASE c.request /\ c.phase = "Command"
  BY <1>2 DEF KeepsIcr, DackWrite, AcceptCommandByte, ExecuteCommand, SetPhase, TargetRuns, ChipType
<1>3. CASE c.request /\ c.phase = "DataOut"
  BY <1>3 DEF KeepsIcr, DackWrite, FinishDataPhaseIfDone, CompleteDataOutCommand, SetPhase,
     TargetRuns, ChipType
<1> QED BY <1>1, <1>2, <1>3

LEMMA WriteModeKeeps ==
  ASSUME NEW c \in ChipType, NEW dma, ChipInv(c, c.ack)
  PROVE  KeepsIcr(c, WriteMode(c, dma))
BY DEF KeepsIcr, WriteMode, CompleteDataOutCommand, SetPhase, TargetRuns, ChipType, ChipInv,
   Connected

LEMMA KeepsTransitive ==
  ASSUME NEW c, NEW d, NEW e, KeepsIcr(c, d), KeepsIcr(d, e)
  PROVE  KeepsIcr(c, e)
BY DEF KeepsIcr

-----------------------------------------------------------------------------
(* One access of the aperture keeps the invariant, byte by byte.            *)
Good(c) == ChipInv(c, c.ack) /\ SelLow(c)

LEMMA BusReadGood ==
  ASSUME NEW c, Good(c)
  PROVE  Good(BusReadByte(c))
<1> DEFINE d == PollStatus(c)
           e == DackRead(d)
<1>1. c \in ChipType /\ c.ack \in BOOLEAN
  BY DEF Good, ChipInv, Typed, ChipType
<1>2. Good(d)
  BY <1>1, PollInv, PollKeeps, KeepsInv DEF Good
<1>3. d \in ChipType /\ d.ack \in BOOLEAN
  BY <1>2 DEF Good, ChipInv, Typed, ChipType
<1> HIDE DEF d
<1>4. Good(e)
  BY <1>2, <1>3, DackReadInv, DackReadKeeps, KeepsInv DEF Good
<1> QED BY <1>4 DEF BusReadByte, d

LEMMA BusWriteGood ==
  ASSUME NEW c, NEW k \in Commands, Good(c)
  PROVE  Good(BusWriteByte(c, k))
<1> DEFINE d == PollStatus(c)
           e == DackWrite(d, k)
<1>1. c \in ChipType /\ c.ack \in BOOLEAN
  BY DEF Good, ChipInv, Typed, ChipType
<1>2. Good(d)
  BY <1>1, PollInv, PollKeeps, KeepsInv DEF Good
<1>3. d \in ChipType /\ d.ack \in BOOLEAN
  BY <1>2 DEF Good, ChipInv, Typed, ChipType
<1> HIDE DEF d
<1>4. Good(e)
  BY <1>2, <1>3, DackWriteInv, DackWriteKeeps, KeepsInv DEF Good
<1> QED BY <1>4 DEF BusWriteByte, d

(* The inductive invariant holds initially ...                              *)
LEMMA InitInv == Init => IInv
<1>1. ChipInv(ResetChip, FALSE) /\ ResetChip.ack = FALSE /\ ResetChip.phase = "BusFree"
  BY IdleInv DEF ResetChip, Idle
<1> QED BY <1>1 DEF Init, IInv, SelLow

(* ... and every access of the guest and every change of the targets keeps  *)
(* it.                                                                      *)
LEMMA NextInv == IInv /\ [Next]_vars => IInv'
<1> SUFFICES ASSUME IInv, [Next]_vars
             PROVE  IInv'
  OBVIOUS
<1>1. Good(chip) /\ chip \in ChipType /\ chip.ack \in BOOLEAN
  BY DEF IInv, Good, ChipInv, Typed, ChipType
<1>2. ASSUME NEW c, Good(c), Access(c)
      PROVE  IInv'
  BY <1>2 DEF Access, IInv, Good
<1>3. Sendable \subseteq Commands
  BY <1>1 DEF Sendable, IInv, ChipInv, Connected, ChipType
<1>4. CASE Handshake
  <2>1. PICK ack \in BOOLEAN, adb \in BOOLEAN, k \in Sendable :
          Access(WriteIcr(chip, FALSE, ack, adb, NoTarget, k))
    BY <1>4 DEF Handshake
  <2>2. Good(WriteIcr(chip, FALSE, ack, adb, NoTarget, k))
    BY <1>1, <1>3, WriteIcrInv DEF Good
  <2> QED BY <1>2, <2>1, <2>2
<1>5. CASE AssertSelect
  <2>1. PICK ack \in BOOLEAN, adb \in BOOLEAN, ids \in SUBSET Ids, k \in Sendable :
          \E hit \in Hit(ids) : Access(WriteIcr(chip, TRUE, ack, adb, hit, k))
    BY <1>5 DEF AssertSelect
  <2>2. PICK hit \in Hit(ids) : Access(WriteIcr(chip, TRUE, ack, adb, hit, k))
    BY <2>1
  <2>3. hit \in Ids \union {NoTarget}
    BY DEF Hit
  <2>4. Good(WriteIcr(chip, TRUE, ack, adb, hit, k))
    BY <1>1, <1>3, <2>3, WriteIcrInv DEF Good
  <2> QED BY <1>2, <2>2, <2>4
<1>6. CASE Reset
  <2>1. Good(ResetChip)
    <3>1. ResetChip.ack = FALSE /\ ResetChip.phase = "BusFree"
      BY DEF ResetChip, Idle
    <3> QED BY <3>1, IdleInv DEF Good, SelLow, ResetChip
  <2> QED BY <1>2, <1>6, <2>1 DEF Reset
<1>7. CASE ReadCurrentData
  <2>1. Good(ReadDataByte(chip))
    BY <1>1, ReadDataByteInv, DackReadKeeps, KeepsInv DEF Good
  <2> QED BY <1>2, <1>7, <2>1 DEF ReadCurrentData
<1>8. CASE Poll
  <2>1. Good(PollStatus(chip))
    BY <1>1, PollInv, PollKeeps, KeepsInv DEF Good
  <2> QED BY <1>2, <1>8, <2>1 DEF Poll
<1>9. CASE ReadAperture
  <2>1. PICK n \in 1 .. Burst : Access(ReadPseudoDma(chip, n))
    BY <1>9 DEF ReadAperture
  <2>2. Good(ReadPseudoDma(chip, n))
    BY <1>1, BusReadGood DEF ReadPseudoDma
  <2> QED BY <1>2, <2>1, <2>2
<1>10. CASE WriteAperture
  <2>1. PICK n \in 1 .. Burst, k \in Sendable : Access(WritePseudoDma(chip, n, k))
    BY <1>10 DEF WriteAperture
  <2>2. Good(WritePseudoDma(chip, n, k))
    BY <1>1, <1>3, BusWriteGood DEF WritePseudoDma
  <2> QED BY <1>2, <2>1, <2>2
<1>11. CASE SetMode
  <2>1. PICK dma \in BOOLEAN : Access(WriteMode(chip, dma))
    BY <1>11 DEF SetMode
  <2>2. Good(WriteMode(chip, dma))
    BY <1>1, WriteModeInv, WriteModeKeeps, KeepsInv DEF Good
  <2> QED BY <1>2, <2>1, <2>2
<1>12. CASE AttachTarget \/ DetachTarget
  BY <1>12 DEF AttachTarget, DetachTarget, IInv
<1>13. CASE UNCHANGED vars
  BY <1>13 DEF vars, IInv
<1> QED
  BY <1>4, <1>5, <1>6, <1>7, <1>8, <1>9, <1>10, <1>11, <1>12, <1>13 DEF Next

(* Whatever the guest does, the chip is in a state ChipInv describes.       *)
THEOREM Invariance == Spec => []IInv
BY InitInv, NextInv, PTL DEF Spec

(* The members keep their ranges, for any commands and any targets.         *)
THEOREM TypeCorrect == Spec => []TypeOK
<1>1. IInv => TypeOK
  BY DEF IInv, ChipInv, Typed, TypeOK
<1> QED BY Invariance, <1>1, PTL

(* The target never stops asking: no lost REQ, for any commands.            *)
THEOREM RequestKept == Spec => []ReqNeverLost
<1>1. IInv => ReqNeverLost
  BY DEF IInv, ChipInv, Undisturbed, Requesting, ReqNeverLost
<1> QED BY Invariance, <1>1, PTL

(* One connection runs one command, once, and only a whole one.             *)
THEOREM RunsOnce == Spec => []OneWholeCommand
<1>1. IInv => OneWholeCommand
  <2> SUFFICES ASSUME IInv PROVE OneWholeCommand
    OBVIOUS
  <2>1. chip.phase \in Phases
    BY DEF IInv, ChipInv, Typed, ChipType
  <2> QED
    BY <2>1 DEF IInv, ChipInv, Connected, Undisturbed, CollectingCdb, CollectingData,
       Answering, OneWholeCommand, ExecutedOnce, WholeCommand, Phases
<1> QED BY Invariance, <1>1, PTL

(* Status is on offer only when the reply has been fetched.                 *)
THEOREM Drained == Spec => []ReplyDrained
<1>1. IInv => ReplyDrained
  BY DEF IInv, ChipInv, Connected, ReplyDrained
<1> QED BY Invariance, <1>1, PTL

(* A byte access with REQ up, or about to be, moves the next byte; the last *)
(* byte ends the phase and later strobes of the access move nothing.        *)
LEMMA BusReadMoves ==
  ASSUME NEW c \in ChipType, c.phase = "DataIn", c.request \/ c.reassert
  PROVE  LET r == BusReadByte(c)
         IN  /\ r \in ChipType /\ r.dataLen = c.dataLen
             /\ r.dataIdx = IF c.dataIdx < c.dataLen THEN c.dataIdx + 1 ELSE c.dataIdx
             /\ \/ r.phase = "DataIn" /\ r.reassert
                \/ r.phase = "Status" /\ r.dataIdx >= r.dataLen
<1> DEFINE d == PollStatus(c)
<1>1. /\ d \in ChipType /\ d.phase = "DataIn" /\ d.request
      /\ d.dataIdx = c.dataIdx /\ d.dataLen = c.dataLen
  BY ZenonT(60) DEF PollStatus, ChipType
<1> HIDE DEF d
<1>2. LET r == DackRead(d)
      IN  /\ r \in ChipType /\ r.dataLen = d.dataLen
          /\ r.dataIdx = IF d.dataIdx < d.dataLen THEN d.dataIdx + 1 ELSE d.dataIdx
          /\ \/ r.phase = "DataIn" /\ r.reassert
             \/ r.phase = "Status" /\ r.dataIdx >= r.dataLen
  <2> DEFINE b == ReadDataByte(d)
             r == DackRead(d)
  <2>1. /\ b \in ChipType /\ b.phase = "DataIn" /\ b.dataLen = d.dataLen
        /\ b.dataIdx = IF d.dataIdx < d.dataLen THEN d.dataIdx + 1 ELSE d.dataIdx
    BY <1>1 DEF ReadDataByte, ChipType
  <2>2. r = IF b.dataIdx >= b.dataLen THEN SetPhase(b, "Status")
            ELSE [b EXCEPT !.request = FALSE, !.reassert = TRUE]
    BY <1>1, <2>1 DEF DackRead
  <2> HIDE DEF b, r
  <2>3. r \in ChipType /\ r.dataLen = b.dataLen /\ r.dataIdx = b.dataIdx
    <3>1. SetPhase(b, "Status") \in ChipType
      BY <2>1, PhaseType DEF Phases
    <3>2. [b EXCEPT !.request = FALSE, !.reassert = TRUE] \in ChipType
      BY ZenonT(60), <2>1 DEF ChipType
    <3>3. r.dataLen = b.dataLen /\ r.dataIdx = b.dataIdx
      BY <2>1, <2>2 DEF SetPhase, ChipType
    <3> QED BY <2>2, <3>1, <3>2, <3>3
  <2>4. \/ r.phase = "DataIn" /\ r.reassert
        \/ r.phase = "Status" /\ r.dataIdx >= r.dataLen
    BY <2>1, <2>2 DEF SetPhase, ChipType
  <2> QED BY <2>1, <2>3, <2>4 DEF r
<1> QED BY <1>1, <1>2 DEF BusReadByte, d

(* Blind accesses lose no byte, on either machine's wiring.                 *)
THEOREM BlindReads == Spec => []BlindRead
<1>1. IInv => BlindRead
  <2> SUFFICES ASSUME IInv, NEW n \in 1 .. Burst, chip.phase = "DataIn", ~chip.ack,
                      ~chip.disturbed
               PROVE  ReadPseudoDma(chip, n).dataIdx =
                        chip.dataIdx + (IF n < chip.dataLen - chip.dataIdx
                                        THEN n ELSE chip.dataLen - chip.dataIdx)
    BY DEF BlindRead
  <2>1. /\ chip \in ChipType
        /\ chip.request \/ chip.reassert
        /\ chip.dataIdx <= chip.dataLen /\ chip.dataIdx \in Nat /\ chip.dataLen \in Nat
    BY DEF IInv, ChipInv, Typed, ChipType, Undisturbed, Requesting
  <2> DEFINE r == BusReadByte(chip)
             q == BusReadByte(r)
  <2>2. /\ r \in ChipType /\ r.dataLen = chip.dataLen
        /\ r.dataIdx = IF chip.dataIdx < chip.dataLen THEN chip.dataIdx + 1 ELSE chip.dataIdx
        /\ \/ r.phase = "DataIn" /\ r.reassert
           \/ r.phase = "Status" /\ r.dataIdx >= r.dataLen
    BY <2>1, BusReadMoves
  <2> HIDE DEF r
  <2>3. q.dataIdx = IF r.dataIdx < r.dataLen THEN r.dataIdx + 1 ELSE r.dataIdx
    <3>1. CASE r.phase = "DataIn"
      BY <2>2, <3>1, BusReadMoves
    <3>2. CASE r.phase = "Status"
      <4>1. q.dataIdx = r.dataIdx
        BY <2>2, <3>2 DEF BusReadByte, PollStatus, DackRead, ReadDataByte, ChipType
      <4>2. r.dataIdx >= r.dataLen /\ r.dataIdx \in Nat /\ r.dataLen \in Nat
        BY <2>2, <3>2 DEF ChipType
      <4> HIDE DEF q
      <4> QED BY <4>1, <4>2
    <3> QED BY <2>2, <3>1, <3>2
  <2>4. ReadPseudoDma(chip, n) = IF n = 2 THEN q ELSE r
    BY DEF ReadPseudoDma, r
  <2> HIDE DEF q
  <2>5. n = 1 \/ n = 2
    BY ConstantAssumption
  <2>6. CASE n = 1
    <3>1. ReadPseudoDma(chip, n) = r
      BY <2>4, <2>6
    <3> QED BY <2>1, <2>2, <2>6, <3>1
  <2>7. CASE n = 2
    <3>1. ReadPseudoDma(chip, n) = q
      BY <2>4, <2>7
    <3> QED BY <2>1, <2>2, <2>3, <2>7, <3>1
  <2> QED BY <2>5, <2>6, <2>7
<1> QED BY Invariance, <1>1, PTL
=============================================================================

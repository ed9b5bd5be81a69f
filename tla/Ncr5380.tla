------------------------------ MODULE Ncr5380 ------------------------------
(***************************************************************************)
(* The NCR5380 SCSI controller of the Mac Plus and the Macintosh IIcx with *)
(* the Macintosh bus glue in front of it (devices/scsi/ncr5380).           *)
(*                                                                         *)
(* The chip has no thread: every change of its state happens inside a      *)
(* register access of the guest, so the guest is the environment and may   *)
(* make any access at any time.  Ncr5380's members are one record, chip,   *)
(* and each C++ method is an operator from such a record to the next one;  *)
(* an action is one CPU access and applies the whole handler.              *)
(*                                                                         *)
(* Abstractions.  A CDB is a record of what executeCommand reads from it.  *)
(* The bytes the guest will send are fixed when it sends the first CDB     *)
(* byte.  Buffers are their lengths; lengths past the end of what the      *)
(* target asked for are one value.  m_outputData is whatever the guest     *)
(* wrote last, so any set of ids may be on the bus when SEL is asserted.   *)
(* Status, message and sense bytes, the trace of the last 128 commands,    *)
(* the target command register (only compared for the phase-match bit) and *)
(* byte lanes are left out.  WRITE block sizes are parameters.             *)
(***************************************************************************)
EXTENDS Naturals, FiniteSets

CONSTANTS Ids,          \* SCSI ids 0 .. 6 a target may have
          Commands,     \* the commands the guest may send
          BlockBytes,   \* 512 in the code
          SixByteBlocks,\* blocks of a WRITE(6) whose count byte is 0: 256 in the code
          Burst,        \* DACK strobes of the widest access: 1 on the Plus, 2 on the IIcx
          NoTarget, NoCommand

SixByte == {"write6", "modeSelect6", "format", "plain6"}
TenByte == {"write10", "modeSelect10", "plain10"}
TwelveByte == {"plain12"}

\* count: blocks, parameter bytes, or the FMTDATA bit; ip, defects and pattern:
\* the FORMAT UNIT header; reply: bytes the target answers.
CommandType == [op : SixByte \union TenByte \union TwelveByte, count : Nat,
                ip : BOOLEAN, defects : Nat, pattern : Nat, reply : Nat]

ASSUME ConstantAssumption ==
  /\ Ids \subseteq Nat
  /\ Commands \subseteq CommandType
  /\ Commands # {}
  /\ BlockBytes \in Nat \ {0}
  /\ SixByteBlocks \in Nat \ {0}
  /\ Burst \in 1 .. 2
  /\ NoTarget \notin Ids
  /\ NoCommand \notin Commands

VARIABLES chip,     \* the members of Ncr5380
          targets   \* m_targets: ids with a selectable target
vars == <<chip, targets>>

Phases == {"BusFree", "Command", "DataIn", "DataOut", "Status", "MessageIn"}

(* sel, dma: ICR and mode register bits.  executed, whole and disturbed are *)
(* history of the current connection: commands the target ran, whether each *)
(* had its whole CDB and data, and whether SEL was raised on a busy bus.    *)
ChipType == [phase : Phases, selected : BOOLEAN, active : Ids \union {NoTarget},
             request : BOOLEAN, reassert : BOOLEAN, pending : BOOLEAN,
             ready : BOOLEAN, ack : BOOLEAN, sel : BOOLEAN, dma : BOOLEAN,
             cmd : Commands \union {NoCommand}, cmdLen : Nat,
             dataLen : Nat, dataIdx : Nat, dataOut : Nat, expected : Nat,
             executed : 0 .. 2, whole : BOOLEAN, disturbed : BOOLEAN]

-----------------------------------------------------------------------------
(* What a command asks for.                                                 *)

ExpectedCommandLength(k) ==
  IF k.op \in SixByte THEN 6 ELSE IF k.op \in TenByte THEN 10 ELSE 12

\* Bytes executeCommand asks for at first; 0: the command has no DATA OUT phase.
ExpectedDataOut(k) ==
  CASE k.op = "write6"  -> BlockBytes * (IF k.count = 0 THEN SixByteBlocks ELSE k.count)
    [] k.op = "write10" -> BlockBytes * k.count
    [] k.op \in {"modeSelect6", "modeSelect10"} -> k.count
    [] k.op = "format"  -> IF k.count = 0 THEN 0 ELSE 4
    [] OTHER -> 0

\* The length finishDataPhaseIfDone works out once the n bytes it has hold a header.
DataOutLength(k, n) ==
  IF k.op # "format" \/ k.count = 0 THEN ExpectedDataOut(k)
  ELSE IF ~k.ip THEN 4 + k.defects
  ELSE IF n < 8 THEN 8 ELSE 8 + k.defects + k.pattern

\* All the bytes a command's DATA OUT phase has.
WholeDataOut(k) == DataOutLength(k, 8)

-----------------------------------------------------------------------------
(* Phases.                                                                  *)

SetPhase(c, p) == [c EXCEPT !.phase = p, !.request = TRUE, !.reassert = FALSE]

\* No connection; the registers hold what is given.
Idle(ack, sel, dma) ==
  [phase |-> "BusFree", selected |-> FALSE, active |-> NoTarget,
   request |-> FALSE, reassert |-> FALSE, pending |-> FALSE, ready |-> FALSE,
   ack |-> ack, sel |-> sel, dma |-> dma, cmd |-> NoCommand, cmdLen |-> 0,
   dataLen |-> 0, dataIdx |-> 0, dataOut |-> 0, expected |-> 0,
   executed |-> 0, whole |-> TRUE, disturbed |-> FALSE]

\* setPhase(BusFree, false)
FreeBus(c) == Idle(c.ack, c.sel, c.dma)

ResetChip == Idle(FALSE, FALSE, FALSE)

\* A length that has run past its end stays there.
Append1(n, end) == IF n > end THEN n ELSE n + 1

AcceptCommandByte(c, k) ==
  LET cmd == IF c.cmdLen = 0 THEN k ELSE c.cmd
      len == Append1(c.cmdLen, ExpectedCommandLength(cmd))
  IN  [c EXCEPT !.cmd = cmd, !.cmdLen = len, !.request = FALSE,
                !.ready = @ \/ len >= ExpectedCommandLength(cmd)]

\* The target runs the command: the call of ScsiTarget::executeCommand.
TargetRuns(c, n) ==
  [c EXCEPT !.executed = IF @ = 2 THEN 2 ELSE @ + 1,
            !.whole = @ /\ c.cmdLen = ExpectedCommandLength(c.cmd) /\ n >= WholeDataOut(c.cmd)]

ExecuteCommand(c) ==
  IF c.active = NoTarget THEN SetPhase(c, "Status")
  ELSE IF ExpectedDataOut(c.cmd) # 0
  THEN [SetPhase(c, "DataOut") EXCEPT !.dataOut = 0, !.dataLen = 0, !.dataIdx = 0,
                                      !.expected = ExpectedDataOut(c.cmd)]
  ELSE [SetPhase(TargetRuns(c, 0), IF c.cmd.reply = 0 THEN "Status" ELSE "DataIn")
          EXCEPT !.dataOut = 0, !.dataLen = c.cmd.reply, !.dataIdx = 0]

CompleteDataOutCommand(c) == SetPhase(TargetRuns(c, c.dataOut), "Status")

\* Defect: FORMAT UNIT completes after its header.
FinishAfterHeader(c) ==
  IF c.dataOut < c.expected THEN c
  ELSE IF c.dma THEN [c EXCEPT !.pending = TRUE, !.request = TRUE]
  ELSE CompleteDataOutCommand(c)

\* Both callers are in the DATA OUT phase: its DATA IN branch never runs.
FinishDataPhaseIfDone(c) ==
  LET length == DataOutLength(c.cmd, c.dataOut)
  IN  IF c.dataOut < c.expected THEN c
      ELSE IF c.cmd.op = "format" /\ c.dataOut < length
      THEN [c EXCEPT !.expected = length]
      ELSE IF c.dma THEN [c EXCEPT !.pending = TRUE, !.request = TRUE]
      ELSE CompleteDataOutCommand(c)

ReadDataByte(c) ==
  IF c.phase = "DataIn" /\ c.dataIdx < c.dataLen THEN [c EXCEPT !.dataIdx = @ + 1] ELSE c

-----------------------------------------------------------------------------
(* Register accesses.                                                       *)

\* Status registers 4 and 5 raise REQ again for the next pseudo-DMA byte.
PollStatus(c) == IF c.reassert THEN [c EXCEPT !.request = TRUE, !.reassert = FALSE] ELSE c

\* Defect: the last byte of the reply is taken for fetched when it is next.
DackReadOneShort(c) ==
  LET d == ReadDataByte(c)
  IN  IF ~c.request THEN c
      ELSE IF d.phase # "DataIn" THEN d
      ELSE IF d.dataIdx + 1 >= d.dataLen THEN SetPhase(d, "Status")
      ELSE [d EXCEPT !.request = FALSE, !.reassert = TRUE]

DackRead(c) ==
  LET d == ReadDataByte(c)
  IN  IF ~c.request THEN c
      ELSE IF d.phase # "DataIn" THEN d
      ELSE IF d.dataIdx >= d.dataLen THEN SetPhase(d, "Status")
      ELSE [d EXCEPT !.request = FALSE, !.reassert = TRUE]

DackWrite(c, k) ==
  LET accepted == AcceptCommandByte(c, k)
      stored == FinishDataPhaseIfDone(
                  [c EXCEPT !.dataOut = Append1(@, WholeDataOut(c.cmd)), !.request = FALSE])
  IN  CASE ~c.request -> c
        [] c.request /\ c.phase = "Command" ->
             IF accepted.ready THEN ExecuteCommand([accepted EXCEPT !.ready = FALSE])
             ELSE [accepted EXCEPT !.request = TRUE]
        [] c.request /\ c.phase = "DataOut" ->
             IF stored.phase = "DataOut" /\ ~stored.pending
             THEN [stored EXCEPT !.reassert = TRUE] ELSE stored
        [] OTHER -> c

\* The target SEL finds: the lowest id on the bus that has one.
Hit(ids) ==
  LET there == ids \intersect targets
  IN  IF there = {} THEN {NoTarget} ELSE {id \in there : \A other \in there : id <= other}

Select(c, sel, hit) ==
  LET d == [c EXCEPT !.disturbed = @ \/ (sel /\ c.phase # "BusFree")]
  IN  IF sel /\ ~c.selected /\ hit # NoTarget
      THEN [d EXCEPT !.selected = TRUE, !.active = hit] ELSE d

\* The end of selection: SEL falls.
DropSelect(c, sel) == IF c.sel /\ ~sel /\ c.selected THEN SetPhase(c, "Command") ELSE c

AckRises(c, adb, k) ==
  CASE c.phase = "Command" -> IF adb THEN AcceptCommandByte(c, k) ELSE c
    [] c.phase = "BusFree" -> c
    [] OTHER -> [c EXCEPT !.request = FALSE]

\* Defect: REQ is not raised for the next CDB byte.
AckFallsWithoutReq(c) ==
  IF c.cmdLen # 0 /\ c.ready THEN ExecuteCommand([c EXCEPT !.ready = FALSE]) ELSE c

AckFallsInCommand(c) ==
  IF c.cmdLen = 0 THEN c
  ELSE IF c.ready THEN ExecuteCommand([c EXCEPT !.ready = FALSE])
  ELSE IF c.cmdLen < ExpectedCommandLength(c.cmd) THEN [c EXCEPT !.request = TRUE]
  ELSE c

AckFallsInDataOut(c) ==
  LET d == FinishDataPhaseIfDone(c)
  IN  IF d.phase = "DataOut" THEN [d EXCEPT !.request = TRUE] ELSE d

AckFalls(c) ==
  CASE c.phase = "Command"   -> AckFallsInCommand(c)
    [] c.phase = "DataIn"    -> IF c.dataIdx >= c.dataLen THEN SetPhase(c, "Status")
                                ELSE [c EXCEPT !.request = TRUE]
    [] c.phase = "DataOut"   -> AckFallsInDataOut(c)
    [] c.phase = "Status"    -> SetPhase(c, "MessageIn")
    [] c.phase = "MessageIn" -> FreeBus(c)
    [] c.phase = "BusFree"   -> c

AckEdge(c, ack, adb, k) ==
  IF ack = c.ack THEN c ELSE IF ack THEN AckRises(c, adb, k) ELSE AckFalls(c)

\* A write of the initiator command register without RST.
WriteIcr(c, sel, ack, adb, hit, k) ==
  [AckEdge(DropSelect(Select(c, sel, hit), sel), ack, adb, k)
     EXCEPT !.ack = ack, !.sel = sel]

\* Defect: the pending completion is not forgotten when it fires.
WriteModeKeepsPending(c, dma) ==
  LET d == IF c.dma /\ ~dma /\ c.pending THEN CompleteDataOutCommand(c) ELSE c
  IN  [d EXCEPT !.dma = dma]

\* Defect: leaving DMA mode only changes the register.
WriteModeOnly(c, dma) == [c EXCEPT !.dma = dma]

\* Leaving DMA mode lets the last DATA OUT byte drain.
WriteMode(c, dma) ==
  LET d == IF c.dma /\ ~dma /\ c.pending
           THEN CompleteDataOutCommand([c EXCEPT !.pending = FALSE]) ELSE c
  IN  [d EXCEPT !.dma = dma]

\* Defect: the glue strobes DACK without waiting for DRQ.
BusReadByteUnchecked(c) == DackRead(c)

\* MacintoshNcr5380Bus: wait for DRQ, then strobe DACK, once per byte of the access.
BusReadByte(c) == DackRead(PollStatus(c))
BusWriteByte(c, k) == DackWrite(PollStatus(c), k)
ReadPseudoDma(c, n) == IF n = 2 THEN BusReadByte(BusReadByte(c)) ELSE BusReadByte(c)
WritePseudoDma(c, n, k) ==
  IF n = 2 THEN BusWriteByte(BusWriteByte(c, k), k) ELSE BusWriteByte(c, k)

-----------------------------------------------------------------------------
(* The guest's accesses and the host's changes of the targets.              *)

Init ==
  /\ chip = ResetChip
  /\ targets \in SUBSET Ids

\* Once a CDB has begun its bytes are those of that command.
Sendable == IF chip.cmdLen = 0 THEN Commands ELSE {chip.cmd}

Access(c) == chip' = c /\ UNCHANGED targets

\* SEL stays low; ACK and the data bus are driven at will.
Handshake ==
  \E ack, adb \in BOOLEAN, k \in Sendable : Access(WriteIcr(chip, FALSE, ack, adb, NoTarget, k))

\* SEL is high, with some set of ids on the data bus.
AssertSelect ==
  \E ack, adb \in BOOLEAN, ids \in SUBSET Ids, k \in Sendable :
    \E hit \in Hit(ids) : Access(WriteIcr(chip, TRUE, ack, adb, hit, k))

\* RST in the initiator command register, or the machine's reset.
Reset == Access(ResetChip)

ReadCurrentData == Access(ReadDataByte(chip))

Poll == Access(PollStatus(chip))

ReadAperture == \E n \in 1 .. Burst : Access(ReadPseudoDma(chip, n))

WriteAperture == \E n \in 1 .. Burst, k \in Sendable : Access(WritePseudoDma(chip, n, k))

SetMode == \E dma \in BOOLEAN : Access(WriteMode(chip, dma))

AttachTarget == \E id \in Ids : targets' = targets \union {id} /\ UNCHANGED chip

DetachTarget == \E id \in Ids : targets' = targets \ {id} /\ UNCHANGED chip

Next ==
  \/ Handshake \/ AssertSelect \/ Reset \/ ReadCurrentData \/ Poll
  \/ ReadAperture \/ WriteAperture \/ SetMode \/ AttachTarget \/ DetachTarget

Spec == Init /\ [][Next]_vars

(***************************************************************************)
(* A driver that finishes what it starts: the next access of a Macintosh   *)
(* SCSI driver that sends the CDB with ACK pulses, moves data through the  *)
(* pseudo-DMA aperture in DMA mode, leaves DMA mode after its last byte    *)
(* and acknowledges the status and message bytes.                          *)
(***************************************************************************)
DriverStep ==
  /\ chip.selected
  /\ \/ /\ chip.ack \/ chip.phase \in {"BusFree", "Command", "Status", "MessageIn"}
        /\ \E k \in Sendable :
             Access(WriteIcr(chip, FALSE, ~chip.ack /\ chip.phase # "BusFree", TRUE, NoTarget, k))
     \/ /\ ~chip.ack /\ chip.phase = "DataIn"
        /\ Access(ReadPseudoDma(chip, 1))
     \/ /\ ~chip.ack /\ chip.phase = "DataOut"
        /\ chip.dma /\ chip.dataOut < WholeDataOut(chip.cmd)
        /\ Access(WritePseudoDma(chip, 1, chip.cmd))
     \/ /\ ~chip.ack /\ chip.phase = "DataOut"
        /\ chip.dma <=> (chip.dataOut >= WholeDataOut(chip.cmd))
        /\ Access(WriteMode(chip, ~chip.dma))

\* The guest's driver keeps running.
DriverSpec == Spec /\ WF_vars(DriverStep)

\* A pulse of ACK in the initiator command register, SEL low.
PulseAck == \E k \in Sendable : Access(WriteIcr(chip, FALSE, ~chip.ack, TRUE, NoTarget, k))

\* The guest keeps pulsing ACK.
PulseSpec == Spec /\ WF_vars(PulseAck)

-----------------------------------------------------------------------------
(* Every member keeps its range: no length runs past the end of the buffer  *)
(* it counts (readDataByte's bound on m_dataIndex), and a connection has a   *)
(* target exactly while m_selected is set.                                  *)
TypeOK ==
  /\ chip \in ChipType
  /\ targets \subseteq Ids
  /\ chip.dataIdx <= chip.dataLen
  /\ chip.selected <=> chip.active # NoTarget

(* The target never stops asking: on a busy bus with ACK low, REQ is up or  *)
(* the next status read raises it.  The handshake code drops m_request in   *)
(* five places and must raise it again in each; if one is missed guest and  *)
(* target wait for each other for ever.                                     *)
ReqNeverLost ==
  chip.phase # "BusFree" /\ ~chip.ack /\ ~chip.disturbed => chip.request \/ chip.reassert

(* One connection runs one command: the target has run it exactly when data *)
(* or status is on offer, and never twice.  A DATA OUT command has three    *)
(* ways to complete (DACK, ACK edge, leaving DMA mode), which may not both  *)
(* fire.                                                                    *)
ExecutedOnce ==
  ~chip.disturbed =>
    chip.executed = (IF chip.phase \in {"DataIn", "Status", "MessageIn"} THEN 1 ELSE 0)

(* A command reaches its target with its whole CDB and all its DATA OUT     *)
(* bytes, however the guest mixes ACK pulses, DACK strobes and DMA mode;    *)
(* for FORMAT UNIT that is the length its own header declares.              *)
WholeCommand == chip.disturbed \/ chip.whole

(* A connection runs one command, once, and runs it whole: completeDataOut- *)
(* Command is called neither too often nor too early.                       *)
OneWholeCommand == ExecutedOnce /\ WholeCommand

(* The status byte is not on offer before the guest has fetched every byte  *)
(* of the reply.                                                            *)
ReplyDrained == chip.phase \in {"Status", "MessageIn"} => chip.dataIdx = chip.dataLen

(* A blind access moves as many bytes as it is wide, or all that are left,  *)
(* without a status read of the guest in between: the bus glue waits for    *)
(* DRQ before each byte.                                                    *)
BlindRead ==
  \A n \in 1 .. Burst :
    chip.phase = "DataIn" /\ ~chip.ack /\ ~chip.disturbed =>
      LET left == chip.dataLen - chip.dataIdx
      IN  ReadPseudoDma(chip, n).dataIdx = chip.dataIdx + (IF n < left THEN n ELSE left)

(* If the guest does nothing but drive its transfer to the end from some    *)
(* point on, the bus is freed: no phase keeps a correct driver waiting,     *)
(* whatever was done to the chip before.                                    *)
TransferCompletes ==
  <>[][DriverStep]_vars => []<>(~chip.selected \/ chip.disturbed)

(* The hardware notes: after the last byte of a pseudo-DMA send "drains     *)
(* through the ACK handshake" a driver is able to see the phase change      *)
(* "even before clearing DMA mode".                                         *)
LastByteDrains ==
  chip.phase = "DataOut" /\ chip.pending /\ ~chip.disturbed
    ~> chip.phase # "DataOut" \/ chip.disturbed
=============================================================================

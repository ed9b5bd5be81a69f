--------------------------- MODULE AdbTransceiver ---------------------------
(***************************************************************************)
(* The ADB transceiver between VIA1 and the two desktop bus devices: the   *)
(* byte transfers it clocks, its retries and delays, the keyboard's and    *)
(* the mouse's pending input and the polls it makes by itself.             *)
(*                                                                         *)
(* Each operator is a member function as a function of the object.  Every  *)
(* countdown is a flag, set while it runs: a tick that ends none changes   *)
(* nothing but the count, and how many ticks the guest takes between two   *)
(* accesses is open.  The bytes the host sends are bytes.  The bytes it    *)
(* receives say what they carry; key transitions and button edges are      *)
(* numbered in the order the host made them.  Motion counts packets of one *)
(* axis.  m_retryPending is set whenever m_retryCycles counts.  Left out   *)
(* are the trace and what only debugState reports.                         *)
(***************************************************************************)
EXTENDS Naturals, Sequences, FiniteSets

CONSTANTS Bytes,       \* the bytes the guest shifts out
          MaxEdges,    \* bound: key transitions and button edges
          MaxMotion    \* bound of the motion held, in packets (about 65 in the code)

ASSUME AdbAssumption ==
  /\ Bytes \subseteq 0 .. 255
  /\ MaxEdges \in Nat /\ MaxMotion \in Nat

\* The fields of a command byte.
Address(b)   == b \div 16
Operation(b) == (b \div 4) % 4
Register(b)  == b % 4
Flush  == 1
Listen == 2
Talk   == 3

\* A byte of a frame: one edge ("key", "button"), "motion", a register's
\* "handler", the "fill" 0xff, or a saved "command".
Byte(kind, n) == [kind |-> kind, n |-> n]
Fill == Byte("fill", 0)
ByteType == [kind : {"key", "button", "motion", "handler", "fill", "command"}, n : Nat]

NewTransceiver ==
  [state |-> 3, command |-> 0, response |-> <<>>,
   transfer |-> "none",                   \* m_transfer, while m_transferCycles counts
   retrying |-> FALSE, delaying |-> FALSE, deferring |-> FALSE,
   commandPending |-> FALSE, autoPollRequested |-> FALSE, transferStatus |-> FALSE,
   deferredTalkPending |-> FALSE, errorReportPending |-> FALSE,
   hostByte |-> 0, controllerByte |-> Fill, lastState |-> 3,
   listenAddress |-> 0, listenBytes |-> <<>>, keyboardAddress |-> 2, mouseAddress |-> 3,
   keyEvents |-> <<>>, buttonEvents |-> <<>>, motion |-> 0,
   keyboardPolled |-> FALSE, mousePolled |-> FALSE,
   irq |-> FALSE]                         \* what m_irq was last told: PB3 is low

TransceiverType ==
  [state : 0 .. 3, command : Bytes \cup {0}, response : Seq(ByteType),
   transfer : {"none", "host", "controller", "autopoll"},
   retrying : BOOLEAN, delaying : BOOLEAN, deferring : BOOLEAN,
   commandPending : BOOLEAN, autoPollRequested : BOOLEAN, transferStatus : BOOLEAN,
   deferredTalkPending : BOOLEAN, errorReportPending : BOOLEAN,
   hostByte : Bytes \cup {0}, controllerByte : ByteType, lastState : 0 .. 3,
   listenAddress : 0 .. 15, listenBytes : Seq(Bytes \cup {0}), keyboardAddress : 0 .. 15, mouseAddress : 0 .. 15,
   keyEvents : Seq(1 .. MaxEdges), buttonEvents : Seq(1 .. MaxEdges), motion : 0 .. MaxMotion,
   keyboardPolled : BOOLEAN, mousePolled : BOOLEAN, irq : BOOLEAN]

-----------------------------------------------------------------------------
(* The devices' answers.                                                    *)

DevicesReset(t) ==
  [t EXCEPT !.listenAddress = 0, !.listenBytes = <<>>, !.keyboardAddress = 2, !.mouseAddress = 3,
            !.keyboardPolled = FALSE, !.mousePolled = FALSE]

DevicesFlush(t) ==
  LET a == Address(t.command) IN
  [t EXCEPT !.keyEvents = IF a = t.keyboardAddress THEN <<>> ELSE @,
            !.buttonEvents = IF a = t.mouseAddress THEN <<>> ELSE @,
            !.motion = IF a = t.mouseAddress THEN 0 ELSE @]

\* Defect: the two transitions of a frame are swapped.
TalkKeyboardSwapped(t) ==
  LET n == IF Len(t.keyEvents) < 2 THEN Len(t.keyEvents) ELSE 2
      Transition(i) == IF i <= n THEN Byte("key", t.keyEvents[i]) ELSE Fill
  IN  IF n = 0 /\ t.keyboardPolled THEN t
      ELSE [t EXCEPT !.response = << Transition(2), Transition(1) >>, !.keyboardPolled = TRUE,
                     !.keyEvents = SubSeq(@, n + 1, Len(@))]

\* Register 0 of the keyboard: two transitions, or 0xff for the missing one.
TalkKeyboard(t) ==
  LET n == IF Len(t.keyEvents) < 2 THEN Len(t.keyEvents) ELSE 2
      Transition(i) == IF i <= n THEN Byte("key", t.keyEvents[i]) ELSE Fill
  IN  IF n = 0 /\ t.keyboardPolled THEN t
      ELSE [t EXCEPT !.response = << Transition(1), Transition(2) >>, !.keyboardPolled = TRUE,
                     !.keyEvents = SubSeq(@, n + 1, Len(@))]

\* Register 0 of the mouse: one button edge, 0 for none, and one packet of motion.
TalkMouse(t) ==
  IF t.motion = 0 /\ t.buttonEvents = <<>> /\ t.mousePolled THEN t
  ELSE [t EXCEPT !.response = << Byte("button", IF t.buttonEvents = <<>> THEN 0 ELSE Head(t.buttonEvents)),
                                 Byte("motion", IF t.motion = 0 THEN 0 ELSE 1) >>,
                 !.mousePolled = TRUE, !.motion = IF @ = 0 THEN 0 ELSE @ - 1,
                 !.buttonEvents = IF @ = <<>> THEN @ ELSE Tail(@)]

\* A TALK nobody answers is a frame of two 0xff, reported as an error.
TalkDevice(t) ==
  LET a == Address(t.command)
      answered == CASE Register(t.command) = 3 /\ a \in {t.keyboardAddress, t.mouseAddress}
                         -> [t EXCEPT !.response = << Byte("handler", a), Byte("handler", 1) >>]
                    [] Register(t.command) = 0 /\ a = t.keyboardAddress -> TalkKeyboard(t)
                    [] Register(t.command) = 0 /\ a = t.mouseAddress /\ a # t.keyboardAddress -> TalkMouse(t)
                    [] OTHER -> t
  IN  IF answered.response # <<>> THEN answered
      ELSE [t EXCEPT !.response = << Fill, Fill >>, !.errorReportPending = TRUE]

\* What the devices make of the command, after the frame was cleared.
Dispatch(c) ==
  LET a == Address(c.command)
      op == Operation(c.command)
  IN  CASE op = 0 /\ Register(c.command) = 0 -> DevicesReset(c)
        [] op = Flush  -> DevicesFlush(c)
        [] op = Listen /\ Register(c.command) = 3 /\ a \in {c.keyboardAddress, c.mouseAddress}
                       -> [c EXCEPT !.listenAddress = a, !.listenBytes = <<>>]
        [] op = Talk   -> TalkDevice(c)
        [] OTHER       -> c

\* Defect: the error of an unfetched frame is reported with the next one.
PrepareResponseKeepsError(t) == Dispatch([t EXCEPT !.response = <<>>])

PrepareResponse(t) == Dispatch([t EXCEPT !.response = <<>>, !.errorReportPending = FALSE])

\* Mode 0x00 and 0xfe move the device to the address in the first byte.
CompleteListen(t) ==
  LET moves == t.listenBytes[2] \in {0, 254}
      to == t.listenBytes[1] % 16
      isKeyboard == t.listenAddress = t.keyboardAddress
  IN  [t EXCEPT !.keyboardAddress = IF moves /\ isKeyboard THEN to ELSE @,
                !.mouseAddress = IF moves /\ ~isKeyboard /\ t.listenAddress = @ THEN to ELSE @,
                !.listenAddress = 0, !.listenBytes = <<>>]

-----------------------------------------------------------------------------
(* Transfers.                                                               *)

StartHostTransfer(t) == [t EXCEPT !.transfer = "host", !.retrying = FALSE]

StartControllerTransfer(t, byte, status, kind) ==
  [t EXCEPT !.controllerByte = byte, !.transferStatus = status, !.lastState = t.state,
            !.transfer = kind, !.retrying = FALSE]

TransferByte(t) ==
  LET end == t.response = <<>>
  IN  StartControllerTransfer([t EXCEPT !.response = IF end THEN @ ELSE Tail(@), !.errorReportPending = FALSE],
                              IF end THEN Fill ELSE Head(t.response),
                              end \/ t.errorReportPending, "controller")

\* Defect: what a poll leaves queued is not asked for again.
OfferFrameOnce(t) ==
  LET ready == PrepareResponse(t) IN
  IF ready.errorReportPending THEN [ready EXCEPT !.response = <<>>, !.errorReportPending = FALSE]
  ELSE StartControllerTransfer([ready EXCEPT !.autoPollRequested = FALSE],
                                   Byte("command", t.command), TRUE, "autopoll")

\* The saved TALK is repeated; if a device answers, the command goes to the
\* host first and what is still queued keeps the request up.
OfferFrame(t) ==
  LET ready == PrepareResponse(t)
      more  == ready.keyEvents # <<>> \/ ready.buttonEvents # <<>> \/ ready.motion # 0
  IN  IF ready.errorReportPending THEN [ready EXCEPT !.response = <<>>, !.errorReportPending = FALSE]
      ELSE StartControllerTransfer([ready EXCEPT !.autoPollRequested = more],
                                   Byte("command", t.command), TRUE, "autopoll")

\* Defect: input is offered whatever the guest is doing.
RequestAutoPollAlways(t) ==
  LET asked == [t EXCEPT !.autoPollRequested = TRUE] IN
  IF t.transfer = "none" /\ ~t.commandPending /\ Operation(t.command) = Talk THEN OfferFrame(asked) ELSE asked

RequestAutoPoll(t) ==
  LET asked == [t EXCEPT !.autoPollRequested = TRUE] IN
  IF t.state = 3 /\ t.transfer = "none" /\ ~t.commandPending /\ Operation(t.command) = Talk
  THEN OfferFrame(asked) ELSE asked

ScheduleForState(t) ==
  CASE t.transfer # "none" -> t
    [] t.transfer = "none" /\ t.commandPending /\ (t.state = 0 \/ t.listenAddress # 0) -> StartHostTransfer(t)
    [] t.transfer = "none" /\ t.listenAddress = 0 /\ t.state \in {1, 2}
         /\ Operation(t.command) # Listen /\ ~t.delaying -> TransferByte(t)
    [] t.transfer = "none" /\ t.listenAddress = 0 /\ t.state = 3 /\ t.autoPollRequested -> RequestAutoPoll(t)
    [] OTHER -> t

-----------------------------------------------------------------------------
(* What the VIA and the machine call.                                       *)

\* An ST transition releases PB3, ends a retry, and a deferred TALK if the guest fetches it.
EnterState(t, s) ==
  LET freed == [t EXCEPT !.irq = FALSE, !.retrying = FALSE, !.state = s]
  IN  ScheduleForState(
        IF s \in {1, 2} THEN [freed EXCEPT !.deferredTalkPending = FALSE, !.deferring = FALSE]
        ELSE IF s = 3 /\ t.deferredTalkPending /\ ~t.deferring
        THEN [freed EXCEPT !.delaying = FALSE, !.deferring = TRUE]
        ELSE freed)

SetViaState(t, s) == IF s = t.state THEN t ELSE EnterState(t, s)

ShiftRegisterWritten(t, b) ==
  LET staged == [t EXCEPT !.hostByte = b, !.commandPending = TRUE]
  IN  IF t.transfer = "none" /\ (t.state = 0 \/ t.listenAddress # 0) THEN StartHostTransfer(staged) ELSE staged

\* A byte of the host is a command, or one of the two bytes of a LISTEN.
HostByteTaken(t) ==
  LET command == PrepareResponse([t EXCEPT !.command = t.hostByte])
      listened == [t EXCEPT !.listenBytes = Append(@, t.hostByte)]
  IN  IF t.listenAddress # 0
      THEN IF Len(listened.listenBytes) = 2 THEN CompleteListen(listened) ELSE listened
      ELSE [command EXCEPT !.deferredTalkPending = Operation(t.hostByte) = Talk,
                           !.delaying = command.listenAddress = 0 \/ t.delaying]

\* Defect: a byte that was shifted out stays pending.
HostTransferKeepsPending(t) == ScheduleForState([HostByteTaken(t) EXCEPT !.transfer = "none"])

\* The end of a transfer from the host, with m_transmitComplete.
HostTransferDone(t) == ScheduleForState([HostByteTaken(t) EXCEPT !.transfer = "none", !.commandPending = FALSE])

\* The end of a transfer to the host: m_receiveByte, PB3, and the retry is armed.
ControllerTransferDone(t) == [t EXCEPT !.transfer = "none", !.irq = t.transferStatus, !.retrying = TRUE]

\* Defect: a retry takes the next byte of the frame.
RetryNext(t) ==
  LET expired == [t EXCEPT !.retrying = FALSE]
  IN  IF t.state = t.lastState THEN ScheduleForState(expired) ELSE expired

RetryExpires(t) ==
  LET expired == [t EXCEPT !.retrying = FALSE]
  IN  IF t.state # t.lastState THEN expired
      ELSE StartControllerTransfer(expired, t.controllerByte, t.transferStatus, "controller")

\* Defect: nothing looks at the ST lines when the bus transaction is over.
DelayOnlyExpires(t) == [t EXCEPT !.delaying = FALSE]

DelayExpires(t) == ScheduleForState([t EXCEPT !.delaying = FALSE])

DeferExpires(t) ==
  LET expired == [t EXCEPT !.deferring = FALSE]
  IN  IF ~t.deferredTalkPending \/ t.state # 3 THEN expired
      ELSE StartControllerTransfer([expired EXCEPT !.deferredTalkPending = FALSE],
                                   Byte("command", t.command), TRUE, "autopoll")

\* What a tick does once no transfer is under way and the countdown is over.
IdleTick(t) ==
  CASE t.retrying -> RetryExpires(t)
    [] ~t.retrying /\ t.delaying -> DelayExpires(t)
    [] ~t.retrying /\ ~t.delaying /\ t.deferring -> DeferExpires(t)
    [] OTHER -> IF t.state = 3 /\ t.autoPollRequested THEN RequestAutoPoll(t) ELSE t

-----------------------------------------------------------------------------
(* Input of the host.                                                       *)

QueueKey(t, n) == RequestAutoPoll([t EXCEPT !.keyEvents = Append(@, n), !.keyboardPolled = FALSE])

\* Defect: motion adds up without limit.
MoveMouseUnclamped(t, m) == RequestAutoPoll([t EXCEPT !.motion = @ + m])

\* Motion adds to what is held or takes from it, within the limit: m is held then.
MoveMouse(t, m) == RequestAutoPoll([t EXCEPT !.motion = m])

\* A button that is as it was returns at once: the button always changes here.
SetMouseButton(t, n) == RequestAutoPoll([t EXCEPT !.buttonEvents = Append(@, n), !.mousePolled = FALSE])

ResetInput(t) ==
  [t EXCEPT !.keyEvents = <<>>, !.buttonEvents = <<>>, !.motion = 0,
            !.keyboardPolled = FALSE, !.mousePolled = FALSE]
=============================================================================

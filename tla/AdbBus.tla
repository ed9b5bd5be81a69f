------------------------------- MODULE AdbBus -------------------------------
(***************************************************************************)
(* The ADB of a running IIcx: the transceiver, VIA1's shift register       *)
(* interrupt and PB3, the guest that drives the ST lines, and the host's   *)
(* input.  All of them run on the emulation thread; the machine ticks the  *)
(* transceiver after every instruction, so a countdown may end between any *)
(* two accesses of the guest.                                              *)
(*                                                                         *)
(* The guest is any program, or an ADB manager: it releases the bus, S3,   *)
(* stages a command, goes to S0, and after each shift register interrupt   *)
(* reads the register and moves on through S1 and S2 until PB3 is low,     *)
(* then returns to S3.  In S3 an interrupt is a poll the transceiver made, *)
(* fetched the same way.  A LISTEN is followed by its two bytes.           *)
(***************************************************************************)
EXTENDS AdbTransceiver

CONSTANTS Uses,         \* what the ADB is used for, below
          ListenFrame   \* the bytes the manager sends with a LISTEN

\* guest: who drives the ST lines; bytes: what it shifts out; commands: a bound on
\* the manager's; inputs, edges: what the host does, and a bound on its edges.
UseType == [guest : {"any", "manager"}, bytes : SUBSET Bytes, commands : Nat,
            inputs : SUBSET {"key", "button", "motion", "clear", "reset"}, edges : 0 .. MaxEdges]

ASSUME BusAssumption ==
  /\ Uses # {} /\ Uses \subseteq UseType
  /\ ListenFrame \in Bytes \X Bytes

VARIABLES use,      \* the member of Uses that is running
          adb,
          ifr,      \* VIA1's shift register interrupt flag
          guest,    \* the manager's place in its protocol
          edges,    \* edges the host has made
          seen,     \* history: the last edge that reached the shift register
          owed      \* history: the guest shifted out a byte and no completion came
vars == <<use, adb, ifr, guest, edges, seen, owed>>

\* at: "start", the bus still to be released; "idle"; "staged", a command written and S0 still to come; "wait", for the
\* interrupt; "got" it, with PB3 as low says; "put", the next LISTEN byte is due.
NewGuest == [at |-> "start", low |-> FALSE, command |-> 0, listened |-> 0, issued |-> 0]

TypeOK ==
  /\ use \in Uses
  /\ adb \in TransceiverType
  /\ ifr \in BOOLEAN /\ owed \in BOOLEAN
  /\ guest \in [at : {"start", "idle", "staged", "wait", "got", "put"}, low : BOOLEAN,
                command : Bytes \cup {0}, listened : 0 .. 2, issued : 0 .. use.commands]
  /\ edges \in 0 .. use.edges /\ seen \in 0 .. edges

\* The machine resets the transceiver and then VIA1, whose power-on port B is S0;
\* loading a machine ends with the same reset.
ResetTransceiver == SetViaState(NewTransceiver, 0)

Init ==
  /\ adb = ResetTransceiver
  /\ ifr = FALSE /\ edges = 0 /\ seen = 0 /\ owed = FALSE
  /\ use \in Uses /\ guest = NewGuest

-----------------------------------------------------------------------------
(* The machine's ticks.                                                     *)

\* externalShiftOutComplete.
HostTransferEnds ==
  /\ adb.transfer = "host"
  /\ adb' = HostTransferDone(adb)
  /\ ifr' = TRUE /\ owed' = FALSE
  /\ UNCHANGED <<use, guest, edges, seen>>

\* externalShiftIn.
ControllerTransferEnds ==
  /\ adb.transfer \in {"controller", "autopoll"}
  /\ adb' = ControllerTransferDone(adb)
  /\ ifr' = TRUE
  /\ seen' = IF adb.controllerByte.kind \in {"key", "button"} /\ adb.controllerByte.n # 0
             THEN adb.controllerByte.n ELSE seen
  /\ UNCHANGED <<use, guest, edges, owed>>

CountdownEnds ==
  /\ adb.transfer = "none"
  /\ adb' = IdleTick(adb)
  /\ UNCHANGED <<use, ifr, guest, edges, seen, owed>>

Tick == HostTransferEnds \/ ControllerTransferEnds \/ CountdownEnds

-----------------------------------------------------------------------------
(* The guest.                                                               *)

WriteShiftRegister(b) == adb' = ShiftRegisterWritten(adb, b) /\ ifr' = FALSE /\ owed' = TRUE

AnyWrites(b) ==
  /\ use.guest = "any" /\ b \in use.bytes
  /\ WriteShiftRegister(b)
  /\ UNCHANGED <<use, guest, edges, seen>>

AnySetsState(s) ==
  /\ use.guest = "any"
  /\ adb' = SetViaState(adb, s)
  /\ UNCHANGED <<use, ifr, guest, edges, seen, owed>>

\* After a reset the ST lines are in S0: the bus is released first.
ManagerStarts ==
  /\ use.guest = "manager" /\ guest.at = "start"
  /\ adb' = SetViaState(adb, 3)
  /\ guest' = [guest EXCEPT !.at = "idle"]
  /\ UNCHANGED <<use, ifr, edges, seen, owed>>

\* The manager LISTENs to devices it has found.
ManagerStages(b) ==
  /\ use.guest = "manager" /\ guest.at = "idle" /\ ~ifr
  /\ guest.issued < use.commands /\ b \in use.bytes
  /\ Operation(b) = Listen => Register(b) = 3 /\ Address(b) \in {adb.keyboardAddress, adb.mouseAddress} \ {0}
  /\ WriteShiftRegister(b)
  /\ guest' = [guest EXCEPT !.at = "staged", !.command = b, !.listened = 0, !.issued = @ + 1]
  /\ UNCHANGED <<use, edges, seen>>

ManagerSends ==
  /\ guest.at = "staged"
  /\ adb' = SetViaState(adb, 0)
  /\ guest' = [guest EXCEPT !.at = "wait"]
  /\ UNCHANGED <<use, ifr, edges, seen, owed>>

\* The shift register interrupt: the register is read and PB3 looked at.
ManagerReads ==
  /\ use.guest = "manager" /\ guest.at \in {"idle", "wait"} /\ ifr
  /\ ifr' = FALSE
  /\ guest' = [guest EXCEPT !.at = "got", !.low = adb.irq, !.command = IF guest.at = "idle" THEN 0 ELSE @]
  /\ UNCHANGED <<use, adb, edges, seen, owed>>

\* The state the manager goes to next.
NextState ==
  CASE adb.state \in {0, 3} -> 1
    [] Operation(guest.command) = Listen /\ guest.listened = 2 -> 3
    [] Operation(guest.command) # Listen /\ guest.low -> 3
    [] OTHER -> 3 - adb.state

ManagerAdvances ==
  /\ guest.at = "got"
  /\ adb' = SetViaState(adb, NextState)
  /\ guest' = [guest EXCEPT !.at = IF NextState = 3 THEN "idle"
                                   ELSE IF Operation(guest.command) = Listen THEN "put" ELSE "wait"]
  /\ UNCHANGED <<use, ifr, edges, seen, owed>>

ManagerPuts ==
  /\ guest.at = "put"
  /\ WriteShiftRegister(ListenFrame[guest.listened + 1])
  /\ guest' = [guest EXCEPT !.at = "wait", !.listened = @ + 1]
  /\ UNCHANGED <<use, edges, seen>>

-----------------------------------------------------------------------------
(* applyInput, and a reset of the machine.                                  *)

HostKey ==
  /\ "key" \in use.inputs /\ edges < use.edges
  /\ edges' = edges + 1
  /\ adb' = QueueKey(adb, edges + 1)
  /\ UNCHANGED <<use, ifr, guest, seen, owed>>

HostButton ==
  /\ "button" \in use.inputs /\ edges < use.edges
  /\ edges' = edges + 1
  /\ adb' = SetMouseButton(adb, edges + 1)
  /\ UNCHANGED <<use, ifr, guest, seen, owed>>

HostMoves(m) ==
  /\ "motion" \in use.inputs
  /\ adb' = MoveMouse(adb, m)
  /\ UNCHANGED <<use, ifr, guest, edges, seen, owed>>

HostResetsInput ==
  /\ "clear" \in use.inputs
  /\ adb' = ResetInput(adb)
  /\ UNCHANGED <<use, ifr, guest, edges, seen, owed>>

Reset ==
  /\ "reset" \in use.inputs
  /\ adb' = ResetTransceiver
  /\ ifr' = FALSE /\ owed' = FALSE
  /\ guest' = [NewGuest EXCEPT !.issued = guest.issued]
  /\ UNCHANGED <<use, edges, seen>>

Manager == \/ \E b \in Bytes : ManagerStages(b)
           \/ ManagerStarts \/ ManagerSends \/ ManagerReads \/ ManagerAdvances \/ ManagerPuts

Next ==
  \/ Tick
  \/ \E b \in Bytes : AnyWrites(b)
  \/ \E s \in 0 .. 3 : AnySetsState(s)
  \/ Manager
  \/ HostKey \/ HostButton \/ HostResetsInput \/ Reset
  \/ \E m \in 0 .. MaxMotion : HostMoves(m)

\* The machine goes on ticking and the manager's interrupt routine runs when its
\* interrupt is pending: the session lets the processor execute without end.
Spec == Init /\ [][Next]_vars /\ WF_vars(Tick)
             /\ WF_vars(ManagerStarts \/ ManagerSends \/ ManagerReads \/ ManagerAdvances \/ ManagerPuts)

-----------------------------------------------------------------------------
(* Properties.                                                              *)

EdgeKinds == {"key", "button"}
Carries(byte, k) == byte.kind = k /\ byte.n # 0

\* The edges of a kind on their way to the guest: the byte being shifted, the
\* frame and the queue.
InFlight(t, k) ==
  IF t.transfer = "controller" /\ Carries(t.controllerByte, k) THEN {t.controllerByte.n} ELSE {}
InFrame(t, k) ==
  {t.response[i].n : i \in {j \in 1 .. Len(t.response) : Carries(t.response[j], k)}}
Queue(t, k) == IF k = "key" THEN t.keyEvents ELSE t.buttonEvents

Elements(s) == {s[i] : i \in 1 .. Len(s)}
Increasing(s) == \A i, j \in 1 .. Len(s) : i < j => s[i] < s[j]
Precedes(A, B) == \A a \in A, b \in B : a < b

FrameInOrder(t, k) ==
  \A i, j \in 1 .. Len(t.response) :
    i < j /\ Carries(t.response[i], k) /\ Carries(t.response[j], k) => t.response[i].n < t.response[j].n

\* Key transitions reach the guest in the order the host made them, whatever
\* polls, commands, retries and resets happen; so do button edges.  A retry may
\* repeat the byte shifted last (AdbTransceiver.cpp:282-287, 359-380, 419-430).
EdgesInOrder ==
  \A k \in EdgeKinds :
    /\ FrameInOrder(adb, k) /\ Increasing(Queue(adb, k))
    /\ Precedes(InFlight(adb, k), InFrame(adb, k) \cup Elements(Queue(adb, k)))
    /\ Precedes(InFrame(adb, k), Elements(Queue(adb, k)))

\* When a byte has been shifted in, PB3 is low only with a saved command or 0xff: no
\* byte that carries input or a handler is taken for the end of a frame, whatever
\* error an earlier, unfetched frame had to report (hardware-notes.md:71;
\* AdbTransceiver.cpp:171-216, 265-291, 419-430).
LowOnlyAtEnds == (adb.irq /\ adb.retrying) => adb.controllerByte.kind \in {"command", "fill"}

\* The shift register interrupt of a completed output is raised at most once for
\* what the guest shifted out (hardware-notes.md:71; AdbTransceiver.cpp:171-201).
CompletionsOwed == [][HostTransferEnds => owed]_vars

\* While the guest stays in S1 or S2, one byte of the frame is taken at most, and
\* only by the transceiver: a retry repeats the byte, input does not touch the
\* frame; a command shifted out meanwhile replaces it (AdbTransceiver.cpp:92-134).
OneBytePerState ==
  [][(adb.state \in {1, 2} /\ adb'.state = adb.state /\ adb'.response # adb.response)
       => adb.transfer = "host" \/ (adb.response # <<>> /\ adb'.response = Tail(adb.response) /\ ~adb.retrying)]_vars

\* The byte handshake of hardware-notes.md:71: one completion per byte shifted out, one
\* byte per state, and PB3 low only where a frame ends, whatever polls, retries and
\* input get in between (AdbTransceiver.cpp:92-231).
HandshakeKept == CompletionsOwed /\ OneBytePerState /\ []LowOnlyAtEnds

\* Where an edge can get lost.  A queued edge: an input reset, a FLUSH, a machine
\* reset, or a command that completes when the guest is back in S3 already, so
\* that a poll replaces its answer at once.  An edge in the frame: a new command,
\* a machine reset, or a poll made in S3 before the guest fetched the frame.  A
\* byte being shifted: only a machine reset.  Input that arrives while the guest
\* is fetching loses nothing (AdbTransceiver.cpp:171-216, 265-291, 393-417).
EdgesKept ==
  [][Reset \/ \A k \in EdgeKinds :
       /\ InFlight(adb, k) \subseteq InFlight(adb', k) \cup {seen'}
       /\ \/ adb.transfer = "host" \/ adb'.state = 3
          \/ InFrame(adb, k) \subseteq InFrame(adb', k) \cup InFlight(adb', k)
       /\ \/ HostResetsInput
          \/ adb.transfer = "host" /\ (Operation(adb.hostByte) = Flush \/ adb.state = 3)
          \/ Elements(Queue(adb, k)) \subseteq Elements(Queue(adb', k)) \cup InFrame(adb', k)]_vars

\* The manager is behind: a byte comes in, or is on its way, before its routine is
\* done with the last one.  Bytes take 1200 cycles and retries 1082000.
Late == \/ ifr /\ guest.at = "got"
        \/ adb.transfer = "controller" /\ (ifr \/ guest.at = "got")

\* The transceiver shifts a poll or a retry when the manager stages its command or
\* goes to S0: that byte's interrupt is taken for the command's completion.
Overtaken == \/ guest.at = "staged" /\ (ifr \/ adb.transfer # "none")
             \/ guest.at = "wait" /\ adb.state = 0 /\ adb.transfer \in {"controller", "autopoll"}

\* A TALK, FLUSH or RESET survives the manager's being behind now and then, and
\* being overtaken; a LISTEN, whose bytes have no retry, survives neither.
Steady == IF \E b \in use.bytes : Operation(b) = Listen THEN [](~Late /\ ~Overtaken) ELSE <>[]~Late

\* The manager's exchanges end: every state it waits in brings an interrupt, also
\* when polls, retries and delays get in between, and every frame has an end
\* (AdbTransceiver.cpp:118-124, 171-237).
FrameEnds == (use.guest = "manager" /\ Steady) => (guest.at # "idle" ~> guest.at = "idle")

Polls(k) == ~adb.commandPending /\ adb.listenAddress = 0 /\ Operation(adb.command) = Talk /\ Register(adb.command) = 0
            /\ Address(adb.command) = IF k = "key" THEN adb.keyboardAddress ELSE adb.mouseAddress

\* "keep service pending so the next idle S3 interval starts another TALK instead
\* of stranding the tail" (AdbTransceiver.cpp:404-407): as long as the saved TALK
\* is the device's and the manager keeps up, what is queued leaves the queue.
EdgesServed ==
  \A k \in EdgeKinds :
    (use.guest = "manager" /\ <>[](Polls(k) /\ ~Late)) => (Queue(adb, k) # <<>> ~> Queue(adb, k) = <<>>)

\* Manager and transceiver never wait for each other: exchanges end and queues empty.
BusProgress == FrameEnds /\ EdgesServed
=============================================================================

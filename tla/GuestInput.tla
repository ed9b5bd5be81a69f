----------------------------- MODULE GuestInput -----------------------------
(***************************************************************************)
(* Host input on its way to the guest: EmulationSession::queueInput hands  *)
(* an event to the machine's queueInput, which schedules it; stepInstruction*)
(* dispatches what is due before and after every instruction.              *)
(*                                                                         *)
(* The Mac Plus drops a button call that changes nothing and spaces button *)
(* edges so that the ROM's VBL task sees each of them; the Macintosh IIcx  *)
(* and the Quadra 700 schedule everything at once.  The facade runs under  *)
(* the session mutex (module HostLock), so calls fall between quanta and   *)
(* a quantum is a sequence of instructions.                                *)
(***************************************************************************)
EXTENDS MachineScheduler

CONSTANTS Debounce,    \* inputDebounceCycles (the code: 130560)
          MaxElapsed,  \* the longest instruction, in cycles
          MaxCycle,    \* bound on the guest clock
          MaxInputs,   \* bound on the events scheduled since the last reset
          MaxResets    \* bound on the resets of the machine

ASSUME DebounceNat == Debounce \in Nat
ASSUME MaxElapsedPositive == MaxElapsed \in Nat \ {0}
ASSUME BoundsNat == MaxCycle \in Nat /\ MaxInputs \in Nat /\ MaxResets \in Nat

VARIABLES
  debounces,        \* the machine is a Mac Plus; chosen when it is created
  phase,            \* where stepInstruction is; "idle" between two of them
  lastButtonCycle,  \* m_lastMouseButtonCycle
  queuedPressed,    \* m_queuedMouseButtonPressed
  guestPressed,     \* m_mouseButtonPressed, the level of VIA PB3
  hostPressed,      \* what the host last asked for
  hostEdge,         \* history: when the host last changed the button
  stretched,        \* history: a press was made longer than need be
  resets,           \* resets so far
  edgeAt,           \* history: when the guest's button last changed
  delivered,        \* history: the last event dispatched since the reset
  seen              \* history: per kind, one more than the last sequence number
                    \* dispatched since the reset

queueVars == <<lastButtonCycle, queuedPressed, hostPressed, hostEdge, stretched>>
guestVars == <<guestPressed, edgeAt, delivered, seen>>
vars == <<debounces, schedulerVars, phase, queueVars, guestVars, resets>>

Larger(a, b) == IF a >= b THEN a ELSE b

\* Pointer motion and key transitions carry nothing the queue looks at.  The kind
\* ResetKeyboard, which only the command-line debugger queues, is left out.
Kinds == {"button", "pointer", "key"}
Inputs == [kind : Kinds, pressed : BOOLEAN]
Events == [cycle : Nat, sequence : Nat, what : Inputs]

TypeOK ==
  /\ debounces \in BOOLEAN
  /\ now \in Nat /\ nextSequence \in Nat /\ events \subseteq Events
  /\ phase \in {"idle", "before", "after"}
  /\ lastButtonCycle \in Nat /\ hostEdge \in Nat /\ edgeAt \in Nat /\ resets \in Nat
  /\ queuedPressed \in BOOLEAN /\ guestPressed \in BOOLEAN /\ hostPressed \in BOOLEAN
  /\ stretched \in BOOLEAN
  /\ delivered \in [cycle : Nat, sequence : Nat]
  /\ seen \in [Kinds -> Nat]

Init ==
  /\ debounces \in BOOLEAN
  /\ InitScheduler
  /\ phase = "idle"
  /\ lastButtonCycle = 0 /\ queuedPressed = FALSE
  /\ guestPressed = FALSE /\ edgeAt = 0
  /\ hostPressed = FALSE /\ hostEdge = 0 /\ stretched = FALSE
  /\ resets = 0
  /\ delivered = [cycle |-> 0, sequence |-> 0]
  /\ seen = [k \in Kinds |-> 0]

-----------------------------------------------------------------------------
\* Defect: presses are debounced and releases are not.
QueueDelayed(input) ==
  /\ phase = "idle" /\ nextSequence < MaxInputs
  /\ input.kind # "button" \/ ~debounces
  /\ Schedule(IF input.pressed THEN now + Debounce ELSE now, input)
  /\ hostPressed' = IF input.kind = "button" THEN input.pressed ELSE hostPressed
  /\ UNCHANGED <<debounces, phase, lastButtonCycle, queuedPressed, hostEdge, stretched, guestVars, resets>>

\* queueInput() of pointer motion and keys, and of everything on an ADB machine:
\* max(cycle, now) with the cycle EmulationSession passes, which is now
QueuePlain(input) ==
  /\ phase = "idle" /\ nextSequence < MaxInputs
  /\ input.kind # "button" \/ ~debounces
  /\ Schedule(now, input)
  /\ hostPressed' = IF input.kind = "button" THEN input.pressed ELSE hostPressed
  /\ UNCHANGED <<debounces, phase, lastButtonCycle, queuedPressed, hostEdge, stretched, guestVars, resets>>

\* MacPlusMachine::queueInput() of a button that does not change
QueueDuplicate(input) ==
  /\ phase = "idle"
  /\ debounces /\ input.kind = "button" /\ input.pressed = queuedPressed
  /\ hostPressed' = input.pressed
  /\ UNCHANGED <<debounces, schedulerVars, phase, lastButtonCycle, queuedPressed, hostEdge, stretched,
                 guestVars, resets>>

\* MacPlusMachine::queueInput() of a button edge, for a delivery cycle and the
\* values it leaves in m_queuedMouseButtonPressed and m_lastMouseButtonCycle
EdgeAt(input, deliveryCycle, queued, last) ==
  /\ phase = "idle" /\ nextSequence < MaxInputs
  /\ debounces /\ input.kind = "button" /\ input.pressed # queuedPressed
  /\ Schedule(deliveryCycle, input)
  /\ queuedPressed' = queued
  /\ lastButtonCycle' = last
  /\ hostPressed' = input.pressed
  /\ hostEdge' = now
  /\ stretched' =
       IF ~input.pressed /\ deliveryCycle > lastButtonCycle + Larger(now - hostEdge, Debounce)
         THEN TRUE ELSE stretched
  /\ UNCHANGED <<debounces, phase, guestVars, resets>>

\* Defect: m_lastMouseButtonCycle is not updated.
QueueEdgeForgetsCycle(input) ==
  EdgeAt(input, Larger(now, lastButtonCycle + Debounce), input.pressed, lastButtonCycle)

\* Defect: m_queuedMouseButtonPressed is not updated.
QueueEdgeForgetsLevel(input) ==
  LET deliveryCycle == Larger(now, lastButtonCycle + Debounce) IN
  EdgeAt(input, deliveryCycle, queuedPressed, deliveryCycle)

\* Defect: an edge is retained for two intervals.
QueueEdgeStretched(input) ==
  LET deliveryCycle == Larger(now, lastButtonCycle + 2 * Debounce) IN
  EdgeAt(input, deliveryCycle, input.pressed, deliveryCycle)

QueueEdge(input) ==
  LET deliveryCycle == Larger(now, lastButtonCycle + Debounce) IN
  EdgeAt(input, deliveryCycle, input.pressed, deliveryCycle)

\* stepInstruction() begins with dispatchDue().
BeginInstruction ==
  /\ phase = "idle"
  /\ phase' = "before"
  /\ UNCHANGED <<debounces, schedulerVars, queueVars, guestVars, resets>>

\* A due event is dispatched: applyInput() sets the button, or passes motion
\* and keys on to their devices.
Dispatch(e) ==
  /\ phase # "idle"
  /\ Pop(e)
  /\ guestPressed' = IF e.what.kind = "button" THEN e.what.pressed ELSE guestPressed
  /\ edgeAt' = IF e.what.kind = "button" THEN now ELSE edgeAt
  /\ delivered' = [cycle |-> e.cycle, sequence |-> e.sequence]
  /\ seen' = [seen EXCEPT ![e.what.kind] = e.sequence + 1]
  /\ UNCHANGED <<debounces, phase, queueVars, resets>>

\* The instruction and the advance() that accounts for it
Execute(elapsed) ==
  /\ phase = "before" /\ NothingDue
  /\ now + elapsed <= MaxCycle
  /\ AdvanceClock(elapsed)
  /\ phase' = "after"
  /\ UNCHANGED <<debounces, queueVars, guestVars, resets>>

EndInstruction ==
  /\ phase = "after" /\ NothingDue
  /\ phase' = "idle"
  /\ UNCHANGED <<debounces, schedulerVars, queueVars, guestVars, resets>>

\* Defect: an ADB machine's reset() leaves its transceiver alone.
ResetKeepsButton ==
  /\ phase = "idle" /\ resets < MaxResets
  /\ ResetScheduler
  /\ lastButtonCycle' = 0 /\ queuedPressed' = FALSE
  /\ hostEdge' = 0 /\ edgeAt' = 0
  /\ resets' = resets + 1
  /\ delivered' = [cycle |-> 0, sequence |-> 0]
  /\ seen' = [k \in Kinds |-> 0]
  /\ UNCHANGED <<debounces, phase, guestPressed, hostPressed, stretched>>

\* The machine's reset(), of the same machine object: the Mac Plus keeps
\* m_mouseButtonPressed and writes it to the fresh VIA; the ADB machines reset
\* their transceiver.
Reset ==
  /\ phase = "idle" /\ resets < MaxResets
  /\ ResetScheduler
  /\ lastButtonCycle' = 0 /\ queuedPressed' = FALSE
  /\ guestPressed' = IF debounces THEN guestPressed ELSE FALSE
  /\ hostEdge' = 0 /\ edgeAt' = 0
  /\ resets' = resets + 1
  /\ delivered' = [cycle |-> 0, sequence |-> 0]
  /\ seen' = [k \in Kinds |-> 0]
  /\ UNCHANGED <<debounces, phase, hostPressed, stretched>>

\* The clock has reached its bound: the run ends here.
OutOfCycles == phase = "before" /\ NothingDue /\ now = MaxCycle /\ UNCHANGED vars

Queue == \E input \in Inputs : QueuePlain(input) \/ QueueDuplicate(input) \/ QueueEdge(input)

Step ==
  \/ BeginInstruction \/ EndInstruction
  \/ \E e \in events : Dispatch(e)
  \/ \E elapsed \in 1..MaxElapsed : Execute(elapsed)

Next == Queue \/ Step \/ Reset \/ OutOfCycles

Spec == Init /\ [][Next]_vars

-----------------------------------------------------------------------------
\* Every event reaches the guest within the instruction during which it fell
\* due (MachineScheduler::dispatchDue, called on both sides of an instruction).
Prompt == \A e \in events : now < e.cycle + MaxElapsed

\* Over the whole life of a machine, not only within one dispatchDue, events
\* are dispatched in the order of cycle and sequence: nothing still queued
\* precedes what the guest has already seen.
InOrder ==
  (\E k \in Kinds : seen[k] > 0) => \A e \in events : Earlier(delivered, e)

\* Within a kind, input reaches the guest in the order in which the host made
\* it, although the Mac Plus delays button edges (MacPlusMachine.cpp:451) and
\* pointer motion overtakes them.
KindFifo == \A e \in events : e.sequence >= seen[e.what.kind]

PendingEdges == {e \in events : e.what.kind = "button"}

\* docs/hardware-notes.md:86 "Retain a mouse-button edge for one VBL so the ROM
\* observes it": two edges of the Mac Plus button are never scheduled closer
\* together than the debounce interval, not even in a backlog, and since each is
\* dispatched within an instruction they reach the guest less than one
\* instruction closer than that.
ButtonSpaced ==
  debounces => \A f \in PendingEdges :
    /\ \A e \in PendingEdges : e.sequence < f.sequence => e.cycle + Debounce <= f.cycle
    /\ edgeAt + Debounce < f.cycle + MaxElapsed

\* docs/hardware-notes.md:86 "do not stretch ordinary clicks across several
\* VBLs": a press lasts, in the guest, no longer than the host held it or the
\* debounce interval.
NotStretched == ~stretched

\* docs/hardware-notes.md:86, the same sentence for the last edge: until the
\* machine is reset, with no button edge left to deliver the guest's button
\* is the host's.
ButtonFollowsHost == resets = 0 /\ PendingEdges = {} => guestPressed = hostPressed

\* docs/hardware-notes.md:66, "losing it makes the ROM treat the mouse as held":
\* once the host has let go of the button and nothing is left to deliver, the
\* guest's PB3 is up, across resets too.
ReleaseReachesGuest == PendingEdges = {} /\ ~hostPressed => ~guestPressed

\* The same for the machines whose reset() resets the ADB transceiver.
AdbReleaseReachesGuest == ~debounces => ReleaseReachesGuest

\* Where the button comes to rest: the guest's is the host's on a machine that was
\* not reset, and up after the host's release on an ADB machine that was.
ButtonSettles == ButtonFollowsHost /\ AdbReleaseReachesGuest

=============================================================================

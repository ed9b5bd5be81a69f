-------------------------- MODULE GuestInput_proofs --------------------------
(***************************************************************************)
(* The guest sees its input on time and in order, whatever the debounce    *)
(* interval, the longest instruction and the bounds.  Three strengthenings *)
(* make that inductive: outside an instruction no event is in the past     *)
(* (Ahead), within a kind the queue's two orders agree (KindsSorted), and  *)
(* the Mac Plus's m_lastMouseButtonCycle bounds every edge (EdgesBounded). *)
(* That the button comes to rest where the host left it needs a fourth:    *)
(* the last edge on its way carries the host's level (ButtonTracked).      *)
(***************************************************************************)
EXTENDS GuestInput, TLAPS

\* A sequence number is used once.
Numbered ==
  /\ \A e \in events : e.sequence < nextSequence
  /\ \A e, f \in events : e.sequence = f.sequence => e = f

\* Only while an instruction's time is being accounted for may events be late.
Ahead ==
  /\ phase # "after" => \A e \in events : now <= e.cycle
  /\ Prompt

\* What is delivered was scheduled, and lies in the past.
Delivered ==
  /\ delivered.cycle <= now
  /\ (\E k \in Kinds : seen[k] > 0) => delivered.sequence < nextSequence
  /\ InOrder

\* Input that is not debounced is due the moment it is queued.
PlainDue == \A e \in events : e.what.kind # "button" \/ ~debounces => e.cycle <= now

KindsSorted ==
  /\ \A e, f \in events :
       e.what.kind = f.what.kind /\ e.sequence < f.sequence => e.cycle <= f.cycle
  /\ \A k \in Kinds : seen[k] <= nextSequence
  /\ KindFifo

EdgesBounded ==
  debounces =>
    /\ \A e \in PendingEdges : e.cycle <= lastButtonCycle
    /\ hostEdge <= lastButtonCycle
    /\ edgeAt < lastButtonCycle + MaxElapsed

Inv ==
  /\ TypeOK
  /\ Numbered
  /\ Ahead
  /\ Delivered
  /\ PlainDue
  /\ KindsSorted
  /\ EdgesBounded
  /\ ButtonSpaced
  /\ NotStretched

-----------------------------------------------------------------------------
LEMMA LargerNat ==
  ASSUME NEW a \in Nat, NEW b \in Nat
  PROVE  Larger(a, b) \in Nat /\ Larger(a, b) >= a /\ Larger(a, b) >= b
BY DEF Larger

\* A fresh machine, and one that has been reset, satisfy the invariant.
LEMMA InitInv == Init => Inv
<1> SUFFICES ASSUME Init PROVE Inv
  OBVIOUS
<1> USE DebounceNat, MaxElapsedPositive
<1>1. TypeOK
  <2>1. delivered \in [cycle : Nat, sequence : Nat] /\ seen \in [Kinds -> Nat]
    BY DEF Init
  <2>2. now \in Nat /\ nextSequence \in Nat /\ events \subseteq Events
    BY DEF Init, InitScheduler
  <2> QED BY <2>1, <2>2 DEF Init, TypeOK
<1>2. Numbered /\ Ahead /\ PlainDue
  BY DEF Init, InitScheduler, Numbered, Ahead, Prompt, PlainDue
<1>3. Delivered /\ KindsSorted
  BY DEF Init, InitScheduler, Delivered, InOrder, KindsSorted, KindFifo
<1>4. EdgesBounded /\ ButtonSpaced /\ NotStretched
  BY DEF Init, InitScheduler, EdgesBounded, PendingEdges, ButtonSpaced, NotStretched
<1> QED BY <1>1, <1>2, <1>3, <1>4 DEF Inv

\* Every step keeps the variables within their types.
LEMMA TypeStep == TypeOK /\ [Next]_vars => TypeOK'
<1> SUFFICES ASSUME TypeOK, [Next]_vars PROVE TypeOK'
  OBVIOUS
<1> USE DebounceNat, MaxElapsedPositive, BoundsNat
    DEF TypeOK, schedulerVars, queueVars, guestVars
<1>1. ASSUME NEW input \in Inputs, QueuePlain(input) PROVE TypeOK'
  <2>1. [cycle |-> now, sequence |-> nextSequence, what |-> input] \in Events
    BY DEF Events
  <2>2. input.pressed \in BOOLEAN
    BY DEF Inputs
  <2> QED BY <1>1, <2>1, <2>2 DEF QueuePlain, Schedule
<1>2. ASSUME NEW input \in Inputs, QueueDuplicate(input) PROVE TypeOK'
  BY <1>2 DEF QueueDuplicate, Inputs
<1>3. ASSUME NEW input \in Inputs, QueueEdge(input) PROVE TypeOK'
  <2> DEFINE at == Larger(now, lastButtonCycle + Debounce)
  <2>1. at \in Nat
    BY DEF Larger
  <2>2. [cycle |-> at, sequence |-> nextSequence, what |-> input] \in Events
    BY <2>1 DEF Events
  <2>3. input.pressed \in BOOLEAN
    BY DEF Inputs
  <2>4. stretched' \in BOOLEAN
    <3>1. stretched' = TRUE \/ stretched' = stretched
      BY <1>3, Zenon DEF QueueEdge, EdgeAt
    <3> QED BY <3>1
  <2>5. events' \subseteq Events /\ nextSequence' \in Nat /\ now' = now
    BY <1>3, <2>2 DEF QueueEdge, EdgeAt, Schedule
  <2> HIDE DEF at
  <2> QED BY <1>3, <2>1, <2>3, <2>4, <2>5 DEF QueueEdge, EdgeAt, at
<1>4. CASE BeginInstruction \/ EndInstruction
  BY <1>4 DEF BeginInstruction, EndInstruction
<1>5. ASSUME NEW e \in events, Dispatch(e) PROVE TypeOK'
  <2>1. e \in Events
    OBVIOUS
  <2>2. e.what.kind \in Kinds /\ e.what.pressed \in BOOLEAN /\ e.cycle \in Nat /\ e.sequence \in Nat
    BY <2>1 DEF Events, Inputs
  <2> QED BY <1>5, <2>2 DEF Dispatch, Pop
<1>6. ASSUME NEW elapsed \in 1..MaxElapsed, Execute(elapsed) PROVE TypeOK'
  BY <1>6 DEF Execute, AdvanceClock
<1>7. CASE Reset
  <2>1. guestPressed' \in BOOLEAN
    BY <1>7 DEF Reset
  <2>2. delivered' \in [cycle : Nat, sequence : Nat] /\ seen' \in [Kinds -> Nat]
    BY <1>7 DEF Reset
  <2>3. now' \in Nat /\ nextSequence' \in Nat /\ events' \subseteq Events
    BY <1>7 DEF Reset, ResetScheduler
  <2>4. lastButtonCycle' \in Nat /\ hostEdge' \in Nat /\ edgeAt' \in Nat /\ resets' \in Nat
    BY <1>7 DEF Reset
  <2>5. queuedPressed' = FALSE /\ UNCHANGED <<debounces, phase, hostPressed, stretched>>
    BY <1>7 DEF Reset
  <2> QED BY <2>1, <2>2, <2>3, <2>4, <2>5
<1>8. CASE UNCHANGED vars
  BY <1>8 DEF vars
<1> QED
  BY <1>1, <1>2, <1>3, <1>4, <1>5, <1>6, <1>7, <1>8 DEF Next, Queue, Step, OutOfCycles

-----------------------------------------------------------------------------
\* What every step but a reset and an addition to the queue leaves alone.
LEMMA StutterInv == Inv /\ UNCHANGED <<debounces, schedulerVars, phase, lastButtonCycle, hostEdge, stretched,
                                      guestVars>> /\ TypeOK' => Inv'
BY DEF Inv, Numbered, Ahead, Prompt, Delivered, InOrder, PlainDue, KindsSorted, KindFifo,
       EdgesBounded, PendingEdges, ButtonSpaced, NotStretched, schedulerVars, guestVars, Earlier

\* Adding an event at a cycle that is not in the past, behind every event of its
\* kind, keeps the queue's orders.
LEMMA ScheduleInv ==
  ASSUME Inv, NEW input \in Inputs, NEW cycle \in Nat, phase = "idle", now <= cycle,
         Schedule(cycle, input), UNCHANGED <<debounces, phase, guestVars>>,
         input.kind # "button" \/ ~debounces => cycle <= now,
         \A e \in events : e.what.kind = input.kind => e.cycle <= cycle
  PROVE  Numbered' /\ Ahead' /\ Delivered' /\ PlainDue' /\ KindsSorted'
<1> DEFINE new == [cycle |-> cycle, sequence |-> nextSequence, what |-> input]
<1>1. /\ events' = events \cup {new} /\ nextSequence' = nextSequence + 1 /\ now' = now
      /\ new.cycle = cycle /\ new.sequence = nextSequence /\ new.what = input
  BY DEF Schedule
<1>2. TypeOK /\ input.kind \in Kinds
  BY DEF Inv, Inputs
<1>3. \A e \in events : e.cycle \in Nat /\ e.sequence \in Nat /\ e.what.kind \in Kinds
  BY <1>2 DEF TypeOK, Events, Inputs
<1> HIDE DEF new
<1> USE <1>1, <1>2, <1>3, MaxElapsedPositive
<1>4. Numbered'
  BY DEF Inv, Numbered, TypeOK
<1>5. Ahead'
  BY DEF Inv, Ahead, Prompt, TypeOK
<1>6. Delivered'
  BY DEF Inv, Delivered, InOrder, Earlier, TypeOK, guestVars
<1>7. PlainDue'
  BY DEF Inv, PlainDue
<1>8. KindsSorted'
  <2>1. \A e, f \in events' :
          e.what.kind = f.what.kind /\ e.sequence < f.sequence => e.cycle <= f.cycle
    BY DEF Inv, Numbered, KindsSorted, TypeOK
  <2>2. \A k \in Kinds : seen[k] \in Nat /\ seen[k] <= nextSequence
    BY DEF Inv, KindsSorted, TypeOK
  <2>3. KindFifo'
    BY <2>2 DEF Inv, KindsSorted, KindFifo, guestVars, TypeOK
  <2> QED BY <2>1, <2>2, <2>3 DEF KindsSorted, guestVars, TypeOK
<1> QED BY <1>4, <1>5, <1>6, <1>7, <1>8

\* The events left by a dispatch come after the one dispatched, and those of its
\* kind were made after it.
LEMMA DispatchInv ==
  ASSUME Inv, TypeOK', NEW e \in events, Dispatch(e)
  PROVE  Inv'
<1>1. events' = events \ {e} /\ UNCHANGED <<debounces, now, nextSequence, phase, queueVars>>
  BY DEF Dispatch, Pop
<1>2. e.cycle <= now /\ \A f \in events' : Earlier(e, f)
  BY <1>1 DEF Dispatch, Pop, Due, Top
<1>3. \A f \in events : f.cycle \in Nat /\ f.sequence \in Nat /\ f.what.kind \in Kinds
  BY DEF Inv, TypeOK, Events, Inputs
<1>4. TypeOK /\ delivered' = [cycle |-> e.cycle, sequence |-> e.sequence]
      /\ seen' = [seen EXCEPT ![e.what.kind] = e.sequence + 1]
      /\ edgeAt' = IF e.what.kind = "button" THEN now ELSE edgeAt
  BY DEF Inv, Dispatch
<1> USE <1>1, <1>3, MaxElapsedPositive, DebounceNat
<1>5. Numbered' /\ PlainDue'
  BY DEF Inv, Numbered, PlainDue
<1>6. Ahead'
  BY DEF Inv, Ahead, Prompt
<1>7. Delivered'
  BY <1>2, <1>4 DEF Inv, Delivered, InOrder, Earlier, Numbered
<1>8. KindsSorted'
  <2>1. \A f \in events' : f.what.kind = e.what.kind => e.sequence + 1 <= f.sequence
    BY <1>2, <1>4 DEF Inv, KindsSorted, Numbered, Earlier
  <2>2. KindFifo'
    BY <1>4, <2>1 DEF Inv, KindsSorted, KindFifo, TypeOK
  <2>3. \A k \in Kinds : seen'[k] <= nextSequence'
    BY <1>4 DEF Inv, KindsSorted, Numbered, TypeOK
  <2> QED BY <2>2, <2>3 DEF Inv, KindsSorted
<1>9. EdgesBounded' /\ ButtonSpaced'
  <2>1. SUFFICES ASSUME debounces PROVE EdgesBounded' /\ ButtonSpaced'
    BY DEF EdgesBounded, ButtonSpaced
  <2>2. PendingEdges' = PendingEdges \ {e}
    BY DEF PendingEdges
  <2>3. now < e.cycle + MaxElapsed
    BY DEF Inv, Ahead, Prompt
  <2>4. EdgesBounded'
    BY <1>4, <2>1, <2>2, <2>3 DEF Inv, EdgesBounded, PendingEdges, queueVars, TypeOK
  <2>5. ASSUME NEW f \in PendingEdges', e.what.kind = "button" PROVE e.cycle + Debounce <= f.cycle
    <3>1. e.sequence # f.sequence
      BY <2>2, <2>5 DEF Inv, Numbered, PendingEdges
    <3>2. CASE e.sequence < f.sequence
      BY <2>1, <2>2, <2>5, <3>2 DEF Inv, ButtonSpaced, PendingEdges
    <3>3. CASE f.sequence < e.sequence
      BY <1>2, <2>1, <2>2, <2>5, <3>3 DEF Inv, ButtonSpaced, PendingEdges, Earlier
    <3> QED BY <2>2, <2>5, <3>1, <3>2, <3>3 DEF PendingEdges
  <2>6. ButtonSpaced'
    BY <1>4, <2>1, <2>2, <2>3, <2>5 DEF Inv, ButtonSpaced, PendingEdges, TypeOK
  <2> QED BY <2>4, <2>6
<1>10. NotStretched'
  BY DEF Inv, NotStretched, queueVars
<1> QED BY <1>5, <1>6, <1>7, <1>8, <1>9, <1>10 DEF Inv

\* An edge of the Mac Plus button goes behind m_lastMouseButtonCycle.
LEMMA EdgeInv ==
  ASSUME Inv, TypeOK', NEW input \in Inputs, QueueEdge(input)
  PROVE  Inv'
<1> DEFINE at == Larger(now, lastButtonCycle + Debounce)
<1> USE DebounceNat, MaxElapsedPositive
<1>1. TypeOK /\ debounces /\ input.kind = "button"
  BY DEF Inv, QueueEdge, EdgeAt
<1>2. at \in Nat /\ at >= now /\ at >= lastButtonCycle + Debounce
  BY <1>1 DEF TypeOK, Larger
<1>3. /\ Schedule(at, input) /\ phase = "idle" /\ UNCHANGED <<debounces, phase, guestVars>>
      /\ lastButtonCycle' = at /\ hostEdge' = now
  BY DEF QueueEdge, EdgeAt
<1>4. \A e \in PendingEdges : e.cycle \in Nat /\ e.cycle <= lastButtonCycle
  BY <1>1 DEF Inv, EdgesBounded, PendingEdges, TypeOK, Events
<1>5. Numbered' /\ Ahead' /\ Delivered' /\ PlainDue' /\ KindsSorted'
  <2>1. \A e \in events : e.what.kind = input.kind => e.cycle <= at
    BY <1>1, <1>2, <1>4 DEF PendingEdges, TypeOK
  <2> HIDE DEF at
  <2> QED BY <1>1, <1>2, <1>3, <2>1, ScheduleInv
<1>6. \A e \in PendingEdges' :
        e \in PendingEdges \/ (e.cycle = at /\ e.sequence = nextSequence)
  BY <1>3 DEF PendingEdges, Schedule
<1> HIDE DEF at
<1>7. EdgesBounded'
  BY <1>1, <1>2, <1>3, <1>4, <1>6 DEF Inv, EdgesBounded, TypeOK, guestVars
<1>8. ButtonSpaced'
  <2>1. \A e \in PendingEdges : e.sequence \in Nat /\ e.sequence < nextSequence
    BY DEF Inv, Numbered, PendingEdges, TypeOK, Events
  <2>2. \A f \in PendingEdges' : edgeAt' + Debounce < f.cycle + MaxElapsed
    BY <1>1, <1>2, <1>3, <1>4, <1>6 DEF Inv, ButtonSpaced, EdgesBounded, TypeOK, guestVars
  <2>3. \A e, f \in PendingEdges' : e.sequence < f.sequence => e.cycle + Debounce <= f.cycle
    BY <1>1, <1>2, <1>4, <1>6, <2>1 DEF Inv, ButtonSpaced, TypeOK
  <2> QED BY <2>2, <2>3 DEF ButtonSpaced
<1>9. NotStretched'
  <2>1. ~(at > lastButtonCycle + Larger(now - hostEdge, Debounce))
    BY <1>1 DEF Inv, EdgesBounded, TypeOK, Larger, at
  <2> QED BY <2>1 DEF Inv, NotStretched, QueueEdge, EdgeAt, at
<1> QED BY <1>5, <1>7, <1>8, <1>9 DEF Inv

\* Motion, keys and the buttons of an ADB machine are due at once.
LEMMA PlainInv ==
  ASSUME Inv, TypeOK', NEW input \in Inputs, QueuePlain(input)
  PROVE  Inv'
<1> USE DebounceNat, MaxElapsedPositive
<1>1. /\ Schedule(now, input) /\ phase = "idle"
      /\ input.kind # "button" \/ ~debounces
      /\ UNCHANGED <<debounces, phase, lastButtonCycle, hostEdge, stretched, guestVars>>
  BY DEF QueuePlain
<1>2. TypeOK
  BY DEF Inv
<1>3. Numbered' /\ Ahead' /\ Delivered' /\ PlainDue' /\ KindsSorted'
  <2>1. now \in Nat /\ now <= now
    BY <1>2 DEF TypeOK
  <2>2. \A e \in events : e.what.kind = input.kind => e.cycle <= now
    BY <1>1 DEF Inv, PlainDue
  <2> QED BY <1>1, <2>1, <2>2, ScheduleInv
<1>4. debounces => PendingEdges' = PendingEdges
  BY <1>1 DEF PendingEdges, Schedule
<1>5. EdgesBounded' /\ ButtonSpaced' /\ NotStretched'
  BY <1>1, <1>4 DEF Inv, EdgesBounded, ButtonSpaced, NotStretched, guestVars
<1> QED BY <1>3, <1>5 DEF Inv

\* Every step preserves the invariant.
LEMMA InvStep == Inv /\ [Next]_vars => Inv'
<1> SUFFICES ASSUME Inv, [Next]_vars PROVE Inv'
  OBVIOUS
<1>1. TypeOK /\ TypeOK'
  BY TypeStep DEF Inv
<1> USE DebounceNat, MaxElapsedPositive
<1>2. ASSUME NEW input \in Inputs, QueuePlain(input) PROVE Inv'
  BY <1>1, <1>2, PlainInv
<1>3. ASSUME NEW input \in Inputs, QueueDuplicate(input) PROVE Inv'
  BY <1>1, <1>3, StutterInv DEF QueueDuplicate
<1>4. ASSUME NEW input \in Inputs, QueueEdge(input) PROVE Inv'
  BY <1>1, <1>4, EdgeInv
<1>5. ASSUME NEW e \in events, Dispatch(e) PROVE Inv'
  BY <1>1, <1>5, DispatchInv
<1>6. CASE BeginInstruction \/ EndInstruction
  <2>1. UNCHANGED <<debounces, schedulerVars, queueVars, guestVars>>
    BY <1>6 DEF BeginInstruction, EndInstruction
  <2>2. \A e \in events : e.cycle \in Nat /\ now \in Nat
    BY <1>1 DEF TypeOK, Events
  <2>3. Ahead'
    BY <1>6, <2>1, <2>2 DEF Inv, Ahead, Prompt, BeginInstruction, EndInstruction, NothingDue,
                            schedulerVars
  <2>4. Numbered' /\ Delivered' /\ PlainDue' /\ KindsSorted'
    BY <2>1 DEF Inv, Numbered, Delivered, InOrder, Earlier, PlainDue, KindsSorted, KindFifo,
                schedulerVars, guestVars
  <2>5. EdgesBounded' /\ ButtonSpaced' /\ NotStretched'
    BY <2>1 DEF Inv, EdgesBounded, PendingEdges, ButtonSpaced, NotStretched, schedulerVars,
                queueVars, guestVars
  <2> QED BY <1>1, <2>3, <2>4, <2>5 DEF Inv
<1>7. ASSUME NEW elapsed \in 1..MaxElapsed, Execute(elapsed) PROVE Inv'
  <2>1. /\ now' = now + elapsed /\ phase' = "after"
        /\ UNCHANGED <<debounces, nextSequence, events, queueVars, guestVars>>
        /\ \A e \in events : e.cycle > now
    BY <1>7 DEF Execute, AdvanceClock, NothingDue
  <2>2. \A e \in events : e.cycle \in Nat
    BY <1>1 DEF TypeOK, Events
  <2>3. Ahead'
    BY <1>1, <2>1, <2>2 DEF Ahead, Prompt, TypeOK
  <2>4. Numbered' /\ KindsSorted'
    BY <2>1 DEF Inv, Numbered, KindsSorted, KindFifo, guestVars
  <2>5. Delivered' /\ PlainDue'
    BY <1>1, <2>1, <2>2 DEF Inv, Delivered, InOrder, Earlier, PlainDue, guestVars, TypeOK
  <2>6. EdgesBounded' /\ ButtonSpaced' /\ NotStretched'
    BY <2>1 DEF Inv, EdgesBounded, PendingEdges, ButtonSpaced, NotStretched, queueVars, guestVars
  <2> QED BY <1>1, <2>3, <2>4, <2>5, <2>6 DEF Inv
<1>8. CASE Reset
  <2>1. /\ now' = 0 /\ nextSequence' = 0 /\ events' = {} /\ lastButtonCycle' = 0
        /\ hostEdge' = 0 /\ edgeAt' = 0 /\ stretched' = stretched
        /\ delivered' = [cycle |-> 0, sequence |-> 0] /\ seen' = [k \in Kinds |-> 0]
    BY <1>8 DEF Reset, ResetScheduler
  <2>2. Numbered' /\ Ahead' /\ Delivered' /\ PlainDue' /\ KindsSorted'
    BY <2>1 DEF Numbered, Ahead, Prompt, Delivered, InOrder, PlainDue, KindsSorted, KindFifo
  <2>3. EdgesBounded' /\ ButtonSpaced' /\ NotStretched'
    BY <2>1 DEF Inv, EdgesBounded, PendingEdges, ButtonSpaced, NotStretched
  <2> QED BY <1>1, <2>2, <2>3 DEF Inv
<1>9. CASE UNCHANGED vars
  BY <1>1, <1>9, StutterInv DEF vars, queueVars
<1> QED
  BY <1>2, <1>3, <1>4, <1>5, <1>6, <1>7, <1>8, <1>9 DEF Next, Queue, Step, OutOfCycles

-----------------------------------------------------------------------------
\* The strengthened invariant holds of every behaviour.
THEOREM Invariance == Spec => []Inv
<1>1. Init => Inv
  BY InitInv
<1>2. Inv /\ [Next]_vars => Inv'
  BY InvStep
<1> QED BY <1>1, <1>2, PTL DEF Spec

\* The queue, the clock and the button levels keep their types.
THEOREM TypeCorrect == Spec => []TypeOK
<1>1. Inv => TypeOK
  BY DEF Inv
<1> QED BY <1>1, Invariance, PTL

\* Input reaches the guest within the instruction during which it fell due
\* (dispatchDue on both sides of an instruction).
THEOREM PromptHolds == Spec => []Prompt
<1>1. Inv => Prompt
  BY DEF Inv, Ahead
<1> QED BY <1>1, Invariance, PTL

\* Nothing in the scheduler's queue precedes what it has dispatched.
THEOREM InOrderHolds == Spec => []InOrder
<1>1. Inv => InOrder
  BY DEF Inv, Delivered
<1> QED BY <1>1, Invariance, PTL

\* The guest sees motion, keys and button edges each in the host's order.
THEOREM KindFifoHolds == Spec => []KindFifo
<1>1. Inv => KindFifo
  BY DEF Inv, KindsSorted
<1> QED BY <1>1, Invariance, PTL

\* Edges of the Mac Plus button keep the debounce distance.
THEOREM ButtonSpacedHolds == Spec => []ButtonSpaced
<1>1. Inv => ButtonSpaced
  BY DEF Inv
<1> QED BY <1>1, Invariance, PTL

\* The debounce of the Mac Plus never makes a press longer than the host's or
\* the interval.
THEOREM NotStretchedHolds == Spec => []NotStretched
<1>1. Inv => NotStretched
  BY DEF Inv
<1> QED BY <1>1, Invariance, PTL

-----------------------------------------------------------------------------
\* The last edge on its way carries what the host last asked for.  With none on
\* its way the guest has it already, unless a reset threw an edge away: then an
\* ADB machine's button is up, and the Mac Plus's may be anything.
ButtonTracked ==
  /\ \A f \in PendingEdges :
       (\A e \in PendingEdges : e.sequence <= f.sequence) => f.what.pressed = hostPressed
  /\ debounces /\ (resets = 0 \/ PendingEdges # {}) => queuedPressed = hostPressed
  /\ PendingEdges = {} =>
       guestPressed = hostPressed \/ (resets > 0 /\ (debounces \/ ~guestPressed))

\* The queue's newest button edge is the one that was made last.
LEMMA ScheduleTracked ==
  ASSUME Inv, NEW input \in Inputs, NEW cycle \in Nat, input.kind = "button",
         Schedule(cycle, input), hostPressed' = input.pressed
  PROVE  /\ PendingEdges' # {}
         /\ \A f \in PendingEdges' :
              (\A e \in PendingEdges' : e.sequence <= f.sequence) => f.what.pressed = hostPressed'
<1> DEFINE new == [cycle |-> cycle, sequence |-> nextSequence, what |-> input]
<1>1. PendingEdges' = PendingEdges \cup {new}
  BY DEF PendingEdges, Schedule
<1>2. new.sequence = nextSequence /\ new.what = input
  OBVIOUS
<1>3. nextSequence \in Nat /\ \A e \in PendingEdges : e.sequence \in Nat /\ e.sequence < nextSequence
  BY DEF Inv, Numbered, PendingEdges, TypeOK, Events
<1> HIDE DEF new
<1> QED BY <1>1, <1>2, <1>3

\* An edge leaves the queue before every edge made after it, so the last one to
\* leave is the last one made.
LEMMA DispatchTracked ==
  ASSUME Inv, Inv', ButtonTracked, NEW e \in events, Dispatch(e)
  PROVE  ButtonTracked'
<1>1. events' = events \ {e} /\ UNCHANGED <<debounces, hostPressed, queuedPressed, resets>>
  BY DEF Dispatch, Pop, queueVars
<1>2. \A f \in events' : f.what.kind = e.what.kind => e.sequence < f.sequence
  <2>1. seen'[e.what.kind] = e.sequence + 1
    BY DEF Inv, TypeOK, Events, Inputs, Dispatch
  <2>2. \A f \in events' : f.sequence \in Nat /\ f.sequence >= seen'[f.what.kind]
    BY <1>1 DEF Inv, KindsSorted, KindFifo, TypeOK, Events
  <2>3. e.sequence \in Nat
    BY DEF Inv, TypeOK, Events
  <2> QED BY <2>1, <2>2, <2>3
<1>3. \A f \in events : f.sequence \in Nat
  BY DEF Inv, TypeOK, Events
<1>4. CASE e.what.kind # "button"
  <2>1. PendingEdges' = PendingEdges /\ guestPressed' = guestPressed
    BY <1>1, <1>4 DEF PendingEdges, Dispatch
  <2> QED BY <1>1, <2>1 DEF ButtonTracked
<1>5. CASE e.what.kind = "button"
  <2>1. PendingEdges' = PendingEdges \ {e} /\ e \in PendingEdges /\ guestPressed' = e.what.pressed
    BY <1>1, <1>5 DEF PendingEdges, Dispatch
  <2>2. \A f \in PendingEdges' : e.sequence < f.sequence
    BY <1>1, <1>2, <1>5 DEF PendingEdges
  <2>3. ASSUME NEW f \in PendingEdges', \A g \in PendingEdges' : g.sequence <= f.sequence
        PROVE  f.what.pressed = hostPressed'
    <3>1. \A g \in PendingEdges : g.sequence <= f.sequence
      BY <1>3, <2>1, <2>2, <2>3 DEF PendingEdges
    <3> QED BY <1>1, <2>1, <3>1 DEF ButtonTracked
  <2>4. ASSUME PendingEdges' = {} PROVE guestPressed' = hostPressed'
    <3>1. PendingEdges = {e}
      BY <2>1, <2>4
    <3> QED BY <1>1, <1>3, <2>1, <3>1 DEF ButtonTracked
  <2> QED BY <1>1, <2>1, <2>3, <2>4 DEF ButtonTracked
<1> QED BY <1>4, <1>5

\* Every step keeps track of the host's button.
LEMMA TrackedStep == Inv /\ ButtonTracked /\ [Next]_vars => ButtonTracked'
<1> SUFFICES ASSUME Inv, ButtonTracked, [Next]_vars PROVE ButtonTracked'
  OBVIOUS
<1>1. TypeOK /\ Inv'
  BY InvStep DEF Inv
<1>2. ASSUME UNCHANGED <<debounces, events, queuedPressed, guestPressed, hostPressed, resets>>
      PROVE  ButtonTracked'
  BY <1>2 DEF ButtonTracked, PendingEdges
<1>3. ASSUME NEW input \in Inputs, QueuePlain(input) PROVE ButtonTracked'
  <2>1. /\ Schedule(now, input) /\ UNCHANGED <<debounces, queuedPressed, guestPressed, resets>>
        /\ hostPressed' = IF input.kind = "button" THEN input.pressed ELSE hostPressed
        /\ input.kind # "button" \/ ~debounces
    BY <1>3 DEF QueuePlain, guestVars
  <2>2. CASE input.kind # "button"
    <3>1. PendingEdges' = PendingEdges
      BY <2>1, <2>2 DEF PendingEdges, Schedule
    <3> QED BY <2>1, <2>2, <3>1 DEF ButtonTracked
  <2>3. CASE input.kind = "button"
    <3>1. now \in Nat
      BY <1>1 DEF TypeOK
    <3> QED BY <2>1, <2>3, <3>1, ScheduleTracked DEF ButtonTracked
  <2> QED BY <2>2, <2>3
<1>4. ASSUME NEW input \in Inputs, QueueDuplicate(input) PROVE ButtonTracked'
  <2>1. /\ debounces /\ hostPressed' = queuedPressed
        /\ UNCHANGED <<debounces, events, queuedPressed, guestPressed, resets>>
    BY <1>4 DEF QueueDuplicate, schedulerVars, guestVars
  <2>2. PendingEdges' = PendingEdges
    BY <2>1 DEF PendingEdges
  <2>3. resets = 0 \/ resets > 0
    BY <1>1 DEF TypeOK
  <2> QED BY <2>1, <2>2, <2>3 DEF ButtonTracked
<1>5. ASSUME NEW input \in Inputs, QueueEdge(input) PROVE ButtonTracked'
  <2> DEFINE at == Larger(now, lastButtonCycle + Debounce)
  <2>1. at \in Nat
    BY <1>1, DebounceNat DEF TypeOK, Larger
  <2>2. /\ Schedule(at, input) /\ input.kind = "button"
        /\ hostPressed' = input.pressed /\ queuedPressed' = input.pressed
    BY <1>5 DEF QueueEdge, EdgeAt
  <2> HIDE DEF at
  <2> QED BY <2>1, <2>2, ScheduleTracked DEF ButtonTracked
<1>6. CASE BeginInstruction \/ EndInstruction
  BY <1>2, <1>6 DEF BeginInstruction, EndInstruction, schedulerVars, queueVars, guestVars
<1>7. ASSUME NEW e \in events, Dispatch(e) PROVE ButtonTracked'
  BY <1>1, <1>7, DispatchTracked
<1>8. ASSUME NEW elapsed \in 1..MaxElapsed, Execute(elapsed) PROVE ButtonTracked'
  BY <1>2, <1>8 DEF Execute, AdvanceClock, queueVars, guestVars
<1>9. CASE Reset
  <2>1. PendingEdges' = {} /\ resets' > 0 /\ (debounces' \/ guestPressed' = FALSE)
    BY <1>1, <1>9 DEF Reset, ResetScheduler, PendingEdges, TypeOK
  <2> QED BY <2>1 DEF ButtonTracked
<1>10. CASE UNCHANGED vars
  BY <1>2, <1>10 DEF vars, schedulerVars, queueVars, guestVars
<1> QED
  BY <1>3, <1>4, <1>5, <1>6, <1>7, <1>8, <1>9, <1>10 DEF Next, Queue, Step, OutOfCycles

\* With no button edge left to deliver, the guest's button is the host's until a
\* reset, and on an ADB machine the host's release holds across resets too.
THEOREM ButtonSettlesHolds == Spec => []ButtonSettles
<1>1. Init => ButtonTracked
  BY DEF Init, InitScheduler, ButtonTracked, PendingEdges
<1>2. Inv /\ ButtonTracked /\ [Next]_vars => ButtonTracked'
  BY TrackedStep
<1>3. Inv /\ ButtonTracked => ButtonSettles
  BY DEF Inv, TypeOK, ButtonTracked, ButtonSettles, ButtonFollowsHost, AdbReleaseReachesGuest,
         ReleaseReachesGuest
<1> QED BY <1>1, <1>2, <1>3, Invariance, PTL DEF Spec

=============================================================================

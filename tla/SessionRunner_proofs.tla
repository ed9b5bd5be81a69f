------------------------- MODULE SessionRunner_proofs -------------------------
(***************************************************************************)
(* Pausing is a barrier.  Agreement and StandstillExplained speak of the   *)
(* moments when the Qt thread is back in an event loop; Inv says what      *)
(* holds at every point of a handler, so that each step can be checked by  *)
(* itself.                                                                 *)
(***************************************************************************)
EXTENDS SessionRunner, TLAPS

\* Between the two halves of a setPaused, and between reconfigure and the
\* setPaused that follows it, runner and session may disagree.
Between == qt \in {"setPaused", "loaded"} \/ ctl # "idle"

\* The first half has already decided what the second half will write.
HalfDone ==
  /\ qt = "setPaused" => runnerPaused = (windowPaused \/ ~windowRom)
  /\ ctl # "idle" => qt \in EventLoop /\ runnerPaused = (ctl = "pause")

PauseAgrees == ~Between => (runnerPaused => sessionPaused)

\* runFrame has taken the request and is about to act on it.
Acting == qt \in {"powerOff", "restart"}

Explained ==
  ~Between /\ ~Acting /\ ~runnerPaused /\ romLoaded /\ sessionPaused =>
    powerRequest # "None" \/ requestDropped

Inv ==
  /\ TypeOK
  /\ windowRom = romLoaded
  /\ ~romLoaded => sessionPaused
  /\ HalfDone
  /\ PauseAgrees
  /\ Explained

\* The state before the window's constructor runs.
LEMMA InitInv == Init => Inv
BY DEF Init, Inv, TypeOK, QtAt, EventLoop, Dialogs, PauseReturns, LoadReturns,
       PowerRequests, HalfDone, PauseAgrees, Explained, Between, Acting

\* The first half of a setPaused keeps the types of what it writes.
LEMMA BeginType ==
  ASSUME TypeOK, NEW paused \in BOOLEAN, NEW return \in PauseReturns,
         BeginSetPaused(paused, return)
  PROVE  /\ windowPaused' \in BOOLEAN /\ runnerPaused' \in BOOLEAN
         /\ qt' \in QtAt /\ afterPause' \in PauseReturns
BY DEF TypeOK, BeginSetPaused, QtAt

\* Every step keeps the variables within their types.
LEMMA TypeStep == TypeOK /\ [Next]_vars => TypeOK'
<1> SUFFICES ASSUME TypeOK, [Next]_vars PROVE TypeOK'
  OBVIOUS
<1> USE DEF TypeOK, runnerVars, sessionVars, windowVars, qtVars
<1>1. CASE WorkerStep
  <2>1. UNCHANGED <<running, runnerPaused, romLoaded, requestDropped, windowVars, qtVars, ctl>>
    BY <1>1 DEF WorkerStep, WorkerLoop, WorkerCheck, WorkerRun, WorkerWaitOver, WorkerGoto,
                SessionRunCycles
  <2>2. worker' \in {"none", "loop", "check", "pauseWait", "run", "wait", "exited"}
    BY <1>1 DEF WorkerStep, WorkerLoop, WorkerCheck, WorkerRun, WorkerWaitOver, WorkerGoto
  <2>3. sessionPaused' \in BOOLEAN /\ powerRequest' \in {"None"} \cup PowerRequests
    BY <1>1 DEF WorkerStep, WorkerLoop, WorkerCheck, WorkerRun, WorkerWaitOver,
                SessionRunCycles
  <2>4. ran' \in BOOLEAN
    <3>1. ran' = ~ran \/ ran' = ran
      BY <1>1 DEF WorkerStep, WorkerLoop, WorkerCheck, WorkerRun, WorkerWaitOver, SessionRunCycles
    <3> QED BY <3>1
  <2> QED BY <2>1, <2>2, <2>3, <2>4
<1>2. ASSUME NEW paused \in BOOLEAN, NEW return \in PauseReturns,
             BeginSetPaused(paused, return), afterLoad' \in LoadReturns,
             wasPaused' \in BOOLEAN, closeArmed' \in BOOLEAN,
             UNCHANGED <<running, worker, sessionVars, windowRom, chooser, ctl, ran>>
      PROVE  TypeOK'
  BY <1>2, BeginType
<1>3. CASE Construct \/ ResetAction \/ ConfigureWithReset
  <2>1. BeginSetPaused(TRUE, "reconfigure") /\ afterLoad' \in LoadReturns
    BY <1>3 DEF Construct, ResetAction, ConfigureWithReset, BeginLoadAndReset, LoadReturns
  <2>2. UNCHANGED <<running, worker, sessionVars, windowRom, wasPaused, closeArmed, chooser, ctl, ran>>
    BY <1>3 DEF Construct, ResetAction, ConfigureWithReset
  <2> QED BY <1>2, <2>1, <2>2 DEF PauseReturns
<1>4. CASE Loaded
  <2>1. afterLoad \in PauseReturns
    BY DEF LoadReturns, PauseReturns
  <2>2. (~windowRom) \in BOOLEAN
    OBVIOUS
  <2> QED BY <1>2, <1>4, <2>1, <2>2 DEF Loaded
<1>5. CASE Started \/ PowerOff
  BY <1>2, <1>5 DEF Started, PowerOff, PauseReturns
<1>6. CASE PauseAction
  <2>1. (~windowPaused) \in BOOLEAN
    OBVIOUS
  <2> QED BY <1>2, <1>6, <2>1 DEF PauseAction, PauseReturns
<1>7. ASSUME NEW dialog \in {"configDialog", "panicPrompt"}, OpenDialog(dialog)
      PROVE  TypeOK'
  BY <1>2, <1>7 DEF OpenDialog, PauseReturns
<1>8. CASE ConfigureRestore \/ PanicDone
  <2>1. CASE BeginSetPaused(wasPaused, "idle") \/ BeginSetPaused(FALSE, "idle")
    BY <1>2, <1>8, <2>1 DEF ConfigureRestore, PanicDone, PauseReturns
  <2>2. CASE qt' = "idle" /\ UNCHANGED <<windowPaused, runnerPaused, afterPause>>
    <3>1. UNCHANGED <<running, worker, sessionVars, windowRom, wasPaused, closeArmed,
                      afterLoad, chooser, ctl, ran>>
      BY <1>8 DEF ConfigureRestore, PanicDone
    <3> QED BY <2>2, <3>1 DEF QtAt, EventLoop
  <2> QED BY <1>8, <2>1, <2>2 DEF ConfigureRestore, PanicDone
<1>9. CASE Reconfigure
  BY ZenonT(60), <1>9 DEF Reconfigure, SessionReconfigure, QtAt
<1>10. CASE FinishSetPaused
  <2>1. qt' \in QtAt
    BY <1>10 DEF FinishSetPaused, QtAt, EventLoop, Dialogs, PauseReturns
  <2>2. sessionPaused' \in BOOLEAN
    BY <1>10 DEF FinishSetPaused, SessionSetPaused
  <2>3. /\ requestDropped' = FALSE /\ running' = running /\ runnerPaused' = runnerPaused
        /\ worker' = worker /\ romLoaded' = romLoaded /\ powerRequest' = powerRequest
    BY <1>10 DEF FinishSetPaused, SessionSetPaused
  <2>4. /\ windowRom' = windowRom /\ windowPaused' = windowPaused /\ wasPaused' = wasPaused
        /\ closeArmed' = closeArmed /\ afterPause' = afterPause /\ afterLoad' = afterLoad
        /\ chooser' = chooser /\ ctl' = ctl /\ ran' = ran
    BY <1>10 DEF FinishSetPaused
  <2>5. /\ (requestDropped \in BOOLEAN)' /\ (running \in BOOLEAN)' /\ (runnerPaused \in BOOLEAN)'
        /\ (worker \in {"none", "loop", "check", "pauseWait", "run", "wait", "exited"})'
        /\ (romLoaded \in BOOLEAN)' /\ (powerRequest \in {"None"} \cup PowerRequests)'
    BY <2>3
  <2>6. /\ (windowRom \in BOOLEAN)' /\ (windowPaused \in BOOLEAN)' /\ (wasPaused \in BOOLEAN)'
        /\ (closeArmed \in BOOLEAN)' /\ (afterPause \in PauseReturns)' /\ (afterLoad \in LoadReturns)'
        /\ (chooser \in BOOLEAN)' /\ (ctl \in {"idle", "pause", "resume"})' /\ (ran \in BOOLEAN)'
    BY <2>4
  <2> QED BY <2>1, <2>2, <2>5, <2>6
<1>11. CASE Start
  BY <1>11 DEF Start, QtAt
<1>12. CASE PanicStep \/ Close \/ Joined
  <2>1. qt' \in QtAt
    BY <1>12 DEF PanicStep, Close, Joined, QtAt, EventLoop, Dialogs
  <2>2. running' \in BOOLEAN
    BY <1>12 DEF PanicStep, Close, Joined
  <2>3. UNCHANGED <<runnerPaused, worker, sessionVars, windowVars, afterPause, afterLoad, chooser, ctl, ran>>
    BY <1>12 DEF PanicStep, Close, Joined
  <2> QED BY <2>1, <2>2, <2>3
<1>13. CASE RunFrame
  <2>1. qt' \in {"powerOff", "restart", "idle"}
    BY <1>13 DEF RunFrame, PowerRequests
  <2> QED BY <1>13, <2>1 DEF RunFrame, SessionTakePowerRequest, QtAt, EventLoop
<1>14. ASSUME NEW command \in {"pause", "resume"}, ControlSetPaused(command)
       PROVE  TypeOK'
  BY <1>14 DEF ControlSetPaused
<1>15. CASE ControlFinish \/ ControlReset
  BY ZenonT(60), <1>15 DEF ControlFinish, ControlReset, SessionSetPaused, SessionReset
<1>16. CASE Gone \/ UNCHANGED vars
  BY <1>16 DEF Gone, vars
<1>17. CASE OpenChooser \/ CloseChooser
  <2>1. chooser' \in BOOLEAN
    BY <1>17 DEF OpenChooser, CloseChooser
  <2>2. UNCHANGED <<runnerVars, sessionVars, windowVars, qt, afterPause, afterLoad, ctl, ran>>
    BY <1>17 DEF OpenChooser, CloseChooser
  <2> QED BY <2>1, <2>2
<1> QED
  BY <1>1, <1>3, <1>4, <1>5, <1>6, <1>7, <1>8, <1>9, <1>10, <1>11, <1>12, <1>13, <1>14,
     <1>15, <1>16, <1>17
  DEF Next, HandlerStep, Event

\* Every step preserves what a handler has promised its next half.
LEMMA InvStep == Inv /\ [Next]_vars => Inv'
<1> SUFFICES ASSUME Inv, [Next]_vars PROVE Inv'
  OBVIOUS
<1> DEFINE Rest == /\ windowRom = romLoaded
                   /\ ~romLoaded => sessionPaused
                   /\ HalfDone /\ PauseAgrees /\ Explained
<1>0. TypeOK'
  BY TypeStep DEF Inv
<1> SUFFICES Rest'
  BY <1>0 DEF Inv
<1> USE DEF Inv, HalfDone, PauseAgrees, Explained, Between, Acting
<1> USE DEF runnerVars, sessionVars, windowVars, qtVars, Inviting
<1>1. CASE WorkerLoop \/ WorkerCheck \/ WorkerWaitOver
  BY <1>1 DEF WorkerLoop, WorkerCheck, WorkerWaitOver, WorkerGoto
<1>2. CASE WorkerRun
  BY <1>2 DEF WorkerRun, WorkerGoto, SessionRunCycles, PowerRequests
<1>3. ASSUME NEW paused \in BOOLEAN, NEW return, BeginSetPaused(paused, return), ctl = "idle",
             UNCHANGED <<sessionVars, windowRom, ctl>>
      PROVE  Rest'
  BY <1>3 DEF BeginSetPaused
<1>4. qt \notin EventLoop => ctl = "idle"
  BY DEF TypeOK
<1>5. CASE Construct \/ ResetAction \/ ConfigureWithReset
  <2>1. BeginSetPaused(TRUE, "reconfigure") /\ ctl = "idle"
    BY <1>4, <1>5 DEF Construct, ResetAction, ConfigureWithReset, BeginLoadAndReset,
                      EventLoop, Dialogs
  <2>2. UNCHANGED <<sessionVars, windowRom, ctl>>
    BY <1>5 DEF Construct, ResetAction, ConfigureWithReset
  <2> QED BY <1>3, <2>1, <2>2
<1>6. CASE Loaded
  <2>1. (~windowRom) \in BOOLEAN
    OBVIOUS
  <2>2. ctl = "idle"
    BY <1>4, <1>6 DEF Loaded, EventLoop, Dialogs
  <2> QED BY <1>3, <1>6, <2>1, <2>2 DEF Loaded
<1>7. CASE Started \/ PowerOff
  <2>1. ctl = "idle"
    BY <1>4, <1>7 DEF Started, PowerOff, EventLoop, Dialogs
  <2> QED BY <1>3, <1>7, <2>1 DEF Started, PowerOff
<1>8. CASE PauseAction
  <2>1. (~windowPaused) \in BOOLEAN
    OBVIOUS
  <2> QED BY <1>3, <1>8, <2>1 DEF PauseAction
<1>9. ASSUME NEW dialog \in {"configDialog", "panicPrompt"}, OpenDialog(dialog)
      PROVE  Rest'
  BY <1>3, <1>9 DEF OpenDialog
<1>10. CASE ConfigureRestore \/ PanicDone
  <2>1. ctl = "idle" /\ qt \in {"configDialog", "configRestore", "panicPrompt", "panicBox"}
    BY <1>4, <1>10 DEF ConfigureRestore, PanicDone, EventLoop, Dialogs
  <2>2. UNCHANGED <<sessionVars, windowRom, ctl>>
    BY <1>10 DEF ConfigureRestore, PanicDone
  <2>3. CASE BeginSetPaused(wasPaused, "idle") \/ BeginSetPaused(FALSE, "idle")
    BY <1>3, <2>1, <2>2, <2>3 DEF TypeOK
  <2>4. CASE qt' = "idle" /\ UNCHANGED <<windowPaused, runnerPaused, afterPause>>
    BY <2>1, <2>2, <2>4
  <2> QED BY <1>10, <2>3, <2>4 DEF ConfigureRestore, PanicDone
<1>11. CASE Reconfigure
  <2>1. ctl = "idle"
    BY <1>4, <1>11 DEF Reconfigure, EventLoop, Dialogs
  <2>2. qt' = "loaded" /\ ctl' = "idle"
    BY <1>11, <2>1 DEF Reconfigure
  <2>3. PICK loads \in BOOLEAN : SessionReconfigure(loads) /\ windowRom' = loads
    BY <1>11 DEF Reconfigure
  <2>4. windowRom' = romLoaded' /\ (~romLoaded' => sessionPaused')
    BY <2>3 DEF SessionReconfigure
  <2> QED BY <2>2, <2>4
<1>12. CASE FinishSetPaused
  <2>1. ctl = "idle" /\ ctl' = ctl
    BY <1>4, <1>12 DEF FinishSetPaused, EventLoop, Dialogs
  <2>2. qt' # "setPaused"
    BY <1>12 DEF FinishSetPaused, TypeOK, PauseReturns
  <2> QED BY <1>12, <2>1, <2>2 DEF FinishSetPaused, SessionSetPaused
<1>13. CASE Start
  BY <1>4, <1>13 DEF Start, EventLoop, Dialogs
<1>14. CASE PanicStep \/ Close \/ Joined
  <2>1. ctl = "idle" /\ qt \notin {"setPaused", "loaded", "powerOff", "restart"}
    BY <1>4, <1>14 DEF PanicStep, Close, Joined, EventLoop, Dialogs
  <2>2. qt' # "setPaused"
    BY <1>14 DEF PanicStep, Close, Joined
  <2>3. UNCHANGED <<runnerPaused, sessionVars, windowRom, windowPaused, ctl>>
    BY <1>14 DEF PanicStep, Close, Joined
  <2>4. HalfDone'
    BY <2>1, <2>2, <2>3
  <2>5. ~Between /\ ~Acting
    BY <2>1
  <2>6. PauseAgrees' /\ Explained'
    BY <2>3, <2>5
  <2> QED BY <2>3, <2>4, <2>6
<1>15. CASE RunFrame
  <2>1. CASE powerRequest = "None"
    BY <1>15, <2>1 DEF RunFrame, SessionTakePowerRequest
  <2>2. CASE powerRequest # "None"
    <3>1. qt' \in {"powerOff", "restart"}
      BY <1>15, <2>2 DEF RunFrame, TypeOK, PowerRequests
    <3> QED BY <1>15, <3>1 DEF RunFrame, SessionTakePowerRequest
  <2> QED BY <2>1, <2>2
<1>16. ASSUME NEW command \in {"pause", "resume"}, ControlSetPaused(command)
       PROVE  Rest'
  BY <1>16 DEF ControlSetPaused, EventLoop, Dialogs
<1>17. CASE ControlFinish
  BY <1>17 DEF ControlFinish, SessionSetPaused, EventLoop, Dialogs
<1>18. CASE ControlReset
  BY <1>18 DEF ControlReset, SessionReset, EventLoop, Dialogs
<1>19. CASE Gone \/ UNCHANGED vars
  BY <1>19 DEF Gone, vars
<1>20. CASE OpenChooser \/ CloseChooser
  BY <1>20 DEF OpenChooser, CloseChooser
<1> QED
  BY <1>1, <1>2, <1>5, <1>6, <1>7, <1>8, <1>9, <1>10, <1>11, <1>12, <1>13, <1>14, <1>15,
     <1>16, <1>17, <1>18, <1>19, <1>20
  DEF Next, HandlerStep, Event, WorkerStep

\* Inv holds throughout.
THEOREM Invariance == Spec => []Inv
BY InitInv, InvStep, PTL DEF Spec

\* The variables of runner, session, window and control server keep their types.
THEOREM TypeCorrect == Spec => []TypeOK
<1>1. Inv => TypeOK
  BY DEF Inv
<1> QED BY Invariance, <1>1, PTL

\* Runner, session and window agree whenever the Qt thread is in an event loop,
\* and a session without a ROM is paused at every moment.
THEOREM AgreementHolds == Spec => []Agreement
<1>1. Inv => Agreement
  BY DEF Inv, Agreement, PauseAgrees, Between, Settled, EventLoop, Dialogs
<1> QED BY Invariance, <1>1, PTL

\* A session that stands still has its reason.
THEOREM StandstillHolds == Spec => []StandstillExplained
<1>1. Inv => StandstillExplained
  BY DEF Inv, StandstillExplained, Explained, Between, Acting, Settled, EventLoop, Dialogs
<1> QED BY Invariance, <1>1, PTL

\* setPaused is a barrier for the worker.
THEOREM PauseBarrierHolds == Spec => PauseBarrier
<1>1. Inv /\ [Next]_vars /\ Executes => ~sessionPaused
  <2> SUFFICES ASSUME Inv, [Next]_vars, Executes PROVE ~sessionPaused
    OBVIOUS
  <2>1. CASE WorkerStep
    BY <2>1 DEF Executes, WorkerStep, WorkerLoop, WorkerCheck, WorkerRun, WorkerWaitOver,
                SessionRunCycles
  <2>2. CASE HandlerStep \/ Event
    <3>1. ran' = ran
      BY <2>2 DEF HandlerStep, Event, Construct, Reconfigure, Loaded, Start, Started,
                  FinishSetPaused, ResetAction, ConfigureRestore, PanicStep, PowerOff, Joined,
                  ControlFinish, PauseAction, Close, RunFrame, OpenDialog, ConfigureWithReset,
                  PanicDone, ControlSetPaused, ControlReset, OpenChooser, CloseChooser
    <3> QED BY <3>1 DEF Executes
  <2>3. CASE Gone \/ UNCHANGED vars
    BY <2>3 DEF Executes, Gone, vars
  <2> QED BY <2>1, <2>2, <2>3 DEF Next
<1>2. Inv /\ ~sessionPaused => ~(Settled /\ runnerPaused)
  BY DEF Inv, PauseAgrees, Between, Settled, EventLoop, Dialogs
<1>3. Inv /\ [Next]_vars => [Executes => ~(Settled /\ runnerPaused)]_vars
  BY <1>1, <1>2
<1> QED BY Invariance, <1>3, PTL DEF Spec, PauseBarrier

=============================================================================

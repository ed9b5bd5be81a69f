--------------------------- MODULE SessionRunner ---------------------------
(***************************************************************************)
(* Who may run the guest, and when: the emulation worker of                *)
(* core/SessionRunner.cpp, the pause/ROM/power state of                    *)
(* core/EmulationSession.cpp, the window of session/EmulatorWindow.cpp and *)
(* the control server of session/SessionControlServer.cpp.                 *)
(*                                                                         *)
(* There are two threads.  The worker runs workerLoop.  The Qt thread runs *)
(* event handlers one after the other, window handlers and control-server  *)
(* commands alike; a modal dialog runs a nested event loop in which timers *)
(* and the control server are still served.  Two handlers pause before     *)
(* they open theirs; those that choose an image or show details do not,    *)
(* and runFrame goes on in them.  A facade call is one step: it runs       *)
(* under the session mutex (module HostLock).  The runner's own flags are  *)
(* atomics that are read and written outside that mutex, so a handler that *)
(* touches both is several steps.  The runner's waits are all bounded, so  *)
(* a wait is a step that ends at any moment and notify_all, which only     *)
(* ends it earlier, has no effect to model; module InputPacing has the     *)
(* choice between the waits.                                               *)
(***************************************************************************)
EXTENDS Naturals

VARIABLES
  running,         \* SessionRunner::m_running
  runnerPaused,    \* SessionRunner::m_paused
  worker,          \* where workerLoop is
  romLoaded,       \* EmulationSession::m_romLoaded
  sessionPaused,   \* EmulationSession::m_paused
  powerRequest,    \* EmulationSession::m_powerRequest
  windowRom,       \* EmulatorWindow::m_romLoaded
  windowPaused,    \* EmulatorWindow::m_paused
  wasPaused,       \* wasPaused / !wasRunning of the handler in progress
  qt,              \* where the Qt thread's window handler is
  chooser,         \* an image picker or a details box is open, under that handler
  afterPause,      \* where setPaused returns to
  afterLoad,       \* where loadAndReset returns to
  ctl,             \* where the Qt thread's control-server handler is
  closeArmed,      \* the one-second timer armed by a guest power-off runs
  requestDropped,  \* history: session.reset() discarded a pending request
                   \* and nobody has set the session's pause flag since
  ran              \* history: changes with every quantum of guest instructions

runnerVars  == <<running, runnerPaused, worker>>
sessionVars == <<romLoaded, sessionPaused, powerRequest, requestDropped>>
windowVars  == <<windowRom, windowPaused, wasPaused, closeArmed>>
qtVars      == <<qt, chooser, afterPause, afterLoad>>
vars == <<runnerVars, sessionVars, windowVars, qtVars, ctl, ran>>

PowerRequests == {"PowerOff", "Restart"}

\* Where a handler is in (or below) an event loop that serves the control server;
\* "idle" is the main one or, while one is open, the chooser's.
Dialogs == {"configDialog", "panicPrompt", "panicBox"}
EventLoop == {"idle"} \cup Dialogs

PauseReturns == {"idle", "reconfigure", "configDialog", "panicPrompt", "start", "configRestore"}
LoadReturns == {"start", "idle", "configRestore"}

QtAt == EventLoop \cup {"construct", "reconfigure", "loaded", "start", "started",
                        "setPaused", "configRestore", "panicFrame", "panicCapture",
                        "powerOff", "restart", "join", "joinUnder", "gone", "crashed"}

TypeOK ==
  /\ running \in BOOLEAN /\ runnerPaused \in BOOLEAN
  /\ worker \in {"none", "loop", "check", "pauseWait", "run", "wait", "exited"}
  /\ romLoaded \in BOOLEAN /\ sessionPaused \in BOOLEAN
  /\ powerRequest \in {"None"} \cup PowerRequests
  /\ windowRom \in BOOLEAN /\ windowPaused \in BOOLEAN /\ wasPaused \in BOOLEAN
  /\ qt \in QtAt /\ chooser \in BOOLEAN /\ afterPause \in PauseReturns /\ afterLoad \in LoadReturns
  /\ ctl \in {"idle", "pause", "resume"}
  /\ closeArmed \in BOOLEAN /\ requestDropped \in BOOLEAN /\ ran \in BOOLEAN

Init ==
  /\ running = FALSE /\ runnerPaused = TRUE /\ worker = "none"
  /\ romLoaded = FALSE /\ sessionPaused = TRUE /\ powerRequest = "None"
  /\ windowRom = FALSE /\ windowPaused = TRUE /\ wasPaused = TRUE
  /\ qt = "construct" /\ chooser = FALSE /\ afterPause = "idle" /\ afterLoad = "start"
  /\ ctl = "idle" /\ closeArmed = FALSE /\ requestDropped = FALSE
  /\ ran = FALSE

-----------------------------------------------------------------------------
\* EmulationSession, each under the session mutex

\* setPaused(): a session without a ROM stays paused.
SessionSetPaused(paused) ==
  /\ sessionPaused' = (paused \/ ~romLoaded)
  /\ requestDropped' = FALSE
  /\ UNCHANGED <<romLoaded, powerRequest>>

\* reconfigure(): a new machine, whose ROM loads or does not (a machine id that
\* no createMachine case knows ends as if it did not).
SessionReconfigure(loads) ==
  /\ romLoaded' = loads
  /\ sessionPaused' = ~loads
  /\ powerRequest' = "None"
  /\ requestDropped' = FALSE

\* reset(): clears the request, and leaves m_paused as the request set it.
SessionReset ==
  /\ powerRequest' = IF romLoaded THEN "None" ELSE powerRequest
  /\ requestDropped' = (requestDropped \/ (romLoaded /\ powerRequest # "None"))
  /\ UNCHANGED <<romLoaded, sessionPaused>>

\* takePowerRequest()
SessionTakePowerRequest ==
  /\ powerRequest' = "None"
  /\ UNCHANGED <<romLoaded, sessionPaused, requestDropped>>

\* Defect: runCycles does not look at m_paused.
SessionRunsPaused ==
  /\ ran' = ~ran
  /\ \/ UNCHANGED <<sessionPaused, powerRequest>>
     \/ powerRequest' \in PowerRequests /\ sessionPaused' = TRUE
  /\ UNCHANGED <<romLoaded, requestDropped>>

\* Defect: a power request pauses the session and is not recorded.
SessionLosesRequest ==
  /\ \/ sessionPaused /\ UNCHANGED <<sessionPaused, ran>>
     \/ ~sessionPaused /\ ran' = ~ran /\ sessionPaused' \in BOOLEAN
  /\ UNCHANGED <<romLoaded, requestDropped, powerRequest>>

\* runCycles(): nothing while paused; otherwise a quantum, in which the guest
\* may ask to be powered off or restarted, which pauses the session.
SessionRunCycles ==
  /\ \/ sessionPaused /\ UNCHANGED <<sessionPaused, powerRequest, ran>>
     \/ ~sessionPaused /\ ran' = ~ran /\ UNCHANGED <<sessionPaused, powerRequest>>
     \/ /\ ~sessionPaused
        /\ ran' = ~ran
        /\ powerRequest' \in PowerRequests
        /\ sessionPaused' = TRUE
  /\ UNCHANGED <<romLoaded, requestDropped>>

-----------------------------------------------------------------------------
\* SessionRunner::workerLoop

WorkerGoto(from, to) ==
  /\ worker = from
  /\ worker' = to
  /\ UNCHANGED <<running, runnerPaused, windowVars, qtVars, ctl>>

\* while (m_running)
WorkerLoop ==
  /\ WorkerGoto("loop", IF running THEN "check" ELSE "exited")
  /\ UNCHANGED <<sessionVars, ran>>

\* if (m_paused): a separate read of another atomic
WorkerCheck ==
  /\ WorkerGoto("check", IF runnerPaused THEN "pauseWait" ELSE "run")
  /\ UNCHANGED <<sessionVars, ran>>

\* m_session.runCycles(), however long ago m_paused was read
WorkerRun ==
  /\ WorkerGoto("run", "wait")
  /\ SessionRunCycles

\* Defect: the paused worker's wait has no time limit and is never notified.
WorkerPausedForGood ==
  /\ WorkerGoto("wait", "loop")
  /\ UNCHANGED <<sessionVars, ran>>

\* The bounded wait of a paused or paced worker ends: time or notify_all.
WorkerWaitOver ==
  /\ WorkerGoto("pauseWait", "loop") \/ WorkerGoto("wait", "loop")
  /\ UNCHANGED <<sessionVars, ran>>

WorkerStep == WorkerLoop \/ WorkerCheck \/ WorkerRun \/ WorkerWaitOver

-----------------------------------------------------------------------------
\* EmulatorWindow, on the Qt thread

\* The first half of EmulatorWindow::setPaused and SessionRunner::setPaused:
\* the window's flag and the runner's atomic.
BeginSetPaused(paused, return) ==
  /\ windowPaused' = paused
  /\ runnerPaused' = (paused \/ ~windowRom)
  /\ qt' = "setPaused"
  /\ afterPause' = return

\* Defect: SessionRunner::setPaused stops at its own flag.
FinishWithoutSession ==
  /\ qt = "setPaused"
  /\ qt' = afterPause
  /\ UNCHANGED <<runnerVars, sessionVars, windowVars, afterPause, afterLoad, chooser, ctl, ran>>

\* The second half: the session's flag, under the mutex.
FinishSetPaused ==
  /\ qt = "setPaused"
  /\ SessionSetPaused(windowPaused \/ ~windowRom)
  /\ qt' = afterPause
  /\ UNCHANGED <<runnerVars, windowVars, afterPause, afterLoad, chooser, ctl, ran>>

\* loadAndReset() starts by pausing.
BeginLoadAndReset(return) ==
  /\ BeginSetPaused(TRUE, "reconfigure")
  /\ afterLoad' = return

Construct ==
  /\ qt = "construct"
  /\ BeginLoadAndReset("start")
  /\ UNCHANGED <<running, worker, sessionVars, windowRom, wasPaused, closeArmed, chooser, ctl, ran>>

Reconfigure ==
  /\ qt = "reconfigure"
  /\ \E loads \in BOOLEAN : SessionReconfigure(loads) /\ windowRom' = loads
  /\ qt' = "loaded"
  /\ UNCHANGED <<runnerVars, windowPaused, wasPaused, closeArmed, afterPause, afterLoad, chooser, ctl, ran>>

\* The setPaused(!m_romLoaded) that ends loadAndReset
Loaded ==
  /\ qt = "loaded"
  /\ BeginSetPaused(~windowRom, afterLoad)
  /\ UNCHANGED <<running, worker, sessionVars, windowRom, wasPaused, closeArmed, afterLoad, chooser, ctl, ran>>

\* m_runner.start() in the constructor
Start ==
  /\ qt = "start"
  /\ running' = TRUE
  /\ worker' = "loop"
  /\ qt' = "started"
  /\ UNCHANGED <<runnerPaused, sessionVars, windowVars, afterPause, afterLoad, chooser, ctl, ran>>

Started ==
  /\ qt = "started"
  /\ BeginSetPaused(FALSE, "idle")
  /\ UNCHANGED <<running, worker, sessionVars, windowRom, wasPaused, closeArmed, afterLoad, chooser, ctl, ran>>

\* The operator can use the window: a dialog is modal.
Inviting == qt = "idle" /\ ctl = "idle" /\ ~chooser

\* Pause/Resume of the menu and the toolbar
PauseAction ==
  /\ Inviting
  /\ BeginSetPaused(~windowPaused, "idle")
  /\ UNCHANGED <<running, worker, sessionVars, windowRom, wasPaused, closeArmed, afterLoad, chooser, ctl, ran>>

\* Reset of the menu and the toolbar, and the restart a guest asked for
ResetAction ==
  /\ Inviting \/ qt = "restart"
  /\ BeginLoadAndReset("idle")
  /\ UNCHANGED <<running, worker, sessionVars, windowRom, wasPaused, closeArmed, chooser, ctl, ran>>

\* configureMachine() and triggerPanicDump() pause and open a modal dialog.
OpenDialog(dialog) ==
  /\ Inviting
  /\ wasPaused' = windowPaused
  /\ BeginSetPaused(TRUE, dialog)
  /\ UNCHANGED <<running, worker, sessionVars, windowRom, closeArmed, afterLoad, chooser, ctl, ran>>

\* A disk image is to be chosen or details are shown, in a modal dialog too but
\* without a pause; what follows the choice is the business of module Media.
OpenChooser ==
  /\ Inviting
  /\ chooser' = TRUE
  /\ UNCHANGED <<runnerVars, sessionVars, windowVars, qt, afterPause, afterLoad, ctl, ran>>

CloseChooser ==
  /\ chooser /\ qt = "idle" /\ ctl = "idle"
  /\ chooser' = FALSE
  /\ UNCHANGED <<runnerVars, sessionVars, windowVars, qt, afterPause, afterLoad, ctl, ran>>

\* The configuration is accepted and needs a reset.
ConfigureWithReset ==
  /\ qt = "configDialog" /\ ctl = "idle"
  /\ BeginLoadAndReset("configRestore")
  /\ UNCHANGED <<running, worker, sessionVars, windowRom, wasPaused, closeArmed, chooser, ctl, ran>>

\* The dialog is left without a reset, or the reset is done: with a ROM the
\* pause state from before is restored.
ConfigureRestore ==
  /\ (qt = "configDialog" /\ ctl = "idle") \/ qt = "configRestore"
  /\ \/ /\ windowRom
        /\ BeginSetPaused(wasPaused, "idle")
     \/ /\ ~windowRom
        /\ qt' = "idle"
        /\ UNCHANGED <<windowPaused, runnerPaused, afterPause>>
  /\ UNCHANGED <<running, worker, sessionVars, windowRom, wasPaused, closeArmed, afterLoad, chooser, ctl, ran>>

\* The prompt of triggerPanicDump is accepted; the frame for the screenshot and
\* then the snapshot are taken, each under the mutex.
PanicStep ==
  /\ ctl = "idle"
  /\ \/ qt = "panicPrompt" /\ qt' = "panicFrame"
     \/ qt = "panicFrame" /\ qt' = "panicCapture"
     \/ qt = "panicCapture" /\ qt' = "panicBox"
  /\ UNCHANGED <<runnerVars, sessionVars, windowVars, afterPause, afterLoad, chooser, ctl, ran>>

\* The prompt is cancelled, the dump failed, or the result box is accepted.
PanicDone ==
  /\ qt \in {"panicPrompt", "panicBox"} /\ ctl = "idle"
  /\ \/ ~wasPaused /\ BeginSetPaused(FALSE, "idle")
     \/ wasPaused /\ qt' = "idle" /\ UNCHANGED <<windowPaused, runnerPaused, afterPause>>
  /\ UNCHANGED <<running, worker, sessionVars, windowRom, wasPaused, closeArmed, afterLoad, chooser, ctl, ran>>

\* Defect: the frame timer does not look for power requests.
RunFrameDeaf ==
  /\ qt = "idle" /\ ctl = "idle"
  /\ windowRom /\ ~windowPaused
  /\ UNCHANGED vars

\* runFrame(), while the frame timer runs, also under a chooser: take the guest's power request.
RunFrame ==
  /\ qt = "idle" /\ ctl = "idle"
  /\ windowRom /\ ~windowPaused
  /\ SessionTakePowerRequest
  /\ qt' = CASE powerRequest = "PowerOff" -> "powerOff"
             [] powerRequest = "Restart" -> "restart"
             [] OTHER -> "idle"
  /\ UNCHANGED <<runnerVars, windowVars, afterPause, afterLoad, chooser, ctl, ran>>

\* A power-off pauses the window and closes it a second later.
PowerOff ==
  /\ qt = "powerOff"
  /\ BeginSetPaused(TRUE, "idle")
  /\ closeArmed' = TRUE
  /\ UNCHANGED <<running, worker, sessionVars, windowRom, wasPaused, afterLoad, chooser, ctl, ran>>

\* Defect: stop() wakes the worker without clearing m_running.
CloseKeepsRunning ==
  /\ Inviting \/ (closeArmed /\ qt \in EventLoop /\ ctl = "idle")
  /\ qt' = "join"
  /\ UNCHANGED <<runnerVars, sessionVars, windowVars, afterPause, afterLoad, chooser, ctl, ran>>

\* Defect: a paused window refuses to close.
CloseRefusedWhilePaused ==
  /\ ctl = "idle" /\ qt = "idle" /\ ~windowPaused
  /\ running' = FALSE
  /\ qt' = "join"
  /\ UNCHANGED <<runnerPaused, worker, sessionVars, windowVars, afterPause, afterLoad, chooser, ctl, ran>>

\* The handler whose dialog is open cannot survive its window: the configuration
\* dialog, pickers and message boxes are on its stack and children of the window,
\* which deletes its children; the panic prompt is Qt's own and returns
\* "not accepted", after which the handler of a window that ran calls setPaused.
HandlerNeedsWindow ==
  \/ chooser \/ qt \in {"configDialog", "panicBox"}
  \/ qt = "panicPrompt" /\ ~wasPaused

\* The window is closed, by the operator or by the timer of a power-off, which
\* also fires in a modal dialog's event loop.  It is deleted on close, by the
\* event loop that served the close; its destructor calls SessionRunner::stop().
Close ==
  /\ Inviting \/ (closeArmed /\ qt \in EventLoop /\ ctl = "idle")
  /\ running' = FALSE
  /\ qt' = IF HandlerNeedsWindow THEN "joinUnder" ELSE "join"
  /\ UNCHANGED <<runnerPaused, worker, sessionVars, windowVars, afterPause, afterLoad, chooser, ctl, ran>>

\* m_worker.join() returns.  A window destroyed under a handler that needs it
\* leaves undefined behaviour: the process dies or happens to go on without it.
Joined ==
  /\ worker = "exited"
  /\ \/ qt = "join" /\ qt' = "gone"
     \/ qt = "joinUnder" /\ qt' \in {"gone", "crashed"}
  /\ UNCHANGED <<runnerVars, sessionVars, windowVars, afterPause, afterLoad, chooser, ctl, ran>>

\* The window is gone and nothing more happens.
Gone == qt \in {"gone", "crashed"} /\ UNCHANGED vars

-----------------------------------------------------------------------------
\* SessionControlServer::processLine, in the main event loop or a dialog's

\* "pause", "resume" and the pause of "panic": SessionRunner::setPaused
ControlSetPaused(command) ==
  /\ qt \in EventLoop /\ ctl = "idle"
  /\ runnerPaused' = (command = "pause")
  /\ ctl' = command
  /\ UNCHANGED <<running, worker, sessionVars, windowVars, qtVars, ran>>

ControlFinish ==
  /\ ctl # "idle"
  /\ SessionSetPaused(ctl = "pause")
  /\ ctl' = "idle"
  /\ UNCHANGED <<runnerVars, windowVars, qtVars, ran>>

\* "reset"
ControlReset ==
  /\ qt \in EventLoop /\ ctl = "idle"
  /\ SessionReset
  /\ UNCHANGED <<runnerVars, windowVars, qtVars, ctl, ran>>

-----------------------------------------------------------------------------
\* What a handler does between two returns to an event loop.
HandlerStep ==
  \/ Construct \/ Reconfigure \/ Loaded \/ Start \/ Started \/ FinishSetPaused
  \/ (qt = "restart" /\ ResetAction)
  \/ (qt = "configRestore" /\ ConfigureRestore)
  \/ (qt \in {"panicFrame", "panicCapture"} /\ PanicStep)
  \/ PowerOff \/ Joined \/ ControlFinish

\* What the operator, a timer or a control connection may start.
Event ==
  \/ PauseAction \/ (qt = "idle" /\ ResetAction) \/ Close \/ RunFrame
  \/ OpenChooser \/ CloseChooser
  \/ \E dialog \in {"configDialog", "panicPrompt"} : OpenDialog(dialog)
  \/ ConfigureWithReset \/ (qt = "configDialog" /\ ConfigureRestore)
  \/ (qt = "panicPrompt" /\ PanicStep) \/ PanicDone
  \/ \E command \in {"pause", "resume"} : ControlSetPaused(command)
  \/ ControlReset

Next == WorkerStep \/ HandlerStep \/ Event \/ Gone

Spec == Init /\ [][Next]_vars

\* The worker is scheduled and its quanta and waits are finite; the Qt thread
\* finishes its handlers; Qt's event loop serves the frame timer however busy
\* the other sources are, and fires the close timer.  Nothing is assumed of the
\* operator or of control connections.
Fairness ==
  /\ WF_vars(WorkerStep)
  /\ WF_vars(HandlerStep)
  /\ SF_vars(RunFrame)
  /\ SF_vars(closeArmed /\ Close)

LiveSpec == Spec /\ Fairness

-----------------------------------------------------------------------------
\* The Qt thread is back in an event loop.
Settled == qt \in EventLoop /\ ctl = "idle"

\* This step executes guest instructions.
Executes == ran' # ran

\* SessionRunner::setPaused (SessionRunner.cpp:39) is a barrier: once a pausing
\* call is back in the event loop no guest instruction executes, although the
\* worker may have passed its own m_paused check long before.
PauseBarrier == [][Executes => ~(Settled /\ runnerPaused)]_vars

\* The three records of the session agree whenever the Qt thread is back in an
\* event loop: runner and session on the pause, window and session on the ROM,
\* and no session without a ROM is ever unpaused, not even between two steps.
Agreement ==
  /\ ~romLoaded => sessionPaused
  /\ Settled => (runnerPaused => sessionPaused) /\ windowRom = romLoaded

\* A session that stands still although the runner is not paused and a ROM is
\* loaded has a power request for runFrame to take (EmulatorWindow.cpp:1485),
\* so it is about to be closed or restarted; the one way to lose the reason is
\* a control-server "reset", which clears the request and not the pause.
StandstillExplained ==
  Settled /\ ~runnerPaused /\ romLoaded /\ sessionPaused =>
    powerRequest # "None" \/ requestDropped

\* The window's destructor is running or has run.
Destroyed == qt \in {"join", "joinUnder", "gone", "crashed"}

\* stop() always gets its worker back: no notification is needed to end a wait,
\* and the destructor returns from it under a dialog as well.
StopCompletes == qt \in {"join", "joinUnder"} ~> qt \in {"gone", "crashed"}

\* A guest's power request is acted on unless its window stays paused for ever:
\* a request raised just before a dialog opens waits for the dialog to be left.
RequestServed ==
  powerRequest # "None" ~> (powerRequest = "None" \/ []windowPaused \/ Destroyed)

\* The close that a power-off arms (EmulatorWindow.cpp:1491) happens, whatever
\* the operator and control connections do in the second before it, and takes
\* the window down in order, with one exception: a timer that fires under a
\* dialog destroys the window under the handler that opened the dialog and that
\* still needs it.
PowerOffCloses == closeArmed ~> qt \in {"gone", "joinUnder", "crashed"}

\* The guest's Shut Down and Restart are carried out: the request is taken by
\* runFrame, however late, and the close it arms for a second later happens.
PowerServed == RequestServed /\ PowerOffCloses

\* A session that stays unpaused keeps executing the guest.
GuestProgress ==
  <>[](running /\ ~runnerPaused /\ ~sessionPaused) => []<><<Executes>>_vars

\* EmulatorWindow.cpp:1389 "Pause before capture so the snapshot is coherent":
\* no guest instruction executes between the frame that becomes the screenshot
\* and the machine state that is filed with it.
CaptureCoherent == [][Executes => qt # "panicCapture"]_vars

=============================================================================

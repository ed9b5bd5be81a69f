----------------------------- MODULE InputPacing -----------------------------
(***************************************************************************)
(* When the worker paces itself to real time.  In the Unlimited speed the  *)
(* guest may run many seconds in one of the host's, so the window asks for *)
(* real-time pacing while the operator holds a key or a button, through    *)
(* the double-click interval, after a media change and while sound plays   *)
(* (session/EmulatorWindow.cpp); the worker of core/SessionRunner.cpp      *)
(* reads these wishes, atomic by atomic, before each quantum.              *)
(***************************************************************************)
EXTENDS Naturals

CONSTANTS Keys,      \* host keys with a Macintosh key code
          AudioTail  \* frames of pacing after the last audible one (the code: 8)

ASSUME AudioTailPositive == AudioTail \in Nat \ {0}

VARIABLES
  buttonHeld,    \* m_mouseInputPressed
  keysHeld,      \* m_pressedInputKeys
  clickTimer,    \* m_mousePacingReleaseTimer is active
  mediaTimer,    \* m_mediaPacingReleaseTimer is active
  audioFrames,   \* m_audioPacingFrames
  windowPaused,  \* EmulatorWindow::m_paused
  realtime,      \* SessionRunner::m_speed is Realtime
  interactive,   \* SessionRunner::m_interactiveInputActive
  audio,         \* SessionRunner::m_audioPlaybackActive
  machineAudio,  \* SessionRunner::m_machineAudioPlaybackActive
  worker,        \* the atomic that workerLoop reads next, or "run" or "wait"
  throttle,      \* its local realtimeThrottle
  clickWindow,   \* history: within the double-click interval of the last release,
                 \* for which the timer was started ("timed") or not ("untimed")
  rushed         \* history: unthrottled quanta since interactive was set

windowVars == <<buttonHeld, keysHeld, clickTimer, mediaTimer, clickWindow>>
wishVars   == <<realtime, interactive, audio, rushed>>
workerVars == <<machineAudio, worker, throttle>>
vars == <<windowVars, audioFrames, windowPaused, wishVars, workerVars>>

TypeOK ==
  /\ buttonHeld \in BOOLEAN /\ keysHeld \subseteq Keys
  /\ clickTimer \in BOOLEAN /\ mediaTimer \in BOOLEAN
  /\ clickWindow \in {"none", "timed", "untimed"}
  /\ audioFrames \in 0..AudioTail /\ windowPaused \in BOOLEAN
  /\ realtime \in BOOLEAN /\ interactive \in BOOLEAN /\ audio \in BOOLEAN
  /\ machineAudio \in BOOLEAN /\ throttle \in BOOLEAN
  /\ worker \in {"speed", "interactive", "audio", "machineAudio", "run", "wait"}
  /\ rushed \in Nat

Init ==
  /\ buttonHeld = FALSE /\ keysHeld = {}
  /\ clickTimer = FALSE /\ mediaTimer = FALSE /\ clickWindow = "none"
  /\ audioFrames = 0 /\ windowPaused = FALSE
  /\ realtime \in BOOLEAN
  /\ interactive = FALSE /\ audio = FALSE /\ machineAudio = FALSE
  /\ worker = "speed" /\ throttle = FALSE
  /\ rushed = 0

-----------------------------------------------------------------------------
\* EmulatorWindow

SetInteractive(active) ==
  /\ interactive' = active
  /\ rushed' = IF active /\ interactive THEN rushed ELSE 0

\* Defect: input state alone decides, whatever the media settling window.
UpdateForgetsMedia(held, timer, media, preserve) ==
  IF held THEN
    SetInteractive(TRUE) /\ clickTimer' = FALSE
  ELSE IF preserve THEN
    SetInteractive(TRUE) /\ clickTimer' = TRUE
  ELSE IF ~timer THEN
    SetInteractive(FALSE) /\ clickTimer' = FALSE
  ELSE
    clickTimer' = timer /\ UNCHANGED <<interactive, rushed>>

\* updateInteractiveInputState(preserve), with the input state and the timers
\* as the calling handler leaves them
UpdateInteractive(held, timer, media, preserve) ==
  IF media THEN
    SetInteractive(TRUE) /\ clickTimer' = timer
  ELSE IF held THEN
    SetInteractive(TRUE) /\ clickTimer' = FALSE
  ELSE IF preserve THEN
    SetInteractive(TRUE) /\ clickTimer' = TRUE
  ELSE IF ~timer THEN
    SetInteractive(FALSE) /\ clickTimer' = FALSE
  ELSE
    clickTimer' = timer /\ UNCHANGED <<interactive, rushed>>

\* The mouse callback with a changed button
Button(pressed) ==
  /\ buttonHeld # pressed
  /\ buttonHeld' = pressed
  /\ UpdateInteractive(pressed \/ keysHeld # {}, clickTimer, mediaTimer, ~pressed)
  /\ clickWindow' = IF pressed THEN "none"
                    ELSE IF mediaTimer \/ keysHeld # {} THEN "untimed" ELSE "timed"
  /\ UNCHANGED <<keysHeld, mediaTimer, audioFrames, windowPaused, realtime, audio, workerVars>>

\* The key callback.  DisplayWidget passes on only changes of a key's state.
Key(k, pressed) ==
  /\ pressed # (k \in keysHeld)
  /\ keysHeld' = IF pressed THEN keysHeld \cup {k} ELSE keysHeld \ {k}
  /\ UpdateInteractive(buttonHeld \/ keysHeld' # {}, clickTimer, mediaTimer, FALSE)
  /\ UNCHANGED <<buttonHeld, mediaTimer, clickWindow, audioFrames, windowPaused, realtime,
                 audio, workerVars>>

\* beginMediaSettlingWindow(), after a medium was inserted or ejected
MediaChanged ==
  /\ SetInteractive(TRUE)
  /\ mediaTimer' = TRUE
  /\ UNCHANGED <<buttonHeld, keysHeld, clickTimer, clickWindow, audioFrames, windowPaused,
                 realtime, audio, workerVars>>

\* The mouse pacing timer times out.
ClickTimeout ==
  /\ clickTimer
  /\ UpdateInteractive(buttonHeld \/ keysHeld # {}, FALSE, mediaTimer, FALSE)
  /\ clickWindow' = IF clickWindow = "timed" THEN "none" ELSE clickWindow
  /\ UNCHANGED <<buttonHeld, keysHeld, mediaTimer, audioFrames, windowPaused, realtime, audio,
                 workerVars>>

\* The double-click interval ends without a timer of its own.
ClickIntervalOver ==
  /\ clickWindow = "untimed" \/ (clickWindow = "timed" /\ ~clickTimer)
  /\ clickWindow' = "none"
  /\ UNCHANGED <<buttonHeld, keysHeld, clickTimer, mediaTimer, audioFrames, windowPaused,
                 wishVars, workerVars>>

\* Defect: the end of the settling window updates nothing.
MediaSettledSilently ==
  /\ mediaTimer
  /\ mediaTimer' = FALSE
  /\ UNCHANGED <<buttonHeld, keysHeld, clickTimer, clickWindow, audioFrames, windowPaused,
                 wishVars, workerVars>>

\* The media settling timer times out.
MediaSettled ==
  /\ mediaTimer
  /\ mediaTimer' = FALSE
  /\ UpdateInteractive(buttonHeld \/ keysHeld # {}, clickTimer, FALSE, FALSE)
  /\ UNCHANGED <<buttonHeld, keysHeld, clickWindow, audioFrames, windowPaused, realtime, audio,
                 workerVars>>

\* runFrame(): an audible frame restarts the tail, any other one shortens it.
RunFrame ==
  /\ ~windowPaused
  /\ \/ audioFrames' = AudioTail
     \/ audioFrames' = IF audioFrames > 0 THEN audioFrames - 1 ELSE 0
  /\ audio' = (audioFrames' > 0)
  /\ UNCHANGED <<windowVars, windowPaused, realtime, interactive, rushed, workerVars>>

\* setPaused(): a paused window drops its audio pacing.
SetPaused ==
  /\ windowPaused' = ~windowPaused
  /\ \/ windowPaused' /\ audioFrames' = 0 /\ audio' = FALSE
     \/ ~windowPaused' /\ UNCHANGED <<audioFrames, audio>>
  /\ UNCHANGED <<windowVars, realtime, interactive, rushed, workerVars>>

\* setRuntimeSpeed()
SetSpeed ==
  /\ realtime' = ~realtime
  /\ UNCHANGED <<windowVars, audioFrames, windowPaused, interactive, audio, rushed, workerVars>>

-----------------------------------------------------------------------------
\* SessionRunner::workerLoop: realtimeThrottle is a short-circuit disjunction
\* of four loads.

Load(name, wish, next) ==
  /\ worker = name
  /\ throttle' = wish
  /\ worker' = IF wish THEN "run" ELSE next
  /\ UNCHANGED <<windowVars, audioFrames, windowPaused, wishVars, machineAudio>>

\* Defect: the worker does not read m_interactiveInputActive.
DecideWithoutInput ==
  \/ Load("speed", realtime, "audio")
  \/ Load("audio", audio, "machineAudio")
  \/ Load("machineAudio", machineAudio, "run")

Decide ==
  \/ Load("speed", realtime, "interactive")
  \/ Load("interactive", interactive, "audio")
  \/ Load("audio", audio, "machineAudio")
  \/ Load("machineAudio", machineAudio, "run")

\* The quantum, and the machine's own report of sound after it
Run ==
  /\ worker = "run"
  /\ rushed' = IF interactive /\ ~throttle THEN rushed + 1 ELSE rushed
  /\ machineAudio' \in BOOLEAN
  /\ worker' = "wait"
  /\ UNCHANGED <<windowVars, audioFrames, windowPaused, realtime, interactive, audio, throttle>>

\* The 50 us window of an unthrottled quantum, or the rest of the frame of a
\* throttled one; both waits are bounded.
WaitOver ==
  /\ worker = "wait"
  /\ worker' = "speed"
  /\ UNCHANGED <<windowVars, audioFrames, windowPaused, wishVars, machineAudio, throttle>>

Worker == Decide \/ Run \/ WaitOver

Operator ==
  \/ \E pressed \in BOOLEAN : Button(pressed) \/ \E k \in Keys : Key(k, pressed)
  \/ MediaChanged \/ SetPaused \/ SetSpeed

Next == Operator \/ ClickTimeout \/ ClickIntervalOver \/ MediaSettled \/ RunFrame \/ Worker

Spec == Init /\ [][Next]_vars

\* Timers fire and the worker is scheduled.
Fairness ==
  /\ WF_vars(ClickTimeout) /\ WF_vars(MediaSettled)
  /\ WF_vars(Worker)

LiveSpec == Spec /\ Fairness

-----------------------------------------------------------------------------
\* Real-time pacing is on whenever anything the window knows of asks for it;
\* in particular nothing releases it early inside a media settling window
\* (EmulatorWindow.cpp:894 "A media settling window outranks everything else").
InputPaced ==
  buttonHeld \/ keysHeld # {} \/ clickTimer \/ mediaTimer => interactive

\* The worker may decide on stale wishes, once: after the window has asked for
\* real-time pacing at most one unthrottled quantum starts.
StaleQuantumBound == rushed <= 1

\* Pacing is not left behind: when the operator leaves keyboard, mouse and
\* media alone with everything released, unlimited execution comes back.
PacingReleased ==
  <>[][~Operator]_vars /\ <>[](~buttonHeld /\ keysHeld = {}) => <>[]~interactive

\* EmulatorWindow.cpp:908 "Keep realtime pacing through Qt's double-click
\* interval so the guest sees both clicks within its own DoubleTime window".
DoubleClickPaced == clickWindow # "none" => interactive

=============================================================================

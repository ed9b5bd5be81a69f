-------------------------- MODULE InputPacing_proofs --------------------------
(***************************************************************************)
(* The pacing the window asks for, for any set of keys and any audio tail. *)
(* StaleQuantumBound counts quanta over two threads; what makes it         *)
(* inductive is where a worker can stand that does not know of the wish    *)
(* (Unaware), and that such a worker has not yet run a quantum since.      *)
(***************************************************************************)
EXTENDS InputPacing, TLAPS

\* The worker has passed its load of m_interactiveInputActive and found it
\* clear, or is about to run the quantum decided on that ground.
Unaware == worker \in {"audio", "machineAudio"} \/ (worker = "run" /\ ~throttle)

StaleOnce ==
  /\ ~interactive => rushed = 0
  /\ Unaware => rushed = 0
  /\ StaleQuantumBound

Inv == TypeOK /\ InputPaced /\ StaleOnce

\* The window opens with nothing held and pacing off.
LEMMA InitInv == Init => Inv
<1> SUFFICES ASSUME Init PROVE Inv
  OBVIOUS
<1>1. audioFrames \in 0..AudioTail /\ rushed \in Nat /\ keysHeld \subseteq Keys
  BY AudioTailPositive DEF Init
<1>2. TypeOK
  BY <1>1 DEF Init, TypeOK
<1>3. InputPaced /\ StaleOnce
  BY DEF Init, InputPaced, StaleOnce, Unaware, StaleQuantumBound
<1> QED BY <1>2, <1>3 DEF Inv

\* updateInteractiveInputState asks for pacing exactly as the handler's input
\* and timers demand.
LEMMA UpdatePaces ==
  ASSUME TypeOK, StaleOnce,
         NEW held \in BOOLEAN, NEW timer \in BOOLEAN, NEW media \in BOOLEAN, NEW preserve \in BOOLEAN,
         timer => interactive,
         UpdateInteractive(held, timer, media, preserve)
  PROVE  /\ interactive' \in BOOLEAN /\ clickTimer' \in BOOLEAN /\ rushed' \in Nat
         /\ held \/ clickTimer' \/ media => interactive'
         /\ rushed' = rushed \/ rushed' = 0
         /\ ~interactive' => rushed' = 0
<1> USE DEF TypeOK, StaleOnce, UpdateInteractive, SetInteractive
<1>1. CASE media
  BY <1>1
<1>2. CASE ~media /\ held
  BY <1>2
<1>3. CASE ~media /\ ~held /\ preserve
  BY <1>3
<1>4. CASE ~media /\ ~held /\ ~preserve /\ ~timer
  <2>1. interactive' = FALSE /\ rushed' = 0 /\ clickTimer' = FALSE
    BY <1>4, Zenon
  <2> QED BY <1>4, <2>1
<1>5. CASE ~media /\ ~held /\ ~preserve /\ timer
  <2>1. clickTimer' = timer /\ UNCHANGED <<interactive, rushed>>
    BY <1>5
  <2> QED BY <1>5, <2>1
<1> QED BY <1>1, <1>2, <1>3, <1>4, <1>5

\* A step of the window that leaves the worker where it is keeps StaleOnce, if
\* it forgets the count along with the wish.
LEMMA WindowStale ==
  ASSUME TypeOK, StaleOnce, UNCHANGED workerVars, rushed' = rushed \/ rushed' = 0,
         ~interactive' => rushed' = 0
  PROVE  StaleOnce'
BY DEF TypeOK, StaleOnce, Unaware, StaleQuantumBound, workerVars

\* Every step preserves the invariant.
LEMMA InvStep == Inv /\ [Next]_vars => Inv'
<1> SUFFICES ASSUME Inv, [Next]_vars PROVE Inv'
  OBVIOUS
<1>1. TypeOK /\ InputPaced /\ StaleOnce
  BY DEF Inv
<1>2. clickTimer => interactive
  BY <1>1 DEF InputPaced
<1>3. ASSUME NEW pressed \in BOOLEAN, Button(pressed) PROVE Inv'
  <2> DEFINE held == pressed \/ keysHeld # {}
  <2>1. held \in BOOLEAN /\ (~pressed) \in BOOLEAN /\ clickTimer \in BOOLEAN /\ mediaTimer \in BOOLEAN
    BY <1>1 DEF TypeOK
  <2>2. UpdateInteractive(held, clickTimer, mediaTimer, ~pressed)
    BY <1>3 DEF Button
  <2>3. /\ interactive' \in BOOLEAN /\ clickTimer' \in BOOLEAN /\ rushed' \in Nat
        /\ held \/ clickTimer' \/ mediaTimer => interactive'
        /\ rushed' = rushed \/ rushed' = 0
        /\ ~interactive' => rushed' = 0
    <3> HIDE DEF held
    <3> QED BY <1>1, <1>2, <2>1, <2>2, UpdatePaces
  <2>4. /\ buttonHeld' = pressed /\ clickWindow' \in {"none", "timed", "untimed"}
        /\ UNCHANGED <<keysHeld, mediaTimer, audioFrames, windowPaused, realtime, audio, workerVars>>
    BY <1>3 DEF Button
  <2>5. TypeOK'
    BY <1>1, <2>3, <2>4 DEF TypeOK, workerVars
  <2>6. InputPaced'
    BY <2>3, <2>4 DEF InputPaced
  <2>7. StaleOnce'
    BY <1>1, <2>3, <2>4, WindowStale
  <2> QED BY <2>5, <2>6, <2>7 DEF Inv
<1>4. ASSUME NEW pressed \in BOOLEAN, NEW k \in Keys, Key(k, pressed) PROVE Inv'
  <2> DEFINE held == buttonHeld \/ keysHeld' # {}
  <2>1. held \in BOOLEAN /\ clickTimer \in BOOLEAN /\ mediaTimer \in BOOLEAN
    BY <1>1 DEF TypeOK
  <2>2. UpdateInteractive(held, clickTimer, mediaTimer, FALSE)
    BY <1>4 DEF Key
  <2>3. /\ interactive' \in BOOLEAN /\ clickTimer' \in BOOLEAN /\ rushed' \in Nat
        /\ held \/ clickTimer' \/ mediaTimer => interactive'
        /\ rushed' = rushed \/ rushed' = 0
        /\ ~interactive' => rushed' = 0
    <3> HIDE DEF held
    <3> QED BY <1>1, <1>2, <2>1, <2>2, UpdatePaces
  <2>4. /\ keysHeld' \subseteq Keys
        /\ UNCHANGED <<buttonHeld, mediaTimer, clickWindow, audioFrames, windowPaused, realtime,
                       audio, workerVars>>
    BY <1>1, <1>4 DEF Key, TypeOK
  <2>5. TypeOK'
    BY <1>1, <2>3, <2>4 DEF TypeOK, workerVars
  <2>6. InputPaced'
    BY <2>3, <2>4 DEF InputPaced
  <2>7. StaleOnce'
    BY <1>1, <2>3, <2>4, WindowStale
  <2> QED BY <2>5, <2>6, <2>7 DEF Inv
<1>5. CASE ClickTimeout \/ MediaSettled
  <2> DEFINE held == buttonHeld \/ keysHeld # {}
  <2>1. held \in BOOLEAN /\ clickTimer \in BOOLEAN /\ mediaTimer \in BOOLEAN
    BY <1>1 DEF TypeOK
  <2>2. PICK timer \in BOOLEAN, media \in BOOLEAN :
          /\ UpdateInteractive(held, timer, media, FALSE)
          /\ timer => clickTimer
          /\ mediaTimer' = media
    BY <1>5, <2>1 DEF ClickTimeout, MediaSettled
  <2>3. /\ interactive' \in BOOLEAN /\ clickTimer' \in BOOLEAN /\ rushed' \in Nat
        /\ held \/ clickTimer' \/ media => interactive'
        /\ rushed' = rushed \/ rushed' = 0
        /\ ~interactive' => rushed' = 0
    <3> HIDE DEF held
    <3> QED BY <1>1, <1>2, <2>1, <2>2, UpdatePaces
  <2>4. /\ clickWindow' \in {"none", "timed", "untimed"}
        /\ UNCHANGED <<buttonHeld, keysHeld, audioFrames, windowPaused, realtime, audio, workerVars>>
    BY <1>1, <1>5 DEF ClickTimeout, MediaSettled, TypeOK
  <2>5. TypeOK'
    BY <1>1, <2>2, <2>3, <2>4 DEF TypeOK, workerVars
  <2>6. InputPaced'
    BY <2>2, <2>3, <2>4 DEF InputPaced
  <2>7. StaleOnce'
    BY <1>1, <2>3, <2>4, WindowStale
  <2> QED BY <2>5, <2>6, <2>7 DEF Inv
<1>6. CASE MediaChanged
  <2>1. /\ interactive' = TRUE /\ mediaTimer' = TRUE
        /\ rushed' = rushed \/ rushed' = 0
        /\ UNCHANGED <<buttonHeld, keysHeld, clickTimer, clickWindow, audioFrames, windowPaused,
                       realtime, audio, workerVars>>
    BY <1>6 DEF MediaChanged, SetInteractive
  <2>2. TypeOK'
    BY <1>1, <2>1 DEF TypeOK, workerVars
  <2>3. InputPaced'
    BY <2>1 DEF InputPaced
  <2>4. StaleOnce'
    BY <1>1, <2>1, WindowStale
  <2> QED BY <2>2, <2>3, <2>4 DEF Inv
<1>7. CASE ClickIntervalOver \/ RunFrame \/ SetPaused \/ SetSpeed
  <2>1. UNCHANGED <<buttonHeld, keysHeld, clickTimer, mediaTimer, interactive, rushed, workerVars>>
    BY <1>7 DEF ClickIntervalOver, RunFrame, SetPaused, SetSpeed, windowVars, wishVars
  <2>2. audioFrames' \in 0..AudioTail
    BY <1>1, <1>7, AudioTailPositive DEF ClickIntervalOver, RunFrame, SetPaused, SetSpeed, TypeOK
  <2>3. clickWindow' \in {"none", "timed", "untimed"}
    BY <1>1, <1>7 DEF ClickIntervalOver, RunFrame, SetPaused, SetSpeed, windowVars, TypeOK
  <2>4. windowPaused' \in BOOLEAN /\ realtime' \in BOOLEAN
    BY <1>1, <1>7 DEF ClickIntervalOver, RunFrame, SetPaused, SetSpeed, wishVars, TypeOK
  <2>5. audio' \in BOOLEAN
    <3>1. CASE RunFrame
      <4>1. audio' = (audioFrames' > 0)
        BY <3>1 DEF RunFrame
      <4>2. CASE audioFrames' > 0
        BY <4>1, <4>2
      <4>3. CASE ~(audioFrames' > 0)
        BY <4>1, <4>3
      <4> QED BY <4>2, <4>3
    <3>2. CASE ClickIntervalOver \/ SetPaused \/ SetSpeed
      BY <1>1, <3>2 DEF ClickIntervalOver, SetPaused, SetSpeed, wishVars, TypeOK
    <3> QED BY <1>7, <3>1, <3>2
  <2>6. TypeOK'
    BY <1>1, <2>1, <2>2, <2>3, <2>4, <2>5 DEF TypeOK, workerVars
  <2>7. InputPaced'
    BY <1>1, <2>1 DEF InputPaced
  <2>8. StaleOnce'
    BY <1>1, <2>1, WindowStale DEF StaleOnce
  <2> QED BY <2>6, <2>7, <2>8 DEF Inv
<1>8. CASE Decide
  <2>1. UNCHANGED <<windowVars, audioFrames, windowPaused, wishVars, machineAudio>>
    BY <1>8 DEF Decide, Load
  <2>2. /\ worker \in {"speed", "interactive", "audio", "machineAudio"}
        /\ worker' \in {"interactive", "audio", "machineAudio", "run"}
    BY <1>8 DEF Decide, Load
  <2>3. throttle' \in BOOLEAN
    BY <1>1, <1>8 DEF Decide, Load, TypeOK
  <2>4. TypeOK'
    BY <1>1, <2>1, <2>2, <2>3 DEF TypeOK, windowVars, wishVars
  <2>5. InputPaced'
    BY <1>1, <2>1 DEF InputPaced, windowVars, wishVars
  <2>6. Unaware' => Unaware \/ ~interactive
    BY <1>8 DEF Decide, Load, Unaware
  <2>7. StaleOnce'
    BY <1>1, <2>1, <2>6 DEF StaleOnce, StaleQuantumBound, wishVars
  <2> QED BY <2>4, <2>5, <2>7 DEF Inv
<1>9. CASE Run
  <2>1. /\ UNCHANGED <<windowVars, audioFrames, windowPaused, realtime, interactive, audio, throttle>>
        /\ worker = "run" /\ worker' = "wait" /\ machineAudio' \in BOOLEAN
        /\ rushed' = IF interactive /\ ~throttle THEN rushed + 1 ELSE rushed
    BY <1>9 DEF Run
  <2>2. TypeOK'
    BY <1>1, <2>1 DEF TypeOK, windowVars
  <2>3. InputPaced'
    BY <1>1, <2>1 DEF InputPaced, windowVars
  <2>4. ~Unaware'
    BY <2>1 DEF Unaware
  <2>5. StaleOnce'
    BY <1>1, <2>1, <2>4 DEF StaleOnce, StaleQuantumBound, Unaware, TypeOK
  <2> QED BY <2>2, <2>3, <2>5 DEF Inv
<1>10. CASE WaitOver
  BY <1>1, <1>10 DEF WaitOver, Inv, TypeOK, InputPaced, StaleOnce, StaleQuantumBound, Unaware,
                     windowVars, wishVars
<1>11. CASE UNCHANGED vars
  BY <1>1, <1>11 DEF vars, Inv, TypeOK, InputPaced, StaleOnce, StaleQuantumBound, Unaware,
                     windowVars, wishVars, workerVars
<1> QED
  BY <1>3, <1>4, <1>5, <1>6, <1>7, <1>8, <1>9, <1>10, <1>11 DEF Next, Operator, Worker

-----------------------------------------------------------------------------
\* The strengthened invariant holds of every behaviour.
THEOREM Invariance == Spec => []Inv
<1>1. Init => Inv
  BY InitInv
<1>2. Inv /\ [Next]_vars => Inv'
  BY InvStep
<1> QED BY <1>1, <1>2, PTL DEF Spec

\* Flags, timers and the audio tail keep their types; the tail never runs below
\* zero (EmulatorWindow::runFrame).
THEOREM TypeCorrect == Spec => []TypeOK
<1>1. Inv => TypeOK
  BY DEF Inv
<1> QED BY <1>1, Invariance, PTL

\* Whatever combination of keys, button and timers is active, real-time pacing
\* is asked for (EmulatorWindow::updateInteractiveInputState).
THEOREM InputPacedHolds == Spec => []InputPaced
<1>1. Inv => InputPaced
  BY DEF Inv
<1> QED BY <1>1, Invariance, PTL

\* At most one quantum of SessionRunner::workerLoop is decided on a stale wish.
THEOREM StaleQuantumHolds == Spec => []StaleQuantumBound
<1>1. Inv => StaleQuantumBound
  BY DEF Inv, StaleOnce
<1> QED BY <1>1, Invariance, PTL

=============================================================================

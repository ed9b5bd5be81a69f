# CuteMac in TLA+

CuteMac is an emulator of three Macintosh machines (Mac Plus, Macintosh IIcx,
Quadra 700) with a Qt frontend.  This directory holds a verification project
for its own control logic: TLA+ modules translated from the C++ source, TLC
configurations that check them on small instances, and TLAPS proofs of their
safety properties for every value of the constants.

`PROJECT.json` maps every definition to the lines it stands for, and lists the
components, runs, defects injected to test the properties ("mutants"),
findings, hazards and theorems.

## 1. Inventory of the system

### Threads and who owns what

* **The Qt thread** runs the windows, timers and dialogs, and the control
  server's line protocol.  Its handlers run one after the other, but a modal
  dialog runs a nested event loop in which timers and the control server are
  still served.
* **One worker thread per session** (`SessionRunner::workerLoop`) executes the
  guest in quanta of cycles.
* **Peer threads**: NullModem and HayesModem connections each have a network
  thread; the Slirp backend has one too.
* **The guest** is a program.  Through the CPU core it makes any access to any
  device register in any order.  All devices are called from inside the
  worker's quantum, under the session's mutex; they have no thread of their own.

### Components

| component | state | operations | interacts with |
|---|---|---|---|
| `EmulationSession` lock | `m_mutex`, `m_hostWaiters`, `m_hostWaitMutex`, `m_hostWaitWake` | `lockForHost`, `serviceHostRequests`, `debugSnapshot` (bounded wait), `runCycles` | every facade call of the Qt thread, the worker |
| `EmulationSession` state | machine, ROM flag, pause flag, power request, configuration | `reconfigure`, `reset`, `setPaused`, `runCycles`, `takePowerRequest`, `queue*`, insert/eject | window, control server, worker, machine |
| `SessionRunner` | atomics `m_running`, `m_paused`, `m_speed`, input and audio wishes | `start`, `stop`, `setPaused`, `setSpeed`, `set*Active`, `workerLoop` | session (worker side), window |
| `EmulatorWindow` | its own pause and ROM flags, frame and pacing timers, held keys and button, profile | event handlers, dialogs, panic capture, media menus, `runFrame`, `reconcileGuestEjectedMedia` | runner, session, profile file |
| `SessionControlServer` | connections | `pause`, `resume`, `reset`, `panic`, ... | runner and session, past the window |
| `SessionWindowManager` | map key -> window | `open`, `forget`, `isOpen` | windows, deleted on close |
| `MachineScheduler` | event heap, sequence number, clock | `schedule`, `advance`, `dispatchDue`, `reset` | machines |
| Machines | memory map, devices, debounce state | `runCycles`, `reset`, `queueInput`, bus reads and writes | everything below |
| `Ncr5380`, `MacintoshNcr5380Bus` | phase, REQ/ACK/SEL, buffers, pending flags | register and DACK accesses, `attachTarget`, `detachTarget` | SCSI targets |
| `Ncr53c94`, `ScsiBlockDevice`, `ScsiCdRomDevice` | FIFO, sense data, unit attention, image | commands, media change | machine, image files |
| `Via6522`, `AdbTransceiver`, `CudaController`, `MacRtc` | timers, IFR/IER, shift register, byte handshakes, PRAM | register accesses, `tick`, callbacks into one another | machine interrupts, input |
| `Z8530Scc`, `SerialBus`, endpoints | one receive and one transmit byte per channel, pending bits, peer queues | register accesses, `tick`, `poll`, `receiveByte`, network threads | modems, printer |
| IWM/floppy, NuBus cards, Ethernet, sound, video | registers, rings, FIFOs, frame buffers | register accesses, `tick` | machine, host backends |
| Configuration, profiles, ROM catalogue, dialogs, debugger | files and widgets | sequential | the operator |

### Hard behaviours, and what correct means there

* **Lock hand-off.**  `std::timed_mutex` promises no fairness and the worker
  takes it again and again.  Correct: frontend calls are served with bounded
  overtaking, no wake-up is lost, the waiter counter is exact even when the
  bounded wait times out.
* **Pause, reset, power.**  Three records of "paused" (window, runner, session)
  change at different moments, from handlers that nest.  Correct: a pause is a
  barrier, the records agree when the thread is back in an event loop, a guest
  at rest has a reason, power requests are carried out, windows of powered-off
  guests close, `stop` terminates.
* **Pacing.**  Several timers and held inputs share one switch read by another
  thread.  Correct: on while needed, off eventually, stale for one quantum at
  most.
* **Input delivery.**  Events fall due inside instructions; button edges are
  delayed.  Correct: prompt, ordered, spaced, not stretched, last edge wins.
* **SCSI handshake.**  Three ways to move a byte (ACK pulse, DACK access, blind
  burst) and three to complete a command.  Correct: REQ never lost, one whole
  command per connection, replies drained, every correct driver gets through.
* **Serial lines.**  One-byte registers in the chip, unbounded queues in the
  peers, a network thread per connection, hang-ups from either side.  Correct:
  streams keep their order, bytes sent on a call are neither lost nor repeated
  while it lasts, a call that has been reported over is over, every join returns.
* **ADB.**  Three counters (transfer, retry, delay), autopolls and the guest's
  state changes drive one byte handshake.  Correct: key and button edges arrive
  in order, the ways to lose one are known, every exchange ends.
* **Media.**  Profile, window, machine and drive each have a record of what is in
  a drive; the guest changes one of them on its own.  Correct: the profile names
  what is inside, ejected media stay out and leave the profile, the guest hears
  of a changed CD-ROM before it reads from it.
* **Not modelled**: VIA timers and interrupt flags, Cuda, the Quadra's SCSI
  controller, network rings and sound FIFOs (section 5).

The hazards, each at its line with the properties aimed at it, are in
`PROJECT.json`.

## 2. Modules

| module | what it is | source |
|---|---|---|
| `LockHandoff` | abstract promise of the lock: a holder, the waiting frontends, which of them were overtaken | comment at `EmulationSession.h:43` |
| `HostLock` | the lock, statement by statement, any finite set of frontend threads | `EmulationSession.cpp:121-142, 276-287, 500-533` |
| `SessionRunner` | worker loop, session state, window handlers, dialogs, control server | `SessionRunner.cpp`, `EmulationSession.cpp`, `EmulatorWindow.cpp`, `SessionControlServer.cpp` |
| `InputPacing` | held inputs, timers, audio tail, the worker's four loads | `EmulatorWindow.cpp:754-915, 1468-1484`, `SessionRunner.cpp:53-154` |
| `MachineScheduler` | event queue and clock, as operators | `MachineScheduler.cpp` |
| `GuestInput` | `queueInput`, `stepInstruction`, `reset` of the machines, over `MachineScheduler` | `MacPlusMachine.cpp`, `MacIIcxMachine.cpp`, `EmulationSession.cpp:349-380` |
| `Ncr5380` | controller and Macintosh bus glue | `Ncr5380.cpp`, `MacintoshNcr5380Bus.cpp` |
| `Z8530Scc` | the serial chip, as operators on its two channels | `Z8530Scc.cpp` |
| `SerialPeers` | guest-side operations of the endpoints: queues, command line, escape, dialling, hang-up | `NullModem.cpp`, `HayesModem.cpp` |
| `SerialLine` | guest, chip, endpoint, network thread and far end, composed | the above, `SerialBus.h`, the machines' ticks |
| `AdbTransceiver` | the Macintosh II's ADB modem with keyboard and mouse, as operators | `AdbTransceiver.cpp` |
| `AdbBus` | transceiver, VIA1's shift register, an ADB manager or any guest, the host's input | `Via6522.cpp:174-185, 309-318`, `MacIIcxMachine.cpp` |
| `ScsiCdRom` | the CD-ROM drive: medium, unit attention, sense, every command | `ScsiCdRomDevice.cpp` |
| `Media` | profile, window handlers, machine drives, control server and guest, over `ScsiCdRom` | `EmulatorWindow.cpp`, `EmulationSession.cpp`, the machines |
| `*_proofs` | inductive invariants and theorems of the module they extend | |
| `MC*` | the instances TLC checks | |

### How state and actions correspond to the code

**HostLock.**  A thread has a program counter, one value per statement that
touches shared state: `fetch_add`, the acquisition of `m_mutex` (or its
time-out), the wait mutex, `fetch_sub`, unlock, `notify_all`.  The worker also
sleeps on the condition variable; `ServiceSleep` releases the mutex and sleeps
in one step, as `wait` does, and may wake up spuriously.  `overtaken[h]` is a
history variable counting quanta started while h waits.  `audioPlaybackActive`,
which the worker calls through `lockForHost` itself after each quantum, is
modelled too: the worker then is one of the threads it must not starve.

**SessionRunner.**  A facade call is one step, because it runs under the mutex
that `HostLock` is about; the runner's atomics are separate steps.  `qt` is
where the Qt thread's window handler is, and `afterPause`/`afterLoad` are the
return addresses of `setPaused` and `loadAndReset`, which several handlers
call.  `ctl` is the control-server handler, which can only start when the Qt
thread is in an event loop, the main one or a dialog's.  `chooser` is the dialog
of a handler that does not pause (image pickers, the details box): the frame timer
keeps running in its event loop and may serve a power-off or a restart there.  All
waits of the runner are bounded, so a wait ends at any moment; notifications only
shorten it.  A window is deleted when it is closed, by the event loop that served the
close.  `Close` from the main loop goes to `join` and `gone`; the timer of a power-off
that fires under a dialog (`HandlerNeedsWindow`) goes to `joinUnder`, after which
the handler runs on a destroyed window: undefined, so `gone` or `crashed`.

**InputPacing.**  `UpdateInteractive` is `updateInteractiveInputState` with its
order of tests; the worker reads the four atomics one by one with the
short-circuit of the C++ expression.  Real time is abstracted: a running timer
may fire at any moment.  `rushed` and `clickWindow` are history.

**MachineScheduler, GuestInput.**  The heap is a set of events with cycle and
sequence.  An instruction is `BeginInstruction`, dispatch of what is due,
`Execute` with any number of cycles, dispatch of what fell due meanwhile,
`EndInstruction`.  `debounces` tells the Mac Plus (button edges delayed by
`inputDebounceCycles`) from the ADB machines.  Input may arrive between
instructions only, as in the code, where `queueInput` needs the session mutex.

**Ncr5380.**  The members of the class are one record; each method is an
operator from record to record, so that an access that calls several of them
(a blind burst: status read, DACK, status read, DACK) composes them in the
code's order.  An action is one CPU access, with any value the guest may write.
Buffers are their lengths; a CDB is what `executeCommand` reads from it.
`executed`, `whole` and `disturbed` are history of the current connection;
"disturbed" means SEL was raised while another connection was on the bus, which
no initiator does and after which the controller's flags are those of two
connections: most properties are about the other connections.

**Z8530Scc, SerialPeers, SerialLine.**  A channel is a record of the flags and
the one data register that receiver and transmitter share; write registers are
the sets of bits the chip looks at.  A tick counts transmitter and baud-rate
timer down, hands a byte that has left to the endpoint and polls it, as
`Z8530Scc::tick` does.  The endpoint is `modem`, with a program counter for its
network thread (`open`, `accept`, `loop`, `write`, `read`, `enqueue`, `test`,
`ended`) and one for the emulation thread inside it (`cont`: running, dialling,
joining).  In `test`, after a read, the socket's state is looked at: a hang-up may be
noticed there or only after another round.  The
two queues are swapped or appended under their mutexes in one step.  Every byte
carries who sent it and on which call, so that order and provenance can be
stated.  A command line is one token (`ATD`, `ATH`, `ATZ`, `ATO`, `ATQ1`), `+` is
one of its own; `EscapeLength` pluses escape.

**AdbTransceiver, AdbBus.**  The class is one record, its methods operators on it.
The cycle counters are abstracted to "running", and a tick lets one of them
expire; the order of the tests in `tick` is kept.  Bytes carry what they stand for
(a key edge, a button edge, motion, a handler, a saved command, a fill) and key
and button edges are numbered.  A guest is either *any* program, which writes the
shift register and the state bits as it likes, or an *ADB manager* that puts the
ST lines in S3 (a machine reset leaves them in S0: VIA1 is reset after the
transceiver and announces its power-on port B), stages a command, goes through S0,
S1 and S2 on each interrupt and returns to S3 when PB3 is low.  The manager is not in this repository (`external` in the map): it does
what the transceiver's comments and tests expect of one.

**ScsiCdRom, Media.**  `win` is the window's configuration and the saved profile
in one (every change is saved at once), `floppy`, `disk` and `cdrom` are what is
in the machine, `mirror` is the path table the IIcx keeps beside its drives.  A
window handler is the list of session calls it makes (`todo`); the guest and
nothing else runs between two of them, the control server between handlers and
while the dialog is open.  Loading an image succeeds or fails freely; a
single-sided machine may refuse it.  Assumed: the ROM loads and the profile can
be written.  `told`, `owed` and `reply` are history of what the guest has heard
from the CD-ROM drive, `wanted` of what the user chose, `missed` of images that
could not be loaded.

## 3. Runs

| run | checks | instance |
|---|---|---|
| `host_lock` | `WaitersExact`, `NoLostWakeup`, `EverybodyServed` (`HostServed`, `WorkerResumes`), `ImplementsHandoff` | two frontend threads and the worker |
| `session_runner` | `Agreement`, `StandstillExplained`, `PauseBarrier`, `StopCompletes`, `PowerServed` (`RequestServed`, `PowerOffCloses`), `GuestProgress` | complete, no bound |
| `panic_capture` | `CaptureCoherent`: **violated** | complete |
| `input_pacing` | `InputPaced`, `StaleQuantumBound`, `PacingReleased` | two keys, audio tail of 2 frames |
| `double_click` | `DoubleClickPaced`: **violated** | one key |
| `guest_input` | `Prompt`, `InOrder`, `KindFifo`, `ButtonSpaced`, `NotStretched`, `ButtonSettles` (`ButtonFollowsHost`, `AdbReleaseReachesGuest`) | debounce 3, instructions of up to 2 cycles, 8 cycles, 4 inputs, one reset |
| `guest_input_reset` | `ReleaseReachesGuest`: **violated** | the same |
| `ncr5380` | `ReqNeverLost`, `OneWholeCommand` (`ExecutedOnce`, `WholeCommand`), `ReplyDrained`, `BlindRead`, `TransferCompletes` | two ids, eleven commands, blocks of 2 bytes, bursts of 2 |
| `ncr5380_drain` | `LastByteDrains`: **violated** | one id, one MODE SELECT |
| `serial_line` | `TypeOK`, `PeerBytesInOrder`, `StreamKept` (with `TransmitOnce`), `CallEndsCleanly`, `HighestReset`, `WaitsEnd` (`JoinReturns`, `TransmitCompletes`, `ListenerReturns`) | nothing, a listening or dialling null modem or a Hayes modem on channel A; three or four guest tokens, up to two bytes of the far end, one reset |
| `adb` | `TypeOK`, `EdgesInOrder`, `HandshakeKept` (`LowOnlyAtEnds`, `CompletionsOwed`, `OneBytePerState`), `EdgesKept`, `BusProgress` (`FrameEnds`, `EdgesServed`) | six uses: two of an arbitrary guest, four of a manager with one or two commands; up to four edges |
| `media` | `TypeOK`, `DrivesMatchProfile` (`NamesWhatIsInside`, `CdStaysSelectable`), `GuestHearsOfCd` (`CdChangeAnnounced`, `SenseExplains`), `EjectSticks`, `ProfileFollowsEjects` (`EjectReachesProfile`, `DisksStayInProfile`) | one drive of each kind, two floppies, three machines; no bound on the steps |

A property in parentheses is a part of the one before it.  `TypeOK` of the other
modules, and `BoundedOvertaking` of `HostLock`, which the refinement contains, are
proved for every instance and not repeated in the runs.

### Why the bounds are enough

* Two frontend threads give every pairing of a waiter with a waiter and with
  the worker; the program itself has one.  The proofs cover any finite number.
* `SessionRunner` has no unbounded data: TLC explores all of it.  `ran` flips
  with every quantum instead of counting.
* Four inputs and eight cycles with a debounce of three make a backlog of two
  delayed edges, an edge falling due in mid-instruction, and a reset before,
  between and after them.  The theorems hold for every interval.
* The eleven SCSI commands cover the three CDB lengths, no data, DATA IN of
  odd and even length against a burst of two, DATA OUT with a zero count, and
  FORMAT UNIT with and without data, defect list and initialization pattern.
  A count of 0 in WRITE(6) stands for `SixByteBlocks`, 256 in the code.
* Serial: with `EscapeLength` 2 instead of 3 the cases are one plus too few, the
  escape, and a plus after other data; the Hayes script has room for dialling,
  talking, escaping, returning online or hanging up and dialling again.  Two bytes
  of the far end are enough for a batch that overruns the one-byte receiver.
  Interrupt commands are played with on a port with nothing attached, because
  endpoints do not touch them.
* ADB: four edges fill a frame of two and leave a tail, which is the case the
  re-arming is for; six uses instead of one guest with everything keep the
  combinations apart that do not meet in one exchange.
* Media: drives of one kind do not affect each other in the code (each handler
  and loop body touches one), so one of each is enough; two floppies tell a
  replaced medium from a kept one.
* Deadlock is checked in every run but `serial_line`: the models that can end (a
  closed window, the bound on the clock) do so in a named stuttering step.  A
  serial endpoint that was destroyed really is the end of its line.

### Fairness

* `HostLock`: threads are scheduled, quanta and facade calls are finite,
  spurious wake-ups do not go on for ever.  No fairness of the mutex.
* `SessionRunner`: weak fairness of the worker and of the handler in progress;
  strong fairness of the frame timer and of the armed close timer, because Qt's
  event loop serves expired timers whatever other sources do while handlers
  keep entering and leaving it.  Nothing of operator or control connections;
  strong fairness only leaves out an operator who pauses and resumes for ever,
  each time before the frame timer's next interval ends.  `RequestServed` lets go
  of a request only if the window stays paused from some moment on for ever.
* `InputPacing`: the two single-shot timers fire; the worker is scheduled.
* `SerialLine`: the machine ticks; the network thread is scheduled and its waits
  (connect, write, read) have time-outs in the code; so has the dial loop.
  Nothing makes a host call, send or hang up.
* `AdbBus`: the machine ticks, and the manager's interrupt routine runs when its
  interrupt is pending.  `FrameEnds` and `EdgesServed` ask in addition that the
  manager is not late without end: one that stays 1,082,000 cycles behind
  is fed retries for ever.
* `Media`: a handler goes on to its next call, and the frame timer fires while
  the window is not paused.  Nobody has to close the dialog.
* `Ncr5380`: the chip is passive.  `TransferCompletes` is conditional on a
  driver that goes on with its transfer, and `LastByteDrains` on one that keeps
  pulsing ACK.

### Findings

1. **`panic_capture`** - `EmulatorWindow::triggerPanicDump` pauses "so the
   snapshot is coherent" and then prompts; a control-server `resume` served in
   the prompt's event loop lets the guest run between screenshot and snapshot.
2. **`double_click`** - a key pressed and released inside the double-click
   interval stops the pacing timer and drops real-time pacing, which the comment
   at `EmulatorWindow.cpp:907` wants kept for the whole interval.
3. **`guest_input_reset`** - a reset of the Mac Plus while its button is down
   forgets the queued level and keeps the delivered one: the host's release is
   dropped as a duplicate and PB3 stays pressed until the next click.
4. **`ncr5380_drain`** - in DMA mode the last DATA OUT byte never drains through
   ACK; the phase only changes when DMA mode is cleared, while the hardware notes
   ask that a driver be able to see it change before that.

### Observed while modelling, without a run of their own

The models do what the code does here; the properties are stated so that these
cases are outside them, and say so.

* **Opening a session clears removable media from its profile.**  The constructor
  builds the status bar (`EmulatorWindow.cpp:798`), whose `updateStatus` runs
  `reconcileGuestEjectedMedia` before the machine has been given any medium, and
  `loadAndReset` does so again at its `setPaused(true)` (line 1291).  Both see empty
  drives, clear the floppy and CD-ROM paths and save; the comment at lines 851-856
  wants only what the *guest* ejected cleared.  In the same way an image chosen in
  the configuration dialog for a drive that is empty in the old machine is cleared
  before the new machine is made (line 1345), and an image that fails to load at a
  reset leaves the profile.
* **A power-off that closes under a dialog destroys the window under its handler.**
  The single shot of `EmulatorWindow.cpp:1491` closes the window a second after the
  guest's power-off; session windows are `WA_DeleteOnClose`
  (`SessionWindowManager.cpp:57`), and the dialog's own event loop carries out the
  deletion.  The destructor joins the worker and then deletes the window's children,
  among them dialogs that live on the stack of the handler: the configuration dialog
  (line 1333), the reset question (1337), the panic boxes (1428, 1434), the pickers of
  `DiskImageWidgets.cpp:384-395` and the details box (1180).  What follows in those
  handlers (1354, 1464, 1111, 1192) uses the destroyed window.  The panic prompt
  (1396) survives its deletion, and its handler touches the window again only if it
  was running when the prompt was opened (1401).  No comment or document says that
  a window outlives its handlers, so there is no run for it; in `SessionRunner`
  these closes end in `joinUnder`, which `PowerOffCloses` names as its exception.
* A configured CD-ROM drive whose image fails to load is not attached
  (`MacIIcxMachine.cpp:172`), against "Configured CD-ROM drives remain selectable
  when empty" (`docs/hardware-notes.md:49`).  MODE SENSE and READ TOC fail without
  storing their sense key (`ScsiCdRomDevice.cpp:280, 301`).
* The Mac Plus never ticks its SCC (`MacPlusMachine.cpp:401-412`): nothing written
  to it is transmitted and peers are never polled, while `HARDWARE_SUPPORT.md:170`
  calls serial working.
* A failed write ends a *listening* null modem for good (`NullModem.cpp:106`).
  `reset` does not reach the batch its thread has already taken.
* A Hayes dial that fails reports NO CARRIER before the connection is destroyed,
  so late bytes can follow it; bytes of the far end can precede CONNECT.
* `Z8530Scc::writeData` overwrites an unread received byte, and `poll` all but the
  last byte of a batch: both registers are one byte.
* The ADB transceiver drops key edges it has popped when more input (motion too)
  arrives between an announced poll and the guest's S1, or when a TALK
  completes with the guest back in S3.  A command staged while a poll's byte is in
  flight is not started, against `docs/hardware-notes.md:71`; a manager in the
  middle of a LISTEN can then wait for ever.  A LISTEN to a register other than 3
  never has its data acknowledged.

## 4. Proofs

All theorems are of the form `Spec => []P` or `Spec => [][A]_vars`, for every
value of the constants that satisfies the named assumptions.  The argument is
the usual one: an inductive invariant `Inv` (`IInv`), proved from `Init`, kept
by each action (one step per action), and implying the property.

* **`HostLock_proofs`** - assumes only that the frontends are a finite set
  without the worker and "nobody".  `WaitersExact` is not inductive: the
  invariant adds that who is at a statement inside a lock owns it (`MutexOwner`,
  `WaitMutexOwner`), that a worker about to sleep has a registered thread behind
  it (`SleepJustified`; that needs the decrement to be under the wait mutex), and
  that an overtaken frontend was registered after the worker's last look at the
  counter (`Accounted`).  Cardinality lemmas relate the counter to the set.
  `Refinement` shows every step to be a step or stutter of `LockHandoff`.
* **`SessionRunner_proofs`** - no constants.  The invariant says what holds
  while a handler is half-way through `setPaused` or a load (`HalfDone`,
  `PauseAgrees`, `Explained`): the properties speak of settled states only and
  do not survive a step by themselves.  `PauseBarrier` is an action property
  from the same invariant.
* **`InputPacing_proofs`** - for any set of keys and any audio tail.
  `StaleOnce` ties the count of rushed quanta to where the worker is among its
  four loads.
* **`GuestInput_proofs`** - for every debounce interval, instruction length and
  bound.  Sequence numbers are unique and below the counter (`Numbered`), events
  are not far in the past (`Ahead`), what is delivered precedes what is queued
  (`Delivered`), within a kind cycles increase with sequence (`KindsSorted`),
  and `m_lastMouseButtonCycle` bounds all pending edges (`EdgesBounded`).
  `ButtonSettles` speaks of an empty queue; what a step keeps is that the newest
  pending edge carries the host's level (`ButtonTracked`), and dispatch takes an
  edge before every edge made after it.
* **`Ncr5380_proofs`** - for any set of ids, any set of commands, any block
  size, either wiring.  The invariant over the chip record (`Typed`,
  `Connected`, `Undisturbed`) says for each phase what REQ, the pending flag,
  the lengths and the history are.  It takes the level of ACK as a parameter,
  because inside a write of the initiator command register the record still has
  the old level; each method has a lemma of its own and the actions compose
  them.
* **`Media_proofs`** - for any drives, images and set of machines.  The
  properties are about the window between handlers, so the invariant says what a
  half-done handler may still do: a reconfigure comes right after a pause and a
  look at the drives (`CallsInOrder`, `GuestStopped`), at which point the profile
  names no removable medium that is not inside (`LookedAt`); and only while a
  reconfigure is to come may a drive hold something the profile does not name
  (`NamedOrReloading`).  `EjectSticks` rests on `LookedAt`: were the guest to run
  between look and reconfigure, its eject would be undone.  For the CD-ROM,
  `Announces` says that a change the guest has not heard of is the drive's pending
  unit attention, and that the sense it holds is the one it owes.
  `DisksStayInProfile` is the safety half of `ProfileFollowsEjects`.
* **`AdbBus_proofs`** - for any set of bytes, any uses, bounds on edges and
  motion, and both kinds of guest.  `Line` orders the byte shifted last, the frame
  and the queue for one kind of edge, which is what survives a retry that repeats
  the byte and a re-arming in mid-frame.  `Flags` ties the transceiver's status
  bits to its byte (PB3 can be low only with a byte that ends a frame; an error to
  report means a frame of fills).  Every method has a lemma that it keeps `Sound`
  (`Line` of both kinds and `Flags`) and one on the edges it may lose; the action
  properties `HandshakeKept` and `EdgesKept` follow from the same invariant.
* **`SerialLine_proofs`** - for any script, number of bytes, poll limit, escape
  length, timer values and attached kind.  The one assumption on the guest is that
  the driver of channel A programs asynchronous mode and stays in it: in
  synchronous mode the chip hands nothing to the endpoint.  `Fit` is the contract
  of endpoint and network thread: where the thread may be while a connection is
  held (`Control`), and to which call the bytes in its hands and in the queue belong
  (`Calls`).  `Serves` is what every method run by the emulated CPU does to the
  streams: it leaves the thread's hands alone, takes bytes from the queue without
  reordering, and extends the outgoing stream by what the guest wrote.  `InOrder`
  chains the byte the guest read last, the receiver, `m_incoming`, the thread's
  read buffer and the wire.  Two clauses were found by failed attempts: a hang-up
  from the command line happens in command mode only (otherwise pluses held back
  would be lost), and only a listening null modem waits in `accept`.
  `HighestReset` needs no invariant beyond the types: it compares the chip's two
  priority orders case by case.

### Only model-checked

Every invariant and every action property the passing runs check is also a
theorem.  What is left to TLC is liveness, because the prover handles neither
fairness nor `ENABLED`: `EverybodyServed` (`HostServed`, `WorkerResumes`),
`StopCompletes`, `PowerServed` (`RequestServed`, `PowerOffCloses`),
`GuestProgress`, `PacingReleased`, `TransferCompletes`, `WaitsEnd` (`JoinReturns`,
`TransmitCompletes`, `ListenerReturns`), `BusProgress` (`FrameEnds`,
`EdgesServed`), and the half `EjectReachesProfile` of `ProfileFollowsEjects`;
and the violated properties.

## 5. What is not modelled, and why

* The M68k engine (some 55,000 lines): instruction semantics are out of reach;
  the guest is any sequence of accesses.
* Pixel, sample, GCR/MFM and packet computations (SLIP, PPP, telnet, the
  ImageWriter's pages): data without control.
* Widgets, configuration files, ROM tables, the debugger: sequential and I/O.
* The WebAssembly build's `SessionRunner::runHostFrame`, which runs the same
  session without a worker thread.
* `Via6522` beyond its external shift register, `CudaController` and `AdbBus.cpp`
  behind it, `MacRtc`, `Ncr53c94`, the hard disk's blocks, the Ethernet ring, the
  sound chip's FIFOs: control worth modelling that this project has not reached.
* The input kind `ResetKeyboard` in `GuestInput`: `queueKeyboardReset` is called by
  the debugger only (`src/debug/main.cpp:2207`), never by window or control server.
  What it does to the ADB is an action of `AdbBus` (`HostResetsInput`).
* `createHardDiskFromToolbar` and `setScsiReadOnly` are connected to no menu.
* In the modelled parts: log and trace records, error wording, debug state, and
  the content of snapshots.

## 6. Plan

Done, in order of importance: (1) `HostLock` and `LockHandoff`,
(2) `SessionRunner`, (3) `InputPacing`, (4) `MachineScheduler` and `GuestInput`,
(5) `Ncr5380`, (6) `Z8530Scc`, `SerialPeers` and `SerialLine`, (7) `AdbTransceiver`
and `AdbBus`, (8) `ScsiCdRom` and `Media`, each with its proofs.

Next:

1. Lemmas a reader would look for in the operators themselves, such as that
   `MachineScheduler`'s `Top` is unique.
2. Safety facts behind the liveness properties, which can be proved: what is
   enabled while somebody waits (`WaitsEnd`, `StopCompletes`, `BusProgress`).
3. Candidates for modules: `CudaController`, the VIA's timers and flags,
   `Ncr53c94`, the Ethernet card's receive ring, the sound chip's FIFO interrupts.

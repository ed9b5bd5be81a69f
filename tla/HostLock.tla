------------------------------ MODULE HostLock ------------------------------
(***************************************************************************)
(* The session lock of core/EmulationSession.cpp and the hand-off that     *)
(* keeps the emulation worker from starving the frontend:                  *)
(*                                                                         *)
(*   lockForHost          every facade call of a frontend thread, and the  *)
(*                        worker's own audioPlaybackActive();              *)
(*   debugSnapshot        the same with a bounded try_lock_for, after      *)
(*                        which the capture goes on without the lock;      *)
(*   runCycles            the worker's quantum, under the plain mutex;     *)
(*   serviceHostRequests  the wait that follows every quantum.             *)
(*                                                                         *)
(* Every access to shared state that another thread can observe is a step  *)
(* of its own.  What the facade calls do inside the lock is in module      *)
(* SessionRunner.                                                          *)
(***************************************************************************)
EXTENDS Integers, FiniteSets

CONSTANTS Hosts,    \* the frontend threads
          Worker,   \* the thread of SessionRunner::workerLoop
          Nobody    \* the owner of a free mutex

ASSUME HostsFinite == IsFiniteSet(Hosts)
ASSUME WorkerIsNoHost == Worker \notin Hosts
ASSUME NobodyIsNoThread == Nobody \notin Hosts \cup {Worker}

Threads == Hosts \cup {Worker}

VARIABLES mutex,        \* owner of m_mutex
          waitMutex,    \* owner of m_hostWaitMutex
          hostWaiters,  \* m_hostWaiters
          pc,           \* where each thread is
          overtaken     \* history: quanta started since the host registered, up to 2

vars == <<mutex, waitMutex, hostWaiters, pc, overtaken>>

\* Where lockForHost and debugSnapshot stand between fetch_add and fetch_sub.
RegisteredAt == {"lock", "tryLock", "waitLock", "fetchSub"}

\* The steps of a facade call, in program order.
CallAt == RegisteredAt \cup {"waitUnlock", "notify", "inside"}

\* The steps of the worker around its own facade call.
WorkerAt == {"quantum", "load", "serviceLock", "predicate", "sleep", "asleep",
             "audio"}

TypeOK ==
  /\ mutex \in Threads \cup {Nobody}
  /\ waitMutex \in Threads \cup {Nobody}
  /\ hostWaiters \in Nat
  /\ pc \in [Threads -> {"idle"} \cup CallAt \cup WorkerAt]
  /\ \A h \in Hosts : pc[h] \in {"idle"} \cup CallAt
  /\ pc[Worker] # "tryLock"
  /\ overtaken \in [Hosts -> Nat]

Init ==
  /\ mutex = Nobody
  /\ waitMutex = Nobody
  /\ hostWaiters = 0
  /\ pc = [t \in Threads |-> "idle"]
  /\ overtaken = [h \in Hosts |-> 0]

Goto(t, l) == pc' = [pc EXCEPT ![t] = l]

\* A thread calls the facade: m_hostWaiters.fetch_add(1).  The worker does so
\* only for audioPlaybackActive(), after serviceHostRequests.
Register(t) ==
  /\ pc[t] = IF t = Worker THEN "audio" ELSE "idle"
  /\ hostWaiters' = hostWaiters + 1
  /\ \/ Goto(t, "lock")
     \/ t # Worker /\ Goto(t, "tryLock")
  /\ overtaken' = IF t = Worker THEN overtaken ELSE [overtaken EXCEPT ![t] = 0]
  /\ UNCHANGED <<mutex, waitMutex>>

\* m_mutex is acquired, by lock() or within the bound of try_lock_for().
AcquireSession(t) ==
  /\ pc[t] \in {"lock", "tryLock"}
  /\ mutex = Nobody
  /\ mutex' = t
  /\ Goto(t, "waitLock")
  /\ UNCHANGED <<waitMutex, hostWaiters, overtaken>>

\* Defect: the time-out path returns without its fetch_sub.
TimeOutStaysRegistered(t) ==
  /\ pc[t] = "tryLock"
  /\ Goto(t, "inside")
  /\ UNCHANGED <<mutex, waitMutex, hostWaiters, overtaken>>

\* try_lock_for() runs out of time: debugSnapshot goes on without the lock.
TimeOut(t) ==
  /\ pc[t] = "tryLock"
  /\ Goto(t, "waitLock")
  /\ UNCHANGED <<mutex, waitMutex, hostWaiters, overtaken>>

\* Defect: the counter is decremented without m_hostWaitMutex.
SkipWaitMutex(t) ==
  /\ pc[t] = "waitLock"
  /\ Goto(t, "fetchSub")
  /\ UNCHANGED <<mutex, waitMutex, hostWaiters, overtaken>>

\* std::lock_guard waitLock(m_hostWaitMutex)
LockWaitMutex(t) ==
  /\ pc[t] = "waitLock"
  /\ waitMutex = Nobody
  /\ waitMutex' = t
  /\ Goto(t, "fetchSub")
  /\ UNCHANGED <<mutex, hostWaiters, overtaken>>

\* m_hostWaiters.fetch_sub(1), inside the guard
FetchSub(t) ==
  /\ pc[t] = "fetchSub"
  /\ hostWaiters' = hostWaiters - 1
  /\ Goto(t, "waitUnlock")
  /\ UNCHANGED <<mutex, waitMutex, overtaken>>

\* The guard's scope ends.
UnlockWaitMutex(t) ==
  /\ pc[t] = "waitUnlock"
  /\ waitMutex' = Nobody
  /\ Goto(t, "notify")
  /\ UNCHANGED <<mutex, hostWaiters, overtaken>>

\* Defect: nobody notifies the condition variable.
NotifyNobody(t) ==
  /\ pc[t] = "notify"
  /\ Goto(t, "inside")
  /\ UNCHANGED <<mutex, waitMutex, hostWaiters, overtaken>>

\* m_hostWaitWake.notify_all(): the sleeping worker must reacquire the mutex.
NotifyAll(t) ==
  /\ pc[t] = "notify"
  /\ pc' = [pc EXCEPT ![t] = "inside",
                      ![Worker] = IF t = Worker THEN "inside"
                                  ELSE IF pc[Worker] = "asleep" THEN "serviceLock"
                                  ELSE pc[Worker]]
  /\ UNCHANGED <<mutex, waitMutex, hostWaiters, overtaken>>

\* The facade call returns and its unique_lock is destroyed.
Leave(t) ==
  /\ pc[t] = "inside"
  /\ mutex' = IF mutex = t THEN Nobody ELSE mutex
  /\ Goto(t, "idle")
  /\ UNCHANGED <<waitMutex, hostWaiters, overtaken>>

\* runCycles(): lock_guard on m_mutex, without registering.
StartQuantum ==
  /\ pc[Worker] = "idle"
  /\ mutex = Nobody
  /\ mutex' = Worker
  /\ Goto(Worker, "quantum")
  /\ overtaken' = [h \in Hosts |-> IF pc[h] \in {"lock", "tryLock"} /\ overtaken[h] < 2
                                   THEN overtaken[h] + 1 ELSE overtaken[h]]
  /\ UNCHANGED <<waitMutex, hostWaiters>>

\* runCycles() returns.
EndQuantum ==
  /\ pc[Worker] = "quantum"
  /\ mutex' = Nobody
  /\ Goto(Worker, "load")
  /\ UNCHANGED <<waitMutex, hostWaiters, overtaken>>

\* Defect: the worker goes on without serving anybody.
ServiceNobody ==
  /\ pc[Worker] = "load"
  /\ Goto(Worker, "audio")
  /\ UNCHANGED <<mutex, waitMutex, hostWaiters, overtaken>>

\* serviceHostRequests(): the unlocked load and its early return
ServiceLoad ==
  /\ pc[Worker] = "load"
  /\ Goto(Worker, IF hostWaiters = 0 THEN "audio" ELSE "serviceLock")
  /\ UNCHANGED <<mutex, waitMutex, hostWaiters, overtaken>>

\* The unique_lock on m_hostWaitMutex, first or again after a wake-up.
ServiceLock ==
  /\ pc[Worker] = "serviceLock"
  /\ waitMutex = Nobody
  /\ waitMutex' = Worker
  /\ Goto(Worker, "predicate")
  /\ UNCHANGED <<mutex, hostWaiters, overtaken>>

\* The predicate of wait(), evaluated with m_hostWaitMutex held
ServicePredicate ==
  /\ pc[Worker] = "predicate"
  /\ \/ hostWaiters = 0 /\ Goto(Worker, "audio") /\ waitMutex' = Nobody
     \/ hostWaiters # 0 /\ Goto(Worker, "sleep") /\ UNCHANGED waitMutex
  /\ UNCHANGED <<mutex, hostWaiters, overtaken>>

\* wait() releases the mutex and sleeps, atomically.
ServiceSleep ==
  /\ pc[Worker] = "sleep"
  /\ waitMutex' = Nobody
  /\ Goto(Worker, "asleep")
  /\ UNCHANGED <<mutex, hostWaiters, overtaken>>

\* A condition variable may also wake up for no reason.
SpuriousWakeup ==
  /\ pc[Worker] = "asleep"
  /\ Goto(Worker, "serviceLock")
  /\ UNCHANGED <<mutex, waitMutex, hostWaiters, overtaken>>

\* The part of lockForHost that depends on nobody but the other threads.
CallStep(t) ==
  \/ AcquireSession(t) \/ LockWaitMutex(t) \/ FetchSub(t)
  \/ UnlockWaitMutex(t) \/ NotifyAll(t) \/ Leave(t)

WorkerStep ==
  \/ StartQuantum \/ EndQuantum \/ ServiceLoad \/ ServiceLock
  \/ ServicePredicate \/ ServiceSleep \/ Register(Worker) \/ CallStep(Worker)

Next ==
  \/ \E h \in Hosts : Register(h) \/ TimeOut(h) \/ CallStep(h)
  \/ WorkerStep \/ SpuriousWakeup

Spec == Init /\ [][Next]_vars

\* The threads are scheduled, a quantum is finite and so is a facade call, and
\* spurious wake-ups do not go on for ever.  No fairness of the mutexes among
\* their waiters is assumed, no time-out, and nothing makes a frontend call.
Fairness ==
  /\ WF_vars(WorkerStep)
  /\ \A h \in Hosts : WF_vars(CallStep(h))
  /\ <>[][~SpuriousWakeup]_vars

LiveSpec == Spec /\ Fairness

-----------------------------------------------------------------------------

\* A request is pending from its fetch_add to the acquisition of m_mutex.
Waiting == {h \in Hosts : pc[h] \in {"lock", "tryLock"}}

Registered == {t \in Threads : pc[t] \in RegisteredAt}

\* EmulationSession.h:102 m_hostWaiters counts exactly the threads between
\* their fetch_add and their fetch_sub, on every path (the bounded wait of
\* debugSnapshot that ran out of time included): were it ever to stay above
\* zero, serviceHostRequests would put the worker to sleep for good.
WaitersExact == hostWaiters = Cardinality(Registered)

\* A worker asleep in serviceHostRequests has someone left to wake it: a thread
\* still registered, or one that has decremented the counter and has not yet
\* reached its notify_all.  The decrement under m_hostWaitMutex is what keeps a
\* notification from falling between the predicate and the sleep.
NoLostWakeup ==
  pc[Worker] = "asleep" =>
    \/ Registered # {}
    \/ \E t \in Threads : pc[t] \in {"waitUnlock", "notify"}

\* EmulationSession.h:43 "The worker yields its next quantum until pending
\* frontend lock requests have acquired the session mutex": at most the one
\* quantum that was already on its way starts over a waiting frontend's head.
BoundedOvertaking ==
  \A h \in Waiting : overtaken[h] <= 1

\* Every lockForHost call gets the session although the mutex is not fair: the
\* worker steps aside for it.  (Frontend threads may still starve one another;
\* the program has one.)
HostServed ==
  \A h \in Hosts :
    <>[](\A g \in Hosts \ {h} : pc[g] = "idle") => (pc[h] = "lock" ~> pc[h] = "inside")

\* The hand-off never parks the worker for good: once the frontend leaves the
\* session alone, guest execution goes on.
WorkerResumes ==
  <>[](\A h \in Hosts : pc[h] = "idle") => []<>(pc[Worker] = "quantum")

\* lockForHost and serviceHostRequests wait for each other's threads, and neither
\* for ever: every frontend call is served and the worker comes back.
EverybodyServed == HostServed /\ WorkerResumes

-----------------------------------------------------------------------------
Passed == {h \in Waiting : overtaken[h] > 0}

Handoff == INSTANCE LockHandoff
             WITH holder <- mutex, waiting <- Waiting, passed <- Passed

\* The two mutexes, the counter and the condition variable of EmulationSession
\* implement the abstract hand-off of module LockHandoff.
ImplementsHandoff == Handoff!Spec

=============================================================================

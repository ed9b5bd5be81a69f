--------------------------- MODULE HostLock_proofs ---------------------------
(***************************************************************************)
(* The hand-off of HostLock is correct for every finite set of frontend    *)
(* threads.  The invariants of HostLock are not inductive by themselves:   *)
(* Inv adds who owns which mutex, that the worker commits to sleeping only *)
(* while someone is registered, and that a request can have been overtaken *)
(* only by the quantum the worker has not yet accounted for.               *)
(***************************************************************************)
EXTENDS HostLock, FiniteSetTheorems, TLAPS

\* Whoever decrements m_hostWaiters, and the worker between the predicate and
\* the sleep of its wait(), holds m_hostWaitMutex.
WaitMutexOwner ==
  \A t \in Threads :
    pc[t] \in {"fetchSub", "waitUnlock", "predicate", "sleep"} => waitMutex = t

\* m_mutex is held only within a quantum or a call, and throughout a quantum.
MutexOwner ==
  /\ \A t \in Threads :
       mutex = t => pc[t] \in {"waitLock", "fetchSub", "waitUnlock", "notify",
                               "inside", "quantum"}
  /\ pc[Worker] = "quantum" => mutex = Worker

\* The worker goes to sleep only on a registered thread.
SleepJustified == pc[Worker] = "sleep" => Registered # {}

\* A request that was overtaken waits for a worker that has yet to pass
\* serviceHostRequests.
Accounted ==
  \A h \in Hosts : pc[h] \in {"lock", "tryLock"} =>
    \/ overtaken[h] = 0
    \/ /\ overtaken[h] = 1
       /\ pc[Worker] \in {"quantum", "load", "serviceLock", "predicate",
                          "sleep", "asleep"}

Inv ==
  /\ TypeOK
  /\ WaitersExact
  /\ WaitMutexOwner
  /\ MutexOwner
  /\ SleepJustified
  /\ NoLostWakeup
  /\ Accounted

USE HostsFinite, WorkerIsNoHost, NobodyIsNoThread

\* The registered threads are finitely many, so they can be counted.
LEMMA RegisteredFinite == IsFiniteSet(Registered) /\ Cardinality(Registered) \in Nat
<1>1. IsFiniteSet(Threads)
  BY FS_AddElement DEF Threads
<1>2. Registered \in SUBSET Threads
  BY DEF Registered
<1>3. IsFiniteSet(Registered)
  BY <1>1, <1>2, FS_Subset
<1> QED BY <1>3, FS_CardinalityType

\* A zero counter means that nobody is registered.
LEMMA ZeroMeansNobody ==
  ASSUME WaitersExact
  PROVE  hostWaiters = 0 <=> Registered = {}
BY RegisteredFinite, FS_EmptySet DEF WaitersExact

\* Initially every thread is idle and both mutexes are free.
LEMMA InitInv == Init => Inv
<1> SUFFICES ASSUME Init PROVE Inv
  OBVIOUS
<1>1. TypeOK
  BY DEF Init, TypeOK, Threads, CallAt, RegisteredAt
<1>2. Registered = {}
  BY DEF Init, Registered, RegisteredAt, Threads
<1>3. WaitersExact
  BY <1>2, FS_EmptySet DEF Init, WaitersExact
<1>4. WaitMutexOwner /\ MutexOwner /\ SleepJustified /\ NoLostWakeup /\ Accounted
  BY DEF Init, WaitMutexOwner, MutexOwner, SleepJustified, NoLostWakeup,
         Accounted, Threads
<1> QED BY <1>1, <1>3, <1>4 DEF Inv

\* The counter follows the set of registered threads: one fetch_add per
\* registration, one fetch_sub per departure.
LEMMA CounterStep ==
  ASSUME TypeOK, WaitersExact, [Next]_vars
  PROVE  WaitersExact' /\ hostWaiters' \in Nat
<1> USE DEF TypeOK, Threads
<1>0. ASSUME \A t \in Threads : pc[t] \in RegisteredAt <=> pc'[t] \in RegisteredAt,
             hostWaiters' = hostWaiters
      PROVE  WaitersExact' /\ hostWaiters' \in Nat
  <2>1. Registered' = Registered
    BY <1>0 DEF Registered
  <2> QED BY <1>0, <2>1 DEF WaitersExact
<1>1. ASSUME NEW t \in Threads, Register(t)
      PROVE  WaitersExact' /\ hostWaiters' \in Nat
  <2>1. Registered' = Registered \cup {t}
    BY <1>1 DEF Register, Goto, Registered, RegisteredAt
  <2>2. t \notin Registered
    BY <1>1 DEF Register, Registered, RegisteredAt
  <2>3. Cardinality(Registered') = Cardinality(Registered) + 1
    BY <2>1, <2>2, RegisteredFinite, FS_AddElement
  <2> QED BY <1>1, <2>3, RegisteredFinite DEF Register, WaitersExact
<1>2. ASSUME NEW t \in Threads, FetchSub(t)
      PROVE  WaitersExact' /\ hostWaiters' \in Nat
  <2>1. Registered' = Registered \ {t}
    BY <1>2 DEF FetchSub, Goto, Registered, RegisteredAt
  <2>2. t \in Registered
    BY <1>2 DEF FetchSub, Registered, RegisteredAt
  <2>3. /\ Cardinality(Registered') = Cardinality(Registered) - 1
        /\ Cardinality(Registered') \in Nat
    <3>1. IsFiniteSet(Registered')
      BY <2>1, RegisteredFinite, FS_RemoveElement
    <3> QED BY <3>1, <2>1, <2>2, RegisteredFinite, FS_RemoveElement, FS_CardinalityType
  <2> QED BY <1>2, <2>3 DEF FetchSub, WaitersExact
<1>3. ASSUME NEW t \in Threads,
             \/ AcquireSession(t) \/ LockWaitMutex(t) \/ UnlockWaitMutex(t)
             \/ NotifyAll(t) \/ Leave(t) \/ TimeOut(t)
      PROVE  WaitersExact' /\ hostWaiters' \in Nat
  <2>1. \A u \in Threads : pc[u] \in RegisteredAt <=> pc'[u] \in RegisteredAt
    BY <1>3 DEF AcquireSession, LockWaitMutex, UnlockWaitMutex, NotifyAll, Leave,
                TimeOut, Goto, RegisteredAt
  <2>2. hostWaiters' = hostWaiters
    BY <1>3 DEF AcquireSession, LockWaitMutex, UnlockWaitMutex, NotifyAll, Leave, TimeOut
  <2> QED BY <1>0, <2>1, <2>2
<1>4. ASSUME \/ StartQuantum \/ EndQuantum \/ ServiceLoad \/ ServiceLock
             \/ ServicePredicate \/ ServiceSleep \/ SpuriousWakeup
      PROVE  WaitersExact' /\ hostWaiters' \in Nat
  <2>1. \A u \in Threads : pc[u] \in RegisteredAt <=> pc'[u] \in RegisteredAt
    BY <1>4 DEF StartQuantum, EndQuantum, ServiceLoad, ServiceLock, ServicePredicate,
                ServiceSleep, SpuriousWakeup, Goto, RegisteredAt
  <2>2. hostWaiters' = hostWaiters
    BY <1>4 DEF StartQuantum, EndQuantum, ServiceLoad, ServiceLock, ServicePredicate,
                ServiceSleep, SpuriousWakeup
  <2> QED BY <1>0, <2>1, <2>2
<1>5. CASE UNCHANGED vars
  BY <1>0, <1>5 DEF vars
<1> QED BY <1>1, <1>2, <1>3, <1>4, <1>5 DEF Next, WorkerStep, CallStep

\* Each step keeps every variable within its type; the counter is the subject
\* of CounterStep.
LEMMA TypeStep ==
  ASSUME TypeOK, WaitersExact, [Next]_vars
  PROVE  TypeOK'
<1> USE DEF TypeOK, Threads, CallAt, WorkerAt, RegisteredAt
<1>1. hostWaiters' \in Nat
  BY CounterStep
<1>2. ASSUME NEW t \in Threads, Register(t) PROVE TypeOK'
  BY <1>1, <1>2 DEF Register, Goto
<1>3. ASSUME NEW t \in Threads,
             \/ AcquireSession(t) \/ LockWaitMutex(t) \/ UnlockWaitMutex(t)
             \/ FetchSub(t) \/ Leave(t)
      PROVE  TypeOK'
  BY <1>1, <1>3 DEF AcquireSession, LockWaitMutex, UnlockWaitMutex, FetchSub, Leave, Goto
<1>4. ASSUME NEW t \in Threads, NotifyAll(t) PROVE TypeOK'
  BY <1>1, <1>4 DEF NotifyAll
<1>5. ASSUME NEW h \in Hosts, TimeOut(h) PROVE TypeOK'
  BY <1>1, <1>5 DEF TimeOut, Goto
<1>6. CASE StartQuantum
  BY <1>6 DEF StartQuantum, Goto
<1>7. CASE EndQuantum \/ ServiceLoad \/ ServiceLock
  BY <1>7 DEF EndQuantum, ServiceLoad, ServiceLock, Goto
<1>8. CASE ServicePredicate \/ ServiceSleep \/ SpuriousWakeup
  BY <1>8 DEF ServicePredicate, ServiceSleep, SpuriousWakeup, Goto
<1>9. CASE UNCHANGED vars
  BY <1>9 DEF vars
<1> QED
  BY <1>2, <1>3, <1>4, <1>5, <1>6, <1>7, <1>8, <1>9 DEF Next, WorkerStep, CallStep

\* Ownership of the two mutexes, and the reason of the worker's sleep: nobody
\* can leave between the predicate and the sleep, because leaving takes
\* m_hostWaitMutex.
LEMMA OwnerStep ==
  ASSUME Inv, [Next]_vars
  PROVE  WaitMutexOwner' /\ MutexOwner' /\ SleepJustified'
<1> USE DEF Inv, TypeOK, Threads, WaitMutexOwner, MutexOwner, SleepJustified
<1> DEFINE Goal == WaitMutexOwner' /\ MutexOwner' /\ SleepJustified'
<1>1. ASSUME NEW t \in Threads, Register(t) PROVE Goal
  BY <1>1 DEF Register, Goto, Registered, RegisteredAt
<1>2. ASSUME NEW t \in Threads, AcquireSession(t) PROVE Goal
  BY <1>2 DEF AcquireSession, Goto, Registered, RegisteredAt
<1>3. ASSUME NEW h \in Hosts, TimeOut(h) PROVE Goal
  BY <1>3 DEF TimeOut, Goto, Registered, RegisteredAt
<1>4. ASSUME NEW t \in Threads, LockWaitMutex(t) PROVE Goal
  BY <1>4 DEF LockWaitMutex, Goto, Registered, RegisteredAt
<1>5. ASSUME NEW t \in Threads, FetchSub(t) PROVE Goal
  <2>1. pc'[Worker] # "sleep"
    BY <1>5 DEF FetchSub, Goto
  <2> QED BY <1>5, <2>1 DEF FetchSub, Goto
<1>6. ASSUME NEW t \in Threads, UnlockWaitMutex(t) PROVE Goal
  BY <1>6 DEF UnlockWaitMutex, Goto, Registered, RegisteredAt
<1>7. ASSUME NEW t \in Threads, NotifyAll(t) PROVE Goal
  BY <1>7 DEF NotifyAll, Registered, RegisteredAt
<1>8. ASSUME NEW t \in Threads, Leave(t) PROVE Goal
  BY <1>8 DEF Leave, Goto, Registered, RegisteredAt
<1>9. CASE StartQuantum \/ EndQuantum \/ ServiceLoad \/ ServiceLock
  BY <1>9 DEF StartQuantum, EndQuantum, ServiceLoad, ServiceLock, Goto, Registered,
              RegisteredAt
<1>10. CASE ServicePredicate
  <2>1. hostWaiters # 0 => Registered # {}
    BY ZeroMeansNobody
  <2> QED BY <1>10, <2>1 DEF ServicePredicate, Goto, Registered, RegisteredAt
<1>11. CASE ServiceSleep \/ SpuriousWakeup
  BY <1>11 DEF ServiceSleep, SpuriousWakeup, Goto, Registered, RegisteredAt
<1>12. CASE UNCHANGED vars
  BY <1>12 DEF vars, Registered
<1> QED
  BY <1>1, <1>2, <1>3, <1>4, <1>5, <1>6, <1>7, <1>8, <1>9, <1>10, <1>11, <1>12
  DEF Next, WorkerStep, CallStep

\* A thread that stops being registered is on its way to notify_all, and the
\* worker falls asleep only on a registered thread.
LEMMA WakeupStep ==
  ASSUME Inv, [Next]_vars
  PROVE  NoLostWakeup'
<1> USE DEF Inv, TypeOK, Threads, NoLostWakeup, Registered, RegisteredAt
<1>1. ASSUME NEW t \in Threads,
             \/ Register(t) \/ AcquireSession(t) \/ LockWaitMutex(t)
             \/ FetchSub(t) \/ UnlockWaitMutex(t) \/ TimeOut(t)
      PROVE  NoLostWakeup'
  BY <1>1 DEF Register, AcquireSession, LockWaitMutex, FetchSub, UnlockWaitMutex,
              TimeOut, Goto
<1>2. ASSUME NEW t \in Threads, NotifyAll(t) PROVE NoLostWakeup'
  BY <1>2 DEF NotifyAll
<1>3. ASSUME NEW t \in Threads, Leave(t) PROVE NoLostWakeup'
  BY <1>3 DEF Leave, Goto
<1>4. CASE ServiceSleep
  BY <1>4 DEF ServiceSleep, Goto, SleepJustified
<1>5. CASE StartQuantum \/ EndQuantum \/ ServiceLoad \/ ServiceLock
           \/ ServicePredicate \/ SpuriousWakeup
  BY <1>5 DEF StartQuantum, EndQuantum, ServiceLoad, ServiceLock, ServicePredicate,
              SpuriousWakeup, Goto
<1>6. CASE UNCHANGED vars
  BY <1>6 DEF vars
<1> QED BY <1>1, <1>2, <1>3, <1>4, <1>5, <1>6 DEF Next, WorkerStep, CallStep

\* An overtaken request keeps the worker within serviceHostRequests: both ways
\* out of it see a zero counter, and the waiting host is counted.
LEMMA AccountedStep ==
  ASSUME Inv, [Next]_vars
  PROVE  Accounted'
<1> USE DEF Inv, TypeOK, Threads, Accounted
<1>1. ASSUME NEW t \in Threads, Register(t) PROVE Accounted'
  BY <1>1 DEF Register, Goto
<1>2. ASSUME NEW t \in Threads,
             \/ AcquireSession(t) \/ LockWaitMutex(t) \/ FetchSub(t)
             \/ UnlockWaitMutex(t) \/ Leave(t) \/ TimeOut(t)
      PROVE  Accounted'
  BY <1>2 DEF AcquireSession, LockWaitMutex, FetchSub, UnlockWaitMutex, Leave, TimeOut,
              Goto
<1>3. ASSUME NEW t \in Threads, NotifyAll(t) PROVE Accounted'
  BY <1>3 DEF NotifyAll
<1>4. CASE StartQuantum
  BY <1>4 DEF StartQuantum, Goto
<1>5. hostWaiters = 0 => \A h \in Hosts : pc[h] \notin {"lock", "tryLock"}
  BY ZeroMeansNobody DEF Registered, RegisteredAt
<1>6. CASE ServiceLoad \/ ServicePredicate
  BY <1>5, <1>6 DEF ServiceLoad, ServicePredicate, Goto
<1>7. CASE EndQuantum \/ ServiceLock \/ ServiceSleep \/ SpuriousWakeup
  BY <1>7 DEF EndQuantum, ServiceLock, ServiceSleep, SpuriousWakeup, Goto
<1>8. CASE UNCHANGED vars
  BY <1>8 DEF vars
<1> QED
  BY <1>1, <1>2, <1>3, <1>4, <1>6, <1>7, <1>8 DEF Next, WorkerStep, CallStep

\* Inv is an invariant of the hand-off.
THEOREM Invariance == Spec => []Inv
<1>1. Inv /\ [Next]_vars => Inv'
  BY CounterStep, TypeStep, OwnerStep, WakeupStep, AccountedStep DEF Inv
<1> QED BY InitInv, <1>1, PTL DEF Spec

\* The variables keep their types: in particular m_hostWaiters never goes
\* negative, whatever mix of bounded and unbounded waits the frontend makes.
THEOREM TypeCorrect == Spec => []TypeOK
<1>1. Inv => TypeOK
  BY DEF Inv
<1> QED BY Invariance, <1>1, PTL

\* m_hostWaiters counts exactly the registered threads (lockForHost,
\* debugSnapshot).
THEOREM WaitersExactHolds == Spec => []WaitersExact
<1>1. Inv => WaitersExact
  BY DEF Inv
<1> QED BY Invariance, <1>1, PTL

\* serviceHostRequests never sleeps through its last notification.
THEOREM NoLostWakeupHolds == Spec => []NoLostWakeup
<1>1. Inv => NoLostWakeup
  BY DEF Inv
<1> QED BY Invariance, <1>1, PTL

\* At most one quantum starts over the head of a waiting frontend thread,
\* however many frontend threads there are.
THEOREM BoundedOvertakingHolds == Spec => []BoundedOvertaking
<1>1. Inv => BoundedOvertaking
  BY DEF Inv, TypeOK, Waiting, Accounted, BoundedOvertaking
<1> QED BY Invariance, <1>1, PTL

\* What the abstract specification sees of a step: which hosts wait, and which
\* of them were passed.
LEMMA SeenUnchanged ==
  ASSUME UNCHANGED overtaken,
         \A h \in Hosts : pc[h] \in {"lock", "tryLock"} <=> pc'[h] \in {"lock", "tryLock"}
  PROVE  Waiting' = Waiting /\ Passed' = Passed
<1>1. Waiting' = Waiting
  BY DEF Waiting
<1> QED BY <1>1 DEF Passed

\* A granted or abandoned request is no longer seen.
LEMMA SeenRemoved ==
  ASSUME NEW h \in Hosts, UNCHANGED overtaken,
         pc'[h] \notin {"lock", "tryLock"}, \A g \in Hosts \ {h} : pc'[g] = pc[g]
  PROVE  Waiting' = Waiting \ {h} /\ Passed' = Passed \ {h}
<1>1. Waiting' = Waiting \ {h}
  BY DEF Waiting
<1> QED BY <1>1 DEF Passed

\* EmulationSession's mutexes, counter and condition variable implement the
\* abstract hand-off: every step is a step of LockHandoff or invisible to it.
THEOREM Refinement == Spec => ImplementsHandoff
<1>1. Init => Handoff!Init
  BY DEF Init, Handoff!Init, Waiting, Passed, Threads
<1>2. ASSUME Inv, [Next]_vars PROVE [Handoff!Next]_(Handoff!vars)
  <2> USE <1>2 DEF Inv, TypeOK, Threads, Handoff!vars
  <2> DEFINE Same == mutex' = mutex /\ Waiting' = Waiting /\ Passed' = Passed
  <2>0. Same => UNCHANGED Handoff!vars
    OBVIOUS
  <2>1. ASSUME NEW t \in Threads, Register(t) PROVE Same \/ Handoff!Next
    <3>1. CASE t = Worker
      BY <2>1, <3>1, SeenUnchanged DEF Register, Goto
    <3>2. CASE t \in Hosts
      <4>1. t \notin Waiting /\ mutex # t /\ mutex' = mutex
        BY <2>1, <3>2 DEF Register, Waiting, MutexOwner
      <4>2. Waiting' = Waiting \cup {t}
        BY <2>1, <3>2 DEF Register, Goto, Waiting
      <4>3. Passed' = Passed
        BY <2>1, <3>2, <4>1, <4>2 DEF Register, Passed, Waiting
      <4>4. Handoff!Ask(t)
        BY <4>1, <4>2, <4>3 DEF Handoff!Ask
      <4> QED BY <3>2, <4>4 DEF Handoff!Next
    <3> QED BY <3>1, <3>2
  <2>2. ASSUME NEW t \in Threads, AcquireSession(t) PROVE Same \/ Handoff!Next
    <3>0. mutex = Nobody /\ mutex' = t
      BY <2>2 DEF AcquireSession
    <3>1. CASE t = Worker
      <4>1. Waiting' = Waiting /\ Passed' = Passed
        BY <2>2, <3>1, SeenUnchanged DEF AcquireSession, Goto
      <4>2. Handoff!Peek
        BY <3>0, <3>1, <4>1 DEF Handoff!Peek
      <4> QED BY <4>2 DEF Handoff!Next
    <3>2. CASE t \in Hosts
      <4>1. Waiting' = Waiting \ {t} /\ Passed' = Passed \ {t}
        BY <2>2, <3>2, SeenRemoved DEF AcquireSession, Goto
      <4>2. t \in Waiting
        BY <2>2, <3>2 DEF AcquireSession, Waiting
      <4>3. Handoff!Grant(t)
        BY <3>0, <4>1, <4>2 DEF Handoff!Grant
      <4> QED BY <3>2, <4>3 DEF Handoff!Next
    <3> QED BY <3>1, <3>2
  <2>3. ASSUME NEW h \in Hosts, TimeOut(h) PROVE Same \/ Handoff!Next
    <3>1. Waiting' = Waiting \ {h} /\ Passed' = Passed \ {h}
      BY <2>3, SeenRemoved DEF TimeOut, Goto
    <3>2. Handoff!GiveUp(h)
      BY <2>3, <3>1 DEF TimeOut, Waiting, Handoff!GiveUp
    <3> QED BY <3>2 DEF Handoff!Next
  <2>4. ASSUME NEW t \in Threads,
               LockWaitMutex(t) \/ FetchSub(t) \/ UnlockWaitMutex(t) \/ NotifyAll(t)
        PROVE  Same
    <3>1. \A h \in Hosts : pc[h] \in {"lock", "tryLock"} <=> pc'[h] \in {"lock", "tryLock"}
      BY <2>4 DEF LockWaitMutex, FetchSub, UnlockWaitMutex, NotifyAll, Goto
    <3>2. UNCHANGED <<mutex, overtaken>>
      BY <2>4 DEF LockWaitMutex, FetchSub, UnlockWaitMutex, NotifyAll
    <3> QED BY <3>1, <3>2, SeenUnchanged
  <2>5. ASSUME NEW t \in Threads, Leave(t) PROVE Same \/ Handoff!Next
    <3>1. Waiting' = Waiting /\ Passed' = Passed
      BY <2>5, SeenUnchanged DEF Leave, Goto
    <3>2. CASE mutex = t
      <4>1. Handoff!Release
        BY <2>5, <3>1, <3>2 DEF Leave, Handoff!Release
      <4> QED BY <4>1 DEF Handoff!Next
    <3>3. CASE mutex # t
      BY <2>5, <3>1, <3>3 DEF Leave
    <3> QED BY <3>2, <3>3
  <2>6. CASE StartQuantum
    <3>1. Waiting' = Waiting
      BY <2>6 DEF StartQuantum, Goto, Waiting
    <3>2. Passed = {}
      BY <2>6 DEF StartQuantum, Accounted, Passed, Waiting
    <3>3. Passed' = Waiting
      BY <2>6, <3>1 DEF StartQuantum, Passed, Waiting
    <3>4. Handoff!StartQuantum
      BY <2>6, <3>1, <3>2, <3>3 DEF StartQuantum, Handoff!StartQuantum
    <3> QED BY <3>4 DEF Handoff!Next
  <2>7. CASE EndQuantum
    <3>1. Waiting' = Waiting /\ Passed' = Passed
      BY <2>7, SeenUnchanged DEF EndQuantum, Goto
    <3>2. Handoff!Release
      BY <2>7, <3>1 DEF EndQuantum, MutexOwner, Handoff!Release
    <3> QED BY <3>2 DEF Handoff!Next
  <2>8. CASE ServiceLoad \/ ServiceLock \/ ServicePredicate \/ ServiceSleep \/ SpuriousWakeup
    <3>1. \A h \in Hosts : pc[h] \in {"lock", "tryLock"} <=> pc'[h] \in {"lock", "tryLock"}
      BY <2>8 DEF ServiceLoad, ServiceLock, ServicePredicate, ServiceSleep,
                  SpuriousWakeup, Goto
    <3>2. UNCHANGED <<mutex, overtaken>>
      BY <2>8 DEF ServiceLoad, ServiceLock, ServicePredicate, ServiceSleep, SpuriousWakeup
    <3>3. Same
      BY <3>1, <3>2, SeenUnchanged
    <3> QED BY <3>3
  <2>9. CASE UNCHANGED vars
    <3>1. Same
      BY <2>9, SeenUnchanged DEF vars
    <3> QED BY <3>1
  <2> HIDE DEF Same
  <2> QED
    BY <1>2, <2>0, <2>1, <2>2, <2>3, <2>4, <2>5, <2>6, <2>7, <2>8, <2>9
    DEF Next, WorkerStep, CallStep
<1>3. Inv /\ [Next]_vars => [Handoff!Next]_(Handoff!vars)
  BY <1>2
<1> QED BY <1>1, <1>3, Invariance, PTL DEF Spec, ImplementsHandoff, Handoff!Spec

=============================================================================

---------------------------- MODULE LockHandoff ----------------------------
(***************************************************************************)
(* What the session lock promises a frontend thread, without saying how.   *)
(*                                                                         *)
(* A thread of the frontend (a "host") asks for the session, is given it   *)
(* exclusively, or gives up.  The emulation worker alternates quanta of    *)
(* guest execution with short reads of the machine.  The promise of        *)
(* EmulationSession::serviceHostRequests is that the worker never starts a *)
(* second quantum over the head of a host that was already passed once.    *)
(***************************************************************************)
CONSTANTS Hosts,    \* the frontend threads
          Worker,   \* the emulation thread of SessionRunner
          Nobody    \* the owner of a free lock

VARIABLES holder,   \* who may touch the machine
          waiting,  \* the hosts that asked and have neither got it nor given up
          passed    \* the waiting hosts over whose head a quantum was started

vars == <<holder, waiting, passed>>

Init ==
  /\ holder = Nobody
  /\ waiting = {}
  /\ passed = {}

\* A frontend thread asks for the session.
Ask(h) ==
  /\ h \notin waiting
  /\ holder # h
  /\ waiting' = waiting \cup {h}
  /\ UNCHANGED <<holder, passed>>

\* The lock is handed to a waiting host.
Grant(h) ==
  /\ h \in waiting
  /\ holder = Nobody
  /\ holder' = h
  /\ waiting' = waiting \ {h}
  /\ passed' = passed \ {h}

\* A host with a bounded wait gives up.
GiveUp(h) ==
  /\ h \in waiting
  /\ waiting' = waiting \ {h}
  /\ passed' = passed \ {h}
  /\ UNCHANGED holder

\* The worker starts a quantum: never twice over the head of the same request.
StartQuantum ==
  /\ holder = Nobody
  /\ passed = {}
  /\ holder' = Worker
  /\ passed' = waiting
  /\ UNCHANGED waiting

\* The worker takes the lock for a short read, which is not a quantum.
Peek ==
  /\ holder = Nobody
  /\ holder' = Worker
  /\ UNCHANGED <<waiting, passed>>

\* The holder lets go.
Release ==
  /\ holder # Nobody
  /\ holder' = Nobody
  /\ UNCHANGED <<waiting, passed>>

Next ==
  \/ \E h \in Hosts : Ask(h) \/ Grant(h) \/ GiveUp(h)
  \/ StartQuantum \/ Peek \/ Release

Spec == Init /\ [][Next]_vars

=============================================================================

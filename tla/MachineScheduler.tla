--------------------------- MODULE MachineScheduler ---------------------------
(***************************************************************************)
(* The event queue of core/MachineScheduler.cpp: a clock in guest cycles   *)
(* and a priority queue ordered by cycle and, within a cycle, by the order *)
(* of scheduling.  A callback is represented by what it will apply.  The   *)
(* module has the operations; their clients are specifications that extend *)
(* it.  The 64-bit counters do not wrap in any run of the program.         *)
(***************************************************************************)
EXTENDS Naturals

VARIABLES now,           \* m_now
          nextSequence,  \* m_nextSequence
          events         \* m_events, as the set of its elements

schedulerVars == <<now, nextSequence, events>>

InitScheduler == now = 0 /\ nextSequence = 0 /\ events = {}

\* Later(), turned around: e is dispatched before f.
Earlier(e, f) ==
  \/ e.cycle < f.cycle
  \/ e.cycle = f.cycle /\ e.sequence < f.sequence

Schedule(cycle, what) ==
  /\ events' = events \cup {[cycle |-> cycle, sequence |-> nextSequence, what |-> what]}
  /\ nextSequence' = nextSequence + 1
  /\ UNCHANGED now

\* Defect: Later() compares cycles only.
TopOfCycle(e) == e \in events /\ \A f \in events : e.cycle <= f.cycle

\* e is m_events.top().
Top(e) == e \in events /\ \A f \in events : f = e \/ Earlier(e, f)

\* The loop condition of dispatchDue(), for its next event
Due(e) == Top(e) /\ e.cycle <= now

\* One round of the loop: the event leaves the queue before its callback runs.
Pop(e) ==
  /\ Due(e)
  /\ events' = events \ {e}
  /\ UNCHANGED <<now, nextSequence>>

\* Defect: an event due this very cycle is left for the next time.
NothingOverdue == \A e \in events : e.cycle >= now

\* dispatchDue() returns: m_events is empty or its top lies ahead.
NothingDue == \A e \in events : e.cycle > now

\* The clock part of advance()
AdvanceClock(cycles) ==
  /\ now' = now + cycles
  /\ UNCHANGED <<nextSequence, events>>

ResetScheduler ==
  /\ now' = 0
  /\ nextSequence' = 0
  /\ events' = {}

=============================================================================

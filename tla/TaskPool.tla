------------------------------ MODULE TaskPool ------------------------------
(***************************************************************************)
(* What the scheduler promises (src/include/concurrent/scheduler.h:14-20), *)
(* without list, locks, counters or wake-ups: a scheduled fiber runs on one*)
(* thread at a time, may yield or wait and run again, ends once, and       *)
(* stop() returns only when nothing is left.                               *)
(***************************************************************************)
CONSTANTS Fibers, Threads, None

VARIABLES
  ready,      \* fibers somebody has to run
  running,    \* the fiber each thread executes
  waiting,    \* fibers waiting for an event
  done,       \* fibers that ended
  returned    \* stop() has returned

poolVars == <<ready, running, waiting, done, returned>>

Executing(f) == \E t \in Threads : running[t] = f

PoolInit ==
  /\ ready = {} /\ waiting = {} /\ done = {}
  /\ running = [t \in Threads |-> None]
  /\ returned = FALSE

Schedule(f) ==
  /\ ~returned
  /\ f \notin ready \cup waiting \cup done /\ ~Executing(f)
  /\ ready' = ready \cup {f}
  /\ UNCHANGED <<running, waiting, done, returned>>

Execute(t, f) ==
  /\ f \in ready /\ running[t] = None
  /\ ready' = ready \ {f}
  /\ running' = [running EXCEPT ![t] = f]
  /\ UNCHANGED <<waiting, done, returned>>

\* The fiber that thread t executes leaves it: to run again, to wait, or ended.
Leave(t) ==
  /\ running[t] # None
  /\ running' = [running EXCEPT ![t] = None]
  /\ \/ ready' = ready \cup {running[t]} /\ UNCHANGED <<waiting, done>>
     \/ waiting' = waiting \cup {running[t]} /\ UNCHANGED <<ready, done>>
     \/ done' = done \cup {running[t]} /\ UNCHANGED <<ready, waiting>>
  /\ UNCHANGED returned

Wake(f) ==
  /\ f \in waiting
  /\ waiting' = waiting \ {f}
  /\ ready' = ready \cup {f}
  /\ UNCHANGED <<running, done, returned>>

StopReturns ==
  /\ ready = {} /\ waiting = {} /\ \A t \in Threads : running[t] = None
  /\ returned' = TRUE
  /\ UNCHANGED <<ready, running, waiting, done>>

PoolNext ==
  \/ \E f \in Fibers : Schedule(f) \/ Wake(f)
  \/ \E t \in Threads, f \in Fibers : Execute(t, f)
  \/ \E t \in Threads : Leave(t)
  \/ StopReturns

PoolSpec == PoolInit /\ [][PoolNext]_poolVars
=============================================================================

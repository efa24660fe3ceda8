------------------------ MODULE SchedulerRefinement -------------------------
(* The scheduler implements the task pool.                                 *)
EXTENDS Scheduler

Executes(f) == \E t \in Threads : OnCpu(t) /\ task[t] = f

\* A fiber that has to run is in the list or with a thread that took it or is
\* about to put it there.
PoolReady ==
  {f \in Fibers \ armed :
     /\ state[f] \notin Finished
     /\ ~Executes(f)
     /\ Queued(f) \/ \E t \in Threads : Owns(t, f)}

PoolRunning == [t \in Threads |-> IF OnCpu(t) THEN task[t] ELSE None]

PoolWaiting == {f \in armed : ~Executes(f)}

PoolDone == {f \in Fibers \ armed : state[f] \in Finished /\ ~Executes(f)}

Pool == INSTANCE TaskPool WITH
  ready <- PoolReady, running <- PoolRunning, waiting <- PoolWaiting,
  done <- PoolDone, returned <- At(Caller, "returned")

\* Every step of the scheduler is a step of the task pool or none: a fiber is on
\* one thread at a time, comes back after every yield and event, never runs again
\* once it has ended, and stop() returns only when nothing is ready, waiting or
\* running.
ImplementsPool == Pool!PoolSpec
=============================================================================

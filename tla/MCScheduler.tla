---------------------------- MODULE MCScheduler -----------------------------
(* Scheduler on small instances.                                           *)
EXTENDS SchedulerInvariant, TLC

\* The workers are interchangeable where no task is pinned.
WorkerSymmetry == Permutations(Workers)
=============================================================================

------------------------- MODULE SchedulerInvariant -------------------------
(***************************************************************************)
(* The inductive invariant behind the safety of the scheduler when its     *)
(* tasks compute: no fiber waits for an event, no task is pinned, and the  *)
(* application schedules a fiber once. (With waiting fibers and two        *)
(* threads the code does not keep it: see the limits in the README.)       *)
(***************************************************************************)
EXTENDS SchedulerRefinement

Computing == Waiters = {} /\ Pins = {} /\ MaxSubmits = 1

\* Where a thread has a task and where schedule() has a fiber, in every use.
TaskOK ==
  \A t \in Threads :
    /\ pc[t] \in {"count_up", "running", "holding", "swap_out", "post", "set_hold"} =>
         task[t] # None
    /\ Scheduling(t) => call[t].fiber # None
    /\ pc[t] \in SchedPc =>
         /\ call[t].ret \in {"app", "running", "scan", "pending_down"}
         /\ call[t].ret = "running" => task[t] # None

TypeInv == TypeOK /\ TaskOK

\* An event of thread t is triggered and not counted down yet.
InTrigger(t) == pc[t] = "pending_down" \/ (pc[t] \in SchedPc /\ call[t].ret = "pending_down")

Triggering == {t \in Threads : InTrigger(t)}

\* m_pending_event_count is the number of registered events and of those on their way
\* out, in every use.
PendingInv ==
  IsFiniteSet(armed) /\ pending = Cardinality(armed) + Cardinality(Triggering)

-----------------------------------------------------------------------------
(* Control: where the threads are                                          *)

NoPins ==
  /\ \A i \in 1..Len(queue) : queue[i].pin = AnyThread
  /\ \A t \in Threads : call[t].pin = AnyThread

NoTickle == \A t \in Threads : pc[t] # "tickle_me" /\ ~tickleMe[t]

NoEvents ==
  /\ armed = {}
  /\ \A t \in Threads :
       /\ pc[t] \notin {"holding", "pending_down"}
       /\ pc[t] \in SchedPc => call[t].ret # "pending_down"

\* A thread has no task outside the part of run() that treats one.
Taskless ==
  \A t \in Threads :
    /\ pc[t] \in {"scan", "check_pending", "check_tasks", "epoll", "handle", "idle_down",
                  "exited"} \cup StopPc => task[t] = None
    /\ pc[t] \in SchedPc /\ call[t].ret # "running" => task[t] = None

\* Which thread is where, before and after the application calls stop().
Phases ==
  /\ stopped =>
       /\ pc[Caller] \notin {"app", "stop_tickle"}
       /\ ~(pc[Caller] \in SchedPc /\ call[Caller].ret = "app")
  /\ idleDone # {} => stopped
  /\ \A t \in Threads : pc[t] = "exited" => t \in idleDone
  /\ \A t \in Workers :
       /\ pc[t] \notin StopPc
       /\ pc[t] \in SchedPc => call[t].ret # "app"
  /\ pc[Caller] # "exited"
  /\ pc[Caller] \in SchedPc /\ ~UseCaller => call[Caller].ret = "app"
  /\ ~UseCaller => pc[Caller] \in SchedPc \cup {"app", "stop_tickle", "join", "returned"}
  /\ pc[Caller] = "returned" => \A t \in Workers : pc[t] = "exited"

ControlInv == TypeInv /\ NoPins /\ NoTickle /\ NoEvents /\ Taskless /\ Phases

-----------------------------------------------------------------------------
(* Custody: every fiber is in one place, in a state that fits the place    *)

OneEntry ==
  \A i, j \in 1..Len(queue) : queue[i].fiber = queue[j].fiber => i = j

OneOwner ==
  \A t \in Threads :
    /\ Scheduling(t) => call[t].fiber # task[t]
    /\ \A f \in Fibers : Owns(t, f) =>
         /\ ~Queued(f)
         /\ \A u \in Threads : Owns(u, f) => u = t

\* A fiber the application has not scheduled is nowhere.
Fresh ==
  \A f \in Fibers : submits[f] = 0 =>
    /\ state[f] = "INITIALIZE" /\ saved[f]
    /\ ~Queued(f)
    /\ \A t \in Threads : ~Owns(t, f)

Runnable(f) == state[f] \in {"INITIALIZE", "READY"} /\ saved[f]

\* The state of the fiber a thread has fits the place of the thread.
Fits(t) ==
  /\ Scheduling(t) => Runnable(call[t].fiber)
  /\ pc[t] \in {"count_up", "tickle_me", "dispatch"} /\ task[t] # None => Runnable(task[t])
  /\ pc[t] = "running" => state[task[t]] = "EXECUTE"
  /\ pc[t] \in SchedPc /\ call[t].ret = "running" => state[task[t]] = "EXECUTE"
  /\ pc[t] = "swap_out" => state[task[t]] \in Finished \cup {"READY"}
  /\ pc[t] \in {"count_down", "store_down", "post"} /\ task[t] # None =>
       state[task[t]] \in Finished \/ (state[task[t]] = "READY" /\ saved[task[t]])
  /\ pc[t] \notin {"set_hold", "crashed"}

StateFits ==
  /\ \A f \in Fibers : Queued(f) => Runnable(f)
  /\ \A t \in Threads : Fits(t)

CustodyInv == OneEntry /\ OneOwner /\ Fresh /\ StateFits /\ NoFiberLost

-----------------------------------------------------------------------------
(* Draining: the list is empty when every thread of run() has left it or   *)
(* is about to                                                             *)

Leaving(t) ==
  \/ pc[t] \in {"exited", "join", "returned"}
  \/ pc[t] = "dispatch" /\ task[t] = None /\ t \in idleDone

DrainInv == (\A t \in Runners : Leaving(t)) => queue = <<>>

ComputingInv == ControlInv /\ CustodyInv /\ DrainInv

-----------------------------------------------------------------------------
(* One thread: the caller works through the list alone. Its tasks may wait *)
(* for events, be pinned to it and be scheduled again.                     *)

Alone == Workers = {} /\ UseCaller

\* stop() has not set m_is_stopped: nothing has run yet.
BeforeStop(t) ==
  pc[t] \in {"app", "stop_tickle"} \/ (pc[t] \in SchedPc /\ call[t].ret = "app")

\* run() is about to turn to the idle fiber, or in it before the wait.
FoundNothing(t) ==
  \/ pc[t] = "dispatch" /\ task[t] = None
  \/ pc[t] \in {"check_pending", "check_tasks", "epoll"}

\* The fiber of the thread has left it or is about to: run() decides what becomes of it.
Treating(t) ==
  pc[t] \in {"swap_out", "count_down", "store_down", "post", "set_hold"} /\ task[t] # None

\* What the thread has learned at each place is still so: nobody else acts.
AlonePlace(t) ==
  /\ pc[t] \notin {"tickle_me", "exited", "crashed"} /\ ~tickleMe[t]
  /\ pc[t] = "pending_down" => task[t] = None
  /\ ~stopped <=> BeforeStop(t)
  /\ BeforeStop(t) => armed = {}
  /\ t \in idleDone =>
       task[t] = None /\ pc[t] \in {"idle_down", "scan", "dispatch", "join", "returned"}
  /\ pc[t] \in {"check_tasks", "stop_tasks", "join", "returned"} \/ t \in idleDone => armed = {}
  /\ FoundNothing(t) \/ pc[t] \in {"join", "returned"} \/ t \in idleDone => queue = <<>>

\* The fiber on the thread executes; a fiber that executes, or whose context is stale,
\* is the one on the thread.
AloneFiber(t) ==
  /\ pc[t] \in {"running", "holding"} \/ (pc[t] \in SchedPc /\ call[t].ret = "running") =>
       state[task[t]] = "EXECUTE"
  /\ \A f \in Fibers : state[f] = "EXECUTE" \/ ~saved[f] => task[t] = f /\ OnCpu(t)
  /\ Treating(t) => state[task[t]] \in Finished \cup {"READY", "HOLD"}
  /\ pc[t] = "set_hold" => state[task[t]] = "HOLD"

\* m_active_thread_count and the register.
AloneCount(t) ==
  /\ active = IF Counted(t) THEN 1 ELSE 0
  /\ pc[t] = "count_up" => reg[t] = 0
  /\ pc[t] = "store_down" => reg[t] = 1

\* A fiber that was suspended and is still with the thread waits for its event.
AloneHeld(t) ==
  /\ pc[t] = "holding" => task[t] \in armed
  /\ Treating(t) /\ state[task[t]] = "HOLD" => task[t] \in armed

AloneInv ==
  /\ TypeInv /\ PendingInv /\ Taskless /\ NoFiberLost
  /\ \A t \in Threads : AlonePlace(t) /\ AloneFiber(t) /\ AloneCount(t) /\ AloneHeld(t)

\* A fiber that waits for events is scheduled by the application once: it has one entry
\* in the list, or is with the thread, or is registered for its event.
WaiterOnce(t) ==
  /\ armed \subseteq Waiters
  /\ \A i, j \in 1..Len(queue) :
       queue[i].fiber \in Waiters /\ queue[i].fiber = queue[j].fiber => i = j
  /\ task[t] \in Waiters => ~Queued(task[t])
  /\ Scheduling(t) => call[t].fiber # task[t]
  /\ Scheduling(t) /\ call[t].fiber \in Waiters =>
       ~Queued(call[t].fiber) /\ call[t].fiber \notin armed

\* A registered fiber is suspended, or about to be by the thread that executes it.
ArmedSuspended(t) ==
  \A f \in armed :
    /\ ~Queued(f)
    /\ \/ pc[t] = "holding" /\ task[t] = f
       \/ state[f] = "HOLD" /\ (task[t] = f => Treating(t))

\* A fiber that was not scheduled is nowhere.
Unscheduled(t) ==
  \A f \in Fibers : submits[f] = 0 =>
    state[f] = "INITIALIZE" /\ saved[f] /\ f \notin armed /\ ~Queued(f) /\ ~Owns(t, f)

PlacedAt(t) == WaiterOnce(t) /\ ArmedSuspended(t) /\ Unscheduled(t)

AlonePoolInv == AloneInv /\ \A t \in Threads : PlacedAt(t)
=============================================================================

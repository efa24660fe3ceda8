------------------------------ MODULE Scheduler -----------------------------
(***************************************************************************)
(* The coroutine scheduler: src/src/concurrent/scheduler.cpp with the      *)
(* idle(), tickle() and isCompleted() that IOManager overrides             *)
(* (src/src/concurrent/iomanager.cpp), because every scheduler the program *)
(* creates is an IOManager.                                                *)
(*                                                                         *)
(* Threads run Scheduler::run() over one task list. A step of the model is *)
(* one access to state that threads share: a critical section of m_mutex,  *)
(* a read or a write outside it, or a context switch. m_active_thread_count*)
(* is incremented under m_mutex but decremented outside it, and it is no   *)
(* atomic: a load and a store are two steps each time.                     *)
(*                                                                         *)
(* What the fibers do is nondeterministic: schedule another fiber, yield,  *)
(* register an event and hold until it is triggered, end, throw. Timers    *)
(* are in TimerManager: their callbacks reach this module as further tasks.*)
(***************************************************************************)
EXTENDS Fiber, Integers, FiniteSets, Sequences

CONSTANTS
  Workers,      \* threads of m_threads
  Caller,       \* the thread that builds, feeds and stops the scheduler
  UseCaller,    \* m_use_caller
  Waiters,      \* fibers that wait for events (addEvent, then YieldToHold)
  Pins,         \* threads a task may be pinned to (m_thread_in_charge_id)
  AnyThread,          \* -1: the task is not pinned
  None,         \* no fiber
  CounterMod,   \* m_active_thread_count is a size_t: 2^64
  MaxSubmits,   \* bound: how often the application schedules one fiber
  MaxYields     \* bound: how often one fiber yields

Threads == Workers \cup {Caller}

\* The threads that execute Scheduler::run().
Runners == IF UseCaller THEN Threads ELSE Workers

ASSUME CallerIsNoWorker == Caller \notin Workers
ASSUME ThreadCountPositive == UseCaller \in BOOLEAN /\ Runners # {}
ASSUME NoneIsNoFiber == None \notin Fibers /\ Waiters \subseteq Fibers
ASSUME AnyIsNoThread == AnyThread \notin Threads /\ Pins \subseteq Threads
ASSUME CounterModAssumption == CounterMod \in Nat /\ CounterMod > 1
ASSUME BoundsAssumption ==
  MaxSubmits \in Nat /\ MaxYields \in Nat /\ IsFiniteSet(Workers)

VARIABLES
  queue,      \* m_tasks: records of a fiber and the thread in charge
  active,     \* m_active_thread_count
  idle,       \* m_idle_thread_count
  stopped,    \* m_is_stopped
  pipeReady,  \* the wake-up pipe has an edge no epoll_wait has returned yet
  armed,      \* fibers registered with an event that is not yet triggered
  pending,    \* m_pending_event_count (atomic)
  pc,         \* where each thread is
  task,       \* the local task.m_fiber of run()
  tickleMe,   \* the local tickle_me of run()
  reg,        \* the register that holds a loaded m_active_thread_count
  idleDone,   \* threads whose idle fiber is TERMINAL
  call,       \* the arguments and locals of a thread's schedule()
  tickles,    \* loop counter of stop()
  submits,    \* how often each fiber was scheduled by the application
  yields      \* how often each fiber yielded

counters == <<active, idle, stopped, pending>>
locals == <<task, tickleMe, reg, idleDone, call>>
bounds == <<tickles, submits, yields>>
vars == <<fiberVars, queue, counters, pipeReady, armed, pc, locals, bounds>>

RunPc == {"scan", "count_up", "tickle_me", "dispatch", "running", "holding",
          "swap_out", "count_down", "store_down", "post", "set_hold",
          "check_pending", "check_tasks", "epoll", "handle", "pending_down",
          "idle_down", "crashed"}
SchedPc == {"sched_read", "sched_push", "sched_tickle"}
StopPc == {"app", "stop_tickle", "stop_pending", "stop_tasks", "join", "returned"}
PC == RunPc \cup SchedPc \cup StopPc \cup {"exited"}

NoCall == [fiber |-> None, pin |-> AnyThread, need |-> FALSE, ret |-> "scan"]

\* The scheduler as its constructor leaves it: start() ran, the threads of the
\* pool are about to scan, the calling thread is in the application.
Init ==
  /\ FiberInit
  /\ queue = <<>> /\ active = 0 /\ idle = 0 /\ pending = 0
  /\ stopped = FALSE /\ pipeReady = FALSE /\ armed = {}
  /\ pc = [t \in Threads |-> IF t = Caller THEN "app" ELSE "scan"]
  /\ task = [t \in Threads |-> None]
  /\ tickleMe = [t \in Threads |-> FALSE]
  /\ reg = [t \in Threads |-> 0]
  /\ idleDone = {}
  /\ call = [t \in Threads |-> NoCall]
  /\ tickles = 0
  /\ submits = [f \in Fibers |-> 0]
  /\ yields = [f \in Fibers |-> 0]

At(t, label) == pc[t] = label
Goto(t, label) == pc' = [pc EXCEPT ![t] = label]

\* m_mutex is held between two steps only while its holder increments
\* m_active_thread_count.
MutexFree == \A t \in Threads : ~At(t, "count_up")

\* IOManager::tickle(): write one byte to the pipe if a thread is idle.
Tickle == pipeReady' = (pipeReady \/ idle > 0)

-----------------------------------------------------------------------------
(* schedule(): m_tasks.empty() is read before the lock is taken            *)

CallSchedule(t, f, pin, ret) ==
  /\ call' = [call EXCEPT ![t] = [fiber |-> f, pin |-> pin, need |-> FALSE, ret |-> ret]]
  /\ Goto(t, "sched_read")

\* schedule() returns to where it was called.
Return(t) ==
  /\ call' = [call EXCEPT ![t] = NoCall]
  /\ Goto(t, call[t].ret)

SchedRead(t) ==
  /\ At(t, "sched_read")
  /\ call' = [call EXCEPT ![t].need = (queue = <<>>)]
  /\ Goto(t, "sched_push")
  /\ UNCHANGED <<fiberVars, queue, counters, pipeReady, armed, task, tickleMe, reg,
                 idleDone, bounds>>

SchedPush(t) ==
  /\ At(t, "sched_push") /\ MutexFree
  /\ queue' = Append(queue, [fiber |-> call[t].fiber, pin |-> call[t].pin])
  /\ IF call[t].need THEN Goto(t, "sched_tickle") /\ UNCHANGED call ELSE Return(t)
  /\ UNCHANGED <<fiberVars, counters, pipeReady, armed, task, tickleMe, reg, idleDone,
                 bounds>>

SchedTickle(t) ==
  /\ At(t, "sched_tickle")
  /\ Tickle
  /\ Return(t)
  /\ UNCHANGED <<fiberVars, queue, counters, armed, task, tickleMe, reg, idleDone, bounds>>

\* The application schedules f, possibly for a second time while the first
\* task is still in the list (the EXECUTE test of run() is there for that).
Submit(f, pin) ==
  /\ At(Caller, "app")
  /\ submits[f] < (IF f \in Waiters THEN 1 ELSE MaxSubmits)
  /\ submits' = [submits EXCEPT ![f] = @ + 1]
  /\ CallSchedule(Caller, f, pin, "app")
  /\ UNCHANGED <<fiberVars, queue, counters, pipeReady, armed, task, tickleMe, reg,
                 idleDone, tickles, yields>>

-----------------------------------------------------------------------------
(* run(): take a task                                                      *)

Mine(t, entry) == entry.pin \in {AnyThread, t}

\* Entry i of the list is one that thread t takes: not pinned to another
\* thread, and its fiber is not executing.
Takeable(t, i) == Mine(t, queue[i]) /\ state[queue[i].fiber] # "EXECUTE"

\* Mutants of Without: the entry stays in the list; the list is cut off.
WithoutErasing(seq, i) == seq
WithoutRest(seq, i) == SubSeq(seq, 1, i - 1)

Without(seq, i) == SubSeq(seq, 1, i - 1) \o SubSeq(seq, i + 1, Len(seq))

\* Take the first task that is for this thread; m_mutex stays held until the
\* increment is stored.
ScanTake(t) ==
  /\ At(t, "scan") /\ MutexFree
  /\ \E i \in 1..Len(queue) :
       /\ Takeable(t, i)
       /\ \A j \in 1..(i - 1) : ~Takeable(t, j)
       /\ task' = [task EXCEPT ![t] = queue[i].fiber]
       /\ queue' = Without(queue, i)
       /\ tickleMe' = [tickleMe EXCEPT ![t] = \E j \in 1..(i - 1) : ~Mine(t, queue[j])]
  /\ reg' = [reg EXCEPT ![t] = active]
  /\ Goto(t, "count_up")
  /\ UNCHANGED <<fiberVars, counters, pipeReady, armed, idleDone, call, bounds>>

ScanNothing(t) ==
  /\ At(t, "scan") /\ MutexFree
  /\ \A i \in 1..Len(queue) : ~Takeable(t, i)
  /\ tickleMe' = [tickleMe EXCEPT ![t] = \E j \in 1..Len(queue) : ~Mine(t, queue[j])]
  /\ Goto(t, IF tickleMe'[t] THEN "tickle_me" ELSE "dispatch")
  /\ UNCHANGED <<fiberVars, queue, counters, pipeReady, armed, task, reg, idleDone,
                 call, bounds>>

CountUp(t) ==
  /\ At(t, "count_up")
  /\ active' = (reg[t] + 1) % CounterMod
  /\ reg' = [reg EXCEPT ![t] = 0]
  /\ Goto(t, IF tickleMe[t] THEN "tickle_me" ELSE "dispatch")
  /\ UNCHANGED <<fiberVars, queue, idle, stopped, pending, pipeReady, armed, task,
                 tickleMe, idleDone, call, bounds>>

TickleMe(t) ==
  /\ At(t, "tickle_me")
  /\ Tickle
  /\ tickleMe' = [tickleMe EXCEPT ![t] = FALSE]
  /\ Goto(t, "dispatch")
  /\ UNCHANGED <<fiberVars, queue, counters, armed, task, reg, idleDone, call, bounds>>

\* Mutant of Dispatch: a fiber that has ended is started again.
DispatchEnded(t) ==
  /\ At(t, "dispatch") /\ task[t] # None
  /\ SwapIn(task[t])
  /\ Goto(t, "running")
  /\ UNCHANGED <<queue, counters, pipeReady, armed, locals, bounds>>

\* Switch to the task's fiber.
Dispatch(t) ==
  /\ At(t, "dispatch") /\ task[t] # None
  /\ state[task[t]] \notin Finished
  /\ CanSwapIn(task[t])
  /\ SwapIn(task[t])
  /\ Goto(t, "running")
  /\ UNCHANGED <<queue, counters, pipeReady, armed, locals, bounds>>

\* Mutant of DropFinished: the thread that took the task stays counted.
DropFinishedCounted(t) ==
  /\ At(t, "dispatch") /\ task[t] # None
  /\ state[task[t]] \in Finished
  /\ task' = [task EXCEPT ![t] = None]
  /\ Goto(t, "scan")
  /\ UNCHANGED <<fiberVars, queue, counters, pipeReady, armed, tickleMe, reg, idleDone,
                 call, bounds>>

\* The fiber of the task has already ended: only count down.
DropFinished(t) ==
  /\ At(t, "dispatch") /\ task[t] # None
  /\ state[task[t]] \in Finished
  /\ task' = [task EXCEPT ![t] = None]
  /\ Goto(t, "count_down")
  /\ UNCHANGED <<fiberVars, queue, counters, pipeReady, armed, tickleMe, reg, idleDone,
                 call, bounds>>

-----------------------------------------------------------------------------
(* What the fiber does while its thread is in swapIn()                     *)

Finish(t, s) ==
  /\ At(t, "running")
  /\ Publish(task[t], s)
  /\ Goto(t, "swap_out")
  /\ UNCHANGED <<queue, counters, pipeReady, armed, locals, bounds>>

YieldToReady(t) ==
  /\ At(t, "running") /\ yields[task[t]] < MaxYields
  /\ Publish(task[t], "READY")
  /\ yields' = [yields EXCEPT ![task[t]] = @ + 1]
  /\ Goto(t, "swap_out")
  /\ UNCHANGED <<queue, counters, pipeReady, armed, locals, tickles, submits>>

\* addEvent() without a callback: the event will schedule this fiber.
Arm(t) ==
  /\ At(t, "running") /\ task[t] \in Waiters \ armed /\ yields[task[t]] < MaxYields
  /\ state[task[t]] = "EXECUTE"
  /\ armed' = armed \cup {task[t]}
  /\ pending' = pending + 1
  /\ yields' = [yields EXCEPT ![task[t]] = @ + 1]
  /\ Goto(t, "holding")
  /\ UNCHANGED <<fiberVars, queue, active, idle, stopped, pipeReady, locals, tickles,
                 submits>>

YieldToHold(t) ==
  /\ At(t, "holding")
  /\ Publish(task[t], "HOLD")
  /\ Goto(t, "swap_out")
  /\ UNCHANGED <<queue, counters, pipeReady, armed, locals, bounds>>

\* The running fiber schedules another one.
Spawn(t, f, pin) ==
  /\ At(t, "running") /\ submits[f] = 0
  /\ submits' = [submits EXCEPT ![f] = 1]
  /\ CallSchedule(t, f, pin, "running")
  /\ UNCHANGED <<fiberVars, queue, counters, pipeReady, armed, task, tickleMe, reg,
                 idleDone, tickles, yields>>

LeaveFiber(t) ==
  /\ At(t, "swap_out")
  /\ SwapOut(task[t])
  /\ Goto(t, "count_down")
  /\ UNCHANGED <<queue, counters, pipeReady, armed, locals, bounds>>

-----------------------------------------------------------------------------
(* run(): after the fiber has left                                         *)

\* --m_active_thread_count outside the lock: the load, then the store.
CountDown(t) ==
  /\ At(t, "count_down")
  /\ reg' = [reg EXCEPT ![t] = active]
  /\ Goto(t, "store_down")
  /\ UNCHANGED <<fiberVars, queue, counters, pipeReady, armed, task, tickleMe, idleDone,
                 call, bounds>>

StoreDown(t) ==
  /\ At(t, "store_down")
  /\ active' = (reg[t] - 1) % CounterMod
  /\ reg' = [reg EXCEPT ![t] = 0]
  /\ Goto(t, IF task[t] = None THEN "scan" ELSE "post")
  /\ UNCHANGED <<fiberVars, queue, idle, stopped, pending, pipeReady, armed, task,
                 tickleMe, idleDone, call, bounds>>

\* A READY fiber goes back to the list, for any thread.
Requeue(t) ==
  /\ At(t, "post") /\ state[task[t]] = "READY"
  /\ task' = [task EXCEPT ![t] = None]
  /\ CallSchedule(t, task[t], AnyThread, "scan")
  /\ UNCHANGED <<fiberVars, queue, counters, pipeReady, armed, tickleMe, reg, idleDone,
                 bounds>>

DropEnded(t) ==
  /\ At(t, "post") /\ state[task[t]] \in Finished
  /\ task' = [task EXCEPT ![t] = None]
  /\ Goto(t, "scan")
  /\ UNCHANGED <<fiberVars, queue, counters, pipeReady, armed, tickleMe, reg, idleDone,
                 call, bounds>>

\* Neither READY nor ended: decided here, written in the next step.
DecideHold(t) ==
  /\ At(t, "post") /\ state[task[t]] \notin Finished \cup {"READY"}
  /\ Goto(t, "set_hold")
  /\ UNCHANGED <<fiberVars, queue, counters, pipeReady, armed, locals, bounds>>

SetHold(t) ==
  /\ At(t, "set_hold")
  /\ Publish(task[t], "HOLD")
  /\ task' = [task EXCEPT ![t] = None]
  /\ Goto(t, "scan")
  /\ UNCHANGED <<queue, counters, pipeReady, armed, tickleMe, reg, idleDone, call, bounds>>

-----------------------------------------------------------------------------
(* run() without a task: the idle fiber, IOManager::idle()                 *)

GoIdle(t) ==
  /\ At(t, "dispatch") /\ task[t] = None /\ t \notin idleDone /\ MutexFree
  /\ idle' = idle + 1
  /\ Goto(t, "check_pending")
  /\ UNCHANGED <<fiberVars, queue, active, stopped, pending, pipeReady, armed, locals,
                 bounds>>

\* IOManager::isCompleted(): m_pending_event_count first, then under m_mutex
\* Scheduler::isCompleted().
Completed == stopped /\ queue = <<>> /\ active = 0

CheckPending(t) ==
  /\ At(t, "check_pending")
  /\ Goto(t, IF pending = 0 THEN "check_tasks" ELSE "epoll")
  /\ UNCHANGED <<fiberVars, queue, counters, pipeReady, armed, locals, bounds>>

CheckTasks(t) ==
  /\ At(t, "check_tasks") /\ MutexFree
  /\ idleDone' = IF Completed THEN idleDone \cup {t} ELSE idleDone
  /\ Goto(t, IF Completed THEN "idle_down" ELSE "epoll")
  /\ UNCHANGED <<fiberVars, queue, counters, pipeReady, armed, task, tickleMe, reg, call,
                 bounds>>

\* epoll_wait() returns: an edge of the pipe, an event, or the timeout of at
\* most 3000 ms.
EpollReturn(t) ==
  /\ At(t, "epoll")
  /\ pipeReady' \in {FALSE, pipeReady}
  /\ Goto(t, "handle")
  /\ UNCHANGED <<fiberVars, queue, counters, armed, locals, bounds>>

\* Mutant of Trigger: the event stays registered.
TriggerRegistered(t, f) ==
  /\ At(t, "handle") /\ f \in armed
  /\ CallSchedule(t, f, AnyThread, "pending_down")
  /\ UNCHANGED <<fiberVars, queue, counters, pipeReady, armed, task, tickleMe, reg,
                 idleDone, bounds>>

\* An event of fiber f is ready: unregister it and schedule f, then
\* decrement m_pending_event_count.
Trigger(t, f) ==
  /\ At(t, "handle") /\ f \in armed
  /\ armed' = armed \ {f}
  /\ CallSchedule(t, f, AnyThread, "pending_down")
  /\ UNCHANGED <<fiberVars, queue, counters, pipeReady, task, tickleMe, reg, idleDone,
                 bounds>>

\* Mutant of PendingDown: the event is not counted down.
PendingKept(t) ==
  /\ At(t, "pending_down")
  /\ Goto(t, "handle")
  /\ UNCHANGED <<fiberVars, queue, counters, pipeReady, armed, locals, bounds>>

PendingDown(t) ==
  /\ At(t, "pending_down")
  /\ pending' = pending - 1
  /\ Goto(t, "handle")
  /\ UNCHANGED <<fiberVars, queue, active, idle, stopped, pipeReady, armed, locals, bounds>>

\* Mutant of HandleDone: the idle fiber polls again without leaving to run().
HandleAgain(t) ==
  /\ At(t, "handle")
  /\ Goto(t, "epoll")
  /\ UNCHANGED <<fiberVars, queue, counters, pipeReady, armed, locals, bounds>>

HandleDone(t) ==
  /\ At(t, "handle")
  /\ Goto(t, "idle_down")
  /\ UNCHANGED <<fiberVars, queue, counters, pipeReady, armed, locals, bounds>>

IdleDown(t) ==
  /\ At(t, "idle_down") /\ MutexFree
  /\ idle' = idle - 1
  /\ Goto(t, "scan")
  /\ UNCHANGED <<fiberVars, queue, active, stopped, pending, pipeReady, armed, locals,
                 bounds>>

\* The idle fiber is TERMINAL and no task was taken: leave run().
ExitRun(t) ==
  /\ At(t, "dispatch") /\ task[t] = None /\ t \in idleDone
  /\ Goto(t, IF t = Caller THEN "join" ELSE "exited")
  /\ UNCHANGED <<fiberVars, queue, counters, pipeReady, armed, locals, bounds>>

-----------------------------------------------------------------------------
(* stop(): tickle once per thread, then set m_is_stopped, then wait        *)

ThreadCount == Cardinality(Runners)

StopBegin ==
  /\ At(Caller, "app")
  /\ Goto(Caller, "stop_tickle")
  /\ UNCHANGED <<fiberVars, queue, counters, pipeReady, armed, locals, bounds>>

StopTickle ==
  /\ At(Caller, "stop_tickle") /\ tickles < ThreadCount
  /\ Tickle
  /\ tickles' = tickles + 1
  /\ UNCHANGED <<fiberVars, queue, counters, armed, pc, locals, submits, yields>>

StopFlag ==
  /\ At(Caller, "stop_tickle") /\ tickles = ThreadCount
  /\ stopped' = TRUE
  /\ Goto(Caller, IF UseCaller THEN "stop_pending" ELSE "join")
  /\ UNCHANGED <<fiberVars, queue, active, idle, pending, pipeReady, armed, locals, bounds>>

\* The calling thread joins the work unless everything is completed.
StopCheckPending ==
  /\ At(Caller, "stop_pending")
  /\ Goto(Caller, IF pending = 0 THEN "stop_tasks" ELSE "scan")
  /\ UNCHANGED <<fiberVars, queue, counters, pipeReady, armed, locals, bounds>>

StopCheckTasks ==
  /\ At(Caller, "stop_tasks") /\ MutexFree
  /\ Goto(Caller, IF Completed THEN "join" ELSE "scan")
  /\ UNCHANGED <<fiberVars, queue, counters, pipeReady, armed, locals, bounds>>

\* Mutant of StopReturn: the threads are not joined.
StopReturnUnjoined ==
  /\ At(Caller, "join")
  /\ Goto(Caller, "returned")
  /\ UNCHANGED <<fiberVars, queue, counters, pipeReady, armed, locals, bounds>>

StopReturn ==
  /\ At(Caller, "join")
  /\ \A t \in Workers : At(t, "exited")
  /\ Goto(Caller, "returned")
  /\ UNCHANGED <<fiberVars, queue, counters, pipeReady, armed, locals, bounds>>

-----------------------------------------------------------------------------
(* An assertion that fails aborts the process; a jump to a stale context   *)
(* corrupts it. Nothing is modelled after either.                          *)

SwapInFails(t) ==
  /\ At(t, "dispatch") /\ task[t] # None
  /\ state[task[t]] \notin Finished
  /\ ~CanSwapIn(task[t])
  /\ Goto(t, "crashed")
  /\ UNCHANGED <<fiberVars, queue, counters, pipeReady, armed, locals, bounds>>

AddEventFails(t) ==
  /\ At(t, "running") /\ task[t] \in Waiters \ armed /\ yields[task[t]] < MaxYields
  /\ state[task[t]] # "EXECUTE"
  /\ Goto(t, "crashed")
  /\ UNCHANGED <<fiberVars, queue, counters, pipeReady, armed, locals, bounds>>

Crashed == \E t \in Threads : At(t, "crashed")

-----------------------------------------------------------------------------
Pinning == Pins \cup {AnyThread}

ScheduleStep(t) == SchedRead(t) \/ SchedPush(t) \/ SchedTickle(t)

TaskStep(t) ==
  \/ ScanTake(t) \/ ScanNothing(t) \/ CountUp(t) \/ TickleMe(t)
  \/ Dispatch(t) \/ DropFinished(t) \/ SwapInFails(t)
  \/ CountDown(t) \/ StoreDown(t)
  \/ Requeue(t) \/ DropEnded(t) \/ DecideHold(t) \/ SetHold(t)

FiberStep(t) ==
  \/ \E s \in Finished : Finish(t, s)
  \/ YieldToReady(t)
  \/ Arm(t) \/ YieldToHold(t) \/ AddEventFails(t)
  \/ \E f \in Fibers, pin \in Pinning : Spawn(t, f, pin)
  \/ LeaveFiber(t)

IdleStep(t) ==
  \/ GoIdle(t) \/ CheckPending(t) \/ CheckTasks(t) \/ EpollReturn(t)
  \/ \E f \in Fibers : Trigger(t, f)
  \/ PendingDown(t) \/ HandleDone(t) \/ IdleDown(t) \/ ExitRun(t)

StopStep ==
  \/ StopTickle \/ StopFlag \/ StopCheckPending \/ StopCheckTasks \/ StopReturn

ThreadStep(t) == ScheduleStep(t) \/ TaskStep(t) \/ FiberStep(t) \/ IdleStep(t)

Next ==
  /\ ~Crashed
  /\ \/ \E t \in Threads : ThreadStep(t)
     \/ \E f \in Fibers, pin \in Pinning : Submit(f, pin)
     \/ StopBegin
     \/ StopStep

Spec == Init /\ [][Next]_vars

\* Every thread keeps running, a lock is granted to a thread that asks for it
\* again and again, and every event a fiber waits for arrives.
Fairness ==
  /\ \A t \in Threads : SF_vars(~Crashed /\ ThreadStep(t))
  /\ SF_vars(~Crashed /\ StopStep)
  /\ \A f \in Fibers : SF_vars(~Crashed /\ \E t \in Threads : Trigger(t, f))

FairSpec == Spec /\ Fairness

-----------------------------------------------------------------------------
(* Properties *)

Entry == [fiber : Fibers, pin : Threads \cup {AnyThread}]

CallRecord == [fiber : Fibers \cup {None}, pin : Threads \cup {AnyThread},
               need : BOOLEAN, ret : PC]

TypeOK ==
  /\ FiberTypeOK
  /\ queue \in Seq(Entry)
  /\ active \in 0..(CounterMod - 1)
  /\ idle \in Int /\ pending \in Int
  /\ stopped \in BOOLEAN /\ pipeReady \in BOOLEAN
  /\ armed \subseteq Fibers
  /\ pc \in [Threads -> PC]
  /\ task \in [Threads -> Fibers \cup {None}]
  /\ tickleMe \in [Threads -> BOOLEAN]
  /\ reg \in [Threads -> 0..(CounterMod - 1)]
  /\ idleDone \subseteq Threads
  /\ call \in [Threads -> CallRecord]
  /\ tickles \in Nat
  /\ submits \in [Fibers -> Nat]
  /\ yields \in [Fibers -> Nat]

\* Thread t is inside schedule() with a fiber it has not put in the list yet.
Scheduling(t) == pc[t] \in {"sched_read", "sched_push"}

\* Thread t executes code of the fiber task[t].
OnCpu(t) ==
  \/ pc[t] \in {"running", "holding", "swap_out"}
  \/ pc[t] \in SchedPc /\ call[t].ret = "running"

Owns(t, f) == task[t] = f \/ (Scheduling(t) /\ call[t].fiber = f)

Queued(f) == \E i \in 1..Len(queue) : queue[i].fiber = f

\* No fiber executes on two threads at once (the EXECUTE test of run() and
\* the assertion of swapIn() are there for that).
Exclusive ==
  \A t, u \in Threads : OnCpu(t) /\ OnCpu(u) /\ t # u => task[t] # task[u]

\* No fiber is lost between the list, the threads and the events: whatever was
\* scheduled and has not ended is in the list, with a thread, or waits.
NoFiberLost ==
  \A f \in Fibers :
    submits[f] > 0 /\ state[f] \notin Finished =>
      Queued(f) \/ f \in armed \/ \E t \in Threads : Owns(t, f)

\* Where the tasks for thread t stand in a list.
PinnedTo(list, t) == {i \in 1..Len(list) : list[i].pin = t}

\* The tasks for thread t, but for those taken, stay in the list in their order, and
\* new ones stand behind them: place says where each of them stands after the step.
TasksStay(t, taken) ==
  \E place \in [PinnedTo(queue, t) \ taken -> PinnedTo(queue', t)] :
    /\ \A i \in DOMAIN place : queue'[place[i]] = queue[i]
    /\ \A i, j \in DOMAIN place : i < j => place[i] < place[j]
    /\ \A i \in DOMAIN place, k \in PinnedTo(queue', t) :
         (\A j \in DOMAIN place : place[j] # k) => place[i] < k

\* A task pinned to thread t leaves the list only when t takes it, and alone,
\* whatever the other threads take from between such tasks (scheduler.cpp:205-256).
OthersTasksStay ==
  [][\A t \in Threads :
       \/ TasksStay(t, {})
       \/ /\ At(t, "scan") /\ pc'[t] = "count_up"
          /\ \E i \in PinnedTo(queue, t) : task'[t] = queue[i].fiber /\ TasksStay(t, {i})]_vars

\* stop() returns only when every task of the list is done (scheduler.h:19).
StopDrains ==
  At(Caller, "returned") =>
    /\ queue = <<>>
    /\ \A f \in Fibers : submits[f] > 0 => state[f] \in Finished

\* No thread jumps to a context that is not saved and no assertion of swapIn()
\* or addEvent() fails.
NoCrash == ~Crashed

\* A fiber that has ended is never marked as suspended again: its destructor
\* asserts a final state (fiber.cpp:57-62).
EndedStaysEnded ==
  [][\A f \in Fibers : state[f] \in Finished => state'[f] \in Finished]_vars

\* Threads that have counted the task they took and not yet counted it down.
Counted(t) ==
  \/ pc[t] \in {"running", "holding", "swap_out", "count_down", "store_down"}
  \/ pc[t] \in {"tickle_me", "dispatch"} /\ task[t] # None
  \/ pc[t] \in SchedPc /\ call[t].ret = "running"

\* m_active_thread_count is the number of threads with a task.
ActiveExact == active = Cardinality({t \in Threads : Counted(t)})

\* m_pending_event_count covers every registered event, so a scheduler that
\* finds it zero has no fiber waiting.
PendingCovers == pending >= Cardinality(armed)

\* Every thread of run() sleeps in epoll_wait with nothing to wake it.
AllAsleep ==
  /\ \A t \in Runners : At(t, "epoll")
  /\ ~pipeReady
  /\ pc[Caller] \notin SchedPc

\* A task is never left to the 3000 ms timeout: schedule() notifies a sleeping
\* thread that a task is there (scheduler.cpp:139, 154).
NoLostWakeup == AllAsleep => queue = <<>>

\* The IO manager stops only after every event is handled (iomanager.h:25).
StopAwaitsEvents == At(Caller, "returned") => armed = {}

\* Once stop() is called it returns.
StopReturns == At(Caller, "stop_tickle") ~> At(Caller, "returned")
=============================================================================

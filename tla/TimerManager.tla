---------------------------- MODULE TimerManager ----------------------------
(***************************************************************************)
(* The timers of src/src/concurrent/timer.cpp together with the part of    *)
(* IOManager::idle() that waits for them and collects the expired ones     *)
(* (src/src/concurrent/iomanager.cpp).                                     *)
(*                                                                         *)
(* m_timers is a std::set ordered by execute time, then by address; every  *)
(* access to it is a critical section of m_mutex and one step here. What   *)
(* the code does between two sections, changing a timer it took out, or    *)
(* using what it saw in the first, is a step of its own.                   *)
(*                                                                         *)
(* epoll_wait() measures real time, the timers use the clock of the        *)
(* system, which an administrator may set back.                            *)
(***************************************************************************)
EXTENDS Integers, FiniteSets

CONSTANTS
  Pollers,      \* threads of run(): tasks, and polling when there are none
  Users,        \* other threads of the application
  Timers,       \* addresses of the Timer objects
  Recurring,    \* those with m_is_recurring
  Cancels,      \* those the application cancels
  Cycles,       \* run cycles the application asks for
  Backs,        \* by how much the system clock may be set back
  Start,        \* the time at which the manager is created
  Hour,         \* 60 * 60 * 1000
  MaxWait,      \* MAX_TIMEOUT of idle()
  MaxTime,      \* bound: real time at which the model ends
  MaxResets     \* bound: refreshes and resets

Threads == Pollers \cup Users

ASSUME PollersAssumption == Pollers \cap Users = {} /\ Pollers # {}
ASSUME TimersAreAddresses == Timers \subseteq Nat
ASSUME TimerKinds == Recurring \subseteq Timers /\ Cancels \subseteq Timers
ASSUME CyclesPositive == Cycles \subseteq Nat \ {0}
ASSUME TimesAreNaturals ==
  /\ Start \in Nat /\ Hour \in Nat /\ MaxWait \in Nat /\ MaxTime \in Nat /\ MaxResets \in Nat
  /\ Backs \subseteq 1..Start   \* the clock counts from 1970

VARIABLES
  mono,       \* real time
  back,       \* by how much the system clock was set back
  previous,   \* m_previous_time
  timers,     \* m_timers
  due,        \* m_execute_time of each timer
  cycle,      \* m_run_cycle of each timer
  pc,         \* where each thread is
  op,         \* arguments and locals of the timer operation of a thread
  now,        \* the local now of getExpired_callbacks()
  rollover,   \* the local rollover
  expired,    \* expired timers a poller has taken and not treated yet
  wake,       \* real time at which epoll_wait() of a poller times out
  pipeReady,  \* the wake-up pipe has an edge no epoll_wait() has returned yet
  stopping,   \* stop() was called
  added,      \* timers the application has added
  cancelled,  \* timers the application has cancelled
  runs,       \* how often each timer was collected: 0, 1, or 2 for more
  resets      \* refreshes and resets so far

clockVars == <<mono, back>>
timerVars == <<due, cycle>>
pollVars == <<now, rollover, wake>>
appVars == <<added, cancelled, resets>>
vars == <<clockVars, timerVars, pollVars, appVars, previous, timers, pc, op, expired,
          pipeReady, stopping, runs>>

PC == {"run", "insert", "tickle", "set_due", "check", "wait", "epoll", "clock", "empty",
       "rollover", "first", "collect", "rearm", "exited", "crashed"}

NoOp == [timer |-> -1, cycle |-> 0, fromNow |-> FALSE, ret |-> "run"]

Op == [timer : Timers \cup {-1}, cycle : Nat, fromNow : BOOLEAN, ret : {"tickle", "run", "rearm"}]

\* GetCurrentMS()
Now == mono - back

At(th, label) == pc[th] = label
Goto(th, label) == pc' = [pc EXCEPT ![th] = label]

\* The order of m_timers.
Before(t, u) == due[t] < due[u] \/ (due[t] = due[u] /\ t < u)

\* t comes before all others of a set.
First(t, set) == \A u \in set \ {t} : Before(t, u)

\* IOManager::tickle(): only if a thread is counted idle.
Tickle == pipeReady' = (pipeReady \/ \E p \in Pollers : pc[p] \notin {"run", "exited"})

Init ==
  /\ mono = Start /\ back = 0 /\ previous = Start
  /\ timers = {}
  /\ due = [t \in Timers |-> 0]
  /\ cycle \in [Timers -> Cycles]
  /\ pc = [th \in Threads |-> "run"]
  /\ op = [th \in Threads |-> NoOp]
  /\ now = [th \in Threads |-> 0]
  /\ rollover = [th \in Threads |-> FALSE]
  /\ expired = [th \in Threads |-> {}]
  /\ wake = [th \in Threads |-> 0]
  /\ pipeReady = FALSE /\ stopping = FALSE
  /\ added = {} /\ cancelled = {}
  /\ runs = [t \in Timers |-> 0]
  /\ resets = 0

-----------------------------------------------------------------------------
(* Operations of the application, in a task of a poller or in its own      *)
(* thread; the latter is done with them when it calls stop().              *)

Calls(th) == At(th, "run") /\ (stopping => th \in Pollers)

\* Timer::Timer(), then IOManager::addTimer().
CreateTimer(th, t) ==
  /\ Calls(th) /\ t \notin added
  /\ added' = added \cup {t}
  /\ due' = [due EXCEPT ![t] = Now + cycle[t]]
  /\ op' = [op EXCEPT ![th].timer = t, ![th].ret = "tickle"]
  /\ Goto(th, "insert")
  /\ UNCHANGED <<clockVars, cycle, pollVars, previous, timers, expired, pipeReady,
                 stopping, cancelled, runs, resets>>

\* Mutants of Insert: the next timer is not reported; the argument is gone before
\* it is used.
InsertSilent(th) ==
  /\ At(th, "insert")
  /\ timers' = timers \cup {op[th].timer}
  /\ op' = [op EXCEPT ![th] = NoOp]
  /\ Goto(th, IF op[th].ret = "tickle" THEN "run" ELSE op[th].ret)
  /\ UNCHANGED <<clockVars, timerVars, pollVars, appVars, previous, expired, pipeReady,
                 stopping, runs>>

InsertAfterReset(th) ==
  /\ At(th, "insert")
  /\ op' = [op EXCEPT ![th] = NoOp]
  /\ timers' = timers \cup {op'[th].timer}
  /\ Goto(th, "run")
  /\ UNCHANGED <<clockVars, timerVars, pollVars, appVars, previous, expired, pipeReady,
                 stopping, runs>>

\* TimerManager::addTimer(). Only IOManager::addTimer() looks at what it
\* returns: whether the timer is the next one.
Insert(th) ==
  /\ At(th, "insert")
  /\ timers' = timers \cup {op[th].timer}
  /\ op' = [op EXCEPT ![th] = NoOp]
  /\ Goto(th, IF op[th].ret # "tickle" THEN op[th].ret
              ELSE IF First(op[th].timer, timers) THEN "tickle" ELSE "run")
  /\ UNCHANGED <<clockVars, timerVars, pollVars, appVars, previous, expired, pipeReady,
                 stopping, runs>>

TickleFirst(th) ==
  /\ At(th, "tickle")
  /\ Tickle
  /\ Goto(th, "run")
  /\ UNCHANGED <<clockVars, timerVars, pollVars, appVars, previous, timers, op, expired,
                 stopping, runs>>

\* Mutant of Cancel: a timer that is not in the set counts as cancelled.
CancelTested(th, t) ==
  /\ Calls(th) /\ t \in (added \cap Cancels) \ cancelled
  /\ cancelled' = cancelled \cup {t}
  /\ timers' = timers \ {t}
  /\ UNCHANGED <<clockVars, timerVars, pollVars, previous, pc, op, expired, pipeReady,
                 stopping, added, runs, resets>>

\* TimerManager::cancelTimer(). The callback it tests is never empty: the copy
\* that getCallback() returns is what the code clears, here and for an expired
\* timer. So a timer that is not in the set reaches erase(end()).
Cancel(th, t) ==
  /\ Calls(th) /\ t \in (added \cap Cancels) \ cancelled
  /\ IF t \in timers
     THEN /\ timers' = timers \ {t}
          /\ cancelled' = cancelled \cup {t}
          /\ UNCHANGED pc
     ELSE Goto(th, "crashed") /\ UNCHANGED <<timers, cancelled>>
  /\ UNCHANGED <<clockVars, timerVars, pollVars, previous, op, expired, pipeReady, stopping,
                 added, runs, resets>>

\* Mutant of TakeOut: the timer stays in the set while it is changed.
TakeOutKeeping(th, t, c, fromNow) ==
  /\ Calls(th) /\ t \in added /\ resets < MaxResets
  /\ t \in timers
  /\ resets' = resets + 1
  /\ op' = [op EXCEPT ![th] = [timer |-> t, cycle |-> c, fromNow |-> fromNow, ret |-> "run"]]
  /\ Goto(th, "set_due")
  /\ UNCHANGED <<clockVars, timerVars, pollVars, previous, timers, expired, pipeReady,
                 stopping, added, cancelled, runs>>

\* First section of refreshExecute_time() and resetRun_cycle(): take the timer
\* out, or fail if it is not there.
TakeOut(th, t, c, fromNow) ==
  /\ Calls(th) /\ t \in added /\ resets < MaxResets
  /\ t \in timers
  /\ resets' = resets + 1
  /\ timers' = timers \ {t}
  /\ op' = [op EXCEPT ![th] = [timer |-> t, cycle |-> c, fromNow |-> fromNow, ret |-> "run"]]
  /\ Goto(th, "set_due")
  /\ UNCHANGED <<clockVars, timerVars, pollVars, previous, expired, pipeReady, stopping,
                 added, cancelled, runs>>

\* refreshExecute_time() keeps the cycle and starts now.
Refresh(th, t) == TakeOut(th, t, cycle[t], TRUE)

\* resetRun_cycle() does nothing if nothing would change.
Reset(th, t, c, fromNow) ==
  /\ c # cycle[t] \/ fromNow
  /\ TakeOut(th, t, c, fromNow)

\* Outside the lock: the new cycle and the new execute time.
SetDue(th) ==
  /\ At(th, "set_due")
  /\ LET t == op[th].timer
         begin == IF op[th].fromNow THEN Now ELSE due[t] - cycle[t]
     IN /\ cycle' = [cycle EXCEPT ![t] = op[th].cycle]
        /\ due' = [due EXCEPT ![t] = begin + op[th].cycle]
  /\ Goto(th, "insert")
  /\ UNCHANGED <<clockVars, pollVars, appVars, previous, timers, op, expired, pipeReady,
                 stopping, runs>>

Stop ==
  /\ ~stopping /\ \A u \in Users : At(u, "run")
  /\ stopping' = TRUE
  /\ UNCHANGED <<clockVars, timerVars, pollVars, appVars, previous, timers, pc, op, expired,
                 pipeReady, runs>>

-----------------------------------------------------------------------------
(* IOManager::idle()                                                       *)

GoIdle(p) ==
  /\ At(p, "run")
  /\ Goto(p, "check")
  /\ UNCHANGED <<clockVars, timerVars, pollVars, appVars, previous, timers, op, expired,
                 pipeReady, stopping, runs>>

\* Mutant of Check: the timers are not looked at.
CheckUntimed(p) ==
  /\ At(p, "check")
  /\ \/ Goto(p, "wait")
     \/ stopping /\ Goto(p, "exited")
  /\ UNCHANGED <<clockVars, timerVars, pollVars, appVars, previous, timers, op, expired,
                 pipeReady, stopping, runs>>

\* isCompleted(): no timer, and what Scheduler has to say (not modelled here).
Check(p) ==
  /\ At(p, "check")
  /\ \/ Goto(p, "wait")
     \/ stopping /\ timers = {} /\ Goto(p, "exited")
  /\ UNCHANGED <<clockVars, timerVars, pollVars, appVars, previous, timers, op, expired,
                 pipeReady, stopping, runs>>

\* getTimeUntilNextTimer(): 0 if the next timer is late, "infinite" if none.
UntilNext(t) == IF Now >= due[t] THEN 0 ELSE due[t] - Now

\* Wait for the next timer, at most MaxWait.
StartWait(p) ==
  /\ At(p, "wait")
  /\ \/ timers = {} /\ wake' = [wake EXCEPT ![p] = mono + MaxWait]
     \/ \E t \in timers :
          /\ First(t, timers)
          /\ wake' = [wake EXCEPT ![p] =
                        mono + (IF UntilNext(t) < MaxWait THEN UntilNext(t) ELSE MaxWait)]
  /\ Goto(p, "epoll")
  /\ UNCHANGED <<clockVars, timerVars, appVars, previous, timers, op, now, rollover, expired,
                 pipeReady, stopping, runs>>

\* Mutant of Wakeup: epoll_wait() has no timeout.
WakeupByPipe(p) ==
  /\ At(p, "epoll")
  /\ pipeReady /\ pipeReady' = FALSE
  /\ wake' = [wake EXCEPT ![p] = 0]
  /\ Goto(p, "clock")
  /\ UNCHANGED <<clockVars, timerVars, now, rollover, appVars, previous, timers, op, expired,
                 stopping, runs>>

\* epoll_wait() returns: woken, timed out, or with an event of a descriptor.
Wakeup(p) ==
  /\ At(p, "epoll")
  /\ \/ pipeReady /\ pipeReady' = FALSE
     \/ mono >= wake[p] /\ UNCHANGED pipeReady
  /\ wake' = [wake EXCEPT ![p] = 0]
  /\ Goto(p, "clock")
  /\ UNCHANGED <<clockVars, timerVars, now, rollover, appVars, previous, timers, op, expired,
                 stopping, runs>>

EventReturn(p) ==
  /\ At(p, "epoll")
  /\ wake' = [wake EXCEPT ![p] = 0]
  /\ Goto(p, "clock")
  /\ UNCHANGED <<clockVars, timerVars, now, rollover, appVars, previous, timers, op, expired,
                 pipeReady, stopping, runs>>

-----------------------------------------------------------------------------
(* getExpired_callbacks()                                                  *)

\* getExpired_callbacks() returns and the idle fiber leaves for run().
LeaveIdle(p) ==
  /\ now' = [now EXCEPT ![p] = 0]
  /\ rollover' = [rollover EXCEPT ![p] = FALSE]
  /\ Goto(p, "run")

ReadClock(p) ==
  /\ At(p, "clock")
  /\ now' = [now EXCEPT ![p] = Now]
  /\ Goto(p, "empty")
  /\ UNCHANGED <<clockVars, timerVars, rollover, wake, appVars, previous, timers, op,
                 expired, pipeReady, stopping, runs>>

TestEmpty(p) ==
  /\ At(p, "empty")
  /\ IF timers = {} THEN LeaveIdle(p) ELSE Goto(p, "rollover") /\ UNCHANGED <<now, rollover>>
  /\ UNCHANGED <<clockVars, timerVars, wake, appVars, previous, timers, op, expired,
                 pipeReady, stopping, runs>>

\* detectClockRollover(), without a lock.
DetectRollover(p) ==
  /\ At(p, "rollover")
  /\ rollover' = [rollover EXCEPT ![p] = now[p] < previous - Hour]
  /\ previous' = now[p]
  /\ Goto(p, "first")
  /\ UNCHANGED <<clockVars, timerVars, now, wake, appVars, timers, op, expired, pipeReady,
                 stopping, runs>>

\* The first timer is looked at under a new lock: if the set has become empty
\* since TestEmpty, begin() is dereferenced all the same.
TestFirst(p) ==
  /\ At(p, "first")
  /\ IF ~rollover[p] /\ \E t \in timers : First(t, timers) /\ due[t] > now[p]
     THEN LeaveIdle(p)
     ELSE /\ Goto(p, IF ~rollover[p] /\ timers = {} THEN "crashed" ELSE "collect")
          /\ UNCHANGED <<now, rollover>>
  /\ UNCHANGED <<clockVars, timerVars, wake, appVars, previous, timers, op, expired,
                 pipeReady, stopping, runs>>

\* upper_bound(now_timer): of the timers due right now only those whose address
\* does not exceed that of now_timer.
NotAfter(t, p, address) == due[t] < now[p] \/ (due[t] = now[p] /\ t <= address)

Collect(p) ==
  /\ At(p, "collect")
  /\ \E address \in Timers \cup {0} :
       LET out == {t \in timers : rollover[p] \/ NotAfter(t, p, address)}
       IN /\ expired' = [expired EXCEPT ![p] = out]
          /\ timers' = timers \ out
          /\ runs' = [t \in Timers |-> IF t \in out /\ runs[t] < 2 THEN runs[t] + 1 ELSE runs[t]]
  /\ Goto(p, "rearm")
  /\ UNCHANGED <<clockVars, timerVars, pollVars, appVars, previous, op, pipeReady, stopping>>

\* Mutant of Rearm: recurring timers are not set again.
RearmNothing(p) ==
  /\ At(p, "rearm") /\ expired[p] # {}
  /\ expired' = [expired EXCEPT ![p] = {}]
  /\ UNCHANGED <<clockVars, timerVars, pollVars, appVars, previous, timers, pc, op, pipeReady,
                 stopping, runs>>

\* The loop over the expired timers, in the order of the set: the next period of
\* a recurring one.
Rearm(p) ==
  /\ At(p, "rearm")
  /\ \E t \in expired[p] :
       /\ First(t, expired[p])
       /\ expired' = [expired EXCEPT ![p] = @ \ {t}]
       /\ IF t \in Recurring
          THEN /\ due' = [due EXCEPT ![t] = now[p] + cycle[t]]
               /\ op' = [op EXCEPT ![p].timer = t, ![p].ret = "rearm"]
               /\ Goto(p, "insert")
          ELSE UNCHANGED <<due, op, pc>>
  /\ UNCHANGED <<clockVars, cycle, pollVars, appVars, previous, timers, pipeReady, stopping,
                 runs>>

\* The callbacks are scheduled.
Collected(p) ==
  /\ At(p, "rearm") /\ expired[p] = {}
  /\ LeaveIdle(p)
  /\ UNCHANGED <<clockVars, timerVars, wake, appVars, previous, timers, op, expired,
                 pipeReady, stopping, runs>>

-----------------------------------------------------------------------------
(* The clocks                                                              *)

Pass ==
  /\ mono < MaxTime
  /\ mono' = mono + 1
  /\ UNCHANGED <<back, timerVars, pollVars, appVars, previous, timers, pc, op, expired,
                 pipeReady, stopping, runs>>

SetBack ==
  /\ back = 0
  /\ back' \in Backs
  /\ UNCHANGED <<mono, timerVars, pollVars, appVars, previous, timers, pc, op, expired,
                 pipeReady, stopping, runs>>

-----------------------------------------------------------------------------
AppStep(th) ==
  \/ \E t \in Timers : CreateTimer(th, t) \/ Cancel(th, t) \/ Refresh(th, t)
  \/ \E t \in Timers, c \in Cycles, fromNow \in BOOLEAN : Reset(th, t, c, fromNow)

OpStep(th) == Insert(th) \/ TickleFirst(th) \/ SetDue(th)

IdleStep(p) ==
  \/ GoIdle(p) \/ Check(p) \/ StartWait(p) \/ Wakeup(p)
  \/ ReadClock(p) \/ TestEmpty(p) \/ DetectRollover(p) \/ TestFirst(p)
  \/ Collect(p) \/ Rearm(p) \/ Collected(p)

Crashed == \E th \in Threads : At(th, "crashed")

Next ==
  /\ ~Crashed
  /\ \/ \E th \in Threads : AppStep(th) \/ OpStep(th)
     \/ \E p \in Pollers : IdleStep(p) \/ EventReturn(p)
     \/ Stop
     \/ Pass \/ SetBack

Spec == Init /\ [][Next]_vars

\* Time passes and every thread keeps running.
Fairness ==
  /\ WF_vars(~Crashed /\ Pass)
  /\ \A th \in Threads : WF_vars(~Crashed /\ OpStep(th))
  /\ \A p \in Pollers : WF_vars(~Crashed /\ IdleStep(p))

FairSpec == Spec /\ Fairness

-----------------------------------------------------------------------------
(* Properties *)

TypeOK ==
  /\ mono \in Nat /\ back \in Nat /\ previous \in Int
  /\ timers \subseteq Timers
  /\ due \in [Timers -> Int] /\ cycle \in [Timers -> Nat]
  /\ pc \in [Threads -> PC]
  /\ op \in [Threads -> Op]
  /\ now \in [Threads -> Int] /\ rollover \in [Threads -> BOOLEAN]
  /\ wake \in [Threads -> Int]
  /\ expired \in [Threads -> SUBSET Timers]
  /\ pipeReady \in BOOLEAN /\ stopping \in BOOLEAN
  /\ added \subseteq Timers /\ cancelled \subseteq Timers
  /\ runs \in [Timers -> 0..2]
  /\ resets \in Nat

\* Thread th has timer t out of the set and will put it back.
Holds(th, t) ==
  \/ pc[th] \in {"insert", "set_due"} /\ op[th].timer = t
  \/ t \in expired[th]

\* A timer is in the set or with one thread, never both and never with two: a
\* thread that changes the execute time of a timer is alone with it.
OneHolder ==
  \A th \in Threads, t \in Timers : Holds(th, t) =>
    /\ t \notin timers
    /\ \A other \in Threads \ {th} : ~Holds(other, t)

\* The key of a timer never changes while the std::set holds it: its order
\* would be lost.
KeysKept == [][\A t \in timers \cap timers' : due'[t] = due[t]]_vars

\* A timer the application has added and not cancelled, and that has not
\* expired for good, is in the set or on its way back to it.
NoTimerLost ==
  \A t \in added \ cancelled :
    t \in Recurring \/ runs[t] = 0 => t \in timers \/ \E th \in Threads : Holds(th, t)

\* A timer that is not recurring is collected once, whoever polls.
OneShot == \A t \in Timers \ Recurring : runs[t] < 2

\* A timer whose cancellation succeeded does not come back.
CancelFinal == \A t \in cancelled : t \notin timers /\ \A th \in Threads : ~Holds(th, t)

\* When every poller sleeps with nothing to wake it, one of them wakes up in time
\* for the next timer (unless that is further away than MaxWait).
NoLateTimer ==
  (\A p \in Pollers : At(p, "epoll")) /\ ~pipeReady
    /\ (\A th \in Threads : ~At(th, "tickle") /\ ~At(th, "insert"))
  => \A t \in timers : \E p \in Pollers : wake[p] <= mono + UntilNext(t)
       \/ UntilNext(t) > MaxWait

\* The pollers leave only when no timer is left, in the set or on its way back.
StopAwaitsTimers ==
  (\A p \in Pollers : At(p, "exited")) =>
    timers = {} /\ \A th \in Threads, t \in Timers : ~Holds(th, t)

\* No iterator is used that points to no timer.
NoUndefined == ~Crashed

\* While real time goes on, a timer that is due is collected or put off.
TimersExpire ==
  \A t \in Timers :
    t \in timers /\ due[t] < MaxTime ~> t \notin timers \/ Crashed \/ back > 0
=============================================================================

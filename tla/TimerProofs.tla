------------------------------ MODULE TimerProofs ------------------------------
(* Proofs about TimerManager, for any number of threads and timers and any *)
(* behaviour of the clocks.                                                *)
EXTENDS TimerInvariant, TLAPS

-----------------------------------------------------------------------------
(* Types                                                                   *)

LEMMA InitTypes == Init => TypeOK
<1> SUFFICES ASSUME Init PROVE TypeOK
  OBVIOUS
<1>1. cycle \in [Timers -> Nat]
  BY CyclesPositive DEF Init
<1>2. op \in [Threads -> Op] /\ pc \in [Threads -> PC]
  BY DEF Init, Op, NoOp, PC
<1>3. mono \in Nat /\ back \in Nat /\ previous \in Int /\ resets \in Nat
  BY TimesAreNaturals DEF Init
<1>4. due \in [Timers -> Int] /\ runs \in [Timers -> 0..2]
  BY DEF Init
<1>5. /\ now \in [Threads -> Int] /\ rollover \in [Threads -> BOOLEAN]
      /\ wake \in [Threads -> Int] /\ expired \in [Threads -> SUBSET Timers]
  BY DEF Init
<1>6. timers \subseteq Timers /\ added \subseteq Timers /\ cancelled \subseteq Timers
  BY DEF Init
<1>7. pipeReady \in BOOLEAN /\ stopping \in BOOLEAN
  BY DEF Init
<1>8. QED
  BY <1>1, <1>2, <1>3, <1>4, <1>5, <1>6, <1>7 DEF TypeOK

\* Every step keeps the types, given that operations are on timers.
LEMMA StepTypes ==
  ASSUME TypeOK, InvOperation, Next
  PROVE  TypeOK'
<1> USE DEF Threads
<1>0. Pollers \subseteq Threads /\ \A th \in Threads : Operating(th) => op[th].timer \in Timers
  BY DEF TypeOK, InvOperation
<1>1. ASSUME NEW th \in Threads, NEW t \in Timers, CreateTimer(th, t)
      PROVE  TypeOK'
  BY <1>0, <1>1 DEF TypeOK, PC, Op, NoOp, Operating, At, Goto, CreateTimer, Calls, Now, clockVars, pollVars
<1>2. ASSUME NEW th \in Threads, Insert(th)
      PROVE  TypeOK'
  BY <1>0, <1>2 DEF TypeOK, PC, Op, NoOp, Operating, At, Goto, Insert, clockVars, timerVars, pollVars, appVars
<1>3. ASSUME NEW th \in Threads, TickleFirst(th)
      PROVE  TypeOK'
  BY <1>0, <1>3 DEF TypeOK, PC, Op, NoOp, Operating, At, Goto, TickleFirst, Tickle, clockVars, timerVars, pollVars, appVars
<1>4. ASSUME NEW th \in Threads, SetDue(th)
      PROVE  TypeOK'
  BY <1>0, <1>4 DEF TypeOK, PC, Op, NoOp, Operating, At, Goto, SetDue, Now, clockVars, pollVars, appVars
<1>5. ASSUME NEW th \in Threads, NEW t \in Timers, Cancel(th, t)
      PROVE  TypeOK'
  BY <1>0, <1>5 DEF TypeOK, PC, Op, NoOp, Operating, At, Goto, Cancel, Calls, clockVars, timerVars, pollVars
<1>6. ASSUME NEW th \in Threads, NEW t \in Timers, NEW c \in Nat, NEW fromNow \in BOOLEAN, TakeOut(th, t, c, fromNow)
      PROVE  TypeOK'
  BY <1>0, <1>6 DEF TypeOK, PC, Op, NoOp, Operating, At, Goto, TakeOut, Calls, clockVars, timerVars, pollVars
<1>7. ASSUME Stop
      PROVE  TypeOK'
  BY <1>0, <1>7 DEF TypeOK, PC, Op, NoOp, Operating, At, Goto, Stop, clockVars, timerVars, pollVars, appVars
<1>8. ASSUME NEW p \in Pollers, GoIdle(p)
      PROVE  TypeOK'
  BY <1>0, <1>8 DEF TypeOK, PC, Op, NoOp, Operating, At, Goto, GoIdle, clockVars, timerVars, pollVars, appVars
<1>9. ASSUME NEW p \in Pollers, Check(p)
      PROVE  TypeOK'
  BY <1>0, <1>9 DEF TypeOK, PC, Op, NoOp, Operating, At, Goto, Check, clockVars, timerVars, pollVars, appVars
<1>10. ASSUME NEW p \in Pollers, StartWait(p)
      PROVE  TypeOK'
  BY <1>0, <1>10, TimesAreNaturals DEF TypeOK, PC, Op, NoOp, Operating, At, Goto, StartWait, UntilNext, Now, clockVars, timerVars, appVars
<1>11. ASSUME NEW p \in Pollers, Wakeup(p)
      PROVE  TypeOK'
  <2>1. pc' \in [Threads -> PC] /\ wake' \in [Threads -> Int]
    BY <1>0, <1>11 DEF TypeOK, PC, Op, NoOp, Operating, At, Goto, Wakeup, clockVars, timerVars, appVars
  <2>2. pipeReady' \in BOOLEAN
    BY <1>0, <1>11 DEF TypeOK, PC, Op, NoOp, Operating, At, Goto, Wakeup, clockVars, timerVars, appVars
  <2>3. QED
    BY <1>0, <1>11, <2>1, <2>2 DEF TypeOK, Wakeup, clockVars, timerVars, appVars
<1>12. ASSUME NEW p \in Pollers, EventReturn(p)
      PROVE  TypeOK'
  BY <1>0, <1>12 DEF TypeOK, PC, Op, NoOp, Operating, At, Goto, EventReturn, clockVars, timerVars, appVars
<1>13. ASSUME NEW p \in Pollers, ReadClock(p)
      PROVE  TypeOK'
  BY <1>0, <1>13 DEF TypeOK, PC, Op, NoOp, Operating, At, Goto, ReadClock, Now, clockVars, timerVars, appVars
<1>14. ASSUME NEW p \in Pollers, TestEmpty(p)
      PROVE  TypeOK'
  <2>1. pc' \in [Threads -> PC]
    BY <1>0, <1>14 DEF TypeOK, PC, Op, NoOp, Operating, At, Goto, TestEmpty, LeaveIdle, clockVars, timerVars, appVars
  <2>2. now' \in [Threads -> Int] /\ rollover' \in [Threads -> BOOLEAN]
    <3>1. CASE LeaveIdle(p)
      BY <1>0, <1>14, <3>1 DEF TypeOK, LeaveIdle
    <3>2. CASE UNCHANGED <<now, rollover>>
      BY <3>2 DEF TypeOK
    <3>3. QED
      BY <1>14, <3>1, <3>2 DEF TestEmpty
  <2>3. QED
    BY <1>0, <1>14, <2>1, <2>2 DEF TypeOK, TestEmpty, clockVars, timerVars, appVars
<1>15. ASSUME NEW p \in Pollers, DetectRollover(p)
      PROVE  TypeOK'
  BY <1>0, <1>15 DEF TypeOK, PC, Op, NoOp, Operating, At, Goto, DetectRollover, clockVars, timerVars, appVars
<1>16. ASSUME NEW p \in Pollers, TestFirst(p)
      PROVE  TypeOK'
  <2>1. pc' \in [Threads -> PC]
    BY <1>0, <1>16 DEF TypeOK, PC, Op, NoOp, Operating, At, Goto, TestFirst, LeaveIdle, clockVars, timerVars, appVars
  <2>2. now' \in [Threads -> Int] /\ rollover' \in [Threads -> BOOLEAN]
    <3>1. CASE LeaveIdle(p)
      BY <1>0, <1>16, <3>1 DEF TypeOK, LeaveIdle
    <3>2. CASE UNCHANGED <<now, rollover>>
      BY <3>2 DEF TypeOK
    <3>3. QED
      BY <1>16, <3>1, <3>2 DEF TestFirst
  <2>3. QED
    BY <1>0, <1>16, <2>1, <2>2 DEF TypeOK, TestFirst, clockVars, timerVars, appVars
<1>17. ASSUME NEW p \in Pollers, Collect(p)
      PROVE  TypeOK'
  BY <1>0, <1>17 DEF TypeOK, PC, Op, NoOp, Operating, At, Goto, Collect, clockVars, timerVars, pollVars, appVars
<1>18. ASSUME NEW p \in Pollers, Rearm(p)
      PROVE  TypeOK'
  <2>1. PICK t \in expired[p] :
           /\ expired' = [expired EXCEPT ![p] = @ \ {t}]
           /\ IF t \in Recurring
              THEN /\ due' = [due EXCEPT ![t] = now[p] + cycle[t]]
                   /\ op' = [op EXCEPT ![p].timer = t, ![p].ret = "rearm"]
                   /\ Goto(p, "insert")
              ELSE UNCHANGED <<due, op, pc>>
    BY <1>18 DEF Rearm
  <2>2. t \in Timers
    BY <1>0, <2>1 DEF TypeOK
  <2>3. expired' \in [Threads -> SUBSET Timers]
    BY <1>0, <2>1 DEF TypeOK
  <2>4. due' \in [Timers -> Int]
    BY <1>0, <2>1, <2>2 DEF TypeOK
  <2>5. op' \in [Threads -> Op]
    BY <1>0, <2>1, <2>2 DEF TypeOK, Op
  <2>6. pc' \in [Threads -> PC]
    BY <1>0, <2>1 DEF TypeOK, Goto, PC
  <2>7. QED
    BY <1>18, <2>3, <2>4, <2>5, <2>6 DEF TypeOK, Rearm, clockVars, pollVars, appVars
<1>19. ASSUME NEW p \in Pollers, Collected(p)
      PROVE  TypeOK'
  BY <1>0, <1>19 DEF TypeOK, PC, Op, NoOp, Operating, At, Goto, Collected, LeaveIdle, clockVars, timerVars, appVars
<1>20. ASSUME Pass
      PROVE  TypeOK'
  BY <1>0, <1>20, TimesAreNaturals DEF TypeOK, PC, Op, NoOp, Operating, At, Goto, Pass, timerVars, pollVars, appVars
<1>21. ASSUME SetBack
      PROVE  TypeOK'
  BY <1>0, <1>21, TimesAreNaturals DEF TypeOK, PC, Op, NoOp, Operating, At, Goto, SetBack, timerVars, pollVars, appVars
<1>22. ASSUME NEW th \in Threads, AppStep(th)
      PROVE  TypeOK'
  <2>1. Cycles \subseteq Nat /\ \A t \in Timers : cycle[t] \in Nat
    BY CyclesPositive DEF TypeOK
  <2>2. QED
    BY <1>1, <1>5, <1>6, <1>22, <2>1 DEF AppStep, Refresh, Reset
<1>23. QED
  BY <1>0, <1>2, <1>3, <1>4, <1>7, <1>8, <1>9, <1>10, <1>11, <1>12, <1>13, <1>14, <1>15, <1>16, <1>17, <1>18, <1>19, <1>20, <1>21, <1>22 DEF Next, OpStep, IdleStep

-----------------------------------------------------------------------------
(* The invariant                                                           *)

LEMMA InitInv == Init => TimerInv
<1> SUFFICES ASSUME Init PROVE TimerInv
  OBVIOUS
<1>1. TypeOK
  BY InitTypes
<1>2. \A th \in Threads : pc[th] = "run" /\ expired[th] = {}
  BY DEF Init
<1>3. timers = {} /\ added = {} /\ cancelled = {} /\ ~stopping /\ \A t \in Timers : runs[t] = 0
  BY DEF Init
<1>4. \A th \in Threads : ~Operating(th) /\ \A t \in Timers : ~Holds(th, t)
  BY <1>2 DEF Operating, Holds
<1>5. Pollers \subseteq Threads /\ Pollers # {}
  BY PollersAssumption DEF Threads
<1>6. InvOperation /\ InvExpired /\ InvAdded /\ InvRuns /\ InvStop
  <2>1. InvOperation /\ InvExpired /\ InvAdded
    BY <1>2, <1>3, <1>4 DEF InvOperation, InvExpired, InvAdded
  <2>2. InvRuns
    BY <1>2, <1>3 DEF InvRuns
  <2>3. InvStop
    BY <1>2, <1>3, <1>5 DEF InvStop
  <2>4. QED
    BY <2>1, <2>2, <2>3
<1>7. OneHolder /\ CancelFinal /\ NoTimerLost /\ StopAwaitsTimers
  BY <1>2, <1>3, <1>4, <1>5 DEF OneHolder, CancelFinal, NoTimerLost, StopAwaitsTimers, At
<1>8. QED
  BY <1>1, <1>6, <1>7 DEF TimerInv

\* When every poller has left, nobody holds a timer.
LEMMA NobodyHolds ==
  ASSUME InvExpired', InvStop', \A p \in Pollers : pc'[p] = "exited"
  PROVE  \A th \in Threads, t \in Timers : ~Holds(th, t)'
<1>1. stopping'
  BY PollersAssumption DEF InvStop
<1>2. \A th \in Threads : pc'[th] \in {"run", "exited"}
  BY <1>1 DEF InvStop, Threads
<1>3. \A th \in Threads : expired'[th] = {}
  BY <1>2 DEF InvExpired
<1>4. QED
  BY <1>2, <1>3 DEF Holds

\* Steps that only move threads along, where nobody leaves run() who may not.
LEMMA Moves ==
  ASSUME TimerInv, TypeOK', InvStop',
         UNCHANGED <<timers, op, expired, added, cancelled, runs>>,
         \A th \in Threads : Operating(th)' <=> Operating(th),
         \A th \in Threads : expired[th] # {} => pc'[th] = pc[th],
         \A p \in Pollers : pc'[p] = "exited" => pc[p] = "exited" \/ timers = {}
  PROVE  TimerInv'
<1> USE DEF TimerInv
<1>1. \A th \in Threads, t \in Timers : Holds(th, t)' <=> Holds(th, t)
  BY DEF Holds, Operating
<1>2. InvOperation' /\ InvAdded' /\ InvRuns'
  BY DEF InvOperation, InvAdded, InvRuns
<1>3. InvExpired'
  BY DEF InvExpired
<1>4. OneHolder' /\ CancelFinal' /\ NoTimerLost'
  <2>1. OneHolder'
    BY <1>1 DEF OneHolder
  <2>2. CancelFinal'
    BY <1>1 DEF CancelFinal, TypeOK
  <2>3. NoTimerLost'
    BY <1>1 DEF NoTimerLost, TypeOK
  <2>4. QED
    BY <2>1, <2>2, <2>3
<1>5. StopAwaitsTimers'
  <2>1. SUFFICES ASSUME \A p \in Pollers : pc'[p] = "exited"
                 PROVE  timers' = {} /\ \A th \in Threads, t \in Timers : ~Holds(th, t)'
    BY DEF StopAwaitsTimers, At
  <2>2. \A th \in Threads, t \in Timers : ~Holds(th, t)'
    BY <1>3, <2>1, NobodyHolds
  <2>3. timers = {}
    BY <2>1, PollersAssumption DEF StopAwaitsTimers, At
  <2>4. QED
    BY <2>2, <2>3
<1>6. QED
  BY <1>2, <1>3, <1>4, <1>5

\* A step of a thread that may still act, and does not leave: some poller is in
\* run().
LEMMA NotAllLeft ==
  ASSUME InvStop', UNCHANGED stopping, NEW th \in Threads,
         stopping => th \in Pollers, pc'[th] # "exited"
  PROVE  StopAwaitsTimers'
<1> SUFFICES ASSUME \A p \in Pollers : pc'[p] = "exited" PROVE FALSE
  BY DEF StopAwaitsTimers, At
<1>1. stopping'
  BY PollersAssumption DEF InvStop
<1>2. QED
  BY <1>1

\* A poller without expired timers moves along.
LEMMA PollerMoves ==
  ASSUME TimerInv, TypeOK', NEW p \in Pollers, NEW l \in PC,
         UNCHANGED <<timers, op, expired, added, cancelled, runs, stopping>>,
         ~Operating(p), expired[p] = {}, pc' = [pc EXCEPT ![p] = l],
         l \notin {"insert", "set_due"}, l = "exited" => stopping /\ timers = {}
  PROVE  TimerInv'
<1> USE DEF TimerInv
<1>1. p \in Threads /\ pc'[p] = l /\ \A u \in Threads \ {p} : pc'[u] = pc[u]
  BY DEF TypeOK, Threads
<1>2. InvStop'
  BY <1>1, PollersAssumption DEF InvStop, Threads
<1>3. \A u \in Threads : Operating(u)' <=> Operating(u)
  BY <1>1 DEF Operating
<1>4. \A u \in Threads : expired[u] # {} => pc'[u] = pc[u]
  BY <1>1
<1>5. \A q \in Pollers : pc'[q] = "exited" => pc[q] = "exited" \/ timers = {}
  BY <1>1 DEF Threads
<1>6. QED
  BY <1>2, <1>3, <1>4, <1>5, Moves

LEMMA CreateTimerKeeps ==
  ASSUME TimerInv, TypeOK', NEW th \in Threads, NEW t \in Timers, CreateTimer(th, t)
  PROVE  TimerInv'
<1> USE DEF TimerInv
<1>1. /\ pc[th] = "run" /\ t \notin added /\ added' = added \cup {t}
      /\ op' = [op EXCEPT ![th].timer = t, ![th].ret = "tickle"]
      /\ pc' = [pc EXCEPT ![th] = "insert"]
      /\ UNCHANGED <<timers, expired, cancelled, runs, stopping>>
      /\ stopping => th \in Pollers
  BY DEF CreateTimer, Calls, At, Goto
<1>2. op'[th].timer = t /\ \A u \in Threads \ {th} : op'[u] = op[u] /\ pc'[u] = pc[u]
  BY <1>1 DEF TypeOK, Op
<1>3. pc'[th] = "insert" /\ expired[th] = {}
  BY <1>1 DEF TypeOK, InvExpired
<1>4. \A u \in Threads, x \in Timers :
        Holds(u, x)' <=> Holds(u, x) \/ (u = th /\ x = t)
  BY <1>1, <1>2, <1>3 DEF Holds
<1>5. t \notin timers /\ t \notin cancelled /\ runs[t] = 0 /\ \A u \in Threads : ~Holds(u, t)
  BY <1>1 DEF InvAdded, InvOperation, Operating, Holds, TypeOK
<1>6. InvOperation'
  <2>1. SUFFICES ASSUME NEW u \in Threads, Operating(u)'
                 PROVE  op'[u].timer \in added' /\ op'[u].timer \notin expired'[u]
    BY DEF InvOperation
  <2>2. CASE u = th
    BY <1>1, <1>2, <1>3, <2>2
  <2>3. CASE u # th
    <3>1. Operating(u)
      BY <1>2, <2>1, <2>3 DEF Operating
    <3>2. op[u].timer \in added /\ op[u].timer \notin expired[u]
      BY <3>1 DEF InvOperation
    <3>3. op'[u] = op[u] /\ expired'[u] = expired[u] /\ added \subseteq added'
      BY <1>1, <1>2, <2>3
    <3>4. QED
      BY <3>2, <3>3
  <2>4. QED
    BY <2>2, <2>3
<1>7. InvExpired'
  BY <1>1, <1>2, <1>3 DEF InvExpired
<1>8. InvAdded'
  BY <1>1 DEF InvAdded
<1>9. InvRuns'
  <2>1. \A u \in Threads : \A x \in expired'[u] : runs'[x] > 0
    BY <1>1 DEF InvRuns
  <2>2. ASSUME NEW x \in Timers \ Recurring, runs'[x] > 0
        PROVE  runs'[x] = 1 /\ x \notin timers' /\ \A u \in Threads : Operating(u)' => op'[u].timer # x
    <3>1. x # t
      BY <1>1, <1>5, <2>2
    <3>2. QED
      BY <1>1, <1>2, <2>2, <3>1 DEF InvRuns, Operating
  <2>3. QED
    BY <2>1, <2>2 DEF InvRuns
<1>10. InvStop'
  BY <1>1, PollersAssumption DEF InvStop, TypeOK, Threads
<1>11. OneHolder'
  BY <1>1, <1>4, <1>5 DEF OneHolder
<1>12. CancelFinal'
  BY <1>1, <1>4, <1>5 DEF CancelFinal, TypeOK
<1>13. NoTimerLost'
  BY <1>1, <1>4 DEF NoTimerLost, TypeOK
<1>14. StopAwaitsTimers'
  BY <1>1, <1>3, <1>10, NotAllLeft
<1>15. QED
  BY <1>6, <1>7, <1>8, <1>9, <1>10, <1>11, <1>12, <1>13, <1>14
LEMMA InsertKeeps ==
  ASSUME TimerInv, TypeOK', NEW th \in Threads, Insert(th)
  PROVE  TimerInv'
<1> DEFINE t == op[th].timer
<1> USE DEF TimerInv
<1>1. /\ pc[th] = "insert" /\ timers' = timers \cup {t}
      /\ op' = [op EXCEPT ![th] = NoOp]
      /\ pc'[th] = (IF op[th].ret # "tickle" THEN op[th].ret
                    ELSE IF First(t, timers) THEN "tickle" ELSE "run")
      /\ \A u \in Threads \ {th} : pc'[u] = pc[u] /\ op'[u] = op[u]
      /\ UNCHANGED <<expired, added, cancelled, runs, stopping>>
  BY DEF Insert, At, Goto, appVars, TypeOK
<1>2. t \in added /\ t \in Timers /\ t \notin expired[th] /\ Operating(th)
  BY <1>1 DEF InvOperation, Operating, TypeOK
<1>3. pc'[th] \in {"tickle", "run", "rearm"} /\ (op[th].ret = "rearm" => pc'[th] = "rearm")
  BY <1>1 DEF TypeOK, Op
<1>4. Holds(th, t) /\ t \notin timers /\ t \notin cancelled
      /\ \A u \in Threads \ {th} : ~Holds(u, t)
  <2>1. Holds(th, t)
    BY <1>2 DEF Holds, Operating
  <2>2. QED
    BY <1>2, <2>1 DEF OneHolder, CancelFinal
<1>5. \A u \in Threads, x \in Timers : Holds(u, x)' <=> Holds(u, x) /\ ~(u = th /\ x = t)
  <2>1. \A x \in Timers : Holds(th, x)' <=> Holds(th, x) /\ x # t
    BY <1>1, <1>2, <1>3 DEF Holds, Operating
  <2>2. \A u \in Threads \ {th}, x \in Timers : Holds(u, x)' <=> Holds(u, x)
    BY <1>1 DEF Holds
  <2>3. QED
    BY <2>1, <2>2
<1>6. InvOperation'
  <2>1. SUFFICES ASSUME NEW u \in Threads, Operating(u)'
                 PROVE  op'[u].timer \in added' /\ op'[u].timer \notin expired'[u]
    BY DEF InvOperation
  <2>2. u # th /\ Operating(u)
    BY <1>1, <1>3, <2>1 DEF Operating
  <2>3. op'[u] = op[u] /\ expired'[u] = expired[u]
    BY <1>1, <2>2
  <2>4. QED
    BY <1>1, <2>2, <2>3 DEF InvOperation
<1>7. InvExpired'
  <2>1. SUFFICES ASSUME NEW u \in Threads, expired'[u] # {}
                 PROVE  pc'[u] = "rearm" \/ (pc'[u] = "insert" /\ op'[u].ret = "rearm")
    BY DEF InvExpired
  <2>2. CASE u = th
    BY <1>1, <1>3, <2>1, <2>2 DEF InvExpired
  <2>3. CASE u # th
    BY <1>1, <2>1, <2>3 DEF InvExpired
  <2>4. QED
    BY <2>2, <2>3
<1>8. InvAdded'
  BY <1>1, <1>2 DEF InvAdded
<1>9. InvRuns'
  <2>1. \A u \in Threads : \A x \in expired'[u] : runs'[x] > 0
    BY <1>1 DEF InvRuns
  <2>2. ASSUME NEW x \in Timers \ Recurring, runs'[x] > 0
        PROVE  runs'[x] = 1 /\ x \notin timers' /\ \A u \in Threads : Operating(u)' => op'[u].timer # x
    <3>1. runs[x] = 1 /\ x \notin timers /\ \A u \in Threads : Operating(u) => op[u].timer # x
      BY <1>1, <2>2 DEF InvRuns
    <3>2. x # t
      BY <1>2, <3>1
    <3>3. \A u \in Threads : Operating(u)' => u # th /\ Operating(u)
      BY <1>1, <1>3 DEF Operating
    <3>4. QED
      BY <1>1, <3>1, <3>2, <3>3
  <2>3. QED
    BY <2>1, <2>2 DEF InvRuns
<1>10. (stopping => th \in Pollers) /\ pc'[th] # "exited"
  BY <1>1, <1>3 DEF InvStop, Threads
<1>11. InvStop'
  BY <1>1, <1>10, PollersAssumption DEF InvStop, Threads
<1>12. OneHolder'
  BY <1>1, <1>4, <1>5 DEF OneHolder
<1>13. CancelFinal'
  BY <1>1, <1>4, <1>5 DEF CancelFinal, TypeOK
<1>14. NoTimerLost'
  BY <1>1, <1>5 DEF NoTimerLost, TypeOK
<1>15. StopAwaitsTimers'
  BY <1>1, <1>10, <1>11, NotAllLeft
<1>16. QED
  BY <1>6, <1>7, <1>8, <1>9, <1>11, <1>12, <1>13, <1>14, <1>15

LEMMA CancelKeeps ==
  ASSUME TimerInv, TypeOK', NEW th \in Threads, NEW t \in Timers, Cancel(th, t)
  PROVE  TimerInv'
<1> USE DEF TimerInv
<1>1. /\ pc[th] = "run" /\ t \in added /\ (stopping => th \in Pollers)
      /\ UNCHANGED <<op, expired, added, runs, stopping>>
  BY DEF Cancel, Calls, At
<1>2. expired[th] = {}
  BY <1>1 DEF InvExpired
<1>3. CASE t \in timers
  <2>1. timers' = timers \ {t} /\ cancelled' = cancelled \cup {t} /\ UNCHANGED pc
    BY <1>3 DEF Cancel
  <2>2. \A u \in Threads, x \in Timers : Holds(u, x)' <=> Holds(u, x)
    BY <1>1, <2>1 DEF Holds
  <2>3. InvOperation' /\ InvExpired'
    BY <1>1, <2>1 DEF InvOperation, InvExpired, Operating
  <2>4. InvAdded'
    BY <1>1, <2>1 DEF InvAdded
  <2>5. InvRuns'
    BY <1>1, <2>1 DEF InvRuns, Operating
  <2>6. InvStop'
    BY <1>1, <2>1 DEF InvStop
  <2>7. OneHolder'
    BY <2>1, <2>2 DEF OneHolder
  <2>8. CancelFinal'
    BY <1>3, <2>1, <2>2 DEF CancelFinal, OneHolder, TypeOK
  <2>9. NoTimerLost'
    BY <1>1, <2>1, <2>2 DEF NoTimerLost, TypeOK
  <2>10. StopAwaitsTimers'
    BY <1>1, <2>1, <2>6, NotAllLeft
  <2>11. QED
    BY <2>3, <2>4, <2>5, <2>6, <2>7, <2>8, <2>9, <2>10
<1>4. CASE t \notin timers
  <2>1. UNCHANGED <<timers, cancelled>> /\ pc' = [pc EXCEPT ![th] = "crashed"]
    BY <1>4 DEF Cancel, Goto
  <2>2. pc'[th] = "crashed" /\ \A u \in Threads \ {th} : pc'[u] = pc[u]
    BY <2>1 DEF TypeOK
  <2>3. InvStop'
    BY <1>1, <2>2, PollersAssumption DEF InvStop, Threads
  <2>4. \A u \in Threads : Operating(u)' <=> Operating(u)
    BY <1>1, <2>2 DEF Operating
  <2>5. \A u \in Threads : expired[u] # {} => pc'[u] = pc[u]
    BY <1>2, <2>2
  <2>6. \A p \in Pollers : pc'[p] = "exited" => pc[p] = "exited" \/ timers = {}
    BY <2>2 DEF Threads
  <2>7. QED
    BY <1>1, <2>1, <2>3, <2>4, <2>5, <2>6, Moves
<1>5. QED
  BY <1>3, <1>4

LEMMA TakeOutKeeps ==
  ASSUME TimerInv, TypeOK', NEW th \in Threads, NEW t \in Timers, NEW c \in Nat,
         NEW fromNow \in BOOLEAN, TakeOut(th, t, c, fromNow)
  PROVE  TimerInv'
<1> USE DEF TimerInv
<1>1. /\ pc[th] = "run" /\ t \in added /\ (stopping => th \in Pollers)
      /\ t \in timers /\ timers' = timers \ {t}
      /\ pc'[th] = "set_due" /\ op'[th].timer = t
      /\ \A u \in Threads \ {th} : pc'[u] = pc[u] /\ op'[u] = op[u]
      /\ UNCHANGED <<expired, added, cancelled, runs, stopping>>
  BY DEF TakeOut, Calls, At, Goto, TypeOK
<1>2. expired[th] = {}
  BY <1>1 DEF InvExpired
<1>3. \A u \in Threads, x \in Timers : Holds(u, x)' <=> Holds(u, x) \/ (u = th /\ x = t)
  <2>1. \A x \in Timers : Holds(th, x)' <=> Holds(th, x) \/ x = t
    BY <1>1, <1>2 DEF Holds
  <2>2. \A u \in Threads \ {th}, x \in Timers : Holds(u, x)' <=> Holds(u, x)
    BY <1>1 DEF Holds
  <2>3. QED
    BY <2>1, <2>2
<1>4. t \notin cancelled /\ \A u \in Threads : ~Holds(u, t)
  BY <1>1 DEF CancelFinal, OneHolder
<1>5. InvOperation'
  <2>1. SUFFICES ASSUME NEW u \in Threads, Operating(u)'
                 PROVE  op'[u].timer \in added' /\ op'[u].timer \notin expired'[u]
    BY DEF InvOperation
  <2>2. CASE u = th
    BY <1>1, <1>2, <2>2
  <2>3. CASE u # th
    <3>1. Operating(u) /\ op'[u] = op[u] /\ expired'[u] = expired[u]
      BY <1>1, <2>1, <2>3 DEF Operating
    <3>2. QED
      BY <1>1, <3>1 DEF InvOperation
  <2>4. QED
    BY <2>2, <2>3
<1>6. InvExpired'
  BY <1>1, <1>2 DEF InvExpired
<1>7. InvAdded'
  BY <1>1 DEF InvAdded
<1>8. InvRuns'
  <2>1. \A u \in Threads : \A x \in expired'[u] : runs'[x] > 0
    BY <1>1 DEF InvRuns
  <2>2. ASSUME NEW x \in Timers \ Recurring, runs'[x] > 0
        PROVE  runs'[x] = 1 /\ x \notin timers' /\ \A u \in Threads : Operating(u)' => op'[u].timer # x
    <3>1. runs[x] = 1 /\ x \notin timers /\ \A u \in Threads : Operating(u) => op[u].timer # x
      BY <1>1, <2>2 DEF InvRuns
    <3>2. x # t
      BY <1>1, <3>1
    <3>3. \A u \in Threads \ {th} : Operating(u)' => Operating(u)
      BY <1>1 DEF Operating
    <3>4. QED
      BY <1>1, <3>1, <3>2, <3>3
  <2>3. QED
    BY <2>1, <2>2 DEF InvRuns
<1>9. InvStop'
  BY <1>1, PollersAssumption DEF InvStop, Threads
<1>10. OneHolder'
  BY <1>1, <1>3, <1>4 DEF OneHolder
<1>11. CancelFinal'
  BY <1>1, <1>3, <1>4 DEF CancelFinal, TypeOK
<1>12. NoTimerLost'
  BY <1>1, <1>3 DEF NoTimerLost, TypeOK
<1>13. StopAwaitsTimers'
  BY <1>1, <1>9, NotAllLeft
<1>14. QED
  BY <1>5, <1>6, <1>7, <1>8, <1>9, <1>10, <1>11, <1>12, <1>13

LEMMA CollectKeeps ==
  ASSUME TimerInv, TypeOK', NEW p \in Pollers, Collect(p)
  PROVE  TimerInv'
<1> USE DEF TimerInv
<1>0. p \in Threads
  BY DEF Threads
<1>1. /\ pc[p] = "collect" /\ pc'[p] = "rearm"
      /\ \A u \in Threads \ {p} : pc'[u] = pc[u]
      /\ UNCHANGED <<op, added, cancelled, stopping>>
  BY <1>0 DEF Collect, At, Goto, TypeOK, appVars
<1>2. PICK out \in SUBSET timers :
        /\ expired' = [expired EXCEPT ![p] = out]
        /\ timers' = timers \ out
        /\ runs' = [t \in Timers |-> IF t \in out /\ runs[t] < 2 THEN runs[t] + 1 ELSE runs[t]]
  BY DEF Collect
<1>3. expired[p] = {} /\ expired'[p] = out /\ \A u \in Threads \ {p} : expired'[u] = expired[u]
  BY <1>0, <1>1, <1>2 DEF InvExpired, TypeOK
<1>4. \A u \in Threads, x \in Timers : Holds(u, x)' <=> Holds(u, x) \/ (u = p /\ x \in out)
  <2>1. \A x \in Timers : Holds(p, x)' <=> Holds(p, x) \/ x \in out
    BY <1>1, <1>3 DEF Holds
  <2>2. \A u \in Threads \ {p}, x \in Timers : Holds(u, x)' <=> Holds(u, x)
    BY <1>1, <1>3 DEF Holds
  <2>3. QED
    BY <2>1, <2>2
<1>5. out \subseteq Timers /\ \A x \in out : x \notin cancelled /\ \A u \in Threads : ~Holds(u, x)
  BY DEF CancelFinal, OneHolder, TypeOK
<1>6. \A u \in Threads : (Operating(u)' <=> Operating(u)) /\ (Operating(u) => u # p)
  BY <1>1 DEF Operating
<1>7. InvOperation'
  <2>1. SUFFICES ASSUME NEW u \in Threads, Operating(u)'
                 PROVE  op'[u].timer \in added' /\ op'[u].timer \notin expired'[u]
    BY DEF InvOperation
  <2>2. Operating(u) /\ expired'[u] = expired[u]
    BY <1>3, <1>6, <2>1
  <2>3. QED
    BY <1>1, <2>2 DEF InvOperation
<1>8. InvExpired'
  BY <1>1, <1>3 DEF InvExpired
<1>9. InvAdded'
  <2>1. \A u \in Threads : expired'[u] \subseteq added
    BY <1>3 DEF InvAdded
  <2>2. ASSUME NEW x \in Timers, runs'[x] > 0 PROVE x \in added
    <3>1. CASE x \in out
      BY <3>1 DEF InvAdded
    <3>2. CASE x \notin out
      BY <1>2, <2>2, <3>2 DEF InvAdded
    <3>3. QED
      BY <3>1, <3>2
  <2>3. QED
    BY <1>1, <1>2, <2>1, <2>2 DEF InvAdded
<1>10. \A x \in Timers : runs[x] \in 0..2 /\ runs'[x] = (IF x \in out /\ runs[x] < 2 THEN runs[x] + 1 ELSE runs[x])
  BY <1>2 DEF TypeOK
<1>11. InvRuns'
  <2>1. ASSUME NEW u \in Threads, NEW x \in expired'[u] PROVE runs'[x] > 0
    <3>1. x \in Timers /\ (x \in out \/ runs[x] > 0)
      BY <1>3, <1>5 DEF InvRuns, TypeOK
    <3>2. QED
      BY <1>10, <3>1
  <2>2. ASSUME NEW x \in Timers \ Recurring, runs'[x] > 0
        PROVE  runs'[x] = 1 /\ x \notin timers' /\ \A u \in Threads : Operating(u)' => op'[u].timer # x
    <3>1. CASE x \in out
      <4>1. runs[x] = 0
        BY <1>10, <2>2, <3>1 DEF InvRuns
      <4>2. \A u \in Threads : Operating(u) => op[u].timer # x
        BY <1>5, <3>1 DEF Holds, Operating
      <4>3. QED
        BY <1>1, <1>2, <1>6, <1>10, <3>1, <4>1, <4>2
    <3>2. CASE x \notin out
      <4>1. runs[x] > 0
        BY <1>10, <2>2, <3>2
      <4>2. QED
        BY <1>1, <1>2, <1>6, <1>10, <3>2, <4>1 DEF InvRuns
    <3>3. QED
      BY <3>1, <3>2
  <2>3. QED
    BY <2>1, <2>2 DEF InvRuns
<1>12. InvStop'
  BY <1>1, PollersAssumption DEF InvStop, Threads
<1>13. OneHolder'
  BY <1>2, <1>4, <1>5 DEF OneHolder
<1>14. CancelFinal'
  BY <1>1, <1>2, <1>4, <1>5 DEF CancelFinal, TypeOK
<1>15. NoTimerLost'
  <2>1. SUFFICES ASSUME NEW x \in added \ cancelled, x \in Recurring \/ runs'[x] = 0
                 PROVE  x \in timers' \/ \E u \in Threads : Holds(u, x)'
    BY <1>1 DEF NoTimerLost
  <2>2. x \in Timers /\ (x \in Recurring \/ runs[x] = 0)
    BY <1>10, <2>1 DEF TypeOK
  <2>3. x \in timers \/ \E u \in Threads : Holds(u, x)
    BY <2>2 DEF NoTimerLost
  <2>4. QED
    BY <1>0, <1>2, <1>4, <2>2, <2>3
<1>16. StopAwaitsTimers'
  BY <1>0, <1>1, <1>12, NotAllLeft
<1>17. QED
  BY <1>7, <1>8, <1>9, <1>11, <1>12, <1>13, <1>14, <1>15, <1>16

LEMMA RearmKeeps ==
  ASSUME TimerInv, TypeOK', NEW p \in Pollers, Rearm(p)
  PROVE  TimerInv'
<1> USE DEF TimerInv
<1>0. p \in Threads
  BY DEF Threads
<1>1. /\ pc[p] = "rearm" /\ ~Operating(p)
      /\ UNCHANGED <<timers, added, cancelled, runs, stopping>>
  BY DEF Rearm, At, appVars, Operating
<1>2. PICK t \in expired[p] :
        /\ expired' = [expired EXCEPT ![p] = @ \ {t}]
        /\ IF t \in Recurring
           THEN /\ op' = [op EXCEPT ![p].timer = t, ![p].ret = "rearm"]
                /\ Goto(p, "insert")
           ELSE UNCHANGED <<op, pc>>
  BY DEF Rearm
<1>3. /\ t \in Timers /\ t \in added /\ runs[t] > 0
      /\ expired'[p] = expired[p] \ {t}
      /\ \A u \in Threads \ {p} : expired'[u] = expired[u]
  BY <1>0, <1>2 DEF TypeOK, InvAdded, InvRuns
<1>4. \A u \in Threads \ {p} : op'[u] = op[u] /\ pc'[u] = pc[u]
  BY <1>0, <1>2 DEF TypeOK, Goto
<1>5. IF t \in Recurring
      THEN pc'[p] = "insert" /\ op'[p].timer = t /\ op'[p].ret = "rearm"
      ELSE pc'[p] = "rearm" /\ op'[p] = op[p]
  BY <1>0, <1>1, <1>2 DEF TypeOK, Op, Goto
<1>6. \A u \in Threads, x \in Timers :
        Holds(u, x)' <=> Holds(u, x) /\ ~(u = p /\ x = t /\ t \notin Recurring)
  <2>1. \A x \in Timers : Holds(p, x)' <=> Holds(p, x) /\ ~(x = t /\ t \notin Recurring)
    BY <1>1, <1>2, <1>3, <1>5 DEF Holds
  <2>2. \A u \in Threads \ {p}, x \in Timers : Holds(u, x)' <=> Holds(u, x)
    BY <1>3, <1>4 DEF Holds
  <2>3. QED
    BY <2>1, <2>2
<1>7. \A u \in Threads \ {p} : Operating(u)' <=> Operating(u)
  BY <1>4 DEF Operating
<1>8. Operating(p)' => t \in Recurring /\ op'[p].timer = t
  BY <1>5 DEF Operating
<1>9. InvOperation'
  <2>1. SUFFICES ASSUME NEW u \in Threads, Operating(u)'
                 PROVE  op'[u].timer \in added' /\ op'[u].timer \notin expired'[u]
    BY DEF InvOperation
  <2>2. CASE u = p
    BY <1>1, <1>3, <1>8, <2>1, <2>2
  <2>3. CASE u # p
    <3>1. Operating(u) /\ op'[u] = op[u] /\ expired'[u] = expired[u]
      BY <1>3, <1>4, <1>7, <2>1, <2>3
    <3>2. QED
      BY <1>1, <3>1 DEF InvOperation
  <2>4. QED
    BY <2>2, <2>3
<1>10. InvExpired'
  BY <1>3, <1>4, <1>5 DEF InvExpired
<1>11. InvAdded'
  BY <1>1, <1>3 DEF InvAdded
<1>12. InvRuns'
  <2>1. \A u \in Threads : \A x \in expired'[u] : runs'[x] > 0
    BY <1>1, <1>3 DEF InvRuns
  <2>2. ASSUME NEW x \in Timers \ Recurring, runs'[x] > 0
        PROVE  runs'[x] = 1 /\ x \notin timers' /\ \A u \in Threads : Operating(u)' => op'[u].timer # x
    <3>1. runs[x] = 1 /\ x \notin timers /\ \A u \in Threads : Operating(u) => op[u].timer # x
      BY <1>1, <2>2 DEF InvRuns
    <3>2. QED
      BY <1>1, <1>4, <1>7, <1>8, <3>1
  <2>3. QED
    BY <2>1, <2>2 DEF InvRuns
<1>13. pc'[p] # "exited"
  BY <1>5
<1>14. InvStop'
  BY <1>1, <1>4, <1>13, PollersAssumption DEF InvStop, Threads
<1>15. OneHolder'
  BY <1>1, <1>6 DEF OneHolder
<1>16. CancelFinal'
  BY <1>1, <1>6 DEF CancelFinal, TypeOK
<1>17. NoTimerLost'
  <2>1. SUFFICES ASSUME NEW x \in added \ cancelled, x \in Recurring \/ runs[x] = 0
                 PROVE  x \in timers \/ \E u \in Threads : Holds(u, x)'
    BY <1>1 DEF NoTimerLost
  <2>2. x \in Timers /\ (x = t => t \in Recurring)
    BY <1>3, <2>1 DEF TypeOK
  <2>3. QED
    BY <1>6, <2>1, <2>2 DEF NoTimerLost
<1>18. StopAwaitsTimers'
  BY <1>0, <1>1, <1>13, <1>14, NotAllLeft
<1>19. QED
  BY <1>9, <1>10, <1>11, <1>12, <1>14, <1>15, <1>16, <1>17, <1>18

-----------------------------------------------------------------------------
(* Every step                                                              *)

\* The steps of idle() that only move the poller along.
LEMMA IdleKeeps ==
  ASSUME TimerInv, TypeOK', NEW p \in Pollers,
         \/ GoIdle(p) \/ Check(p) \/ StartWait(p) \/ Wakeup(p) \/ EventReturn(p)
         \/ ReadClock(p) \/ TestEmpty(p) \/ DetectRollover(p) \/ TestFirst(p) \/ Collected(p)
  PROVE  TimerInv'
<1>1. /\ UNCHANGED <<timers, op, expired, added, cancelled, runs, stopping>>
      /\ pc[p] \notin {"insert", "set_due"}
      /\ pc[p] = "rearm" => expired[p] = {}
  BY DEF GoIdle, Check, StartWait, Wakeup, EventReturn, ReadClock, TestEmpty, DetectRollover,
         TestFirst, Collected, At, appVars
<1>2. \E l \in PC \ {"insert", "set_due"} :
        pc' = [pc EXCEPT ![p] = l] /\ (l = "exited" => stopping /\ timers = {})
  BY DEF GoIdle, Check, StartWait, Wakeup, EventReturn, ReadClock, TestEmpty, DetectRollover,
         TestFirst, Collected, LeaveIdle, Goto, PC
<1>3. p \in Threads
  BY DEF Threads
<1>4. ~Operating(p) /\ expired[p] = {}
  BY <1>1, <1>3 DEF Operating, TimerInv, InvExpired
<1>5. QED
  BY <1>1, <1>2, <1>4, PollerMoves

\* The steps of an operation that only move the thread along.
LEMMA OperationKeeps ==
  ASSUME TimerInv, TypeOK', NEW th \in Threads, TickleFirst(th) \/ SetDue(th)
  PROVE  TimerInv'
<1> USE DEF TimerInv
<1>1. /\ UNCHANGED <<timers, op, expired, added, cancelled, runs, stopping>>
      /\ \/ pc[th] = "tickle" /\ pc' = [pc EXCEPT ![th] = "run"]
         \/ pc[th] = "set_due" /\ pc' = [pc EXCEPT ![th] = "insert"]
  BY DEF TickleFirst, SetDue, At, Goto, appVars
<1>2. /\ \/ pc[th] = "tickle" /\ pc'[th] = "run"
         \/ pc[th] = "set_due" /\ pc'[th] = "insert"
      /\ \A u \in Threads \ {th} : pc'[u] = pc[u]
  BY <1>1 DEF TypeOK
<1>3. InvStop'
  BY <1>1, <1>2 DEF InvStop, Threads
<1>4. \A u \in Threads : Operating(u)' <=> Operating(u)
  BY <1>2 DEF Operating
<1>5. \A u \in Threads : expired[u] # {} => pc'[u] = pc[u]
  BY <1>2 DEF InvExpired
<1>6. \A p \in Pollers : pc'[p] = "exited" => pc[p] = "exited" \/ timers = {}
  BY <1>2 DEF Threads
<1>7. QED
  BY <1>1, <1>3, <1>4, <1>5, <1>6, Moves

\* No thread moves: the clocks, stop(), and stuttering.
LEMMA RestKeeps ==
  ASSUME TimerInv, TypeOK', Stop \/ Pass \/ SetBack \/ UNCHANGED vars
  PROVE  TimerInv'
<1>1. UNCHANGED <<timers, pc, op, expired, added, cancelled, runs>>
  BY DEF Stop, Pass, SetBack, vars, appVars
<1>2. InvStop'
  BY <1>1 DEF TimerInv, InvStop, Stop, Pass, SetBack, vars, At
<1>3. \A th \in Threads : Operating(th)' <=> Operating(th)
  BY <1>1 DEF Operating
<1>4. QED
  BY <1>1, <1>2, <1>3, Moves

LEMMA StepInv ==
  ASSUME TimerInv, [Next]_vars
  PROVE  TimerInv'
<1>1. TypeOK'
  <2>1. CASE Next
    BY <2>1, StepTypes DEF TimerInv
  <2>2. CASE UNCHANGED vars
    BY <2>2 DEF TimerInv, TypeOK, vars, clockVars, timerVars, pollVars, appVars
  <2>3. QED
    BY <2>1, <2>2
<1>2. ASSUME NEW th \in Threads, AppStep(th) PROVE TimerInv'
  <2>1. Cycles \subseteq Nat /\ \A t \in Timers : cycle[t] \in Nat
    BY CyclesPositive DEF TimerInv, TypeOK
  <2>2. QED
    BY <1>1, <1>2, <2>1, CreateTimerKeeps, CancelKeeps, TakeOutKeeps DEF AppStep, Refresh, Reset
<1>3. ASSUME NEW th \in Threads, OpStep(th) PROVE TimerInv'
  BY <1>1, <1>3, InsertKeeps, OperationKeeps DEF OpStep
<1>4. ASSUME NEW p \in Pollers, IdleStep(p) \/ EventReturn(p) PROVE TimerInv'
  BY <1>1, <1>4, IdleKeeps, CollectKeeps, RearmKeeps DEF IdleStep
<1>5. QED
  BY <1>1, <1>2, <1>3, <1>4, RestKeeps DEF Next

-----------------------------------------------------------------------------
(* What is proved of every behaviour                                       *)

\* The invariant holds, with the types of all variables: what timer.cpp relies
\* on when it works on a timer outside of its lock.
THEOREM Invariant == Spec => []TimerInv
<1>1. Init => TimerInv
  BY InitInv
<1>2. TimerInv /\ [Next]_vars => TimerInv'
  BY StepInv
<1>3. QED
  BY <1>1, <1>2, PTL DEF Spec

\* A timer is in m_timers or with one thread: refresh, reset and the loop over
\* the expired timers change it without the lock and without a race.
THEOREM TimerHasOneHolder == Spec => []OneHolder
<1>1. TimerInv => OneHolder
  BY DEF TimerInv
<1>2. QED
  BY <1>1, Invariant, PTL

\* After cancelTimer() no thread puts the timer back.
THEOREM CancellationIsFinal == Spec => []CancelFinal
<1>1. TimerInv => CancelFinal
  BY DEF TimerInv
<1>2. QED
  BY <1>1, Invariant, PTL

\* No timer is forgotten between the sections that take it out and put it back.
THEOREM TimersAreNotLost == Spec => []NoTimerLost
<1>1. TimerInv => NoTimerLost
  BY DEF TimerInv
<1>2. QED
  BY <1>1, Invariant, PTL

\* However many threads collect expired timers, one that does not recur is
\* collected once.
THEOREM CollectedOnce == Spec => []OneShot
<1>1. TimerInv => OneShot
  BY DEF TimerInv, InvRuns, OneShot, TypeOK
<1>2. QED
  BY <1>1, Invariant, PTL

\* No thread leaves idle() for good before the last timer.
THEOREM StopWaitsForTimers == Spec => []StopAwaitsTimers
<1>1. TimerInv => StopAwaitsTimers
  BY DEF TimerInv
<1>2. QED
  BY <1>1, Invariant, PTL

\* The execute time by which the std::set is ordered changes only for timers that
\* are not in it.
LEMMA StepKeepsKeys ==
  ASSUME TimerInv, [Next]_vars
  PROVE  \A t \in timers \cap timers' : due'[t] = due[t]
<1> USE DEF TimerInv
<1>0. Pollers \subseteq Threads /\ timers \subseteq Timers /\ timers \subseteq added
  BY DEF Threads, TypeOK, InvAdded
<1>1. CASE UNCHANGED due
  BY <1>1
<1>2. ASSUME NEW th \in Threads, NEW t \in Timers, CreateTimer(th, t)
      PROVE  \A x \in timers : due'[x] = due[x]
  BY <1>0, <1>2 DEF CreateTimer, TypeOK
<1>3. ASSUME NEW th \in Threads, SetDue(th)
      PROVE  \A x \in timers : due'[x] = due[x]
  <2>1. op[th].timer \in Timers /\ Holds(th, op[th].timer)
    BY <1>3 DEF SetDue, At, Holds, InvOperation, Operating, TypeOK
  <2>2. op[th].timer \notin timers
    BY <2>1 DEF OneHolder
  <2>3. QED
    BY <1>0, <1>3, <2>2 DEF SetDue, TypeOK
<1>4. ASSUME NEW p \in Pollers, Rearm(p)
      PROVE  \A x \in timers : due'[x] = due[x]
  <2>1. PICK t \in expired[p] :
          IF t \in Recurring THEN due' = [due EXCEPT ![t] = now[p] + cycle[t]] ELSE UNCHANGED due
    BY <1>4 DEF Rearm
  <2>2. t \in Timers /\ Holds(p, t)
    BY <1>0, <2>1 DEF Holds, TypeOK
  <2>3. t \notin timers
    BY <1>0, <2>2 DEF OneHolder
  <2>4. QED
    BY <1>0, <2>1, <2>3 DEF TypeOK
<1>5. \/ UNCHANGED due
      \/ \E th \in Threads : SetDue(th) \/ \E t \in Timers : CreateTimer(th, t)
      \/ \E p \in Pollers : Rearm(p)
  <2>1. ASSUME NEW th \in Threads, NEW t \in Timers, NEW c, NEW fromNow,
               Cancel(th, t) \/ TakeOut(th, t, c, fromNow)
        PROVE  UNCHANGED due
    BY <2>1 DEF Cancel, TakeOut, timerVars
  <2>2. ASSUME NEW th \in Threads, Insert(th) \/ TickleFirst(th)
        PROVE  UNCHANGED due
    BY <2>2 DEF Insert, TickleFirst, timerVars
  <2>3. ASSUME NEW p \in Pollers,
               \/ GoIdle(p) \/ Check(p) \/ StartWait(p) \/ Wakeup(p) \/ EventReturn(p)
               \/ ReadClock(p) \/ TestEmpty(p) \/ DetectRollover(p) \/ TestFirst(p)
               \/ Collect(p) \/ Collected(p)
        PROVE  UNCHANGED due
    BY <2>3 DEF GoIdle, Check, StartWait, Wakeup, EventReturn, ReadClock, TestEmpty,
                DetectRollover, TestFirst, Collect, Collected, timerVars
  <2>4. ASSUME Stop \/ Pass \/ SetBack \/ UNCHANGED vars
        PROVE  UNCHANGED due
    BY <2>4 DEF Stop, Pass, SetBack, vars, timerVars
  <2>5. QED
    BY <2>1, <2>2, <2>3, <2>4 DEF Next, AppStep, OpStep, IdleStep, Refresh, Reset
<1>6. QED
  BY <1>1, <1>2, <1>3, <1>4, <1>5

\* The key of a timer in m_timers is never changed.
THEOREM KeysAreKept == Spec => KeysKept
<1>1. TimerInv /\ [Next]_vars => [\A t \in timers \cap timers' : due'[t] = due[t]]_vars
  BY StepKeepsKeys
<1>2. QED
  BY <1>1, Invariant, PTL DEF Spec, KeysKept

-----------------------------------------------------------------------------
(* The sleep of the pollers, without refresh and reset                     *)

\* The timers are ordered by due time first.
LEMMA LaterDue ==
  ASSUME TypeOK, NEW t \in Timers, NEW u \in Timers, due[t] <= due[u]
  PROVE  UntilNext(t) \in Nat /\ UntilNext(t) <= UntilNext(u)
<1>1. due[t] \in Int /\ due[u] \in Int /\ mono \in Int /\ back \in Int
  BY DEF TypeOK
<1>2. QED
  BY <1>1 DEF UntilNext, Now

\* Timers come back into the set only from the poller that collected them.
LEMMA InsertStep ==
  ASSUME MaxResets = 0, TimerInv, InvInsert, [Next]_vars
  PROVE  InvInsert'
<1> USE DEF TimerInv
<1>0. /\ Pollers \subseteq Threads /\ op \in [Threads -> Op] /\ pc \in [Threads -> PC]
      /\ \A th \in Threads : op[th] \in Op
  BY DEF Threads, TypeOK
<1>1. ASSUME NEW th \in Threads, NEW t \in Timers, CreateTimer(th, t) PROVE InvInsert'
  BY <1>0, <1>1 DEF CreateTimer, Goto, InvInsert, Operating, At, Op
<1>2. ASSUME NEW th \in Threads, NEW t \in Timers, Cancel(th, t) PROVE InvInsert'
  BY <1>0, <1>2 DEF Cancel, Goto, InvInsert, Operating, At
<1>3. ASSUME NEW th \in Threads, NEW t \in Timers, Refresh(th, t) PROVE InvInsert'
  BY <1>3 DEF Refresh, TakeOut, TypeOK
<1>4. ASSUME NEW th \in Threads, NEW t \in Timers, NEW c \in Cycles, NEW fromNow \in BOOLEAN,
             Reset(th, t, c, fromNow)
      PROVE  InvInsert'
  BY <1>4 DEF Reset, TakeOut, TypeOK
<1>5. ASSUME NEW th \in Threads, Insert(th) PROVE InvInsert'
  <2>1. /\ op' = [op EXCEPT ![th] = NoOp]
        /\ \E l \in {"run", "tickle", "rearm"} : pc' = [pc EXCEPT ![th] = l]
    BY <1>5 DEF Insert, Goto, InvInsert, Operating, At
  <2>2. QED
    BY <1>0, <2>1 DEF InvInsert, Operating, At
<1>6. ASSUME NEW th \in Threads, TickleFirst(th) PROVE InvInsert'
  BY <1>0, <1>6 DEF TickleFirst, Goto, InvInsert, Operating, At
<1>7. ASSUME NEW th \in Threads, SetDue(th) PROVE InvInsert'
  BY <1>7 DEF SetDue, InvInsert, Operating, At
<1>8. ASSUME NEW p \in Pollers, Rearm(p) PROVE InvInsert'
  <2>1. PICK t \in expired[p] :
          \/ /\ op' = [op EXCEPT ![p].timer = t, ![p].ret = "rearm"]
             /\ pc' = [pc EXCEPT ![p] = "insert"]
          \/ UNCHANGED <<op, pc>>
    BY <1>8 DEF Rearm, Goto
  <2>2. CASE UNCHANGED <<op, pc>>
    BY <2>2 DEF InvInsert, Operating, At
  <2>3. CASE /\ op' = [op EXCEPT ![p].timer = t, ![p].ret = "rearm"]
             /\ pc' = [pc EXCEPT ![p] = "insert"]
    BY <1>0, <2>3 DEF InvInsert, Operating, At, Op
  <2>4. QED
    BY <2>1, <2>2, <2>3
<1>9. ASSUME NEW p \in Pollers,
             \/ GoIdle(p) \/ Check(p) \/ StartWait(p) \/ Wakeup(p) \/ EventReturn(p)
             \/ ReadClock(p) \/ TestEmpty(p) \/ DetectRollover(p) \/ TestFirst(p)
             \/ Collect(p) \/ Collected(p)
      PROVE  InvInsert'
  <2>1. /\ UNCHANGED op
        /\ \E l \in PC \ {"insert", "set_due"} : pc' = [pc EXCEPT ![p] = l]
    BY <1>9 DEF GoIdle, Check, StartWait, Wakeup, EventReturn, ReadClock, TestEmpty,
                DetectRollover, TestFirst, Collect, Collected, LeaveIdle, Goto, PC, appVars
  <2>2. QED
    BY <1>0, <2>1 DEF InvInsert, Operating, At
<1>10. ASSUME Stop \/ Pass \/ SetBack \/ UNCHANGED vars PROVE InvInsert'
  BY <1>10 DEF Stop, Pass, SetBack, vars, InvInsert, Operating, At
<1>11. QED
  BY <1>1, <1>2, <1>3, <1>4, <1>5, <1>6, <1>7, <1>8, <1>9, <1>10 DEF Next, AppStep, OpStep, IdleStep

\* A poller that goes to sleep looks at the next timer, hence at all of them.
LEMMA SleepsForFirst ==
  ASSUME TimerInv, TypeOK', NEW p \in Pollers, StartWait(p)
  PROVE  /\ wake'[p] <= mono + MaxWait
         /\ \A t \in timers : InTime(p, t)'
<1> USE DEF TimerInv
<1>0. /\ mono \in Int /\ MaxWait \in Nat /\ p \in Threads /\ wake \in [Threads -> Int]
      /\ timers \subseteq Timers /\ UNCHANGED <<mono, back, due, timers>>
      /\ \A t \in Timers : due[t] \in Int
  BY TimesAreNaturals DEF TypeOK, Threads, StartWait, clockVars, timerVars
<1>1. CASE timers = {} /\ wake' = [wake EXCEPT ![p] = mono + MaxWait]
  BY <1>0, <1>1
<1>2. ASSUME NEW t \in timers, First(t, timers),
             wake' = [wake EXCEPT ![p] =
                        mono + (IF UntilNext(t) < MaxWait THEN UntilNext(t) ELSE MaxWait)]
      PROVE  /\ wake'[p] <= mono + MaxWait
             /\ \A u \in timers : InTime(p, u)'
  <2>1. t \in Timers /\ UntilNext(t) \in Nat
    BY <1>0, LaterDue
  <2>2. wake'[p] <= mono + MaxWait /\ wake'[p] <= mono + UntilNext(t)
    BY <1>0, <1>2, <2>1
  <2>3. ASSUME NEW u \in timers PROVE InTime(p, u)'
    <3>1. due[t] <= due[u]
      BY <1>0, <1>2, <2>1 DEF First, Before
    <3>2. UntilNext(u) \in Nat /\ UntilNext(t) <= UntilNext(u)
      BY <1>0, <2>1, <3>1, LaterDue
    <3>3. wake'[p] \in Int /\ UntilNext(u)' = UntilNext(u)
      BY <1>0 DEF TypeOK, UntilNext, Now
    <3>4. wake'[p] <= mono' + UntilNext(u)'
      BY <1>0, <2>1, <2>2, <3>2, <3>3
    <3>5. QED
      BY <3>4 DEF InTime
  <2>4. QED
    BY <2>2, <2>3
<1>3. QED
  BY <1>1, <1>2 DEF StartWait

\* A timer that is not the next one is looked after by who looks after the next.
LEMMA NotFirstIsInTime ==
  ASSUME TypeOK, NEW t \in Timers, ~First(t, timers),
         \A u \in timers : \E p \in Pollers : InTime(p, u)
  PROVE  \E p \in Pollers : InTime(p, t)
<1>1. PICK u \in timers : ~Before(t, u)
  BY DEF First
<1>2. u \in Timers /\ due[u] \in Int /\ due[t] \in Int
  BY DEF TypeOK
<1>3. due[u] <= due[t]
  BY <1>1, <1>2 DEF Before
<1>4. UntilNext(u) \in Nat /\ UntilNext(u) <= UntilNext(t)
  BY <1>2, <1>3, LaterDue
<1>5. UntilNext(t) \in Nat
  BY <1>2, LaterDue
<1>6. PICK p \in Pollers : InTime(p, u)
  OBVIOUS
<1>7. wake[p] \in Int /\ mono \in Int /\ MaxWait \in Nat
  BY TimesAreNaturals DEF TypeOK, Threads
<1>8. InTime(p, t)
  BY <1>4, <1>5, <1>6, <1>7 DEF InTime
<1>9. QED
  BY <1>8

\* Time that passes, and a clock that is set back, bring no timer nearer than the wake-up.
LEMMA ClocksKeepTime ==
  ASSUME TypeOK, Pass \/ SetBack, NEW p \in Pollers, NEW t \in Timers,
         wake[p] <= mono + MaxWait, InTime(p, t)
  PROVE  wake'[p] <= mono' + MaxWait /\ InTime(p, t)'
<1>1. /\ wake[p] \in Int /\ mono \in Int /\ back \in Nat /\ due[t] \in Int /\ MaxWait \in Nat
      /\ UNCHANGED <<wake, due>>
  BY TimesAreNaturals DEF TypeOK, Threads, Pass, SetBack, pollVars, timerVars
<1>2. CASE Pass
  <2>1. mono' = mono + 1 /\ back' = back
    BY <1>2 DEF Pass
  <2>2. QED
    BY <1>1, <2>1 DEF InTime, UntilNext, Now
<1>3. CASE SetBack
  <2>1. mono' = mono /\ back = 0 /\ back' \in Nat
    BY <1>3, TimesAreNaturals DEF SetBack
  <2>2. QED
    BY <1>1, <2>1 DEF InTime, UntilNext, Now
<1>4. QED
  BY <1>2, <1>3

LEMMA WakeStep ==
  ASSUME MaxResets = 0, TimerInv, TimerInv', WakeInv, [Next]_vars
  PROVE  WakeInv'
<1> USE DEF TimerInv
<1> DEFINE Bounded == \A p \in Pollers : At(p, "epoll") => wake[p] <= mono + MaxWait
           Covered == \/ pipeReady
                      \/ \E th \in Threads : At(th, "tickle")
                      \/ \E p \in Pollers : ~At(p, "epoll")
                      \/ \A t \in timers : \E p \in Pollers : InTime(p, t)
<1>0. /\ Pollers \subseteq Threads /\ pc \in [Threads -> PC] /\ timers \subseteq Timers
      /\ wake \in [Threads -> Int] /\ \A th \in Threads : op[th] \in Op
      /\ InvInsert /\ Bounded /\ Covered
  BY DEF Threads, TypeOK, WakeInv
<1>1. InvInsert'
  BY <1>0, InsertStep
\* Nothing that a sleeping poller relies on has changed.
<1>2. ASSUME UNCHANGED <<mono, back, wake>>, \A t \in timers' : t \in timers /\ due'[t] = due[t],
             pipeReady => pipeReady', \A th \in Threads : At(th, "tickle") => At(th, "tickle")',
             \A p \in Pollers : At(p, "epoll")' <=> At(p, "epoll")
      PROVE  Bounded' /\ Covered'
  BY <1>0, <1>2 DEF InTime, UntilNext, Now, At
\* A poller is up.
<1>3. ASSUME NEW p \in Pollers, ~At(p, "epoll")', UNCHANGED <<mono, back>>,
             \A q \in Pollers \ {p} : pc'[q] = pc[q] /\ wake'[q] = wake[q]
      PROVE  Bounded' /\ Covered'
  BY <1>0, <1>3 DEF At
<1>4. ASSUME NEW th \in Threads, NEW t \in Timers, CreateTimer(th, t) PROVE Bounded' /\ Covered'
  <2>1. /\ UNCHANGED <<mono, back, wake, timers, pipeReady>>
        /\ pc[th] = "run" /\ pc'[th] = "insert" /\ \A u \in Threads \ {th} : pc'[u] = pc[u]
        /\ due' = [due EXCEPT ![t] = Now + cycle[t]] /\ t \notin added
    BY <1>0, <1>4 DEF CreateTimer, Calls, Goto, At, clockVars, pollVars
  <2>2. \A x \in timers : x \in added /\ x \in Timers /\ due'[x] = due[x]
    BY <2>1 DEF InvAdded, TypeOK
  <2>3. QED
    BY <1>0, <1>2, <2>1, <2>2 DEF At
<1>5. ASSUME NEW th \in Threads, NEW t \in Timers, Cancel(th, t) PROVE Bounded' /\ Covered'
  <2>1. /\ UNCHANGED <<mono, back, wake, due, pipeReady>> /\ timers' \subseteq timers
        /\ pc[th] = "run" /\ pc'[th] \in {"run", "crashed"}
        /\ \A u \in Threads \ {th} : pc'[u] = pc[u]
    BY <1>0, <1>5 DEF Cancel, Calls, Goto, At, clockVars, pollVars, timerVars
  <2>2. QED
    BY <1>0, <1>2, <2>1 DEF At
<1>6. ASSUME NEW th \in Threads, NEW t \in Timers, NEW c, NEW fromNow, TakeOut(th, t, c, fromNow)
      PROVE  Bounded' /\ Covered'
  BY <1>6 DEF TakeOut, TypeOK
<1>7. ASSUME NEW th \in Threads, Insert(th) PROVE Bounded' /\ Covered'
  <2> DEFINE t == op[th].timer
  <2>1. /\ UNCHANGED <<mono, back, wake, due, pipeReady>> /\ timers' = timers \cup {t}
        /\ pc[th] = "insert" /\ \A u \in Threads \ {th} : pc'[u] = pc[u]
        /\ t \in Timers
    BY <1>0, <1>7 DEF Insert, Goto, At, clockVars, pollVars, timerVars, InvOperation, Operating, TypeOK
  <2>2. CASE op[th].ret = "rearm"
    <3>1. th \in Pollers /\ pc'[th] = "rearm"
      BY <1>0, <1>7, <2>1, <2>2 DEF Insert, Goto, At, InvInsert, Operating
    <3>2. QED
      BY <1>3, <2>1, <3>1 DEF At, Threads
  <2>3. CASE op[th].ret = "tickle" /\ First(t, timers)
    <3>1. pc'[th] = "tickle"
      BY <1>0, <1>7, <2>3 DEF Insert, Goto
    <3>2. QED
      BY <1>0, <2>1, <3>1 DEF At
  <2>4. CASE op[th].ret = "tickle" /\ ~First(t, timers)
    <3>1. pc'[th] = "run"
      BY <1>0, <1>7, <2>4 DEF Insert, Goto
    <3>2. /\ \A p \in Pollers : At(p, "epoll")' <=> At(p, "epoll")
          /\ \A u \in Threads : At(u, "tickle")' <=> At(u, "tickle")
          /\ \A p \in Pollers, x \in timers \cup {t} : InTime(p, x)' <=> InTime(p, x)
      BY <1>0, <2>1, <3>1 DEF At, InTime, UntilNext, Now
    <3>3. (\A x \in timers : \E p \in Pollers : InTime(p, x)) => \E p \in Pollers : InTime(p, t)
      BY <2>1, <2>4, NotFirstIsInTime
    <3>4. Covered'
      BY <1>0, <2>1, <3>2, <3>3
    <3>5. QED
      BY <1>0, <2>1, <3>2, <3>4
  <2>5. QED
    BY <1>0, <2>1, <2>2, <2>3, <2>4 DEF InvInsert, Operating
<1>8. ASSUME NEW th \in Threads, TickleFirst(th) PROVE Bounded' /\ Covered'
  <2>1. /\ UNCHANGED <<mono, back, wake, due, timers>> /\ Tickle
        /\ pc[th] = "tickle" /\ pc'[th] = "run" /\ \A u \in Threads \ {th} : pc'[u] = pc[u]
    BY <1>0, <1>8 DEF TickleFirst, Goto, At, clockVars, pollVars, timerVars
  <2>2. Bounded'
    BY <1>0, <2>1 DEF At
  <2>3. pipeReady' \/ \E p \in Pollers : ~At(p, "epoll")'
    <3>1. CASE \E p \in Pollers : pc[p] \notin {"run", "exited"}
      BY <2>1, <3>1 DEF Tickle
    <3>2. CASE \A p \in Pollers : pc[p] \in {"run", "exited"}
      BY <1>0, <2>1, <3>2, PollersAssumption DEF At
    <3>3. QED
      BY <3>1, <3>2
  <2>4. QED
    BY <2>2, <2>3
<1>9. ASSUME NEW th \in Threads, SetDue(th) PROVE Bounded' /\ Covered'
  BY <1>0, <1>9 DEF SetDue, InvInsert, Operating, At
<1>10. ASSUME NEW p \in Pollers, StartWait(p) PROVE Bounded' /\ Covered'
  <2>1. /\ UNCHANGED <<mono, timers>>
        /\ \A q \in Pollers \ {p} : pc'[q] = pc[q] /\ wake'[q] = wake[q]
    BY <1>0, <1>10 DEF StartWait, Goto, clockVars
  <2>2. wake'[p] <= mono + MaxWait /\ \A t \in timers : InTime(p, t)'
    BY <1>10, SleepsForFirst
  <2>3. Bounded'
    BY <1>0, <2>1, <2>2 DEF At
  <2>4. QED
    BY <2>1, <2>2, <2>3
<1>11. ASSUME NEW p \in Pollers, Rearm(p) PROVE Bounded' /\ Covered'
  <2>1. /\ UNCHANGED <<mono, back, wake>> /\ pc[p] = "rearm" /\ pc'[p] \in {"rearm", "insert"}
        /\ \A u \in Threads \ {p} : pc'[u] = pc[u]
    BY <1>0, <1>11 DEF Rearm, Goto, At, clockVars, pollVars
  <2>2. QED
    BY <1>0, <1>3, <2>1 DEF At
<1>12. ASSUME NEW p \in Pollers,
              \/ GoIdle(p) \/ Check(p) \/ Wakeup(p) \/ EventReturn(p)
              \/ ReadClock(p) \/ TestEmpty(p) \/ DetectRollover(p) \/ TestFirst(p)
              \/ Collect(p) \/ Collected(p)
       PROVE  Bounded' /\ Covered'
  <2>1. /\ UNCHANGED <<mono, back>>
        /\ \E l \in PC \ {"epoll"} : pc' = [pc EXCEPT ![p] = l]
        /\ \/ UNCHANGED wake
           \/ wake' = [wake EXCEPT ![p] = 0]
    BY <1>12 DEF GoIdle, Check, Wakeup, EventReturn, ReadClock, TestEmpty, DetectRollover,
         TestFirst, Collect, Collected, LeaveIdle, Goto, PC, clockVars, pollVars
  <2>2. ~At(p, "epoll")' /\ \A q \in Pollers \ {p} : pc'[q] = pc[q] /\ wake'[q] = wake[q]
    BY <1>0, <2>1 DEF At
  <2>3. QED
    BY <1>3, <2>1, <2>2
<1>13. ASSUME Stop \/ UNCHANGED vars PROVE Bounded' /\ Covered'
  <2>1. UNCHANGED <<mono, back, wake, due, timers, pc, pipeReady>>
    BY <1>13 DEF Stop, vars, clockVars, timerVars, pollVars
  <2>2. QED
    BY <1>2, <2>1 DEF At
<1>14. ASSUME Pass \/ SetBack PROVE Bounded' /\ Covered'
  <2>1. /\ UNCHANGED <<timers, pc, pipeReady, wake>>
        /\ mono' \in {mono, mono + 1} /\ mono \in Int
    BY <1>14 DEF Pass, SetBack, pollVars, TypeOK
  <2>2. Bounded'
    BY <1>0, <2>1, TimesAreNaturals DEF At
  <2>3. CASE \A p \in Pollers : At(p, "epoll")
    <3>1. \A p \in Pollers, t \in timers : InTime(p, t) => InTime(p, t)'
      BY <1>0, <1>14, <2>3, ClocksKeepTime
    <3>2. Covered'
      BY <1>0, <2>1, <3>1 DEF At
    <3>3. QED
      BY <2>2, <3>2
  <2>4. CASE \E p \in Pollers : ~At(p, "epoll")
    BY <2>1, <2>2, <2>4 DEF At
  <2>5. QED
    BY <2>3, <2>4
<1>15. Bounded' /\ Covered'
  <2>1. ASSUME NEW th \in Threads, AppStep(th) \/ OpStep(th) PROVE Bounded' /\ Covered'
    BY <1>4, <1>5, <1>6, <1>7, <1>8, <1>9, <2>1 DEF AppStep, OpStep, Refresh, Reset
  <2>2. ASSUME NEW p \in Pollers, IdleStep(p) \/ EventReturn(p) PROVE Bounded' /\ Covered'
    BY <1>10, <1>11, <1>12, <2>2 DEF IdleStep
  <2>3. QED
    BY <1>13, <1>14, <2>1, <2>2 DEF Next
<1>16. QED
  BY <1>1, <1>15 DEF WakeInv

\* As long as no timer is refreshed or reset, no poller sleeps past the next timer,
\* however many add timers, collect them and put them back: who puts a new one in
\* front wakes somebody. Nothing of the library refreshes or resets.
THEOREM NoTimerIsLate ==
  ASSUME MaxResets = 0
  PROVE  Spec => []NoLateTimer
<1>1. Init => WakeInv
  BY PollersAssumption DEF Init, WakeInv, InvInsert, Operating, At, Threads
<1>2. TimerInv /\ TimerInv' /\ WakeInv /\ [Next]_vars => WakeInv'
  BY WakeStep
<1>3. WakeInv => NoLateTimer
  BY DEF WakeInv, InTime, NoLateTimer, At, Threads
<1>4. QED
  BY <1>1, <1>2, <1>3, Invariant, PTL DEF Spec
=============================================================================

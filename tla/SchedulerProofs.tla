--------------------------- MODULE SchedulerProofs --------------------------
(* Proofs about Scheduler, for any number of threads and fibers: its types, *)
(* and the order of the tasks of each thread, in every use; then its safety *)
(* when the tasks compute: every fiber is in one place, no thread crashes,  *)
(* and stop() returns with an empty list; then with one thread, whatever    *)
(* its tasks do: they wait for events, are pinned, are scheduled again.     *)
(* Both times it implements the task pool.                                  *)
EXTENDS SchedulerInvariant, SequenceTheorems, FiniteSetTheorems, TLAPS

-----------------------------------------------------------------------------
(* The task list                                                           *)

\* What removing an entry from the middle of a list leaves.
LEMMA WithoutProperties ==
  ASSUME NEW S, NEW seq \in Seq(S), NEW i \in 1..Len(seq)
  PROVE  /\ Without(seq, i) \in Seq(S)
         /\ Len(Without(seq, i)) = Len(seq) - 1
         /\ \A j \in 1..(Len(seq) - 1) :
              Without(seq, i)[j] = IF j < i THEN seq[j] ELSE seq[j + 1]
<1> DEFINE a == SubSeq(seq, 1, i - 1)
           b == SubSeq(seq, i + 1, Len(seq))
<1>1. Len(seq) \in Nat /\ \A j \in 1..Len(seq) : seq[j] \in S
  BY LenProperties, ElementOfSeq
<1>2. /\ a \in Seq(S) /\ Len(a) = i - 1
      /\ \A j \in 1..(i - 1) : a[j] = seq[j]
  <2>1. \A j \in 1..(i - 1) : seq[j] \in S
    BY <1>1
  <2>2. /\ a \in Seq(S)
        /\ Len(a) = IF 1 <= i - 1 THEN (i - 1) - 1 + 1 ELSE 0
        /\ \A j \in 1..((i - 1) - 1 + 1) : a[j] = seq[1 + j - 1]
    BY <2>1, SubSeqProperties, <1>1
  <2>3. QED
    BY <2>2, <1>1
<1>3. /\ b \in Seq(S) /\ Len(b) = Len(seq) - i
      /\ \A j \in 1..(Len(seq) - i) : b[j] = seq[i + j]
  <2>1. \A j \in (i + 1)..Len(seq) : seq[j] \in S
    BY <1>1
  <2>2. /\ b \in Seq(S)
        /\ Len(b) = IF i + 1 <= Len(seq) THEN Len(seq) - (i + 1) + 1 ELSE 0
        /\ \A j \in 1..(Len(seq) - (i + 1) + 1) : b[j] = seq[(i + 1) + j - 1]
    BY <2>1, SubSeqProperties, <1>1
  <2>3. QED
    BY <2>2, <1>1
<1>4. /\ a \o b \in Seq(S)
      /\ Len(a \o b) = Len(a) + Len(b)
      /\ \A j \in 1..(Len(a) + Len(b)) :
           (a \o b)[j] = IF j <= Len(a) THEN a[j] ELSE b[j - Len(a)]
  BY <1>2, <1>3, ConcatProperties
<1>5. Without(seq, i) = a \o b
  BY DEF Without
<1> HIDE DEF a, b
<1>6. Len(a) + Len(b) = Len(seq) - 1
  BY <1>1, <1>2, <1>3
<1>7. ASSUME NEW j \in 1..(Len(seq) - 1)
      PROVE  (a \o b)[j] = IF j < i THEN seq[j] ELSE seq[j + 1]
  <2>1. (a \o b)[j] = IF j <= i - 1 THEN a[j] ELSE b[j - (i - 1)]
    BY <1>1, <1>2, <1>4, <1>6
  <2>2. CASE j < i
    BY <2>1, <2>2, <1>1, <1>2
  <2>3. CASE ~(j < i)
    <3>1. j - (i - 1) \in 1..(Len(seq) - i) /\ i + (j - (i - 1)) = j + 1
      BY <2>3, <1>1
    <3>2. QED
      BY <2>1, <2>3, <3>1, <1>1, <1>3
  <2>4. QED
    BY <2>2, <2>3
<1>8. QED
  BY <1>4, <1>5, <1>6, <1>7

\* The entries that stay are the entries other than the one that is taken.
LEMMA WithoutEntries ==
  ASSUME NEW S, NEW seq \in Seq(S), NEW i \in 1..Len(seq)
  PROVE  /\ Len(Without(seq, i)) = Len(seq) - 1
         /\ \A j \in 1..Len(Without(seq, i)) :
              \E k \in 1..Len(seq) \ {i} : Without(seq, i)[j] = seq[k]
         /\ \A k \in 1..Len(seq) \ {i} :
              \E j \in 1..Len(Without(seq, i)) : Without(seq, i)[j] = seq[k]
<1>1. Len(seq) \in Nat /\ Len(Without(seq, i)) = Len(seq) - 1
  BY LenProperties, WithoutProperties
<1>2. ASSUME NEW j \in 1..(Len(seq) - 1)
      PROVE  Without(seq, i)[j] = IF j < i THEN seq[j] ELSE seq[j + 1]
  BY WithoutProperties
<1>3. ASSUME NEW j \in 1..(Len(seq) - 1)
      PROVE  \E k \in 1..Len(seq) \ {i} : Without(seq, i)[j] = seq[k]
  <2>1. CASE j < i
    BY <1>1, <1>2, <2>1
  <2>2. CASE ~(j < i)
    <3>1. j + 1 \in 1..Len(seq) \ {i}
      BY <1>1, <2>2
    <3>2. QED
      BY <1>2, <2>2, <3>1
  <2>3. QED
    BY <2>1, <2>2
<1>4. ASSUME NEW k \in 1..Len(seq) \ {i}
      PROVE  \E j \in 1..(Len(seq) - 1) : Without(seq, i)[j] = seq[k]
  <2>1. CASE k < i
    BY <1>1, <1>2, <2>1
  <2>2. CASE ~(k < i)
    <3>1. k - 1 \in 1..(Len(seq) - 1) /\ ~(k - 1 < i) /\ (k - 1) + 1 = k
      BY <1>1, <2>2
    <3>2. QED
      BY <1>2, <3>1
  <2>3. QED
    BY <2>1, <2>2
<1>5. QED
  BY <1>1, <1>3, <1>4

-----------------------------------------------------------------------------
(* Types                                                                   *)

\* Setting need_tickle keeps a frame of schedule() a frame.
LEMMA CallNeed ==
  ASSUME NEW c \in CallRecord, NEW need \in BOOLEAN
  PROVE  [c EXCEPT !.need = need] \in CallRecord
  BY DEF CallRecord

\* The constructor leaves well-typed state.
LEMMA TypeInit == Init => TypeInv
<1> SUFFICES ASSUME Init PROVE TypeInv
  OBVIOUS
<1>1. FiberTypeOK
  BY DEF Init, FiberInit, FiberTypeOK, FiberState
<1>2. queue \in Seq(Entry)
  BY EmptySeq DEF Init
<1>3. /\ active \in 0..(CounterMod - 1) /\ idle \in Int /\ pending \in Int
      /\ reg \in [Threads -> 0..(CounterMod - 1)]
      /\ tickles \in Nat /\ submits \in [Fibers -> Nat] /\ yields \in [Fibers -> Nat]
  BY CounterModAssumption DEF Init
<1>4. /\ stopped \in BOOLEAN /\ pipeReady \in BOOLEAN /\ tickleMe \in [Threads -> BOOLEAN]
      /\ armed \subseteq Fibers /\ idleDone \subseteq Threads
      /\ task \in [Threads -> Fibers \cup {None}]
  BY DEF Init
<1>5. pc \in [Threads -> PC]
  BY DEF Init, PC, RunPc, StopPc
<1>6. call \in [Threads -> CallRecord]
  BY DEF Init, NoCall, CallRecord, PC, RunPc
<1>7. TaskOK
  BY DEF Init, TaskOK, Scheduling, SchedPc
<1>8. QED
  BY <1>1, <1>2, <1>3, <1>4, <1>5, <1>6, <1>7 DEF TypeInv, TypeOK

\* schedule() keeps the types: what it puts in the list is a fiber.
LEMMA TypeScheduleStep ==
  ASSUME TypeInv, NEW t \in Threads, ScheduleStep(t)
  PROVE  TypeInv'
<1> USE DEF TypeInv, TypeOK, FiberTypeOK, TaskOK, CallRecord, Entry, Goto, At,
            Scheduling, PC,
         RunPc, SchedPc, StopPc, FiberState, Finished, fiberVars, counters, locals, bounds
<1>1. ASSUME SchedRead(t) PROVE TypeInv'
  <2>1. PICK need \in BOOLEAN : call' = [call EXCEPT ![t].need = need]
    BY <1>1 DEF SchedRead
  <2>2. call'[t] = [call[t] EXCEPT !.need = need] /\ \A u \in Threads \ {t} : call'[u] = call[u]
    BY <2>1
  <2>3. [call[t] EXCEPT !.need = need] \in CallRecord
    BY CallNeed
  <2>4. call' \in [Threads -> CallRecord]
    BY <2>1, <2>3
  <2>5. call'[t].fiber = call[t].fiber /\ call'[t].ret = call[t].ret
    BY <2>2
  <2> HIDE DEF CallRecord
  <2>6. QED
    BY <1>1, <2>2, <2>4, <2>5 DEF SchedRead
<1>2. ASSUME SchedPush(t) PROVE TypeInv'
  <2>1. [fiber |-> call[t].fiber, pin |-> call[t].pin] \in Entry
    BY <1>2 DEF SchedPush
  <2>2. queue' \in Seq(Entry)
    BY <1>2, <2>1, AppendProperties DEF SchedPush
  <2>3. CASE call[t].need
    BY <1>2, <2>2, <2>3 DEF SchedPush
  <2>4. CASE ~call[t].need
    <3>1. call' = [call EXCEPT ![t] = NoCall] /\ pc' = [pc EXCEPT ![t] = call[t].ret]
      BY <1>2, <2>4 DEF SchedPush, Return
    <3>2. NoCall \in CallRecord /\ call[t].ret \in PC
      BY DEF NoCall
    <3>3. call' \in [Threads -> CallRecord] /\ pc' \in [Threads -> PC]
      BY <3>1, <3>2
    <3>4. TaskOK'
      BY <1>2, <3>1, NoneIsNoFiber DEF SchedPush, NoCall
    <3>5. QED
      BY <1>2, <2>2, <3>3, <3>4 DEF SchedPush
  <2>5. QED
    BY <2>3, <2>4
<1>3. ASSUME SchedTickle(t) PROVE TypeInv'
  BY <1>3 DEF SchedTickle, Return, NoCall, Tickle
<1>4. QED
  BY <1>1, <1>2, <1>3 DEF ScheduleStep

\* run() keeps the types while it takes and puts back tasks.
LEMMA TypeTaskStep ==
  ASSUME TypeInv, NEW t \in Threads, TaskStep(t)
  PROVE  TypeInv'
<1> USE DEF TypeInv, TypeOK, FiberTypeOK, TaskOK, CallRecord, Entry, Goto, At,
            Scheduling, PC,
         RunPc, SchedPc, StopPc, FiberState, Finished, fiberVars, counters, locals, bounds
<1>1. ASSUME ScanTake(t) PROVE TypeInv'
  <2>1. PICK i \in 1..Len(queue) :
          /\ task' = [task EXCEPT ![t] = queue[i].fiber]
          /\ queue' = Without(queue, i)
          /\ tickleMe' = [tickleMe EXCEPT ![t] = \E j \in 1..(i - 1) : ~Mine(t, queue[j])]
    BY <1>1 DEF ScanTake
  <2>2. queue' \in Seq(Entry)
    BY <2>1, WithoutProperties
  <2>3. queue[i].fiber \in Fibers
    <3>1. queue[i] \in Entry
      BY ElementOfSeq
    <3>2. QED
      BY <3>1
  <2>4. tickleMe' \in [Threads -> BOOLEAN]
    BY <2>1
  <2>5. QED
    BY <1>1, <2>1, <2>2, <2>3, <2>4, NoneIsNoFiber DEF ScanTake
<1>2. ASSUME ScanNothing(t) PROVE TypeInv'
  BY <1>2 DEF ScanNothing
<1>3. ASSUME CountUp(t) PROVE TypeInv'
  BY <1>3, CounterModAssumption DEF CountUp
<1>4. ASSUME TickleMe(t) PROVE TypeInv'
  BY <1>4 DEF TickleMe, Tickle
<1>5. ASSUME Dispatch(t) PROVE TypeInv'
  BY <1>5 DEF Dispatch, SwapIn
<1>6. ASSUME DropFinished(t) PROVE TypeInv'
  BY <1>6 DEF DropFinished
<1>7. ASSUME SwapInFails(t) PROVE TypeInv'
  BY <1>7 DEF SwapInFails
<1>8. ASSUME CountDown(t) PROVE TypeInv'
  BY <1>8 DEF CountDown
<1>9. ASSUME StoreDown(t) PROVE TypeInv'
  BY <1>9, CounterModAssumption DEF StoreDown
<1>10. ASSUME Requeue(t) PROVE TypeInv'
  BY <1>10, NoneIsNoFiber DEF Requeue, CallSchedule
<1>11. ASSUME DropEnded(t) PROVE TypeInv'
  BY <1>11 DEF DropEnded
<1>12. ASSUME DecideHold(t) PROVE TypeInv'
  BY <1>12 DEF DecideHold
<1>13. ASSUME SetHold(t) PROVE TypeInv'
  BY <1>13 DEF SetHold, Publish
<1>14. QED
  BY <1>1, <1>2, <1>3, <1>4, <1>5, <1>6, <1>7, <1>8, <1>9, <1>10, <1>11, <1>12, <1>13 DEF TaskStep

\* A fiber keeps the types while it runs.
LEMMA TypeFiberStep ==
  ASSUME TypeInv, NEW t \in Threads, FiberStep(t)
  PROVE  TypeInv'
<1> USE DEF TypeInv, TypeOK, FiberTypeOK, TaskOK, CallRecord, Entry, Goto, At,
            Scheduling, PC,
         RunPc, SchedPc, StopPc, FiberState, Finished, fiberVars, counters, locals, bounds
<1>1. ASSUME NEW s \in Finished, Finish(t, s) PROVE TypeInv'
  BY <1>1 DEF Finish, Publish
<1>2. ASSUME YieldToReady(t) PROVE TypeInv'
  BY <1>2 DEF YieldToReady, Publish
<1>3. ASSUME Arm(t) PROVE TypeInv'
  BY <1>3, NoneIsNoFiber DEF Arm
<1>4. ASSUME YieldToHold(t) PROVE TypeInv'
  BY <1>4 DEF YieldToHold, Publish
<1>5. ASSUME AddEventFails(t) PROVE TypeInv'
  BY <1>5 DEF AddEventFails
<1>6. ASSUME NEW f \in Fibers, NEW pin \in Pinning, Spawn(t, f, pin) PROVE TypeInv'
  BY <1>6, NoneIsNoFiber, AnyIsNoThread DEF Spawn, CallSchedule, Pinning
<1>7. ASSUME LeaveFiber(t) PROVE TypeInv'
  BY <1>7 DEF LeaveFiber, SwapOut
<1>8. QED
  BY <1>1, <1>2, <1>3, <1>4, <1>5, <1>6, <1>7 DEF FiberStep

\* The idle fiber keeps the types.
LEMMA TypeIdleStep ==
  ASSUME TypeInv, NEW t \in Threads, IdleStep(t)
  PROVE  TypeInv'
<1> USE DEF TypeInv, TypeOK, FiberTypeOK, TaskOK, CallRecord, Entry, Goto, At,
            Scheduling, PC,
         RunPc, SchedPc, StopPc, FiberState, Finished, fiberVars, counters, locals, bounds
<1>1. ASSUME GoIdle(t) PROVE TypeInv'
  BY <1>1 DEF GoIdle
<1>2. ASSUME CheckPending(t) PROVE TypeInv'
  BY <1>2 DEF CheckPending
<1>3. ASSUME CheckTasks(t) PROVE TypeInv'
  BY <1>3 DEF CheckTasks
<1>4. ASSUME EpollReturn(t) PROVE TypeInv'
  BY <1>4 DEF EpollReturn
<1>5. ASSUME NEW f \in Fibers, Trigger(t, f) PROVE TypeInv'
  BY <1>5, NoneIsNoFiber DEF Trigger, CallSchedule
<1>6. ASSUME PendingDown(t) PROVE TypeInv'
  BY <1>6 DEF PendingDown
<1>7. ASSUME HandleDone(t) PROVE TypeInv'
  BY <1>7 DEF HandleDone
<1>8. ASSUME IdleDown(t) PROVE TypeInv'
  BY <1>8 DEF IdleDown
<1>9. ASSUME ExitRun(t) PROVE TypeInv'
  BY <1>9 DEF ExitRun
<1>10. QED
  BY <1>1, <1>2, <1>3, <1>4, <1>5, <1>6, <1>7, <1>8, <1>9 DEF IdleStep

\* stop() keeps the types.
LEMMA TypeStopStep ==
  ASSUME TypeInv, StopStep
  PROVE  TypeInv'
<1> USE DEF TypeInv, TypeOK, FiberTypeOK, TaskOK, CallRecord, Entry, Goto, At,
            Scheduling, PC,
         RunPc, SchedPc, StopPc, FiberState, Finished, fiberVars, counters, locals, bounds
<1>1. ASSUME StopTickle PROVE TypeInv'
  BY <1>1 DEF StopTickle, Tickle, Threads
<1>2. ASSUME StopFlag PROVE TypeInv'
  BY <1>2 DEF StopFlag
<1>3. ASSUME StopCheckPending PROVE TypeInv'
  BY <1>3 DEF StopCheckPending
<1>4. ASSUME StopCheckTasks PROVE TypeInv'
  BY <1>4 DEF StopCheckTasks
<1>5. ASSUME StopReturn PROVE TypeInv'
  BY <1>5 DEF StopReturn
<1>6. QED
  BY <1>1, <1>2, <1>3, <1>4, <1>5 DEF StopStep

\* Every step keeps the types.
LEMMA TypeStep == TypeInv /\ [Next]_vars => TypeInv'
<1> SUFFICES ASSUME TypeInv, [Next]_vars PROVE TypeInv'
  OBVIOUS
<1> USE DEF TypeInv, TypeOK, FiberTypeOK, TaskOK, CallRecord, Goto, At, Scheduling, PC,
         RunPc, SchedPc, StopPc, fiberVars, counters, locals, bounds
<1>1. ASSUME NEW t \in Threads, ThreadStep(t) PROVE TypeInv'
  BY <1>1, TypeScheduleStep, TypeTaskStep, TypeFiberStep, TypeIdleStep DEF ThreadStep
<1>2. ASSUME NEW f \in Fibers, NEW pin \in Pinning, Submit(f, pin) PROVE TypeInv'
  BY <1>2, NoneIsNoFiber, AnyIsNoThread DEF Submit, CallSchedule, Pinning, Threads
<1>3. ASSUME StopBegin PROVE TypeInv'
  BY <1>3 DEF StopBegin
<1>4. CASE UNCHANGED vars
  BY <1>4 DEF vars
<1>5. QED
  BY <1>1, <1>2, <1>3, <1>4, TypeStopStep DEF Next

\* The scheduler never leaves its types, whatever the threads interleave: the
\* unlocked counter stays a word, the list holds fibers, and schedule() always has
\* a fiber in hand.
THEOREM TypeCorrect == Spec => []TypeOK
<1>1. Init => TypeInv
  BY TypeInit
<1>2. TypeInv /\ [Next]_vars => TypeInv'
  BY TypeStep
<1>3. TypeInv => TypeOK
  BY DEF TypeInv
<1>4. QED
  BY <1>1, <1>2, <1>3, PTL DEF Spec

-----------------------------------------------------------------------------
(* The frames of schedule()                                                *)

\* Calling schedule() changes the frame and the place of its thread only.
LEMMA CallScheduleFrame ==
  ASSUME TypeInv, NEW t \in Threads, NEW f, NEW pin, NEW ret, CallSchedule(t, f, pin, ret)
  PROVE  /\ pc' = [pc EXCEPT ![t] = "sched_read"]
         /\ pc'[t] = "sched_read"
         /\ call'[t].fiber = f /\ call'[t].pin = pin /\ call'[t].ret = ret
         /\ \A u \in Threads \ {t} : call'[u] = call[u] /\ pc'[u] = pc[u]
  BY DEF TypeInv, TypeOK, CallSchedule, Goto

\* So does returning from it.
LEMMA ReturnFrame ==
  ASSUME TypeInv, NEW t \in Threads, Return(t)
  PROVE  /\ pc' = [pc EXCEPT ![t] = call[t].ret]
         /\ pc'[t] = call[t].ret
         /\ call'[t] = NoCall
         /\ \A u \in Threads \ {t} : call'[u] = call[u] /\ pc'[u] = pc[u]
  BY DEF TypeInv, TypeOK, Return, Goto

\* The first read of schedule() keeps the frame but for need_tickle.
LEMMA SchedReadFrame ==
  ASSUME TypeInv, NEW t \in Threads, SchedRead(t)
  PROVE  /\ pc[t] = "sched_read" /\ pc'[t] = "sched_push"
         /\ call'[t].fiber = call[t].fiber /\ call'[t].pin = call[t].pin
         /\ call'[t].ret = call[t].ret
         /\ \A u \in Threads \ {t} : call'[u] = call[u] /\ pc'[u] = pc[u]
  BY DEF TypeInv, TypeOK, SchedRead, Goto, At, CallRecord

-----------------------------------------------------------------------------
(* Control                                                                 *)

Place == NoTickle /\ NoEvents /\ Taskless /\ Phases

\* Returning from schedule() leads back to where a call is legal.
LEMMA ReturnPlace ==
  ASSUME Computing, ControlInv, NEW t \in Threads, pc[t] \in SchedPc, Return(t),
         UNCHANGED <<stopped, idleDone, armed, task, tickleMe>>
  PROVE  Place'
<1> USE DEF Place, ControlInv, TypeInv, TaskOK, NoTickle, NoEvents, Taskless, Phases,
            Threads, RunPc, SchedPc,
         StopPc
<1>1. /\ pc'[t] = call[t].ret
      /\ \A u \in Threads \ {t} : call'[u] = call[u] /\ pc'[u] = pc[u]
  BY ReturnFrame
<1>2. CASE call[t].ret = "app"
  BY <1>1, <1>2
<1>3. CASE call[t].ret = "running"
  BY <1>1, <1>3
<1>4. CASE call[t].ret = "scan"
  BY <1>1, <1>4
<1>5. QED
  BY <1>2, <1>3, <1>4

\* A call of schedule() from run() or from a fiber keeps control.
LEMMA CallPlace ==
  ASSUME ControlInv, NEW t \in Threads, pc[t] \in {"running", "post"},
         pc'[t] = "sched_read", call'[t].ret \in {"running", "scan"},
         call'[t].ret = "scan" => task'[t] = None,
         \A u \in Threads \ {t} : call'[u] = call[u] /\ pc'[u] = pc[u] /\ task'[u] = task[u],
         UNCHANGED <<stopped, idleDone, armed, tickleMe>>
  PROVE  Place'
<1> USE DEF Place, ControlInv, Threads, SchedPc, StopPc
<1>1. NoEvents'
  BY DEF NoEvents
<1>2. Taskless'
  BY DEF Taskless
<1>3. Phases'
  BY DEF Phases
<1>4. NoTickle'
  BY DEF NoTickle
<1>5. QED
  BY <1>1, <1>2, <1>3, <1>4

\* Putting a READY fiber back keeps control.
LEMMA PlaceRequeue ==
  ASSUME ControlInv, NEW t \in Threads, Requeue(t)
  PROVE  Place'
<1>1. /\ pc[t] = "post" /\ task'[t] = None /\ CallSchedule(t, task[t], AnyThread, "scan")
      /\ \A u \in Threads \ {t} : task'[u] = task[u]
      /\ UNCHANGED <<stopped, idleDone, armed, tickleMe>>
  BY DEF Requeue, At, ControlInv, TypeInv, TypeOK, counters
<1>2. /\ pc'[t] = "sched_read" /\ call'[t].ret = "scan"
      /\ \A u \in Threads \ {t} : call'[u] = call[u] /\ pc'[u] = pc[u]
  BY <1>1, CallScheduleFrame DEF ControlInv
<1>3. QED
  BY <1>1, <1>2, CallPlace

\* Scheduling another fiber from a fiber keeps control.
LEMMA PlaceSpawn ==
  ASSUME ControlInv, NEW t \in Threads, NEW f \in Fibers, NEW pin \in Pinning, Spawn(t, f, pin)
  PROVE  Place'
<1>1. /\ pc[t] = "running" /\ CallSchedule(t, f, pin, "running")
      /\ UNCHANGED <<stopped, idleDone, armed, task, tickleMe>>
  BY DEF Spawn, At, counters
<1>2. /\ pc'[t] = "sched_read" /\ call'[t].ret = "running"
      /\ \A u \in Threads \ {t} : call'[u] = call[u] /\ pc'[u] = pc[u]
  BY <1>1, CallScheduleFrame DEF ControlInv
<1>3. QED
  BY <1>1, <1>2, CallPlace

\* schedule() keeps control.
LEMMA PlaceScheduleStep ==
  ASSUME Computing, ControlInv, NEW t \in Threads, ScheduleStep(t)
  PROVE  Place'
<1> USE DEF Place, ControlInv, TypeInv, TypeOK, TaskOK, NoTickle, NoEvents, Taskless,
            Phases, Threads, Goto, At, Scheduling,
         PC, RunPc, SchedPc, StopPc, fiberVars, counters, locals, bounds
<1>1. ASSUME SchedRead(t) PROVE Place'
  BY <1>1, SchedReadFrame DEF SchedRead
<1>2. ASSUME SchedPush(t) PROVE Place'
  <2>1. CASE call[t].need
    BY <1>2, <2>1 DEF SchedPush
  <2>2. CASE ~call[t].need
    <3>1. Return(t)
      BY <1>2, <2>2 DEF SchedPush
    <3>2. QED
      BY <1>2, <3>1, ReturnPlace DEF SchedPush
  <2>3. QED
    BY <2>1, <2>2, CallPlace
<1>3. ASSUME SchedTickle(t) PROVE Place'
  BY <1>3, ReturnPlace DEF SchedTickle
<1>4. QED
  BY <1>1, <1>2, <1>3 DEF ScheduleStep

\* run() keeps control while it takes and puts back tasks.
LEMMA PlaceTaskStep ==
  ASSUME Computing, ControlInv, NEW t \in Threads, TaskStep(t)
  PROVE  Place'
<1> USE DEF Place, ControlInv, TypeInv, TypeOK, TaskOK, NoTickle, NoEvents, Taskless,
            Phases, Threads, Goto, At, Scheduling,
         PC, RunPc, SchedPc, StopPc, fiberVars, counters, locals, bounds
<1>1. ASSUME ScanTake(t) PROVE Place'
  <2>1. PICK i \in 1..Len(queue) :
          tickleMe' = [tickleMe EXCEPT ![t] = \E j \in 1..(i - 1) : ~Mine(t, queue[j])]
    BY <1>1 DEF ScanTake
  <2>2. \A j \in 1..(i - 1) : Mine(t, queue[j])
    <3>1. Len(queue) \in Nat
      BY LenProperties
    <3>2. QED
      BY <3>1 DEF NoPins, Mine
  <2>3. tickleMe' = tickleMe
    BY <2>1, <2>2
  <2>4. QED
    BY <1>1, <2>3 DEF ScanTake
<1>2. ASSUME ScanNothing(t) PROVE Place'
  <2>1. \A j \in 1..Len(queue) : Mine(t, queue[j])
    BY DEF NoPins, Mine
  <2>2. tickleMe' = tickleMe
    BY <1>2, <2>1 DEF ScanNothing
  <2>3. QED
    BY <1>2, <2>2 DEF ScanNothing
<1>3. ASSUME CountUp(t) PROVE Place'
  BY <1>3 DEF CountUp
<1>4. ASSUME TickleMe(t) PROVE Place'
  BY <1>4 DEF TickleMe
<1>5. ASSUME Dispatch(t) PROVE Place'
  BY <1>5 DEF Dispatch
<1>6. ASSUME DropFinished(t) PROVE Place'
  BY <1>6 DEF DropFinished
<1>7. ASSUME SwapInFails(t) PROVE Place'
  BY <1>7 DEF SwapInFails
<1>8. ASSUME CountDown(t) PROVE Place'
  BY <1>8 DEF CountDown
<1>9. ASSUME StoreDown(t) PROVE Place'
  BY <1>9 DEF StoreDown
<1>10. ASSUME Requeue(t) PROVE Place'
  BY <1>10, PlaceRequeue
<1>11. ASSUME DropEnded(t) PROVE Place'
  BY <1>11 DEF DropEnded
<1>12. ASSUME DecideHold(t) PROVE Place'
  BY <1>12 DEF DecideHold
<1>13. ASSUME SetHold(t) PROVE Place'
  BY <1>13 DEF SetHold
<1>14. QED
  BY <1>1, <1>2, <1>3, <1>4, <1>5, <1>6, <1>7, <1>8, <1>9, <1>10, <1>11, <1>12, <1>13 DEF TaskStep

\* A computing fiber keeps control.
LEMMA PlaceFiberStep ==
  ASSUME Computing, ControlInv, NEW t \in Threads, FiberStep(t)
  PROVE  Place'
<1> USE DEF Place, ControlInv, TypeInv, TypeOK, TaskOK, NoTickle, NoEvents, Taskless,
            Phases, Threads, Goto, At, Scheduling,
         PC, RunPc, SchedPc, StopPc, fiberVars, counters, locals, bounds
<1>1. ASSUME NEW s \in Finished, Finish(t, s) PROVE Place'
  BY <1>1 DEF Finish
<1>2. ASSUME YieldToReady(t) PROVE Place'
  BY <1>2 DEF YieldToReady
<1>3. ASSUME Arm(t) PROVE Place'
  BY <1>3 DEF Arm, Computing
<1>4. ASSUME YieldToHold(t) PROVE Place'
  BY <1>4 DEF YieldToHold
<1>5. ASSUME AddEventFails(t) PROVE Place'
  BY <1>5 DEF AddEventFails
<1>6. ASSUME NEW f \in Fibers, NEW pin \in Pinning, Spawn(t, f, pin) PROVE Place'
  BY <1>6, PlaceSpawn
<1>7. ASSUME LeaveFiber(t) PROVE Place'
  BY <1>7 DEF LeaveFiber
<1>8. QED
  BY <1>1, <1>2, <1>3, <1>4, <1>5, <1>6, <1>7 DEF FiberStep

\* The idle fiber keeps control: only a stopped scheduler lets it end.
LEMMA PlaceIdleStep ==
  ASSUME Computing, ControlInv, NEW t \in Threads, IdleStep(t)
  PROVE  Place'
<1> USE DEF Place, ControlInv, TypeInv, TypeOK, TaskOK, NoTickle, NoEvents, Taskless,
            Phases, Threads, Goto, At, Scheduling,
         PC, RunPc, SchedPc, StopPc, fiberVars, counters, locals, bounds
<1>1. ASSUME GoIdle(t) PROVE Place'
  BY <1>1 DEF GoIdle
<1>2. ASSUME CheckPending(t) PROVE Place'
  BY <1>2 DEF CheckPending
<1>3. ASSUME CheckTasks(t) PROVE Place'
  <2>1. CASE Completed
    BY <1>3, <2>1 DEF CheckTasks, Completed
  <2>2. CASE ~Completed
    BY <1>3, <2>2 DEF CheckTasks
  <2>3. QED
    BY <2>1, <2>2, CallPlace
<1>4. ASSUME EpollReturn(t) PROVE Place'
  BY <1>4 DEF EpollReturn
<1>5. ASSUME NEW f \in Fibers, Trigger(t, f) PROVE Place'
  BY <1>5 DEF Trigger
<1>6. ASSUME PendingDown(t) PROVE Place'
  BY <1>6 DEF PendingDown
<1>7. ASSUME HandleDone(t) PROVE Place'
  BY <1>7 DEF HandleDone
<1>8. ASSUME IdleDown(t) PROVE Place'
  BY <1>8 DEF IdleDown
<1>9. ASSUME ExitRun(t) PROVE Place'
  <2>1. CASE t = Caller
    BY <1>9, <2>1, CallerIsNoWorker DEF ExitRun
  <2>2. CASE t # Caller
    BY <1>9, <2>2, CallerIsNoWorker DEF ExitRun
  <2>3. QED
    BY <2>1, <2>2, CallPlace
<1>10. QED
  BY <1>1, <1>2, <1>3, <1>4, <1>5, <1>6, <1>7, <1>8, <1>9 DEF IdleStep

\* stop() keeps control.
LEMMA PlaceStopStep ==
  ASSUME Computing, ControlInv, StopStep
  PROVE  Place'
<1> USE DEF Place, ControlInv, TypeInv, TypeOK, TaskOK, NoTickle, NoEvents, Taskless,
            Phases, Threads, Goto, At, Scheduling,
         PC, RunPc, SchedPc, StopPc, fiberVars, counters, locals, bounds
<1>1. ASSUME StopTickle PROVE Place'
  BY <1>1 DEF StopTickle
<1>2. ASSUME StopFlag PROVE Place'
  BY <1>2 DEF StopFlag
<1>3. ASSUME StopCheckPending PROVE Place'
  BY <1>3 DEF StopCheckPending
<1>4. ASSUME StopCheckTasks PROVE Place'
  BY <1>4 DEF StopCheckTasks
<1>5. ASSUME StopReturn PROVE Place'
  BY <1>5 DEF StopReturn
<1>6. QED
  BY <1>1, <1>2, <1>3, <1>4, <1>5 DEF StopStep

\* Every step keeps control.
LEMMA PlaceStep == Computing /\ ControlInv /\ [Next]_vars => Place'
<1> SUFFICES ASSUME Computing, ControlInv, [Next]_vars PROVE Place'
  OBVIOUS
<1> USE DEF Place, ControlInv, TypeInv, TypeOK, TaskOK, NoTickle, NoEvents, Taskless,
            Phases, Threads, Goto, At, PC,
         RunPc, SchedPc, StopPc, counters, locals, bounds
<1>1. ASSUME NEW t \in Threads, ThreadStep(t) PROVE Place'
  BY <1>1, PlaceScheduleStep, PlaceTaskStep, PlaceFiberStep, PlaceIdleStep DEF ThreadStep
<1>2. ASSUME NEW f \in Fibers, NEW pin \in Pinning, Submit(f, pin) PROVE Place'
  <2>1. /\ pc[Caller] = "app" /\ CallSchedule(Caller, f, pin, "app")
        /\ UNCHANGED <<stopped, idleDone, armed, task, tickleMe>>
    BY <1>2 DEF Submit
  <2>2. /\ pc'[Caller] = "sched_read" /\ call'[Caller].ret = "app"
        /\ \A u \in Threads \ {Caller} : call'[u] = call[u] /\ pc'[u] = pc[u]
    BY <2>1, CallScheduleFrame
  <2>3. NoTickle' /\ NoEvents' /\ Taskless'
    BY <2>1, <2>2
  <2>4. Phases'
    BY <2>1, <2>2
  <2>5. QED
    BY <2>3, <2>4
<1>3. ASSUME StopBegin PROVE Place'
  BY <1>3 DEF StopBegin
<1>4. CASE UNCHANGED vars
  BY <1>4 DEF vars
<1>5. QED
  BY <1>1, <1>2, <1>3, <1>4, PlaceStopStep DEF Next

-----------------------------------------------------------------------------
(* What changes the list and the frames of schedule()                      *)

\* Only two steps change the list.
ListChanges ==
  UNCHANGED queue \/ \E t \in Threads : SchedPush(t) \/ ScanTake(t)

\* Of all steps only push_back of schedule() and erase of run() change the list.
LEMMA ListStep == [Next]_vars => ListChanges
<1> SUFFICES ASSUME [Next]_vars PROVE ListChanges
  OBVIOUS
<1>1. ASSUME NEW t \in Threads, ScheduleStep(t) PROVE ListChanges
  BY <1>1 DEF ListChanges, ScheduleStep, SchedRead, SchedTickle
<1>2. ASSUME NEW t \in Threads, TaskStep(t) PROVE ListChanges
  BY <1>2 DEF ListChanges, TaskStep, ScanNothing, CountUp, TickleMe, Dispatch, DropFinished,
         SwapInFails, CountDown, StoreDown, Requeue, DropEnded, DecideHold, SetHold
<1>3. ASSUME NEW t \in Threads, FiberStep(t) PROVE ListChanges
  BY <1>3 DEF ListChanges, FiberStep, Finish, YieldToReady, Arm, YieldToHold, AddEventFails, Spawn,
         LeaveFiber
<1>4. ASSUME NEW t \in Threads, IdleStep(t) PROVE ListChanges
  BY <1>4 DEF ListChanges, IdleStep, GoIdle, CheckPending, CheckTasks, EpollReturn, Trigger,
         PendingDown, HandleDone, IdleDown, ExitRun
<1>5. ASSUME StopStep PROVE ListChanges
  BY <1>5 DEF ListChanges, StopStep, StopTickle, StopFlag, StopCheckPending, StopCheckTasks,
         StopReturn
<1>6. ASSUME NEW f \in Fibers, NEW pin \in Pinning, Submit(f, pin) PROVE ListChanges
  BY <1>6 DEF ListChanges, Submit, Threads
<1>7. CASE StopBegin \/ UNCHANGED vars
  BY <1>7 DEF ListChanges, StopBegin, vars
<1>8. QED
  BY <1>1, <1>2, <1>3, <1>4, <1>5, <1>6, <1>7 DEF Next, ThreadStep

\* Frames are pushed by calls and changed by schedule() itself.
FrameChanges ==
  \/ UNCHANGED call
  \/ \E t \in Threads :
       \/ SchedRead(t) \/ Return(t) \/ Requeue(t)
       \/ \E f \in Fibers : Trigger(t, f)
       \/ \E f \in Fibers, pin \in Pinning : Spawn(t, f, pin)
  \/ \E f \in Fibers, pin \in Pinning : Submit(f, pin)

\* Of all steps only calls of schedule() and its own steps change its frames.
LEMMA FrameStep == [Next]_vars => FrameChanges
<1> SUFFICES ASSUME [Next]_vars PROVE FrameChanges
  OBVIOUS
<1>1. ASSUME NEW t \in Threads, ScheduleStep(t) PROVE FrameChanges
  BY <1>1 DEF FrameChanges, ScheduleStep, SchedPush, SchedTickle, locals
<1>2. ASSUME NEW t \in Threads, TaskStep(t) PROVE FrameChanges
  BY <1>2 DEF FrameChanges, TaskStep, ScanTake, ScanNothing, CountUp, TickleMe, Dispatch,
         DropFinished, SwapInFails, CountDown, StoreDown, DropEnded, DecideHold,
         SetHold, locals
<1>3. ASSUME NEW t \in Threads, FiberStep(t) PROVE FrameChanges
  BY <1>3 DEF FrameChanges, FiberStep, Finish, YieldToReady, Arm, YieldToHold, AddEventFails,
         LeaveFiber, locals
<1>4. ASSUME NEW t \in Threads, IdleStep(t) PROVE FrameChanges
  BY <1>4 DEF FrameChanges, IdleStep, GoIdle, CheckPending, CheckTasks, EpollReturn, PendingDown,
         HandleDone, IdleDown, ExitRun, locals
<1>5. ASSUME StopStep PROVE FrameChanges
  BY <1>5 DEF FrameChanges, StopStep, StopTickle, StopFlag, StopCheckPending, StopCheckTasks,
         StopReturn, locals
<1>6. ASSUME NEW f \in Fibers, NEW pin \in Pinning, Submit(f, pin) PROVE FrameChanges
  BY <1>6 DEF FrameChanges, Threads, locals
<1>7. CASE StopBegin \/ UNCHANGED vars
  BY <1>7 DEF FrameChanges, StopBegin, vars, locals
<1>8. QED
  BY <1>1, <1>2, <1>3, <1>4, <1>5, <1>6, <1>7 DEF Next, ThreadStep

\* No step pins a task when nobody asks for it.
LEMMA NoPinsStep == Computing /\ ControlInv /\ [Next]_vars => NoPins'
<1> SUFFICES ASSUME Computing, ControlInv, [Next]_vars PROVE NoPins'
  OBVIOUS
<1>1. \A i \in 1..Len(queue') : queue'[i].pin = AnyThread
  <2>1. queue \in Seq(Entry) /\ (\A i \in 1..Len(queue) : queue[i].pin = AnyThread)
    BY DEF ControlInv, TypeInv, TypeOK, NoPins
  <2>2. ASSUME NEW t \in Threads, SchedPush(t) PROVE <1>1!:
    <3>1. call[t] \in CallRecord /\ call[t].fiber \in Fibers /\ call[t].pin = AnyThread
      BY <2>2 DEF ControlInv, TypeInv, TypeOK, TaskOK, NoPins, SchedPush, Scheduling, At, CallRecord
    <3>2. [fiber |-> call[t].fiber, pin |-> call[t].pin] \in Entry
      BY <3>1 DEF Entry
    <3>3. QED
      BY <2>1, <2>2, <3>1, <3>2, AppendProperties DEF SchedPush
  <2>3. ASSUME NEW t \in Threads, ScanTake(t) PROVE <1>1!:
    <3>1. PICK i \in 1..Len(queue) : queue' = Without(queue, i)
      BY <2>3 DEF ScanTake
    <3>2. ASSUME NEW j \in 1..Len(queue') PROVE queue'[j].pin = AnyThread
      <4>1. queue \in Seq(Entry)
        BY <2>1
      <4>2. \A m \in 1..Len(Without(queue, i)) :
              \E k \in 1..Len(queue) \ {i} : Without(queue, i)[m] = queue[k]
        BY <4>1, WithoutEntries
      <4>3. \E k \in 1..Len(queue) \ {i} : queue'[j] = queue[k]
        BY <3>1, <4>2
      <4>4. QED
        BY <2>1, <4>3
    <3>3. QED
      BY <3>2
  <2>4. QED
    BY <2>1, <2>2, <2>3, ListStep DEF ListChanges
<1>2. \A t \in Threads : call'[t].pin = AnyThread
  <2>1. TypeInv /\ (\A t \in Threads : call[t].pin = AnyThread) /\ Pinning = {AnyThread}
    BY DEF ControlInv, NoPins, Computing, Pinning
  <2>2. ASSUME NEW t \in Threads, NEW f, NEW pin \in Pinning, NEW ret,
               CallSchedule(t, f, pin, ret)
        PROVE  \A u \in Threads : call'[u].pin = AnyThread
    BY <2>1, <2>2, CallScheduleFrame
  <2>3. ASSUME NEW t \in Threads, SchedRead(t)
        PROVE  \A u \in Threads : call'[u].pin = AnyThread
    BY <2>1, <2>3, SchedReadFrame
  <2>4. ASSUME NEW t \in Threads, Return(t)
        PROVE  \A u \in Threads : call'[u].pin = AnyThread
    BY <2>1, <2>4, ReturnFrame DEF NoCall
  <2>5. QED
    BY <2>1, <2>2, <2>3, <2>4, FrameStep
       DEF FrameChanges, Requeue, Trigger, Spawn, Submit, Pinning, Threads
<1>3. QED
  BY <1>1, <1>2 DEF NoPins

\* Control is inductive when the tasks compute.
LEMMA ControlStep == Computing /\ ControlInv /\ [Next]_vars => ControlInv'
  BY PlaceStep, NoPinsStep, TypeStep DEF ControlInv, Place

\* Control holds when the threads start.
LEMMA ControlInit == Computing /\ Init => ControlInv
<1> SUFFICES ASSUME Computing, Init PROVE ControlInv
  OBVIOUS
<1>1. TypeInv
  BY TypeInit
<1>2. NoPins
  BY EmptySeq DEF Init, NoPins, NoCall
<1>3. NoTickle /\ NoEvents /\ Taskless
  BY DEF Init, NoTickle, NoEvents, Taskless, SchedPc, StopPc
<1>4. Phases
  BY CallerIsNoWorker DEF Init, Phases, Threads, SchedPc, StopPc
<1>5. QED
  BY <1>1, <1>2, <1>3, <1>4 DEF ControlInv

-----------------------------------------------------------------------------
(* The count of pending events                                             *)

\* The threads are finitely many, so those in a trigger are.
LEMMA TriggeringFinite == IsFiniteSet(Triggering) /\ Cardinality(Triggering) \in Nat
<1>1. IsFiniteSet(Threads)
  BY BoundsAssumption, FS_AddElement DEF Threads
<1>2. Triggering \in SUBSET Threads
  BY DEF Triggering
<1>3. QED
  BY <1>1, <1>2, FS_Subset, FS_CardinalityType

\* A step that registers nothing and in which no thread enters or leaves a trigger.
LEMMA PendingUntouched ==
  ASSUME PendingInv, UNCHANGED <<armed, pending>>,
         \A u \in Threads : InTrigger(u)' <=> InTrigger(u)
  PROVE  PendingInv'
<1>1. Triggering' = Triggering
  BY DEF Triggering
<1>2. QED
  BY <1>1 DEF PendingInv

\* addEvent() registers an event and counts it.
LEMMA PendingArm ==
  ASSUME TypeInv, PendingInv, NEW t \in Threads, Arm(t)
  PROVE  PendingInv'
<1>1. /\ task[t] \notin armed /\ armed' = armed \cup {task[t]} /\ pending' = pending + 1
      /\ IsFiniteSet(armed)
  BY DEF Arm, PendingInv
<1>2. IsFiniteSet(armed') /\ Cardinality(armed') = Cardinality(armed) + 1
  BY <1>1, FS_AddElement
<1>3. \A u \in Threads : InTrigger(u)' <=> InTrigger(u)
  BY DEF TypeInv, TypeOK, Arm, InTrigger, At, Goto, SchedPc, locals
<1>4. Cardinality(armed) \in Nat /\ Cardinality(Triggering) \in Nat
  BY <1>1, TriggeringFinite, FS_CardinalityType
<1>5. Triggering' = Triggering
  BY <1>3 DEF Triggering
<1>6. pending = Cardinality(armed) + Cardinality(Triggering)
  BY DEF PendingInv
<1>7. QED
  BY <1>1, <1>2, <1>4, <1>5, <1>6 DEF PendingInv

\* An event that is triggered is on its way out until it is counted down.
LEMMA PendingTrigger ==
  ASSUME TypeInv, PendingInv, NEW t \in Threads, NEW f \in Fibers, Trigger(t, f)
  PROVE  PendingInv'
<1>1. /\ f \in armed /\ armed' = armed \ {f} /\ pending' = pending /\ IsFiniteSet(armed)
      /\ call' = [call EXCEPT ![t] = [fiber |-> f, pin |-> AnyThread, need |-> FALSE,
                                      ret |-> "pending_down"]]
      /\ pc[t] = "handle" /\ pc' = [pc EXCEPT ![t] = "sched_read"]
  BY DEF Trigger, CallSchedule, PendingInv, At, Goto, counters
<1>2. IsFiniteSet(armed') /\ Cardinality(armed') = Cardinality(armed) - 1
  BY <1>1, FS_RemoveElement
<1>3. /\ InTrigger(t)' /\ ~InTrigger(t)
      /\ \A u \in Threads \ {t} : InTrigger(u)' <=> InTrigger(u)
  BY <1>1 DEF TypeInv, TypeOK, InTrigger, SchedPc
<1>4. Triggering' = Triggering \cup {t} /\ t \notin Triggering
  BY <1>3 DEF Triggering
<1>5. Cardinality(Triggering') = Cardinality(Triggering) + 1
  BY <1>4, TriggeringFinite, FS_AddElement
<1>6. Cardinality(armed) \in Nat /\ Cardinality(Triggering) \in Nat
  BY <1>1, TriggeringFinite, FS_CardinalityType
<1>7. QED
  BY <1>1, <1>2, <1>5, <1>6 DEF PendingInv

LEMMA PendingCountedDown ==
  ASSUME TypeInv, PendingInv, NEW t \in Threads, PendingDown(t)
  PROVE  PendingInv'
<1>1. /\ UNCHANGED <<armed, call>> /\ pending' = pending - 1 /\ IsFiniteSet(armed)
      /\ pc[t] = "pending_down" /\ pc' = [pc EXCEPT ![t] = "handle"]
  BY DEF PendingDown, PendingInv, At, Goto, locals
<1>2. /\ InTrigger(t) /\ ~InTrigger(t)'
      /\ \A u \in Threads \ {t} : InTrigger(u)' <=> InTrigger(u)
  BY <1>1 DEF TypeInv, TypeOK, InTrigger, SchedPc
<1>3. Triggering' = Triggering \ {t} /\ t \in Triggering
  BY <1>2 DEF Triggering
<1>4. Cardinality(Triggering') = Cardinality(Triggering) - 1
  BY <1>3, TriggeringFinite, FS_RemoveElement
<1>5. Cardinality(armed) \in Nat /\ Cardinality(Triggering) \in Nat
  BY <1>1, TriggeringFinite, FS_CardinalityType
<1>6. QED
  BY <1>1, <1>4, <1>5 DEF PendingInv

\* schedule() goes back to where it was called: a trigger in it stays one.
LEMMA PendingScheduleStep ==
  ASSUME TypeInv, PendingInv, NEW t \in Threads, ScheduleStep(t)
  PROVE  PendingInv'
<1>1. UNCHANGED <<armed, pending>> /\ \A u \in Threads \ {t} : InTrigger(u)' <=> InTrigger(u)
  BY DEF TypeInv, TypeOK, ScheduleStep, SchedRead, SchedPush, SchedTickle, Return, Goto, InTrigger,
     counters
<1>2. /\ pc[t] \in SchedPc /\ pc \in [Threads -> PC] /\ call \in [Threads -> CallRecord]
      /\ call[t].ret \notin SchedPc
  BY DEF TypeInv, TypeOK, TaskOK, ScheduleStep, SchedRead, SchedPush, SchedTickle, At, SchedPc
<1>3. \/ pc'[t] \in SchedPc /\ call'[t].ret = call[t].ret
      \/ pc'[t] = call[t].ret
  BY <1>2 DEF ScheduleStep, SchedRead, SchedPush, SchedTickle, Return, Goto, At, SchedPc, CallRecord
<1>4. InTrigger(t)' <=> InTrigger(t)
  BY <1>2, <1>3 DEF InTrigger, SchedPc
<1>5. \A u \in Threads : InTrigger(u)' <=> InTrigger(u)
  BY <1>1, <1>4
<1>6. QED
  BY <1>1, <1>5, PendingUntouched

\* No other step of a thread has to do with events.
LEMMA PendingThreadStep ==
  ASSUME TypeInv, PendingInv, NEW t \in Threads, ThreadStep(t)
  PROVE  PendingInv'
<1> DEFINE Untouched == UNCHANGED <<armed, pending>> /\ \A u \in Threads : InTrigger(u)' <=> InTrigger(u)
<1>0. pc \in [Threads -> PC] /\ call \in [Threads -> CallRecord]
  BY DEF TypeInv, TypeOK
<1> USE DEF At, Goto, InTrigger, SchedPc, counters, locals, bounds
<1>1. ASSUME TaskStep(t) PROVE Untouched
  <2>1. ASSUME Requeue(t) PROVE Untouched
    BY <1>0, <2>1 DEF Requeue, CallSchedule
  <2>2. ASSUME ScanTake(t) PROVE Untouched
    BY <1>0, <2>2 DEF ScanTake
  <2>3. ASSUME ~Requeue(t), ~ScanTake(t) PROVE Untouched
    BY <1>0, <1>1, <2>3 DEF TaskStep, ScanNothing, CountUp, TickleMe, Dispatch, DropFinished, SwapInFails,
       CountDown, StoreDown, DropEnded, DecideHold, SetHold
  <2>4. QED
    BY <1>1, <2>1, <2>2, <2>3
<1>2. ASSUME FiberStep(t), ~Arm(t) PROVE Untouched
  <2>1. ASSUME NEW f \in Fibers, NEW pin \in Pinning, Spawn(t, f, pin) PROVE Untouched
    BY <1>0, <2>1 DEF Spawn, CallSchedule
  <2>2. ASSUME NEW s \in Finished, Finish(t, s) PROVE Untouched
    BY <1>0, <2>2 DEF Finish
  <2>3. ASSUME YieldToReady(t) \/ YieldToHold(t) \/ AddEventFails(t) \/ LeaveFiber(t) PROVE Untouched
    BY <1>0, <2>3 DEF YieldToReady, YieldToHold, AddEventFails, LeaveFiber
  <2>4. QED
    BY <1>2, <2>1, <2>2, <2>3 DEF FiberStep
<1>3. ASSUME IdleStep(t), ~PendingDown(t), \A f \in Fibers : ~Trigger(t, f) PROVE Untouched
  BY <1>0, <1>3 DEF IdleStep, GoIdle, CheckPending, CheckTasks, EpollReturn, HandleDone, IdleDown, ExitRun
<1> HIDE DEF At, Goto, InTrigger, SchedPc, counters, locals, bounds
<1>4. Untouched => PendingInv'
  BY PendingUntouched
<1> HIDE DEF Untouched
<1>5. QED
  BY <1>1, <1>2, <1>3, <1>4, PendingArm, PendingTrigger, PendingCountedDown, PendingScheduleStep
     DEF ThreadStep

\* Every step keeps the count.
LEMMA PendingStep == TypeInv /\ PendingInv /\ [Next]_vars => PendingInv'
<1> SUFFICES ASSUME TypeInv, PendingInv, [Next]_vars PROVE PendingInv'
  OBVIOUS
<1> DEFINE Untouched == UNCHANGED <<armed, pending>> /\ \A u \in Threads : InTrigger(u)' <=> InTrigger(u)
<1>0. pc \in [Threads -> PC] /\ call \in [Threads -> CallRecord] /\ Caller \in Threads
  BY DEF TypeInv, TypeOK, Threads
<1> USE DEF At, Goto, InTrigger, SchedPc, counters, locals, bounds
<1>1. ASSUME NEW f \in Fibers, NEW pin \in Pinning, Submit(f, pin) PROVE Untouched
  BY <1>0, <1>1 DEF Submit, CallSchedule
<1>2. ASSUME StopBegin \/ StopStep PROVE Untouched
  BY <1>0, <1>2 DEF StopBegin, StopStep, StopTickle, StopFlag, StopCheckPending, StopCheckTasks,
     StopReturn
<1>3. ASSUME UNCHANGED vars PROVE Untouched
  BY <1>3 DEF vars
<1> HIDE DEF At, Goto, InTrigger, SchedPc, counters, locals, bounds
<1>4. Untouched => PendingInv'
  BY PendingUntouched
<1> HIDE DEF Untouched
<1>5. QED
  BY <1>1, <1>2, <1>3, <1>4, PendingThreadStep DEF Next

LEMMA PendingInit == Init => PendingInv
<1> SUFFICES ASSUME Init PROVE PendingInv
  OBVIOUS
<1>1. \A t \in Threads : ~InTrigger(t)
  BY DEF Init, InTrigger, SchedPc
<1>2. Triggering = {} /\ armed = {} /\ pending = 0
  BY <1>1 DEF Init, Triggering
<1>3. QED
  BY <1>2, FS_EmptySet DEF PendingInv

\* m_pending_event_count covers every registered event, for any threads, fibers, pins
\* and interleavings: a thread that finds it zero knows that no fiber waits.
THEOREM PendingAlwaysCovers == Spec => []PendingCovers
<1>1. PendingInv => PendingCovers
  <2> SUFFICES ASSUME PendingInv PROVE PendingCovers
    OBVIOUS
  <2>1. Cardinality(armed) \in Nat /\ Cardinality(Triggering) \in Nat
    BY TriggeringFinite, FS_CardinalityType DEF PendingInv
  <2>2. QED
    BY <2>1 DEF PendingInv, PendingCovers
<1>2. QED
  BY <1>1, TypeInit, TypeStep, PendingInit, PendingStep, PTL DEF Spec

-----------------------------------------------------------------------------
(* The tasks of the other threads                                          *)

\* Where each task of a list stands when the one at position i is erased.
Shifted(i, k) == IF k < i THEN k ELSE k - 1

\* A task at the end of the list, or none, leaves the others where they are.
LEMMA AppendedStay ==
  ASSUME TypeOK, NEW t \in Threads,
         UNCHANGED queue \/ \E entry \in Entry : queue' = Append(queue, entry)
  PROVE  TasksStay(t, {})
<1> DEFINE before == PinnedTo(queue, t)
           after == PinnedTo(queue', t)
           place == [k \in before \ {} |-> k]
<1>1. queue \in Seq(Entry) /\ Len(queue) \in Nat
  BY LenProperties DEF TypeOK
<1>2. /\ Len(queue') \in Nat /\ Len(queue) <= Len(queue')
      /\ \A k \in 1..Len(queue) : queue'[k] = queue[k]
  <2>1. CASE UNCHANGED queue
    BY <1>1, <2>1
  <2>2. ASSUME NEW entry \in Entry, queue' = Append(queue, entry)
        PROVE  /\ Len(queue') = Len(queue) + 1
               /\ \A k \in 1..Len(queue) : queue'[k] = queue[k]
    BY <1>1, <2>2, AppendProperties
  <2>3. QED
    BY <1>1, <2>1, <2>2
<1>3. \A k \in before : k \in 1..Len(queue) /\ k \in after /\ queue'[k] = queue[k]
  BY <1>1, <1>2 DEF PinnedTo
<1>4. \A k \in after : k \in 1..Len(queue') /\ (k \in 1..Len(queue) => k \in before)
  BY <1>1, <1>2 DEF PinnedTo
<1> HIDE DEF before, after
<1>5. place \in [before \ {} -> after] /\ DOMAIN place = before /\ \A k \in before : place[k] = k
  BY <1>3
<1> HIDE DEF place
<1>6. \A j, k \in DOMAIN place : j < k => place[j] < place[k]
  BY <1>5
<1>7. ASSUME NEW j \in DOMAIN place, NEW k \in after, \A h \in DOMAIN place : place[h] # k
      PROVE  place[j] < k
  <2>1. k \notin before
    BY <1>5, <1>7
  <2>2. QED
    BY <1>1, <1>2, <1>3, <1>4, <1>5, <2>1
<1>8. QED
  BY <1>3, <1>5, <1>6, <1>7 DEF TasksStay, before, after

\* Erasing a task leaves the others in their order.
LEMMA ErasedStay ==
  ASSUME TypeOK, NEW t \in Threads, NEW i \in 1..Len(queue), queue' = Without(queue, i),
         NEW taken, PinnedTo(queue, t) \ taken = PinnedTo(queue, t) \ {i}
  PROVE  TasksStay(t, taken)
<1> DEFINE before == PinnedTo(queue, t) \ taken
           after == PinnedTo(queue', t)
           place == [k \in before |-> Shifted(i, k)]
<1>1. queue \in Seq(Entry) /\ Len(queue) \in Nat
  BY LenProperties DEF TypeOK
<1>2. /\ Len(queue') = Len(queue) - 1
      /\ \A j \in 1..(Len(queue) - 1) : queue'[j] = IF j < i THEN queue[j] ELSE queue[j + 1]
  BY <1>1, WithoutProperties
<1>3. ASSUME NEW k \in before
      PROVE  k \in 1..Len(queue) /\ Shifted(i, k) \in after /\ queue'[Shifted(i, k)] = queue[k]
  <2>1. k \in 1..Len(queue) /\ k # i /\ queue[k].pin = t
    BY DEF PinnedTo
  <2>2. Shifted(i, k) \in 1..Len(queue') /\ queue'[Shifted(i, k)] = queue[k]
    <3>1. CASE k < i
      BY <1>1, <1>2, <2>1, <3>1 DEF Shifted
    <3>2. CASE ~(k < i)
      <4>1. k - 1 \in 1..(Len(queue) - 1) /\ ~(k - 1 < i) /\ (k - 1) + 1 = k
        BY <1>1, <2>1, <3>2
      <4>2. QED
        BY <1>2, <3>2, <4>1 DEF Shifted
    <3>3. QED
      BY <3>1, <3>2
  <2>3. QED
    BY <2>1, <2>2 DEF PinnedTo
<1>4. ASSUME NEW k \in after
      PROVE  \E j \in before : k = Shifted(i, j)
  <2>1. k \in 1..(Len(queue) - 1) /\ queue'[k].pin = t
    BY <1>2 DEF PinnedTo
  <2>2. CASE k < i
    <3>1. k \in 1..Len(queue) /\ k # i /\ queue[k].pin = t
      BY <1>1, <1>2, <2>1, <2>2
    <3>2. QED
      BY <2>2, <3>1 DEF PinnedTo, Shifted
  <2>3. CASE ~(k < i)
    <3>1. /\ k + 1 \in 1..Len(queue) /\ k + 1 # i /\ queue[k + 1].pin = t
          /\ ~(k + 1 < i) /\ k = (k + 1) - 1
      BY <1>1, <1>2, <2>1, <2>3
    <3>2. k + 1 \in before
      BY <3>1 DEF PinnedTo
    <3>3. QED
      BY <3>1, <3>2 DEF Shifted
  <2>4. QED
    BY <2>2, <2>3
<1>5. ASSUME NEW j \in before, NEW k \in before, j < k
      PROVE  Shifted(i, j) < Shifted(i, k)
  <2>1. j \in 1..Len(queue) /\ k \in 1..Len(queue) /\ j # i
    BY <1>3 DEF PinnedTo
  <2>2. QED
    BY <1>1, <1>5, <2>1 DEF Shifted
<1> HIDE DEF before, after
<1>6. place \in [before -> after] /\ DOMAIN place = before
  BY <1>3
<1>7. \A k \in before : place[k] = Shifted(i, k)
  OBVIOUS
<1> HIDE DEF place
<1>8. \A k \in after : \E j \in DOMAIN place : place[j] = k
  BY <1>4, <1>6, <1>7
<1>9. /\ \A k \in DOMAIN place : queue'[place[k]] = queue[k]
      /\ \A j, k \in DOMAIN place : j < k => place[j] < place[k]
  BY <1>3, <1>5, <1>6, <1>7
<1>10. QED
  BY <1>6, <1>8, <1>9 DEF TasksStay, before, after

\* No thread disturbs the tasks that are for another one: they leave the list one at a
\* time, by the thread they are for, for any threads, tasks and pins.
THEOREM TasksOfOthersStay == Spec => OthersTasksStay
<1> DEFINE Stays(t) ==
      \/ TasksStay(t, {})
      \/ /\ At(t, "scan") /\ pc'[t] = "count_up"
         /\ \E i \in PinnedTo(queue, t) : task'[t] = queue[i].fiber /\ TasksStay(t, {i})
<1>1. ASSUME TypeInv, [Next]_vars, NEW t \in Threads PROVE Stays(t)
  <2>1. TypeOK
    BY <1>1 DEF TypeInv
  <2>2. CASE UNCHANGED queue
    BY <2>1, <2>2, AppendedStay
  <2>3. ASSUME NEW u \in Threads, SchedPush(u) PROVE Stays(t)
    <3>1. [fiber |-> call[u].fiber, pin |-> call[u].pin] \in Entry
      <4>1. call[u] \in CallRecord /\ call[u].fiber # None
        BY <1>1, <2>3 DEF SchedPush, TypeInv, TypeOK, TaskOK, At, Scheduling
      <4>2. QED
        BY <4>1 DEF CallRecord, Entry
    <3>2. QED
      BY <2>1, <2>3, <3>1, AppendedStay DEF SchedPush
  <2>4. ASSUME NEW u \in Threads, ScanTake(u) PROVE Stays(t)
    <3>1. PICK i \in 1..Len(queue) :
            /\ Takeable(u, i) /\ queue' = Without(queue, i)
            /\ task' = [task EXCEPT ![u] = queue[i].fiber]
      BY <2>4 DEF ScanTake
    <3>2. CASE queue[i].pin # t
      <4>1. PinnedTo(queue, t) \ {} = PinnedTo(queue, t) \ {i}
        BY <3>2 DEF PinnedTo
      <4>2. QED
        BY <2>1, <3>1, <4>1, ErasedStay
    <3>3. CASE queue[i].pin = t
      <4>1. u = t
        BY <3>1, <3>3, AnyIsNoThread DEF Takeable, Mine
      <4>2. i \in PinnedTo(queue, t) /\ TasksStay(t, {i})
        <5>1. PinnedTo(queue, t) \ {i} = PinnedTo(queue, t) \ {i}
          OBVIOUS
        <5>2. QED
          BY <2>1, <3>1, <3>3, <5>1, ErasedStay DEF PinnedTo
      <4>3. At(t, "scan") /\ pc'[t] = "count_up" /\ task'[t] = queue[i].fiber
        BY <2>1, <2>4, <3>1, <4>1 DEF ScanTake, Goto, TypeOK
      <4>4. QED
        BY <4>2, <4>3
    <3>4. QED
      BY <3>2, <3>3
  <2>5. QED
    BY <1>1, <2>2, <2>3, <2>4, ListStep DEF ListChanges
<1>2. TypeInv /\ [Next]_vars => \A t \in Threads : Stays(t)
  BY <1>1
<1>3. QED
  BY <1>2, TypeInit, TypeStep, PTL DEF Spec, OthersTasksStay

-----------------------------------------------------------------------------
(* Custody                                                                 *)

\* A step of t touches the state of its own fiber only: the others still fit.
LEMMA OthersFit ==
  ASSUME TypeInv, OneOwner, StateFits, NEW t \in Threads, NEW u \in Threads \ {t},
         pc'[u] = pc[u], call'[u] = call[u], task'[u] = task[u],
         \A f \in Fibers \ {task[t]} : state'[f] = state[f] /\ saved'[f] = saved[f]
  PROVE  Fits(u)'
<1>1. ASSUME NEW f \in Fibers, Owns(u, f)
      PROVE  state'[f] = state[f] /\ saved'[f] = saved[f]
  BY <1>1 DEF OneOwner, Owns
<1>2. Scheduling(u) => call[u].fiber \in Fibers /\ Owns(u, call[u].fiber)
  BY DEF TypeInv, TypeOK, TaskOK, CallRecord, Owns
<1>3. task[u] # None => task[u] \in Fibers /\ Owns(u, task[u])
  BY DEF TypeInv, TypeOK, Owns
<1>4. /\ Scheduling(u)' <=> Scheduling(u)
      /\ Scheduling(u) => (Runnable(call[u].fiber)' <=> Runnable(call[u].fiber))
      /\ task[u] # None =>
           state'[task[u]] = state[task[u]] /\ saved'[task[u]] = saved[task[u]]
  BY <1>1, <1>2, <1>3 DEF Scheduling, Runnable
<1>5. /\ pc[u] \in {"running", "swap_out"} => task[u] # None
      /\ pc[u] \in SchedPc /\ call[u].ret = "running" => task[u] # None
  BY DEF TypeInv, TaskOK
<1>6. Fits(u)
  BY DEF StateFits
<1>7. QED
  BY <1>4, <1>5, <1>6 DEF Fits, Runnable

\* A step that moves no fiber.
LEMMA SameOwners ==
  ASSUME ControlInv, CustodyInv, NEW t \in Threads,
         UNCHANGED <<queue, task, submits, armed>>,
         \A u \in Threads \ {t} : pc'[u] = pc[u] /\ call'[u] = call[u],
         Scheduling(t)' <=> Scheduling(t),
         Scheduling(t) => call'[t].fiber = call[t].fiber,
         \A f \in Fibers \ {task[t]} : state'[f] = state[f] /\ saved'[f] = saved[f],
         Fits(t)'
  PROVE  CustodyInv'
<1>1. \A u \in Threads : (Scheduling(u)' <=> Scheduling(u))
                      /\ (Scheduling(u) => call'[u].fiber = call[u].fiber)
  BY DEF Scheduling
<1>2. \A f \in Fibers : (Queued(f)' <=> Queued(f))
                     /\ \A u \in Threads : Owns(u, f)' <=> Owns(u, f)
  BY <1>1 DEF Queued, Owns
<1>3. OneEntry'
  BY DEF CustodyInv, OneEntry
<1>4. OneOwner'
  BY <1>1, <1>2 DEF CustodyInv, OneOwner
<1>5. \A f \in Fibers : Queued(f) \/ submits[f] = 0 => f # task[t]
  BY DEF CustodyInv, OneOwner, Fresh, Owns
<1>6. Fresh'
  BY <1>2, <1>5 DEF CustodyInv, Fresh
<1>7. StateFits'
  <2>1. \A f \in Fibers : Queued(f)' => Runnable(f)'
    BY <1>2, <1>5 DEF CustodyInv, StateFits, Runnable
  <2>2. \A u \in Threads \ {t} : Fits(u)'
    BY OthersFit DEF ControlInv, CustodyInv
  <2>3. QED
    BY <2>1, <2>2 DEF StateFits
<1>8. NoFiberLost'
  <2>1. ASSUME NEW f \in Fibers, submits[f] > 0, state'[f] \notin Finished
        PROVE  Queued(f) \/ f \in armed \/ \E u \in Threads : Owns(u, f)
    <3>1. CASE f = task[t]
      BY <3>1 DEF Owns
    <3>2. CASE f # task[t]
      BY <2>1, <3>2 DEF CustodyInv, NoFiberLost
    <3>3. QED
      BY <3>1, <3>2
  <2>2. QED
    BY <1>2, <2>1 DEF NoFiberLost
<1>9. QED
  BY <1>3, <1>4, <1>6, <1>7, <1>8 DEF CustodyInv

\* A step of t that moves a fiber and changes no fiber's state.
LEMMA MovedFiber ==
  ASSUME ControlInv, CustodyInv, NEW t \in Threads, UNCHANGED fiberVars,
         \A u \in Threads \ {t} : pc'[u] = pc[u] /\ call'[u] = call[u] /\ task'[u] = task[u],
         OneEntry', OneOwner', Fresh', NoFiberLost', Fits(t)',
         \A f \in Fibers : Queued(f)' => Runnable(f)
  PROVE  CustodyInv'
<1>1. \A u \in Threads \ {t} : Fits(u)'
  BY OthersFit DEF ControlInv, CustodyInv, fiberVars
<1>2. \A f \in Fibers : Runnable(f)' <=> Runnable(f)
  BY DEF Runnable, fiberVars
<1>3. StateFits'
  BY <1>1, <1>2 DEF StateFits
<1>4. QED
  BY <1>3 DEF CustodyInv

\* Taking a task moves its fiber from the list to the thread.
LEMMA CustodyScanTake ==
  ASSUME Computing, ControlInv, CustodyInv, NEW t \in Threads, ScanTake(t)
  PROVE  CustodyInv'
<1> USE DEF Goto, At, fiberVars, counters, bounds
<1>1. PICK i \in 1..Len(queue) :
        /\ task' = [task EXCEPT ![t] = queue[i].fiber]
        /\ queue' = Without(queue, i)
  BY DEF ScanTake
<1> DEFINE g == queue[i].fiber
<1>2. /\ queue \in Seq(Entry) /\ queue[i] \in Entry /\ g \in Fibers /\ g # None
      /\ task \in [Threads -> Fibers \cup {None}] /\ submits \in [Fibers -> Nat]
      /\ pc \in [Threads -> PC]
  <2>1. /\ queue \in Seq(Entry) /\ task \in [Threads -> Fibers \cup {None}]
        /\ submits \in [Fibers -> Nat] /\ pc \in [Threads -> PC]
    BY DEF ControlInv, TypeInv, TypeOK
  <2>2. queue[i] \in Entry
    BY <2>1, ElementOfSeq
  <2>3. QED
    BY <2>1, <2>2, NoneIsNoFiber DEF Entry
<1>3. /\ \A m \in 1..Len(Without(queue, i)) :
           \E k \in 1..Len(queue) \ {i} : Without(queue, i)[m] = queue[k]
      /\ \A k \in 1..Len(queue) \ {i} :
           \E m \in 1..Len(Without(queue, i)) : Without(queue, i)[m] = queue[k]
  BY <1>2, WithoutEntries
<1>4. Queued(g) /\ \A k \in 1..Len(queue) \ {i} : queue[k].fiber # g
  BY DEF Queued, CustodyInv, OneEntry
<1>5. ASSUME NEW f \in Fibers PROVE Queued(f)' <=> Queued(f) /\ f # g
  <2>1. Queued(f)' => Queued(f) /\ f # g
    BY <1>1, <1>3, <1>4 DEF Queued
  <2>2. Queued(f) /\ f # g => Queued(f)'
    BY <1>1, <1>3 DEF Queued
  <2>3. QED
    BY <2>1, <2>2
<1> HIDE DEF g
<1>6. /\ pc[t] = "scan" /\ task[t] = None /\ pc'[t] = "count_up" /\ task'[t] = g
      /\ \A u \in Threads \ {t} : pc'[u] = pc[u] /\ task'[u] = task[u]
      /\ UNCHANGED <<state, saved, call, submits, armed>>
  BY <1>1, <1>2 DEF ScanTake, ControlInv, Taskless, g
<1>7. ASSUME NEW u \in Threads, NEW f \in Fibers
      PROVE  Owns(u, f)' <=> Owns(u, f) \/ (u = t /\ f = g)
  BY <1>2, <1>6, NoneIsNoFiber DEF Owns, Scheduling
<1>8. \A u \in Threads : ~Owns(u, g)
  BY <1>2, <1>4 DEF CustodyInv, OneOwner
<1>9. OneEntry'
  <2>1. Len(queue) \in Nat
    BY <1>2, LenProperties
  <2>2. ASSUME NEW m \in 1..Len(queue')
        PROVE  queue'[m] = queue[IF m < i THEN m ELSE m + 1]
               /\ (IF m < i THEN m ELSE m + 1) \in 1..Len(queue)
    <3>1. queue \in Seq(Entry) /\ Len(queue') = Len(queue) - 1
      BY <1>1, <1>2, WithoutProperties
    <3>2. m \in 1..(Len(queue) - 1)
      BY <3>1
    <3>3. queue'[m] = IF m < i THEN queue[m] ELSE queue[m + 1]
      BY <1>1, <3>1, <3>2, WithoutProperties
    <3>4. QED
      BY <2>1, <3>2, <3>3
  <2>3. ASSUME NEW m \in 1..Len(queue'), NEW n \in 1..Len(queue'),
               queue'[m].fiber = queue'[n].fiber
        PROVE  m = n
    <3>1. (IF m < i THEN m ELSE m + 1) = (IF n < i THEN n ELSE n + 1)
      BY <2>2, <2>3 DEF CustodyInv, OneEntry
    <3>2. Len(queue') \in Nat
      BY <1>1, <1>2, <2>1, WithoutProperties
    <3>3. QED
      BY <2>1, <3>1, <3>2
  <2>4. QED
    BY <2>3 DEF OneEntry
<1>10. OneOwner'
  BY <1>2, <1>5, <1>6, <1>7, <1>8 DEF CustodyInv, OneOwner, Scheduling
<1>11. Fresh'
  BY <1>4, <1>5, <1>6, <1>7 DEF CustodyInv, Fresh
<1>12. NoFiberLost'
  BY <1>5, <1>6, <1>7 DEF CustodyInv, NoFiberLost
<1>13. Fits(t)'
  BY <1>2, <1>4, <1>6 DEF CustodyInv, StateFits, Fits, Scheduling, Runnable, SchedPc
<1>14. \A f \in Fibers : Queued(f)' => Runnable(f)
  BY <1>5 DEF CustodyInv, StateFits
<1>15. QED
  BY <1>6, <1>9, <1>10, <1>11, <1>12, <1>13, <1>14, MovedFiber

\* push_back moves the fiber from the frame of schedule() to the list.
LEMMA CustodySchedPush ==
  ASSUME Computing, ControlInv, CustodyInv, NEW t \in Threads, SchedPush(t)
  PROVE  CustodyInv'
<1> USE DEF Goto, At, fiberVars, counters, bounds
<1> DEFINE g == call[t].fiber
           e == [fiber |-> g, pin |-> call[t].pin]
<1>1. /\ pc[t] = "sched_push" /\ Scheduling(t) /\ g \in Fibers /\ Owns(t, g)
      /\ queue \in Seq(Entry) /\ e \in Entry /\ queue' = Append(queue, e)
      /\ UNCHANGED <<state, saved, task, submits, armed>>
  BY DEF SchedPush, ControlInv, TypeInv, TypeOK, TaskOK, Scheduling, Owns, CallRecord, Entry
<1>2. /\ Len(queue) \in Nat /\ Len(queue') = Len(queue) + 1
      /\ \A k \in 1..Len(queue) : queue'[k] = queue[k]
      /\ queue'[Len(queue) + 1] = e
  BY <1>1, LenProperties, AppendProperties
<1>3. e.fiber = g
  OBVIOUS
<1>4. ~Queued(g) /\ g # task[t] /\ Runnable(g) /\ \A u \in Threads : Owns(u, g) => u = t
  BY <1>1 DEF CustodyInv, OneOwner, StateFits, Fits
<1> HIDE DEF g, e
<1>5. ASSUME NEW f \in Fibers PROVE Queued(f)' <=> Queued(f) \/ f = g
  <2>1. Queued(f)' => Queued(f) \/ f = g
    BY <1>2, <1>3 DEF Queued
  <2>2. Queued(f) => Queued(f)'
    BY <1>2 DEF Queued
  <2>3. f = g => Queued(f)'
    BY <1>2, <1>3 DEF Queued
  <2>4. QED
    BY <2>1, <2>2, <2>3
<1>6. /\ (pc'[t] = "sched_tickle" /\ call'[t] = call[t]) \/ pc'[t] = call[t].ret
      /\ \A u \in Threads \ {t} : pc'[u] = pc[u] /\ call'[u] = call[u]
  <2>1. CASE call[t].need
    BY <2>1 DEF SchedPush, ControlInv, TypeInv, TypeOK
  <2>2. CASE ~call[t].need
    BY <2>2, ReturnFrame DEF SchedPush, ControlInv
  <2>3. QED
    BY <2>1, <2>2
<1>7. /\ call[t].ret \in {"app", "running", "scan"}
      /\ (call[t].ret # "running" => task[t] = None)
      /\ (call[t].ret = "running" => state[task[t]] = "EXECUTE")
  BY <1>1 DEF ControlInv, TypeInv, TaskOK, NoEvents, Taskless, CustodyInv, StateFits, Fits, SchedPc
<1>8. ~Scheduling(t)' /\ Fits(t)'
  BY <1>1, <1>6, <1>7 DEF Scheduling, Fits, SchedPc
<1>9. ASSUME NEW u \in Threads, NEW f \in Fibers
      PROVE  Owns(u, f)' <=> Owns(u, f) /\ ~(u = t /\ f = g)
  BY <1>1, <1>4, <1>6, <1>8 DEF Owns, Scheduling, g
<1>10. OneEntry'
  <2>1. \A k \in 1..Len(queue) : queue[k].fiber # g
    BY <1>4 DEF Queued
  <2>2. QED
    BY <1>2, <1>3, <2>1 DEF CustodyInv, OneEntry
<1>11. OneOwner'
  <2>1. \A u \in Threads : Scheduling(u)' => Scheduling(u) /\ call'[u] = call[u]
    BY <1>6, <1>8 DEF Scheduling
  <2>2. QED
    BY <1>1, <1>4, <1>5, <1>9, <2>1 DEF CustodyInv, OneOwner
<1>12. Fresh'
  BY <1>1, <1>5, <1>9 DEF CustodyInv, Fresh
<1>13. NoFiberLost'
  BY <1>1, <1>5, <1>9 DEF CustodyInv, NoFiberLost
<1>14. \A f \in Fibers : Queued(f)' => Runnable(f)
  BY <1>4, <1>5 DEF CustodyInv, StateFits
<1>15. QED
  BY <1>1, <1>6, <1>8, <1>10, <1>11, <1>12, <1>13, <1>14, MovedFiber

\* A thread lets go of a fiber that has ended.
LEMMA CustodyDrop ==
  ASSUME ControlInv, CustodyInv, NEW t \in Threads,
         UNCHANGED <<fiberVars, queue, call, submits, armed>>,
         task[t] \in Fibers, state[task[t]] \in Finished,
         task' = [task EXCEPT ![t] = None],
         ~Scheduling(t), pc'[t] \in {"count_down", "scan"},
         \A u \in Threads \ {t} : pc'[u] = pc[u]
  PROVE  CustodyInv'
<1> USE DEF fiberVars
<1>1. /\ task'[t] = None /\ \A u \in Threads \ {t} : task'[u] = task[u]
  BY DEF ControlInv, TypeInv, TypeOK
<1>2. \A u \in Threads : Scheduling(u)' <=> Scheduling(u)
  BY DEF Scheduling
<1>3. ASSUME NEW u \in Threads, NEW f \in Fibers
      PROVE  Owns(u, f)' <=> Owns(u, f) /\ ~(u = t /\ f = task[t])
  BY <1>1, <1>2, NoneIsNoFiber DEF Owns
<1>4. \A f \in Fibers : Queued(f)' <=> Queued(f)
  BY DEF Queued
<1>5. OneEntry'
  BY DEF CustodyInv, OneEntry
<1>6. OneOwner'
  <2>1. \A u \in Threads : Scheduling(u) => call[u].fiber # None
    BY DEF ControlInv, TypeInv, TaskOK
  <2>2. QED
    BY <1>1, <1>2, <1>3, <1>4, <2>1 DEF CustodyInv, OneOwner
<1>7. Fresh'
  BY <1>3, <1>4 DEF CustodyInv, Fresh
<1>8. NoFiberLost'
  BY <1>3, <1>4 DEF CustodyInv, NoFiberLost
<1>9. Fits(t)'
  BY <1>1 DEF Fits, Scheduling, SchedPc
<1>10. \A f \in Fibers : Queued(f)' => Runnable(f)
  BY <1>4 DEF CustodyInv, StateFits
<1>11. QED
  BY <1>1, <1>5, <1>6, <1>7, <1>8, <1>9, <1>10, MovedFiber

\* A READY fiber moves from its thread to a frame of schedule().
LEMMA CustodyRequeue ==
  ASSUME Computing, ControlInv, CustodyInv, NEW t \in Threads, Requeue(t)
  PROVE  CustodyInv'
<1> USE DEF fiberVars, counters, bounds
<1>1. /\ pc[t] = "post" /\ task[t] \in Fibers /\ state[task[t]] = "READY" /\ saved[task[t]]
      /\ task'[t] = None /\ \A u \in Threads \ {t} : task'[u] = task[u]
      /\ CallSchedule(t, task[t], AnyThread, "scan")
      /\ UNCHANGED <<state, saved, queue, submits, armed>>
  BY NoneIsNoFiber
     DEF Requeue, At, ControlInv, TypeInv, TypeOK, TaskOK, CustodyInv, StateFits, Fits, Finished
<1>2. /\ pc'[t] = "sched_read" /\ call'[t].fiber = task[t] /\ call'[t].ret = "scan"
      /\ \A u \in Threads \ {t} : pc'[u] = pc[u] /\ call'[u] = call[u]
  BY <1>1, CallScheduleFrame DEF ControlInv
<1>3. ~Scheduling(t) /\ Scheduling(t)' /\ \A u \in Threads \ {t} : Scheduling(u)' <=> Scheduling(u)
  BY <1>1, <1>2 DEF Scheduling
<1>4. \A u \in Threads, f \in Fibers : Owns(u, f)' <=> Owns(u, f)
  BY <1>1, <1>2, <1>3, NoneIsNoFiber DEF Owns
<1>5. \A f \in Fibers : Queued(f)' <=> Queued(f)
  BY <1>1 DEF Queued
<1>6. OneEntry'
  BY <1>1 DEF CustodyInv, OneEntry
<1>7. OneOwner'
  BY <1>1, <1>2, <1>3, <1>4, <1>5, NoneIsNoFiber DEF CustodyInv, OneOwner
<1>8. Fresh'
  BY <1>1, <1>4, <1>5 DEF CustodyInv, Fresh
<1>9. NoFiberLost'
  BY <1>1, <1>4, <1>5 DEF CustodyInv, NoFiberLost
<1>10. Fits(t)'
  BY <1>1, <1>2 DEF Fits, Scheduling, Runnable, SchedPc
<1>11. \A f \in Fibers : Queued(f)' => Runnable(f)
  BY <1>5 DEF CustodyInv, StateFits
<1>12. QED
  BY <1>1, <1>2, <1>6, <1>7, <1>8, <1>9, <1>10, <1>11, MovedFiber

\* A fiber that was never scheduled enters schedule().
LEMMA CustodyEnter ==
  ASSUME ControlInv, CustodyInv, NEW t \in Threads, NEW f \in Fibers, NEW pin, NEW ret,
         UNCHANGED <<fiberVars, queue, task, armed>>,
         submits[f] = 0, submits' = [submits EXCEPT ![f] = 1],
         CallSchedule(t, f, pin, ret), ~Scheduling(t),
         ret = "running" => state[task[t]] = "EXECUTE",
         ret # "running" => task[t] = None
  PROVE  CustodyInv'
<1> USE DEF fiberVars
<1>1. /\ pc'[t] = "sched_read" /\ call'[t].fiber = f /\ call'[t].ret = ret
      /\ \A u \in Threads \ {t} : pc'[u] = pc[u] /\ call'[u] = call[u]
  BY CallScheduleFrame DEF ControlInv
<1>2. Scheduling(t)' /\ \A u \in Threads \ {t} : Scheduling(u)' <=> Scheduling(u)
  BY <1>1 DEF Scheduling
<1>3. /\ Runnable(f) /\ ~Queued(f) /\ \A u \in Threads : ~Owns(u, f)
      /\ f # task[t]
  BY DEF CustodyInv, Fresh, Runnable, Owns
<1>4. ASSUME NEW u \in Threads, NEW h \in Fibers
      PROVE  Owns(u, h)' <=> Owns(u, h) \/ (u = t /\ h = f)
  BY <1>1, <1>2 DEF Owns
<1>5. \A h \in Fibers : Queued(h)' <=> Queued(h)
  BY DEF Queued
<1>6. submits'[f] = 1 /\ \A h \in Fibers \ {f} : submits'[h] = submits[h]
  BY DEF ControlInv, TypeInv, TypeOK
<1>7. OneEntry'
  BY DEF CustodyInv, OneEntry
<1>8. OneOwner'
  BY <1>1, <1>2, <1>3, <1>4, <1>5 DEF CustodyInv, OneOwner
<1>9. Fresh'
  BY <1>4, <1>5, <1>6 DEF CustodyInv, Fresh
<1>10. NoFiberLost'
  BY <1>4, <1>5, <1>6 DEF CustodyInv, NoFiberLost
<1>11. Fits(t)'
  BY <1>1, <1>3 DEF Fits, Scheduling, Runnable, SchedPc
<1>12. \A h \in Fibers : Queued(h)' => Runnable(h)
  BY <1>5 DEF CustodyInv, StateFits
<1>13. QED
  BY <1>1, <1>7, <1>8, <1>9, <1>10, <1>11, <1>12, MovedFiber

\* schedule() keeps custody.
LEMMA CustodyScheduleStep ==
  ASSUME Computing, ControlInv, CustodyInv, NEW t \in Threads, ScheduleStep(t)
  PROVE  CustodyInv'
<1> USE DEF Fits, Scheduling, Goto, At, SchedPc, fiberVars, counters, locals, bounds
<1>a. /\ \A u \in Threads : Fits(u)
      /\ TypeInv /\ NoEvents /\ Taskless
      /\ pc \in [Threads -> PC] /\ state \in [Fibers -> FiberState] /\ saved \in [Fibers -> BOOLEAN]
  BY DEF ControlInv, CustodyInv, StateFits, TypeInv, TypeOK, FiberTypeOK
<1>b. task[t] # None => task[t] \in Fibers
  BY DEF ControlInv, TypeInv, TypeOK
<1>1. ASSUME SchedRead(t) PROVE CustodyInv'
  <2>1. Fits(t)'
    BY <1>a, <1>1, SchedReadFrame DEF SchedRead, Runnable, TypeInv, TaskOK
  <2>2. QED
    BY <1>a, <1>1, <2>1, SameOwners, SchedReadFrame DEF SchedRead
<1>2. ASSUME SchedTickle(t) PROVE CustodyInv'
  <2>1. /\ pc[t] = "sched_tickle" /\ pc'[t] = call[t].ret /\ Return(t)
        /\ call[t].ret \in {"app", "running", "scan"}
        /\ (call[t].ret \in {"app", "scan"} => task[t] = None)
        /\ UNCHANGED <<fiberVars, queue, task, submits, armed>>
    BY <1>a, <1>2, ReturnFrame DEF SchedTickle, TypeInv, TaskOK, NoEvents, Taskless
  <2>2. Fits(t)'
    BY <1>a, <2>1 DEF Fits, Scheduling
  <2>3. QED
    BY <1>a, <2>1, <2>2, SameOwners, ReturnFrame DEF Scheduling
<1>3. ASSUME SchedPush(t) PROVE CustodyInv'
  BY <1>3, CustodySchedPush
<1>4. QED
  BY <1>1, <1>2, <1>3 DEF ScheduleStep

\* run() keeps custody while it takes and puts back tasks.
LEMMA CustodyTaskStep ==
  ASSUME Computing, ControlInv, CustodyInv, NEW t \in Threads, TaskStep(t)
  PROVE  CustodyInv'
<1> USE DEF Fits, Scheduling, Goto, At, SchedPc, fiberVars, counters, locals, bounds
<1>a. /\ \A u \in Threads : Fits(u)
      /\ TypeInv /\ NoEvents /\ Taskless
      /\ pc \in [Threads -> PC] /\ state \in [Fibers -> FiberState] /\ saved \in [Fibers -> BOOLEAN]
  BY DEF ControlInv, CustodyInv, StateFits, TypeInv, TypeOK, FiberTypeOK
<1>b. task[t] # None => task[t] \in Fibers
  BY DEF ControlInv, TypeInv, TypeOK
<1>1. ASSUME ScanNothing(t) PROVE CustodyInv'
  <2>1. task[t] = None /\ pc'[t] \in {"tickle_me", "dispatch"} /\ UNCHANGED task
    BY <1>a, <1>1 DEF ScanNothing, Taskless
  <2>2. Fits(t)'
    BY <1>a, <2>1 DEF Fits, Scheduling
  <2>3. QED
    BY <1>a, <1>1, <2>2, SameOwners DEF Scheduling, ScanNothing
<1>2. ASSUME CountUp(t) PROVE CustodyInv'
  <2>1. Fits(t)'
    BY <1>a, <1>2 DEF CountUp, Runnable, TypeInv, TaskOK
  <2>2. QED
    BY <1>a, <1>2, <2>1, SameOwners DEF CountUp
<1>3. ASSUME TickleMe(t) PROVE CustodyInv'
  <2>1. Fits(t)'
    BY <1>a, <1>3 DEF TickleMe, Runnable, TypeInv, TaskOK
  <2>2. QED
    BY <1>a, <1>3, <2>1, SameOwners DEF TickleMe
<1>4. ASSUME Dispatch(t) PROVE CustodyInv'
  <2>1. state'[task[t]] = "EXECUTE" /\ pc'[t] = "running"
    BY <1>a, <1>b, <1>4 DEF Dispatch, SwapIn
  <2>2. Fits(t)'
    BY <1>4, <2>1 DEF Fits, Scheduling, Dispatch
  <2>3. QED
    BY <1>a, <1>4, <2>2, SameOwners DEF Scheduling, Dispatch, SwapIn
<1>5. ASSUME SwapInFails(t) PROVE CustodyInv'
  BY <1>a, <1>5, SameOwners DEF SwapInFails, Runnable, CanSwapIn
<1>6. ASSUME CountDown(t) PROVE CustodyInv'
  BY <1>a, <1>6, SameOwners DEF CountDown
<1>7. ASSUME StoreDown(t) PROVE CustodyInv'
  BY <1>a, <1>7, SameOwners DEF StoreDown, Taskless
<1>8. ASSUME DecideHold(t) PROVE CustodyInv'
  BY <1>a, <1>8, SameOwners DEF DecideHold, Finished, TypeInv, TaskOK
<1>9. ASSUME SetHold(t) PROVE CustodyInv'
  BY <1>a, <1>9, SameOwners DEF SetHold
<1>10. ASSUME ScanTake(t) PROVE CustodyInv'
  BY <1>10, CustodyScanTake
<1>11. ASSUME DropFinished(t) PROVE CustodyInv'
  <2>1. ~Scheduling(t) /\ task[t] \in Fibers /\ pc'[t] \in {"count_down", "scan"}
    BY <1>a, <1>b, <1>11 DEF DropFinished, Scheduling, TypeInv, TaskOK
  <2>2. QED
    BY <1>a, <1>11, <2>1, CustodyDrop DEF DropFinished
<1>12. ASSUME Requeue(t) PROVE CustodyInv'
  BY <1>12, CustodyRequeue
<1>13. ASSUME DropEnded(t) PROVE CustodyInv'
  <2>1. ~Scheduling(t) /\ task[t] \in Fibers /\ pc'[t] \in {"count_down", "scan"}
    BY <1>a, <1>b, <1>13 DEF DropEnded, Scheduling, TypeInv, TaskOK
  <2>2. QED
    BY <1>a, <1>13, <2>1, CustodyDrop DEF DropEnded
<1>14. QED
  BY <1>1, <1>2, <1>3, <1>4, <1>5, <1>6, <1>7, <1>8, <1>9, <1>10, <1>11, <1>12, <1>13 DEF TaskStep

\* A computing fiber keeps custody.
LEMMA CustodyFiberStep ==
  ASSUME Computing, ControlInv, CustodyInv, NEW t \in Threads, FiberStep(t)
  PROVE  CustodyInv'
<1> USE DEF Fits, Scheduling, Goto, At, SchedPc, fiberVars, counters, locals, bounds
<1>a. /\ \A u \in Threads : Fits(u)
      /\ TypeInv /\ NoEvents /\ Taskless
      /\ pc \in [Threads -> PC] /\ state \in [Fibers -> FiberState] /\ saved \in [Fibers -> BOOLEAN]
  BY DEF ControlInv, CustodyInv, StateFits, TypeInv, TypeOK, FiberTypeOK
<1>b. task[t] # None => task[t] \in Fibers
  BY DEF ControlInv, TypeInv, TypeOK
<1>1. ASSUME NEW s \in Finished, Finish(t, s) PROVE CustodyInv'
  <2>1. task[t] \in Fibers /\ state'[task[t]] = s /\ pc'[t] = "swap_out"
    BY <1>a, <1>b, <1>1 DEF Finish, Publish, TypeInv, TaskOK
  <2>2. Fits(t)'
    BY <1>1, <2>1 DEF Fits, Scheduling, Finish
  <2>3. QED
    BY <1>a, <1>1, <2>2, SameOwners DEF Scheduling, Finish, Publish
<1>2. ASSUME YieldToReady(t) PROVE CustodyInv'
  <2>1. task[t] \in Fibers /\ state'[task[t]] = "READY" /\ pc'[t] = "swap_out"
    BY <1>a, <1>b, <1>2 DEF YieldToReady, Publish, TypeInv, TaskOK
  <2>2. Fits(t)'
    BY <1>2, <2>1 DEF Fits, Scheduling, YieldToReady
  <2>3. QED
    BY <1>a, <1>2, <2>2, SameOwners DEF Scheduling, YieldToReady, Publish
<1>3. ASSUME Arm(t) PROVE CustodyInv'
  BY <1>a, <1>3, SameOwners DEF Arm, Computing
<1>4. ASSUME YieldToHold(t) PROVE CustodyInv'
  BY <1>a, <1>4, SameOwners DEF YieldToHold, NoEvents
<1>5. ASSUME AddEventFails(t) PROVE CustodyInv'
  BY <1>a, <1>5, SameOwners DEF AddEventFails, Computing
<1>6. ASSUME LeaveFiber(t) PROVE CustodyInv'
  <2>1. task[t] \in Fibers /\ saved'[task[t]] /\ pc'[t] = "count_down" /\ UNCHANGED <<task, state>>
    BY <1>a, <1>b, <1>6 DEF LeaveFiber, SwapOut, TypeInv, TaskOK
  <2>2. Fits(t)'
    BY <1>a, <1>6, <2>1 DEF Fits, Scheduling, LeaveFiber
  <2>3. QED
    BY <1>a, <1>6, <2>2, SameOwners DEF Scheduling, LeaveFiber, SwapOut
<1>7. ASSUME NEW f \in Fibers, NEW pin \in Pinning, Spawn(t, f, pin) PROVE CustodyInv'
  <2>1. ~Scheduling(t) /\ state[task[t]] = "EXECUTE"
    BY <1>a, <1>7 DEF Spawn, Fits, Scheduling
  <2>2. QED
    BY <1>7, <2>1, CustodyEnter DEF Spawn
<1>8. QED
  BY <1>1, <1>2, <1>3, <1>4, <1>5, <1>6, <1>7 DEF FiberStep

\* The idle fiber keeps custody.
LEMMA CustodyIdleStep ==
  ASSUME Computing, ControlInv, CustodyInv, NEW t \in Threads, IdleStep(t)
  PROVE  CustodyInv'
<1> USE DEF Fits, Scheduling, Goto, At, SchedPc, fiberVars, counters, locals, bounds
<1>a. /\ \A u \in Threads : Fits(u)
      /\ TypeInv /\ NoEvents /\ Taskless
      /\ pc \in [Threads -> PC] /\ state \in [Fibers -> FiberState] /\ saved \in [Fibers -> BOOLEAN]
  BY DEF ControlInv, CustodyInv, StateFits, TypeInv, TypeOK, FiberTypeOK
<1>b. task[t] # None => task[t] \in Fibers
  BY DEF ControlInv, TypeInv, TypeOK
<1>1. ASSUME GoIdle(t) PROVE CustodyInv'
  BY <1>a, <1>1, SameOwners DEF GoIdle, Taskless
<1>2. ASSUME CheckPending(t) PROVE CustodyInv'
  BY <1>a, <1>2, SameOwners DEF CheckPending, Taskless, StopPc
<1>3. ASSUME CheckTasks(t) PROVE CustodyInv'
  BY <1>a, <1>3, SameOwners DEF CheckTasks, Taskless, StopPc
<1>4. ASSUME EpollReturn(t) PROVE CustodyInv'
  BY <1>a, <1>4, SameOwners DEF EpollReturn, Taskless, StopPc
<1>5. ASSUME NEW f \in Fibers, Trigger(t, f) PROVE CustodyInv'
  BY <1>a, <1>5, SameOwners DEF Trigger, NoEvents
<1>6. ASSUME PendingDown(t) PROVE CustodyInv'
  BY <1>a, <1>6, SameOwners DEF PendingDown, NoEvents
<1>7. ASSUME HandleDone(t) PROVE CustodyInv'
  BY <1>a, <1>7, SameOwners DEF HandleDone, Taskless, StopPc
<1>8. ASSUME IdleDown(t) PROVE CustodyInv'
  BY <1>a, <1>8, SameOwners DEF IdleDown, Taskless, StopPc
<1>9. ASSUME ExitRun(t) PROVE CustodyInv'
  BY <1>a, <1>9, SameOwners DEF ExitRun, Taskless, StopPc
<1>10. QED
  BY <1>1, <1>2, <1>3, <1>4, <1>5, <1>6, <1>7, <1>8, <1>9 DEF IdleStep

\* stop() keeps custody.
LEMMA CustodyStopStep ==
  ASSUME Computing, ControlInv, CustodyInv, StopStep
  PROVE  CustodyInv'
<1> USE DEF Fits, Scheduling, Goto, At, SchedPc, fiberVars, counters, locals, bounds
<1>a. /\ \A u \in Threads : Fits(u)
      /\ TypeInv /\ NoEvents /\ Taskless
      /\ pc \in [Threads -> PC] /\ state \in [Fibers -> FiberState] /\ saved \in [Fibers -> BOOLEAN]
  BY DEF ControlInv, CustodyInv, StateFits, TypeInv, TypeOK, FiberTypeOK
<1>1. ASSUME StopTickle PROVE CustodyInv'
  BY <1>a, <1>1, SameOwners DEF StopTickle, Threads, Taskless, StopPc
<1>2. ASSUME StopFlag PROVE CustodyInv'
  BY <1>a, <1>2, SameOwners DEF StopFlag, Threads, Taskless, StopPc
<1>3. ASSUME StopCheckPending PROVE CustodyInv'
  BY <1>a, <1>3, SameOwners DEF StopCheckPending, Threads, Taskless, StopPc
<1>4. ASSUME StopCheckTasks PROVE CustodyInv'
  BY <1>a, <1>4, SameOwners DEF StopCheckTasks, Threads, Taskless, StopPc
<1>5. ASSUME StopReturn PROVE CustodyInv'
  BY <1>a, <1>5, SameOwners DEF StopReturn, Threads, Taskless, StopPc
<1>6. QED
  BY <1>1, <1>2, <1>3, <1>4, <1>5 DEF StopStep

\* Custody is inductive, given control.
LEMMA CustodyStep == Computing /\ ControlInv /\ CustodyInv /\ [Next]_vars => CustodyInv'
<1> SUFFICES ASSUME Computing, ControlInv, CustodyInv, [Next]_vars PROVE CustodyInv'
  OBVIOUS
<1>1. ASSUME NEW t \in Threads, ThreadStep(t) PROVE CustodyInv'
  BY <1>1, CustodyScheduleStep, CustodyTaskStep, CustodyFiberStep, CustodyIdleStep DEF ThreadStep
<1>2. ASSUME NEW f \in Fibers, NEW pin \in Pinning, Submit(f, pin) PROVE CustodyInv'
  <2>1. submits[f] \in Nat /\ MaxSubmits = 1 /\ f \notin Waiters
    BY DEF ControlInv, TypeInv, TypeOK, Computing
  <2>2. submits[f] = 0 /\ submits' = [submits EXCEPT ![f] = 1]
    <3>1. submits[f] < 1 /\ submits' = [submits EXCEPT ![f] = submits[f] + 1]
      BY <1>2, <2>1 DEF Submit
    <3>2. submits[f] = 0
      BY <2>1, <3>1
    <3>3. QED
      BY <3>1, <3>2
  <2>3. Caller \in Threads /\ ~Scheduling(Caller) /\ task[Caller] = None
    BY <1>2 DEF Threads, Submit, At, Scheduling, ControlInv, Taskless, StopPc
  <2>4. /\ UNCHANGED <<fiberVars, queue, task, armed>>
        /\ CallSchedule(Caller, f, pin, "app")
    BY <1>2 DEF Submit
  <2>5. QED
    BY <2>2, <2>3, <2>4, CustodyEnter
<1>3. ASSUME StopBegin PROVE CustodyInv'
  <2>1. pc[Caller] = "app" /\ pc'[Caller] = "stop_tickle" /\ task[Caller] = None
        /\ Caller \in Threads /\ pc \in [Threads -> PC]
    BY <1>3 DEF StopBegin, At, Goto, Threads, ControlInv, TypeInv, TypeOK, Taskless, StopPc
  <2>2. Fits(Caller)'
    BY <1>3, <2>1 DEF StopBegin, Fits, Scheduling, SchedPc, locals
  <2>3. QED
    BY <1>3, <2>1, <2>2, SameOwners DEF StopBegin, Goto, Scheduling, fiberVars, locals, bounds
<1>4. CASE UNCHANGED vars
  BY <1>4 DEF vars, fiberVars, locals, bounds, CustodyInv, OneEntry, OneOwner, Fresh, StateFits, Fits,
         NoFiberLost, Queued, Owns, Scheduling, Runnable
<1>5. QED
  BY <1>1, <1>2, <1>3, <1>4, CustodyStopStep DEF Next

\* Custody holds when the threads start.
LEMMA CustodyInit == Computing /\ Init => CustodyInv
<1> SUFFICES ASSUME Computing, Init PROVE CustodyInv
  OBVIOUS
<1>1. queue = <<>> /\ (\A f \in Fibers : ~Queued(f))
  BY EmptySeq DEF Init, Queued
<1>2. \A t \in Threads : task[t] = None /\ pc[t] \in {"app", "scan"} /\ ~Scheduling(t)
  BY DEF Init, Scheduling
<1>3. \A t \in Threads, f \in Fibers : ~Owns(t, f)
  BY <1>2, NoneIsNoFiber DEF Owns
<1>4. OneEntry
  BY <1>1, EmptySeq DEF OneEntry
<1>5. OneOwner
  BY <1>2, <1>3 DEF OneOwner
<1>6. Fresh
  BY <1>1, <1>3 DEF Init, FiberInit, Fresh
<1>7. StateFits
  BY <1>1, <1>2 DEF StateFits, Fits, SchedPc
<1>8. NoFiberLost
  BY DEF Init, NoFiberLost
<1>9. QED
  BY <1>4, <1>5, <1>6, <1>7, <1>8 DEF CustodyInv

-----------------------------------------------------------------------------
(* Draining                                                                *)

\* A thread gets ready to leave run() only when the list is empty.
LeavesEmpty == \A u \in Runners : Leaving(u)' => Leaving(u) \/ queue' = <<>>

\* The threads of run() are threads; without use_caller they are the pool.
LEMMA RunnerKinds == Runners \subseteq Threads /\ (~UseCaller => Runners = Workers)
  BY DEF Runners, Threads

\* A thread that may take a task and finds none leaves an empty list behind.
LEMMA NothingTakeable ==
  ASSUME ControlInv, CustodyInv, NEW t \in Threads,
         \A i \in 1..Len(queue) : ~Takeable(t, i)
  PROVE  queue = <<>>
<1>1. queue \in Seq(Entry) /\ Len(queue) \in Nat
  BY LenProperties DEF ControlInv, TypeInv, TypeOK
<1>2. ASSUME NEW i \in 1..Len(queue) PROVE FALSE
  <2>1. Mine(t, queue[i])
    BY DEF ControlInv, NoPins, Mine
  <2>2. queue[i] \in Entry
    BY <1>1, ElementOfSeq
  <2>3. queue[i].fiber \in Fibers
    BY <2>2 DEF Entry
  <2>4. state[queue[i].fiber] # "EXECUTE"
    BY <2>3 DEF CustodyInv, StateFits, Queued, Runnable
  <2>5. QED
    BY <2>1, <2>4 DEF Takeable
<1>3. Len(queue) = 0
  BY <1>1, <1>2
<1>4. QED
  BY <1>1, <1>3, EmptySeq

\* No step of schedule() makes a thread leave run().
LEMMA LeavesScheduleStep ==
  ASSUME Computing, ControlInv, CustodyInv, NEW t \in Threads, ScheduleStep(t)
  PROVE  LeavesEmpty
<1> USE DEF Leaving, Goto, At, fiberVars, counters, locals, bounds
<1>a. /\ TypeInv /\ pc \in [Threads -> PC] /\ task \in [Threads -> Fibers \cup {None}]
      /\ Runners \subseteq Threads
  BY RunnerKinds DEF ControlInv, TypeInv, TypeOK
<1>b. pc[t] \in SchedPc => call[t].ret \in {"app", "running", "scan"}
  BY DEF ControlInv, TypeInv, TaskOK, NoEvents
<1>1. ASSUME SchedRead(t) PROVE LeavesEmpty
  BY <1>a, <1>1 DEF LeavesEmpty, SchedRead
<1>2. ASSUME SchedPush(t) PROVE LeavesEmpty
  <2>1. pc'[t] \in {"sched_tickle", "app", "running", "scan"}
        /\ \A u \in Threads \ {t} : pc'[u] = pc[u]
    <3>1. CASE call[t].need
      BY <1>a, <1>2, <3>1 DEF SchedPush
    <3>2. CASE ~call[t].need
      BY <1>a, <1>b, <1>2, <3>2, ReturnFrame DEF SchedPush, SchedPc
    <3>3. QED
      BY <3>1, <3>2
  <2>2. QED
    BY <1>a, <1>2, <2>1 DEF LeavesEmpty, SchedPush
<1>3. ASSUME SchedTickle(t) PROVE LeavesEmpty
  <2>1. pc'[t] \in {"app", "running", "scan"} /\ \A u \in Threads \ {t} : pc'[u] = pc[u]
    BY <1>a, <1>b, <1>3, ReturnFrame DEF SchedTickle, SchedPc
  <2>2. QED
    BY <1>a, <1>3, <2>1 DEF LeavesEmpty, SchedTickle
<1>4. QED
  BY <1>1, <1>2, <1>3 DEF ScheduleStep

\* run() turns to the idle fiber only with an empty list.
LEMMA LeavesTaskStep ==
  ASSUME Computing, ControlInv, CustodyInv, NEW t \in Threads, TaskStep(t)
  PROVE  LeavesEmpty
<1> USE DEF Leaving, Goto, At, fiberVars, counters, locals, bounds
<1>a. /\ TypeInv /\ pc \in [Threads -> PC] /\ task \in [Threads -> Fibers \cup {None}]
      /\ Runners \subseteq Threads
  BY RunnerKinds DEF ControlInv, TypeInv, TypeOK
<1>1. ASSUME ScanTake(t) PROVE LeavesEmpty
  BY <1>a, <1>1 DEF LeavesEmpty, ScanTake
<1>2. ASSUME ScanNothing(t) PROVE LeavesEmpty
  <2>1. queue' = <<>>
    BY <1>2, NothingTakeable DEF ScanNothing
  <2>2. QED
    BY <2>1 DEF LeavesEmpty
<1>3. ASSUME CountUp(t) PROVE LeavesEmpty
  <2>1. task[t] # None
    BY <1>a, <1>3 DEF CountUp, TypeInv, TaskOK
  <2>2. QED
    BY <1>a, <1>3, <2>1 DEF LeavesEmpty, CountUp
<1>4. ASSUME TickleMe(t) PROVE LeavesEmpty
  <2>1. pc[t] # "tickle_me"
    BY DEF ControlInv, NoTickle
  <2>2. QED
    BY <1>4, <2>1 DEF TickleMe
<1>5. ASSUME Dispatch(t) PROVE LeavesEmpty
  BY <1>a, <1>5 DEF LeavesEmpty, Dispatch
<1>6. ASSUME DropFinished(t) PROVE LeavesEmpty
  BY <1>a, <1>6 DEF LeavesEmpty, DropFinished
<1>7. ASSUME SwapInFails(t) PROVE LeavesEmpty
  BY <1>a, <1>7 DEF LeavesEmpty, SwapInFails
<1>8. ASSUME CountDown(t) PROVE LeavesEmpty
  BY <1>a, <1>8 DEF LeavesEmpty, CountDown
<1>9. ASSUME StoreDown(t) PROVE LeavesEmpty
  BY <1>a, <1>9 DEF LeavesEmpty, StoreDown
<1>10. ASSUME Requeue(t) PROVE LeavesEmpty
  <2>1. pc'[t] = "sched_read" /\ \A u \in Threads \ {t} : pc'[u] = pc[u] /\ task'[u] = task[u]
    BY <1>a, <1>10, CallScheduleFrame DEF Requeue
  <2>2. QED
    BY <1>a, <1>10, <2>1 DEF LeavesEmpty, Requeue
<1>11. ASSUME DropEnded(t) PROVE LeavesEmpty
  BY <1>a, <1>11 DEF LeavesEmpty, DropEnded
<1>12. ASSUME DecideHold(t) PROVE LeavesEmpty
  BY <1>a, <1>12 DEF LeavesEmpty, DecideHold
<1>13. ASSUME SetHold(t) PROVE LeavesEmpty
  BY <1>a, <1>13 DEF LeavesEmpty, SetHold
<1>14. QED
  BY <1>1, <1>2, <1>3, <1>4, <1>5, <1>6, <1>7, <1>8, <1>9, <1>10, <1>11, <1>12, <1>13 DEF TaskStep

\* No step of a fiber makes a thread leave run().
LEMMA LeavesFiberStep ==
  ASSUME Computing, ControlInv, CustodyInv, NEW t \in Threads, FiberStep(t)
  PROVE  LeavesEmpty
<1> USE DEF Leaving, Goto, At, fiberVars, counters, locals, bounds
<1>a. /\ TypeInv /\ pc \in [Threads -> PC] /\ task \in [Threads -> Fibers \cup {None}]
      /\ Runners \subseteq Threads
  BY RunnerKinds DEF ControlInv, TypeInv, TypeOK
<1>1. ASSUME NEW s \in Finished, Finish(t, s) PROVE LeavesEmpty
  BY <1>a, <1>1 DEF LeavesEmpty, Finish
<1>2. ASSUME YieldToReady(t) PROVE LeavesEmpty
  BY <1>a, <1>2 DEF LeavesEmpty, YieldToReady
<1>3. ASSUME Arm(t) PROVE LeavesEmpty
  BY <1>a, <1>3 DEF LeavesEmpty, Arm
<1>4. ASSUME YieldToHold(t) PROVE LeavesEmpty
  BY <1>a, <1>4 DEF LeavesEmpty, YieldToHold
<1>5. ASSUME AddEventFails(t) PROVE LeavesEmpty
  BY <1>a, <1>5 DEF LeavesEmpty, AddEventFails
<1>6. ASSUME NEW f \in Fibers, NEW pin \in Pinning, Spawn(t, f, pin) PROVE LeavesEmpty
  <2>1. pc'[t] = "sched_read" /\ \A u \in Threads \ {t} : pc'[u] = pc[u]
    BY <1>a, <1>6, CallScheduleFrame DEF Spawn
  <2>2. QED
    BY <1>a, <1>6, <2>1 DEF LeavesEmpty, Spawn
<1>7. ASSUME LeaveFiber(t) PROVE LeavesEmpty
  BY <1>a, <1>7 DEF LeavesEmpty, LeaveFiber
<1>8. QED
  BY <1>1, <1>2, <1>3, <1>4, <1>5, <1>6, <1>7 DEF FiberStep

\* The idle fiber makes no thread leave run() by itself.
LEMMA LeavesIdleStep ==
  ASSUME Computing, ControlInv, CustodyInv, NEW t \in Threads, IdleStep(t)
  PROVE  LeavesEmpty
<1> USE DEF Leaving, Goto, At, fiberVars, counters, locals, bounds
<1>a. /\ TypeInv /\ pc \in [Threads -> PC] /\ task \in [Threads -> Fibers \cup {None}]
      /\ Runners \subseteq Threads
  BY RunnerKinds DEF ControlInv, TypeInv, TypeOK
<1>1. ASSUME GoIdle(t) PROVE LeavesEmpty
  BY <1>a, <1>1 DEF LeavesEmpty, GoIdle
<1>2. ASSUME CheckPending(t) PROVE LeavesEmpty
  BY <1>a, <1>2 DEF LeavesEmpty, CheckPending
<1>3. ASSUME CheckTasks(t) PROVE LeavesEmpty
  BY <1>a, <1>3 DEF LeavesEmpty, CheckTasks
<1>4. ASSUME EpollReturn(t) PROVE LeavesEmpty
  BY <1>a, <1>4 DEF LeavesEmpty, EpollReturn
<1>5. ASSUME NEW f \in Fibers, Trigger(t, f) PROVE LeavesEmpty
  <2>1. armed = {}
    BY DEF ControlInv, NoEvents
  <2>2. QED
    BY <1>5, <2>1 DEF Trigger
<1>6. ASSUME PendingDown(t) PROVE LeavesEmpty
  BY <1>a, <1>6 DEF LeavesEmpty, PendingDown
<1>7. ASSUME HandleDone(t) PROVE LeavesEmpty
  BY <1>a, <1>7 DEF LeavesEmpty, HandleDone
<1>8. ASSUME IdleDown(t) PROVE LeavesEmpty
  BY <1>a, <1>8 DEF LeavesEmpty, IdleDown
<1>9. ASSUME ExitRun(t) PROVE LeavesEmpty
  BY <1>a, <1>9 DEF LeavesEmpty, ExitRun
<1>10. QED
  BY <1>1, <1>2, <1>3, <1>4, <1>5, <1>6, <1>7, <1>8, <1>9 DEF IdleStep

\* The caller skips run() only when the list is empty.
LEMMA LeavesStopStep ==
  ASSUME Computing, ControlInv, CustodyInv, StopStep
  PROVE  LeavesEmpty
<1> USE DEF Leaving, Goto, At, fiberVars, counters, locals, bounds
<1>a. /\ TypeInv /\ pc \in [Threads -> PC] /\ task \in [Threads -> Fibers \cup {None}]
      /\ Runners \subseteq Threads
  BY RunnerKinds DEF ControlInv, TypeInv, TypeOK
<1>1. ASSUME StopTickle PROVE LeavesEmpty
  BY <1>a, <1>1 DEF LeavesEmpty, StopTickle
<1>2. ASSUME StopFlag PROVE LeavesEmpty
  <2>1. CASE UseCaller
    BY <1>a, <1>2, <2>1 DEF LeavesEmpty, StopFlag
  <2>2. CASE ~UseCaller
    BY <1>a, <1>2, <2>2, RunnerKinds, CallerIsNoWorker DEF LeavesEmpty, StopFlag
  <2>3. QED
    BY <2>1, <2>2
<1>3. ASSUME StopCheckPending PROVE LeavesEmpty
  BY <1>a, <1>3 DEF LeavesEmpty, StopCheckPending
<1>4. ASSUME StopCheckTasks PROVE LeavesEmpty
  <2>1. CASE Completed
    BY <1>4, <2>1 DEF LeavesEmpty, StopCheckTasks, Completed
  <2>2. CASE ~Completed
    BY <1>a, <1>4, <2>2 DEF LeavesEmpty, StopCheckTasks
  <2>3. QED
    BY <2>1, <2>2
<1>5. ASSUME StopReturn PROVE LeavesEmpty
  BY <1>a, <1>5 DEF LeavesEmpty, StopReturn
<1>6. QED
  BY <1>1, <1>2, <1>3, <1>4, <1>5 DEF StopStep

\* Every step: a thread that gets ready to leave leaves an empty list.
LEMMA LeavesStep == Computing /\ ControlInv /\ CustodyInv /\ [Next]_vars => LeavesEmpty
<1> SUFFICES ASSUME Computing, ControlInv, CustodyInv, [Next]_vars PROVE LeavesEmpty
  OBVIOUS
<1> USE DEF Leaving, Goto, At
<1>1. ASSUME NEW t \in Threads, ThreadStep(t) PROVE LeavesEmpty
  BY <1>1, LeavesScheduleStep, LeavesTaskStep, LeavesFiberStep, LeavesIdleStep DEF ThreadStep
<1>2. TypeInv /\ pc \in [Threads -> PC] /\ Caller \in Threads /\ Runners \subseteq Threads
  BY RunnerKinds DEF ControlInv, TypeInv, TypeOK, Threads
<1>3. ASSUME NEW f \in Fibers, NEW pin \in Pinning, Submit(f, pin) PROVE LeavesEmpty
  <2>1. /\ pc'[Caller] = "sched_read" /\ \A u \in Threads \ {Caller} : pc'[u] = pc[u]
        /\ UNCHANGED <<task, idleDone>>
    BY <1>2, <1>3, CallScheduleFrame DEF Submit
  <2>2. QED
    BY <1>2, <2>1 DEF LeavesEmpty
<1>4. ASSUME StopBegin PROVE LeavesEmpty
  BY <1>2, <1>4 DEF LeavesEmpty, StopBegin, locals
<1>5. CASE UNCHANGED vars
  BY <1>5 DEF LeavesEmpty, vars, locals
<1>6. QED
  BY <1>1, <1>3, <1>4, <1>5, LeavesStopStep DEF Next

\* The list is empty when the threads start.
LEMMA InitDrains == Init => DrainInv
  BY DEF Init, DrainInv

\* Draining is inductive, given control and custody.
LEMMA DrainStep == Computing /\ ControlInv /\ CustodyInv /\ DrainInv /\ [Next]_vars => DrainInv'
<1> SUFFICES ASSUME Computing, ControlInv, CustodyInv, DrainInv, [Next]_vars,
                    \A u \in Runners : Leaving(u)'
             PROVE  queue' = <<>>
  BY DEF DrainInv
<1>1. CASE \E u \in Runners : ~Leaving(u)
  BY <1>1, LeavesStep DEF LeavesEmpty
<1>2. CASE \A u \in Runners : Leaving(u)
  <2>1. ASSUME NEW t \in Threads, SchedPush(t) PROVE FALSE
    <3>1. pc[t] = "sched_push" /\ ~Leaving(t) /\ t = Caller /\ ~UseCaller
      BY <1>2, <2>1 DEF SchedPush, At, Leaving, Runners, Threads
    <3>2. PICK u \in Workers : Leaving(u)
      BY <1>2, <3>1, ThreadCountPositive DEF Runners
    <3>3. stopped
      BY <3>2 DEF Leaving, ControlInv, Phases, Threads, StopPc
    <3>4. QED
      BY <3>1, <3>3 DEF ControlInv, Phases, SchedPc
  <2>2. ASSUME NEW t \in Threads, ScanTake(t) PROVE FALSE
    <3>1. pc[t] = "scan" /\ ~Leaving(t)
      BY <2>2 DEF ScanTake, At, Leaving
    <3>2. t = Caller /\ ~UseCaller
      BY <1>2, <3>1 DEF Runners, Threads
    <3>3. QED
      BY <3>1, <3>2 DEF ControlInv, Phases, SchedPc
  <2>3. QED
    BY <1>2, <2>1, <2>2, ListStep DEF ListChanges, DrainInv
<1>3. QED
  BY <1>1, <1>2

-----------------------------------------------------------------------------
(* The theorems                                                            *)

\* With computing tasks the scheduler keeps its invariant, for any number of
\* threads and fibers: control, custody of the fibers, and draining.
THEOREM ComputingInvariant ==
  ASSUME Computing
  PROVE  Spec => []ComputingInv
<1>1. Init => ComputingInv
  BY ControlInit, CustodyInit, InitDrains DEF ComputingInv
<1>2. ComputingInv /\ [Next]_vars => ComputingInv'
  BY ControlStep, CustodyStep, DrainStep DEF ComputingInv
<1>3. QED
  BY <1>1, <1>2, PTL DEF Spec

\* No fiber executes on two threads at once, although run() tests EXECUTE and
\* sets it in two steps without a lock.
THEOREM OneThreadPerFiber ==
  ASSUME Computing
  PROVE  Spec => []Exclusive
<1>1. ComputingInv => Exclusive
  <2> SUFFICES ASSUME ComputingInv, NEW t \in Threads, NEW u \in Threads,
                      OnCpu(t), OnCpu(u), t # u
               PROVE  task[t] # task[u]
    BY DEF Exclusive
  <2>1. task[t] # None /\ task[t] \in Fibers
    BY DEF ComputingInv, ControlInv, NoEvents, TypeInv, TypeOK, TaskOK, OnCpu
  <2>2. QED
    BY <2>1 DEF ComputingInv, CustodyInv, OneOwner, Owns
<1>2. QED
  BY <1>1, ComputingInvariant, PTL

\* Every fiber that was scheduled and has not ended is in the list or with a thread.
THEOREM FibersKept ==
  ASSUME Computing
  PROVE  Spec => []NoFiberLost
<1>1. ComputingInv => NoFiberLost
  BY DEF ComputingInv, CustodyInv
<1>2. QED
  BY <1>1, ComputingInvariant, PTL

\* No assertion of swapIn() fails and no thread resumes a context that is not saved.
THEOREM NeverCrashes ==
  ASSUME Computing
  PROVE  Spec => []NoCrash
<1>1. ComputingInv => NoCrash
  BY DEF ComputingInv, CustodyInv, StateFits, Fits, NoCrash, Crashed, At
<1>2. QED
  BY <1>1, ComputingInvariant, PTL

\* Once every thread has left run(), nothing is in the list and nobody owns a fiber.
LEMMA StopDrained == ComputingInv => StopDrains
<1> SUFFICES ASSUME ComputingInv, pc[Caller] = "returned" PROVE
               queue = <<>> /\ \A f \in Fibers : submits[f] > 0 => state[f] \in Finished
  BY DEF StopDrains, At
<1>1. /\ \A t \in Threads : pc[t] \in {"exited", "returned"}
      /\ \A t \in Threads : task[t] = None /\ ~Scheduling(t)
  BY DEF ComputingInv, ControlInv, Phases, Taskless, Threads, Scheduling, StopPc
<1>2. queue = <<>>
  BY <1>1, RunnerKinds DEF ComputingInv, DrainInv, Leaving
<1>3. ASSUME NEW f \in Fibers, submits[f] > 0 PROVE state[f] \in Finished
  <2>1. ~Queued(f)
    BY <1>2, EmptySeq DEF Queued
  <2>2. \A t \in Threads : ~Owns(t, f)
    BY <1>1, NoneIsNoFiber DEF Owns
  <2>3. f \notin armed
    BY DEF ComputingInv, ControlInv, NoEvents
  <2>4. QED
    BY <1>3, <2>1, <2>2, <2>3 DEF ComputingInv, CustodyInv, NoFiberLost
<1>4. QED
  BY <1>2, <1>3

\* stop() returns only when the list is empty and every scheduled fiber has ended,
\* whatever the racing counter m_active_thread_count says.
THEOREM StopDrainsList ==
  ASSUME Computing
  PROVE  Spec => []StopDrains
<1>1. QED
  BY StopDrained, ComputingInvariant, PTL

\* A fiber that has ended is never suspended or executed again, on any thread.
THEOREM EndedIsFinalComputing ==
  ASSUME Computing
  PROVE  Spec => EndedStaysEnded
<1>1. ComputingInv /\ [Next]_vars =>
        [\A f \in Fibers : state[f] \in Finished => state'[f] \in Finished]_vars
  <2> SUFFICES ASSUME ComputingInv, Next, NEW f \in Fibers, state[f] \in Finished
               PROVE  state'[f] \in Finished
    OBVIOUS
  <2> USE DEF At, fiberVars, Finished, Publish
  <2>a. /\ state \in [Fibers -> FiberState] /\ NoEvents
        /\ \A t \in Threads : Fits(t)
    BY DEF ComputingInv, ControlInv, TypeInv, TypeOK, FiberTypeOK, CustodyInv, StateFits
  <2>1. ASSUME NEW t \in Threads, ScheduleStep(t) PROVE state' = state
    BY <2>1 DEF ScheduleStep, SchedRead, SchedPush, SchedTickle
  <2>2. ASSUME NEW t \in Threads, TaskStep(t) PROVE state'[f] \in Finished
    <3>1. CASE Dispatch(t)
      BY <2>a, <3>1 DEF Dispatch, SwapIn
    <3>2. CASE SetHold(t)
      BY <2>a, <3>2 DEF SetHold, Fits
    <3>3. CASE ~Dispatch(t) /\ ~SetHold(t)
      BY <2>2, <3>3 DEF TaskStep, ScanTake, ScanNothing, CountUp, TickleMe, DropFinished,
            SwapInFails, CountDown, StoreDown, Requeue, DropEnded, DecideHold
    <3>4. QED
      BY <3>1, <3>2, <3>3
  <2>3. ASSUME NEW t \in Threads, FiberStep(t) PROVE state'[f] \in Finished
    <3>1. pc[t] # "holding" /\ (pc[t] = "running" => state[task[t]] = "EXECUTE")
      BY <2>a DEF Fits, NoEvents
    <3>2. QED
      BY <2>a, <2>3, <3>1 DEF FiberStep, Finish, YieldToReady, Arm, YieldToHold, AddEventFails,
            Spawn, LeaveFiber, SwapOut
  <2>4. ASSUME NEW t \in Threads, IdleStep(t) PROVE state' = state
    BY <2>4 DEF IdleStep, GoIdle, CheckPending, CheckTasks, EpollReturn, Trigger, PendingDown,
          HandleDone, IdleDown, ExitRun
  <2>5. ASSUME StopStep \/ StopBegin \/ \E g \in Fibers, pin \in Pinning : Submit(g, pin)
        PROVE  state' = state
    BY <2>5 DEF StopStep, StopTickle, StopFlag, StopCheckPending, StopCheckTasks, StopReturn,
          StopBegin, Submit
  <2>6. QED
    BY <2>1, <2>2, <2>3, <2>4, <2>5 DEF Next, ThreadStep
<1>2. QED
  BY <1>1, ComputingInvariant, PTL DEF Spec, EndedStaysEnded

-----------------------------------------------------------------------------
(* The task pool                                                           *)

\* A fiber whose code a thread executes is the task of that thread.
LEMMA OnCpuTask ==
  ASSUME ComputingInv, NEW t \in Threads, OnCpu(t)
  PROVE  task[t] \in Fibers /\ task[t] # None /\ state[task[t]] \in FiberState
BY DEF ComputingInv, ControlInv, NoEvents, TypeInv, TypeOK, FiberTypeOK, TaskOK, OnCpu

\* PoolReady, PoolDone and PoolRunning without the list and the frames of schedule():
\* what was submitted and has not ended is ready unless a thread executes it.
PoolViews ==
  /\ PoolWaiting = {}
  /\ PoolReady = {f \in Fibers : submits[f] # 0 /\ state[f] \notin Finished /\ ~Executes(f)}
  /\ PoolDone = {f \in Fibers : state[f] \in Finished /\ ~Executes(f)}

\* The invariant gives these views.
LEMMA PoolIsViewed == ComputingInv => PoolViews
<1> SUFFICES ASSUME ComputingInv PROVE PoolViews
  OBVIOUS
<1>1. armed = {}
  BY DEF ComputingInv, ControlInv, NoEvents
<1>2. ASSUME NEW f \in Fibers, state[f] \notin Finished
      PROVE  (Queued(f) \/ \E t \in Threads : Owns(t, f)) <=> submits[f] # 0
  <2>1. submits[f] \in Nat
    BY DEF ComputingInv, ControlInv, TypeInv, TypeOK
  <2>2. submits[f] # 0 => submits[f] > 0
    BY <2>1
  <2>3. QED
    BY <1>1, <1>2, <2>2 DEF ComputingInv, CustodyInv, Fresh, NoFiberLost
<1>3. QED
  BY <1>1, <1>2 DEF PoolWaiting, PoolReady, PoolDone, PoolViews

\* Only the thread that executes a fiber executes it, and nobody else owns it.
LEMMA ExecutesOne ==
  ASSUME ComputingInv, NEW t \in Threads, task[t] \in Fibers, task[t] # None,
         NEW u \in Threads, OnCpu(u), task[u] = task[t]
  PROVE  u = t
BY DEF ComputingInv, CustodyInv, OneOwner, Owns

\* A step that lets no fiber on or off a processor, submits none and ends only fibers
\* that execute is none of the task pool's.
LEMMA PoolStutters ==
  ASSUME ComputingInv, ComputingInv', UNCHANGED submits,
         \A u \in Threads : (OnCpu(u)' <=> OnCpu(u)) /\ (OnCpu(u) => task'[u] = task[u]),
         \A f \in Fibers : ~Executes(f) => (state'[f] \in Finished <=> state[f] \in Finished),
         At(Caller, "returned")' <=> At(Caller, "returned")
  PROVE  UNCHANGED Pool!poolVars
<1>1. \A f \in Fibers : Executes(f)' <=> Executes(f)
  BY DEF Executes
<1>2. PoolReady' = PoolReady /\ PoolDone' = PoolDone /\ PoolWaiting' = PoolWaiting
  <2>1. PoolViews /\ PoolViews'
    BY PoolIsViewed, PTL
  <2>2. QED
    BY <1>1, <2>1 DEF PoolViews
<1>3. PoolRunning' = PoolRunning
  BY DEF PoolRunning
<1>4. QED
  BY <1>2, <1>3 DEF Pool!poolVars, At

\* While any thread has work, stop() has not returned.
LEMMA NotReturned ==
  ASSUME ComputingInv, NEW t \in Threads, pc[t] \notin {"exited", "returned"}
  PROVE  ~At(Caller, "returned")
BY DEF ComputingInv, ControlInv, Phases, Threads, At

\* Switching to a task's fiber executes it.
LEMMA PoolDispatch ==
  ASSUME ComputingInv, ComputingInv', NEW t \in Threads, Dispatch(t)
  PROVE  Pool!PoolNext
<1> DEFINE g == task[t]
<1>1. /\ g \in Fibers /\ g # None /\ pc[t] = "dispatch" /\ state[g] \notin Finished
      /\ ~OnCpu(t) /\ Owns(t, g)
      /\ UNCHANGED <<task, submits, call>>
  BY DEF Dispatch, At, ComputingInv, ControlInv, TypeInv, TypeOK, OnCpu, SchedPc, Owns, locals,
         bounds
<1>2. /\ pc'[t] = "running" /\ \A u \in Threads \ {t} : pc'[u] = pc[u]
      /\ state'[g] = "EXECUTE" /\ \A f \in Fibers \ {g} : state'[f] = state[f]
  BY <1>1 DEF Dispatch, Goto, SwapIn, ComputingInv, ControlInv, TypeInv, TypeOK, FiberTypeOK
<1>3. OnCpu(t)' /\ \A u \in Threads \ {t} : OnCpu(u)' <=> OnCpu(u)
  BY <1>1, <1>2 DEF OnCpu
<1>4. ~Executes(g) /\ submits[g] # 0
  BY <1>1, ExecutesOne DEF Executes, ComputingInv, CustodyInv, Fresh
<1>5. \A f \in Fibers : Executes(f)' <=> Executes(f) \/ f = g
  BY <1>1, <1>3 DEF Executes
<1>6. PoolViews /\ PoolViews'
  BY PoolIsViewed, PTL
<1> HIDE DEF g
<1>7. g \in PoolReady /\ PoolReady' = PoolReady \ {g}
  BY <1>1, <1>2, <1>4, <1>5, <1>6 DEF PoolViews, Finished
<1>8. PoolDone' = PoolDone /\ PoolWaiting' = PoolWaiting
  BY <1>1, <1>2, <1>4, <1>5, <1>6 DEF PoolViews, Finished
<1>9. PoolRunning[t] = None /\ PoolRunning' = [PoolRunning EXCEPT ![t] = g]
  BY <1>1, <1>3 DEF PoolRunning, g
<1>10. UNCHANGED At(Caller, "returned")
  BY <1>1, <1>2, NotReturned DEF At, Threads
<1>11. Pool!Execute(t, g)
  BY <1>7, <1>8, <1>9, <1>10 DEF Pool!Execute
<1>12. QED
  BY <1>1, <1>11 DEF Pool!PoolNext

\* A fiber that leaves its thread is ready again or done.
LEMMA PoolLeave ==
  ASSUME ComputingInv, ComputingInv', NEW t \in Threads, LeaveFiber(t)
  PROVE  Pool!PoolNext
<1> DEFINE g == task[t]
<1>1. /\ g \in Fibers /\ g # None /\ pc[t] = "swap_out" /\ OnCpu(t)
      /\ Owns(t, g) /\ state[g] \in Finished \cup {"READY"}
      /\ UNCHANGED <<task, submits, call, state>>
  BY OnCpuTask
     DEF LeaveFiber, At, OnCpu, Owns, locals, bounds, SwapOut, ComputingInv, CustodyInv, StateFits,
         Fits
<1>2. pc'[t] = "count_down" /\ \A u \in Threads \ {t} : pc'[u] = pc[u]
  BY DEF LeaveFiber, Goto, ComputingInv, ControlInv, TypeInv, TypeOK
<1>3. ~OnCpu(t)' /\ \A u \in Threads \ {t} : OnCpu(u)' <=> OnCpu(u)
  BY <1>1, <1>2 DEF OnCpu, SchedPc
<1>4. Executes(g) /\ submits[g] # 0 /\ \A u \in Threads : OnCpu(u) /\ task[u] = g => u = t
  BY <1>1, ExecutesOne DEF Executes, ComputingInv, CustodyInv, Fresh
<1>5. \A f \in Fibers : Executes(f)' <=> Executes(f) /\ f # g
  BY <1>1, <1>3, <1>4 DEF Executes
<1>6. PoolViews /\ PoolViews'
  BY PoolIsViewed, PTL
<1>7. PoolRunning[t] = g /\ PoolRunning' = [PoolRunning EXCEPT ![t] = None]
  BY <1>1, <1>3 DEF PoolRunning
<1> HIDE DEF g
<1>8. ASSUME state[g] \in Finished
      PROVE  PoolDone' = PoolDone \cup {g} /\ PoolReady' = PoolReady /\ PoolWaiting' = PoolWaiting
  BY <1>1, <1>4, <1>5, <1>6, <1>8 DEF PoolViews
<1>9. ASSUME state[g] \notin Finished
      PROVE  PoolReady' = PoolReady \cup {g} /\ PoolDone' = PoolDone /\ PoolWaiting' = PoolWaiting
  BY <1>1, <1>4, <1>5, <1>6, <1>9 DEF PoolViews
<1>10. UNCHANGED At(Caller, "returned")
  BY <1>1, <1>2, NotReturned DEF At, Threads
<1>11. Pool!Leave(t)
  BY <1>1, <1>7, <1>8, <1>9, <1>10 DEF Pool!Leave
<1>12. QED
  BY <1>11 DEF Pool!PoolNext

\* A fiber that is submitted for the first time is ready.
LEMMA PoolEnter ==
  ASSUME ComputingInv, ComputingInv', NEW t \in Threads, NEW f \in Fibers, NEW pin, NEW ret,
         CallSchedule(t, f, pin, ret), UNCHANGED <<state, task>>, ~Scheduling(t),
         submits[f] = 0, submits' = [submits EXCEPT ![f] = 1],
         (pc[t] = "running" /\ ret = "running") \/ (pc[t] = "app" /\ ret = "app")
  PROVE  Pool!PoolNext
<1>1. /\ pc'[t] = "sched_read" /\ call'[t].ret = ret
      /\ \A u \in Threads \ {t} : pc'[u] = pc[u] /\ call'[u] = call[u]
  BY CallScheduleFrame DEF ComputingInv, ControlInv
<1>2. \A u \in Threads : OnCpu(u)' <=> OnCpu(u)
  BY <1>1 DEF OnCpu, SchedPc
<1>3. \A h \in Fibers : Executes(h)' <=> Executes(h)
  BY <1>2 DEF Executes
<1>4. submits'[f] = 1 /\ \A h \in Fibers \ {f} : submits'[h] = submits[h]
  BY DEF ComputingInv, ControlInv, TypeInv, TypeOK
<1>5. state[f] \notin Finished /\ \A u \in Threads : ~Owns(u, f)
  BY DEF ComputingInv, CustodyInv, Fresh, Finished
<1>6. ~Executes(f)
  BY <1>5 DEF Executes, Owns
<1>7. PoolViews /\ PoolViews'
  BY PoolIsViewed, PTL
<1>8. /\ f \notin PoolReady \cup PoolWaiting \cup PoolDone
      /\ PoolReady' = PoolReady \cup {f} /\ PoolDone' = PoolDone /\ PoolWaiting' = PoolWaiting
  BY <1>3, <1>4, <1>5, <1>6, <1>7 DEF PoolViews
<1>9. PoolRunning' = PoolRunning
  BY <1>2 DEF PoolRunning
<1>10. \A u \in Threads : PoolRunning[u] # f
  BY <1>6, NoneIsNoFiber DEF PoolRunning, Executes
<1>11. ~At(Caller, "returned") /\ ~At(Caller, "returned")'
  BY <1>1, NotReturned DEF At, Threads
<1>12. Pool!Schedule(f)
  BY <1>8, <1>9, <1>10, <1>11 DEF Pool!Schedule, Pool!Executing, At
<1>13. QED
  BY <1>12 DEF Pool!PoolNext

\* stop() returns when nothing is ready, waiting or running.
LEMMA PoolReturn ==
  ASSUME ComputingInv, ComputingInv', StopReturn
  PROVE  Pool!PoolNext
<1>1. /\ pc[Caller] = "join" /\ pc'[Caller] = "returned" /\ Caller \in Threads
      /\ \A u \in Threads \ {Caller} : pc[u] = "exited" /\ pc'[u] = pc[u]
      /\ UNCHANGED <<state, task, submits, call>>
  BY DEF StopReturn, At, Goto, Threads, fiberVars, locals, bounds, ComputingInv, ControlInv,
         TypeInv, TypeOK
<1>2. \A u \in Threads : ~OnCpu(u) /\ ~OnCpu(u)'
  BY <1>1 DEF OnCpu, SchedPc
<1>3. \A f \in Fibers : ~Executes(f) /\ ~Executes(f)'
  BY <1>2 DEF Executes
<1>4. PoolViews /\ PoolViews' /\ StopDrains'
  BY PoolIsViewed, StopDrained, PTL
<1>5. \A f \in Fibers : submits[f] # 0 => state[f] \in Finished
  <2>1. submits \in [Fibers -> Nat]
    BY DEF ComputingInv, ControlInv, TypeInv, TypeOK
  <2>2. QED
    BY <1>1, <1>4, <2>1 DEF StopDrains, At
<1>6. /\ PoolReady = {} /\ PoolReady' = {} /\ PoolDone' = PoolDone
      /\ PoolWaiting = {} /\ PoolWaiting' = {}
  BY <1>1, <1>3, <1>4, <1>5 DEF PoolViews
<1>7. PoolRunning' = PoolRunning /\ \A u \in Threads : PoolRunning[u] = None
  BY <1>2 DEF PoolRunning
<1>8. Pool!StopReturns
  BY <1>1, <1>6, <1>7 DEF Pool!StopReturns, At
<1>9. QED
  BY <1>8 DEF Pool!PoolNext

\* A step of t outside the code of its fiber that changes no fiber's state, and leaves
\* t outside.
LEMMA PoolOutside ==
  ASSUME ComputingInv, ComputingInv', NEW t \in Threads,
         UNCHANGED <<state, submits>>, ~OnCpu(t), ~OnCpu(t)',
         \A u \in Threads \ {t} : pc'[u] = pc[u] /\ call'[u] = call[u] /\ task'[u] = task[u],
         pc[t] # "returned", pc'[t] # "returned"
  PROVE  UNCHANGED Pool!poolVars
<1>1. \A u \in Threads \ {t} : OnCpu(u)' <=> OnCpu(u)
  BY DEF OnCpu
<1>2. At(Caller, "returned")' <=> At(Caller, "returned")
  BY DEF At, Threads
<1>3. QED
  BY <1>1, <1>2, PoolStutters

\* A step of t inside the code of its fiber that ends no other fiber.
LEMMA PoolInside ==
  ASSUME ComputingInv, ComputingInv', NEW t \in Threads,
         UNCHANGED <<task, submits>>, OnCpu(t), OnCpu(t)',
         \A u \in Threads \ {t} : pc'[u] = pc[u] /\ call'[u] = call[u],
         \A f \in Fibers \ {task[t]} : state'[f] = state[f]
  PROVE  UNCHANGED Pool!poolVars
<1>1. \A u \in Threads \ {t} : OnCpu(u)' <=> OnCpu(u)
  BY DEF OnCpu
<1>2. At(Caller, "returned")' <=> At(Caller, "returned")
  BY DEF OnCpu, At, Threads, SchedPc
<1>3. \A f \in Fibers : ~Executes(f) => f # task[t]
  BY DEF Executes
<1>4. QED
  BY <1>1, <1>2, <1>3, PoolStutters

\* Inside schedule() nothing happens to the pool: the fiber is ready already.
LEMMA PoolScheduleStep ==
  ASSUME ComputingInv, ComputingInv', NEW t \in Threads, ScheduleStep(t)
  PROVE  UNCHANGED Pool!poolVars
<1>1. /\ pc[t] \in SchedPc /\ UNCHANGED <<state, submits, task>>
      /\ call[t].ret \in {"app", "running", "scan"}
  BY DEF ScheduleStep, SchedRead, SchedPush, SchedTickle, At, SchedPc, fiberVars, bounds,
         ComputingInv, ControlInv, TypeInv, TaskOK, NoEvents
<1>2. /\ (pc'[t] \in SchedPc /\ call'[t].ret = call[t].ret) \/ pc'[t] = call[t].ret
      /\ \A u \in Threads \ {t} : pc'[u] = pc[u] /\ call'[u] = call[u]
  <2>1. CASE SchedRead(t)
    BY <2>1, SchedReadFrame DEF SchedRead, SchedPc, ComputingInv, ControlInv
  <2>2. CASE SchedPush(t)
    <3>1. CASE call[t].need
      BY <2>2, <3>1 DEF SchedPush, Goto, SchedPc, ComputingInv, ControlInv, TypeInv, TypeOK
    <3>2. CASE ~call[t].need
      BY <2>2, <3>2, ReturnFrame DEF SchedPush, ComputingInv, ControlInv
    <3>3. QED
      BY <3>1, <3>2
  <2>3. CASE SchedTickle(t)
    BY <2>3, ReturnFrame DEF SchedTickle, ComputingInv, ControlInv
  <2>4. QED
    BY <2>1, <2>2, <2>3 DEF ScheduleStep
<1>3. CASE call[t].ret = "running"
  <2>1. OnCpu(t) /\ OnCpu(t)'
    BY <1>1, <1>2, <1>3 DEF OnCpu
  <2>2. QED
    BY <1>1, <1>2, <2>1, PoolInside
<1>4. CASE call[t].ret # "running"
  <2>1. ~OnCpu(t) /\ ~OnCpu(t)' /\ pc[t] # "returned" /\ pc'[t] # "returned"
    BY <1>1, <1>2, <1>4 DEF OnCpu, SchedPc
  <2>2. QED
    BY <1>1, <1>2, <2>1, PoolOutside
<1>5. QED
  BY <1>3, <1>4

\* run() changes the pool only where it switches to a fiber.
LEMMA PoolTaskStep ==
  ASSUME ComputingInv, ComputingInv', NEW t \in Threads, TaskStep(t)
  PROVE  [Pool!PoolNext]_Pool!poolVars
<1> USE DEF Goto, At, SchedPc, fiberVars, counters, locals, bounds, OnCpu
<1>a. /\ TypeInv /\ pc \in [Threads -> PC] /\ task \in [Threads -> Fibers \cup {None}]
      /\ call \in [Threads -> CallRecord] /\ Fits(t)
  BY DEF ComputingInv, ControlInv, TypeInv, TypeOK, CustodyInv, StateFits
<1>1. CASE Dispatch(t)
  BY <1>1, PoolDispatch
<1>2. CASE ScanTake(t)
  BY <1>a, <1>2, PoolOutside DEF ScanTake
<1>3. CASE ScanNothing(t)
  BY <1>a, <1>3, PoolOutside DEF ScanNothing
<1>4. CASE CountUp(t)
  BY <1>a, <1>4, PoolOutside DEF CountUp
<1>5. CASE TickleMe(t)
  BY <1>a, <1>5, PoolOutside DEF TickleMe
<1>6. CASE DropFinished(t)
  BY <1>a, <1>6, PoolOutside DEF DropFinished
<1>7. CASE SwapInFails(t)
  BY <1>a, <1>7, PoolOutside DEF SwapInFails
<1>8. CASE CountDown(t)
  BY <1>a, <1>8, PoolOutside DEF CountDown
<1>9. CASE StoreDown(t)
  BY <1>a, <1>9, PoolOutside DEF StoreDown
<1>10. CASE Requeue(t)
  <2>1. /\ pc[t] = "post" /\ pc'[t] = "sched_read" /\ call'[t].ret = "scan"
        /\ \A u \in Threads \ {t} : pc'[u] = pc[u] /\ call'[u] = call[u] /\ task'[u] = task[u]
        /\ UNCHANGED <<state, submits>>
    BY <1>a, <1>10, CallScheduleFrame DEF Requeue
  <2>2. QED
    BY <2>1, PoolOutside
<1>11. CASE DropEnded(t)
  BY <1>a, <1>11, PoolOutside DEF DropEnded
<1>12. CASE DecideHold(t)
  BY <1>a, <1>12, PoolOutside DEF DecideHold
<1>13. CASE SetHold(t)
  BY <1>a, <1>13 DEF SetHold, Fits
<1>14. QED
  BY <1>1, <1>2, <1>3, <1>4, <1>5, <1>6, <1>7, <1>8, <1>9, <1>10, <1>11, <1>12, <1>13 DEF TaskStep

\* A fiber changes the pool where it submits another one and where it leaves its thread.
LEMMA PoolFiberStep ==
  ASSUME Computing, ComputingInv, ComputingInv', NEW t \in Threads, FiberStep(t)
  PROVE  [Pool!PoolNext]_Pool!poolVars
<1> USE DEF Goto, At, SchedPc, fiberVars, counters, locals, bounds, OnCpu
<1>a. /\ TypeInv /\ pc \in [Threads -> PC] /\ task \in [Threads -> Fibers \cup {None}]
      /\ state \in [Fibers -> FiberState] /\ NoEvents
  BY DEF ComputingInv, ControlInv, TypeInv, TypeOK, FiberTypeOK
<1>1. ASSUME NEW s \in Finished, Finish(t, s) PROVE UNCHANGED Pool!poolVars
  BY <1>a, <1>1, PoolInside DEF Finish, Publish
<1>2. ASSUME YieldToReady(t) PROVE UNCHANGED Pool!poolVars
  BY <1>a, <1>2, PoolInside DEF YieldToReady, Publish
<1>3. ASSUME NEW f \in Fibers, NEW pin \in Pinning, Spawn(t, f, pin) PROVE Pool!PoolNext
  BY <1>a, <1>3, PoolEnter DEF Spawn, Scheduling
<1>4. ASSUME LeaveFiber(t) PROVE Pool!PoolNext
  BY <1>4, PoolLeave
<1>5. ~Arm(t) /\ ~YieldToHold(t) /\ ~AddEventFails(t)
  BY <1>a DEF Arm, YieldToHold, AddEventFails, Computing, NoEvents
<1>6. QED
  BY <1>1, <1>2, <1>3, <1>4, <1>5 DEF FiberStep

\* The idle fiber leaves the pool alone.
LEMMA PoolIdleStep ==
  ASSUME ComputingInv, ComputingInv', NEW t \in Threads, IdleStep(t)
  PROVE  UNCHANGED Pool!poolVars
<1> USE DEF Goto, At, SchedPc, fiberVars, counters, locals, bounds, OnCpu
<1>a. pc \in [Threads -> PC] /\ NoEvents
  BY DEF ComputingInv, ControlInv, TypeInv, TypeOK
<1>1. ASSUME NEW f \in Fibers, Trigger(t, f) PROVE FALSE
  BY <1>a, <1>1 DEF Trigger, NoEvents
<1>2. /\ UNCHANGED <<state, submits, task, call>>
      /\ pc[t] \in {"dispatch", "check_pending", "check_tasks", "epoll", "pending_down", "handle",
                    "idle_down"}
      /\ pc'[t] \in {"check_pending", "check_tasks", "epoll", "handle", "idle_down", "scan", "join",
                     "exited"}
      /\ \A u \in Threads \ {t} : pc'[u] = pc[u]
  BY <1>a, <1>1
     DEF IdleStep, GoIdle, CheckPending, CheckTasks, EpollReturn, PendingDown, HandleDone,
         IdleDown, ExitRun
<1>3. QED
  BY <1>2, PoolOutside

\* stop() changes the pool only by returning.
LEMMA PoolStopStep ==
  ASSUME ComputingInv, ComputingInv', StopStep
  PROVE  [Pool!PoolNext]_Pool!poolVars
<1>1. CASE StopReturn
  BY <1>1, PoolReturn
<1>2. CASE ~StopReturn
  <2>1. /\ UNCHANGED <<state, submits, task, call>> /\ Caller \in Threads
        /\ pc[Caller] \in {"stop_tickle", "stop_pending", "stop_tasks"}
        /\ pc'[Caller] \in {"stop_tickle", "stop_pending", "stop_tasks", "join", "scan"}
        /\ \A u \in Threads \ {Caller} : pc'[u] = pc[u]
    BY <1>2 DEF StopStep, StopTickle, StopFlag, StopCheckPending, StopCheckTasks, Goto, At, Threads,
         fiberVars, locals, bounds, ComputingInv, ControlInv, TypeInv, TypeOK
  <2>2. QED
    BY <2>1, PoolOutside DEF OnCpu, SchedPc
<1>3. QED
  BY <1>1, <1>2

\* Every step of the scheduler is a step of the task pool or none.
LEMMA PoolStep ==
  Computing /\ ComputingInv /\ ComputingInv' /\ [Next]_vars => [Pool!PoolNext]_Pool!poolVars
<1> SUFFICES ASSUME Computing, ComputingInv, ComputingInv', [Next]_vars
             PROVE  [Pool!PoolNext]_Pool!poolVars
  OBVIOUS
<1>1. ASSUME NEW t \in Threads, ThreadStep(t) PROVE [Pool!PoolNext]_Pool!poolVars
  BY <1>1, PoolScheduleStep, PoolTaskStep, PoolFiberStep, PoolIdleStep DEF ThreadStep
<1>2. ASSUME NEW f \in Fibers, NEW pin \in Pinning, Submit(f, pin) PROVE Pool!PoolNext
  <2>1. submits[f] \in Nat /\ MaxSubmits = 1 /\ f \notin Waiters
    BY DEF ComputingInv, ControlInv, TypeInv, TypeOK, Computing
  <2>2. submits[f] < 1 /\ submits' = [submits EXCEPT ![f] = submits[f] + 1]
    BY <1>2, <2>1 DEF Submit
  <2>3. submits[f] = 0
    BY <2>1, <2>2
  <2>4. /\ Caller \in Threads /\ pc[Caller] = "app" /\ ~Scheduling(Caller)
        /\ CallSchedule(Caller, f, pin, "app") /\ UNCHANGED <<state, task>>
    BY <1>2 DEF Submit, At, Threads, Scheduling, fiberVars
  <2>5. submits' = [submits EXCEPT ![f] = 1]
    BY <2>2, <2>3
  <2>6. QED
    BY <2>3, <2>4, <2>5, PoolEnter
<1>3. ASSUME StopBegin PROVE UNCHANGED Pool!poolVars
  <2>1. /\ UNCHANGED <<state, submits, task, call>> /\ Caller \in Threads
        /\ pc[Caller] = "app" /\ pc'[Caller] = "stop_tickle"
        /\ \A u \in Threads \ {Caller} : pc'[u] = pc[u]
    BY <1>3 DEF StopBegin, Goto, At, Threads, fiberVars, locals, bounds, ComputingInv, ControlInv,
         TypeInv, TypeOK
  <2>2. QED
    BY <2>1, PoolOutside DEF OnCpu, SchedPc
<1>4. ASSUME UNCHANGED vars PROVE UNCHANGED Pool!poolVars
  BY <1>4, PoolStutters DEF vars, fiberVars, locals, bounds, OnCpu, At
<1>5. QED
  BY <1>1, <1>2, <1>3, <1>4, PoolStopStep DEF Next

\* At the start the pool is empty.
LEMMA PoolInitial == Computing /\ Init => Pool!PoolInit
<1> SUFFICES ASSUME Computing, Init PROVE Pool!PoolInit
  OBVIOUS
<1>1. ComputingInv
  BY ControlInit, CustodyInit, InitDrains DEF ComputingInv
<1>2. \A t \in Threads : ~OnCpu(t)
  BY DEF Init, OnCpu, SchedPc
<1>3. PoolViews
  BY <1>1, PoolIsViewed
<1>4. /\ PoolReady = {} /\ PoolWaiting = {} /\ PoolDone = {}
  BY <1>3 DEF PoolViews, Init, FiberInit, Finished
<1>5. PoolRunning = [t \in Threads |-> None] /\ ~At(Caller, "returned")
  BY <1>2 DEF PoolRunning, Init, At, Threads
<1>6. QED
  BY <1>4, <1>5 DEF Pool!PoolInit

\* With computing tasks the scheduler implements the task pool, for any number of
\* threads and fibers: a fiber is executed by one thread at a time, comes back after
\* every yield, never runs again once it has ended, and stop() returns only when
\* nothing is ready or running.
THEOREM PoolImplemented ==
  ASSUME Computing
  PROVE  Spec => ImplementsPool
<1>1. Init => Pool!PoolInit
  BY PoolInitial
<1>2. ComputingInv /\ ComputingInv' /\ [Next]_vars => [Pool!PoolNext]_Pool!poolVars
  BY PoolStep
<1>3. QED
  BY <1>1, <1>2, ComputingInvariant, PTL DEF Spec, ImplementsPool, Pool!PoolSpec

-----------------------------------------------------------------------------
(* The only thread                                                         *)

AloneAt(t) == Taskless /\ AlonePlace(t) /\ AloneFiber(t) /\ AloneCount(t) /\ AloneHeld(t)

\* There is one thread.
LEMMA OnlyCaller ==
  ASSUME Alone
  PROVE  Threads = {Caller} /\ Runners = {Caller}
BY DEF Alone, Threads, Runners

\* The types a step starts from.
LEMMA AloneTypes ==
  ASSUME TypeInv
  PROVE  /\ pc \in [Threads -> PC] /\ task \in [Threads -> Fibers \cup {None}]
         /\ state \in [Fibers -> FiberState] /\ saved \in [Fibers -> BOOLEAN]
         /\ tickleMe \in [Threads -> BOOLEAN] /\ reg \in [Threads -> 0..(CounterMod - 1)]
         /\ call \in [Threads -> CallRecord] /\ queue \in Seq(Entry)
         /\ stopped \in BOOLEAN /\ submits \in [Fibers -> Nat] /\ None \notin Fibers
BY NoneIsNoFiber DEF TypeInv, TypeOK, FiberTypeOK

\* The fiber on the thread is one.
LEMMA AloneTask ==
  ASSUME TypeInv, NEW t \in Threads
  PROVE  /\ task[t] # None => task[t] \in Fibers
         /\ OnCpu(t) => task[t] \in Fibers
BY DEF TypeInv, TypeOK, TaskOK, OnCpu

\* With no event counted, none is registered.
LEMMA NonePending ==
  ASSUME PendingInv, pending = 0
  PROVE  armed = {}
<1>1. Cardinality(armed) \in Nat /\ Cardinality(Triggering) \in Nat
  BY TriggeringFinite, FS_CardinalityType DEF PendingInv
<1>2. Cardinality(armed) = 0
  BY <1>1 DEF PendingInv
<1>3. QED
  BY <1>2, FS_EmptySet DEF PendingInv

\* Every task is for the only thread.
LEMMA AllMine ==
  ASSUME Alone, AloneInv, NEW t \in Threads, NEW i \in 1..Len(queue)
  PROVE  Mine(t, queue[i])
<1>1. queue[i] \in Entry
  BY ElementOfSeq DEF AloneInv, TypeInv, TypeOK
<1>2. QED
  BY <1>1, OnlyCaller DEF Entry, Mine

\* A thread that is alone and finds nothing to take sees an empty list.
LEMMA AloneEmpty ==
  ASSUME Alone, AloneInv, NEW t \in Threads, pc[t] = "scan",
         \A i \in 1..Len(queue) : ~Takeable(t, i)
  PROVE  queue = <<>>
<1>1. queue \in Seq(Entry) /\ Len(queue) \in Nat
  BY LenProperties DEF AloneInv, TypeInv, TypeOK
<1>2. ASSUME NEW i \in 1..Len(queue) PROVE FALSE
  <2>1. queue[i] \in Entry
    BY <1>1, ElementOfSeq
  <2>2. queue[i].pin \in {AnyThread, t} /\ queue[i].fiber \in Fibers
    BY <2>1, OnlyCaller DEF Entry
  <2>3. state[queue[i].fiber] # "EXECUTE"
    BY <2>2 DEF AloneInv, AloneFiber, OnCpu, SchedPc
  <2>4. QED
    BY <2>2, <2>3 DEF Takeable, Mine
<1>3. Len(queue) = 0
  BY <1>1, <1>2
<1>4. QED
  BY <1>1, <1>3, EmptySeq

-----------------------------------------------------------------------------
(* What the thread knows at each place                                     *)

\* schedule() keeps it: it changes the list only where nothing is known of it.
LEMMA AloneScheduleStep ==
  ASSUME Alone, AloneInv, NEW t \in Threads, ScheduleStep(t)
  PROVE  AloneAt(t)'
<1> USE DEF AloneAt, Taskless, AlonePlace, AloneFiber, StopPc, AloneCount, AloneHeld, BeforeStop, FoundNothing,
            Treating, Counted, OnCpu, SchedPc, fiberVars, counters, bounds
<1>1. /\ AloneAt(t) /\ pc[t] \in SchedPc
      /\ call[t].ret \in {"app", "running", "scan", "pending_down"}
      /\ call[t].ret # "running" => task[t] = None
      /\ UNCHANGED <<state, saved, active, stopped, armed, task, tickleMe, reg, idleDone>>
  BY DEF AloneInv, TypeInv, TaskOK, ScheduleStep, SchedRead, SchedPush, SchedTickle, At
<1>2. (pc'[t] \in SchedPc /\ call'[t].ret = call[t].ret) \/ pc'[t] = call[t].ret
  <2>1. CASE SchedRead(t)
    BY <2>1, SchedReadFrame DEF SchedRead, AloneInv
  <2>2. CASE SchedPush(t) /\ call[t].need
    BY <2>2 DEF SchedPush, Goto, AloneInv, TypeInv, TypeOK
  <2>3. CASE SchedPush(t) /\ ~call[t].need
    BY <2>3, ReturnFrame DEF SchedPush, AloneInv
  <2>4. CASE SchedTickle(t)
    BY <2>4, ReturnFrame DEF SchedTickle, AloneInv
  <2>5. QED
    BY <2>1, <2>2, <2>3, <2>4 DEF ScheduleStep
<1>3. AlonePlace(t)'
  BY <1>1, <1>2
<1>4. AloneFiber(t)'
  BY <1>1, <1>2
<1>5. AloneCount(t)'
  BY <1>1, <1>2
<1>6. AloneHeld(t)'
  BY <1>1, <1>2
<1>7. Taskless'
  BY <1>1, <1>2, OnlyCaller
<1>8. QED
  BY <1>3, <1>4, <1>5, <1>6, <1>7

\* run() learns what it knows where it takes and puts back tasks.
LEMMA AloneTaskStep ==
  ASSUME Alone, AloneInv, NEW t \in Threads, TaskStep(t)
  PROVE  AloneAt(t)'
<1> USE DEF AloneAt, Taskless, AlonePlace, AloneFiber, StopPc, AloneCount, AloneHeld, BeforeStop, FoundNothing,
            Treating, Counted, OnCpu, SchedPc, Goto, At, fiberVars, counters, locals, bounds
<1>a. AloneAt(t) /\ TypeInv /\ Taskless
  BY DEF AloneInv
<1>b. /\ pc \in [Threads -> PC] /\ task \in [Threads -> Fibers \cup {None}]
      /\ state \in [Fibers -> FiberState] /\ saved \in [Fibers -> BOOLEAN]
      /\ reg \in [Threads -> 0..(CounterMod - 1)] /\ tickleMe \in [Threads -> BOOLEAN]
      /\ call \in [Threads -> CallRecord]
      /\ Threads = {Caller}
  BY <1>a, AloneTypes, OnlyCaller
<1>c. /\ task[t] # None => task[t] \in Fibers
      /\ pc[t] \in {"count_up", "running", "holding", "swap_out", "post", "set_hold"} =>
           task[t] # None
  BY <1>a, AloneTask DEF TypeInv, TaskOK
<1>1. ASSUME ScanTake(t) PROVE AloneAt(t)'
  <2>1. PICK i \in 1..Len(queue) : task' = [task EXCEPT ![t] = queue[i].fiber]
    BY <1>1 DEF ScanTake
  <2>2. /\ pc[t] = "scan" /\ pc'[t] = "count_up" /\ reg'[t] = active /\ active = 0
        /\ task'[t] = queue[i].fiber /\ task[t] = None
        /\ UNCHANGED <<state, saved, active, stopped, idleDone, armed, call>>
    BY <1>a, <1>b, <1>1, <2>1 DEF ScanTake
  <2>3. t \notin idleDone
    BY <1>a, EmptySeq
  <2>4. ~tickleMe'[t]
    BY <1>1, <1>b, AllMine DEF ScanTake
  <2>5. \A f \in Fibers : state[f] # "EXECUTE" /\ saved[f]
    BY <1>a, <1>b, <2>2
  <2>6. AlonePlace(t)'
    BY <1>a, <1>b, <2>2, <2>3, <2>4
  <2>7. AloneFiber(t)' /\ AloneCount(t)' /\ AloneHeld(t)'
    BY <1>a, <1>b, <2>2, <2>5
  <2>8. Taskless'
    BY <1>b, <2>2
  <2>9. QED
    BY <2>6, <2>7, <2>8
<1>2. ASSUME ScanNothing(t) PROVE AloneAt(t)'
  <2>1. /\ pc[t] = "scan" /\ \A i \in 1..Len(queue) : ~Takeable(t, i)
        /\ tickleMe' = [tickleMe EXCEPT ![t] = \E j \in 1..Len(queue) : ~Mine(t, queue[j])]
    BY <1>2 DEF ScanNothing
  <2>2. queue = <<>> /\ tickleMe'[t] = FALSE
    BY <1>b, <2>1, AloneEmpty, AllMine
  <2>3. QED
    BY <1>a, <1>b, <1>c, <1>2, <2>2 DEF ScanNothing
<1>3. ASSUME CountUp(t) PROVE AloneAt(t)'
  <2>1. reg[t] = 0 /\ (0 + 1) % CounterMod = 1
    BY <1>a, <1>3, CounterModAssumption DEF CountUp
  <2>2. active' = 1
    BY <1>3, <2>1 DEF CountUp
  <2>3. QED
    BY <1>a, <1>b, <1>c, <1>3, <2>2 DEF CountUp
<1>4. ASSUME TickleMe(t) PROVE AloneAt(t)'
  BY <1>a, <1>b, <1>c, <1>4 DEF TickleMe
<1>5. ASSUME Dispatch(t) PROVE AloneAt(t)'
  BY <1>a, <1>b, <1>c, <1>5 DEF Dispatch, SwapIn, CanSwapIn
<1>6. ASSUME DropFinished(t) PROVE AloneAt(t)'
  BY <1>a, <1>b, <1>c, <1>6 DEF DropFinished
<1>7. ASSUME SwapInFails(t) PROVE AloneAt(t)'
  BY <1>a, <1>b, <1>c, <1>7 DEF SwapInFails, CanSwapIn
<1>8. ASSUME CountDown(t) PROVE AloneAt(t)'
  BY <1>a, <1>b, <1>c, <1>8 DEF CountDown
<1>9. ASSUME StoreDown(t) PROVE AloneAt(t)'
  <2>1. reg[t] = 1 /\ (1 - 1) % CounterMod = 0
    BY <1>a, <1>9, CounterModAssumption DEF StoreDown
  <2>2. active' = 0
    BY <1>9, <2>1 DEF StoreDown
  <2>3. QED
    BY <1>a, <1>b, <1>c, <1>9, <2>2 DEF StoreDown
<1>10. ASSUME Requeue(t) PROVE AloneAt(t)'
  BY <1>a, <1>b, <1>c, <1>10, CallScheduleFrame DEF Requeue
<1>11. ASSUME DropEnded(t) PROVE AloneAt(t)'
  BY <1>a, <1>b, <1>c, <1>11 DEF DropEnded
<1>12. ASSUME DecideHold(t) PROVE AloneAt(t)'
  BY <1>a, <1>b, <1>c, <1>12 DEF DecideHold
<1>13. ASSUME SetHold(t) PROVE AloneAt(t)'
  BY <1>a, <1>b, <1>c, <1>13 DEF SetHold, Publish
<1>14. QED
  BY <1>1, <1>2, <1>3, <1>4, <1>5, <1>6, <1>7, <1>8, <1>9, <1>10, <1>11, <1>12, <1>13 DEF TaskStep

\* A fiber executes, is suspended after it is registered, and leaves its thread.
LEMMA AloneFiberStep ==
  ASSUME Alone, AloneInv, NEW t \in Threads, FiberStep(t)
  PROVE  AloneAt(t)'
<1> USE DEF AloneAt, Taskless, AlonePlace, AloneFiber, StopPc, AloneCount, AloneHeld, BeforeStop, FoundNothing,
            Treating, Counted, OnCpu, SchedPc, Goto, At, fiberVars, counters, locals, bounds
<1>a. AloneAt(t) /\ TypeInv /\ Taskless
  BY DEF AloneInv
<1>b. /\ pc \in [Threads -> PC] /\ task \in [Threads -> Fibers \cup {None}]
      /\ state \in [Fibers -> FiberState] /\ saved \in [Fibers -> BOOLEAN]
      /\ reg \in [Threads -> 0..(CounterMod - 1)] /\ tickleMe \in [Threads -> BOOLEAN]
      /\ call \in [Threads -> CallRecord]
      /\ Threads = {Caller}
  BY <1>a, AloneTypes, OnlyCaller
<1>c. /\ task[t] # None => task[t] \in Fibers
      /\ pc[t] \in {"count_up", "running", "holding", "swap_out", "post", "set_hold"} =>
           task[t] # None
  BY <1>a, AloneTask DEF TypeInv, TaskOK
<1>1. ASSUME NEW s \in Finished, Finish(t, s) PROVE AloneAt(t)'
  BY <1>a, <1>b, <1>c, <1>1 DEF Finish, Publish, Finished
<1>2. ASSUME YieldToReady(t) PROVE AloneAt(t)'
  BY <1>a, <1>b, <1>c, <1>2 DEF YieldToReady, Publish
<1>3. ASSUME Arm(t) PROVE AloneAt(t)'
  BY <1>a, <1>b, <1>c, <1>3 DEF Arm
<1>4. ASSUME YieldToHold(t) PROVE AloneAt(t)'
  BY <1>a, <1>b, <1>c, <1>4 DEF YieldToHold, Publish
<1>5. ASSUME AddEventFails(t) PROVE AloneAt(t)'
  BY <1>a, <1>b, <1>c, <1>5 DEF AddEventFails
<1>6. ASSUME NEW f \in Fibers, NEW pin \in Pinning, Spawn(t, f, pin) PROVE AloneAt(t)'
  BY <1>a, <1>b, <1>c, <1>6, CallScheduleFrame DEF Spawn
<1>7. ASSUME LeaveFiber(t) PROVE AloneAt(t)'
  BY <1>a, <1>b, <1>c, <1>7 DEF LeaveFiber, SwapOut, Finished
<1>8. QED
  BY <1>1, <1>2, <1>3, <1>4, <1>5, <1>6, <1>7 DEF FiberStep

\* The idle fiber sees an empty list, and ends only when no event is pending.
LEMMA AloneIdleStep ==
  ASSUME Alone, AloneInv, NEW t \in Threads, IdleStep(t)
  PROVE  AloneAt(t)'
<1> USE DEF AloneAt, Taskless, AlonePlace, AloneFiber, StopPc, AloneCount, AloneHeld, BeforeStop, FoundNothing,
            Treating, Counted, OnCpu, SchedPc, Goto, At, fiberVars, counters, locals, bounds
<1>a. AloneAt(t) /\ TypeInv /\ Taskless
  BY DEF AloneInv
<1>b. /\ pc \in [Threads -> PC] /\ task \in [Threads -> Fibers \cup {None}]
      /\ state \in [Fibers -> FiberState] /\ saved \in [Fibers -> BOOLEAN]
      /\ reg \in [Threads -> 0..(CounterMod - 1)] /\ tickleMe \in [Threads -> BOOLEAN]
      /\ call \in [Threads -> CallRecord]
      /\ Threads = {Caller}
  BY <1>a, AloneTypes, OnlyCaller
<1>c. /\ task[t] # None => task[t] \in Fibers
      /\ pc[t] \in {"count_up", "running", "holding", "swap_out", "post", "set_hold"} =>
           task[t] # None
  BY <1>a, AloneTask DEF TypeInv, TaskOK
<1>1. ASSUME GoIdle(t) PROVE AloneAt(t)'
  BY <1>a, <1>b, <1>c, <1>1 DEF GoIdle
<1>2. ASSUME CheckPending(t) PROVE AloneAt(t)'
  <2>1. pending = 0 => armed = {}
    BY NonePending DEF AloneInv
  <2>2. QED
    BY <1>a, <1>b, <1>c, <1>2, <2>1 DEF CheckPending
<1>3. ASSUME CheckTasks(t) PROVE AloneAt(t)'
  BY <1>a, <1>b, <1>c, <1>3 DEF CheckTasks
<1>4. ASSUME EpollReturn(t) PROVE AloneAt(t)'
  BY <1>a, <1>b, <1>c, <1>4 DEF EpollReturn
<1>5. ASSUME NEW f \in Fibers, Trigger(t, f) PROVE AloneAt(t)'
  BY <1>a, <1>b, <1>c, <1>5, CallScheduleFrame DEF Trigger
<1>6. ASSUME PendingDown(t) PROVE AloneAt(t)'
  BY <1>a, <1>b, <1>c, <1>6 DEF PendingDown
<1>7. ASSUME HandleDone(t) PROVE AloneAt(t)'
  BY <1>a, <1>b, <1>c, <1>7 DEF HandleDone
<1>8. ASSUME IdleDown(t) PROVE AloneAt(t)'
  BY <1>a, <1>b, <1>c, <1>8 DEF IdleDown
<1>9. ASSUME ExitRun(t) PROVE AloneAt(t)'
  BY <1>a, <1>b, <1>c, <1>9 DEF ExitRun
<1>10. QED
  BY <1>1, <1>2, <1>3, <1>4, <1>5, <1>6, <1>7, <1>8, <1>9 DEF IdleStep

\* stop() skips run() only when nothing is pending and the list is empty.
LEMMA AloneStopStep ==
  ASSUME Alone, AloneInv, StopStep
  PROVE  AloneAt(Caller)'
<1> USE DEF AloneAt, Taskless, AlonePlace, AloneFiber, StopPc, AloneCount, AloneHeld, BeforeStop,
            FoundNothing, Treating, Counted, OnCpu, SchedPc, Goto, At, fiberVars, counters, locals,
            bounds
<1>a. Threads = {Caller} /\ AloneAt(Caller)
  BY OnlyCaller DEF AloneInv
<1>b. pc \in [Threads -> PC] /\ stopped \in BOOLEAN /\ UseCaller
  BY AloneTypes DEF AloneInv, Alone
<1>1. ASSUME StopTickle PROVE AloneAt(Caller)'
  BY <1>a, <1>b, <1>1 DEF StopTickle
<1>2. ASSUME StopFlag PROVE AloneAt(Caller)'
  BY <1>a, <1>b, <1>2 DEF StopFlag
<1>3. ASSUME StopCheckPending PROVE AloneAt(Caller)'
  <2>1. pending = 0 => armed = {}
    BY NonePending DEF AloneInv
  <2>2. QED
    BY <1>a, <1>b, <1>3, <2>1 DEF StopCheckPending
<1>4. ASSUME StopCheckTasks PROVE AloneAt(Caller)'
  <2>1. CASE Completed
    BY <1>a, <1>b, <1>4, <2>1 DEF StopCheckTasks, Completed
  <2>2. CASE ~Completed
    BY <1>a, <1>b, <1>4, <2>2 DEF StopCheckTasks
  <2>3. QED
    BY <2>1, <2>2
<1>5. ASSUME StopReturn PROVE AloneAt(Caller)'
  BY <1>a, <1>b, <1>5 DEF StopReturn
<1>6. QED
  BY <1>1, <1>2, <1>3, <1>4, <1>5 DEF StopStep

\* Every step.
LEMMA AloneStep ==
  Alone /\ AloneInv /\ [Next]_vars => \A t \in Threads : AloneAt(t)'
<1> SUFFICES ASSUME Alone, AloneInv, [Next]_vars PROVE AloneAt(Caller)'
  BY OnlyCaller
<1> USE DEF AloneAt, Taskless, AlonePlace, AloneFiber, StopPc, AloneCount, AloneHeld, BeforeStop,
            FoundNothing, Treating, Counted, OnCpu, SchedPc, Goto, At
<1>a. Threads = {Caller} /\ AloneAt(Caller) /\ TypeInv /\ pc \in [Threads -> PC]
  BY OnlyCaller, AloneTypes DEF AloneInv
<1>1. ASSUME NEW t \in Threads, ThreadStep(t) PROVE AloneAt(Caller)'
  <2>1. AloneAt(t)'
    BY <1>1, AloneScheduleStep, AloneTaskStep, AloneFiberStep, AloneIdleStep DEF ThreadStep
  <2>2. QED
    BY <1>a, <2>1
<1>2. ASSUME NEW f \in Fibers, NEW pin \in Pinning, Submit(f, pin) PROVE AloneAt(Caller)'
  BY <1>a, <1>2, CallScheduleFrame DEF Submit, fiberVars, counters
<1>3. ASSUME StopBegin PROVE AloneAt(Caller)'
  BY <1>a, <1>3 DEF StopBegin, fiberVars, counters, locals
<1>4. ASSUME UNCHANGED vars PROVE AloneAt(Caller)'
  BY <1>a, <1>4 DEF vars, fiberVars, counters, locals
<1>5. QED
  BY <1>1, <1>2, <1>3, <1>4, AloneStopStep DEF Next

-----------------------------------------------------------------------------
(* No fiber is lost                                                        *)

\* A step that takes nothing from the list and the events, submits nothing, revives no
\* fiber, and drops only fibers that have ended or wait.
LEMMA KeptUnlessDropped ==
  ASSUME NoFiberLost, UNCHANGED <<queue, submits>>, armed \subseteq armed',
         \A f \in Fibers : state'[f] \notin Finished => state[f] \notin Finished,
         \A u \in Threads, f \in Fibers :
           Owns(u, f) => Owns(u, f)' \/ state[f] \in Finished \/ f \in armed
  PROVE  NoFiberLost'
BY DEF NoFiberLost, Queued

\* schedule() puts its fiber in the list before it lets go of it.
LEMMA KeptScheduleStep ==
  ASSUME Alone, AloneInv, NEW t \in Threads, ScheduleStep(t)
  PROVE  NoFiberLost'
<1> USE DEF At, Goto, Scheduling, fiberVars, counters, bounds
<1>a. TypeInv /\ NoFiberLost /\ Threads = {Caller}
  BY OnlyCaller DEF AloneInv
<1>b. /\ pc \in [Threads -> PC] /\ call \in [Threads -> CallRecord] /\ queue \in Seq(Entry)
  BY <1>a, AloneTypes
<1>1. CASE SchedRead(t)
  <2>1. \A f \in Fibers : Owns(t, f) => Owns(t, f)'
    BY <1>a, <1>1, SchedReadFrame DEF SchedRead, Owns
  <2>2. QED
    BY <1>a, <1>1, <2>1, KeptUnlessDropped DEF SchedRead
<1>2. CASE SchedTickle(t)
  <2>1. \A f \in Fibers : Owns(t, f) => Owns(t, f)'
    BY <1>2 DEF SchedTickle, Owns
  <2>2. QED
    BY <1>a, <1>2, <2>1, KeptUnlessDropped DEF SchedTickle
<1>3. CASE SchedPush(t)
  <2> DEFINE e == [fiber |-> call[t].fiber, pin |-> call[t].pin]
  <2>1. /\ UNCHANGED <<state, submits, armed, task>> /\ queue' = Append(queue, e)
        /\ Len(queue) \in Nat
    BY <1>b, <1>3, LenProperties DEF SchedPush
  <2>2. /\ Len(queue') = Len(queue) + 1 /\ queue'[Len(queue) + 1] = e
        /\ \A k \in 1..Len(queue) : queue'[k] = queue[k]
    BY <1>b, <2>1, AppendProperties
  <2>3. ASSUME NEW f \in Fibers PROVE Queued(f)' <=> Queued(f) \/ f = call[t].fiber
    <3>1. e.fiber = call[t].fiber
      OBVIOUS
    <3>2. \A k \in 1..(Len(queue) + 1) : k \in 1..Len(queue) \/ k = Len(queue) + 1
      BY <2>1
    <3>3. Len(queue) + 1 \in 1..Len(queue')  /\ \A k \in 1..Len(queue) : k \in 1..Len(queue')
      BY <2>1, <2>2
    <3>4. Queued(f)' => Queued(f) \/ f = call[t].fiber
      BY <2>2, <3>1, <3>2 DEF Queued
    <3>5. Queued(f) \/ f = call[t].fiber => Queued(f)'
      BY <2>2, <3>1, <3>3 DEF Queued
    <3>6. QED
      BY <3>4, <3>5
  <2>4. \A f \in Fibers : Owns(t, f) => Owns(t, f)' \/ Queued(f)'
    BY <2>1, <2>3 DEF Owns
  <2>5. QED
    BY <1>a, <2>1, <2>3, <2>4 DEF NoFiberLost
<1>4. QED
  BY <1>1, <1>2, <1>3 DEF ScheduleStep

\* run() drops a task only when its fiber has ended or waits for an event.
LEMMA KeptTaskStep ==
  ASSUME Alone, AloneInv, NEW t \in Threads, TaskStep(t)
  PROVE  NoFiberLost'
<1> USE DEF At, Goto, Scheduling, Owns, fiberVars, counters, locals, bounds
<1>a. TypeInv /\ NoFiberLost /\ Threads = {Caller} /\ AloneFiber(t) /\ AloneHeld(t) /\ Taskless
  BY OnlyCaller DEF AloneInv
<1>b. /\ pc \in [Threads -> PC] /\ task \in [Threads -> Fibers \cup {None}]
      /\ state \in [Fibers -> FiberState] /\ queue \in Seq(Entry) /\ None \notin Fibers
  BY <1>a, AloneTypes
<1>1. CASE ScanTake(t)
  <2>1. PICK i \in 1..Len(queue) :
          task' = [task EXCEPT ![t] = queue[i].fiber] /\ queue' = Without(queue, i)
    BY <1>1 DEF ScanTake
  <2>2. /\ pc[t] = "scan" /\ task'[t] = queue[i].fiber /\ task[t] = None
        /\ UNCHANGED <<state, submits, armed>>
    BY <1>a, <1>b, <1>1, <2>1 DEF ScanTake, Taskless
  <2>3. \A k \in 1..Len(queue) \ {i} :
          \E m \in 1..Len(queue') : queue'[m] = queue[k]
    BY <1>b, <2>1, WithoutEntries
  <2>4. \A f \in Fibers : Queued(f) => Queued(f)' \/ Owns(t, f)'
    BY <2>2, <2>3 DEF Queued
  <2>5. \A f \in Fibers : ~Owns(t, f)
    BY <1>b, <2>2
  <2>6. QED
    BY <1>a, <2>2, <2>4, <2>5 DEF NoFiberLost
<1>2. CASE Requeue(t)
  <2>1. /\ UNCHANGED <<state, submits, armed, queue>> /\ pc[t] = "post"
        /\ pc'[t] = "sched_read" /\ call'[t].fiber = task[t]
    BY <1>a, <1>2, CallScheduleFrame DEF Requeue
  <2>2. \A f \in Fibers : Owns(t, f) => Owns(t, f)'
    BY <2>1
  <2>3. QED
    BY <1>a, <2>1, <2>2, KeptUnlessDropped
<1>3. CASE Dispatch(t)
  <2>1. /\ UNCHANGED <<task, submits, armed, queue>> /\ pc[t] = "dispatch" /\ task[t] \in Fibers
        /\ \A f \in Fibers \ {task[t]} : state'[f] = state[f]
        /\ state[task[t]] \notin Finished
    BY <1>b, <1>3 DEF Dispatch, SwapIn
  <2>2. \A f \in Fibers : Owns(t, f) => Owns(t, f)'
    BY <2>1
  <2>3. \A f \in Fibers : state'[f] \notin Finished => state[f] \notin Finished
    BY <2>1
  <2>4. QED
    BY <1>a, <2>1, <2>2, <2>3, KeptUnlessDropped
<1>4. CASE SetHold(t)
  <2>1. /\ UNCHANGED <<submits, armed, queue>> /\ pc[t] = "set_hold" /\ task[t] \in Fibers
        /\ state[task[t]] = "HOLD" /\ task[t] \in armed
        /\ \A f \in Fibers \ {task[t]} : state'[f] = state[f]
    BY <1>a, <1>b, <1>4
       DEF SetHold, Publish, AloneFiber, AloneHeld, Treating, TypeInv, TaskOK
  <2>2. \A f \in Fibers : Owns(t, f) => f \in armed
    BY <2>1
  <2>3. \A f \in Fibers : state'[f] \notin Finished => state[f] \notin Finished
    BY <2>1 DEF Finished
  <2>4. QED
    BY <1>a, <2>1, <2>2, <2>3, KeptUnlessDropped
<1>5. CASE DropFinished(t) \/ DropEnded(t)
  <2>1. /\ UNCHANGED <<submits, armed, queue, state>> /\ pc[t] \in {"dispatch", "post"}
        /\ state[task[t]] \in Finished
    BY <1>5 DEF DropFinished, DropEnded
  <2>2. QED
    BY <1>a, <2>1, KeptUnlessDropped
<1>6. CASE ScanNothing(t) \/ CountUp(t) \/ TickleMe(t) \/ SwapInFails(t) \/ CountDown(t)
           \/ StoreDown(t) \/ DecideHold(t)
  <2>1. /\ UNCHANGED <<submits, armed, queue, state, task>>
        /\ pc[t] \notin {"sched_read", "sched_push"}
    BY <1>6 DEF ScanNothing, CountUp, TickleMe, SwapInFails, CountDown, StoreDown, DecideHold
  <2>2. QED
    BY <1>a, <2>1, KeptUnlessDropped
<1>7. QED
  BY <1>1, <1>2, <1>3, <1>4, <1>5, <1>6 DEF TaskStep

\* A fiber that is submitted enters schedule().
LEMMA KeptSubmit ==
  ASSUME TypeInv, NoFiberLost, NEW t \in Threads, NEW f \in Fibers, NEW pin, NEW ret, NEW n,
         CallSchedule(t, f, pin, ret), ~Scheduling(t), submits' = [submits EXCEPT ![f] = n],
         UNCHANGED <<state, queue, armed, task>>
  PROVE  NoFiberLost'
<1>1. /\ pc'[t] = "sched_read" /\ call'[t].fiber = f
      /\ \A u \in Threads \ {t} : pc'[u] = pc[u] /\ call'[u] = call[u]
  BY CallScheduleFrame
<1>2. \A u \in Threads, h \in Fibers : Owns(u, h) => Owns(u, h)'
  BY <1>1 DEF Owns, Scheduling
<1>3. Owns(t, f)' /\ \A h \in Fibers \ {f} : submits'[h] = submits[h]
  BY <1>1, AloneTypes DEF Owns, Scheduling
<1>4. QED
  BY <1>2, <1>3 DEF NoFiberLost, Queued

\* A fiber stays with its thread while it executes.
LEMMA KeptFiberStep ==
  ASSUME Alone, AloneInv, NEW t \in Threads, FiberStep(t)
  PROVE  NoFiberLost'
<1> USE DEF At, Goto, Scheduling, Owns, fiberVars, counters, locals, bounds
<1>a. TypeInv /\ NoFiberLost /\ Threads = {Caller} /\ AloneFiber(t)
  BY OnlyCaller DEF AloneInv
<1>b. state \in [Fibers -> FiberState]
  BY <1>a, AloneTypes
<1>1. CASE \E f \in Fibers, pin \in Pinning : Spawn(t, f, pin)
  BY <1>a, <1>1, KeptSubmit DEF Spawn
<1>2. CASE ~\E f \in Fibers, pin \in Pinning : Spawn(t, f, pin)
  <2>1. /\ UNCHANGED <<submits, queue, task>> /\ armed \subseteq armed'
        /\ pc[t] \notin {"sched_read", "sched_push"}
        /\ \A f \in Fibers \ {task[t]} : state'[f] = state[f]
        /\ pc[t] # "swap_out" => state[task[t]] = "EXECUTE"
        /\ pc[t] = "swap_out" => state' = state
    BY <1>a, <1>b, <1>2
       DEF FiberStep, Finish, YieldToReady, Arm, YieldToHold, AddEventFails, LeaveFiber, Publish,
           SwapOut, AloneFiber
  <2>2. \A f \in Fibers : state'[f] \notin Finished => state[f] \notin Finished
    BY <2>1 DEF Finished
  <2>3. QED
    BY <1>a, <2>1, <2>2, KeptUnlessDropped
<1>3. QED
  BY <1>1, <1>2

\* A trigger moves a fiber from the events to schedule().
LEMMA KeptIdleStep ==
  ASSUME Alone, AloneInv, NEW t \in Threads, IdleStep(t)
  PROVE  NoFiberLost'
<1> USE DEF At, Goto, Scheduling, Owns, fiberVars, counters, locals, bounds
<1>a. TypeInv /\ NoFiberLost /\ Threads = {Caller}
  BY OnlyCaller DEF AloneInv
<1>1. ASSUME NEW f \in Fibers, Trigger(t, f) PROVE NoFiberLost'
  <2>1. /\ UNCHANGED <<state, submits, queue, task>> /\ pc[t] = "handle"
        /\ armed' = armed \ {f} /\ pc'[t] = "sched_read" /\ call'[t].fiber = f
    BY <1>a, <1>1, CallScheduleFrame DEF Trigger
  <2>2. Owns(t, f)' /\ \A h \in Fibers : Owns(t, h) => Owns(t, h)'
    BY <2>1
  <2>3. QED
    BY <1>a, <2>1, <2>2 DEF NoFiberLost, Queued
<1>2. ASSUME ~\E f \in Fibers : Trigger(t, f) PROVE NoFiberLost'
  <2>1. /\ UNCHANGED <<state, submits, queue, task, armed>>
        /\ pc[t] \notin {"sched_read", "sched_push"}
    BY <1>2 DEF IdleStep, GoIdle, CheckPending, CheckTasks, EpollReturn, PendingDown, HandleDone,
                IdleDown, ExitRun
  <2>2. QED
    BY <1>a, <2>1, KeptUnlessDropped
<1>3. QED
  BY <1>1, <1>2

\* Every step.
LEMMA KeptStep == Alone /\ AloneInv /\ [Next]_vars => NoFiberLost'
<1> SUFFICES ASSUME Alone, AloneInv, [Next]_vars PROVE NoFiberLost'
  OBVIOUS
<1>a. TypeInv /\ NoFiberLost /\ Threads = {Caller}
  BY OnlyCaller DEF AloneInv
<1>1. ASSUME NEW t \in Threads, ThreadStep(t) PROVE NoFiberLost'
  BY <1>1, KeptScheduleStep, KeptTaskStep, KeptFiberStep, KeptIdleStep DEF ThreadStep
<1>2. ASSUME NEW f \in Fibers, NEW pin \in Pinning, Submit(f, pin) PROVE NoFiberLost'
  <2>1. CallSchedule(Caller, f, pin, "app") /\ pc[Caller] = "app"
        /\ submits' = [submits EXCEPT ![f] = submits[f] + 1]
        /\ UNCHANGED <<state, queue, armed, task>>
    BY <1>2 DEF Submit, At, fiberVars
  <2>2. QED
    BY <1>a, <2>1, KeptSubmit DEF Scheduling
<1>3. ASSUME StopBegin \/ StopStep PROVE NoFiberLost'
  <2>1. /\ UNCHANGED <<state, submits, queue, task, armed>>
        /\ pc[Caller] \notin {"sched_read", "sched_push"}
    BY <1>3 DEF StopBegin, StopStep, StopTickle, StopFlag, StopCheckPending, StopCheckTasks,
                StopReturn, At, fiberVars, locals, bounds
  <2>2. QED
    BY <1>a, <2>1, KeptUnlessDropped DEF Owns, Scheduling
<1>4. ASSUME UNCHANGED vars PROVE NoFiberLost'
  BY <1>a, <1>4 DEF NoFiberLost, Owns, Queued, Scheduling, vars, fiberVars, locals, bounds
<1>5. QED
  BY <1>1, <1>2, <1>3, <1>4 DEF Next

-----------------------------------------------------------------------------
(* The theorems                                                            *)

\* The invariant holds when the thread starts.
LEMMA AloneInit == Alone /\ Init => AloneInv
<1> SUFFICES ASSUME Alone, Init PROVE AloneInv
  OBVIOUS
<1>1. Threads = {Caller} /\ pc[Caller] = "app" /\ task[Caller] = None
  BY OnlyCaller DEF Init
<1>2. TypeInv /\ PendingInv
  BY TypeInit, PendingInit
<1>3. NoFiberLost
  BY DEF Init, NoFiberLost
<1>4. Taskless
  BY <1>1 DEF Taskless
<1>5. AlonePlace(Caller)
  BY <1>1 DEF Init, AlonePlace, BeforeStop, FoundNothing
<1>6. AloneFiber(Caller) /\ AloneCount(Caller) /\ AloneHeld(Caller)
  BY <1>1 DEF Init, FiberInit, AloneFiber, AloneCount, AloneHeld, Counted, Treating, SchedPc
<1>7. QED
  BY <1>1, <1>2, <1>3, <1>4, <1>5, <1>6 DEF AloneInv

\* Every step keeps the invariant.
LEMMA AloneInvariantStep == Alone /\ AloneInv /\ [Next]_vars => AloneInv'
<1> SUFFICES ASSUME Alone, AloneInv, [Next]_vars PROVE AloneInv'
  OBVIOUS
<1>1. TypeInv' /\ PendingInv'
  BY TypeStep, PendingStep DEF AloneInv
<1>2. NoFiberLost' /\ \A t \in Threads : AloneAt(t)'
  BY KeptStep, AloneStep
<1>3. Taskless'
  BY <1>2, OnlyCaller DEF AloneAt
<1>4. QED
  BY <1>1, <1>2, <1>3 DEF AloneInv, AloneAt

\* One thread keeps its invariant, for any number of fibers and events, any bounds on
\* how often they are scheduled and yield: what it learned at each place, what is on
\* the processor, what it counted, and what it still has to do.
THEOREM AloneInvariant ==
  ASSUME Alone
  PROVE  Spec => []AloneInv
<1>1. Init => AloneInv
  BY AloneInit
<1>2. QED
  BY <1>1, AloneInvariantStep, PTL DEF Spec

\* m_active_thread_count is exact: the increment under m_mutex and the decrement
\* outside it, a load and a store each, lose nothing when one thread does both.
THEOREM ActiveIsExact ==
  ASSUME Alone
  PROVE  Spec => []ActiveExact
<1>1. AloneInv => ActiveExact
  <2> SUFFICES ASSUME AloneInv PROVE ActiveExact
    OBVIOUS
  <2>1. Threads = {Caller} /\ active = IF Counted(Caller) THEN 1 ELSE 0
    BY OnlyCaller DEF AloneInv, AloneCount
  <2>2. CASE Counted(Caller)
    <3>1. {t \in Threads : Counted(t)} = {Caller}
      BY <2>1, <2>2
    <3>2. QED
      BY <2>1, <2>2, <3>1, FS_Singleton DEF ActiveExact
  <2>3. CASE ~Counted(Caller)
    <3>1. {t \in Threads : Counted(t)} = {}
      BY <2>1, <2>3
    <3>2. QED
      BY <2>1, <2>3, <3>1, FS_EmptySet DEF ActiveExact
  <2>4. QED
    BY <2>2, <2>3
<1>2. QED
  BY <1>1, AloneInvariant, PTL

\* The only thread never sleeps in epoll_wait over a task: nobody can add one after it
\* found the list empty.
THEOREM NoWakeupIsLost ==
  ASSUME Alone
  PROVE  Spec => []NoLostWakeup
<1>1. AloneInv => NoLostWakeup
  BY OnlyCaller DEF AloneInv, AlonePlace, FoundNothing, NoLostWakeup, AllAsleep, At
<1>2. QED
  BY <1>1, AloneInvariant, PTL

\* With one thread no assertion of swapIn() or addEvent() fails and no context is
\* resumed that is not saved, even when fibers wait for events.
THEOREM NeverCrashesAlone ==
  ASSUME Alone
  PROVE  Spec => []NoCrash
<1>1. AloneInv => NoCrash
  BY DEF AloneInv, AlonePlace, NoCrash, Crashed, At
<1>2. QED
  BY <1>1, AloneInvariant, PTL

\* stop() returns with an empty list, every scheduled fiber ended and no event
\* registered: it waited for the events too.
THEOREM StopDrainsAlone ==
  ASSUME Alone
  PROVE  Spec => [](StopDrains /\ StopAwaitsEvents)
<1>1. AloneInv => StopDrains /\ StopAwaitsEvents
  <2> SUFFICES ASSUME AloneInv, At(Caller, "returned")
               PROVE  /\ queue = <<>> /\ armed = {}
                      /\ \A f \in Fibers : submits[f] > 0 => state[f] \in Finished
    BY DEF StopDrains, StopAwaitsEvents
  <2>1. Threads = {Caller} /\ queue = <<>> /\ armed = {} /\ task[Caller] = None
    BY OnlyCaller DEF AloneInv, AlonePlace, Taskless, StopPc, At
  <2>2. \A f \in Fibers : ~Queued(f) /\ \A t \in Threads : ~Owns(t, f)
    BY <2>1, EmptySeq, NoneIsNoFiber DEF Queued, Owns, Scheduling, At
  <2>3. QED
    BY <2>1, <2>2 DEF AloneInv, NoFiberLost
<1>2. QED
  BY <1>1, AloneInvariant, PTL

\* A fiber that has ended is never suspended or executed again: run() tests its state
\* before every switch and before it writes HOLD.
THEOREM EndedIsFinal ==
  ASSUME Alone
  PROVE  Spec => EndedStaysEnded
<1>1. AloneInv /\ [Next]_vars =>
        [\A f \in Fibers : state[f] \in Finished => state'[f] \in Finished]_vars
  <2> SUFFICES ASSUME AloneInv, Next, NEW f \in Fibers, state[f] \in Finished
               PROVE  state'[f] \in Finished
    OBVIOUS
  <2> USE DEF At, fiberVars, Finished, Publish
  <2>a. state \in [Fibers -> FiberState] /\ task \in [Threads -> Fibers \cup {None}]
    BY AloneTypes DEF AloneInv
  <2>1. ASSUME NEW t \in Threads, ScheduleStep(t) PROVE state' = state
    BY <2>1 DEF ScheduleStep, SchedRead, SchedPush, SchedTickle
  <2>2. ASSUME NEW t \in Threads, TaskStep(t) PROVE state'[f] \in Finished
    <3>1. CASE Dispatch(t)
      BY <2>a, <3>1 DEF Dispatch, SwapIn
    <3>2. CASE SetHold(t)
      BY <2>a, <3>2 DEF SetHold, AloneInv, AloneFiber
    <3>3. CASE ~Dispatch(t) /\ ~SetHold(t)
      BY <2>2, <3>3 DEF TaskStep, ScanTake, ScanNothing, CountUp, TickleMe, DropFinished,
            SwapInFails, CountDown, StoreDown, Requeue, DropEnded, DecideHold
    <3>4. QED
      BY <3>1, <3>2, <3>3
  <2>3. ASSUME NEW t \in Threads, FiberStep(t) PROVE state'[f] \in Finished
    <3>1. pc[t] \in {"running", "holding"} => state[task[t]] = "EXECUTE"
      BY DEF AloneInv, AloneFiber
    <3>2. QED
      BY <2>a, <2>3, <3>1 DEF FiberStep, Finish, YieldToReady, Arm, YieldToHold, AddEventFails,
            Spawn, LeaveFiber, SwapOut
  <2>4. ASSUME NEW t \in Threads, IdleStep(t) PROVE state' = state
    BY <2>4 DEF IdleStep, GoIdle, CheckPending, CheckTasks, EpollReturn, Trigger, PendingDown,
          HandleDone, IdleDown, ExitRun
  <2>5. ASSUME StopStep \/ StopBegin \/ \E g \in Fibers, pin \in Pinning : Submit(g, pin)
        PROVE  state' = state
    BY <2>5 DEF StopStep, StopTickle, StopFlag, StopCheckPending, StopCheckTasks, StopReturn,
          StopBegin, Submit
  <2>6. QED
    BY <2>1, <2>2, <2>3, <2>4, <2>5 DEF Next, ThreadStep
<1>2. QED
  BY <1>1, AloneInvariant, PTL DEF Spec, EndedStaysEnded

-----------------------------------------------------------------------------
(* Where the fibers are                                                    *)

\* The invariant of the pool at the only thread, and what the steps start from.
LEMMA PlacedTypes ==
  ASSUME Alone, AlonePoolInv, NEW t \in Threads
  PROVE  /\ t = Caller /\ Threads = {Caller} /\ TypeInv /\ PlacedAt(t)
         /\ AlonePlace(t) /\ AloneFiber(t) /\ AloneHeld(t) /\ Taskless
         /\ pc \in [Threads -> PC] /\ task \in [Threads -> Fibers \cup {None}]
         /\ state \in [Fibers -> FiberState] /\ saved \in [Fibers -> BOOLEAN]
         /\ call \in [Threads -> CallRecord] /\ queue \in Seq(Entry)
         /\ submits \in [Fibers -> Nat] /\ None \notin Fibers /\ armed \subseteq Fibers
<1>1. TypeInv /\ PlacedAt(t) /\ AlonePlace(t) /\ AloneFiber(t) /\ AloneHeld(t) /\ Taskless
  BY DEF AlonePoolInv, AloneInv
<1>2. armed \subseteq Fibers
  BY <1>1 DEF TypeInv, TypeOK
<1>3. QED
  BY <1>1, <1>2, OnlyCaller, AloneTypes

\* A step that leaves the list, the events and the submissions, keeps its task or drops
\* it, and changes only fibers that were submitted and are not registered.
LEMMA PlacedUnmoved ==
  ASSUME Alone, AlonePoolInv, NEW t \in Threads, UNCHANGED <<queue, armed, submits>>,
         task'[t] \in {task[t], None}, pc[t] # "holding",
         Scheduling(t)' => Scheduling(t) /\ call'[t].fiber = call[t].fiber,
         \A f \in Fibers : submits[f] = 0 \/ f \in armed => state'[f] = state[f],
         \A f \in Fibers : submits[f] = 0 => saved'[f] = saved[f],
         task[t] \in armed /\ task'[t] = task[t] => Treating(t)'
  PROVE  PlacedAt(t)'
<1>a. PlacedAt(t) /\ None \notin Fibers /\ armed \subseteq Fibers /\ Waiters \subseteq Fibers
  BY PlacedTypes, NoneIsNoFiber
<1>b. \A f : Queued(f)' <=> Queued(f)
  BY DEF Queued
<1>c. Scheduling(t) => call[t].fiber # None
  BY DEF AlonePoolInv, AloneInv, TypeInv, TaskOK
<1>1. WaiterOnce(t)'
  BY <1>a, <1>b, <1>c DEF PlacedAt, WaiterOnce
<1>2. ArmedSuspended(t)'
  BY <1>a, <1>b DEF PlacedAt, ArmedSuspended
<1>3. Unscheduled(t)'
  BY <1>a, <1>b DEF PlacedAt, Unscheduled, Owns
<1>4. QED
  BY <1>1, <1>2, <1>3 DEF PlacedAt

\* A step that hands a fiber nobody has, in the list or registered, to schedule().
LEMMA PlacedCall ==
  ASSUME Alone, AlonePoolInv, NEW t \in Threads, NEW g \in Fibers, NEW pin, NEW ret,
         CallSchedule(t, g, pin, ret), pc[t] # "holding", ~Scheduling(t), ~Treating(t) \/ task[t] = g,
         UNCHANGED <<queue, state, saved>>, armed' = armed \ {g},
         \A f \in Fibers : submits'[f] = 0 => submits[f] = 0 /\ f # g,
         task'[t] \in {task[t], None} \ {g},
         g \in Waiters => ~Queued(g)
  PROVE  PlacedAt(t)'
<1>a. /\ PlacedAt(t) /\ None \notin Fibers /\ armed \subseteq Fibers /\ Waiters \subseteq Fibers
      /\ TypeInv
  BY PlacedTypes, NoneIsNoFiber
<1>b. \A f : Queued(f)' <=> Queued(f)
  BY DEF Queued
<1>c. pc'[t] = "sched_read" /\ call'[t].fiber = g
  BY <1>a, CallScheduleFrame
<1>1. WaiterOnce(t)'
  BY <1>a, <1>b, <1>c DEF PlacedAt, WaiterOnce, Scheduling
<1>2. ArmedSuspended(t)'
  BY <1>a, <1>b, <1>c DEF PlacedAt, ArmedSuspended
<1>3. Unscheduled(t)'
  BY <1>a, <1>b, <1>c DEF PlacedAt, Unscheduled, Owns, Scheduling
<1>4. QED
  BY <1>1, <1>2, <1>3 DEF PlacedAt

\* schedule() moves its fiber to the list.
LEMMA PlacedScheduleStep ==
  ASSUME Alone, AlonePoolInv, NEW t \in Threads, ScheduleStep(t)
  PROVE  PlacedAt(t)'
<1> USE DEF At, Goto, Scheduling, fiberVars, counters, bounds
<1>a. /\ PlacedAt(t) /\ TypeInv /\ pc \in [Threads -> PC] /\ call \in [Threads -> CallRecord]
      /\ queue \in Seq(Entry) /\ None \notin Fibers /\ armed \subseteq Fibers
      /\ Waiters \subseteq Fibers
  BY PlacedTypes, NoneIsNoFiber
<1>b. pc[t] \in SchedPc => task[t] \notin armed
  BY <1>a DEF PlacedAt, ArmedSuspended, Treating, SchedPc
<1>1. CASE SchedRead(t)
  BY <1>a, <1>b, <1>1, SchedReadFrame, PlacedUnmoved DEF SchedRead, SchedPc
<1>2. CASE SchedTickle(t)
  <2>1. pc'[t] = call[t].ret /\ call[t].ret \notin {"sched_read", "sched_push"}
    BY <1>a, <1>2, ReturnFrame DEF SchedTickle, TypeInv, TaskOK, SchedPc
  <2>2. QED
    BY <1>b, <1>2, <2>1, PlacedUnmoved DEF SchedTickle, SchedPc
<1>3. CASE SchedPush(t)
  <2> DEFINE e == [fiber |-> call[t].fiber, pin |-> call[t].pin]
             g == call[t].fiber
  <2>1. /\ UNCHANGED <<state, saved, submits, armed, task>> /\ queue' = Append(queue, e)
        /\ Len(queue) \in Nat /\ e.fiber = g /\ pc[t] = "sched_push"
    BY <1>a, <1>3, LenProperties DEF SchedPush
  <2>2. /\ Len(queue') = Len(queue) + 1 /\ queue'[Len(queue) + 1] = e
        /\ \A k \in 1..Len(queue) : queue'[k] = queue[k]
    BY <1>a, <2>1, AppendProperties
  <2>3. pc'[t] \notin {"sched_read", "sched_push"}
    <3>1. CASE call[t].need
      BY <1>a, <1>3, <3>1 DEF SchedPush
    <3>2. CASE ~call[t].need
      BY <1>a, <1>3, <3>2, ReturnFrame DEF SchedPush, TypeInv, TaskOK, SchedPc
    <3>3. QED
      BY <3>1, <3>2
  <2>4. /\ \A k \in 1..(Len(queue) + 1) : k \in 1..Len(queue) \/ k = Len(queue) + 1
        /\ \A k \in 1..Len(queue) : k \in 1..Len(queue') /\ k # Len(queue) + 1
        /\ Len(queue) + 1 \in 1..Len(queue')
    BY <2>1, <2>2
  <2>5. ASSUME NEW f PROVE Queued(f)' <=> Queued(f) \/ f = g
    <3>1. Queued(f)' => Queued(f) \/ f = g
      BY <2>1, <2>2, <2>4 DEF Queued
    <3>2. Queued(f) \/ f = g => Queued(f)'
      BY <2>1, <2>2, <2>4 DEF Queued
    <3>3. QED
      BY <3>1, <3>2
  <2>6. g # task[t] /\ (g \in Waiters => ~Queued(g) /\ g \notin armed)
    BY <1>a, <2>1 DEF PlacedAt, WaiterOnce
  <2>7. ASSUME NEW i \in 1..Len(queue'), NEW j \in 1..Len(queue'),
               queue'[i].fiber \in Waiters, queue'[i].fiber = queue'[j].fiber
        PROVE  i = j
    <3>1. CASE i \in 1..Len(queue) /\ j \in 1..Len(queue)
      BY <1>a, <2>2, <2>7, <3>1 DEF PlacedAt, WaiterOnce
    <3>2. CASE i = Len(queue) + 1 /\ j \in 1..Len(queue)
      BY <2>1, <2>2, <2>6, <2>7, <3>2 DEF Queued
    <3>3. CASE j = Len(queue) + 1 /\ i \in 1..Len(queue)
      BY <2>1, <2>2, <2>6, <2>7, <3>3 DEF Queued
    <3>4. QED
      BY <2>2, <2>4, <3>1, <3>2, <3>3
  <2> HIDE DEF e, g
  <2>8. WaiterOnce(t)'
    BY <1>a, <2>1, <2>3, <2>5, <2>6, <2>7 DEF PlacedAt, WaiterOnce
  <2>9. ArmedSuspended(t)'
    BY <1>a, <1>b, <2>1, <2>5, <2>6 DEF PlacedAt, WaiterOnce, ArmedSuspended, SchedPc
  <2>10. Unscheduled(t)'
    BY <1>a, <2>1, <2>3, <2>5 DEF PlacedAt, Unscheduled, Owns, g
  <2>11. QED
    BY <2>8, <2>9, <2>10 DEF PlacedAt
<1>4. QED
  BY <1>1, <1>2, <1>3 DEF ScheduleStep

\* Taking a task from the list moves its fiber to the thread.
LEMMA PlacedScanTake ==
  ASSUME Alone, AlonePoolInv, NEW t \in Threads, ScanTake(t)
  PROVE  PlacedAt(t)'
<1>a. /\ PlacedAt(t) /\ pc \in [Threads -> PC] /\ task \in [Threads -> Fibers \cup {None}]
      /\ queue \in Seq(Entry) /\ armed \subseteq Fibers
  BY PlacedTypes
<1>1. PICK i \in 1..Len(queue) :
        task' = [task EXCEPT ![t] = queue[i].fiber] /\ queue' = Without(queue, i)
  BY DEF ScanTake
<1>b. PICK g \in Fibers : g = queue[i].fiber
  <2>1. queue[i] \in Entry
    BY <1>a, ElementOfSeq
  <2>2. QED
    BY <2>1 DEF Entry
<1>2. /\ task'[t] = g /\ pc[t] = "scan" /\ pc'[t] = "count_up" /\ Queued(g)
      /\ UNCHANGED <<state, saved, armed, submits, call>>
  BY <1>a, <1>b, <1>1 DEF ScanTake, At, Goto, fiberVars, bounds, Queued
<1>3. /\ \A j \in 1..Len(queue') :
           \E k \in 1..Len(queue) \ {i} : queue'[j] = queue[k]
      /\ Len(queue') = Len(queue) - 1 /\ Len(queue) \in Nat
      /\ \A j \in 1..(Len(queue) - 1) :
           queue'[j] = IF j < i THEN queue[j] ELSE queue[j + 1]
  <2>1. \A j \in 1..Len(Without(queue, i)) :
          \E k \in 1..Len(queue) \ {i} : Without(queue, i)[j] = queue[k]
    BY <1>a, WithoutEntries
  <2>2. /\ Len(Without(queue, i)) = Len(queue) - 1
        /\ \A j \in 1..(Len(queue) - 1) :
             Without(queue, i)[j] = IF j < i THEN queue[j] ELSE queue[j + 1]
    BY <1>a, WithoutProperties
  <2>3. QED
    BY <1>a, <1>1, <2>1, <2>2, LenProperties
<1>4. \A f : Queued(f)' => Queued(f)
  BY <1>3 DEF Queued
<1>5. g \in Waiters => \A j \in 1..Len(queue') : queue'[j].fiber # g
  <2>1. g \in Waiters => \A k \in 1..Len(queue) \ {i} : queue[k].fiber # g
    BY <1>a, <1>b DEF PlacedAt, WaiterOnce
  <2>2. QED
    BY <1>3, <2>1
<1>6. ASSUME NEW m \in 1..Len(queue'), NEW n \in 1..Len(queue'),
             queue'[m].fiber \in Waiters, queue'[m].fiber = queue'[n].fiber
      PROVE  m = n
  <2> DEFINE old(j) == IF j < i THEN j ELSE j + 1
  <2>1. \A j \in 1..Len(queue') : old(j) \in 1..Len(queue) /\ queue'[j] = queue[old(j)]
    BY <1>3
  <2>2. old(m) = old(n)
    BY <1>a, <1>6, <2>1 DEF PlacedAt, WaiterOnce
  <2>3. QED
    BY <1>3, <2>2
<1>7. WaiterOnce(t)'
  BY <1>a, <1>2, <1>5, <1>6 DEF PlacedAt, WaiterOnce, Scheduling, Queued
<1>8. ArmedSuspended(t)'
  BY <1>a, <1>2, <1>4 DEF PlacedAt, ArmedSuspended
<1>9. Unscheduled(t)'
  BY <1>a, <1>2, <1>4 DEF PlacedAt, Unscheduled, Owns, Scheduling
<1>10. QED
  BY <1>7, <1>8, <1>9 DEF PlacedAt

\* run() executes only fibers that were submitted and are not registered.
LEMMA PlacedTaskStep ==
  ASSUME Alone, AlonePoolInv, NEW t \in Threads, TaskStep(t)
  PROVE  PlacedAt(t)'
<1> USE DEF At, Goto, fiberVars, counters, locals, bounds
<1>a. /\ PlacedAt(t) /\ AlonePlace(t) /\ AloneFiber(t) /\ AloneHeld(t)
      /\ pc \in [Threads -> PC] /\ task \in [Threads -> Fibers \cup {None}]
      /\ state \in [Fibers -> FiberState] /\ saved \in [Fibers -> BOOLEAN]
      /\ None \notin Fibers /\ armed \subseteq Fibers
  BY PlacedTypes
<1>b. task[t] \in armed => pc[t] = "holding" \/ Treating(t)
  BY <1>a DEF PlacedAt, ArmedSuspended
<1>c. task[t] \in Fibers => submits[task[t]] # 0
  BY <1>a DEF PlacedAt, Unscheduled, Owns
<1>1. CASE ScanTake(t)
  BY <1>1, PlacedScanTake
<1>2. CASE ScanNothing(t) \/ CountUp(t) \/ TickleMe(t) \/ SwapInFails(t) \/ DecideHold(t)
           \/ CountDown(t) \/ StoreDown(t)
  <2>1. /\ UNCHANGED <<queue, armed, submits, task, state, saved>> /\ pc[t] # "holding"
        /\ pc'[t] \notin {"sched_read", "sched_push"}
        /\ Treating(t) => Treating(t)'
    BY <1>a, <1>2 DEF ScanNothing, CountUp, TickleMe, SwapInFails, DecideHold, CountDown, StoreDown,
       Treating
  <2>2. QED
    BY <1>b, <2>1, PlacedUnmoved DEF Scheduling
<1>3. CASE Dispatch(t)
  <2>1. task[t] \in Fibers /\ task[t] \notin armed /\ pc[t] = "dispatch" /\ pc'[t] = "running"
    BY <1>a, <1>b, <1>3 DEF Dispatch, Treating
  <2>2. /\ UNCHANGED <<queue, armed, submits, task>>
        /\ \A f \in Fibers \ {task[t]} : state'[f] = state[f] /\ saved'[f] = saved[f]
    BY <1>a, <1>3 DEF Dispatch, SwapIn
  <2>3. QED
    BY <1>c, <2>1, <2>2, PlacedUnmoved DEF Scheduling
<1>4. CASE DropFinished(t) \/ DropEnded(t)
  <2>1. /\ UNCHANGED <<queue, armed, submits, state, saved>> /\ pc[t] # "holding"
        /\ pc'[t] \notin {"sched_read", "sched_push"} /\ task'[t] = None
        /\ task[t] \in Fibers
    BY <1>a, <1>4 DEF DropFinished, DropEnded, PlacedAt, ArmedSuspended, AlonePoolInv, AloneInv, TypeInv,
       TaskOK
  <2>2. QED
    BY <1>a, <2>1, PlacedUnmoved DEF Scheduling
<1>5. CASE Requeue(t)
  <2>1. /\ task[t] \in Fibers /\ pc[t] = "post" /\ state[task[t]] = "READY" /\ task'[t] = None
        /\ CallSchedule(t, task[t], AnyThread, "scan")
        /\ UNCHANGED <<queue, armed, submits, state, saved>>
    BY <1>a, <1>5 DEF Requeue, AlonePoolInv, AloneInv, TypeInv, TaskOK
  <2>2. task[t] \notin armed /\ (task[t] \in Waiters => ~Queued(task[t]))
    BY <1>a, <2>1 DEF PlacedAt, ArmedSuspended, WaiterOnce
  <2>3. QED
    BY <1>a, <1>c, <2>1, <2>2, PlacedCall DEF Scheduling
<1>6. CASE SetHold(t)
  <2>1. /\ task[t] \in Fibers /\ pc[t] = "set_hold" /\ state[task[t]] = "HOLD" /\ task'[t] = None
        /\ pc'[t] = "scan" /\ UNCHANGED <<queue, armed, submits, saved>>
        /\ state' = [state EXCEPT ![task[t]] = "HOLD"]
    BY <1>a, <1>6 DEF SetHold, Publish, AloneFiber, AlonePoolInv, AloneInv, TypeInv, TaskOK
  <2>2. state' = state
    BY <1>a, <2>1
  <2>3. QED
    BY <1>a, <2>1, <2>2, PlacedUnmoved DEF Scheduling
<1>7. QED
  BY <1>1, <1>2, <1>3, <1>4, <1>5, <1>6 DEF TaskStep

\* A fiber is registered by its own code, and is suspended before its thread goes on.
LEMMA PlacedFiberStep ==
  ASSUME Alone, AlonePoolInv, NEW t \in Threads, FiberStep(t)
  PROVE  PlacedAt(t)'
<1> USE DEF At, Goto, fiberVars, counters, locals, bounds
<1> DEFINE g == task[t]
<1>a. /\ PlacedAt(t) /\ AlonePlace(t) /\ AloneFiber(t) /\ AloneHeld(t)
      /\ pc \in [Threads -> PC] /\ task \in [Threads -> Fibers \cup {None}]
      /\ state \in [Fibers -> FiberState] /\ saved \in [Fibers -> BOOLEAN]
      /\ submits \in [Fibers -> Nat]
      /\ None \notin Fibers /\ armed \subseteq Fibers /\ Waiters \subseteq Fibers
  BY PlacedTypes, NoneIsNoFiber
<1>b. g \in armed => pc[t] = "holding" \/ Treating(t)
  BY <1>a DEF PlacedAt, ArmedSuspended
<1>c. pc[t] \in {"running", "holding", "swap_out"} => g \in Fibers /\ g # None /\ submits[g] # 0
  BY <1>a DEF PlacedAt, Unscheduled, Owns, AlonePoolInv, AloneInv, TypeInv, TaskOK
<1>1. CASE YieldToReady(t) \/ \E s \in Finished : Finish(t, s)
  <2>1. /\ pc[t] = "running" /\ pc'[t] = "swap_out"
        /\ UNCHANGED <<queue, armed, submits, task, saved>>
        /\ \A f \in Fibers \ {g} : state'[f] = state[f]
    BY <1>a, <1>1 DEF YieldToReady, Finish, Publish
  <2>2. QED
    BY <1>b, <1>c, <2>1, PlacedUnmoved DEF Scheduling, Treating
<1>2. CASE AddEventFails(t)
  BY <1>a, <1>2 DEF AddEventFails, AloneFiber
<1>3. CASE LeaveFiber(t)
  <2>1. /\ pc[t] = "swap_out" /\ pc'[t] = "count_down"
        /\ UNCHANGED <<queue, armed, submits, task, state>>
        /\ \A f \in Fibers \ {g} : saved'[f] = saved[f]
    BY <1>a, <1>3 DEF LeaveFiber, SwapOut
  <2>2. QED
    BY <1>b, <1>c, <2>1, PlacedUnmoved DEF Scheduling, Treating
<1>4. ASSUME NEW f \in Fibers, NEW pin \in Pinning, Spawn(t, f, pin) PROVE PlacedAt(t)'
  <2>1. /\ pc[t] = "running" /\ submits[f] = 0 /\ CallSchedule(t, f, pin, "running")
        /\ submits' = [submits EXCEPT ![f] = 1]
        /\ UNCHANGED <<queue, armed, task, state, saved>>
    BY <1>4 DEF Spawn
  <2>2. f \notin armed /\ ~Queued(f) /\ f # g
    BY <1>a, <1>c, <2>1 DEF PlacedAt, Unscheduled
  <2>3. \A h \in Fibers : submits'[h] = 0 => submits[h] = 0 /\ h # f
    BY <1>a, <2>1
  <2>4. QED
    BY <1>a, <2>1, <2>2, <2>3, PlacedCall DEF Scheduling, Treating
<1>5. CASE Arm(t)
  <2>1. /\ pc[t] = "running" /\ pc'[t] = "holding" /\ g \in Waiters \ armed
        /\ armed' = armed \cup {g} /\ UNCHANGED <<queue, submits, task, state, saved, call>>
    BY <1>a, <1>5 DEF Arm
  <2>2. \A f : Queued(f)' <=> Queued(f)
    BY <2>1 DEF Queued
  <2>3. ~Queued(g)
    BY <1>a, <2>1 DEF PlacedAt, WaiterOnce
  <2>4. WaiterOnce(t)'
    BY <1>a, <2>1, <2>2 DEF PlacedAt, WaiterOnce, Scheduling
  <2>5. ArmedSuspended(t)'
    BY <1>a, <1>b, <2>1, <2>2, <2>3 DEF PlacedAt, ArmedSuspended, Treating
  <2>6. Unscheduled(t)'
    BY <1>a, <1>c, <2>1, <2>2 DEF PlacedAt, Unscheduled, Owns, Scheduling
  <2>7. QED
    BY <2>4, <2>5, <2>6 DEF PlacedAt
<1>6. CASE YieldToHold(t)
  <2>1. /\ pc[t] = "holding" /\ pc'[t] = "swap_out" /\ state'[g] = "HOLD"
        /\ \A f \in Fibers \ {g} : state'[f] = state[f]
        /\ UNCHANGED <<queue, armed, submits, task, saved, call>>
    BY <1>a, <1>c, <1>6 DEF YieldToHold, Publish
  <2>2. \A f : Queued(f)' <=> Queued(f)
    BY <2>1 DEF Queued
  <2>3. WaiterOnce(t)'
    BY <1>a, <2>1, <2>2 DEF PlacedAt, WaiterOnce, Scheduling
  <2>4. ArmedSuspended(t)'
    BY <1>a, <1>c, <2>1, <2>2 DEF PlacedAt, ArmedSuspended, Treating
  <2>5. Unscheduled(t)'
    BY <1>a, <1>c, <2>1, <2>2 DEF PlacedAt, Unscheduled, Owns, Scheduling
  <2>6. QED
    BY <2>3, <2>4, <2>5 DEF PlacedAt
<1>7. QED
  BY <1>1, <1>2, <1>3, <1>4, <1>5, <1>6 DEF FiberStep

\* A trigger moves a registered fiber to schedule().
LEMMA PlacedIdleStep ==
  ASSUME Alone, AlonePoolInv, NEW t \in Threads, IdleStep(t)
  PROVE  PlacedAt(t)'
<1> USE DEF At, Goto, fiberVars, counters, locals, bounds
<1>a. /\ PlacedAt(t) /\ Taskless /\ armed \subseteq Fibers /\ pc \in [Threads -> PC]
      /\ AlonePlace(t) /\ None \notin Fibers
  BY PlacedTypes
<1>1. ASSUME NEW f \in Fibers, Trigger(t, f) PROVE PlacedAt(t)'
  <2>1. /\ pc[t] = "handle" /\ task[t] = None /\ f \in armed /\ armed' = armed \ {f}
        /\ CallSchedule(t, f, AnyThread, "pending_down")
        /\ UNCHANGED <<queue, submits, task, state, saved>>
    BY <1>a, <1>1 DEF Trigger, Taskless
  <2>2. ~Queued(f) /\ submits[f] # 0
    BY <1>a, <2>1 DEF PlacedAt, ArmedSuspended, Unscheduled
  <2>3. QED
    BY <1>a, <2>1, <2>2, PlacedCall DEF Scheduling, Treating
<1>2. CASE ~\E f \in Fibers : Trigger(t, f)
  <2>1. /\ UNCHANGED <<queue, armed, submits, task, state, saved>> /\ task[t] = None
        /\ pc[t] # "holding" /\ pc'[t] \notin {"sched_read", "sched_push"}
    BY <1>a, <1>2 DEF IdleStep, GoIdle, CheckPending, CheckTasks, EpollReturn, PendingDown, HandleDone,
       IdleDown, ExitRun, Taskless, AlonePlace
  <2>2. QED
    BY <1>a, <2>1, PlacedUnmoved DEF Scheduling
<1>3. QED
  BY <1>1, <1>2

\* The application submits before it calls stop(), which moves no fiber.
LEMMA PlacedCallerStep ==
  ASSUME Alone, AlonePoolInv,
         StopBegin \/ StopStep \/ \E f \in Fibers, pin \in Pinning : Submit(f, pin)
  PROVE  PlacedAt(Caller)'
<1> USE DEF At, Goto, fiberVars, counters, locals, bounds
<1>a. /\ Caller \in Threads /\ PlacedAt(Caller) /\ Taskless /\ armed \subseteq Fibers
      /\ AlonePlace(Caller) /\ None \notin Fibers /\ submits \in [Fibers -> Nat]
      /\ pc \in [Threads -> PC] /\ MaxSubmits \in Nat
  BY OnlyCaller, PlacedTypes, BoundsAssumption
<1>1. CASE StopBegin \/ StopStep
  <2>1. /\ UNCHANGED <<queue, armed, submits, task, state, saved>>
        /\ pc[Caller] \in StopPc /\ pc'[Caller] \notin {"sched_read", "sched_push"}
    BY <1>a, <1>1 DEF StopBegin, StopStep, StopTickle, StopFlag, StopCheckPending, StopCheckTasks,
       StopReturn, StopPc
  <2>2. task[Caller] = None /\ pc[Caller] # "holding"
    BY <1>a, <2>1 DEF Taskless, StopPc
  <2>3. QED
    BY <1>a, <2>1, <2>2, PlacedUnmoved DEF Scheduling
<1>2. ASSUME NEW f \in Fibers, NEW pin \in Pinning, Submit(f, pin) PROVE PlacedAt(Caller)'
  <2>1. /\ pc[Caller] = "app" /\ CallSchedule(Caller, f, pin, "app") /\ task[Caller] = None
        /\ submits' = [submits EXCEPT ![f] = @ + 1] /\ (f \in Waiters => submits[f] < 1)
        /\ UNCHANGED <<queue, armed, task, state, saved>>
    BY <1>a, <1>2 DEF Submit, Taskless, StopPc
  <2>2. armed = {} /\ (f \in Waiters => ~Queued(f))
    BY <1>a, <2>1 DEF AlonePlace, BeforeStop, PlacedAt, Unscheduled
  <2>3. \A h \in Fibers : submits'[h] = 0 => submits[h] = 0 /\ h # f
    BY <1>a, <2>1
  <2>4. QED
    BY <1>a, <2>1, <2>2, <2>3, PlacedCall DEF Scheduling, Treating
<1>3. QED
  BY <1>1, <1>2

\* Every step keeps the fibers in their places.
LEMMA PlacedStep == Alone /\ AlonePoolInv /\ [Next]_vars => \A t \in Threads : PlacedAt(t)'
<1> SUFFICES ASSUME Alone, AlonePoolInv, [Next]_vars, NEW t \in Threads PROVE PlacedAt(t)'
  OBVIOUS
<1>1. ASSUME NEW u \in Threads, ThreadStep(u) PROVE PlacedAt(u)'
  BY <1>1, PlacedScheduleStep, PlacedTaskStep, PlacedFiberStep, PlacedIdleStep DEF ThreadStep
<1>2. t = Caller /\ PlacedAt(t)
  BY PlacedTypes
<1>3. CASE UNCHANGED vars
  <2>1. UNCHANGED <<queue, armed, submits, state, saved, task, pc, call>>
    BY <1>3 DEF vars, fiberVars, locals, bounds
  <2>2. QED
    BY <1>2, <2>1 DEF PlacedAt, WaiterOnce, ArmedSuspended, Unscheduled, Owns, Queued, Scheduling,
       Treating
<1>4. CASE \E u \in Threads : ThreadStep(u)
  BY <1>1, <1>4, <1>2, OnlyCaller
<1>5. QED
  BY <1>2, <1>3, <1>4, PlacedCallerStep DEF Next

\* Nothing is placed at the start.
LEMMA PlacedInit == Alone /\ Init => \A t \in Threads : PlacedAt(t)
<1> SUFFICES ASSUME Alone, Init, NEW t \in Threads PROVE PlacedAt(t)
  OBVIOUS
<1>1. /\ queue = <<>> /\ armed = {} /\ task[t] = None /\ ~Scheduling(t)
      /\ \A f \in Fibers : state[f] = "INITIALIZE" /\ saved[f]
  BY DEF Init, FiberInit, Scheduling
<1>2. Len(queue) = 0
  BY <1>1, EmptySeq
<1>3. \A f : ~Queued(f)
  BY <1>2 DEF Queued
<1>4. QED
  BY <1>1, <1>2, <1>3, NoneIsNoFiber DEF PlacedAt, WaiterOnce, ArmedSuspended, Unscheduled, Owns

\* The invariant of the pool.
THEOREM AlonePoolInvariant ==
  ASSUME Alone
  PROVE  Spec => []AlonePoolInv
<1>1. Init => AlonePoolInv
  BY AloneInit, PlacedInit DEF AlonePoolInv
<1>2. AlonePoolInv /\ [Next]_vars => AlonePoolInv'
  <2> SUFFICES ASSUME AlonePoolInv, [Next]_vars PROVE AlonePoolInv'
    OBVIOUS
  <2>1. AloneInv'
    BY AloneInvariantStep DEF AlonePoolInv
  <2>2. \A t \in Threads : PlacedAt(t)'
    BY PlacedStep
  <2>3. QED
    BY <2>1, <2>2 DEF AlonePoolInv
<1>3. QED
  BY <1>1, <1>2, PTL DEF Spec

-----------------------------------------------------------------------------
(* The task pool                                                           *)

\* What was submitted, has not ended and is not registered is ready unless the thread
\* executes it.
ReadyViewed ==
  PoolReady =
    {f \in Fibers \ armed : submits[f] # 0 /\ state[f] \notin Finished /\ ~Executes(f)}

\* The invariant gives this view of PoolReady.
LEMMA AloneViewed == AlonePoolInv => ReadyViewed
<1> SUFFICES ASSUME AlonePoolInv PROVE ReadyViewed
  OBVIOUS
<1>1. ASSUME NEW f \in Fibers \ armed, state[f] \notin Finished
      PROVE  (Queued(f) \/ \E t \in Threads : Owns(t, f)) <=> submits[f] # 0
  <2>1. submits[f] \in Nat /\ NoFiberLost /\ \A t \in Threads : Unscheduled(t)
    BY AloneTypes DEF AlonePoolInv, AloneInv, PlacedAt
  <2>2. (Queued(f) \/ \E t \in Threads : Owns(t, f)) => submits[f] # 0
    BY <2>1 DEF Unscheduled, Threads
  <2>3. submits[f] # 0 => submits[f] > 0
    BY <2>1
  <2>4. QED
    BY <1>1, <2>1, <2>2, <2>3 DEF NoFiberLost
<1>2. QED
  BY <1>1 DEF PoolReady, ReadyViewed

\* The thread executes its task or nothing.
LEMMA AloneExecutes ==
  ASSUME Alone, NEW t \in Threads, NEW f
  PROVE  Executes(f) <=> OnCpu(t) /\ task[t] = f
BY OnlyCaller DEF Executes

\* A step that lets no fiber on or off the processor, submits none for the first time, and
\* ends or registers only the fiber that executes is none of the task pool's.
LEMMA AlonePoolStutters ==
  ASSUME Alone, AlonePoolInv, AlonePoolInv', NEW t \in Threads,
         \A f \in Fibers : submits'[f] = 0 <=> submits[f] = 0,
         OnCpu(t)' <=> OnCpu(t), OnCpu(t) => task'[t] = task[t],
         \A f \in Fibers : ~Executes(f) =>
           (f \in armed' <=> f \in armed) /\ (state'[f] \in Finished <=> state[f] \in Finished),
         pc'[t] = "returned" <=> pc[t] = "returned"
  PROVE  UNCHANGED Pool!poolVars
<1>1. t = Caller /\ Threads = {Caller} /\ armed \subseteq Fibers /\ armed' \subseteq Fibers
  BY OnlyCaller DEF AlonePoolInv, AloneInv, TypeInv, TypeOK
<1>2. \A f \in Fibers : Executes(f)' <=> Executes(f)
  BY <1>1 DEF Executes
<1>3. ReadyViewed /\ ReadyViewed'
  BY AloneViewed, PTL
<1>4. PoolReady' = PoolReady
  BY <1>2, <1>3 DEF ReadyViewed
<1>5. PoolWaiting' = PoolWaiting
  BY <1>1, <1>2 DEF PoolWaiting
<1>6. PoolDone' = PoolDone
  BY <1>2 DEF PoolDone
<1>7. PoolRunning' = PoolRunning
  BY <1>1 DEF PoolRunning
<1>8. At(Caller, "returned")' <=> At(Caller, "returned")
  BY <1>1 DEF At
<1>9. QED
  BY <1>4, <1>5, <1>6, <1>7, <1>8 DEF Pool!poolVars, At

\* Switching to a task's fiber executes it.
LEMMA AlonePoolDispatch ==
  ASSUME Alone, AlonePoolInv, AlonePoolInv', NEW t \in Threads, Dispatch(t)
  PROVE  Pool!PoolNext
<1>a. /\ t = Caller /\ Threads = {Caller} /\ PlacedAt(t) /\ task \in [Threads -> Fibers \cup {None}]
      /\ state \in [Fibers -> FiberState] /\ pc \in [Threads -> PC] /\ None \notin Fibers
  BY PlacedTypes
<1>1. PICK g \in Fibers : g = task[t]
  BY <1>a DEF Dispatch
<1>2. /\ pc[t] = "dispatch" /\ pc'[t] = "running" /\ state[g] \notin Finished
      /\ state'[g] = "EXECUTE" /\ \A f \in Fibers \ {g} : state'[f] = state[f]
      /\ UNCHANGED <<task, submits, armed>>
  BY <1>a, <1>1 DEF Dispatch, At, Goto, SwapIn, locals, bounds
<1>3. ~OnCpu(t) /\ OnCpu(t)'
  BY <1>2 DEF OnCpu, SchedPc
<1>4. g \notin armed /\ submits[g] # 0
  BY <1>a, <1>1, <1>2 DEF PlacedAt, ArmedSuspended, Unscheduled, Owns, Treating
<1>5. \A f \in Fibers : ~Executes(f) /\ (Executes(f)' <=> f = g)
  BY <1>a, <1>1, <1>2, <1>3 DEF Executes
<1>6. ReadyViewed /\ ReadyViewed'
  BY AloneViewed, PTL
<1>7. g \in PoolReady /\ PoolReady' = PoolReady \ {g}
  BY <1>2, <1>4, <1>5, <1>6 DEF ReadyViewed, Finished
<1>8. PoolDone' = PoolDone
  BY <1>2, <1>5 DEF PoolDone, Finished
<1>9. PoolWaiting' = PoolWaiting
  <2>1. armed \subseteq Fibers
    BY PlacedTypes
  <2>2. QED
    BY <1>2, <1>4, <1>5, <2>1 DEF PoolWaiting
<1>10. PoolRunning[t] = None /\ PoolRunning' = [PoolRunning EXCEPT ![t] = g]
  BY <1>a, <1>1, <1>2, <1>3 DEF PoolRunning
<1>11. UNCHANGED At(Caller, "returned")
  BY <1>a, <1>2 DEF At
<1>12. Pool!Execute(t, g)
  BY <1>7, <1>8, <1>9, <1>10, <1>11 DEF Pool!Execute
<1>13. QED
  BY <1>12 DEF Pool!PoolNext

\* A fiber that leaves the thread is ready again, waits for its event, or is done.
LEMMA AlonePoolLeave ==
  ASSUME Alone, AlonePoolInv, AlonePoolInv', NEW t \in Threads, LeaveFiber(t)
  PROVE  Pool!PoolNext
<1>a. /\ t = Caller /\ Threads = {Caller} /\ PlacedAt(t) /\ task \in [Threads -> Fibers \cup {None}]
      /\ AloneFiber(t) /\ AloneHeld(t) /\ armed \subseteq Fibers
      /\ pc \in [Threads -> PC] /\ None \notin Fibers
  BY PlacedTypes
<1>b. pc[t] = "swap_out" => task[t] # None
  BY DEF AlonePoolInv, AloneInv, TypeInv, TaskOK
<1>1. PICK g \in Fibers : g = task[t]
  BY <1>a, <1>b DEF LeaveFiber, At
<1>2. /\ pc[t] = "swap_out" /\ pc'[t] = "count_down" /\ UNCHANGED <<task, submits, armed, state>>
  BY <1>a DEF LeaveFiber, At, Goto, SwapOut, locals, bounds
<1>3. OnCpu(t) /\ ~OnCpu(t)'
  BY <1>2 DEF OnCpu, SchedPc
<1>4. /\ submits[g] # 0 /\ state[g] \in Finished \cup {"READY", "HOLD"}
      /\ g \in armed <=> state[g] = "HOLD"
  BY <1>a, <1>b, <1>1, <1>2
     DEF PlacedAt, ArmedSuspended, Unscheduled, Owns, Treating, AloneFiber, AloneHeld
<1>5. \A f \in Fibers : ~Executes(f)' /\ (Executes(f) <=> f = g)
  BY <1>a, <1>1, <1>2, <1>3 DEF Executes
<1>6. ReadyViewed /\ ReadyViewed'
  BY AloneViewed, PTL
<1>7. PoolRunning[t] = g /\ PoolRunning' = [PoolRunning EXCEPT ![t] = None]
  BY <1>a, <1>1, <1>2, <1>3 DEF PoolRunning
<1>8. ASSUME state[g] = "READY"
      PROVE  PoolReady' = PoolReady \cup {g} /\ PoolDone' = PoolDone /\ PoolWaiting' = PoolWaiting
  <2>1. g \notin armed /\ state[g] \notin Finished
    BY <1>4, <1>8 DEF Finished
  <2>2. PoolReady' = PoolReady \cup {g}
    BY <1>2, <1>4, <1>5, <1>6, <2>1 DEF ReadyViewed
  <2>3. QED
    BY <1>a, <1>2, <1>5, <2>1, <2>2 DEF PoolDone, PoolWaiting
<1>9. ASSUME state[g] = "HOLD"
      PROVE  PoolWaiting' = PoolWaiting \cup {g} /\ PoolReady' = PoolReady /\ PoolDone' = PoolDone
  <2>1. g \in armed
    BY <1>4, <1>9
  <2>2. PoolWaiting' = PoolWaiting \cup {g}
    BY <1>a, <1>2, <1>5, <2>1 DEF PoolWaiting
  <2>3. QED
    BY <1>2, <1>5, <1>6, <2>1, <2>2 DEF ReadyViewed, PoolDone
<1>10. ASSUME state[g] \in Finished
       PROVE  PoolDone' = PoolDone \cup {g} /\ PoolReady' = PoolReady /\ PoolWaiting' = PoolWaiting
  <2>1. g \notin armed
    BY <1>4, <1>10 DEF Finished
  <2>2. PoolDone' = PoolDone \cup {g}
    BY <1>2, <1>5, <1>10, <2>1 DEF PoolDone
  <2>3. QED
    BY <1>a, <1>2, <1>5, <1>6, <1>10, <2>1, <2>2 DEF ReadyViewed, PoolWaiting
<1>11. UNCHANGED At(Caller, "returned")
  BY <1>a, <1>2 DEF At
<1>12. PoolRunning[t] # None
  BY <1>a, <1>7
<1>13. Pool!Leave(t)
  BY <1>4, <1>7, <1>8, <1>9, <1>10, <1>11, <1>12 DEF Pool!Leave
<1>14. QED
  BY <1>13 DEF Pool!PoolNext

\* A fiber that is submitted for the first time is ready.
LEMMA AlonePoolEnter ==
  ASSUME Alone, AlonePoolInv, AlonePoolInv', NEW t \in Threads, NEW f \in Fibers, NEW pin, NEW ret,
         CallSchedule(t, f, pin, ret), UNCHANGED <<state, task, armed>>,
         submits[f] = 0, submits' = [submits EXCEPT ![f] = 1],
         (pc[t] = "running" /\ ret = "running") \/ (pc[t] = "app" /\ ret = "app")
  PROVE  Pool!PoolNext
<1>a. /\ t = Caller /\ Threads = {Caller} /\ PlacedAt(t) /\ TypeInv
      /\ submits \in [Fibers -> Nat] /\ None \notin Fibers /\ armed \subseteq Fibers
  BY PlacedTypes
<1>1. pc'[t] = "sched_read" /\ call'[t].ret = ret
  BY <1>a, CallScheduleFrame
<1>2. OnCpu(t)' <=> OnCpu(t)
  BY <1>1 DEF OnCpu, SchedPc
<1>3. \A h \in Fibers : Executes(h)' <=> Executes(h)
  BY <1>a, <1>2 DEF Executes
<1>4. submits'[f] = 1 /\ \A h \in Fibers \ {f} : submits'[h] = submits[h]
  BY <1>a
<1>5. state[f] \notin Finished /\ f \notin armed /\ task[t] # f
  BY <1>a DEF PlacedAt, Unscheduled, Owns, Finished
<1>6. ~Executes(f)
  BY <1>a, <1>5 DEF Executes
<1>7. ReadyViewed /\ ReadyViewed'
  BY AloneViewed, PTL
<1>8. f \notin PoolReady /\ PoolReady' = PoolReady \cup {f}
  BY <1>3, <1>4, <1>5, <1>6, <1>7 DEF ReadyViewed
<1>9. f \notin PoolWaiting \cup PoolDone /\ PoolDone' = PoolDone /\ PoolWaiting' = PoolWaiting
  BY <1>a, <1>3, <1>5 DEF PoolDone, PoolWaiting
<1>10. PoolRunning' = PoolRunning /\ \A u \in Threads : PoolRunning[u] # f
  BY <1>a, <1>2, <1>5 DEF PoolRunning
<1>11. ~At(Caller, "returned") /\ ~At(Caller, "returned")'
  BY <1>a, <1>1 DEF At
<1>12. Pool!Schedule(f)
  BY <1>8, <1>9, <1>10, <1>11 DEF Pool!Schedule, Pool!Executing, At
<1>13. QED
  BY <1>12 DEF Pool!PoolNext

\* The event of a suspended fiber wakes it.
LEMMA AlonePoolTrigger ==
  ASSUME Alone, AlonePoolInv, AlonePoolInv', NEW t \in Threads, NEW f \in Fibers, Trigger(t, f)
  PROVE  Pool!PoolNext
<1>a. /\ t = Caller /\ Threads = {Caller} /\ PlacedAt(t) /\ TypeInv /\ Taskless
      /\ None \notin Fibers /\ armed \subseteq Fibers
  BY PlacedTypes
<1>1. /\ pc[t] = "handle" /\ f \in armed /\ armed' = armed \ {f}
      /\ UNCHANGED <<state, task, submits>>
      /\ CallSchedule(t, f, AnyThread, "pending_down")
  BY DEF Trigger, At, fiberVars, bounds
<1>2. pc'[t] = "sched_read" /\ call'[t].ret = "pending_down"
  BY <1>a, <1>1, CallScheduleFrame
<1>3. ~OnCpu(t) /\ ~OnCpu(t)'
  BY <1>1, <1>2 DEF OnCpu, SchedPc
<1>4. \A h \in Fibers : ~Executes(h)' /\ ~Executes(h)
  BY <1>a, <1>3 DEF Executes
<1>5. submits[f] # 0 /\ state[f] \notin Finished
  BY <1>a, <1>1 DEF PlacedAt, Unscheduled, ArmedSuspended, Finished
<1>6. ReadyViewed /\ ReadyViewed'
  BY AloneViewed, PTL
<1>7. PoolReady' = PoolReady \cup {f}
  BY <1>1, <1>4, <1>5, <1>6 DEF ReadyViewed
<1>8. f \in PoolWaiting /\ PoolWaiting' = PoolWaiting \ {f}
  BY <1>a, <1>1, <1>4 DEF PoolWaiting
<1>9. PoolDone' = PoolDone
  BY <1>1, <1>4, <1>5 DEF PoolDone
<1>10. PoolRunning' = PoolRunning
  BY <1>a, <1>3 DEF PoolRunning
<1>11. UNCHANGED At(Caller, "returned")
  BY <1>a, <1>1, <1>2 DEF At
<1>12. Pool!Wake(f)
  BY <1>7, <1>8, <1>9, <1>10, <1>11 DEF Pool!Wake
<1>13. QED
  BY <1>12 DEF Pool!PoolNext

\* stop() returns when nothing is ready, waiting or running.
LEMMA AlonePoolReturn ==
  ASSUME Alone, AlonePoolInv, AlonePoolInv', StopReturn
  PROVE  Pool!PoolNext
<1>a. /\ Threads = {Caller} /\ TypeInv /\ AlonePlace(Caller) /\ Taskless
      /\ pc \in [Threads -> PC] /\ None \notin Fibers /\ queue \in Seq(Entry)
  BY OnlyCaller, PlacedTypes
<1>1. /\ pc[Caller] = "join" /\ pc'[Caller] = "returned"
      /\ UNCHANGED <<state, task, submits, call, armed, queue>>
  BY <1>a DEF StopReturn, At, Goto, fiberVars, locals, bounds
<1>2. queue = <<>> /\ armed = {} /\ task[Caller] = None
  BY <1>a, <1>1 DEF AlonePlace, Taskless, StopPc
<1>3. ~OnCpu(Caller) /\ ~OnCpu(Caller)'
  BY <1>1 DEF OnCpu, SchedPc
<1>4. \A f \in Fibers : ~Executes(f) /\ ~Executes(f)'
  BY <1>a, <1>3 DEF Executes
<1>5. PoolReady = {} /\ PoolReady' = {}
  <2>1. \A f \in Fibers : ~Queued(f) /\ ~Queued(f)'
    BY <1>1, <1>2, EmptySeq DEF Queued
  <2>2. \A f \in Fibers, t \in Threads : ~Owns(t, f) /\ ~Owns(t, f)'
    BY <1>a, <1>1, <1>2 DEF Owns, Scheduling
  <2>3. QED
    BY <2>1, <2>2 DEF PoolReady
<1>6. PoolWaiting = {} /\ PoolWaiting' = {}
  BY <1>1, <1>2 DEF PoolWaiting
<1>7. PoolDone' = PoolDone
  BY <1>1, <1>4 DEF PoolDone
<1>8. PoolRunning' = PoolRunning /\ \A u \in Threads : PoolRunning[u] = None
  BY <1>a, <1>3 DEF PoolRunning
<1>9. Pool!StopReturns
  BY <1>1, <1>5, <1>6, <1>7, <1>8 DEF Pool!StopReturns, At
<1>10. QED
  BY <1>9 DEF Pool!PoolNext

\* Inside schedule() nothing happens to the pool: the fiber is ready already.
LEMMA AlonePoolScheduleStep ==
  ASSUME Alone, AlonePoolInv, AlonePoolInv', NEW t \in Threads, ScheduleStep(t)
  PROVE  UNCHANGED Pool!poolVars
<1>a. TypeInv /\ pc \in [Threads -> PC]
  BY PlacedTypes
<1>1. /\ pc[t] \in SchedPc /\ UNCHANGED <<state, submits, task, armed>>
      /\ call[t].ret \in {"app", "running", "scan", "pending_down"}
  BY <1>a DEF ScheduleStep, SchedRead, SchedPush, SchedTickle, At, SchedPc, fiberVars, bounds,
         TypeInv, TaskOK
<1>2. (pc'[t] \in SchedPc /\ call'[t].ret = call[t].ret) \/ pc'[t] = call[t].ret
  <2>1. CASE SchedRead(t)
    BY <1>a, <2>1, SchedReadFrame DEF SchedPc
  <2>2. CASE SchedPush(t) /\ call[t].need
    BY <1>a, <2>2 DEF SchedPush, Goto, SchedPc
  <2>3. CASE SchedPush(t) /\ ~call[t].need
    BY <1>a, <2>3, ReturnFrame DEF SchedPush
  <2>4. CASE SchedTickle(t)
    BY <1>a, <2>4, ReturnFrame DEF SchedTickle
  <2>5. QED
    BY <2>1, <2>2, <2>3, <2>4 DEF ScheduleStep
<1>3. /\ OnCpu(t)' <=> OnCpu(t)
      /\ pc[t] # "returned" /\ pc'[t] # "returned"
  BY <1>1, <1>2 DEF OnCpu, SchedPc
<1>4. QED
  BY <1>1, <1>3, AlonePoolStutters

\* run() changes the pool only where it switches to a fiber.
LEMMA AlonePoolTaskStep ==
  ASSUME Alone, AlonePoolInv, AlonePoolInv', NEW t \in Threads, TaskStep(t)
  PROVE  [Pool!PoolNext]_Pool!poolVars
<1> USE DEF Goto, At, SchedPc, fiberVars, counters, locals, bounds, OnCpu
<1>a. /\ TypeInv /\ pc \in [Threads -> PC] /\ task \in [Threads -> Fibers \cup {None}]
      /\ state \in [Fibers -> FiberState] /\ AloneFiber(t)
  BY PlacedTypes
<1>1. CASE Dispatch(t)
  BY <1>1, AlonePoolDispatch
<1>2. CASE ~Dispatch(t)
  <2>1. UNCHANGED <<submits, armed, state>>
    <3>1. CASE SetHold(t)
      BY <1>a, <3>1 DEF SetHold, Publish, AloneFiber
    <3>2. CASE ~SetHold(t)
      BY <1>2, <3>2
         DEF TaskStep, ScanTake, ScanNothing, CountUp, TickleMe, DropFinished, SwapInFails, CountDown,
             StoreDown, Requeue, DropEnded, DecideHold
    <3>3. QED
      BY <3>1, <3>2
  <2>2. /\ pc[t] \in {"scan", "count_up", "tickle_me", "dispatch", "count_down", "store_down",
                      "post", "set_hold"}
        /\ ~OnCpu(t)'
        /\ pc'[t] # "returned"
    <3>1. CASE Requeue(t)
      BY <1>a, <3>1, CallScheduleFrame DEF Requeue
    <3>2. CASE ~Requeue(t)
      BY <1>a, <1>2, <3>2
         DEF TaskStep, ScanTake, ScanNothing, CountUp, TickleMe, DropFinished, SwapInFails, CountDown,
             StoreDown, DropEnded, DecideHold, SetHold
    <3>3. QED
      BY <3>1, <3>2
  <2>3. QED
    BY <2>1, <2>2, AlonePoolStutters
<1>3. QED
  BY <1>1, <1>2

\* A fiber changes the pool where it submits another one and where it leaves its thread.
LEMMA AlonePoolFiberStep ==
  ASSUME Alone, AlonePoolInv, AlonePoolInv', NEW t \in Threads, FiberStep(t)
  PROVE  [Pool!PoolNext]_Pool!poolVars
<1> USE DEF Goto, At, SchedPc, fiberVars, counters, locals, bounds, OnCpu
<1>a. /\ t = Caller /\ TypeInv /\ pc \in [Threads -> PC]
      /\ state \in [Fibers -> FiberState] /\ AloneFiber(t)
  BY PlacedTypes
<1>1. ASSUME NEW f \in Fibers, NEW pin \in Pinning, Spawn(t, f, pin) PROVE Pool!PoolNext
  BY <1>a, <1>1, AlonePoolEnter DEF Spawn
<1>2. ASSUME LeaveFiber(t) PROVE Pool!PoolNext
  BY <1>2, AlonePoolLeave
<1>3. ~AddEventFails(t)
  BY <1>a DEF AddEventFails, AloneFiber
<1>4. ASSUME YieldToReady(t) \/ Arm(t) \/ YieldToHold(t) \/ \E s \in Finished : Finish(t, s)
      PROVE  UNCHANGED Pool!poolVars
  <2>1. /\ pc[t] \in {"running", "holding"} /\ pc'[t] \in {"holding", "swap_out"}
        /\ UNCHANGED <<task, submits>>
        /\ \A f \in Fibers \ {task[t]} :
             (f \in armed' <=> f \in armed) /\ state'[f] = state[f]
    BY <1>a, <1>4 DEF YieldToReady, Arm, YieldToHold, Finish, Publish
  <2>2. \A f \in Fibers : ~Executes(f) => f # task[t]
    BY <2>1 DEF Executes
  <2>3. QED
    BY <2>1, <2>2, AlonePoolStutters
<1>5. QED
  BY <1>1, <1>2, <1>3, <1>4 DEF FiberStep

\* The idle fiber changes the pool where it handles an event.
LEMMA AlonePoolIdleStep ==
  ASSUME Alone, AlonePoolInv, AlonePoolInv', NEW t \in Threads, IdleStep(t)
  PROVE  [Pool!PoolNext]_Pool!poolVars
<1> USE DEF Goto, At, SchedPc, fiberVars, counters, locals, bounds, OnCpu
<1>a. pc \in [Threads -> PC]
  BY PlacedTypes
<1>1. ASSUME NEW f \in Fibers, Trigger(t, f) PROVE Pool!PoolNext
  BY <1>1, AlonePoolTrigger
<1>2. CASE ~\E f \in Fibers : Trigger(t, f)
  <2>1. /\ UNCHANGED <<state, submits, task, armed>>
        /\ pc[t] \in {"dispatch", "check_pending", "check_tasks", "epoll", "pending_down", "handle",
                      "idle_down"}
        /\ pc'[t] \in {"check_pending", "check_tasks", "epoll", "handle", "idle_down", "scan", "join",
                       "exited"}
    BY <1>a, <1>2
       DEF IdleStep, GoIdle, CheckPending, CheckTasks, EpollReturn, PendingDown, HandleDone,
           IdleDown, ExitRun
  <2>2. QED
    BY <2>1, AlonePoolStutters
<1>3. QED
  BY <1>1, <1>2

\* The caller changes the pool where it submits a fiber for the first time and where
\* stop() returns.
LEMMA AlonePoolCallerStep ==
  ASSUME Alone, AlonePoolInv, AlonePoolInv',
         StopBegin \/ StopStep \/ \E f \in Fibers, pin \in Pinning : Submit(f, pin)
  PROVE  [Pool!PoolNext]_Pool!poolVars
<1> USE DEF Goto, At, SchedPc, fiberVars, counters, locals, bounds, OnCpu
<1>a. /\ Caller \in Threads /\ TypeInv /\ pc \in [Threads -> PC] /\ submits \in [Fibers -> Nat]
  BY OnlyCaller, PlacedTypes
<1>1. CASE StopReturn
  BY <1>1, AlonePoolReturn
<1>2. CASE StopBegin \/ (StopStep /\ ~StopReturn)
  <2>1. /\ UNCHANGED <<state, submits, task, armed>>
        /\ pc[Caller] \in {"app", "stop_tickle", "stop_pending", "stop_tasks"}
        /\ pc'[Caller] \in {"stop_tickle", "stop_pending", "stop_tasks", "join", "scan"}
    BY <1>a, <1>2 DEF StopBegin, StopStep, StopTickle, StopFlag, StopCheckPending, StopCheckTasks
  <2>2. QED
    BY <1>a, <2>1, AlonePoolStutters
<1>3. ASSUME NEW f \in Fibers, NEW pin \in Pinning, Submit(f, pin)
      PROVE  [Pool!PoolNext]_Pool!poolVars
  <2>1. /\ pc[Caller] = "app" /\ CallSchedule(Caller, f, pin, "app")
        /\ submits' = [submits EXCEPT ![f] = submits[f] + 1]
        /\ UNCHANGED <<state, task, armed>>
    BY <1>3 DEF Submit
  <2>2. CASE submits[f] = 0
    <3>1. submits' = [submits EXCEPT ![f] = 1]
      BY <2>1, <2>2
    <3>2. QED
      BY <1>a, <2>1, <2>2, <3>1, AlonePoolEnter
  <2>3. CASE submits[f] # 0
    <3>1. pc'[Caller] = "sched_read" /\ call'[Caller].ret = "app"
      BY <1>a, <2>1, CallScheduleFrame
    <3>2. \A h \in Fibers : submits'[h] = 0 <=> submits[h] = 0
      BY <1>a, <2>1, <2>3
    <3>3. QED
      BY <1>a, <2>1, <3>1, <3>2, AlonePoolStutters
  <2>4. QED
    BY <2>2, <2>3
<1>4. QED
  BY <1>1, <1>2, <1>3

\* Every step of the thread is a step of the task pool or none.
LEMMA AlonePoolStep ==
  Alone /\ AlonePoolInv /\ AlonePoolInv' /\ [Next]_vars => [Pool!PoolNext]_Pool!poolVars
<1> SUFFICES ASSUME Alone, AlonePoolInv, AlonePoolInv', [Next]_vars
             PROVE  [Pool!PoolNext]_Pool!poolVars
  OBVIOUS
<1>1. ASSUME NEW t \in Threads, ThreadStep(t) PROVE [Pool!PoolNext]_Pool!poolVars
  BY <1>1, AlonePoolScheduleStep, AlonePoolTaskStep, AlonePoolFiberStep, AlonePoolIdleStep
     DEF ThreadStep
<1>2. ASSUME UNCHANGED vars PROVE UNCHANGED Pool!poolVars
  <2>1. Caller \in Threads
    BY OnlyCaller
  <2>2. QED
    BY <1>2, <2>1, AlonePoolStutters DEF vars, fiberVars, locals, bounds, OnCpu
<1>3. QED
  BY <1>1, <1>2, AlonePoolCallerStep DEF Next

\* At the start the pool is empty.
LEMMA AlonePoolInitial == Alone /\ Init => Pool!PoolInit
<1> SUFFICES ASSUME Alone, Init PROVE Pool!PoolInit
  OBVIOUS
<1>1. AlonePoolInv
  BY AloneInit, PlacedInit DEF AlonePoolInv
<1>2. \A t \in Threads : ~OnCpu(t)
  BY DEF Init, OnCpu, SchedPc
<1>3. PoolReady = {}
  BY <1>1, AloneViewed DEF ReadyViewed, Init
<1>4. PoolWaiting = {} /\ PoolDone = {}
  BY DEF PoolWaiting, PoolDone, Init, FiberInit, Finished
<1>5. PoolRunning = [t \in Threads |-> None] /\ ~At(Caller, "returned")
  BY <1>2 DEF PoolRunning, Init, At, Threads
<1>6. QED
  BY <1>3, <1>4, <1>5 DEF Pool!PoolInit

\* With one thread the scheduler implements the whole task pool, whatever the tasks do: a
\* fiber that waits for an event is woken by it and by nothing else, one that is
\* scheduled again runs on once, and stop() waits for both.
THEOREM PoolImplementedAlone ==
  ASSUME Alone
  PROVE  Spec => ImplementsPool
<1>1. Init => Pool!PoolInit
  BY AlonePoolInitial
<1>2. AlonePoolInv /\ AlonePoolInv' /\ [Next]_vars => [Pool!PoolNext]_Pool!poolVars
  BY AlonePoolStep
<1>3. QED
  BY <1>1, <1>2, AlonePoolInvariant, PTL DEF Spec, ImplementsPool, Pool!PoolSpec
=============================================================================

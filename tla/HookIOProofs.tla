----------------------------- MODULE HookIOProofs -----------------------------
(* The invariants of the hooked calls, for any fibers, descriptors, calls   *)
(* and threads, and those of the one thread the server is shipped with.    *)
EXTENDS HookIO, EventTableProofs

-----------------------------------------------------------------------------
(* Types                                                                   *)

LEMMA TypesOfFiberSteps ==
  ASSUME TypeOK, TableInv, NEW f \in Fibers, FiberStep(f)
  PROVE  TypeOK' /\ TableInv'
<1> USE JobAssumption DEF FdOf, EventOf, At, Goto, Return, callVars
<1>0. FdOf(f) \in Fds /\ EventOf(f) \in Events
  OBVIOUS
<1>1. /\ pc' \in [Fibers -> FiberPc]
      /\ result' \in [Fibers -> {"none", "ok", "again", "badf", "refused", "timeout"}]
  <2> USE DEF TypeOK, FiberPc
  <2>1. CASE Begin(f)
    BY <2>1 DEF Begin
  <2>2. CASE TrySucceeds(f) \/ TryFails(f) \/ TryBlocks(f) \/ AddTimer(f)
    BY <2>2 DEF TrySucceeds, TryFails, TryBlocks, AddTimer
  <2>3. CASE WaitForEvent(f) \/ AddEventFails(f) \/ AddEventAborts(f) \/ Hold(f)
    BY <2>3 DEF WaitForEvent, AddEventFails, AddEventAborts, Hold
  <2>4. CASE Resume(f) \/ AfterHold(f) \/ Check(f) \/ Undo(f) \/ AskResult(f)
    BY <2>4 DEF Resume, AfterHold, Check, Undo, AskResult
  <2>5. CASE CloseSettle(f) \/ CloseForget(f) \/ CloseDescriptor(f)
    BY <2>5 DEF CloseSettle, CloseForget, CloseDescriptor
  <2>6. QED
    BY <2>1, <2>2, <2>3, <2>4, <2>5 DEF FiberStep
<1>2. /\ timer' \in [Fibers -> {"off", "set", "expired"}]
      /\ UNCHANGED <<callback, flag, report>>
      /\ aborted' \in {"no", "assertion", "erase"}
      /\ entity' \subseteq Fds
  BY DEF TypeOK, FiberStep, Begin, TrySucceeds, TryFails, TryBlocks, AddTimer, WaitForEvent,
         AddEventFails, AddEventAborts, Hold, Resume, AfterHold, Check, Undo, AskResult,
         CloseSettle, CloseForget, CloseDescriptor, CancelTimer
<1>3. TableInv'
  <2>1. CASE WaitForEvent(f)
    BY <2>1, <1>0, AddKeepsTable DEF WaitForEvent
  <2>2. CASE CloseSettle(f) /\ ~SettleAllFails(FdOf(f))
    BY <2>2, <1>0, SettleAllKeepsTable DEF CloseSettle
  <2>3. CASE TrySucceeds(f)
    <3>1. UNCHANGED <<tableVars, epollVars, open, hungUp>> /\ available' \in [Fds -> SUBSET Events]
      BY <2>3 DEF TrySucceeds, TableInv, TableTypeOK
    <3>2. QED
      BY <3>1, CountKept DEF TableInv, TableTypeOK, InterestAgrees, tableVars, epollVars
  <2>4. CASE CloseDescriptor(f)
    <3>1. UNCHANGED tableVars
      BY <2>4 DEF CloseDescriptor
    <3>2. TableTypeOK'
      BY <2>4, <1>0 DEF CloseDescriptor, TableInv, TableTypeOK, tableVars, Unwatch, kernelVars, epollVars
    <3>3. InterestAgrees'
      BY <2>4, <1>0 DEF CloseDescriptor, TableInv, TableTypeOK, InterestAgrees, tableVars, Unwatch,
            kernelVars, epollVars
    <3>4. QED
      BY <3>1, <3>2, <3>3, CountKept DEF TableInv, tableVars
  <2>5. CASE Resume(f)
    <3>1. UNCHANGED <<registered, waiter, pending, epollVars, kernelVars>> /\ woken' \in [Fibers -> Nat]
      BY <2>5 DEF Resume, TableInv, TableTypeOK
    <3>2. QED
      BY <3>1, CountKept DEF TableInv, TableTypeOK, InterestAgrees, epollVars, kernelVars
  <2>6. CASE UNCHANGED eventVars
    BY <2>6, CountKept DEF eventVars, TableInv, TableTypeOK, InterestAgrees, tableVars, epollVars, kernelVars
  <2>7. QED
    BY <2>1, <2>2, <2>3, <2>4, <2>5, <2>6
       DEF FiberStep, Begin, TryFails, TryBlocks, AddTimer, AddEventFails, AddEventAborts, Hold,
           AfterHold, Check, Undo, AskResult, CloseSettle, CloseForget
<1>4. QED
  BY <1>1, <1>2, <1>3 DEF TypeOK, TableInv

LEMMA TypesOfTimers ==
  ASSUME TypeOK, TableInv, NEW f \in Fibers, TimerStep(f) \/ Expire(f)
  PROVE  TypeOK' /\ TableInv'
<1>0. FdOf(f) \in Fds /\ EventOf(f) \in Events
  BY JobAssumption DEF FdOf, EventOf
<1>1. /\ UNCHANGED <<entity, pc, result, report, aborted>>
      /\ timer' \in [Fibers -> {"off", "set", "expired"}]
      /\ callback' \in [Fibers -> {"off", "queued", "flag", "settle"}]
      /\ flag' \in [Fibers -> BOOLEAN]
  BY DEF TypeOK, TimerStep, Expire, CallbackBegin, SleepOver, CallbackFlag, CallbackSettle
<1>2. TableInv'
  <2>1. CASE CallbackSettle(f) /\ ~RemoveFails(FdOf(f), EventOf(f))
    BY <2>1, <1>0, SettleKeepsTable DEF CallbackSettle
  <2>2. CASE SleepOver(f)
    <3>1. UNCHANGED <<registered, waiter, pending, epollVars, kernelVars>> /\ woken' \in [Fibers -> Nat]
      BY <2>2 DEF SleepOver, Schedule, TableInv, TableTypeOK
    <3>2. QED
      BY <3>1, CountKept DEF TableInv, TableTypeOK, InterestAgrees, epollVars, kernelVars
  <2>3. CASE UNCHANGED eventVars
    BY <2>3, CountKept DEF eventVars, TableInv, TableTypeOK, InterestAgrees, tableVars, epollVars, kernelVars
  <2>4. QED
    BY <2>1, <2>2, <2>3 DEF TimerStep, Expire, CallbackBegin, CallbackFlag, CallbackSettle
<1>3. QED
  BY <1>1, <1>2 DEF TypeOK, TableInv

LEMMA TypesOfPollers ==
  ASSUME TypeOK, TableInv, NEW p \in Pollers, PollerStep(p)
  PROVE  TypeOK' /\ TableInv'
<1>1. CASE HandleReport(p)
  <2>1. report[p] \in [fd : Fds, events : SUBSET Events, hup : BOOLEAN]
    BY <1>1 DEF HandleReport, TypeOK
  <2>2. TableInv'
    <3>1. CASE Handle(report[p])
      BY <3>1, <2>1, HandleKeepsTable
    <3>2. CASE UNCHANGED eventVars
      BY <3>2, CountKept
         DEF eventVars, TableInv, TableTypeOK, InterestAgrees, tableVars, epollVars, kernelVars
    <3>3. QED
      BY <1>1, <3>1, <3>2 DEF HandleReport
  <2>3. QED
    BY <1>1, <2>2 DEF HandleReport, TypeOK, TableInv, callVars
<1>2. ASSUME NEW fd \in Fds, EpollWait(p, fd)
      PROVE  TypeOK' /\ TableInv'
  <2>1. TableInv'
    BY <1>2, KernelKeepsTable DEF EpollWait
  <2>2. Report(fd) \in [fd : Fds, events : SUBSET Events, hup : BOOLEAN]
    BY DEF Report, TableInv, TableTypeOK
  <2>3. QED
    BY <1>2, <2>1, <2>2 DEF EpollWait, TypeOK, TableInv, callVars
<1>3. QED
  BY <1>1, <1>2 DEF PollerStep

LEMMA TypesOfPeers ==
  ASSUME TypeOK, TableInv, PeerStep
  PROVE  TypeOK' /\ TableInv'
<1>1. TableInv'
  BY KernelKeepsTable DEF PeerStep, PeerArrives, PeerHangsUp
<1>2. QED
  BY <1>1 DEF PeerStep, PeerArrives, PeerHangsUp, TypeOK, TableInv, callVars

-----------------------------------------------------------------------------
(* Who waits for what                                                      *)

\* A step that schedules nobody and registers nothing, and in which nobody begins or
\* ceases to hold.
LEMMA WaitsUntouched ==
  ASSUME HookInv, UNCHANGED <<registered, waiter, woken>>,
         \A g \in Fibers : pc'[g] \in {"hold", "held"} <=> pc[g] \in {"hold", "held"}
  PROVE  RegisteredWait' /\ WokenOnce'
<1>1. \A g \in Fibers : Waiting(g)' <=> Waiting(g)
  BY DEF Waiting, Sleeps
<1>2. RegisteredWait'
  BY <1>1 DEF HookInv, RegisteredWait, FdOf, EventOf
<1>3. WokenOnce'
  BY <1>1 DEF HookInv, WokenOnce, FdOf, EventOf
<1>4. QED
  BY <1>2, <1>3

\* Events that are triggered schedule those who wait for them, each of them once.
LEMMA WaitsTriggered ==
  ASSUME HookInv, UNCHANGED <<waiter>>, NEW fd \in Fds, NEW S \in SUBSET registered[fd],
         registered' = [registered EXCEPT ![fd] = @ \ S],
         Schedule({waiter[fd][e] : e \in S}),
         \A g \in Fibers : pc'[g] \in {"hold", "held"} <=> pc[g] \in {"hold", "held"}
  PROVE  RegisteredWait' /\ WokenOnce'
<1> DEFINE W == {waiter[fd][e] : e \in S}
<1>0. registered \in [Fds -> SUBSET Events] /\ woken \in [Fibers -> Nat]
  BY DEF HookInv, TableInv, TableTypeOK
<1>1. \A g \in Fibers : woken'[g] = IF g \in W THEN woken[g] + 1 ELSE woken[g]
  BY DEF Schedule
<1>2. \A g \in W : g \in Fibers /\ Waiting(g) /\ FdOf(g) = fd /\ EventOf(g) \in S
  BY DEF HookInv, RegisteredWait
<1>3. \A g \in Fibers : Waiting(g) /\ FdOf(g) = fd /\ EventOf(g) \in S => g \in W
  BY DEF HookInv, WokenOnce
<1>4. \A g \in Fibers : Waiting(g)' <=> Waiting(g) /\ g \notin W
  <2> SUFFICES ASSUME NEW g \in Fibers
               PROVE  Waiting(g)' <=> Waiting(g) /\ g \notin W
    OBVIOUS
  <2> HIDE DEF W
  <2>1. QED
    BY <1>0, <1>1 DEF Waiting, Sleeps
<1> HIDE DEF W
<1>5. \A d \in Fds : registered'[d] = IF d = fd THEN registered[d] \ S ELSE registered[d]
  BY <1>0
<1>6. RegisteredWait'
  <2> SUFFICES ASSUME NEW d \in Fds, NEW e \in registered'[d]
               PROVE  LET g == waiter[d][e]
                      IN g \in Fibers /\ Waiting(g)' /\ FdOf(g) = d /\ EventOf(g) = e
    BY DEF RegisteredWait, FdOf, EventOf
  <2>1. e \in registered[d] /\ (d = fd => e \notin S)
    BY <1>5
  <2>2. waiter[d][e] \in Fibers /\ Waiting(waiter[d][e]) /\ FdOf(waiter[d][e]) = d
        /\ EventOf(waiter[d][e]) = e
    BY <2>1 DEF HookInv, RegisteredWait
  <2>3. waiter[d][e] \notin W
    BY <2>1, <2>2, <1>2
  <2>4. QED
    BY <2>2, <2>3, <1>4
<1>7. WokenOnce'
  <2> SUFFICES ASSUME NEW g \in Fibers
               PROVE  /\ Waiting(g)' => EventOf(g) \in registered'[FdOf(g)]
                                        /\ waiter[FdOf(g)][EventOf(g)] = g
                      /\ woken'[g] > 0 => woken'[g] = 1 /\ pc'[g] \in {"hold", "held"}
    BY DEF WokenOnce, FdOf, EventOf
  <2>1. FdOf(g) \in Fds
    BY JobAssumption DEF FdOf
  <2>2. Waiting(g)' => EventOf(g) \in registered'[FdOf(g)] /\ waiter[FdOf(g)][EventOf(g)] = g
    BY <2>1, <1>3, <1>4, <1>5 DEF HookInv, WokenOnce
  <2>3. CASE g \in W
    <3>1. woken[g] = 0 /\ pc[g] \in {"hold", "held"}
      BY <2>3, <1>2 DEF Waiting
    <3>2. QED
      BY <2>2, <2>3, <3>1, <1>1
  <2>4. CASE g \notin W
    BY <2>2, <2>4, <1>1 DEF HookInv, WokenOnce
  <2>5. QED
    BY <2>3, <2>4
<1>8. QED
  BY <1>6, <1>7

LEMMA FibersKeepWaits ==
  ASSUME HookInv, NEW f \in Fibers, FiberStep(f)
  PROVE  RegisteredWait' /\ WokenOnce'
<1> USE DEF At, Goto, Return
<1>0. /\ FdOf(f) \in Fds /\ EventOf(f) \in Events /\ Job[f].kind \in Kinds
      /\ pc \in [Fibers -> FiberPc] /\ registered \in [Fds -> SUBSET Events]
      /\ waiter \in [Fds -> [Events -> Fibers \cup {None}]] /\ woken \in [Fibers -> Nat]
  BY JobAssumption DEF FdOf, EventOf, HookInv, TypeOK, TableInv, TableTypeOK
<1>1. CASE WaitForEvent(f)
  <2> DEFINE fd == FdOf(f)  e == EventOf(f)
  <2>1. /\ UNCHANGED woken /\ pc[f] = "add" /\ pc' = [pc EXCEPT ![f] = "hold"] /\ woken[f] = 0
        /\ registered' = [registered EXCEPT ![fd] = @ \cup {e}] /\ e \notin registered[fd]
        /\ waiter' = [waiter EXCEPT ![fd][e] = f]
    BY <1>1, <1>0 DEF WaitForEvent, AddEvent, AddAborts, HookInv, WokenOnce
  <2>2. ~Sleeps(f) /\ Waiting(f)'
    BY <2>1, <1>0 DEF HookInv, PlacesInv, Sleeps, Waiting
  <2>3. \A g \in Fibers \ {f} : Waiting(g)' <=> Waiting(g)
    BY <2>1, <1>0 DEF Waiting, Sleeps
  <2>4. \A g \in Fibers \ {f} : Waiting(g) => FdOf(g) # fd \/ EventOf(g) # e
    BY <2>1 DEF HookInv, WokenOnce
  <2> HIDE DEF fd, e
  <2>5. \A d \in Fds, v \in Events :
          /\ v \in registered'[d] <=> v \in registered[d] \/ (d = fd /\ v = e)
          /\ waiter'[d][v] = IF d = fd /\ v = e THEN f ELSE waiter[d][v]
    BY <2>1, <1>0 DEF fd, e
  <2>6. RegisteredWait'
    <3> SUFFICES ASSUME NEW d \in Fds, NEW v \in registered'[d]
                 PROVE  \E g \in Fibers :
                          g = waiter'[d][v] /\ Waiting(g)' /\ FdOf(g) = d /\ EventOf(g) = v
      BY DEF RegisteredWait, FdOf, EventOf, Waiting, Sleeps
    <3>0. v \in Events
      BY <2>1, <1>0 DEF fd, e
    <3>1. CASE d = fd /\ v = e
      BY <3>0, <3>1, <2>2, <2>5 DEF fd, e
    <3>2. CASE ~(d = fd /\ v = e)
      <4>1. v \in registered[d] /\ waiter'[d][v] = waiter[d][v]
        BY <3>0, <3>2, <2>5
      <4>2. waiter[d][v] \in Fibers /\ Waiting(waiter[d][v]) /\ FdOf(waiter[d][v]) = d
            /\ EventOf(waiter[d][v]) = v
        BY <4>1 DEF HookInv, RegisteredWait
      <4>3. waiter[d][v] # f
        BY <4>2, <2>1 DEF Waiting
      <4>4. QED
        BY <4>1, <4>2, <4>3, <2>3
    <3>3. QED
      BY <3>1, <3>2
  <2>7. WokenOnce'
    <3> SUFFICES ASSUME NEW g \in Fibers
                 PROVE  /\ Waiting(g)' => EventOf(g) \in registered'[FdOf(g)]
                                          /\ waiter'[FdOf(g)][EventOf(g)] = g
                        /\ woken[g] > 0 => woken[g] = 1 /\ pc'[g] \in {"hold", "held"}
      BY <2>1 DEF WokenOnce, FdOf, EventOf
    <3>1. FdOf(g) \in Fds /\ EventOf(g) \in Events
      BY JobAssumption DEF FdOf, EventOf
    <3>2. CASE g = f
      BY <3>1, <3>2, <2>1, <2>5, <1>0 DEF fd, e
    <3>3. CASE g # f
      <4>1. Waiting(g) => EventOf(g) \in registered[FdOf(g)] /\ waiter[FdOf(g)][EventOf(g)] = g
        BY DEF HookInv, WokenOnce
      <4>2. woken[g] > 0 => woken[g] = 1 /\ pc'[g] \in {"hold", "held"}
        BY <3>3, <2>1, <1>0 DEF HookInv, WokenOnce
      <4>3. QED
        BY <3>1, <3>3, <4>1, <4>2, <2>3, <2>4, <2>5
    <3>4. QED
      BY <3>2, <3>3
  <2>8. QED
    BY <2>6, <2>7
<1>2. CASE Resume(f)
  <2>1. /\ UNCHANGED <<registered, waiter>> /\ woken[f] = 1 /\ woken' = [woken EXCEPT ![f] = @ - 1]
        /\ pc[f] = "held" /\ pc'[f] \in {"done", "cancel"}
        /\ \A g \in Fibers \ {f} : pc'[g] = pc[g]
    BY <1>2, <1>0 DEF Resume, HookInv, WokenOnce
  <2>2. \A g \in Fibers : Waiting(g)' <=> Waiting(g)
    BY <2>1, <1>0 DEF Waiting, Sleeps
  <2>3. RegisteredWait'
    BY <2>1, <2>2 DEF HookInv, RegisteredWait, FdOf, EventOf
  <2>4. WokenOnce'
    BY <2>1, <2>2, <1>0 DEF HookInv, WokenOnce, FdOf, EventOf
  <2>5. QED
    BY <2>3, <2>4
<1>3. CASE AddTimer(f) /\ Sleeps(f)
  <2>1. /\ UNCHANGED <<registered, waiter, woken>> /\ woken[f] = 0
        /\ \A g \in Fibers \ {f} : pc'[g] = pc[g]
    BY <1>3, <1>0 DEF AddTimer, HookInv, WokenOnce, eventVars, tableVars
  <2>2. \A g \in Fibers : Waiting(g)' <=> Waiting(g)
    BY <2>1, <1>3 DEF Waiting, Sleeps
  <2>3. RegisteredWait'
    BY <2>1, <2>2 DEF HookInv, RegisteredWait, FdOf, EventOf
  <2>4. WokenOnce'
    BY <2>1, <2>2, <1>0 DEF HookInv, WokenOnce, FdOf, EventOf
  <2>5. QED
    BY <2>3, <2>4
<1>4. CASE CloseSettle(f) /\ ~SettleAllFails(FdOf(f))
  <2>1. /\ UNCHANGED waiter
        /\ registered' = [registered EXCEPT ![FdOf(f)] = @ \ registered[FdOf(f)]]
        /\ Schedule({waiter[FdOf(f)][e] : e \in registered[FdOf(f)]})
        /\ \A g \in Fibers : pc'[g] \in {"hold", "held"} <=> pc[g] \in {"hold", "held"}
    BY <1>4, <1>0 DEF CloseSettle, SettleAllEvents
  <2>2. QED
    BY <2>1, <1>0, WaitsTriggered
<1>5. CASE /\ ~WaitForEvent(f) /\ ~Resume(f) /\ ~(AddTimer(f) /\ Sleeps(f))
           /\ ~(CloseSettle(f) /\ ~SettleAllFails(FdOf(f)))
  <2>1. UNCHANGED <<registered, waiter, woken>>
    BY <1>5
       DEF FiberStep, eventVars, tableVars, Begin, TrySucceeds, TryFails, TryBlocks, AddTimer, AddEventFails,
           AddEventAborts, Hold, AfterHold, Check, Undo, AskResult, CloseSettle, CloseForget, CloseDescriptor
  <2>2. \A g \in Fibers : pc'[g] \in {"hold", "held"} <=> pc[g] \in {"hold", "held"}
    BY <1>5, <1>0
       DEF FiberStep, callVars, Begin, TrySucceeds, TryFails, TryBlocks, AddTimer, AddEventFails,
           AddEventAborts, Hold, AfterHold, Check, Undo, AskResult, CloseSettle, CloseForget, CloseDescriptor
  <2>3. QED
    BY <2>1, <2>2, WaitsUntouched
<1>6. QED
  BY <1>1, <1>2, <1>3, <1>4, <1>5

LEMMA TimersKeepWaits ==
  ASSUME HookInv, NEW f \in Fibers, TimerStep(f) \/ Expire(f)
  PROVE  RegisteredWait' /\ WokenOnce'
<1>0. /\ FdOf(f) \in Fds /\ EventOf(f) \in Events
      /\ registered \in [Fds -> SUBSET Events] /\ woken \in [Fibers -> Nat]
  BY JobAssumption DEF FdOf, EventOf, HookInv, TypeOK, TableInv, TableTypeOK
<1>1. UNCHANGED pc
  BY DEF TimerStep, Expire, CallbackBegin, SleepOver, CallbackFlag, CallbackSettle
<1>2. CASE SleepOver(f)
  <2>1. /\ UNCHANGED <<registered, waiter>> /\ Sleeps(f) /\ woken[f] = 0 /\ pc[f] \in {"hold", "held"}
        /\ woken' = [g \in Fibers |-> IF g \in {f} THEN woken[g] + 1 ELSE woken[g]]
    BY <1>2 DEF SleepOver, HookInv, SleepInv, Schedule
  <2>2. \A g \in Fibers : Waiting(g)' <=> Waiting(g)
    BY <2>1, <1>0, <1>1 DEF Waiting, Sleeps
  <2>3. RegisteredWait'
    BY <2>1, <2>2 DEF HookInv, RegisteredWait, FdOf, EventOf
  <2>4. WokenOnce'
    BY <2>1, <2>2, <1>0, <1>1 DEF HookInv, WokenOnce, FdOf, EventOf
  <2>5. QED
    BY <2>3, <2>4
<1>3. CASE CallbackSettle(f) /\ ~RemoveFails(FdOf(f), EventOf(f))
  <2> DEFINE S == {EventOf(f)}
  <2>1. /\ UNCHANGED waiter /\ S \in SUBSET registered[FdOf(f)]
        /\ registered' = [registered EXCEPT ![FdOf(f)] = @ \ S]
    BY <1>3, <1>0 DEF CallbackSettle, SettleEvent, RemoveFails
  <2>2. Schedule({waiter[FdOf(f)][e] : e \in S})
    <3>1. {waiter[FdOf(f)][e] : e \in S} = {waiter[FdOf(f)][EventOf(f)]}
      OBVIOUS
    <3>2. QED
      BY <1>3, <3>1 DEF CallbackSettle, SettleEvent
  <2>3. \A g \in Fibers : pc'[g] \in {"hold", "held"} <=> pc[g] \in {"hold", "held"}
    BY <1>1
  <2> HIDE DEF S
  <2>4. QED
    BY <2>1, <2>2, <2>3, <1>0, WaitsTriggered
<1>4. CASE ~SleepOver(f) /\ ~(CallbackSettle(f) /\ ~RemoveFails(FdOf(f), EventOf(f)))
  <2>1. UNCHANGED <<registered, waiter, woken>>
    BY <1>4 DEF TimerStep, Expire, CallbackBegin, CallbackFlag, CallbackSettle, eventVars, tableVars
  <2>2. QED
    BY <1>1, <2>1, WaitsUntouched
<1>5. QED
  BY <1>2, <1>3, <1>4

LEMMA OthersKeepWaits ==
  ASSUME HookInv, (\E p \in Pollers : PollerStep(p)) \/ PeerStep
  PROVE  RegisteredWait' /\ WokenOnce'
<1>1. UNCHANGED pc
  BY DEF PollerStep, PeerStep, HandleReport, EpollWait, PeerArrives, PeerHangsUp, callVars
<1>2. ASSUME NEW p \in Pollers, HandleReport(p), Handle(report[p])
      PROVE  RegisteredWait' /\ WokenOnce'
  <2> DEFINE r == report[p]  S == RealEvents(r)
  <2>1. r.fd \in Fds
    BY <1>2 DEF HandleReport, HookInv, TypeOK
  <2>2. /\ UNCHANGED waiter /\ S \in SUBSET registered[r.fd]
        /\ registered' = [registered EXCEPT ![r.fd] = @ \ S]
        /\ Schedule({waiter[r.fd][e] : e \in S})
    BY <1>2, <2>1 DEF Handle, HandleAborts, LeftEvents
  <2>3. \A g \in Fibers : pc'[g] \in {"hold", "held"} <=> pc[g] \in {"hold", "held"}
    BY <1>1
  <2> HIDE DEF r, S
  <2>4. QED
    BY <2>1, <2>2, <2>3, WaitsTriggered
<1>3. CASE UNCHANGED <<registered, waiter, woken>>
  BY <1>1, <1>3, WaitsUntouched
<1>4. QED
  BY <1>2, <1>3
     DEF PollerStep, PeerStep, HandleReport, EpollWait, PeerArrives, PeerHangsUp, TakeReport, Arrive, HangUp,
         eventVars, tableVars

-----------------------------------------------------------------------------
(* Where calls are, their timers, and the kernel                           *)

LEMMA FibersKeepPlaces ==
  ASSUME HookInv, NEW f \in Fibers, FiberStep(f)
  PROVE  PlacesInv' /\ SleepInv'
<1> USE DEF At, Goto, Return, HookInv
<1>0. /\ Job[f].kind \in Kinds /\ pc \in [Fibers -> FiberPc] /\ woken \in [Fibers -> Nat]
      /\ timer \in [Fibers -> {"off", "set", "expired"}]
  BY JobAssumption DEF TypeOK, TableInv, TableTypeOK
<1>1. \A g \in Fibers \ {f} : pc'[g] = pc[g] /\ timer'[g] = timer[g]
  <2> USE <1>0
  <2>1. CASE Begin(f) \/ TrySucceeds(f) \/ TryFails(f) \/ TryBlocks(f) \/ AddTimer(f)
    BY <2>1 DEF Begin, TrySucceeds, TryFails, TryBlocks, AddTimer
  <2>2. CASE WaitForEvent(f) \/ AddEventFails(f) \/ AddEventAborts(f) \/ Hold(f) \/ Resume(f)
    BY <2>2 DEF WaitForEvent, AddEventFails, AddEventAborts, Hold, Resume, callVars
  <2>3. CASE AfterHold(f) \/ Check(f) \/ Undo(f) \/ AskResult(f)
    BY <2>3 DEF AfterHold, Check, Undo, AskResult, CancelTimer
  <2>4. CASE CloseSettle(f) \/ CloseForget(f) \/ CloseDescriptor(f)
    BY <2>4 DEF CloseSettle, CloseForget, CloseDescriptor
  <2>5. QED
    BY <2>1, <2>2, <2>3, <2>4 DEF FiberStep
<1>2. UNCHANGED callback
  BY DEF FiberStep, callVars, Begin, TrySucceeds, TryFails, TryBlocks, AddTimer, WaitForEvent,
         AddEventFails, AddEventAborts, Hold, Resume, AfterHold, Check, Undo, AskResult,
         CloseSettle, CloseForget, CloseDescriptor
<1>3. \A g \in Fibers \ {f} : woken[g] = 0 /\ Sleeps(g) => woken'[g] = 0
  <2>1. CASE CloseSettle(f) /\ ~SettleAllFails(FdOf(f))
    <3>1. FdOf(f) \in Fds
      BY JobAssumption DEF FdOf
    <3>2. woken' = [g \in Fibers |-> IF g \in {waiter[FdOf(f)][e] : e \in registered[FdOf(f)]}
                                     THEN woken[g] + 1 ELSE woken[g]]
      BY <2>1 DEF CloseSettle, SettleAllEvents, Schedule
    <3>3. \A e \in registered[FdOf(f)] : ~Sleeps(waiter[FdOf(f)][e])
      BY <3>1 DEF RegisteredWait, Waiting
    <3>4. QED
      BY <3>2, <3>3
  <2>2. CASE \A g \in Fibers \ {f} : woken'[g] = woken[g]
    BY <2>2
  <2>3. CASE UNCHANGED woken
    BY <2>3
  <2>4. CASE Resume(f)
    BY <2>4, <1>0 DEF Resume
  <2>5. QED
    BY <2>1, <2>2, <2>3, <2>4
       DEF FiberStep, eventVars, tableVars, Begin, TrySucceeds, TryFails, TryBlocks, AddTimer, WaitForEvent,
         AddEvent, AddEventFails, AddEventAborts, Hold, AfterHold, Check, Undo, AskResult,
         CloseSettle, CloseForget, CloseDescriptor
<1>4. /\ Job[f].kind = "close" =>
           /\ pc'[f] \in {"start", "settle", "forget", "close", "done"}
           /\ timer'[f] = "off" /\ callback[f] = "off"
      /\ Job[f].kind = "sleep" => pc'[f] \in {"start", "timer", "hold", "held", "done"}
      /\ Job[f].kind \in {"io", "connect"} => pc'[f] \notin {"settle", "forget", "close"}
      /\ timer'[f] = "set" => pc'[f] \in {"add", "hold", "held", "undo", "cancel"}
  <2> USE <1>0 DEF PlacesInv, Sleeps
  <2>1. CASE Begin(f)
    BY <2>1 DEF Begin
  <2>2. CASE TrySucceeds(f) \/ TryFails(f) \/ TryBlocks(f) \/ AddTimer(f)
    BY <2>2 DEF TrySucceeds, TryFails, TryBlocks, AddTimer
  <2>3. CASE WaitForEvent(f) \/ AddEventFails(f) \/ AddEventAborts(f) \/ Hold(f)
    BY <2>3 DEF WaitForEvent, AddEventFails, AddEventAborts, Hold, callVars
  <2>4. CASE AfterHold(f) \/ Check(f) \/ Undo(f) \/ AskResult(f)
    BY <2>4 DEF AfterHold, Check, Undo, AskResult, CancelTimer
  <2>5. CASE CloseSettle(f) \/ CloseForget(f) \/ CloseDescriptor(f)
    BY <2>5 DEF CloseSettle, CloseForget, CloseDescriptor
  <2>6. CASE Resume(f)
    BY <2>6 DEF Resume, SleepInv
  <2>7. QED
    BY <2>1, <2>2, <2>3, <2>4, <2>5, <2>6 DEF FiberStep
<1>5. Sleeps(f) =>
        /\ callback[f] \in {"off", "queued"}
        /\ pc'[f] \in {"start", "timer"} => timer'[f] = "off" /\ callback[f] = "off"
        /\ timer'[f] = "set" \/ callback[f] = "queued" => pc'[f] \in {"hold", "held"} /\ woken'[f] = 0
        /\ timer'[f] = "set" => callback[f] = "off"
  <2> SUFFICES ASSUME Sleeps(f)
               PROVE  /\ pc'[f] \in {"start", "timer"} => timer'[f] = "off" /\ callback[f] = "off"
                      /\ timer'[f] = "set" \/ callback[f] = "queued" =>
                           pc'[f] \in {"hold", "held"} /\ woken'[f] = 0
                      /\ timer'[f] = "set" => callback[f] = "off"
    BY DEF SleepInv
  <2>1. Begin(f) \/ AddTimer(f) \/ Hold(f) \/ Resume(f)
    BY <1>0 DEF FiberStep, Sleeps, PlacesInv, Begin, TrySucceeds, TryFails, TryBlocks, AddTimer, WaitForEvent,
         AddEventFails, AddEventAborts, AfterHold, Check, Undo, AskResult,
         CloseSettle, CloseForget, CloseDescriptor
  <2>2. CASE Begin(f)
    BY <2>2, <1>0 DEF Begin, SleepInv, Sleeps
  <2>3. CASE AddTimer(f)
    BY <2>3, <1>0 DEF AddTimer, SleepInv, Sleeps, WokenOnce, eventVars, tableVars
  <2>4. CASE Hold(f)
    BY <2>4, <1>0 DEF Hold, SleepInv, Sleeps, eventVars, tableVars
  <2>5. CASE Resume(f)
    BY <2>5, <1>0 DEF Resume, SleepInv, Sleeps
  <2>6. QED
    BY <2>1, <2>2, <2>3, <2>4, <2>5
<1>6. PlacesInv'
  BY <1>1, <1>2, <1>4 DEF PlacesInv
<1>7. SleepInv'
  BY <1>1, <1>2, <1>3, <1>5 DEF SleepInv, Sleeps
<1>8. QED
  BY <1>6, <1>7

LEMMA TimersKeepPlaces ==
  ASSUME HookInv, NEW f \in Fibers, TimerStep(f) \/ Expire(f)
  PROVE  PlacesInv' /\ SleepInv'
<1> USE DEF HookInv
<1>0. /\ woken \in [Fibers -> Nat] /\ timer \in [Fibers -> {"off", "set", "expired"}]
      /\ callback \in [Fibers -> {"off", "queued", "flag", "settle"}] /\ pc \in [Fibers -> FiberPc]
  BY DEF TypeOK, TableInv, TableTypeOK
<1>1. /\ UNCHANGED pc
      /\ \A g \in Fibers \ {f} : timer'[g] = timer[g] /\ callback'[g] = callback[g]
  BY <1>0 DEF TimerStep, Expire, CallbackBegin, SleepOver, CallbackFlag, CallbackSettle
<1>2. PlacesInv'
  <2>1. /\ timer'[f] = "set" => timer[f] = "set"
        /\ timer[f] = "off" /\ callback[f] = "off" => timer'[f] = "off" /\ callback'[f] = "off"
    BY <1>0 DEF TimerStep, Expire, CallbackBegin, SleepOver, CallbackFlag, CallbackSettle
  <2>2. QED
    BY <2>1, <1>1 DEF PlacesInv
<1>3. \A g \in Fibers \ {f} : Sleeps(g) /\ woken[g] = 0 => woken'[g] = 0
  <2>1. CASE CallbackSettle(f) /\ ~RemoveFails(FdOf(f), EventOf(f))
    <3>1. /\ FdOf(f) \in Fds /\ EventOf(f) \in registered[FdOf(f)]
          /\ woken' = [g \in Fibers |-> IF g \in {waiter[FdOf(f)][EventOf(f)]}
                                        THEN woken[g] + 1 ELSE woken[g]]
      BY <2>1, JobAssumption DEF FdOf, CallbackSettle, SettleEvent, RemoveFails, Schedule
    <3>2. ~Sleeps(waiter[FdOf(f)][EventOf(f)])
      BY <3>1 DEF RegisteredWait, Waiting
    <3>3. QED
      BY <3>1, <3>2
  <2>2. CASE SleepOver(f)
    BY <2>2 DEF SleepOver, Schedule
  <2>3. CASE UNCHANGED woken
    BY <2>3
  <2>4. QED
    BY <2>1, <2>2, <2>3
       DEF TimerStep, Expire, CallbackBegin, CallbackFlag, CallbackSettle, eventVars, tableVars
<1>4. Sleeps(f) =>
        /\ callback'[f] \in {"off", "queued"}
        /\ pc[f] \in {"start", "timer"} => timer'[f] = "off" /\ callback'[f] = "off"
        /\ timer'[f] = "set" \/ callback'[f] = "queued" => pc[f] \in {"hold", "held"} /\ woken'[f] = 0
        /\ timer'[f] = "set" => callback'[f] = "off"
  <2> SUFFICES ASSUME Sleeps(f)
               PROVE  /\ callback'[f] \in {"off", "queued"}
                      /\ pc[f] \in {"start", "timer"} => timer'[f] = "off" /\ callback'[f] = "off"
                      /\ timer'[f] = "set" \/ callback'[f] = "queued" =>
                           pc[f] \in {"hold", "held"} /\ woken'[f] = 0
                      /\ timer'[f] = "set" => callback'[f] = "off"
    OBVIOUS
  <2>1. SleepOver(f) \/ Expire(f)
    BY DEF TimerStep, CallbackBegin, CallbackFlag, CallbackSettle, SleepInv
  <2>2. CASE SleepOver(f)
    BY <2>2, <1>0 DEF SleepOver, SleepInv
  <2>3. CASE Expire(f)
    BY <2>3, <1>0 DEF Expire, SleepInv, eventVars, tableVars
  <2>4. QED
    BY <2>1, <2>2, <2>3
<1>5. SleepInv'
  BY <1>1, <1>3, <1>4 DEF SleepInv, Sleeps
<1>6. QED
  BY <1>2, <1>5

LEMMA OthersKeepPlaces ==
  ASSUME HookInv, (\E p \in Pollers : PollerStep(p)) \/ PeerStep
  PROVE  PlacesInv' /\ SleepInv'
<1> USE DEF HookInv
<1>1. UNCHANGED callVars
  BY DEF PollerStep, PeerStep, HandleReport, EpollWait, PeerArrives, PeerHangsUp
<1>2. PlacesInv'
  BY <1>1 DEF PlacesInv, callVars
<1>3. \A g \in Fibers : Sleeps(g) /\ woken[g] = 0 => woken'[g] = 0
  <2>1. ASSUME NEW p \in Pollers, HandleReport(p), Handle(report[p])
        PROVE  \A g \in Fibers : Sleeps(g) /\ woken[g] = 0 => woken'[g] = 0
    <3> DEFINE r == report[p]
    <3>1. r.fd \in Fds /\ RealEvents(r) \subseteq registered[r.fd]
      BY <2>1 DEF HandleReport, TypeOK, Handle, HandleAborts
    <3>2. woken' = [g \in Fibers |-> IF g \in {waiter[r.fd][e] : e \in RealEvents(r)}
                                     THEN woken[g] + 1 ELSE woken[g]]
      BY <2>1 DEF Handle, Schedule
    <3>3. \A e \in RealEvents(r) : ~Sleeps(waiter[r.fd][e])
      BY <3>1 DEF RegisteredWait, Waiting
    <3> HIDE DEF r
    <3>4. QED
      BY <3>2, <3>3
  <2>2. CASE UNCHANGED woken
    BY <2>2
  <2>3. QED
    BY <2>1, <2>2
       DEF PollerStep, PeerStep, HandleReport, EpollWait, PeerArrives, PeerHangsUp, TakeReport, Arrive, HangUp,
           eventVars, tableVars
<1>4. SleepInv'
  BY <1>1, <1>3 DEF SleepInv, Sleeps, callVars
<1>5. QED
  BY <1>2, <1>4

\* A descriptor that is closed is gone from the kernel, whoever acts.
LEMMA StepsKeepKernel ==
  ASSUME HookInv, Next
  PROVE  KernelInv'
<1> USE DEF HookInv
<1>0. /\ interest \in [Fds -> SUBSET Events] /\ available \in [Fds -> SUBSET Events]
      /\ listed \subseteq Fds /\ watched \subseteq Fds /\ open \subseteq Fds /\ hungUp \subseteq Fds
      /\ \A f \in Fibers : FdOf(f) \in Fds /\ EventOf(f) \in Events
  BY JobAssumption DEF TypeOK, TableInv, TableTypeOK, FdOf, EventOf
\* Watching an open descriptor, and watching one no more.
<1>1. ASSUME NEW fd \in open, NEW S, Watch(fd, S), UNCHANGED kernelVars
      PROVE  KernelInv'
  BY <1>1, <1>0 DEF KernelInv, Watch, kernelVars
<1>2. ASSUME NEW fd \in Fds, Unwatch(fd), UNCHANGED kernelVars
      PROVE  KernelInv'
  BY <1>2, <1>0 DEF KernelInv, Unwatch, kernelVars
<1>3. CASE UNCHANGED <<epollVars, kernelVars>>
  BY <1>3 DEF KernelInv, epollVars, kernelVars
<1>4. ASSUME NEW f \in Fibers, FiberStep(f)
      PROVE  KernelInv'
  <2>1. CASE WaitForEvent(f)
    BY <2>1, <1>1 DEF WaitForEvent, AddEvent, AddFails, CtlFails
  <2>2. CASE CloseSettle(f) /\ ~SettleAllFails(FdOf(f))
    BY <2>2, <1>0, <1>2 DEF CloseSettle, SettleAllEvents
  <2>3. CASE TrySucceeds(f)
    <3>1. /\ UNCHANGED <<epollVars, open, hungUp>>
          /\ \A fd \in Fds : available'[fd] = available[fd]
                              \/ (fd \notin hungUp /\ available'[fd] \subseteq available[fd])
      BY <2>3, <1>0 DEF TrySucceeds
    <3>2. QED
      BY <3>1, <1>0 DEF KernelInv, epollVars
  <2>4. CASE CloseDescriptor(f) /\ FdOf(f) \in open
    BY <2>4, <1>0 DEF CloseDescriptor, KernelInv, Unwatch
  <2>5. CASE Resume(f)
    BY <2>5, <1>3 DEF Resume
  <2>6. QED
    BY <1>4, <1>3, <2>1, <2>2, <2>3, <2>4, <2>5
       DEF FiberStep, eventVars, Begin, TryFails, TryBlocks, AddTimer, AddEventFails,
           AddEventAborts, Hold, AfterHold, Check, Undo, AskResult, CloseSettle, CloseForget, CloseDescriptor
<1>5. ASSUME NEW f \in Fibers, TimerStep(f) \/ Expire(f)
      PROVE  KernelInv'
  <2>1. CASE CallbackSettle(f) /\ ~RemoveFails(FdOf(f), EventOf(f))
    BY <2>1, <1>1 DEF CallbackSettle, SettleEvent, RemoveFails, CtlFails
  <2>2. QED
    BY <1>5, <2>1, <1>3
       DEF TimerStep, Expire, CallbackBegin, SleepOver, CallbackFlag, CallbackSettle, eventVars
<1>6. ASSUME NEW p \in Pollers, PollerStep(p)
      PROVE  KernelInv'
  <2>1. CASE HandleReport(p) /\ Handle(report[p])
    <3>1. report[p].fd \in open
      BY <2>1 DEF Handle, HandleSkips, CtlFails
    <3>2. UNCHANGED kernelVars
      BY <2>1 DEF Handle
    <3>3. CASE LeftEvents(report[p]) # {}
      BY <3>1, <3>2, <3>3, <2>1, <1>1 DEF Handle
    <3>4. CASE LeftEvents(report[p]) = {}
      BY <3>1, <3>2, <3>4, <2>1, <1>0, <1>2 DEF Handle
    <3>5. QED
      BY <3>3, <3>4
  <2>2. ASSUME NEW fd \in Fds, TakeReport(fd)
        PROVE  KernelInv'
    BY <2>2 DEF TakeReport, KernelInv, kernelVars
  <2>3. QED
    BY <1>6, <2>1, <2>2, <1>3 DEF PollerStep, HandleReport, EpollWait, eventVars
<1>7. ASSUME PeerStep
      PROVE  KernelInv'
  <2>1. ASSUME NEW fd \in Fds, NEW e \in Events, Arrive(fd, e)
        PROVE  KernelInv'
    BY <2>1, <1>0 DEF Arrive, KernelInv
  <2>2. ASSUME NEW fd \in Fds, HangUp(fd)
        PROVE  KernelInv'
    BY <2>2, <1>0 DEF HangUp, KernelInv
  <2>3. QED
    BY <1>7, <2>1, <2>2 DEF PeerStep, PeerArrives, PeerHangsUp
<1>8. QED
  BY <1>4, <1>5, <1>6, <1>7 DEF Next

-----------------------------------------------------------------------------
(* The invariant for any number of threads                                 *)

LEMMA HookInvInit == Init => HookInv
<1> SUFFICES ASSUME Init
             PROVE  HookInv
  OBVIOUS
<1> USE DEF Init
<1>1. TableInv
  BY TableInvInit
<1>2. TypeOK
  BY <1>1 DEF TableInv, TypeOK, FiberPc
<1>3. PlacesInv /\ SleepInv /\ KernelInv
  BY DEF PlacesInv, SleepInv, KernelInv, TableInit
<1>4. RegisteredWait /\ WokenOnce
  BY DEF TableInit, RegisteredWait, WokenOnce, Waiting
<1>5. QED
  BY <1>1, <1>2, <1>3, <1>4 DEF HookInv

LEMMA HookInvStep ==
  ASSUME HookInv, [Next]_vars
  PROVE  HookInv'
<1>1. CASE Next
  <2>1. KernelInv'
    BY <1>1, StepsKeepKernel
  <2>2. ASSUME NEW f \in Fibers, FiberStep(f)
        PROVE  HookInv'
    BY <2>1, <2>2, TypesOfFiberSteps, FibersKeepWaits, FibersKeepPlaces DEF HookInv
  <2>3. ASSUME NEW f \in Fibers, TimerStep(f) \/ Expire(f)
        PROVE  HookInv'
    BY <2>1, <2>3, TypesOfTimers, TimersKeepWaits, TimersKeepPlaces DEF HookInv
  <2>4. ASSUME NEW p \in Pollers, PollerStep(p)
        PROVE  HookInv'
    BY <2>1, <2>4, TypesOfPollers, OthersKeepWaits, OthersKeepPlaces DEF HookInv
  <2>5. ASSUME PeerStep
        PROVE  HookInv'
    BY <2>1, <2>5, TypesOfPeers, OthersKeepWaits, OthersKeepPlaces DEF HookInv
  <2>6. QED
    BY <1>1, <2>2, <2>3, <2>4, <2>5 DEF Next
<1>2. CASE UNCHANGED vars
  <2>1. TypeOK' /\ TableInv' /\ KernelInv' /\ SleepInv' /\ PlacesInv'
    <3> USE <1>2 DEF HookInv, vars, eventVars, tableVars, epollVars, kernelVars, callVars
    <3>1. TableInv'
      BY CountKept DEF TableInv, TableTypeOK, InterestAgrees
    <3>2. TypeOK'
      BY <3>1 DEF TypeOK, TableInv
    <3>3. KernelInv' /\ PlacesInv' /\ SleepInv'
      BY DEF KernelInv, PlacesInv, SleepInv, Sleeps
    <3>4. QED
      BY <3>1, <3>2, <3>3
  <2>2. UNCHANGED <<registered, waiter, woken, pc>>
    BY <1>2 DEF vars, eventVars, tableVars, callVars
  <2>3. RegisteredWait' /\ WokenOnce'
    BY <2>2, WaitsUntouched
  <2>4. QED
    BY <2>1, <2>3 DEF HookInv
<1>3. QED
  BY <1>1, <1>2

\* Types, the table and its epoll instance, who waits for what, and where calls and
\* their timers are: the inductive invariant, for any fibers, calls and threads.
THEOREM HookInvariant == Spec => []HookInv
<1>1. QED
  BY HookInvInit, HookInvStep, PTL DEF Spec

\* A fiber that waits is the one that its event will schedule, and it is scheduled once,
\* by the event, the timer or close() (iomanager.cpp:8-25, hook.cpp:78-128, 330-348),
\* with any number of threads that handle events and run timers.
THEOREM EachIsWokenOnce == Spec => []WokenOnce
<1>1. HookInv => WokenOnce
  BY DEF HookInv
<1>2. QED
  BY <1>1, HookInvariant, PTL

-----------------------------------------------------------------------------
(* No event is slept over                                                  *)

\* The waiting of a fiber whose event is available is noticed.
Noticed(g) ==
  \/ FdOf(g) \in listed
  \/ \E p \in Pollers : report[p].fd = FdOf(g) /\ (EventOf(g) \in report[p].events \/ report[p].hup)

\* What a fiber waits for is watched by the kernel.
LEMMA WaitIsWatched ==
  ASSUME HookInv, NEW g \in Fibers, Waiting(g), EventOf(g) \in available[FdOf(g)]
  PROVE  /\ FdOf(g) \in open \cap watched
         /\ EventOf(g) \in registered[FdOf(g)] /\ EventOf(g) \in interest[FdOf(g)]
<1>1. FdOf(g) \in Fds /\ EventOf(g) \in Events
  BY JobAssumption DEF FdOf, EventOf
<1>2. EventOf(g) \in registered[FdOf(g)] /\ FdOf(g) \in open
  BY <1>1 DEF HookInv, WokenOnce, KernelInv
<1>3. QED
  BY <1>2 DEF HookInv, TableInv, InterestAgrees

LEMMA FibersNotice ==
  ASSUME HookInv, NEW f \in Fibers, FiberStep(f), HookInv', NEW g \in Fibers,
         Waiting(g)', EventOf(g) \in available'[FdOf(g)],
         Waiting(g) /\ EventOf(g) \in available[FdOf(g)] => Noticed(g)
  PROVE  Noticed(g)'
<1> USE DEF At, Goto, Return
<1>0. /\ FdOf(g) \in Fds /\ EventOf(g) \in Events
      /\ FdOf(f) \in Fds /\ EventOf(f) \in Events
      /\ pc \in [Fibers -> FiberPc] /\ woken \in [Fibers -> Nat] /\ available \in [Fds -> SUBSET Events]
  BY JobAssumption DEF FdOf, EventOf, HookInv, TypeOK, TableInv, TableTypeOK
<1>1. FdOf(g) \in watched'
  <2>1. EventOf(g) \in registered'[FdOf(g)] /\ FdOf(g) \in open'
    BY <1>0 DEF HookInv, WokenOnce, KernelInv, FdOf, EventOf
  <2>2. QED
    BY <2>1 DEF HookInv, TableInv, InterestAgrees
<1>2. CASE WaitForEvent(f)
  <2>1. Watch(FdOf(f), registered[FdOf(f)] \cup {EventOf(f)}) /\ UNCHANGED <<woken, available, report>>
    BY <1>2 DEF WaitForEvent, AddEvent, kernelVars
  <2>2. CASE g = f
    BY <2>1, <2>2 DEF Watch, Noticed, FdOf, EventOf
  <2>3. CASE g # f
    <3>1. Waiting(g)
      BY <1>2, <2>1, <2>3, <1>0 DEF WaitForEvent, Waiting, Sleeps
    <3>2. listed \subseteq listed'
      BY <2>1 DEF Watch
    <3>3. QED
      BY <2>1, <3>1, <3>2 DEF Noticed, FdOf, EventOf
  <2>4. QED
    BY <2>2, <2>3
<1>3. CASE ~WaitForEvent(f)
  <2>1. Waiting(g)
    <3>1. CASE g # f
      <4>1. pc'[g] = pc[g]
        BY <3>1, <1>0
           DEF FiberStep, callVars, Begin, TrySucceeds, TryFails, TryBlocks, AddTimer, WaitForEvent, AddEventFails,
             AddEventAborts, Hold, Resume, AfterHold, Check, Undo, AskResult, CloseSettle, CloseForget,
             CloseDescriptor
      <4>2. woken'[g] = 0 => woken[g] = 0
        BY <3>1, <1>0
           DEF FiberStep, eventVars, tableVars, Begin, TrySucceeds, TryFails, TryBlocks, AddTimer, WaitForEvent,
             AddEvent, AddEventFails, AddEventAborts, Hold, Resume, AfterHold, Check, Undo, AskResult, CloseSettle,
             CloseForget, CloseDescriptor, SettleAllEvents, Schedule
      <4>3. QED
        BY <4>1, <4>2 DEF Waiting, Sleeps
    <3>2. CASE g = f
      <4>1. ~Sleeps(f) /\ pc'[f] \in {"hold", "held"}
        BY <3>2 DEF Waiting, Sleeps
      <4>2. Hold(f) \/ AddEventAborts(f)
        BY <4>1, <1>3, <1>0
           DEF FiberStep, Begin, TrySucceeds, TryFails, TryBlocks, AddTimer, AddEventFails,
             Resume, AfterHold, Check, Undo, AskResult, CloseSettle, CloseForget, CloseDescriptor
      <4>3. QED
        BY <3>2, <4>1, <4>2, <1>0
           DEF Hold, AddEventAborts, callVars, eventVars, tableVars, Waiting, Sleeps
    <3>3. QED
      BY <3>1, <3>2
  <2>2. /\ EventOf(g) \in available[FdOf(g)] /\ UNCHANGED report
        /\ FdOf(g) \in listed => FdOf(g) \in listed'
    <3>1. CASE CloseSettle(f)
      BY <3>1, <1>1 DEF CloseSettle, SettleAllEvents, Unwatch, eventVars, epollVars, kernelVars
    <3>2. CASE CloseDescriptor(f)
      BY <3>2, <1>0, <1>1 DEF CloseDescriptor, Unwatch, epollVars, kernelVars
    <3>3. CASE TrySucceeds(f)
      BY <3>3, <1>0 DEF TrySucceeds, epollVars
    <3>4. CASE UNCHANGED <<epollVars, kernelVars, report>>
      BY <3>4 DEF epollVars, kernelVars
    <3>5. QED
      BY <1>3, <3>1, <3>2, <3>3, <3>4
         DEF FiberStep, eventVars, Begin, TryFails, TryBlocks, AddTimer, AddEventFails,
             AddEventAborts, Hold, Resume, AfterHold, Check, Undo, AskResult, CloseForget
  <2>3. QED
    BY <2>1, <2>2 DEF Noticed, FdOf, EventOf
<1>4. QED
  BY <1>2, <1>3

LEMMA TimersNotice ==
  ASSUME HookInv, NEW f \in Fibers, TimerStep(f) \/ Expire(f), NEW g \in Fibers,
         Waiting(g)', EventOf(g) \in available'[FdOf(g)],
         Waiting(g) /\ EventOf(g) \in available[FdOf(g)] => Noticed(g)
  PROVE  Noticed(g)'
<1>1. UNCHANGED <<pc, report, available>> /\ (\A h \in Fibers : woken'[h] = 0 => woken[h] = 0)
      /\ listed \subseteq listed'
  <2>1. woken \in [Fibers -> Nat]
    BY DEF HookInv, TableInv, TableTypeOK
  <2>2. QED
    BY <2>1 DEF TimerStep, Expire, CallbackBegin, SleepOver, CallbackFlag, CallbackSettle, SettleEvent,
         Schedule, Watch, eventVars, tableVars, epollVars, kernelVars
<1>2. QED
  BY <1>1 DEF Waiting, Sleeps, Noticed, FdOf, EventOf

LEMMA PollersNotice ==
  ASSUME HookInv, NEW q \in Pollers, PollerStep(q), HookInv', NEW g \in Fibers, AssertionsHold',
         Waiting(g)', EventOf(g) \in available'[FdOf(g)],
         Waiting(g) /\ EventOf(g) \in available[FdOf(g)] => Noticed(g)
  PROVE  Noticed(g)'
<1>0. /\ FdOf(g) \in Fds /\ EventOf(g) \in Events /\ woken \in [Fibers -> Nat]
      /\ report \in [Pollers -> [fd : Fds, events : SUBSET Events, hup : BOOLEAN] \cup {NoReport}]
  BY JobAssumption DEF FdOf, EventOf, HookInv, TypeOK, TableInv, TableTypeOK
<1>1. UNCHANGED <<pc, available>>
  BY DEF PollerStep, HandleReport, EpollWait, TakeReport, Handle, callVars, eventVars, kernelVars
<1>2. \A h \in Fibers : woken'[h] = 0 => woken[h] = 0
  BY <1>0 DEF PollerStep, HandleReport, EpollWait, TakeReport, Handle, Schedule, eventVars, tableVars
<1>3. Waiting(g) /\ EventOf(g) \in available[FdOf(g)] /\ Noticed(g)
  BY <1>1, <1>2 DEF Waiting, Sleeps
<1>4. /\ FdOf(g) \in open \cap watched
      /\ EventOf(g) \in registered[FdOf(g)] /\ EventOf(g) \in interest[FdOf(g)]
  BY <1>3, WaitIsWatched
<1>5. CASE HandleReport(q)
  <2> DEFINE r == report[q]
  <2>1. r \in [fd : Fds, events : SUBSET Events, hup : BOOLEAN] /\ ~HandleAborts(r)
        /\ report' = [report EXCEPT ![q] = NoReport]
    BY <1>5, <1>0 DEF HandleReport, AssertionsHold
  <2>2. CASE Handle(r)
    <3>1. CASE r.fd = FdOf(g)
      <4>1. EventOf(g) \in registered'[FdOf(g)]
        BY <1>0 DEF HookInv, WokenOnce, FdOf, EventOf
      <4>2. EventOf(g) \in LeftEvents(r)
        BY <4>1, <2>2, <3>1, <1>0 DEF Handle, HookInv, TableInv, TableTypeOK
      <4>3. FdOf(g) \in listed'
        BY <4>2, <2>2, <3>1, <1>3 DEF Handle, Watch
      <4>4. QED
        BY <4>3 DEF Noticed, FdOf
    <3>2. CASE r.fd # FdOf(g)
      <4>1. FdOf(g) \in listed => FdOf(g) \in listed'
        BY <3>2, <2>2 DEF Handle, Watch, Unwatch
      <4>2. \A p \in Pollers : report[p].fd = FdOf(g) => report'[p] = report[p]
        BY <2>1, <3>2, <1>0
      <4>3. QED
        BY <1>3, <4>1, <4>2 DEF Noticed, FdOf, EventOf
    <3>3. QED
      BY <3>1, <3>2
  <2>3. CASE HandleSkips(r) /\ UNCHANGED eventVars
    <3>1. ~(r.fd = FdOf(g) /\ (EventOf(g) \in r.events \/ r.hup))
      BY <2>3, <1>4 DEF HandleSkips, RealEvents, CtlFails, HandleCode
    <3>2. CASE FdOf(g) \in listed
      BY <2>3, <3>2 DEF Noticed, FdOf, eventVars, epollVars
    <3>3. ASSUME NEW p \in Pollers, report[p].fd = FdOf(g),
                 EventOf(g) \in report[p].events \/ report[p].hup
          PROVE  Noticed(g)'
      <4>1. p # q
        BY <3>1, <3>3
      <4>2. report'[p] = report[p]
        BY <2>1, <4>1, <1>0
      <4>3. QED
        BY <3>3, <4>2 DEF Noticed, FdOf, EventOf
    <3>4. QED
      BY <1>3, <3>2, <3>3 DEF Noticed
  <2>4. QED
    BY <1>5, <2>1, <2>2, <2>3 DEF HandleReport
<1>6. ASSUME NEW fd \in Fds, EpollWait(q, fd)
      PROVE  Noticed(g)'
  <2>1. CASE fd = FdOf(g)
    <3>1. EventOf(g) \in Report(fd).events /\ Report(fd).fd = fd
      BY <2>1, <1>3, <1>4 DEF Report
    <3>2. report'[q] = Report(fd)
      BY <1>6, <3>1, <1>0 DEF EpollWait
    <3>3. QED
      BY <2>1, <3>1, <3>2 DEF Noticed, FdOf, EventOf
  <2>2. CASE fd # FdOf(g)
    <3>1. FdOf(g) \in listed => FdOf(g) \in listed'
      BY <1>6, <2>2 DEF EpollWait, TakeReport
    <3>2. report[q] = NoReport /\ \A p \in Pollers \ {q} : report'[p] = report[p]
      BY <1>6, <1>0 DEF EpollWait
    <3>3. QED
      BY <1>3, <3>1, <3>2 DEF Noticed, NoReport, FdOf, EventOf
  <2>3. QED
    BY <2>1, <2>2
<1>7. QED
  BY <1>5, <1>6 DEF PollerStep

LEMMA PeersNotice ==
  ASSUME HookInv, PeerStep, HookInv', NEW g \in Fibers,
         Waiting(g)', EventOf(g) \in available'[FdOf(g)],
         Waiting(g) /\ EventOf(g) \in available[FdOf(g)] => Noticed(g)
  PROVE  Noticed(g)'
<1>1. PICK fd \in Fds : (\E e \in Events : PeerArrives(fd, e)) \/ PeerHangsUp(fd)
  BY DEF PeerStep
<1>2. UNCHANGED <<pc, woken, registered, watched, interest, open, report>> /\ listed \subseteq listed'
  BY <1>1 DEF PeerArrives, PeerHangsUp, Arrive, HangUp, tableVars, callVars
<1>3. Waiting(g)
  BY <1>2 DEF Waiting, Sleeps
<1>4. CASE EventOf(g) \in available[FdOf(g)]
  BY <1>2, <1>3, <1>4 DEF Noticed, FdOf, EventOf
<1>5. CASE EventOf(g) \notin available[FdOf(g)]
  <2>0. FdOf(g) \in Fds /\ EventOf(g) \in Events /\ available \in [Fds -> SUBSET Events]
    BY JobAssumption DEF FdOf, EventOf, HookInv, TableInv, TableTypeOK
  <2>1. /\ FdOf(g) \in open \cap watched
        /\ EventOf(g) \in registered[FdOf(g)] /\ EventOf(g) \in interest[FdOf(g)]
    <3>1. EventOf(g) \in registered[FdOf(g)]
      BY <1>3 DEF HookInv, WokenOnce
    <3>2. FdOf(g) \in open
      BY <2>0, <1>2 DEF HookInv, KernelInv, FdOf, EventOf
    <3>3. QED
      BY <3>1, <3>2 DEF HookInv, TableInv, InterestAgrees
  <2>2. FdOf(g) \in listed'
    BY <1>1, <1>5, <2>0, <2>1 DEF PeerArrives, PeerHangsUp, Arrive, HangUp
  <2>3. QED
    BY <2>2 DEF Noticed, FdOf
<1>6. QED
  BY <1>4, <1>5

\* An event that is there is never slept over: with any number of threads, unless an
\* assertion has ended the program, the kernel has the descriptor of a waiting fiber on
\* the ready list or a poller has it in hand (iomanager.cpp:118-185, 480-575).
THEOREM NoEventIsMissed == Spec => [](AssertionsHold => NoMissedEvent)
<1>1. Init => (AssertionsHold => NoMissedEvent)
  BY JobAssumption DEF Init, TableInit, NoMissedEvent, Waiting
<1>2. ASSUME HookInv, HookInv', AssertionsHold => NoMissedEvent, [Next]_vars
      PROVE  (AssertionsHold => NoMissedEvent)'
  <2>1. CASE Next
    <3> SUFFICES ASSUME AssertionsHold', NEW g \in Fibers,
                        Waiting(g)', EventOf(g) \in available'[FdOf(g)]
                 PROVE  Noticed(g)'
      BY DEF NoMissedEvent, Noticed, FdOf, EventOf
    <3>1. Waiting(g) /\ EventOf(g) \in available[FdOf(g)] => Noticed(g)
      BY <1>2, <2>1 DEF Next, Alive, AssertionsHold, NoMissedEvent, Noticed
    <3>2. QED
      BY <1>2, <2>1, <3>1, FibersNotice, TimersNotice, PollersNotice, PeersNotice DEF Next
  <2>2. CASE UNCHANGED vars
    BY <1>2, <2>2 DEF vars, eventVars, tableVars, epollVars, kernelVars, callVars,
         AssertionsHold, NoMissedEvent, Waiting, Sleeps, FdOf, EventOf
  <2>3. QED
    BY <1>2, <2>1, <2>2
<1>3. QED
  BY <1>1, <1>2, HookInvariant, PTL DEF Spec

-----------------------------------------------------------------------------
(* One thread                                                              *)

\* With one thread, who begins finds nobody at work.
LEMMA FreeMeansIdle ==
  ASSUME Cores = 1, CoreFree
  PROVE  FibersRunning = {} /\ CallbacksRunning = {} /\ PollersBusy = {}
<1>1. /\ IsFiniteSet(FibersRunning) /\ IsFiniteSet(CallbacksRunning) /\ IsFiniteSet(PollersBusy)
  BY FinitelyMany, FS_Subset DEF FibersRunning, CallbacksRunning, PollersBusy
<1>2. /\ Cardinality(FibersRunning) \in Nat /\ Cardinality(CallbacksRunning) \in Nat
      /\ Cardinality(PollersBusy) \in Nat
  BY <1>1, FS_CardinalityType
<1>3. /\ Cardinality(FibersRunning) = 0 /\ Cardinality(CallbacksRunning) = 0
      /\ Cardinality(PollersBusy) = 0
  BY <1>2 DEF CoreFree
<1>4. QED
  BY <1>1, <1>3, FS_EmptySet

\* A fiber at work keeps everyone else from working.
LEMMA FiberRunsAlone ==
  ASSUME OneCoreInv, NEW f \in FibersRunning
  PROVE  /\ \A g \in Fibers \ {f} : pc[g] \in {"start", "held", "done"}
         /\ CallbacksRunning = {} /\ PollersBusy = {}
<1>1. FibersRunning # {}
  OBVIOUS
<1>2. CallbacksRunning = {} /\ PollersBusy = {}
  BY <1>1 DEF OneCoreInv, OneActs
<1>3. \A g \in Fibers \ {f} : g \notin FibersRunning
  BY DEF OneCoreInv, OneActs
<1>4. QED
  BY <1>2, <1>3 DEF FibersRunning

\* What the steps of a fiber do to places, whoever else runs.
LEMMA FiberPlaces ==
  ASSUME HookInv, NEW f \in Fibers, FiberStep(f)
  PROVE  /\ \A g \in Fibers \ {f} : pc'[g] = pc[g]
         /\ UNCHANGED <<callback, flag, report>>
         /\ f \in FibersRunning \/ CoreFree
<1> USE DEF At, Goto, Return
<1>0. pc \in [Fibers -> FiberPc]
  BY DEF HookInv, TypeOK
<1>1. \A g \in Fibers \ {f} : pc'[g] = pc[g]
  BY <1>0
     DEF FiberStep, callVars, Begin, TrySucceeds, TryFails, TryBlocks, AddTimer, WaitForEvent, AddEventFails,
       AddEventAborts, Hold, Resume, AfterHold, Check, Undo, AskResult, CloseSettle, CloseForget, CloseDescriptor
<1>2. UNCHANGED <<callback, flag, report>>
  BY DEF FiberStep, callVars, Begin, TrySucceeds, TryFails, TryBlocks, AddTimer, WaitForEvent, AddEventFails,
       AddEventAborts, Hold, Resume, AfterHold, Check, Undo, AskResult, CloseSettle, CloseForget, CloseDescriptor
<1>3. f \in FibersRunning \/ CoreFree
  BY DEF FibersRunning, FiberStep, Begin, TrySucceeds, TryFails, TryBlocks, AddTimer, WaitForEvent, AddEventFails,
       AddEventAborts, Hold, Resume, AfterHold, Check, Undo, AskResult, CloseSettle, CloseForget, CloseDescriptor
<1>4. QED
  BY <1>1, <1>2, <1>3

LEMMA OneActsStep ==
  ASSUME HookInv, OneCoreInv, Cores = 1, Next
  PROVE  OneActs'
<1> USE DEF OneCoreInv
<1>1. ASSUME NEW f \in Fibers, FiberStep(f)
      PROVE  OneActs'
  <2>1. FibersRunning \subseteq {f} /\ CallbacksRunning = {} /\ PollersBusy = {}
    BY <1>1, FiberPlaces, FreeMeansIdle, FiberRunsAlone DEF FibersRunning
  <2>2. FibersRunning' \subseteq {f}
    BY <1>1, <2>1, FiberPlaces DEF FibersRunning
  <2>3. CallbacksRunning' = {} /\ PollersBusy' = {}
    BY <1>1, <2>1, FiberPlaces DEF CallbacksRunning, PollersBusy
  <2>4. QED
    BY <2>2, <2>3 DEF OneActs
<1>2. ASSUME NEW f \in Fibers, TimerStep(f) \/ Expire(f)
      PROVE  OneActs'
  <2>0. callback \in [Fibers -> {"off", "queued", "flag", "settle"}]
    BY DEF HookInv, TypeOK
  <2>1. UNCHANGED <<pc, report>> /\ \A g \in Fibers \ {f} : callback'[g] = callback[g]
    BY <1>2, <2>0 DEF TimerStep, Expire, CallbackBegin, SleepOver, CallbackFlag, CallbackSettle
  <2>2. FibersRunning' = FibersRunning /\ PollersBusy' = PollersBusy
    BY <2>1 DEF FibersRunning, PollersBusy
  <2>3. CASE CallbackBegin(f)
    <3>1. FibersRunning = {} /\ CallbacksRunning = {} /\ PollersBusy = {}
      BY <2>3, FreeMeansIdle DEF CallbackBegin
    <3>2. CallbacksRunning' \subseteq {f}
      BY <3>1, <2>1 DEF CallbacksRunning
    <3>3. QED
      BY <2>2, <3>1, <3>2 DEF OneActs
  <2>4. CASE ~CallbackBegin(f)
    <3>1. CallbacksRunning' \subseteq CallbacksRunning
      BY <1>2, <2>4, <2>0, <2>1
         DEF CallbacksRunning, TimerStep, Expire, SleepOver, CallbackFlag, CallbackSettle
    <3>2. QED
      BY <2>2, <3>1 DEF OneActs
  <2>5. QED
    BY <2>3, <2>4
<1>3. ASSUME NEW p \in Pollers, PollerStep(p)
      PROVE  OneActs'
  <2>0. report \in [Pollers -> [fd : Fds, events : SUBSET Events, hup : BOOLEAN] \cup {NoReport}]
    BY DEF HookInv, TypeOK
  <2>1. FibersRunning' = FibersRunning /\ CallbacksRunning' = CallbacksRunning
    BY <1>3 DEF PollerStep, HandleReport, EpollWait, callVars, FibersRunning, CallbacksRunning
  <2>2. CASE HandleReport(p)
    <3>1. PollersBusy' \subseteq PollersBusy
      BY <2>2, <2>0 DEF HandleReport, PollersBusy
    <3>2. QED
      BY <2>1, <3>1 DEF OneActs
  <2>3. CASE CoreFree /\ \A q \in Pollers \ {p} : report'[q] = report[q]
    <3>1. FibersRunning = {} /\ CallbacksRunning = {} /\ PollersBusy = {}
      BY <2>3, FreeMeansIdle
    <3>2. PollersBusy' \subseteq {p}
      BY <3>1, <2>3 DEF PollersBusy
    <3>3. QED
      BY <2>1, <3>1, <3>2 DEF OneActs
  <2>4. QED
    BY <1>3, <2>0, <2>2, <2>3 DEF PollerStep, EpollWait
<1>4. ASSUME PeerStep
      PROVE  OneActs'
  BY <1>4 DEF PeerStep, PeerArrives, PeerHangsUp, callVars, OneActs, FibersRunning, CallbacksRunning, PollersBusy
<1>5. QED
  BY <1>1, <1>2, <1>3, <1>4 DEF Next

LEMMA ReportsHoldStep ==
  ASSUME HookInv, OneCoreInv, Cores = 1, Next
  PROVE  ReportsHold'
<1>0. /\ report \in [Pollers -> [fd : Fds, events : SUBSET Events, hup : BOOLEAN] \cup {NoReport}]
      /\ available \in [Fds -> SUBSET Events] /\ listed \subseteq open /\ hungUp \subseteq open
  BY DEF HookInv, TypeOK, TableInv, TableTypeOK, KernelInv
<1>1. ASSUME NEW f \in Fibers, FiberStep(f)
      PROVE  ReportsHold'
  <2>1. PollersBusy = {}
    BY <1>1, FiberPlaces, FreeMeansIdle, FiberRunsAlone
  <2>2. PollersBusy' = {}
    BY <1>1, <2>1, FiberPlaces DEF PollersBusy
  <2>3. QED
    BY <2>2 DEF ReportsHold
<1>2. ASSUME NEW f \in Fibers, TimerStep(f) \/ Expire(f)
      PROVE  ReportsHold'
  <2>1. CASE Expire(f)
    BY <2>1 DEF Expire, ReportsHold, PollersBusy, eventVars, tableVars, kernelVars, OneCoreInv
  <2>2. CASE TimerStep(f)
    <3>1. CoreFree \/ f \in CallbacksRunning
      BY <2>2 DEF TimerStep, CallbackBegin, SleepOver, CallbackFlag, CallbackSettle, CallbacksRunning
    <3>2. PollersBusy = {}
      BY <3>1, FreeMeansIdle DEF OneCoreInv, OneActs
    <3>3. PollersBusy' = {}
      BY <3>2, <2>2 DEF TimerStep, CallbackBegin, SleepOver, CallbackFlag, CallbackSettle, PollersBusy
    <3>4. QED
      BY <3>3 DEF ReportsHold
  <2>3. QED
    BY <1>2, <2>1, <2>2
<1>3. ASSUME NEW p \in Pollers, PollerStep(p)
      PROVE  ReportsHold'
  <2>1. CASE HandleReport(p)
    <3>1. \A q \in Pollers \ {p} : report[q] = NoReport
      BY <2>1 DEF HandleReport, OneCoreInv, OneActs, PollersBusy
    <3>2. PollersBusy' = {}
      BY <2>1, <3>1, <1>0 DEF HandleReport, PollersBusy
    <3>3. QED
      BY <3>2 DEF ReportsHold
  <2>2. ASSUME NEW fd \in Fds, EpollWait(p, fd)
        PROVE  ReportsHold'
    <3>1. PollersBusy = {} /\ UNCHANGED <<tableVars, interest, kernelVars>>
      BY <2>2, FreeMeansIdle DEF EpollWait, TakeReport
    <3>2. \A q \in Pollers \ {p} : report'[q] = NoReport
      BY <2>2, <3>1, <1>0 DEF EpollWait, PollersBusy
    <3>3. report'[p] \in {NoReport, Report(fd)}
      BY <2>2, <1>0 DEF EpollWait
    <3>4. fd \in open /\ interest[fd] = registered[fd]
      BY <2>2, <1>0 DEF EpollWait, TakeReport, HookInv, TableInv, InterestAgrees
    <3>5. /\ Report(fd).fd = fd /\ Report(fd).events \subseteq registered[fd] \cap available[fd]
          /\ Report(fd).hup => fd \in hungUp
      BY <3>4 DEF Report
    <3>6. QED
      BY <3>1, <3>2, <3>3, <3>5 DEF ReportsHold, PollersBusy, tableVars, kernelVars
  <2>3. QED
    BY <1>3, <2>1, <2>2 DEF PollerStep
<1>4. ASSUME PeerStep
      PROVE  ReportsHold'
  <2>1. /\ UNCHANGED <<registered, report>> /\ hungUp \subseteq hungUp'
        /\ \A fd \in Fds : available[fd] \subseteq available'[fd]
    BY <1>4, <1>0 DEF PeerStep, PeerArrives, PeerHangsUp, Arrive, HangUp, tableVars
  <2>2. QED
    BY <2>1 DEF ReportsHold, PollersBusy, OneCoreInv
<1>5. QED
  BY <1>1, <1>2, <1>3, <1>4 DEF Next

LEMMA CloseInvStep ==
  ASSUME HookInv, OneCoreInv, Cores = 1, Next
  PROVE  CloseInv'
<1> USE DEF At, Goto, Return
<1>0. /\ registered \in [Fds -> SUBSET Events] /\ pc \in [Fibers -> FiberPc] /\ open \subseteq Fds
      /\ entity \subseteq Fds
      /\ \A f \in Fibers : FdOf(f) \in Fds /\ EventOf(f) \in Events
  BY JobAssumption DEF FdOf, EventOf, HookInv, TypeOK, TableInv, TableTypeOK
\* A step that leaves places, descriptors and entities alone and registers nothing.
<1>1. ASSUME UNCHANGED <<pc, open, entity>>, \A fd \in Fds : registered'[fd] \subseteq registered[fd]
      PROVE  CloseInv'
  <2>1. CloseInv
    BY DEF OneCoreInv
  <2>2. \A fd \in Fds : registered[fd] = {} => registered'[fd] = {}
    BY <1>1
  <2>3. QED
    BY <1>0, <1>1, <2>1, <2>2 DEF CloseInv, FdOf
<1>2. ASSUME NEW f \in Fibers, FiberStep(f)
      PROVE  CloseInv'
  <2>1. \A g \in Fibers \ {f} : pc[g] \in {"start", "held", "done"} /\ pc'[g] = pc[g]
    <3>1. CASE f \in FibersRunning
      BY <1>2, <3>1, FiberPlaces, FiberRunsAlone
    <3>2. CASE CoreFree
      BY <1>2, <3>2, FiberPlaces, FreeMeansIdle DEF FibersRunning
    <3>3. QED
      BY <1>2, <3>1, <3>2, FiberPlaces
  <2>2. \A fd \in Fds \ open : registered[fd] = {}
    BY DEF OneCoreInv, CloseInv
  <2>3. \A fd \in open \ entity : At(f, "close") /\ FdOf(f) = fd
    BY <2>1 DEF OneCoreInv, CloseInv
  <2>4. CASE Begin(f)
    <3>1. pc[f] = "start" /\ UNCHANGED <<registered, open, entity>>
      BY <2>4 DEF Begin, eventVars, tableVars, kernelVars
    <3>2. open \subseteq entity
      BY <2>3, <3>1
    <3>3. pc'[f] \in {"forget", "close"} => registered[FdOf(f)] = {}
      BY <2>4, <2>2, <3>2, <1>0 DEF Begin
    <3>4. QED
      BY <2>1, <2>2, <3>1, <3>2, <3>3 DEF CloseInv, FdOf
  <2>5. CASE CloseSettle(f)
    <3>1. UNCHANGED <<open, entity>> /\ pc[f] = "settle" /\ pc' = [pc EXCEPT ![f] = "forget"]
      BY <2>5 DEF CloseSettle, SettleAllEvents, eventVars, kernelVars
    <3>2. registered'[FdOf(f)] = {} /\ \A fd \in Fds : registered'[fd] \subseteq registered[fd]
      <4>1. CASE SettleAllFails(FdOf(f))
        <5>1. registered[FdOf(f)] = {}
          BY <4>1, <2>2, <1>0 DEF SettleAllFails, CtlFails, HookInv, TableInv, InterestAgrees
        <5>2. QED
          BY <5>1, <4>1, <2>5 DEF CloseSettle, eventVars, tableVars
      <4>2. CASE ~SettleAllFails(FdOf(f))
        BY <4>2, <2>5, <1>0 DEF CloseSettle, SettleAllEvents
      <4>3. QED
        BY <4>1, <4>2
    <3>3. open \subseteq entity
      BY <2>3, <3>1
    <3>4. \A fd \in Fds \ open : registered'[fd] = {}
      BY <2>2, <3>2
    <3>5. QED
      BY <2>1, <3>1, <3>2, <3>3, <3>4 DEF CloseInv, FdOf
  <2>6. CASE CloseForget(f)
    <3>1. /\ UNCHANGED <<registered, open>> /\ pc[f] = "forget" /\ pc' = [pc EXCEPT ![f] = "close"]
          /\ entity' = entity \ {FdOf(f)}
      BY <2>6 DEF CloseForget, eventVars, tableVars, kernelVars
    <3>2. registered[FdOf(f)] = {}
      BY <3>1 DEF OneCoreInv, CloseInv
    <3>3. open \subseteq entity
      BY <2>3, <3>1
    <3>4. pc'[f] = "close" /\ \A fd \in open \ entity' : fd = FdOf(f)
      BY <3>1, <3>3, <1>0
    <3>5. QED
      BY <2>1, <2>2, <3>1, <3>2, <3>4 DEF CloseInv, FdOf
  <2>7. CASE CloseDescriptor(f)
    <3>1. /\ UNCHANGED <<registered, entity>> /\ pc[f] = "close" /\ pc' = [pc EXCEPT ![f] = "done"]
          /\ open' = open \ {FdOf(f)}
      BY <2>7 DEF CloseDescriptor, tableVars, kernelVars
    <3>2. registered[FdOf(f)] = {}
      BY <3>1 DEF OneCoreInv, CloseInv
    <3>3. open' \subseteq entity
      BY <2>3, <3>1
    <3>4. \A fd \in Fds \ open' : registered[fd] = {}
      BY <2>2, <3>1, <3>2
    <3>5. QED
      BY <2>1, <3>1, <3>2, <3>3, <3>4, <1>0 DEF CloseInv, FdOf
  <2>8. CASE WaitForEvent(f)
    <3>1. /\ UNCHANGED <<open, entity>> /\ pc[f] = "add" /\ pc' = [pc EXCEPT ![f] = "hold"]
          /\ FdOf(f) \in open
          /\ \A fd \in Fds \ {FdOf(f)} : registered'[fd] = registered[fd]
      BY <2>8, <1>0 DEF WaitForEvent, AddEvent, AddFails, CtlFails, kernelVars
    <3>2. open \subseteq entity
      BY <2>3, <3>1
    <3>3. QED
      BY <2>1, <2>2, <3>1, <3>2, <1>0 DEF CloseInv, FdOf
  <2>9. CASE ~Begin(f) /\ ~CloseSettle(f) /\ ~CloseForget(f) /\ ~CloseDescriptor(f) /\ ~WaitForEvent(f)
    <3>1. UNCHANGED <<registered, open, entity>>
      BY <1>2, <2>9
         DEF FiberStep, eventVars, tableVars, kernelVars, TrySucceeds, TryFails, TryBlocks, AddTimer, AddEventFails,
             AddEventAborts, Hold, Resume, AfterHold, Check, Undo, AskResult
    <3>2. pc[f] # "close" /\ pc'[f] \notin {"forget", "close"}
      BY <1>2, <2>9, <1>0
         DEF FiberStep, callVars, TrySucceeds, TryFails, TryBlocks, AddTimer, AddEventFails,
             AddEventAborts, Hold, Resume, AfterHold, Check, Undo, AskResult
    <3>3. open \subseteq entity
      BY <2>3, <3>2
    <3>4. QED
      BY <2>1, <2>2, <3>1, <3>2, <3>3 DEF CloseInv, FdOf
  <2>10. QED
    BY <2>4, <2>5, <2>6, <2>7, <2>8, <2>9
<1>3. ASSUME NEW f \in Fibers, TimerStep(f) \/ Expire(f)
      PROVE  CloseInv'
  <2>1. UNCHANGED <<pc, open, entity>>
    BY <1>3 DEF TimerStep, Expire, CallbackBegin, SleepOver, CallbackFlag, CallbackSettle, SettleEvent,
         eventVars, kernelVars
  <2>2. \A fd \in Fds : registered'[fd] \subseteq registered[fd]
    BY <1>3, <1>0 DEF TimerStep, Expire, CallbackBegin, SleepOver, CallbackFlag, CallbackSettle, SettleEvent,
         eventVars, tableVars
  <2>3. QED
    BY <2>1, <2>2, <1>1
<1>4. ASSUME (\E p \in Pollers : PollerStep(p)) \/ PeerStep
      PROVE  CloseInv'
  <2>1. UNCHANGED <<pc, open, entity>>
    BY <1>4 DEF PollerStep, PeerStep, HandleReport, EpollWait, PeerArrives, PeerHangsUp, TakeReport, Arrive,
         HangUp, Handle, eventVars, kernelVars, callVars
  <2>2. \A fd \in Fds : registered'[fd] \subseteq registered[fd]
    <3>1. ASSUME NEW p \in Pollers, HandleReport(p), Handle(report[p])
          PROVE  \A fd \in Fds : registered'[fd] \subseteq registered[fd]
      BY <3>1, <1>0 DEF Handle, LeftEvents
    <3>2. QED
      BY <1>4, <3>1 DEF PollerStep, PeerStep, HandleReport, EpollWait, PeerArrives, PeerHangsUp, TakeReport, Arrive,
         HangUp, eventVars, tableVars
  <2>3. QED
    BY <2>1, <2>2, <1>1
<1>5. QED
  BY <1>2, <1>3, <1>4 DEF Next

LEMMA OneCoreInit == Init => OneCoreInv
<1> SUFFICES ASSUME Init
             PROVE  OneCoreInv
  OBVIOUS
<1>1. FibersRunning = {} /\ CallbacksRunning = {} /\ PollersBusy = {}
  BY DEF Init, FibersRunning, CallbacksRunning, PollersBusy
<1>2. CloseInv
  BY DEF Init, TableInit, CloseInv
<1>3. QED
  BY <1>1, <1>2 DEF OneCoreInv, OneActs, ReportsHold

LEMMA OneCoreStep ==
  ASSUME HookInv, OneCoreInv, Cores = 1, [Next]_vars
  PROVE  OneCoreInv'
<1>1. CASE Next
  BY <1>1, OneActsStep, ReportsHoldStep, CloseInvStep DEF OneCoreInv
<1>2. CASE UNCHANGED vars
  BY <1>2 DEF vars, eventVars, tableVars, kernelVars, callVars, OneCoreInv, OneActs, ReportsHold, CloseInv,
       FibersRunning, CallbacksRunning, PollersBusy, FdOf, At
<1>3. QED
  BY <1>1, <1>2

\* With one thread whoever has begun goes on until it leaves, what a poller was told is
\* still so when it handles it, and a descriptor is closed after its events are settled.
THEOREM OneThreadInvariant ==
  ASSUME Cores = 1
  PROVE  Spec => []OneCoreInv
<1>1. HookInv /\ OneCoreInv /\ [Next]_vars => OneCoreInv'
  BY OneCoreStep
<1>2. QED
  BY <1>1, OneCoreInit, HookInvariant, PTL DEF Spec

\* With one thread nothing outlives its user: close() leaves no event behind, and a call
\* returns only with its timer out of the way (hook.cpp:124-128, 470-494).
THEOREM NothingIsLeft ==
  ASSUME Cores = 1
  PROVE  Spec => []NothingLeft
<1>1. HookInv /\ OneCoreInv => NothingLeft
  BY DEF HookInv, PlacesInv, OneCoreInv, CloseInv, NothingLeft, At
<1>2. QED
  BY <1>1, HookInvariant, OneThreadInvariant, PTL

\* With one thread, and no two calls that wait for the same event of a descriptor, no
\* assertion of addEvent() or triggerEvent() fails (iomanager.cpp:8-25, 118-185).
THEOREM NoAssertionFails ==
  ASSUME Cores = 1, WaitsApart
  PROVE  Spec => []AssertionsHold
<1>1. ASSUME HookInv, OneCoreInv, AssertionsHold, [Next]_vars
      PROVE  AssertionsHold'
  <2>1. ASSUME NEW f \in Fibers, AddEventAborts(f)
        PROVE  FALSE
    <3> DEFINE g == waiter[FdOf(f)][EventOf(f)]
    <3>0. FdOf(f) \in Fds /\ Job[f].kind \in Kinds
      BY JobAssumption DEF FdOf
    <3>1. pc[f] = "add" /\ EventOf(f) \in registered[FdOf(f)]
      BY <2>1 DEF AddEventAborts, AddAborts, At
    <3>2. g \in Fibers /\ Waiting(g) /\ FdOf(g) = FdOf(f) /\ EventOf(g) = EventOf(f)
      BY <1>1, <3>0, <3>1 DEF HookInv, RegisteredWait
    <3> HIDE DEF g
    <3>3. Job[f].kind \in {"io", "connect"}
      BY <1>1, <3>0, <3>1 DEF HookInv, PlacesInv, Kinds
    <3>4. Job[g].kind \in {"io", "connect"}
      <4>1. Job[g].kind \in Kinds
        BY <3>2, JobAssumption
      <4>2. QED
        BY <1>1, <3>2, <4>1 DEF HookInv, PlacesInv, Kinds, Waiting, Sleeps
    <3>5. g = f
      BY <3>2, <3>3, <3>4 DEF WaitsApart
    <3>6. QED
      BY <3>1, <3>2, <3>5 DEF Waiting
  <2>2. ASSUME NEW p \in Pollers, HandleReport(p), HandleAborts(report[p])
        PROVE  FALSE
    <3>1. p \in PollersBusy
      BY <2>2 DEF HandleReport, PollersBusy
    <3>2. report[p].events \subseteq registered[report[p].fd]
      BY <1>1, <3>1 DEF OneCoreInv, ReportsHold
    <3>3. QED
      BY <2>2, <3>2 DEF HandleAborts, RealEvents
  <2>3. CASE UNCHANGED aborted
    BY <1>1, <2>3 DEF AssertionsHold
  <2>4. ASSUME NEW f \in Fibers, AfterHold(f) \/ Undo(f)
        PROVE  AssertionsHold'
    BY <1>1, <2>4 DEF AfterHold, Undo, CancelTimer, AssertionsHold
  <2>5. QED
    BY <1>1, <2>1, <2>2, <2>3, <2>4
       DEF Next, vars, FiberStep, TimerStep, PollerStep, PeerStep, Expire, CallbackBegin, SleepOver, CallbackFlag,
           CallbackSettle, HandleReport, EpollWait, PeerArrives, PeerHangsUp,
           Begin, TrySucceeds, TryFails, TryBlocks, AddTimer, WaitForEvent, AddEventFails, Hold, Resume,
           Check, AskResult, CloseSettle, CloseForget, CloseDescriptor
<1>2. Init => AssertionsHold
  BY DEF Init, AssertionsHold
<1>3. QED
  BY <1>1, <1>2, HookInvariant, OneThreadInvariant, PTL DEF Spec

\* The same, for events that are there: with one thread none is slept over.
THEOREM NoEventIsMissedByOne ==
  ASSUME Cores = 1, WaitsApart
  PROVE  Spec => []NoMissedEvent
<1>1. QED
  BY NoEventIsMissed, NoAssertionFails, PTL

-----------------------------------------------------------------------------
(* connect()                                                               *)

\* The connection of a fiber is made, has failed, or its descriptor is closed.
Answered(f) == EventOf(f) \in available[FdOf(f)] \/ FdOf(f) \notin open

\* Another fiber closes the descriptor and has settled its events.
Closing(f) == \E g \in Fibers : pc[g] \in {"forget", "close"} /\ FdOf(g) = FdOf(f)

\* A fiber that waits on the descriptor of a connect() is the one in connect().
LEMMA ConnectWaitsAlone ==
  ASSUME HookInv, ConnectsAlone, NEW f \in Fibers, Job[f].kind = "connect",
         NEW e \in registered[FdOf(f)]
  PROVE  waiter[FdOf(f)][e] = f /\ e = EventOf(f) /\ pc[f] \in {"hold", "held"} /\ woken[f] = 0
<1> DEFINE g == waiter[FdOf(f)][e]
<1>1. g \in Fibers /\ Waiting(g) /\ FdOf(g) = FdOf(f) /\ EventOf(g) = e
  BY JobAssumption DEF FdOf, HookInv, RegisteredWait
<1> HIDE DEF g
<1>2. Job[g].kind \notin {"close", "sleep"}
  BY <1>1 DEF HookInv, PlacesInv, Waiting, Sleeps
<1>3. g = f
  BY <1>1, <1>2 DEF ConnectsAlone
<1>4. QED
  BY <1>1, <1>3 DEF Waiting, g

\* What has been answered stays so: only io calls use up what is available.
LEMMA AnswersStay ==
  ASSUME HookInv, ConnectsAlone, Next, NEW f \in Fibers, Job[f].kind = "connect", Answered(f)
  PROVE  Answered(f)'
<1>0. /\ available \in [Fds -> SUBSET Events] /\ open \subseteq Fds
      /\ FdOf(f) \in Fds /\ EventOf(f) \in Events
  BY JobAssumption DEF FdOf, EventOf, HookInv, TableInv, TableTypeOK
<1>1. CASE UNCHANGED kernelVars
  BY <1>1 DEF kernelVars, Answered, FdOf, EventOf
<1>2. ASSUME NEW g \in Fibers, TrySucceeds(g)
      PROVE  Answered(f)'
  <2>1. UNCHANGED open /\ (UNCHANGED available
           \/ (Job[g].kind = "io" /\ available' = [available EXCEPT ![FdOf(g)] = @ \ {EventOf(g)}]))
    BY <1>2 DEF TrySucceeds
  <2>2. Job[g].kind = "io" => FdOf(g) # FdOf(f)
    BY DEF ConnectsAlone
  <2>3. QED
    BY <2>1, <2>2, <1>0 DEF Answered, FdOf, EventOf
<1>3. ASSUME NEW g \in Fibers, CloseDescriptor(g), FdOf(g) \in open
      PROVE  Answered(f)'
  <2>1. /\ open' = open \ {FdOf(g)}
        /\ available' = [available EXCEPT ![FdOf(g)] = {}]
    BY <1>3 DEF CloseDescriptor
  <2>2. CASE FdOf(g) = FdOf(f)
    BY <2>1, <2>2 DEF Answered, FdOf
  <2>3. CASE FdOf(g) # FdOf(f)
    BY <2>1, <2>3, <1>0 DEF Answered, FdOf, EventOf
  <2>4. QED
    BY <2>2, <2>3
<1>4. ASSUME PeerStep
      PROVE  Answered(f)'
  <2>1. UNCHANGED open /\ \A fd \in Fds : available[fd] \subseteq available'[fd]
    BY <1>4, <1>0 DEF PeerStep, PeerArrives, PeerHangsUp, Arrive, HangUp
  <2>2. QED
    BY <2>1, <1>0 DEF Answered, FdOf, EventOf
<1>5. ASSUME NEW g \in Fibers, FiberStep(g)
      PROVE  Answered(f)'
  BY <1>1, <1>2, <1>3, <1>5
     DEF FiberStep, eventVars, Begin, TryFails, TryBlocks, AddTimer, WaitForEvent, AddEvent, AddEventFails,
         AddEventAborts, Hold, Resume, AfterHold, Check, Undo, AskResult, CloseSettle, SettleAllEvents,
         CloseForget, CloseDescriptor
<1>6. ASSUME NEW g \in Fibers, TimerStep(g) \/ Expire(g)
      PROVE  Answered(f)'
  BY <1>1, <1>6
     DEF TimerStep, Expire, CallbackBegin, SleepOver, CallbackFlag, CallbackSettle, SettleEvent, eventVars
<1>7. ASSUME NEW p \in Pollers, PollerStep(p)
      PROVE  Answered(f)'
  BY <1>1, <1>7 DEF PollerStep, HandleReport, Handle, EpollWait, TakeReport, eventVars
<1>8. QED
  BY <1>4, <1>5, <1>6, <1>7 DEF Next

\* A fiber that is closing goes on to close.
LEMMA ClosingStays ==
  ASSUME HookInv, Next, NEW f \in Fibers, Closing(f)
  PROVE  Closing(f)' \/ Answered(f)'
<1>0. pc \in [Fibers -> FiberPc] /\ FdOf(f) \in Fds
  BY JobAssumption DEF FdOf, HookInv, TypeOK
<1>1. PICK g \in Fibers : pc[g] \in {"forget", "close"} /\ FdOf(g) = FdOf(f)
  BY DEF Closing
<1>2. CASE pc'[g] \in {"forget", "close"}
  BY <1>1, <1>2 DEF Closing, FdOf
<1>3. CASE pc'[g] \notin {"forget", "close"}
  <2>1. FiberStep(g)
    <3>1. pc'[g] # pc[g]
      BY <1>1, <1>3
    <3>2. ASSUME NEW h \in Fibers, FiberStep(h), h # g
          PROVE  FALSE
      BY <3>1, <3>2, FiberPlaces
    <3>3. ~UNCHANGED pc
      BY <3>1
    <3>4. QED
      BY <3>2, <3>3
         DEF Next, TimerStep, PollerStep, PeerStep, Expire, CallbackBegin, SleepOver, CallbackFlag, CallbackSettle,
             HandleReport, EpollWait, PeerArrives, PeerHangsUp, callVars
  <2>2. CloseDescriptor(g)
    BY <2>1, <1>0, <1>1, <1>3
       DEF At, Goto, Return, callVars, FiberStep, Begin, TrySucceeds, TryFails, TryBlocks, AddTimer, WaitForEvent,
         AddEventFails, AddEventAborts, Hold, Resume, AfterHold, Check, Undo, AskResult, CloseSettle, CloseForget
  <2>3. FdOf(f) \notin open'
    BY <2>2, <1>1 DEF CloseDescriptor, kernelVars
  <2>4. QED
    BY <2>3 DEF Answered, FdOf
<1>4. QED
  BY <1>2, <1>3

\* A descriptor comes to be watched by addEvent(), or while an event of it is registered.
LEMMA WatchedGrows ==
  ASSUME HookInv, Next, NEW fd \in Fds, fd \in watched', fd \notin watched
  PROVE  registered[fd] # {} \/ \E g \in Fibers : WaitForEvent(g) /\ FdOf(g) = fd
<1>1. ASSUME NEW g \in Fibers, FiberStep(g)
      PROVE  WaitForEvent(g) /\ FdOf(g) = fd
  BY <1>1
     DEF FiberStep, eventVars, epollVars, Begin, TrySucceeds, TryFails, TryBlocks, AddTimer, WaitForEvent, AddEvent,
         AddEventFails, AddEventAborts, Hold, Resume, AfterHold, Check, Undo, AskResult, CloseSettle, SettleAllEvents,
         CloseForget, CloseDescriptor, Watch, Unwatch
<1>2. ASSUME NEW g \in Fibers, TimerStep(g) \/ Expire(g)
      PROVE  registered[fd] # {}
  BY <1>2
     DEF TimerStep, Expire, CallbackBegin, SleepOver, CallbackFlag, CallbackSettle, SettleEvent, RemoveFails,
         Watch, eventVars, epollVars
<1>3. ASSUME NEW p \in Pollers, PollerStep(p)
      PROVE  registered[fd] # {}
  <2>1. UNCHANGED watched \/ Handle(report[p])
    BY <1>3 DEF PollerStep, HandleReport, EpollWait, TakeReport, eventVars, epollVars
  <2>2. CASE Handle(report[p])
    BY <2>2 DEF Handle, HandleSkips, LeftEvents, Watch, Unwatch
  <2>3. QED
    BY <2>1, <2>2
<1>4. ~PeerStep
  BY DEF PeerStep, PeerArrives, PeerHangsUp, Arrive, HangUp
<1>5. QED
  BY <1>1, <1>2, <1>3, <1>4 DEF Next

\* Who schedules a fiber in connect(): its own timer, which has set the flag, a report
\* of its event, or the close() of its descriptor.
LEMMA ConnectIsScheduled ==
  ASSUME HookInv, OneCoreInv, ConnectsAlone, Next, NEW f \in Fibers, Job[f].kind = "connect",
         callback[f] = "settle" => flag[f], woken[f] = 0, woken'[f] > 0
  PROVE  flag[f] \/ Answered(f) \/ Closing(f)'
<1>0. /\ woken \in [Fibers -> Nat] /\ available \in [Fds -> SUBSET Events]
      /\ registered \in [Fds -> SUBSET Events] /\ pc \in [Fibers -> FiberPc]
      /\ \A g \in Fibers : FdOf(g) \in Fds /\ EventOf(g) \in Events /\ Job[g].kind \in Kinds
  BY JobAssumption DEF FdOf, EventOf, HookInv, TypeOK, TableInv, TableTypeOK
<1>1. ~UNCHANGED woken
  OBVIOUS
<1>2. ASSUME NEW g \in Fibers, FiberStep(g)
      PROVE  Closing(f)'
  <2>1. CloseSettle(g) /\ ~SettleAllFails(FdOf(g))
    BY <1>0, <1>2
       DEF FiberStep, eventVars, tableVars, Begin, TrySucceeds, TryFails, TryBlocks, AddTimer, WaitForEvent, AddEvent,
         AddEventFails, AddEventAborts, Hold, Resume, AfterHold, Check, Undo, AskResult, CloseSettle,
         CloseForget, CloseDescriptor
  <2>2. PICK e \in registered[FdOf(g)] : waiter[FdOf(g)][e] = f
    BY <1>0, <2>1 DEF CloseSettle, SettleAllEvents, Schedule
  <2>3. FdOf(f) = FdOf(g)
    BY <1>0, <2>2 DEF HookInv, RegisteredWait
  <2>4. pc'[g] = "forget"
    BY <1>0, <2>1 DEF CloseSettle, Goto
  <2>5. QED
    BY <2>3, <2>4 DEF Closing, FdOf
<1>3. ASSUME NEW g \in Fibers, TimerStep(g) \/ Expire(g)
      PROVE  flag[f]
  <2>1. CASE SleepOver(g)
    <3>1. g = f
      BY <2>1, <1>0 DEF SleepOver, Schedule
    <3>2. QED
      BY <2>1, <3>1 DEF SleepOver, Sleeps
  <2>2. CASE CallbackSettle(g) /\ ~RemoveFails(FdOf(g), EventOf(g))
    <3>1. waiter[FdOf(g)][EventOf(g)] = f /\ EventOf(g) \in registered[FdOf(g)] /\ callback[g] = "settle"
      BY <2>2, <1>0 DEF CallbackSettle, SettleEvent, Schedule, RemoveFails
    <3>2. FdOf(f) = FdOf(g)
      BY <1>0, <3>1 DEF HookInv, RegisteredWait
    <3>3. Job[g].kind \notin {"close", "sleep"}
      BY <3>1 DEF HookInv, PlacesInv, SleepInv, Sleeps
    <3>4. g = f
      BY <3>2, <3>3 DEF ConnectsAlone
    <3>5. QED
      BY <3>1, <3>4
  <2>3. QED
    BY <1>1, <1>3, <2>1, <2>2
       DEF TimerStep, Expire, CallbackBegin, CallbackFlag, CallbackSettle, eventVars, tableVars
<1>4. ASSUME NEW p \in Pollers, PollerStep(p)
      PROVE  Answered(f)
  <2> DEFINE r == report[p]
  <2>1. HandleReport(p) /\ Handle(r)
    BY <1>1, <1>4 DEF PollerStep, HandleReport, EpollWait, TakeReport, eventVars, tableVars
  <2>2. /\ r.fd \in Fds /\ (r.hup => r.fd \in hungUp)
        /\ r.events \subseteq registered[r.fd] \cap available[r.fd]
    BY <2>1 DEF HandleReport, PollersBusy, OneCoreInv, ReportsHold
  <2>3. PICK e \in RealEvents(r) : waiter[r.fd][e] = f
    <3> HIDE DEF r
    <3>1. QED
      BY <1>0, <2>1 DEF Handle, Schedule
  <2>4. e \in registered[r.fd]
    BY <2>2, <2>3 DEF RealEvents
  <2>5. FdOf(f) = r.fd /\ EventOf(f) = e
    BY <2>2, <2>3, <2>4 DEF HookInv, RegisteredWait
  <2>6. e \in r.events \/ r.hup
    BY <2>3 DEF RealEvents
  <2>7. EventOf(f) \in available[FdOf(f)]
    BY <1>0, <2>2, <2>5, <2>6 DEF HookInv, KernelInv
  <2>8. QED
    BY <2>7 DEF Answered
<1>5. ~PeerStep
  BY <1>1 DEF PeerStep, PeerArrives, PeerHangsUp, Arrive, HangUp, tableVars
<1>6. QED
  BY <1>2, <1>3, <1>4, <1>5 DEF Next

LEMMA ConnectInvStep ==
  ASSUME HookInv, OneCoreInv, ConnectInv, ConnectsAlone, Next
  PROVE  ConnectInv'
<1> SUFFICES ASSUME NEW f \in Fibers, Job[f].kind = "connect"
             PROVE  /\ callback'[f] = "settle" => flag'[f]
                    /\ pc'[f] \in {"start", "try", "timer", "add"} => FdOf(f) \notin watched'
                    /\ woken'[f] > 0 \/ pc'[f] \in {"cancel", "check"} =>
                         flag'[f] \/ Answered(f)' \/ Closing(f)'
                    /\ pc'[f] \in {"undo", "sockopt"} => Answered(f)'
  BY DEF ConnectInv, Answered, Closing, FdOf, EventOf
<1> USE DEF At, Goto, Return
<1>0. /\ woken \in [Fibers -> Nat] /\ pc \in [Fibers -> FiberPc] /\ flag \in [Fibers -> BOOLEAN]
      /\ callback \in [Fibers -> {"off", "queued", "flag", "settle"}]
      /\ FdOf(f) \in Fds
  BY JobAssumption DEF FdOf, HookInv, TypeOK, TableInv, TableTypeOK
<1>a. /\ callback[f] = "settle" => flag[f]
      /\ pc[f] \in {"start", "try", "timer", "add"} => FdOf(f) \notin watched
      /\ woken[f] > 0 \/ pc[f] \in {"cancel", "check"} => flag[f] \/ Answered(f) \/ Closing(f)
      /\ pc[f] \in {"undo", "sockopt"} => Answered(f)
  BY DEF ConnectInv, Answered, Closing
\* The flag is set before the events are settled, and stays.
<1>1. (callback'[f] = "settle" => flag'[f]) /\ (flag[f] => flag'[f])
  <2>1. CASE UNCHANGED <<callback, flag>>
    BY <2>1, <1>a
  <2>2. ASSUME NEW g \in Fibers, TimerStep(g) \/ Expire(g)
        PROVE  (callback'[f] = "settle" => flag'[f]) /\ (flag[f] => flag'[f])
    BY <2>2, <1>0, <1>a DEF TimerStep, Expire, CallbackBegin, SleepOver, CallbackFlag, CallbackSettle
  <2>3. QED
    BY <2>1, <2>2, FiberPlaces
       DEF Next, PollerStep, PeerStep, HandleReport, EpollWait, PeerArrives, PeerHangsUp, callVars
\* Where the fiber comes from, if it moved.
<1>2. pc'[f] = pc[f] \/ FiberStep(f)
  BY FiberPlaces
     DEF Next, TimerStep, PollerStep, PeerStep, Expire, CallbackBegin, SleepOver, CallbackFlag, CallbackSettle,
         HandleReport, EpollWait, PeerArrives, PeerHangsUp, callVars
<1>3. /\ pc'[f] \in {"start", "try", "timer", "add"} => pc[f] \in {"start", "try", "timer", "add"}
      /\ pc'[f] \in {"cancel", "check"} =>
           woken[f] > 0 \/ pc[f] \in {"cancel", "check"}
      /\ pc'[f] = "undo" => pc[f] = "undo" \/ AddEventFails(f)
      /\ pc'[f] = "sockopt" => pc[f] \in {"sockopt", "undo"} \/ (Check(f) /\ ~flag[f])
  BY <1>0, <1>2
     DEF FiberStep, callVars, Begin, TrySucceeds, TryFails, TryBlocks, AddTimer, WaitForEvent, AddEventFails,
       AddEventAborts, Hold, Resume, AfterHold, Check, Undo, AskResult, CloseSettle, CloseForget, CloseDescriptor
<1>4. pc'[f] \in {"start", "try", "timer", "add"} => FdOf(f) \notin watched'
  <2> SUFFICES ASSUME pc'[f] \in {"start", "try", "timer", "add"}, FdOf(f) \in watched'
               PROVE  FALSE
    OBVIOUS
  <2>1. pc[f] \in {"start", "try", "timer", "add"} /\ FdOf(f) \notin watched
    BY <1>3, <1>a
  <2>2. registered[FdOf(f)] = {}
    BY <2>1, ConnectWaitsAlone
  <2>3. PICK g \in Fibers : WaitForEvent(g) /\ FdOf(g) = FdOf(f)
    BY <2>1, <2>2, <1>0, WatchedGrows
  <2>4. Job[g].kind \notin {"close", "sleep"}
    BY <2>3 DEF WaitForEvent, HookInv, PlacesInv
  <2>5. g = f
    BY <2>3, <2>4 DEF ConnectsAlone
  <2>6. QED
    BY <2>3, <2>5, <1>0 DEF WaitForEvent
<1>5. woken'[f] > 0 \/ pc'[f] \in {"cancel", "check"} => flag'[f] \/ Answered(f)' \/ Closing(f)'
  <2>1. flag[f] \/ Answered(f) \/ Closing(f) => flag'[f] \/ Answered(f)' \/ Closing(f)'
    BY <1>1, AnswersStay, ClosingStays
  <2>2. CASE woken[f] > 0 \/ pc[f] \in {"cancel", "check"}
    BY <2>1, <2>2, <1>a
  <2>3. CASE ~(woken[f] > 0 \/ pc[f] \in {"cancel", "check"})
    <3>1. woken[f] = 0 /\ pc'[f] \notin {"cancel", "check"}
      BY <2>3, <1>0, <1>3
    <3>2. ASSUME woken'[f] > 0
          PROVE  flag'[f] \/ Answered(f)' \/ Closing(f)'
      BY <3>1, <3>2, <2>1, <1>a, ConnectIsScheduled
    <3>3. QED
      BY <3>1, <3>2
  <2>4. QED
    BY <2>2, <2>3
<1>6. pc'[f] \in {"undo", "sockopt"} => Answered(f)'
  <2>1. ASSUME AddEventFails(f)
        PROVE  Answered(f)
    <3>1. pc[f] = "add" /\ CtlFails(FdOf(f), AddCode(FdOf(f)))
      BY <2>1 DEF AddEventFails, AddFails
    <3>2. registered[FdOf(f)] = {}
      BY <3>1, ConnectWaitsAlone
    <3>3. FdOf(f) \notin watched
      BY <3>1, <1>a
    <3>4. QED
      BY <3>1, <3>2, <3>3 DEF CtlFails, AddCode, Answered
  <2>2. ASSUME Check(f), ~flag[f]
        PROVE  Answered(f)
    <3>1. pc[f] = "check"
      BY <2>2 DEF Check
    <3>2. f \in FibersRunning
      BY <3>1 DEF FibersRunning
    <3>3. ~Closing(f)
      BY <3>1, <3>2, FiberRunsAlone DEF Closing
    <3>4. QED
      BY <2>2, <3>1, <3>3, <1>a
  <2>3. ASSUME pc'[f] \in {"undo", "sockopt"}
        PROVE  Answered(f)
    BY <2>1, <2>2, <2>3, <1>3, <1>a
  <2>4. QED
    BY <2>3, AnswersStay
<1>7. QED
  BY <1>1, <1>4, <1>5, <1>6

\* With one thread, and nobody but close() on its descriptor, connect() reports success
\* only for a connection that is made, or whose descriptor was closed meanwhile
\* (hook.cpp:236-327): whoever schedules it, it was answered before it asks.
THEOREM ConnectIsHonest ==
  ASSUME Cores = 1, ConnectsAlone
  PROVE  Spec => []ConnectHonest
<1> DEFINE Inv == ConnectInv /\ ConnectHonest
<1>1. Init => Inv
  <2> SUFFICES ASSUME Init
               PROVE  Inv
    OBVIOUS
  <2>1. ConnectInv
    BY DEF Init, TableInit, ConnectInv
  <2>2. ConnectHonest
    BY DEF Init, ConnectHonest
  <2>3. QED
    BY <2>1, <2>2
<1>2. ASSUME HookInv, OneCoreInv, Inv, [Next]_vars
      PROVE  Inv'
  <2>1. CASE Next
    <3>1. ConnectInv'
      BY <1>2, <2>1, ConnectInvStep
    <3>2. ASSUME NEW f \in Fibers, Job[f].kind = "connect", result'[f] = "ok"
          PROVE  Answered(f)'
      <4>0. result \in [Fibers -> {"none", "ok", "again", "badf", "refused", "timeout"}]
        BY <1>2 DEF HookInv, TypeOK
      <4>1. CASE result[f] = "ok"
        BY <4>1, <1>2, <2>1, <3>2, AnswersStay DEF ConnectHonest, Answered
      <4>2. CASE result[f] # "ok"
        <5>1. ASSUME NEW g \in Fibers, FiberStep(g)
              PROVE  TrySucceeds(f) \/ AskResult(f)
          <6>1. g = f
            BY <4>0, <4>2, <3>2, <5>1
               DEF Return, callVars, FiberStep, Begin, TrySucceeds, TryFails, TryBlocks, AddTimer, WaitForEvent,
                 AddEventFails, AddEventAborts, Hold, Resume, AfterHold, Check, Undo, AskResult, CloseSettle,
                 CloseForget, CloseDescriptor
          <6>2. Job[f].kind \notin {"close", "sleep"} /\ pc[f] # "close"
            BY <1>2, <3>2 DEF HookInv, PlacesInv
          <6>3. QED
            BY <4>0, <4>2, <3>2, <5>1, <6>1, <6>2
               DEF At, Return, Sleeps, callVars, FiberStep, Begin, TrySucceeds, TryFails, TryBlocks, AddTimer,
                 WaitForEvent, AddEventFails, AddEventAborts, Hold, Resume, AfterHold, Check, Undo, AskResult,
                 CloseSettle, CloseForget, CloseDescriptor
        <5>2. TrySucceeds(f) \/ AskResult(f)
          BY <2>1, <4>2, <3>2, <5>1
             DEF Next, TimerStep, PollerStep, PeerStep, Expire, CallbackBegin, SleepOver, CallbackFlag,
               CallbackSettle, HandleReport, EpollWait, PeerArrives, PeerHangsUp, callVars
        <5>3. Answered(f)
          BY <5>2, <1>2, <3>2 DEF TrySucceeds, AskResult, At, ConnectInv, Answered
        <5>4. QED
          BY <5>3, <1>2, <2>1, <3>2, AnswersStay
      <4>3. QED
        BY <4>1, <4>2
    <3>3. ConnectHonest'
      BY <3>2 DEF ConnectHonest, Answered, FdOf, EventOf
    <3>4. QED
      BY <3>1, <3>3
  <2>2. CASE UNCHANGED vars
    BY <1>2, <2>2 DEF vars, eventVars, tableVars, epollVars, kernelVars, callVars, ConnectInv, ConnectHonest,
         FdOf, EventOf
  <2>3. QED
    BY <1>2, <2>1, <2>2
<1>3. Inv => ConnectHonest
  OBVIOUS
<1>4. QED
  BY <1>1, <1>2, <1>3, HookInvariant, OneThreadInvariant, PTL DEF Spec
=============================================================================

------------------------------- MODULE HookIO -------------------------------
(***************************************************************************)
(* Hooked system calls (src/src/concurrent/hook.cpp): do_io() behind read, *)
(* write, accept and their kin, connect_with_timeout() and close(), run by *)
(* fibers over the event table. A call that would block adds a timer, adds *)
(* an event, and holds; the event or the timer schedules the fiber again.  *)
(* sleep(), usleep() and nanosleep() only add a timer, and hold.           *)
(*                                                                         *)
(* At most Cores threads execute at a time: the code of fibers between two *)
(* holds, the callbacks of expired timers and the handling of events are   *)
(* steps in between which another thread may act; with one thread, as in   *)
(* the shipped configuration, whoever has begun goes on until it leaves.   *)
(* The scheduler is taken as what TaskPool promises, a timer as what       *)
(* TimerManager promises: it expires once unless it was cancelled before.  *)
(***************************************************************************)
EXTENDS EventTable

CONSTANTS
  Job,          \* what each fiber does: a descriptor, an event, a kind of call
  Timed,        \* fibers whose descriptor has a timeout
  Pollers,      \* threads that may handle events
  Cores,        \* threads that execute at a time
  Hangups       \* BOOLEAN: connections may be hung up

Kinds == {"io", "connect", "close", "sleep"}

ASSUME JobAssumption == Job \in [Fibers -> [fd : Fds, event : Events, kind : Kinds]]
ASSUME TimedAssumption == Timed \subseteq Fibers
ASSUME CoresAssumption == Cores \in Nat \ {0}
ASSUME FinitelyMany == IsFiniteSet(Fibers) /\ IsFiniteSet(Pollers)

VARIABLES
  entity,     \* descriptors that have a FileDescriptorEntity
  pc,         \* where each fiber is in its call
  result,     \* what the call of each fiber returned
  timer,      \* the timer of each fiber's call
  callback,   \* where the callback of each fiber's timer is
  flag,       \* *timer_cancelled of each fiber's call
  report,     \* the report each poller handles
  aborted     \* what ended the program: a failed assertion or erase(end())

callVars == <<pc, result, timer, callback, flag>>
vars == <<eventVars, entity, callVars, report, aborted>>

NoReport == [fd |-> None, events |-> {}, hup |-> FALSE]

FiberPc == {"start", "try", "timer", "add", "undo", "hold", "held", "cancel", "check",
            "sockopt", "settle", "forget", "close", "done"}

Init ==
  /\ TableInit
  /\ entity = Fds
  /\ pc = [f \in Fibers |-> "start"]
  /\ result = [f \in Fibers |-> "none"]
  /\ timer = [f \in Fibers |-> "off"]
  /\ callback = [f \in Fibers |-> "off"]
  /\ flag = [f \in Fibers |-> FALSE]
  /\ report = [p \in Pollers |-> NoReport]
  /\ aborted = "no"

-----------------------------------------------------------------------------
(* Threads                                                                 *)

FdOf(f) == Job[f].fd
EventOf(f) == Job[f].event
Sleeps(f) == Job[f].kind = "sleep"

FibersRunning == {f \in Fibers : pc[f] \notin {"start", "held", "done"}}
CallbacksRunning == {f \in Fibers : callback[f] \in {"flag", "settle"}}
PollersBusy == {p \in Pollers : report[p] # NoReport}

\* A thread is free to begin something.
CoreFree ==
  Cardinality(FibersRunning) + Cardinality(CallbacksRunning) + Cardinality(PollersBusy) < Cores

At(f, label) == pc[f] = label
Goto(f, label) == pc' = [pc EXCEPT ![f] = label]

Return(f, value) ==
  /\ Goto(f, "done")
  /\ result' = [result EXCEPT ![f] = value]

-----------------------------------------------------------------------------
(* do_io() and connect_with_timeout()                                      *)

\* The descriptor has an entity, or the library function is called directly.
Begin(f) ==
  /\ At(f, "start") /\ CoreFree
  /\ IF Job[f].kind = "close"
     THEN Goto(f, IF FdOf(f) \in entity THEN "settle" ELSE "close") /\ UNCHANGED result
     ELSE IF Job[f].kind = "sleep" THEN Goto(f, "timer") /\ UNCHANGED result
     ELSE IF FdOf(f) \in entity
     THEN Goto(f, "try") /\ UNCHANGED result
     ELSE Return(f, IF FdOf(f) \notin open \/ Job[f].kind = "connect" THEN "badf"
                    ELSE IF EventOf(f) \in available[FdOf(f)] THEN "ok" ELSE "again")
  /\ UNCHANGED <<eventVars, entity, timer, callback, flag, report, aborted>>

\* The library function succeeds; it may use up what was available.
TrySucceeds(f) ==
  /\ At(f, "try")
  /\ FdOf(f) \in open /\ EventOf(f) \in available[FdOf(f)]
  /\ \/ UNCHANGED available
     \/ /\ FdOf(f) \notin hungUp /\ Job[f].kind = "io"
        /\ available' = [available EXCEPT ![FdOf(f)] = @ \ {EventOf(f)}]
  /\ Return(f, IF Job[f].kind = "connect" /\ FdOf(f) \in hungUp THEN "refused" ELSE "ok")
  /\ UNCHANGED <<tableVars, epollVars, open, hungUp, entity, timer, callback, flag, report,
                 aborted>>

TryFails(f) ==
  /\ At(f, "try") /\ FdOf(f) \notin open
  /\ Return(f, "badf")
  /\ UNCHANGED <<eventVars, entity, timer, callback, flag, report, aborted>>

\* EAGAIN or EINPROGRESS.
TryBlocks(f) ==
  /\ At(f, "try")
  /\ FdOf(f) \in open /\ EventOf(f) \notin available[FdOf(f)]
  /\ Goto(f, IF f \in Timed THEN "timer" ELSE "add")
  /\ UNCHANGED <<eventVars, entity, result, timer, callback, flag, report, aborted>>

AddTimer(f) ==
  /\ At(f, "timer")
  /\ timer' = [timer EXCEPT ![f] = "set"]
  /\ Goto(f, IF Sleeps(f) THEN "hold" ELSE "add")
  /\ UNCHANGED <<eventVars, entity, result, callback, flag, report, aborted>>

WaitForEvent(f) ==
  /\ At(f, "add")
  /\ AddEvent(FdOf(f), EventOf(f), f)
  /\ Goto(f, "hold")
  /\ UNCHANGED <<entity, result, timer, callback, flag, report, aborted>>

AddEventFails(f) ==
  /\ At(f, "add") /\ AddFails(FdOf(f), EventOf(f))
  /\ Goto(f, "undo")
  /\ UNCHANGED <<eventVars, entity, result, timer, callback, flag, report, aborted>>

AddEventAborts(f) ==
  /\ At(f, "add") /\ AddAborts(FdOf(f), EventOf(f))
  /\ aborted' = "assertion"
  /\ UNCHANGED <<eventVars, entity, callVars, report>>

\* Mutant of Hold: the fiber goes on without having been scheduled.
HoldNot(f) ==
  /\ At(f, "hold")
  /\ Goto(f, "cancel")
  /\ UNCHANGED <<eventVars, entity, result, timer, callback, flag, report, aborted>>

\* YieldToHold()
Hold(f) ==
  /\ At(f, "hold")
  /\ Goto(f, "held")
  /\ UNCHANGED <<eventVars, entity, result, timer, callback, flag, report, aborted>>

Resume(f) ==
  /\ At(f, "held") /\ woken[f] > 0 /\ CoreFree
  /\ woken' = [woken EXCEPT ![f] = @ - 1]
  /\ IF Sleeps(f) THEN Return(f, "ok") ELSE Goto(f, "cancel") /\ UNCHANGED result
  /\ UNCHANGED <<registered, waiter, pending, epollVars, kernelVars, entity, timer, callback,
                 flag, report, aborted>>

\* cancelTimer(): a timer that has expired is in the set no more.
CancelTimer(f) ==
  IF timer[f] = "expired"
  THEN aborted' = "erase" /\ UNCHANGED timer
  ELSE timer' = [timer EXCEPT ![f] = "off"] /\ UNCHANGED aborted

\* Mutant of AfterHold: the timer is left to expire.
AfterHoldKeeping(f) ==
  /\ At(f, "cancel")
  /\ Goto(f, "check")
  /\ UNCHANGED <<eventVars, entity, result, timer, callback, flag, report, aborted>>

AfterHold(f) ==
  /\ At(f, "cancel")
  /\ CancelTimer(f)
  /\ Goto(f, "check")
  /\ UNCHANGED <<eventVars, entity, result, callback, flag, report>>

\* Woken by the timer, or try again; connect() asks for the result instead.
Check(f) ==
  /\ At(f, "check")
  /\ IF flag[f] THEN Return(f, "timeout")
     ELSE Goto(f, IF Job[f].kind = "connect" THEN "sockopt" ELSE "try") /\ UNCHANGED result
  /\ UNCHANGED <<eventVars, entity, timer, callback, flag, report, aborted>>

\* After addEvent() failed: do_io() returns -1, connect() asks for the result.
Undo(f) ==
  /\ At(f, "undo")
  /\ CancelTimer(f)
  /\ IF Job[f].kind = "connect" THEN Goto(f, "sockopt") /\ UNCHANGED result
     ELSE Return(f, "again")
  /\ UNCHANGED <<eventVars, entity, callback, flag, report>>

\* getsockopt(SO_ERROR): 0 also while the connection is in progress.
AskResult(f) ==
  /\ At(f, "sockopt")
  /\ Return(f, IF FdOf(f) \notin open THEN "badf"
               ELSE IF FdOf(f) \in hungUp THEN "refused" ELSE "ok")
  /\ UNCHANGED <<eventVars, entity, timer, callback, flag, report, aborted>>

-----------------------------------------------------------------------------
(* The timer and its callback                                              *)

Expire(f) ==
  /\ timer[f] = "set"
  /\ timer' = [timer EXCEPT ![f] = "expired"]
  /\ callback' = [callback EXCEPT ![f] = "queued"]
  /\ UNCHANGED <<eventVars, entity, pc, result, flag, report, aborted>>

\* The callback does nothing if the call has returned.
CallbackBegin(f) ==
  /\ callback[f] = "queued" /\ CoreFree /\ ~Sleeps(f)
  /\ callback' = [callback EXCEPT ![f] = IF At(f, "done") THEN "off" ELSE "flag"]
  /\ UNCHANGED <<eventVars, entity, pc, result, timer, flag, report, aborted>>

\* The callback of a sleeping fiber schedules it.
SleepOver(f) ==
  /\ callback[f] = "queued" /\ CoreFree /\ Sleeps(f)
  /\ callback' = [callback EXCEPT ![f] = "off"]
  /\ Schedule({f})
  /\ UNCHANGED <<registered, waiter, pending, epollVars, kernelVars, entity, pc, result,
                 timer, flag, report, aborted>>

CallbackFlag(f) ==
  /\ callback[f] = "flag"
  /\ flag' = [flag EXCEPT ![f] = TRUE]
  /\ callback' = [callback EXCEPT ![f] = "settle"]
  /\ UNCHANGED <<eventVars, entity, pc, result, timer, report, aborted>>

CallbackSettle(f) ==
  /\ callback[f] = "settle"
  /\ IF RemoveFails(FdOf(f), EventOf(f)) THEN UNCHANGED eventVars
     ELSE SettleEvent(FdOf(f), EventOf(f))
  /\ callback' = [callback EXCEPT ![f] = "off"]
  /\ UNCHANGED <<entity, pc, result, timer, flag, report, aborted>>

-----------------------------------------------------------------------------
(* close()                                                                 *)

\* Mutant of CloseSettle: the events are left as they are.
CloseUnsettled(f) ==
  /\ At(f, "settle")
  /\ Goto(f, "forget")
  /\ UNCHANGED <<eventVars, entity, result, timer, callback, flag, report, aborted>>

CloseSettle(f) ==
  /\ At(f, "settle")
  /\ IF SettleAllFails(FdOf(f)) THEN UNCHANGED eventVars ELSE SettleAllEvents(FdOf(f))
  /\ Goto(f, "forget")
  /\ UNCHANGED <<entity, result, timer, callback, flag, report, aborted>>

CloseForget(f) ==
  /\ At(f, "forget")
  /\ entity' = entity \ {FdOf(f)}
  /\ Goto(f, "close")
  /\ UNCHANGED <<eventVars, result, timer, callback, flag, report, aborted>>

\* The kernel removes a closed descriptor from the epoll instance.
CloseDescriptor(f) ==
  /\ At(f, "close")
  /\ IF FdOf(f) \in open
     THEN /\ open' = open \ {FdOf(f)}
          /\ hungUp' = hungUp \ {FdOf(f)}
          /\ available' = [available EXCEPT ![FdOf(f)] = {}]
          /\ Unwatch(FdOf(f))
          /\ Return(f, "ok")
     ELSE UNCHANGED <<kernelVars, epollVars>> /\ Return(f, "badf")
  /\ UNCHANGED <<tableVars, entity, timer, callback, flag, report, aborted>>

-----------------------------------------------------------------------------
(* idle()                                                                  *)

EpollWait(p, fd) ==
  /\ report[p] = NoReport /\ CoreFree
  /\ TakeReport(fd)
  /\ report' = [report EXCEPT ![p] =
                  IF Report(fd).events = {} /\ ~Report(fd).hup THEN NoReport ELSE Report(fd)]
  /\ UNCHANGED <<entity, callVars, aborted>>

HandleReport(p) ==
  /\ report[p] # NoReport
  /\ IF HandleAborts(report[p]) THEN aborted' = "assertion" /\ UNCHANGED eventVars
     ELSE /\ UNCHANGED aborted
          /\ IF HandleSkips(report[p]) THEN UNCHANGED eventVars ELSE Handle(report[p])
  /\ report' = [report EXCEPT ![p] = NoReport]
  /\ UNCHANGED <<entity, callVars>>

-----------------------------------------------------------------------------
(* The peers                                                               *)

PeerArrives(fd, e) ==
  /\ Arrive(fd, e)
  /\ UNCHANGED <<entity, callVars, report, aborted>>

PeerHangsUp(fd) ==
  /\ Hangups /\ HangUp(fd)
  /\ UNCHANGED <<entity, callVars, report, aborted>>

-----------------------------------------------------------------------------
FiberStep(f) ==
  \/ Begin(f) \/ TrySucceeds(f) \/ TryFails(f) \/ TryBlocks(f) \/ AddTimer(f)
  \/ WaitForEvent(f) \/ AddEventFails(f) \/ AddEventAborts(f) \/ Hold(f) \/ Resume(f)
  \/ AfterHold(f) \/ Check(f) \/ Undo(f) \/ AskResult(f)
  \/ CloseSettle(f) \/ CloseForget(f) \/ CloseDescriptor(f)

TimerStep(f) == CallbackBegin(f) \/ SleepOver(f) \/ CallbackFlag(f) \/ CallbackSettle(f)

PollerStep(p) == HandleReport(p) \/ \E fd \in Fds : EpollWait(p, fd)

PeerStep ==
  \/ \E fd \in Fds, e \in Events : PeerArrives(fd, e)
  \/ \E fd \in Fds : PeerHangsUp(fd)

Alive == aborted = "no"

Next ==
  /\ Alive
  /\ \/ \E f \in Fibers : FiberStep(f) \/ TimerStep(f) \/ Expire(f)
     \/ \E p \in Pollers : PollerStep(p)
     \/ PeerStep

Spec == Init /\ [][Next]_vars

\* Threads keep running, and who asks for one gets it again and again.
Fairness ==
  /\ \A f \in Fibers : SF_vars(Alive /\ FiberStep(f)) /\ SF_vars(Alive /\ TimerStep(f))
  /\ \A fd \in Fds : SF_vars(Alive /\ \E p \in Pollers : EpollWait(p, fd))
  /\ \A p \in Pollers : SF_vars(Alive /\ HandleReport(p))

FairSpec == Spec /\ Fairness

-----------------------------------------------------------------------------
(* Properties *)

TypeOK ==
  /\ TableTypeOK
  /\ entity \subseteq Fds
  /\ pc \in [Fibers -> FiberPc]
  /\ result \in [Fibers -> {"none", "ok", "again", "badf", "refused", "timeout"}]
  /\ timer \in [Fibers -> {"off", "set", "expired"}]
  /\ callback \in [Fibers -> {"off", "queued", "flag", "settle"}]
  /\ flag \in [Fibers -> BOOLEAN]
  /\ report \in [Pollers -> [fd : Fds, events : SUBSET Events, hup : BOOLEAN] \cup {NoReport}]
  /\ aborted \in {"no", "assertion", "erase"}

Waiting(f) == ~Sleeps(f) /\ pc[f] \in {"hold", "held"} /\ woken[f] = 0

\* A fiber that waits is the one its event will schedule: the table does not forget
\* it. It is scheduled once, by the event, the timer or close(), and never while it
\* does anything else (iomanager.cpp:8-25, hook.cpp:78-128, 330-348).
WokenOnce ==
  \A f \in Fibers :
    /\ Waiting(f) => EventOf(f) \in registered[FdOf(f)] /\ waiter[FdOf(f)][EventOf(f)] = f
    /\ woken[f] > 0 => woken[f] = 1 /\ pc[f] \in {"hold", "held"}

\* An event that is there is never slept over: the kernel has its descriptor on
\* the ready list, or a poller has it in hand.
NoMissedEvent ==
  \A f \in Fibers : Waiting(f) /\ EventOf(f) \in available[FdOf(f)] =>
    FdOf(f) \in listed \/ \E p \in Pollers :
      report[p].fd = FdOf(f) /\ (EventOf(f) \in report[p].events \/ report[p].hup)

\* Nothing outlives its user: close() leaves no event behind, and a call returns only
\* with its timer out of the way (hook.cpp:124-128, 470-494).
NothingLeft ==
  /\ \A fd \in Fds \ open : registered[fd] = {}
  /\ \A f \in Fibers : At(f, "done") => timer[f] # "set"

\* No assertion fails: nothing is added twice or triggered unregistered.
AssertionsHold == aborted # "assertion"

\* connect() reports success only for a connection.
ConnectHonest ==
  \A f \in Fibers : Job[f].kind = "connect" /\ result[f] = "ok" =>
    EventOf(f) \in available[FdOf(f)] \/ FdOf(f) \notin open

\* A fiber that waits for an event that is there is resumed.
Resumed ==
  \A f \in Fibers :
    At(f, "held") /\ EventOf(f) \in available[FdOf(f)] ~> ~At(f, "held") \/ ~Alive

-----------------------------------------------------------------------------
(* The inductive invariant for any number of cores                         *)

\* Where the call of a fiber may be, and which calls have a timer.
PlacesInv ==
  \A f \in Fibers :
    /\ Job[f].kind = "close" =>
         /\ pc[f] \in {"start", "settle", "forget", "close", "done"}
         /\ timer[f] = "off" /\ callback[f] = "off"
    /\ Job[f].kind = "sleep" => pc[f] \in {"start", "timer", "hold", "held", "done"}
    /\ Job[f].kind \in {"io", "connect"} => pc[f] \notin {"settle", "forget", "close"}
    /\ timer[f] = "set" => pc[f] \in {"add", "hold", "held", "undo", "cancel"}

\* Each registered event has a fiber that waits for it.
RegisteredWait ==
  \A fd \in Fds : \A e \in registered[fd] :
    LET f == waiter[fd][e]
    IN f \in Fibers /\ Waiting(f) /\ FdOf(f) = fd /\ EventOf(f) = e

\* The timer of a sleeping fiber schedules it once.
SleepInv ==
  \A f \in Fibers : Sleeps(f) =>
    /\ callback[f] \in {"off", "queued"}
    /\ pc[f] \in {"start", "timer"} => timer[f] = "off" /\ callback[f] = "off"
    /\ timer[f] = "set" \/ callback[f] = "queued" => pc[f] \in {"hold", "held"} /\ woken[f] = 0
    /\ timer[f] = "set" => callback[f] = "off"

\* A descriptor that is closed is gone from the kernel.
KernelInv ==
  /\ listed \subseteq watched /\ watched \subseteq open /\ hungUp \subseteq open
  /\ \A fd \in Fds \ open : available[fd] = {}
  /\ \A fd \in hungUp : available[fd] = Events

HookInv ==
  TypeOK /\ TableInv /\ PlacesInv /\ RegisteredWait /\ WokenOnce /\ SleepInv /\ KernelInv

-----------------------------------------------------------------------------
(* The inductive invariants for one core                                   *)

\* Whoever has begun goes on until it leaves.
OneActs ==
  /\ \A f, g \in FibersRunning : f = g
  /\ \A f, g \in CallbacksRunning : f = g
  /\ \A p, q \in PollersBusy : p = q
  /\ FibersRunning # {} => CallbacksRunning = {} /\ PollersBusy = {}
  /\ CallbacksRunning # {} => PollersBusy = {}

\* What a poller was told is still so when it handles it.
ReportsHold ==
  \A p \in PollersBusy :
    LET r == report[p]
    IN r.fd \in Fds /\ r.events \subseteq registered[r.fd] \cap available[r.fd] /\ (r.hup => r.fd \in hungUp)

\* A fiber that closes a descriptor has settled its events, and closes it next.
CloseInv ==
  /\ \A fd \in Fds \ open : registered[fd] = {}
  /\ \A f \in Fibers : pc[f] \in {"forget", "close"} => registered[FdOf(f)] = {}
  /\ \A fd \in open \ entity : \E f \in Fibers : At(f, "close") /\ FdOf(f) = fd

OneCoreInv == OneActs /\ ReportsHold /\ CloseInv

\* No two fibers wait for the same event of a descriptor.
WaitsApart ==
  \A f, g \in Fibers :
    /\ FdOf(f) = FdOf(g) /\ EventOf(f) = EventOf(g)
    /\ {Job[f].kind, Job[g].kind} \subseteq {"io", "connect"}
    => f = g

\* Only close() is called on the descriptor that connect() works on.
ConnectsAlone ==
  \A f, g \in Fibers :
    Job[f].kind = "connect" /\ f # g /\ FdOf(f) = FdOf(g) => Job[g].kind \in {"close", "sleep"}

\* A fiber in connect() that was scheduled, not by its timer, is connected or its
\* descriptor is closed before it goes on; the first time it waits, nothing is left
\* in epoll that would make addEvent() fail.
ConnectInv ==
  \A f \in Fibers : Job[f].kind = "connect" =>
    LET closing == \E g \in Fibers : pc[g] \in {"forget", "close"} /\ FdOf(g) = FdOf(f)
        answered == EventOf(f) \in available[FdOf(f)] \/ FdOf(f) \notin open
    IN /\ callback[f] = "settle" => flag[f]
       /\ pc[f] \in {"start", "try", "timer", "add"} => FdOf(f) \notin watched
       /\ woken[f] > 0 \/ pc[f] \in {"cancel", "check"} => flag[f] \/ answered \/ closing
       /\ pc[f] \in {"undo", "sockopt"} => answered
=============================================================================

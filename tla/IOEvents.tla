------------------------------- MODULE IOEvents -------------------------------
(***************************************************************************)
(* The calls of IOManager on its table of descriptor events, made by       *)
(* several threads at once (src/src/concurrent/iomanager.cpp): addEvent()  *)
(* that lets the table grow first, deleteEvent(), settleEvent() and        *)
(* settleAllEvents(), which look a descriptor up under the read lock and   *)
(* then work under the mutex of its entry.                                 *)
(*                                                                         *)
(* Descriptors are numbers here, and the table has the entries below size. *)
(* EventTable says what one section under the mutex of an entry does. Each *)
(* call schedules what waits through a task, a fiber of its own.           *)
(***************************************************************************)
EXTENDS EventTable

CONSTANTS
  Threads,
  InitialSize,   \* entries of the table at first; 32 in the constructor
  MaxCalls       \* bound: calls made by all threads together

ASSUME FdsAreNumbers == Fds \subseteq Nat
ASSUME SizeAssumption == InitialSize \in Nat /\ MaxCalls \in Nat
ASSUME ThreadsMayWait == Threads \subseteq Fibers

VARIABLES
  size,      \* m_file_descriptor_events.size()
  call,      \* the call each thread makes
  pc,        \* where each thread is in it
  calls      \* calls made so far

vars == <<eventVars, size, call, pc, calls>>

Names == {"add", "delete", "settle", "settleAll"}
Calls == [name : Names, fd : Fds, event : Events]
NoCall == [name |-> "none"]

Init ==
  /\ TableInit
  /\ size = InitialSize
  /\ call = [t \in Threads |-> NoCall]
  /\ pc = [t \in Threads |-> "ready"]
  /\ calls = 0

FdOf(t) == call[t].fd
At(t, label) == pc[t] = label
Goto(t, label) == pc' = [pc EXCEPT ![t] = label]

Return(t) == Goto(t, "ready") /\ call' = [call EXCEPT ![t] = NoCall]

\* A thread makes a call. addEvent() compares the size without the lock, and a
\* fiber never adds an event twice.
CallBegin(t, c) ==
  /\ At(t, "ready") /\ calls < MaxCalls
  /\ c.name = "add" =>
       /\ c.event \notin registered[c.fd]
       /\ ~\E u \in Threads : call[u] # NoCall /\ FdOf(u) = c.fd /\ call[u].event = c.event
  /\ call' = [call EXCEPT ![t] = c]
  /\ calls' = calls + 1
  /\ Goto(t, IF c.name = "add" /\ size <= c.fd THEN "resize" ELSE "lookup")
  /\ UNCHANGED <<eventVars, size>>

\* Mutant of NewSize: what is needed, without the half on top.
NewSizeTight(fd) == fd

\* The entries the table is resized to: 1.5 times the descriptor, cut off.
NewSize(fd) == (fd * 3) \div 2

Resize(t) ==
  /\ At(t, "resize")
  /\ size' = NewSize(FdOf(t))
  /\ Goto(t, "lookup")
  /\ UNCHANGED <<eventVars, call, calls>>

\* m_file_descriptor_events[file_descriptor]: addEvent() does not test the size
\* again, the others return when there is no entry.
Lookup(t) ==
  /\ At(t, "lookup")
  /\ IF FdOf(t) < size \/ call[t].name = "add" THEN Goto(t, "section") /\ UNCHANGED call
     ELSE Return(t)
  /\ UNCHANGED <<eventVars, size, calls>>

AddSection(t) ==
  /\ At(t, "section") /\ call[t].name = "add"
  /\ ~AddAborts(FdOf(t), call[t].event)
  /\ IF AddFails(FdOf(t), call[t].event) THEN UNCHANGED eventVars
     ELSE AddEvent(FdOf(t), call[t].event, t)
  /\ Return(t)
  /\ UNCHANGED <<size, calls>>

RemoveSection(t) ==
  /\ At(t, "section") /\ call[t].name \in {"delete", "settle"}
  /\ IF RemoveFails(FdOf(t), call[t].event) THEN UNCHANGED eventVars
     ELSE IF call[t].name = "delete" THEN DeleteEvent(FdOf(t), call[t].event)
     ELSE SettleEvent(FdOf(t), call[t].event)
  /\ Return(t)
  /\ UNCHANGED <<size, calls>>

SettleAllSection(t) ==
  /\ At(t, "section") /\ call[t].name = "settleAll"
  /\ IF SettleAllFails(FdOf(t)) THEN UNCHANGED eventVars ELSE SettleAllEvents(FdOf(t))
  /\ Return(t)
  /\ UNCHANGED <<size, calls>>

\* A descriptor nothing is registered for is closed, and its number used again.
Reopen(fd) ==
  /\ fd \in watched /\ registered[fd] = {}
  /\ Unwatch(fd)
  /\ UNCHANGED <<tableVars, kernelVars, size, call, pc, calls>>

ThreadStep(t) ==
  \/ \E c \in Calls : CallBegin(t, c)
  \/ Resize(t) \/ Lookup(t) \/ AddSection(t) \/ RemoveSection(t) \/ SettleAllSection(t)

Next ==
  \/ \E t \in Threads : ThreadStep(t)
  \/ \E fd \in Fds : Reopen(fd)

Spec == Init /\ [][Next]_vars

-----------------------------------------------------------------------------
(* Properties *)

TypeOK ==
  /\ TableTypeOK
  /\ size \in Nat /\ calls \in 0 .. MaxCalls
  /\ call \in [Threads -> Calls \cup {NoCall}]
  /\ pc \in [Threads -> {"ready", "resize", "lookup", "section"}]

\* Whatever the table is resized to, it keeps the entry of a descriptor that a thread
\* works on, that has an event registered, or that epoll watches and will hand back a
\* pointer to (iomanager.cpp:95-110, 567-581).
EntriesKept ==
  \A fd \in Fds :
    \/ registered[fd] # {} \/ fd \in watched
    \/ \E t \in Threads : At(t, "section") /\ FdOf(t) = fd
    => fd < size

-----------------------------------------------------------------------------
(* The inductive invariants                                                *)

CallsInv ==
  /\ TypeOK /\ TableInv
  /\ \A t \in Threads : At(t, "ready") <=> call[t] = NoCall

OneThread == \A t, u \in Threads : t = u

\* Every size the table is given has room for every descriptor: with 32 entries
\* at first, for those below 48.
RoomForAll == \A f, g \in Fds : InitialSize <= g => f < NewSize(g)

\* A thread that resizes was short of entries, and still is when it is the only one;
\* an event is added where there is an entry.
EntriesInv ==
  /\ InitialSize <= size /\ EntriesKept
  /\ \A t \in Threads :
       /\ At(t, "resize") => InitialSize <= FdOf(t) /\ (OneThread => size <= FdOf(t))
       /\ At(t, "lookup") /\ call[t].name = "add" => FdOf(t) < size
=============================================================================

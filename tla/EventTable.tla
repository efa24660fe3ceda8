----------------------------- MODULE EventTable -----------------------------
(***************************************************************************)
(* The descriptor events of IOManager (src/src/concurrent/iomanager.cpp)   *)
(* against the epoll instance of the kernel: what addEvent(), deleteEvent()*)
(* settleEvent(), settleAllEvents() and idle() do inside the critical      *)
(* section of one FileDescriptorEvent. Each operator below is one section. *)
(*                                                                         *)
(* epoll is edge triggered: a descriptor is put on the kernel's ready list *)
(* when an event it is watched for becomes available, or when epoll_ctl()  *)
(* finds one available; epoll_wait() takes it off the list and reports     *)
(* what is available and watched at that time.                             *)
(***************************************************************************)
EXTENDS Integers, FiniteSets

CONSTANTS
  Fds,        \* descriptors
  Fibers,     \* fibers that may wait for an event
  None        \* no fiber

Events == {"READ", "WRITE"}

ASSUME NoneIsNoFiber == None \notin Fibers

VARIABLES
  registered,   \* m_registered_event_types of each descriptor
  waiter,       \* m_read_task.m_fiber and m_write_task.m_fiber
  pending,      \* m_pending_event_count
  woken,        \* how often each fiber was scheduled and has not run since
  open,         \* kernel: open descriptors
  watched,      \* kernel: descriptors in the epoll instance
  interest,     \* kernel: the events each is watched for
  available,    \* kernel: the events that would not block
  hungUp,       \* kernel: descriptors with EPOLLERR or EPOLLHUP
  listed        \* kernel: descriptors on the ready list

tableVars == <<registered, waiter, pending, woken>>
epollVars == <<watched, interest, listed>>
kernelVars == <<open, available, hungUp>>
eventVars == <<tableVars, epollVars, kernelVars>>

TableInit ==
  /\ registered = [fd \in Fds |-> {}]
  /\ waiter = [fd \in Fds |-> [e \in Events |-> None]]
  /\ pending = 0
  /\ woken = [f \in Fibers |-> 0]
  /\ open = Fds /\ watched = {} /\ hungUp = {} /\ listed = {}
  /\ interest = [fd \in Fds |-> {}]
  /\ available = [fd \in Fds |-> {}]

-----------------------------------------------------------------------------
(* The kernel                                                              *)

\* epoll_ctl() fails: EBADF, EEXIST, ENOENT.
CtlFails(fd, code) ==
  \/ fd \notin open
  \/ code = "ADD" /\ fd \in watched
  \/ code # "ADD" /\ fd \notin watched

\* EPOLL_CTL_ADD and EPOLL_CTL_MOD: whatever is available is reported anew.
Watch(fd, events) ==
  /\ watched' = watched \cup {fd}
  /\ interest' = [interest EXCEPT ![fd] = events]
  /\ listed' = IF events \cap available[fd] # {} \/ fd \in hungUp
               THEN listed \cup {fd} ELSE listed

\* EPOLL_CTL_DEL, and what close() does to a watched descriptor.
Unwatch(fd) ==
  /\ watched' = watched \ {fd}
  /\ interest' = [interest EXCEPT ![fd] = {}]
  /\ listed' = listed \ {fd}

\* Data, space or a connection arrives.
Arrive(fd, e) ==
  /\ fd \in open /\ e \notin available[fd]
  /\ available' = [available EXCEPT ![fd] = @ \cup {e}]
  /\ listed' = IF fd \in watched /\ e \in interest[fd] THEN listed \cup {fd} ELSE listed
  /\ UNCHANGED <<tableVars, watched, interest, open, hungUp>>

\* The peer hangs up or the connection fails: reported whatever is watched.
HangUp(fd) ==
  /\ fd \in open \ hungUp
  /\ hungUp' = hungUp \cup {fd}
  /\ available' = [available EXCEPT ![fd] = Events]
  /\ listed' = IF fd \in watched THEN listed \cup {fd} ELSE listed
  /\ UNCHANGED <<tableVars, watched, interest, open>>

\* What epoll_wait() reports of a listed descriptor.
Report(fd) == [fd |-> fd, events |-> available[fd] \cap interest[fd], hup |-> fd \in hungUp]

TakeReport(fd) ==
  /\ fd \in listed
  /\ listed' = listed \ {fd}
  /\ UNCHANGED <<tableVars, watched, interest, kernelVars>>

-----------------------------------------------------------------------------
(* addEvent()                                                              *)

AddCode(fd) == IF registered[fd] = {} THEN "ADD" ELSE "MOD"

\* Mutant of AddAborts: a second fiber may wait for the event.
AddUnasserted(fd, e) == FALSE

\* The assertion that the event is not registered.
AddAborts(fd, e) == e \in registered[fd]

AddFails(fd, e) == ~AddAborts(fd, e) /\ CtlFails(fd, AddCode(fd))

\* Mutant of AddEvent: epoll is told of the events registered before.
AddUnwatched(fd, e, f) ==
  /\ ~AddAborts(fd, e) /\ ~AddFails(fd, e)
  /\ Watch(fd, registered[fd])
  /\ pending' = pending + 1
  /\ registered' = [registered EXCEPT ![fd] = @ \cup {e}]
  /\ waiter' = [waiter EXCEPT ![fd][e] = f]
  /\ UNCHANGED <<woken, kernelVars>>

\* The fiber f will be scheduled by event e.
AddEvent(fd, e, f) ==
  /\ ~AddAborts(fd, e) /\ ~AddFails(fd, e)
  /\ Watch(fd, registered[fd] \cup {e})
  /\ pending' = pending + 1
  /\ registered' = [registered EXCEPT ![fd] = @ \cup {e}]
  /\ waiter' = [waiter EXCEPT ![fd][e] = f]
  /\ UNCHANGED <<woken, kernelVars>>

-----------------------------------------------------------------------------
(* deleteEvent(), settleEvent(), settleAllEvents()                         *)

\* Both test m_registered_event_types before they remove the event from it, so
\* the code is EPOLL_CTL_MOD even for the last one.
RemoveCode(fd) == IF registered[fd] # {} THEN "MOD" ELSE "DEL"

\* Mutant of RemoveFails: the event is not looked for.
RemoveUntested(fd, e) == CtlFails(fd, RemoveCode(fd))

RemoveFails(fd, e) == e \notin registered[fd] \/ CtlFails(fd, RemoveCode(fd))

Schedule(fibers) == woken' = [f \in Fibers |-> IF f \in fibers THEN woken[f] + 1 ELSE woken[f]]

DeleteEvent(fd, e) ==
  /\ ~RemoveFails(fd, e)
  /\ Watch(fd, registered[fd] \ {e})
  /\ pending' = pending - 1
  /\ registered' = [registered EXCEPT ![fd] = @ \ {e}]
  /\ waiter' = [waiter EXCEPT ![fd][e] = None]
  /\ UNCHANGED <<woken, kernelVars>>

\* Mutant of SettleEvent: the event stays registered.
SettleKeeping(fd, e) ==
  /\ ~RemoveFails(fd, e)
  /\ Watch(fd, registered[fd] \ {e})
  /\ Schedule({waiter[fd][e]})
  /\ pending' = pending - 1
  /\ UNCHANGED <<registered, waiter, kernelVars>>

SettleEvent(fd, e) ==
  /\ ~RemoveFails(fd, e)
  /\ Watch(fd, registered[fd] \ {e})
  /\ registered' = [registered EXCEPT ![fd] = @ \ {e}]
  /\ Schedule({waiter[fd][e]})
  /\ pending' = pending - 1
  /\ UNCHANGED <<waiter, kernelVars>>

SettleAllFails(fd) == registered[fd] = {} \/ CtlFails(fd, "DEL")

SettleAllEvents(fd) ==
  /\ ~SettleAllFails(fd)
  /\ Unwatch(fd)
  /\ registered' = [registered EXCEPT ![fd] = {}]
  /\ Schedule({waiter[fd][e] : e \in registered[fd]})
  /\ pending' = pending - Cardinality(registered[fd])
  /\ UNCHANGED <<waiter, kernelVars>>

-----------------------------------------------------------------------------
(* idle(): one report of epoll_wait()                                      *)

\* Mutant of RealEvents: a descriptor that hung up counts as ready for everything.
RealEventsUnmasked(r) == r.events \cup (IF r.hup THEN Events ELSE {})

\* real_events; a descriptor that hung up counts as ready for what is registered.
RealEvents(r) == r.events \cup (IF r.hup THEN registered[r.fd] ELSE {})

LeftEvents(r) == registered[r.fd] \ RealEvents(r)

HandleCode(r) == IF LeftEvents(r) # {} THEN "MOD" ELSE "DEL"

\* Nothing that was reported is registered, or epoll_ctl() fails.
HandleSkips(r) ==
  \/ registered[r.fd] \cap RealEvents(r) = {}
  \/ CtlFails(r.fd, HandleCode(r))

\* Every reported event is triggered, registered or not: triggerEvent() asserts
\* that it is.
HandleAborts(r) == ~HandleSkips(r) /\ ~(RealEvents(r) \subseteq registered[r.fd])

\* Mutant of Handle: the events that are left are forgotten.
HandleForgetting(r) ==
  /\ ~HandleSkips(r) /\ ~HandleAborts(r)
  /\ IF LeftEvents(r) # {} THEN Watch(r.fd, LeftEvents(r)) ELSE Unwatch(r.fd)
  /\ registered' = [registered EXCEPT ![r.fd] = {}]
  /\ Schedule({waiter[r.fd][e] : e \in RealEvents(r)})
  /\ pending' = pending - Cardinality(RealEvents(r))
  /\ UNCHANGED <<waiter, kernelVars>>

Handle(r) ==
  /\ ~HandleSkips(r) /\ ~HandleAborts(r)
  /\ IF LeftEvents(r) # {} THEN Watch(r.fd, LeftEvents(r)) ELSE Unwatch(r.fd)
  /\ registered' = [registered EXCEPT ![r.fd] = LeftEvents(r)]
  /\ Schedule({waiter[r.fd][e] : e \in RealEvents(r)})
  /\ pending' = pending - Cardinality(RealEvents(r))
  /\ UNCHANGED <<waiter, kernelVars>>

-----------------------------------------------------------------------------
(* Properties *)

TableTypeOK ==
  /\ registered \in [Fds -> SUBSET Events]
  /\ waiter \in [Fds -> [Events -> Fibers \cup {None}]]
  /\ pending \in Nat
  /\ woken \in [Fibers -> Nat]
  /\ open \subseteq Fds /\ watched \subseteq Fds
  /\ hungUp \subseteq Fds /\ listed \subseteq Fds
  /\ interest \in [Fds -> SUBSET Events]
  /\ available \in [Fds -> SUBSET Events]

\* The registered events.
Registrations == {r \in Fds \X Events : r[2] \in registered[r[1]]}

\* m_pending_event_count is the number of registered events: with a count too
\* high stop() never returns, with one too low it returns too early.
PendingExact == pending = Cardinality(Registrations)

\* The kernel watches an open descriptor for exactly what is registered; one that a
\* removal has left in epoll is watched for nothing (iomanager.cpp:140-152, 207-224,
\* 268-281, 528-545).
InterestAgrees ==
  \A fd \in open : interest[fd] = registered[fd] /\ (registered[fd] # {} => fd \in watched)

-----------------------------------------------------------------------------
(* What every section keeps: the inductive invariant of the table          *)

TableInv == TableTypeOK /\ IsFiniteSet(Registrations) /\ PendingExact /\ InterestAgrees
=============================================================================

--------------------------- MODULE EventTableProofs ---------------------------
(* What every section of EventTable does to the table and to the epoll     *)
(* instance, for any descriptors and fibers: it keeps TableInv. The modules *)
(* that run these sections, IOEvents and HookIO, cite one lemma for each.  *)
EXTENDS EventTable, FiniteSetTheorems, TLAPS

-----------------------------------------------------------------------------
(* The number of registered events                                         *)

\* A set of events has at most two members.
LEMMA EventSets ==
  ASSUME NEW S \in SUBSET Events
  PROVE  \/ S = {} /\ Cardinality(S) = 0
         \/ \E e \in S : S = {e} /\ Cardinality(S) = 1
         \/ S = {"READ", "WRITE"} /\ Cardinality(S) = 2
<1>1. CASE S = {}
  BY <1>1, FS_EmptySet
<1>2. CASE \E e \in S : S = {e}
  BY <1>2, FS_Singleton
<1>3. CASE S = {"READ", "WRITE"}
  <2>1. IsFiniteSet({"READ"}) /\ Cardinality({"READ"}) = 1
    BY FS_Singleton
  <2>2. S = {"READ"} \cup {"WRITE"} /\ "WRITE" \notin {"READ"}
    BY <1>3
  <2>3. Cardinality({"READ"} \cup {"WRITE"}) = 1 + 1
    BY <2>1, <2>2, FS_AddElement
  <2>4. QED
    BY <1>3, <2>2, <2>3
<1>4. QED
  BY <1>1, <1>2, <1>3 DEF Events

\* Registering an event that was not registered adds one.
LEMMA CountAdded ==
  ASSUME TableInv, NEW fd \in Fds, NEW e \in Events, e \notin registered[fd],
         registered' = [registered EXCEPT ![fd] = @ \cup {e}],
         pending' = pending + 1
  PROVE  IsFiniteSet(Registrations)' /\ PendingExact' /\ pending' \in Nat
<1>1. Registrations' = Registrations \cup {<<fd, e>>} /\ <<fd, e>> \notin Registrations
  BY DEF TableInv, TableTypeOK, Registrations
<1>2. /\ IsFiniteSet(Registrations')
      /\ Cardinality(Registrations') = Cardinality(Registrations) + 1
  BY <1>1, FS_AddElement DEF TableInv
<1>3. QED
  BY <1>2 DEF TableInv, TableTypeOK, PendingExact

\* Removing some of the registered events of a descriptor takes off their number.
LEMMA CountRemoved ==
  ASSUME TableInv, NEW fd \in Fds, NEW S \in SUBSET registered[fd],
         registered' = [registered EXCEPT ![fd] = @ \ S],
         pending' = pending - Cardinality(S)
  PROVE  IsFiniteSet(Registrations)' /\ PendingExact' /\ pending' \in Nat
<1> DEFINE R == Registrations
<1>1. S \in SUBSET Events /\ IsFiniteSet(R)
  BY DEF TableInv, TableTypeOK
<1>2. \A e \in S : <<fd, e>> \in R
  BY <1>1 DEF Registrations
<1>3. R' = {x \in R : ~\E e \in S : x = <<fd, e>>}
  BY <1>1 DEF TableInv, TableTypeOK, Registrations
<1>4. IsFiniteSet(R') /\ Cardinality(R') = Cardinality(R) - Cardinality(S)
  <2>1. CASE S = {} /\ Cardinality(S) = 0
    <3>1. R' = R
      BY <2>1, <1>3
    <3>2. Cardinality(R) \in Nat
      BY <1>1, FS_CardinalityType
    <3>3. QED
      BY <2>1, <3>1, <3>2, <1>1
  <2>2. ASSUME NEW e \in S, S = {e}, Cardinality(S) = 1
        PROVE  IsFiniteSet(R') /\ Cardinality(R') = Cardinality(R) - Cardinality(S)
    <3>1. R' = R \ {<<fd, e>>} /\ <<fd, e>> \in R
      BY <2>2, <1>2, <1>3
    <3>2. QED
      BY <3>1, <2>2, <1>1, FS_RemoveElement
  <2>3. CASE S = {"READ", "WRITE"} /\ Cardinality(S) = 2
    <3> DEFINE T == R \ {<<fd, "READ">>}
    <3>1. R' = T \ {<<fd, "WRITE">>} /\ <<fd, "READ">> \in R /\ <<fd, "WRITE">> \in T
      BY <2>3, <1>2, <1>3
    <3>2. IsFiniteSet(T) /\ Cardinality(T) = Cardinality(R) - 1
      BY <3>1, <1>1, FS_RemoveElement
    <3>3. IsFiniteSet(R') /\ Cardinality(R') = Cardinality(T) - 1
      BY <3>1, <3>2, FS_RemoveElement
    <3>4. Cardinality(R) \in Nat
      BY <1>1, FS_CardinalityType
    <3>5. QED
      BY <2>3, <3>2, <3>3, <3>4
  <2>4. QED
    BY <1>1, <2>1, <2>2, <2>3, EventSets
<1>5. Cardinality(R') \in Nat
  BY <1>4, FS_CardinalityType
<1>6. QED
  BY <1>4, <1>5 DEF TableInv, PendingExact

\* A section that leaves the registrations and their count alone.
LEMMA CountKept ==
  ASSUME TableInv, UNCHANGED <<registered, pending>>
  PROVE  IsFiniteSet(Registrations)' /\ PendingExact' /\ pending' \in Nat
BY DEF TableInv, TableTypeOK, PendingExact, Registrations

-----------------------------------------------------------------------------
(* The sections                                                            *)

LEMMA TableInvInit == TableInit => TableInv
<1> SUFFICES ASSUME TableInit PROVE TableInv
  OBVIOUS
<1>1. Registrations = {}
  BY DEF TableInit, Registrations
<1>2. TableTypeOK /\ InterestAgrees
  BY DEF TableInit, TableTypeOK, InterestAgrees
<1>3. QED
  BY <1>1, <1>2, FS_EmptySet DEF TableInit, TableInv, PendingExact

\* addEvent()
LEMMA AddKeepsTable ==
  ASSUME TableInv, NEW fd \in Fds, NEW e \in Events, NEW f \in Fibers, AddEvent(fd, e, f)
  PROVE  TableInv'
<1> USE DEF AddEvent
<1>1. /\ e \notin registered[fd]
      /\ registered' = [registered EXCEPT ![fd] = @ \cup {e}]
      /\ pending' = pending + 1
  BY DEF AddAborts
<1>2. IsFiniteSet(Registrations)' /\ PendingExact' /\ pending' \in Nat
  BY <1>1, CountAdded
<1>3. TableTypeOK'
  BY <1>2 DEF TableInv, TableTypeOK, Watch, kernelVars
<1>4. InterestAgrees'
  BY DEF TableInv, TableTypeOK, InterestAgrees, Watch, kernelVars
<1>5. QED
  BY <1>2, <1>3, <1>4 DEF TableInv

\* deleteEvent()
LEMMA DeleteKeepsTable ==
  ASSUME TableInv, NEW fd \in Fds, NEW e \in Events, DeleteEvent(fd, e)
  PROVE  TableInv'
<1> USE DEF DeleteEvent
<1>1. /\ {e} \in SUBSET registered[fd] /\ Cardinality({e}) = 1
      /\ registered' = [registered EXCEPT ![fd] = @ \ {e}]
      /\ pending' = pending - 1
  BY FS_Singleton DEF RemoveFails
<1>2. IsFiniteSet(Registrations)' /\ PendingExact' /\ pending' \in Nat
  BY <1>1, CountRemoved
<1>3. TableTypeOK'
  BY <1>2 DEF TableInv, TableTypeOK, Watch, kernelVars
<1>4. InterestAgrees'
  BY DEF TableInv, TableTypeOK, InterestAgrees, Watch, kernelVars
<1>5. QED
  BY <1>2, <1>3, <1>4 DEF TableInv

\* settleEvent()
LEMMA SettleKeepsTable ==
  ASSUME TableInv, NEW fd \in Fds, NEW e \in Events, SettleEvent(fd, e)
  PROVE  TableInv'
<1> USE DEF SettleEvent
<1>1. /\ {e} \in SUBSET registered[fd] /\ Cardinality({e}) = 1
      /\ registered' = [registered EXCEPT ![fd] = @ \ {e}]
      /\ pending' = pending - 1
  BY FS_Singleton DEF RemoveFails
<1>2. IsFiniteSet(Registrations)' /\ PendingExact' /\ pending' \in Nat
  BY <1>1, CountRemoved
<1>3. TableTypeOK'
  BY <1>2 DEF TableInv, TableTypeOK, Watch, Schedule, kernelVars
<1>4. InterestAgrees'
  BY DEF TableInv, TableTypeOK, InterestAgrees, Watch, kernelVars
<1>5. QED
  BY <1>2, <1>3, <1>4 DEF TableInv

\* settleAllEvents()
LEMMA SettleAllKeepsTable ==
  ASSUME TableInv, NEW fd \in Fds, SettleAllEvents(fd)
  PROVE  TableInv'
<1> USE DEF SettleAllEvents
<1> DEFINE S == registered[fd]
<1>1. /\ S \in SUBSET registered[fd]
      /\ registered' = [registered EXCEPT ![fd] = @ \ S]
      /\ pending' = pending - Cardinality(S)
  BY DEF TableInv, TableTypeOK
<1>2. IsFiniteSet(Registrations)' /\ PendingExact' /\ pending' \in Nat
  BY <1>1, CountRemoved
<1>3. TableTypeOK'
  BY <1>2 DEF TableInv, TableTypeOK, Unwatch, Schedule, kernelVars
<1>4. InterestAgrees'
  BY DEF TableInv, TableTypeOK, InterestAgrees, Unwatch, kernelVars
<1>5. QED
  BY <1>2, <1>3, <1>4 DEF TableInv

\* idle(): the handling of one report
LEMMA HandleKeepsTable ==
  ASSUME TableInv, NEW r, r.fd \in Fds, Handle(r)
  PROVE  TableInv'
<1> USE DEF Handle
<1> DEFINE S == RealEvents(r)
<1>1. /\ S \in SUBSET registered[r.fd]
      /\ registered' = [registered EXCEPT ![r.fd] = @ \ S]
      /\ pending' = pending - Cardinality(S)
  BY DEF HandleAborts, LeftEvents
<1>2. IsFiniteSet(Registrations)' /\ PendingExact' /\ pending' \in Nat
  <2> HIDE DEF S
  <2>1. QED
    BY <1>1, CountRemoved
<1>3. LeftEvents(r) \subseteq Events /\ registered[r.fd] \subseteq Events
  BY DEF LeftEvents, TableInv, TableTypeOK
<1>4. /\ watched' \in SUBSET Fds /\ listed' \in SUBSET Fds
      /\ interest' = [interest EXCEPT ![r.fd] = LeftEvents(r)]
      /\ \A fd \in Fds \ {r.fd} : fd \in watched' <=> fd \in watched
      /\ LeftEvents(r) # {} => r.fd \in watched'
  BY DEF Watch, Unwatch, TableInv, TableTypeOK
<1>5. TableTypeOK'
  BY <1>2, <1>3, <1>4 DEF TableInv, TableTypeOK, Schedule, kernelVars
<1>6. InterestAgrees'
  BY <1>4 DEF TableInv, TableTypeOK, InterestAgrees, kernelVars
<1>7. QED
  BY <1>2, <1>5, <1>6 DEF TableInv

\* What the kernel does by itself, and epoll_wait().
LEMMA KernelKeepsTable ==
  ASSUME TableInv, NEW fd \in Fds,
         (\E e \in Events : Arrive(fd, e)) \/ HangUp(fd) \/ TakeReport(fd)
  PROVE  TableInv'
<1>1. UNCHANGED <<tableVars, watched, interest, open>>
  BY DEF Arrive, HangUp, TakeReport, kernelVars
<1>2. IsFiniteSet(Registrations)' /\ PendingExact' /\ pending' \in Nat
  BY <1>1, CountKept DEF tableVars
<1>3. /\ listed' \in SUBSET Fds /\ hungUp' \in SUBSET Fds
      /\ available' \in [Fds -> SUBSET Events]
  BY DEF Arrive, HangUp, TakeReport, TableInv, TableTypeOK, kernelVars
<1>4. TableTypeOK' /\ InterestAgrees'
  BY <1>1, <1>2, <1>3 DEF TableInv, TableTypeOK, InterestAgrees, tableVars
<1>5. QED
  BY <1>2, <1>4 DEF TableInv
=============================================================================

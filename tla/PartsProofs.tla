------------------------------ MODULE PartsProofs ------------------------------
(* Proofs about the two tables that are indexed by descriptors, for any    *)
(* threads and descriptors: the events of the IO manager (IOEvents) and    *)
(* the entities of the file descriptor manager (Descriptors, as Files).    *)
(* The byte arrays (SocketStream, as Stream) have proofs of their own.      *)
EXTENDS MCParts, EventTableProofs

-----------------------------------------------------------------------------
(* IOEvents: the count of pending events and what epoll is told            *)

LEMMA CallsInit == Init => CallsInv
<1> SUFFICES ASSUME Init PROVE CallsInv
  OBVIOUS
<1>1. TableInv
  BY TableInvInit DEF Init
<1>2. TypeOK
  BY <1>1, SizeAssumption DEF Init, TypeOK, TableInv
<1>3. QED
  BY <1>1, <1>2 DEF Init, CallsInv, At

\* What a section does to the table, it does to an entry of Fds for an event.
LEMMA SectionKeepsTable ==
  ASSUME CallsInv, NEW t \in Threads, AddSection(t) \/ RemoveSection(t) \/ SettleAllSection(t)
  PROVE  TableInv'
<1>1. FdOf(t) \in Fds /\ call[t].event \in Events /\ TableInv /\ t \in Fibers
  BY ThreadsMayWait DEF CallsInv, TypeOK, AddSection, RemoveSection, SettleAllSection, At, FdOf,
     Calls, NoCall
<1>2. CASE UNCHANGED eventVars
  BY <1>1, <1>2, CountKept DEF TableInv, TableTypeOK, InterestAgrees, eventVars, tableVars, epollVars,
     kernelVars
<1>3. ASSUME AddEvent(FdOf(t), call[t].event, t) PROVE TableInv'
  BY <1>1, <1>3, AddKeepsTable
<1>4. ASSUME DeleteEvent(FdOf(t), call[t].event) PROVE TableInv'
  BY <1>1, <1>4, DeleteKeepsTable
<1>5. ASSUME SettleEvent(FdOf(t), call[t].event) PROVE TableInv'
  BY <1>1, <1>5, SettleKeepsTable
<1>6. ASSUME SettleAllEvents(FdOf(t)) PROVE TableInv'
  BY <1>1, <1>6, SettleAllKeepsTable
<1>7. QED
  BY <1>2, <1>3, <1>4, <1>5, <1>6 DEF AddSection, RemoveSection, SettleAllSection

\* Every step of the calls keeps the table, the types and the calls' shape.
LEMMA CallsStep == CallsInv /\ [Next]_vars => CallsInv'
<1> SUFFICES ASSUME CallsInv, [Next]_vars PROVE CallsInv'
  OBVIOUS
<1> USE DEF At, Goto, Return
<1>0. /\ TableTypeOK /\ TableInv /\ size \in Nat /\ calls \in 0 .. MaxCalls /\ MaxCalls \in Nat
      /\ call \in [Threads -> Calls \cup {NoCall}]
      /\ pc \in [Threads -> {"ready", "resize", "lookup", "section"}]
      /\ NoCall \notin Calls
      /\ \A t \in Threads : At(t, "ready") <=> call[t] = NoCall
  BY SizeAssumption DEF CallsInv, TypeOK, NoCall, Calls, Names
<1>1. ASSUME UNCHANGED eventVars PROVE TableInv'
  BY <1>0, <1>1, CountKept DEF TableInv, TableTypeOK, InterestAgrees, eventVars, tableVars,
     epollVars, kernelVars
<1>2. ASSUME NEW t \in Threads, NEW c \in Calls, CallBegin(t, c) PROVE CallsInv'
  BY <1>0, <1>1, <1>2 DEF CallsInv, TypeOK, TableInv, CallBegin
<1>3. ASSUME NEW t \in Threads, Resize(t) PROVE CallsInv'
  <2>1. FdOf(t) \in Nat
    BY <1>0, <1>3, FdsAreNumbers DEF Resize, FdOf, Calls
  <2>2. NewSize(FdOf(t)) \in Nat
    BY <2>1 DEF NewSize
  <2>3. QED
    BY <1>0, <1>1, <1>3, <2>2 DEF CallsInv, TypeOK, TableInv, Resize
<1>4. ASSUME NEW t \in Threads, Lookup(t) PROVE CallsInv'
  BY <1>0, <1>1, <1>4 DEF CallsInv, TypeOK, TableInv, Lookup
<1>5. ASSUME NEW t \in Threads, AddSection(t) \/ RemoveSection(t) \/ SettleAllSection(t)
      PROVE  CallsInv'
  <2>1. TableInv'
    BY <1>5, SectionKeepsTable
  <2>2. QED
    BY <1>0, <1>5, <2>1 DEF CallsInv, TypeOK, TableInv, AddSection, RemoveSection,
       SettleAllSection
<1>6. ASSUME NEW fd \in Fds, Reopen(fd) PROVE CallsInv'
  <2>1. IsFiniteSet(Registrations)' /\ PendingExact' /\ pending' \in Nat
    BY <1>0, <1>6, CountKept DEF Reopen, tableVars
  <2>2. TableTypeOK' /\ InterestAgrees'
    BY <1>0, <1>6, <2>1 DEF TableInv, TableTypeOK, InterestAgrees, Reopen, Unwatch, tableVars,
       kernelVars
  <2>3. QED
    BY <1>0, <1>6, <2>1, <2>2 DEF CallsInv, TypeOK, TableInv, Reopen
<1>7. CASE UNCHANGED vars
  BY <1>0, <1>1, <1>7 DEF CallsInv, TypeOK, TableInv, vars
<1>8. QED
  BY <1>2, <1>3, <1>4, <1>5, <1>6, <1>7 DEF Next, ThreadStep

\* The table keeps its invariant under any calls of any threads.
THEOREM CallsInvariant == Spec => []CallsInv
<1>1. QED
  BY CallsInit, CallsStep, PTL DEF Spec

\* m_pending_event_count is the number of registered events, whichever threads add,
\* delete, settle and settle all of them at once: the count stop() waits for.
THEOREM PendingIsExact == Spec => []PendingExact
<1>1. CallsInv => PendingExact
  BY DEF CallsInv, TableInv
<1>2. QED
  BY <1>1, CallsInvariant, PTL

\* The kernel watches every open descriptor for what is registered, whichever
\* threads call.
THEOREM InterestsAgree == Spec => []InterestAgrees
<1>1. CallsInv => InterestAgrees
  BY DEF CallsInv, TableInv
<1>2. QED
  BY <1>1, CallsInvariant, PTL

-----------------------------------------------------------------------------
(* IOEvents: the entries of the table                                      *)

\* A resize for a descriptor makes room for it, because 3n/2 exceeds n from 2 on.
LEMMA NewSizeExceeds ==
  ASSUME NEW n \in Nat, n > 1
  PROVE  NewSize(n) \in Nat /\ n < NewSize(n)
BY DEF NewSize

LEMMA EntriesInit == Init => EntriesInv
BY SizeAssumption DEF Init, TableInit, EntriesInv, EntriesKept, At

\* A section only registers and watches the descriptor it works on.
LEMMA SectionEntry ==
  ASSUME CallsInv, NEW t \in Threads, AddSection(t) \/ RemoveSection(t) \/ SettleAllSection(t)
  PROVE  \A fd \in Fds \ {FdOf(t)} :
           registered'[fd] = registered[fd] /\ (fd \in watched' <=> fd \in watched)
<1>1. registered \in [Fds -> SUBSET Events] /\ FdOf(t) \in Fds
  BY DEF CallsInv, TypeOK, TableTypeOK, AddSection, RemoveSection, SettleAllSection, At, FdOf,
     Calls, NoCall
<1>2. QED
  BY <1>1 DEF AddSection, RemoveSection, SettleAllSection, eventVars, tableVars, epollVars,
     AddEvent, DeleteEvent, SettleEvent, SettleAllEvents, Watch, Unwatch

\* No resize takes the entry of a descriptor in use away, when there is one thread
\* or when every new size has room for all descriptors.
LEMMA EntriesStep ==
  ASSUME InitialSize > 1, OneThread \/ RoomForAll
  PROVE  CallsInv /\ EntriesInv /\ [Next]_vars => EntriesInv'
<1> SUFFICES ASSUME CallsInv, EntriesInv, [Next]_vars PROVE EntriesInv'
  OBVIOUS
<1> USE DEF At, Goto, Return, FdOf
<1>0. /\ size \in Nat /\ InitialSize \in Nat /\ Fds \subseteq Nat
      /\ call \in [Threads -> Calls \cup {NoCall}]
      /\ pc \in [Threads -> {"ready", "resize", "lookup", "section"}]
      /\ registered \in [Fds -> SUBSET Events]
      /\ \A t \in Threads : ~At(t, "ready") => call[t] \in Calls /\ FdOf(t) \in Fds
  BY SizeAssumption, FdsAreNumbers DEF CallsInv, TypeOK, TableTypeOK, Calls
<1>1. ASSUME NEW t \in Threads, NEW c \in Calls, CallBegin(t, c) PROVE EntriesInv'
  <2>1. c.fd \in Nat
    BY <1>0 DEF Calls
  <2>2. UNCHANGED <<registered, watched, size>>
    BY <1>1 DEF CallBegin, eventVars, tableVars, epollVars
  <2>3. /\ \A u \in Threads \ {t} : pc'[u] = pc[u] /\ call'[u] = call[u]
        /\ call'[t] = c
        /\ pc'[t] = IF c.name = "add" /\ size <= c.fd THEN "resize" ELSE "lookup"
    BY <1>0, <1>1 DEF CallBegin
  <2>4. EntriesKept'
    BY <2>2, <2>3 DEF EntriesInv, EntriesKept
  <2>5. QED
    BY <1>0, <2>1, <2>2, <2>3, <2>4 DEF EntriesInv
<1>2. ASSUME NEW t \in Threads, Resize(t) PROVE EntriesInv'
  <2> DEFINE n == FdOf(t)
  <2>1. n \in Fds /\ n \in Nat /\ n > 1 /\ InitialSize <= n /\ (OneThread => size <= n)
    <3>1. n \in Fds /\ n \in Nat
      BY <1>0, <1>2 DEF Resize
    <3>2. InitialSize <= n /\ (OneThread => size <= n)
      BY <1>2 DEF Resize, EntriesInv
    <3>3. QED
      BY <1>0, <3>1, <3>2
  <2>2. size' = NewSize(n) /\ size' \in Nat /\ n < size'
    BY <2>1, <1>2, NewSizeExceeds DEF Resize
  <2>3. /\ UNCHANGED <<registered, watched, call>>
        /\ pc'[t] = "lookup" /\ \A u \in Threads \ {t} : pc'[u] = pc[u]
    BY <1>0, <1>2 DEF Resize, eventVars, tableVars, epollVars
  <2>4. CASE RoomForAll
    <3>1. \A fd \in Fds : fd < size'
      BY <2>1, <2>2, <2>4 DEF RoomForAll
    <3>2. \A u \in Threads : ~OneThread \/ u = t
      BY DEF OneThread
    <3>3. EntriesKept'
      BY <3>1 DEF EntriesKept
    <3>4. InitialSize <= size'
      BY <1>0, <2>1, <2>2
    <3>5. ASSUME NEW u \in Threads
          PROVE  /\ At(u, "resize")' => InitialSize <= FdOf(u)' /\ (OneThread => size' <= FdOf(u)')
                 /\ At(u, "lookup")' /\ call'[u].name = "add" => FdOf(u)' < size'
      <4>1. At(u, "resize")' => u # t /\ At(u, "resize")
        BY <2>3
      <4>2. At(u, "lookup")' => FdOf(u)' \in Fds
        BY <1>0, <2>1, <2>3
      <4>3. QED
        BY <2>3, <3>1, <3>2, <4>1, <4>2 DEF EntriesInv
    <3>6. QED
      BY <3>3, <3>4, <3>5 DEF EntriesInv
  <2>5. CASE OneThread
    <3>1. size < size' /\ \A u \in Threads : u = t
      BY <1>0, <2>1, <2>2, <2>5 DEF OneThread
    <3>2. \A fd \in Fds : fd < size => fd < size'
      BY <1>0, <2>2, <3>1
    <3>3. EntriesKept'
      BY <2>3, <3>1, <3>2 DEF EntriesInv, EntriesKept
    <3>4. QED
      BY <1>0, <2>1, <2>2, <2>3, <3>1, <3>3 DEF EntriesInv
  <2>6. QED
    BY <2>4, <2>5
<1>3. ASSUME NEW t \in Threads, Lookup(t) PROVE EntriesInv'
  <2>1. UNCHANGED <<registered, watched, size>>
    BY <1>3 DEF Lookup, eventVars, tableVars, epollVars
  <2>2. /\ \A u \in Threads \ {t} : pc'[u] = pc[u] /\ call'[u] = call[u]
        /\ \/ pc'[t] = "section" /\ call'[t] = call[t] /\ FdOf(t) < size
           \/ pc'[t] = "ready"
    BY <1>0, <1>3 DEF Lookup, EntriesInv
  <2>3. EntriesKept'
    BY <1>0, <2>1, <2>2 DEF EntriesInv, EntriesKept
  <2>4. QED
    BY <2>1, <2>2, <2>3 DEF EntriesInv
<1>4. ASSUME NEW t \in Threads, AddSection(t) \/ RemoveSection(t) \/ SettleAllSection(t)
      PROVE  EntriesInv'
  <2>1. At(t, "section") /\ FdOf(t) \in Fds /\ FdOf(t) < size
    BY <1>0, <1>4 DEF AddSection, RemoveSection, SettleAllSection, EntriesInv, EntriesKept
  <2>2. /\ size' = size /\ pc'[t] = "ready"
        /\ \A u \in Threads \ {t} : pc'[u] = pc[u] /\ call'[u] = call[u]
    BY <1>0, <1>4 DEF AddSection, RemoveSection, SettleAllSection
  <2>3. \A fd \in Fds \ {FdOf(t)} :
          registered'[fd] = registered[fd] /\ (fd \in watched' <=> fd \in watched)
    BY <1>4, SectionEntry
  <2>4. EntriesKept'
    BY <2>1, <2>2, <2>3 DEF EntriesInv, EntriesKept
  <2>5. QED
    BY <2>2, <2>4 DEF EntriesInv
<1>5. ASSUME NEW fd \in Fds, Reopen(fd) PROVE EntriesInv'
  BY <1>5 DEF EntriesInv, EntriesKept, Reopen, Unwatch, tableVars
<1>6. CASE UNCHANGED vars
  BY <1>6 DEF EntriesInv, EntriesKept, vars, eventVars, tableVars, epollVars
<1>7. QED
  BY <1>1, <1>2, <1>3, <1>4, <1>5, <1>6 DEF Next, ThreadStep

\* The table keeps the entry of every descriptor in use, when one thread calls, as in
\* the shipped configuration, or no descriptor is too large for the first resize.
THEOREM EntriesAreKept ==
  ASSUME InitialSize > 1, OneThread \/ RoomForAll
  PROVE  Spec => []EntriesKept
<1>1. Init => CallsInv /\ EntriesInv
  BY CallsInit, EntriesInit
<1>2. CallsInv /\ EntriesInv /\ [Next]_vars => (CallsInv /\ EntriesInv)'
  BY CallsStep, EntriesStep
<1>3. EntriesInv => EntriesKept
  BY DEF EntriesInv
<1>4. QED
  BY <1>1, <1>2, <1>3, PTL DEF Spec

-----------------------------------------------------------------------------
(* Descriptors: the entities                                               *)

\* A step of t on its descriptor fd: what the others have and do is not touched.
LEMMA OtherEntities ==
  ASSUME Files!EntitiesInv, Files!TypeOK', NEW t \in Threads, NEW fd \in Fds,
         owner[fd] \in {t, Closed}, fdPc[t] # "ready" => fdAt[t] = fd,
         \A u \in Threads \ {t} : fdPc'[u] = fdPc[u] /\ fdAt'[u] = fdAt[u],
         \A g \in Fds \ {fd} : /\ owner'[g] = owner[g] /\ isSocket'[g] = isSocket[g]
                               /\ wanted'[g] = wanted[g] /\ entity'[g] = entity[g],
         InitialSize <= entities', \A g \in Fds : g < entities => g < entities',
         fdPc'[t] # "ready" => fdAt'[t] = fd /\ Files!InCall(t)',
         entity'[fd] # Files!NoEntity => fd < entities',
         owner'[fd] = Closed => entity'[fd] = Files!NoEntity,
         Files!Settled(fd)' => entity'[fd] = Files!EntityOf(fd)'
  PROVE  Files!EntitiesInv'
<1>1. ASSUME NEW u \in Threads, fdPc'[u] # "ready" PROVE Files!InCall(u)'
  <2>1. CASE u = t
    BY <1>1, <2>1
  <2>2. CASE u # t
    <3>1. Files!InCall(u) /\ fdAt[u] # fd /\ ~Files!OneThread
      BY <1>1, <2>2, FdAssumption DEF Files!EntitiesInv, Files!InCall, Files!OneThread
    <3>2. QED
      BY <2>2, <3>1 DEF Files!InCall
  <2>3. QED
    BY <2>1, <2>2
<1>2. ASSUME NEW g \in Fds \ {fd}, Files!Settled(g)' PROVE entity'[g] = Files!EntityOf(g)'
  <2>1. owner[g] \in Threads
    BY <1>2 DEF Files!EntitiesInv, Files!TypeOK, Files!Settled
  <2>2. Files!Settled(g)
    BY <1>2, <2>1 DEF Files!Settled
  <2>3. QED
    BY <2>2 DEF Files!EntitiesInv, Files!EntityOf
<1>3. QED
  BY <1>1, <1>2 DEF Files!EntitiesInv

LEMMA FilesInit == Files!Init => Files!EntitiesInv /\ Files!BlockingInv
<1> SUFFICES ASSUME Files!Init PROVE Files!EntitiesInv /\ Files!BlockingInv
  OBVIOUS
<1>1. Files!TypeOK
  BY SizeAssumption, IoctlAssumption DEF Files!Init, Files!TypeOK, Files!Entities, Files!NoEntity, Files!Default
<1>2. QED
  BY <1>1, SizeAssumption DEF Files!Init, Files!EntitiesInv, Files!BlockingInv, Files!Settled

\* A number is opened: it has no entity yet, and no other thread is in a call on it.
LEMMA OpenKeepsEntities ==
  ASSUME Files!EntitiesInv, NEW t \in Threads, NEW fd \in Fds,
         Files!Socket(t, fd) \/ Files!OpenFile(t, fd)
  PROVE  Files!EntitiesInv'
<1> USE DEF Files!Goto
<1>1. /\ Files!TypeOK /\ fdPc[t] = "ready" /\ owner[fd] = Closed /\ entity[fd] = Files!NoEntity
      /\ entities' = entities /\ entity' = entity
      /\ owner' = [owner EXCEPT ![fd] = t]
      /\ wanted' = [wanted EXCEPT ![fd] = Files!Default]
      /\ fdAt' = [fdAt EXCEPT ![t] = fd]
      /\ \/ fdPc' = [fdPc EXCEPT ![t] = "get"] /\ isSocket' = [isSocket EXCEPT ![fd] = TRUE]
         \/ fdPc' = fdPc /\ isSocket' = [isSocket EXCEPT ![fd] = FALSE]
  BY DEF Files!EntitiesInv, Files!Socket, Files!OpenFile, Files!Opened
<1>2. Files!TypeOK'
  <2>1. fdCalls' \in 0 .. MaxFdCalls /\ blocking' \in [Fds -> BOOLEAN]
    <3>1. /\ fdCalls < MaxFdCalls /\ fdCalls' = fdCalls + 1
          /\ blocking' = [blocking EXCEPT ![fd] = TRUE]
      BY DEF Files!Socket, Files!OpenFile, Files!Opened, Files!Count
    <3>2. QED
      BY <1>1, <3>1, IoctlAssumption DEF Files!TypeOK
  <2>2. Files!Default \in [nonblock : BOOLEAN, timed : BOOLEAN]
    BY DEF Files!Default
  <2>3. QED
    BY <1>1, <2>1, <2>2 DEF Files!TypeOK
<1>3. fdPc'[t] # "ready" => fdAt'[t] = fd /\ Files!InCall(t)'
  BY <1>1, <1>2 DEF Files!TypeOK, Files!InCall, Files!Default
<1>4. Files!Settled(fd)' => entity'[fd] = Files!EntityOf(fd)'
  BY <1>1 DEF Files!TypeOK, Files!Settled, Files!EntityOf
<1>5. owner'[fd] # Closed
  BY <1>1, FdAssumption DEF Files!TypeOK
<1>6. InitialSize <= entities' /\ \A g \in Fds : g < entities => g < entities'
  BY <1>1 DEF Files!EntitiesInv
<1>7. QED
  BY <1>1, <1>2, <1>3, <1>4, <1>5, <1>6, OtherEntities, SMTT(30) DEF Files!TypeOK

\* getFile_descriptor() finds no entity left over from the owner before.
LEMMA GetKeepsEntities ==
  ASSUME Files!EntitiesInv, NEW t \in Threads, Files!Get(t)
  PROVE  Files!EntitiesInv'
<1> USE DEF Files!Goto, Files!Has
<1> DEFINE fd == fdAt[t]
<1>1. /\ Files!TypeOK /\ fdPc[t] = "get" /\ Files!InCall(t) /\ fd \in Fds
      /\ UNCHANGED <<entities, entity, owner, isSocket, blocking, wanted, fdAt, fdCalls>>
      /\ fdPc' = [fdPc EXCEPT ![t] = IF entities <= fd THEN "grow" ELSE "create"]
  BY DEF Files!EntitiesInv, Files!InCall, Files!Get, Files!kernelVars
<1>2. Files!TypeOK'
  BY <1>1 DEF Files!TypeOK
<1>3. entities \in Nat /\ InitialSize \in Nat /\ fd \in Nat /\ InitialSize <= entities
  BY <1>1, SizeAssumption, FdsAreNumbers DEF Files!TypeOK, Files!EntitiesInv
<1>4. Files!InCall(t)'
  BY <1>1, <1>3 DEF Files!TypeOK, Files!InCall
<1>5. Files!Settled(fd)' => FALSE
  BY <1>1 DEF Files!TypeOK, Files!InCall, Files!Settled
<1>6. owner[fd] = t /\ owner'[fd] # Closed /\ entity'[fd] = Files!NoEntity
  BY <1>1, FdAssumption DEF Files!InCall
<1> HIDE DEF fd
<1>7. \A u \in Threads \ {t} : fdPc'[u] = fdPc[u] /\ fdAt'[u] = fdAt[u]
  BY <1>1 DEF Files!TypeOK
<1>8. QED
  BY <1>1, <1>2, <1>3, <1>4, <1>5, <1>6, <1>7, OtherEntities DEF fd

\* The table grows, or not, and the new entity is put in: no other entity is cut off.
LEMMA NewEntityKeepsEntities ==
  ASSUME OneThread \/ RoomForAll, Files!EntitiesInv, NEW t \in Threads,
         Files!Grow(t) \/ Files!Create(t)
  PROVE  Files!EntitiesInv'
<1> USE DEF Files!Goto
<1> DEFINE fd == fdAt[t]
<1>1. /\ Files!TypeOK /\ fdPc[t] \in {"grow", "create"} /\ Files!InCall(t) /\ fd \in Fds
      /\ UNCHANGED <<owner, isSocket, wanted, fdAt, fdCalls>>
      /\ fdPc' = [fdPc EXCEPT ![t] = "ready"]
      /\ isSocket[fd] /\ wanted[fd] = Files!Default
  BY DEF Files!EntitiesInv, Files!InCall, Files!Grow, Files!Create
<1>2. entities \in Nat /\ InitialSize \in Nat /\ fd \in Nat /\ Fds \subseteq Nat /\ InitialSize <= entities
  BY <1>1, SizeAssumption, FdsAreNumbers DEF Files!TypeOK, Files!EntitiesInv
<1>3. entities' \in Nat /\ InitialSize <= entities' /\ fd < entities' /\ \A g \in Fds : g < entities => g < entities'
  <2>1. CASE Files!Create(t)
    BY <1>1, <1>2, <2>1 DEF Files!Create, Files!InCall
  <2>2. CASE Files!Grow(t)
    <3>1. entities' = NewSize(fd) /\ InitialSize <= fd /\ (Files!OneThread => entities <= fd)
      BY <1>1, <1>2, <2>2 DEF Files!Grow, Files!InCall, NewSize
    <3>2. NewSize(fd) \in Nat /\ fd < NewSize(fd)
      BY <1>2, <3>1, FdAssumption, NewSizeExceeds
    <3>3. CASE OneThread
      <4>1. Files!OneThread
        BY <3>3 DEF OneThread, Files!OneThread
      <4>2. QED
        BY <1>2, <3>1, <3>2, <4>1
    <3>4. CASE RoomForAll
      BY <1>1, <1>2, <3>1, <3>2, <3>4 DEF RoomForAll
    <3>5. QED
      BY <3>3, <3>4
  <2>3. QED
    BY <2>1, <2>2
<1>4. /\ entity' = [g \in Fds |-> IF g = fd THEN Files!EntityOf(fd)
                                  ELSE IF g < entities' THEN entity[g] ELSE Files!NoEntity]
      /\ blocking' = [blocking EXCEPT ![fd] = @ /\ ~isSocket[fd]]
  BY <1>1 DEF Files!Grow, Files!Create, Files!NewEntity, Files!EntityOf, Files!Default
<1>5. \A g \in Fds \ {fd} : entity'[g] = entity[g]
  <2> SUFFICES ASSUME NEW g \in Fds \ {fd} PROVE entity'[g] = entity[g]
    OBVIOUS
  <2>1. entity[g] # Files!NoEntity => g < entities
    BY DEF Files!EntitiesInv
  <2>2. QED
    BY <1>3, <1>4, <2>1
<1>6. Files!TypeOK'
  <2>1. Files!EntityOf(fd) \in Files!Entities /\ Files!NoEntity \in Files!Entities
    BY <1>1 DEF Files!EntityOf, Files!Entities, Files!NoEntity, Files!TypeOK
  <2>2. entity' \in [Fds -> Files!Entities] /\ blocking' \in [Fds -> BOOLEAN]
    BY <1>1, <1>4, <2>1 DEF Files!TypeOK
  <2>3. QED
    BY <1>1, <1>3, <2>2 DEF Files!TypeOK
<1>7. entity'[fd] = Files!EntityOf(fd)'
  BY <1>1, <1>4 DEF Files!EntityOf
<1>8. owner[fd] = t /\ owner'[fd] # Closed /\ fdPc'[t] = "ready"
  BY <1>1, FdAssumption DEF Files!InCall, Files!TypeOK
<1> HIDE DEF fd
<1>9. \A u \in Threads \ {t} : fdPc'[u] = fdPc[u] /\ fdAt'[u] = fdAt[u]
  BY <1>1 DEF Files!TypeOK
<1>10. QED
  BY <1>1, <1>3, <1>5, <1>6, <1>7, <1>8, <1>9, OtherEntities DEF fd

\* What changing one field of an entity gives.
LEMMA UserSet ==
  ASSUME NEW e \in Files!Entities, NEW new \in Files!Entities, NEW x \in BOOLEAN,
         new.socket = e.socket, new.system = e.system, new.user = x, new.timed = e.timed
  PROVE  [e EXCEPT !.user = x] = new
BY DEF Files!Entities

LEMMA TimedSet ==
  ASSUME NEW e \in Files!Entities, NEW new \in Files!Entities,
         new.socket = e.socket, new.system = e.system, new.user = e.user, new.timed = TRUE
  PROVE  [e EXCEPT !.timed = TRUE] = new
BY DEF Files!Entities

\* A call on a descriptor of its own changes what its entity says as asked.
LEMMA SettingKeepsEntities ==
  ASSUME Files!EntitiesInv, NEW t \in Threads, NEW fd \in Fds,
         \/ \E nonblock \in BOOLEAN : Files!SetFlags(t, fd, nonblock)
         \/ \E nonblock \in Ioctls : Files!Ioctl(t, fd, nonblock)
         \/ Files!SetTimeout(t, fd)
  PROVE  Files!EntitiesInv'
<1>1. /\ Files!TypeOK /\ fdPc[t] = "ready" /\ owner[fd] = t
      /\ UNCHANGED <<entities, owner, isSocket, fdPc, fdAt>>
      /\ fdCalls < MaxFdCalls /\ fdCalls' = fdCalls + 1
  BY DEF Files!EntitiesInv, Files!SetFlags, Files!Ioctl, Files!SetTimeout, Files!Works, Files!Count, Files!kernelVars
<1>2. entity[fd] = Files!EntityOf(fd)
  BY <1>1, FdAssumption DEF Files!EntitiesInv, Files!Settled, Files!TypeOK
<1>3. Files!Has(fd) <=> isSocket[fd]
  BY <1>1, <1>2 DEF Files!Has, Files!EntitiesInv, Files!EntityOf, Files!NoEntity
<1>4. Files!Managed(fd) <=> isSocket[fd]
  BY <1>2, <1>3 DEF Files!Managed, Files!EntityOf
<1>5. /\ entity' = [entity EXCEPT ![fd] = Files!EntityOf(fd)']
      /\ blocking' \in [Fds -> BOOLEAN]
      /\ wanted' \in [Fds -> [nonblock : BOOLEAN, timed : BOOLEAN]]
      /\ \A g \in Fds \ {fd} : wanted'[g] = wanted[g]
  <2>1. ASSUME NEW nonblock \in BOOLEAN, wanted' = [wanted EXCEPT ![fd].nonblock = nonblock],
               entity' = IF Files!Managed(fd) THEN [entity EXCEPT ![fd].user = nonblock] ELSE entity
        PROVE  /\ entity' = [entity EXCEPT ![fd] = Files!EntityOf(fd)']
               /\ wanted' \in [Fds -> [nonblock : BOOLEAN, timed : BOOLEAN]]
               /\ \A g \in Fds \ {fd} : wanted'[g] = wanted[g]
    <3>1. wanted[fd] \in [nonblock : BOOLEAN, timed : BOOLEAN]
      BY <1>1 DEF Files!TypeOK
    <3>2. /\ wanted' \in [Fds -> [nonblock : BOOLEAN, timed : BOOLEAN]]
          /\ \A g \in Fds \ {fd} : wanted'[g] = wanted[g]
          /\ wanted'[fd].nonblock = nonblock /\ wanted'[fd].timed = wanted[fd].timed
      BY <1>1, <2>1, <3>1 DEF Files!TypeOK
    <3>3. CASE isSocket[fd]
      <4>1. [entity[fd] EXCEPT !.user = nonblock] = Files!EntityOf(fd)'
        <5>1. entity[fd] \in Files!Entities /\ Files!EntityOf(fd)' \in Files!Entities
          BY <1>1, <3>2, <3>3 DEF Files!TypeOK, Files!EntityOf, Files!Entities
        <5>2. /\ Files!EntityOf(fd)'.socket = entity[fd].socket
              /\ Files!EntityOf(fd)'.system = entity[fd].system
              /\ Files!EntityOf(fd)'.user = nonblock
              /\ Files!EntityOf(fd)'.timed = entity[fd].timed
          BY <1>1, <1>2, <3>2, <3>3 DEF Files!EntityOf
        <5>3. QED
          BY <5>1, <5>2, UserSet
      <4>2. QED
        BY <1>1, <1>4, <2>1, <3>2, <3>3, <4>1 DEF Files!TypeOK
    <3>4. CASE ~isSocket[fd]
      <4>1. entity' = entity /\ Files!EntityOf(fd)' = entity[fd]
        BY <1>1, <1>2, <1>4, <2>1, <3>4 DEF Files!EntityOf
      <4>2. QED
        BY <1>1, <3>2, <4>1 DEF Files!TypeOK
    <3>5. QED
      BY <3>3, <3>4
  <2>2. ASSUME isSocket[fd], wanted' = [wanted EXCEPT ![fd].timed = TRUE],
               entity' = IF Files!Has(fd) THEN [entity EXCEPT ![fd].timed = TRUE] ELSE entity
        PROVE  /\ entity' = [entity EXCEPT ![fd] = Files!EntityOf(fd)']
               /\ wanted' \in [Fds -> [nonblock : BOOLEAN, timed : BOOLEAN]]
               /\ \A g \in Fds \ {fd} : wanted'[g] = wanted[g]
    <3>1. wanted[fd] \in [nonblock : BOOLEAN, timed : BOOLEAN]
      BY <1>1 DEF Files!TypeOK
    <3>2. /\ wanted' \in [Fds -> [nonblock : BOOLEAN, timed : BOOLEAN]]
          /\ \A g \in Fds \ {fd} : wanted'[g] = wanted[g]
          /\ wanted'[fd].nonblock = wanted[fd].nonblock /\ wanted'[fd].timed = TRUE
      BY <1>1, <2>2, <3>1 DEF Files!TypeOK
    <3>3. [entity[fd] EXCEPT !.timed = TRUE] = Files!EntityOf(fd)'
      <4>1. entity[fd] \in Files!Entities /\ Files!EntityOf(fd)' \in Files!Entities
        BY <1>1, <2>2, <3>2 DEF Files!TypeOK, Files!EntityOf, Files!Entities
      <4>2. /\ Files!EntityOf(fd)'.socket = entity[fd].socket
            /\ Files!EntityOf(fd)'.system = entity[fd].system
            /\ Files!EntityOf(fd)'.user = entity[fd].user
            /\ Files!EntityOf(fd)'.timed = TRUE
        BY <1>1, <1>2, <2>2, <3>2 DEF Files!EntityOf
      <4>3. QED
        BY <4>1, <4>2, TimedSet
    <3>4. QED
      BY <1>1, <1>3, <2>2, <3>2, <3>3 DEF Files!TypeOK
  <2>3. blocking' \in [Fds -> BOOLEAN]
    BY <1>1, IoctlAssumption DEF Files!SetFlags, Files!Ioctl, Files!SetTimeout, Files!TypeOK, Files!kernelVars,
       Files!Entities
  <2>4. QED
    BY <2>1, <2>2, <2>3, IoctlAssumption DEF Files!SetFlags, Files!Ioctl, Files!SetTimeout
<1>6. Files!TypeOK'
  <2>1. Files!EntityOf(fd)' \in Files!Entities
    BY <1>1, <1>5 DEF Files!TypeOK, Files!EntityOf, Files!Entities, Files!NoEntity
  <2>2. entity' \in [Fds -> Files!Entities] /\ fdCalls' \in 0 .. MaxFdCalls
    BY <1>1, <1>5, <2>1, IoctlAssumption DEF Files!TypeOK
  <2>3. QED
    BY <1>1, <1>5, <2>2 DEF Files!TypeOK
<1>7. entity'[fd] = Files!EntityOf(fd)' /\ \A g \in Fds \ {fd} : entity'[g] = entity[g]
  BY <1>1, <1>5 DEF Files!TypeOK
<1>8. entity'[fd] # Files!NoEntity => fd < entities'
  <2>1. isSocket[fd] => fd < entities
    BY <1>3 DEF Files!Has
  <2>2. QED
    BY <1>1, <1>7, <2>1 DEF Files!EntityOf
<1>9. fdPc'[t] = "ready" /\ owner'[fd] # Closed
  BY <1>1, FdAssumption
<1>10. InitialSize <= entities' /\ \A g \in Fds : g < entities => g < entities'
  BY <1>1 DEF Files!EntitiesInv
<1>11. QED
  BY <1>1, <1>5, <1>6, <1>7, <1>8, <1>9, <1>10, OtherEntities

\* close() takes the entity out before the kernel may give the number away.
LEMMA CloseKeepsEntities ==
  ASSUME Files!EntitiesInv, NEW t \in Threads,
         \/ \E fd \in Fds : Files!CloseBegin(t, fd)
         \/ Files!Forget(t) \/ Files!CloseEnd(t)
  PROVE  Files!EntitiesInv'
<1> USE DEF Files!Goto
<1>0. Files!TypeOK /\ InitialSize <= entities
  BY DEF Files!EntitiesInv
<1>1. ASSUME NEW fd \in Fds, Files!CloseBegin(t, fd) PROVE Files!EntitiesInv'
  <2>1. /\ fdPc[t] = "ready" /\ owner[fd] = t
        /\ UNCHANGED <<entities, entity, owner, isSocket, blocking, wanted>>
        /\ fdAt' = [fdAt EXCEPT ![t] = fd]
        /\ fdPc' = [fdPc EXCEPT ![t] = IF Files!Has(fd) THEN "forget" ELSE "close"]
        /\ fdCalls < MaxFdCalls /\ fdCalls' = fdCalls + 1
    BY <1>1 DEF Files!CloseBegin, Files!Works, Files!Count, Files!kernelVars
  <2>2. Files!TypeOK'
    BY <1>0, <2>1, IoctlAssumption DEF Files!TypeOK
  <2>3. fdAt'[t] = fd /\ fdPc'[t] # "ready" /\ Files!InCall(t)'
    BY <1>0, <2>1 DEF Files!TypeOK, Files!InCall, Files!Has, Files!EntitiesInv
  <2>4. ~Files!Settled(fd)' /\ owner'[fd] # Closed
    BY <2>1, <2>3, FdAssumption DEF Files!Settled
  <2>5. entity[fd] # Files!NoEntity => fd < entities
    BY DEF Files!EntitiesInv
  <2>6. \A u \in Threads \ {t} : fdPc'[u] = fdPc[u] /\ fdAt'[u] = fdAt[u]
    BY <1>0, <2>1 DEF Files!TypeOK
  <2>7. QED
    BY <1>0, <2>1, <2>2, <2>3, <2>4, <2>5, <2>6, OtherEntities
<1>2. ASSUME Files!Forget(t) PROVE Files!EntitiesInv'
  <2> DEFINE fd == fdAt[t]
  <2>1. /\ fdPc[t] = "forget" /\ Files!InCall(t) /\ fd \in Fds /\ owner[fd] = t
        /\ UNCHANGED <<entities, owner, isSocket, blocking, wanted, fdAt, fdCalls>>
        /\ fdPc' = [fdPc EXCEPT ![t] = "close"]
    BY <1>2 DEF Files!EntitiesInv, Files!InCall, Files!Forget, Files!kernelVars
  <2>2. /\ entity' \in [Fds -> Files!Entities] /\ entity'[fd] = Files!NoEntity
        /\ \A g \in Fds \ {fd} : entity'[g] = entity[g]
    <3>1. Files!NoEntity \in Files!Entities
      BY DEF Files!NoEntity, Files!Entities
    <3>2. entity[fd] # Files!NoEntity => fd < entities
      BY <2>1 DEF Files!EntitiesInv
    <3>3. QED
      BY <1>0, <1>2, <2>1, <3>1, <3>2 DEF Files!TypeOK, Files!Forget
  <2>3. Files!TypeOK'
    BY <1>0, <2>1, <2>2 DEF Files!TypeOK
  <2>4. fdPc'[t] = "close" /\ Files!InCall(t)'
    BY <1>0, <2>1, <2>2 DEF Files!TypeOK, Files!InCall
  <2>5. ~Files!Settled(fd)' /\ owner'[fd] # Closed
    BY <2>1, <2>4, FdAssumption DEF Files!Settled
  <2> HIDE DEF fd
  <2>6. \A u \in Threads \ {t} : fdPc'[u] = fdPc[u] /\ fdAt'[u] = fdAt[u]
    BY <1>0, <2>1 DEF Files!TypeOK
  <2>7. QED
    BY <1>0, <2>1, <2>2, <2>3, <2>4, <2>5, <2>6, OtherEntities DEF fd
<1>3. ASSUME Files!CloseEnd(t) PROVE Files!EntitiesInv'
  <2> DEFINE fd == fdAt[t]
  <2>1. /\ fdPc[t] = "close" /\ fd \in Fds /\ owner[fd] = t /\ entity[fd] = Files!NoEntity
        /\ UNCHANGED <<entities, entity, isSocket, blocking, wanted, fdAt, fdCalls>>
        /\ owner' = [owner EXCEPT ![fd] = Closed]
        /\ fdPc' = [fdPc EXCEPT ![t] = "ready"]
    BY <1>3 DEF Files!EntitiesInv, Files!InCall, Files!CloseEnd
  <2>2. Files!TypeOK'
    BY <1>0, <2>1 DEF Files!TypeOK
  <2>3. owner'[fd] = Closed /\ fdPc'[t] = "ready" /\ ~Files!Settled(fd)'
    BY <1>0, <2>1 DEF Files!TypeOK, Files!Settled
  <2> HIDE DEF fd
  <2>4. /\ \A u \in Threads \ {t} : fdPc'[u] = fdPc[u] /\ fdAt'[u] = fdAt[u]
        /\ \A g \in Fds \ {fd} : owner'[g] = owner[g]
    BY <1>0, <2>1 DEF Files!TypeOK
  <2>5. QED
    BY <1>0, <2>1, <2>2, <2>3, <2>4, OtherEntities DEF fd
<1>4. QED
  BY <1>1, <1>2, <1>3

\* Every step keeps the table of entities.
LEMMA EntitiesStep ==
  ASSUME OneThread \/ RoomForAll
  PROVE  Files!EntitiesInv /\ [Files!Next]_(Files!vars) => Files!EntitiesInv'
<1> SUFFICES ASSUME Files!EntitiesInv, [Files!Next]_(Files!vars) PROVE Files!EntitiesInv'
  OBVIOUS
<1>1. CASE UNCHANGED Files!vars
  BY <1>1 DEF Files!EntitiesInv, Files!TypeOK, Files!InCall, Files!Settled, Files!EntityOf, Files!vars,
     Files!kernelVars, Files!callVars
<1>2. CASE Files!Next
  BY <1>2, OpenKeepsEntities, GetKeepsEntities, NewEntityKeepsEntities, SettingKeepsEntities,
     CloseKeepsEntities DEF Files!Next
<1>3. QED
  BY <1>1, <1>2

\* What the invariant says of the entity of a settled descriptor.
LEMMA SettledEntity ==
  ASSUME Files!EntitiesInv, NEW fd \in Fds, Files!Settled(fd)
  PROVE  /\ Files!Managed(fd) = isSocket[fd] /\ Files!Has(fd) = isSocket[fd]
         /\ isSocket[fd] => /\ entity[fd].system
                            /\ entity[fd].user = wanted[fd].nonblock
                            /\ entity[fd].timed = wanted[fd].timed
<1>1. /\ isSocket[fd] \in BOOLEAN /\ entity[fd] = Files!EntityOf(fd)
      /\ entity[fd] # Files!NoEntity => fd < entities
  BY DEF Files!EntitiesInv, Files!TypeOK
<1>2. CASE isSocket[fd]
  <2>1. /\ entity[fd].socket /\ entity[fd].system /\ ~Files!NoEntity.socket
        /\ entity[fd].user = wanted[fd].nonblock /\ entity[fd].timed = wanted[fd].timed
    BY <1>1, <1>2 DEF Files!EntityOf, Files!NoEntity
  <2>2. entity[fd] # Files!NoEntity
    BY <2>1
  <2>3. QED
    BY <1>1, <1>2, <2>1, <2>2 DEF Files!Managed, Files!Has
<1>3. CASE ~isSocket[fd]
  BY <1>1, <1>3 DEF Files!EntityOf, Files!Managed, Files!Has
<1>4. QED
  BY <1>1, <1>2, <1>3

-----------------------------------------------------------------------------
(* Descriptors: what blocks                                                *)

\* The constructor of an entity makes its socket non-blocking; fcntl() and, as it is
\* used, ioctl() leave it so.
LEMMA BlockingStep ==
  ASSUME Ioctls \subseteq {TRUE}
  PROVE  Files!EntitiesInv /\ Files!BlockingInv /\ [Files!Next]_(Files!vars) => Files!BlockingInv'
<1> SUFFICES ASSUME Files!EntitiesInv, Files!BlockingInv, [Files!Next]_(Files!vars),
                    NEW g \in Fds, Files!Settled(g)'
             PROVE  blocking'[g] = (~isSocket'[g] /\ ~wanted'[g].nonblock)
  BY DEF Files!BlockingInv
<1> DEFINE Kept == blocking'[g] = blocking[g] /\ isSocket'[g] = isSocket[g] /\ wanted'[g] = wanted[g]
<1> USE DEF Files!Goto
<1>0. Files!TypeOK
  BY DEF Files!EntitiesInv
<1>1. Files!Settled(g) => blocking[g] = (~isSocket[g] /\ ~wanted[g].nonblock)
  BY DEF Files!BlockingInv
<1>2. CASE UNCHANGED Files!vars
  BY <1>1, <1>2 DEF Files!Settled, Files!vars, Files!kernelVars, Files!callVars
<1>3. ASSUME NEW t \in Threads, NEW fd \in Fds, Files!Socket(t, fd) \/ Files!OpenFile(t, fd)
      PROVE  blocking'[g] = (~isSocket'[g] /\ ~wanted'[g].nonblock)
  <2>1. CASE g = fd
    <3>1. ~Files!Socket(t, fd)
      BY <1>0, <2>1 DEF Files!Settled, Files!Socket, Files!Opened, Files!TypeOK
    <3>2. blocking'[g] = TRUE /\ isSocket'[g] = FALSE /\ wanted'[g].nonblock = FALSE
      BY <1>0, <1>3, <2>1, <3>1 DEF Files!OpenFile, Files!Opened, Files!TypeOK, Files!Default
    <3>3. QED
      BY <3>2
  <2>2. CASE g # fd
    <3>1. Kept /\ Files!Settled(g)
      BY <1>0, <1>3, <2>2 DEF Files!Socket, Files!OpenFile, Files!Opened, Files!TypeOK, Files!Settled
    <3>2. QED
      BY <1>1, <3>1
  <2>3. QED
    BY <2>1, <2>2
<1>4. ASSUME NEW t \in Threads, Files!Grow(t) \/ Files!Create(t)
      PROVE  blocking'[g] = (~isSocket'[g] /\ ~wanted'[g].nonblock)
  <2>1. /\ isSocket' = isSocket /\ wanted' = wanted /\ isSocket[fdAt[t]]
        /\ blocking' = [blocking EXCEPT ![fdAt[t]] = @ /\ ~isSocket[fdAt[t]]]
    BY <1>4 DEF Files!Grow, Files!Create, Files!NewEntity, Files!EntitiesInv, Files!InCall
  <2>2. CASE g = fdAt[t]
    BY <1>0, <2>1, <2>2 DEF Files!TypeOK
  <2>3. CASE g # fdAt[t]
    <3>1. Kept /\ Files!Settled(g)
      BY <1>0, <1>4, <2>1, <2>3 DEF Files!Grow, Files!Create, Files!TypeOK, Files!Settled
    <3>2. QED
      BY <1>1, <3>1
  <2>4. QED
    BY <2>2, <2>3
<1>5. ASSUME NEW t \in Threads, NEW fd \in Fds, NEW nonblock \in BOOLEAN,
             Files!SetFlags(t, fd, nonblock) \/ (nonblock \in Ioctls /\ Files!Ioctl(t, fd, nonblock))
      PROVE  blocking'[g] = (~isSocket'[g] /\ ~wanted'[g].nonblock)
  <2>1. /\ Files!Settled(g) /\ Files!Settled(fd) /\ isSocket' = isSocket
        /\ wanted' = [wanted EXCEPT ![fd].nonblock = nonblock]
    BY <1>5, FdAssumption DEF Files!SetFlags, Files!Ioctl, Files!Works, Files!Settled, Files!kernelVars
  <2>2. Files!Managed(fd) = isSocket[fd] /\ (isSocket[fd] => entity[fd].system)
    BY <2>1, SettledEntity
  <2>3. isSocket[fd] \in BOOLEAN
    BY <1>0 DEF Files!TypeOK
  <2>4. CASE g = fd
    <3>1. wanted'[g].nonblock = nonblock
      BY <1>0, <2>1, <2>4 DEF Files!TypeOK
    <3>2. CASE Files!SetFlags(t, fd, nonblock)
      BY <1>0, <2>1, <2>2, <2>3, <2>4, <3>1, <3>2 DEF Files!SetFlags, Files!TypeOK
    <3>3. CASE nonblock \in Ioctls /\ Files!Ioctl(t, fd, nonblock)
      BY <1>0, <2>1, <2>4, <3>1, <3>3 DEF Files!Ioctl, Files!TypeOK
    <3>4. QED
      BY <1>5, <3>2, <3>3
  <2>5. CASE g # fd
    <3>1. Kept
      BY <1>0, <1>5, <2>1, <2>5 DEF Files!SetFlags, Files!Ioctl, Files!TypeOK
    <3>2. QED
      BY <1>1, <2>1, <3>1
  <2>6. QED
    BY <2>4, <2>5
<1>6. ASSUME NEW t \in Threads, NEW fd \in Fds, Files!SetTimeout(t, fd)
      PROVE  blocking'[g] = (~isSocket'[g] /\ ~wanted'[g].nonblock)
  <2>1. Files!Settled(g) /\ isSocket' = isSocket /\ blocking' = blocking
    BY <1>6 DEF Files!SetTimeout, Files!Settled, Files!kernelVars
  <2>2. wanted'[g].nonblock = wanted[g].nonblock
    BY <1>0, <1>6 DEF Files!SetTimeout, Files!TypeOK
  <2>3. QED
    BY <1>1, <2>1, <2>2
<1>7. ASSUME NEW t \in Threads,
             \/ Files!Get(t) \/ Files!Forget(t) \/ Files!CloseEnd(t)
             \/ \E fd \in Fds : Files!CloseBegin(t, fd)
      PROVE  blocking'[g] = (~isSocket'[g] /\ ~wanted'[g].nonblock)
  <2>1. blocking' = blocking /\ isSocket' = isSocket /\ wanted' = wanted
    BY <1>7 DEF Files!Get, Files!Forget, Files!CloseEnd, Files!CloseBegin, Files!kernelVars
  <2>2. Files!Settled(g)
    <3>1. CASE Files!CloseEnd(t)
      BY <1>0, <3>1, FdAssumption DEF Files!CloseEnd, Files!Settled, Files!TypeOK, Files!EntitiesInv, Files!InCall
    <3>2. CASE Files!Forget(t)
      BY <1>0, <3>2 DEF Files!Forget, Files!Settled, Files!TypeOK, Files!EntitiesInv, Files!InCall, Files!kernelVars
    <3>3. CASE \E fd \in Fds : Files!CloseBegin(t, fd)
      BY <1>0, <3>3 DEF Files!CloseBegin, Files!Works, Files!Settled, Files!TypeOK, Files!kernelVars
    <3>4. CASE Files!Get(t)
      <4>1. ~Files!Has(fdAt[t])
        BY <3>4 DEF Files!Get, Files!Has, Files!EntitiesInv, Files!InCall
      <4>2. QED
        BY <1>0, <3>4, <4>1 DEF Files!Get, Files!Settled, Files!TypeOK, Files!kernelVars
    <3>5. QED
      BY <1>7, <3>1, <3>2, <3>3, <3>4
  <2>3. QED
    BY <1>1, <2>1, <2>2
<1>8. QED
  BY <1>2, <1>3, <1>4, <1>5, <1>6, <1>7, IoctlAssumption DEF Files!Next

-----------------------------------------------------------------------------
(* Descriptors: the theorems                                               *)

\* An open socket has an entity and a file has none, whatever numbers threads open and
\* close at once: with one thread, or when no descriptor is too large for the first
\* resize of the table.
THEOREM EntitiesAlwaysFit ==
  ASSUME OneThread \/ RoomForAll
  PROVE  Files!Spec => []EntitiesFit
<1>1. Files!EntitiesInv => EntitiesFit
  BY SettledEntity DEF EntitiesFit, Files!EntitiesFit
<1>2. QED
  BY <1>1, FilesInit, EntitiesStep, PTL DEF Files!Spec

\* When ioctl(FIONBIO) is called as the project does, hooked calls never block the
\* thread in the kernel, and each owner of a number sees its own settings.
THEOREM SettingsAreKept ==
  ASSUME OneThread \/ RoomForAll, Ioctls \subseteq {TRUE}
  PROVE  Files!Spec => []SettingsKept
<1>1. Files!EntitiesInv /\ Files!BlockingInv => SettingsKept
  <2> SUFFICES ASSUME Files!EntitiesInv, Files!BlockingInv, NEW fd \in Fds, Files!Settled(fd)
               PROVE  /\ Files!SeenNonblock(fd) = wanted[fd].nonblock
                      /\ isSocket[fd] => ~blocking[fd] /\ entity[fd].timed = wanted[fd].timed
    BY DEF SettingsKept, Files!SettingsKept
  <2>1. /\ wanted[fd].nonblock \in BOOLEAN /\ isSocket[fd] \in BOOLEAN
        /\ blocking[fd] = (~isSocket[fd] /\ ~wanted[fd].nonblock)
    BY DEF Files!EntitiesInv, Files!BlockingInv, Files!TypeOK
  <2>2. QED
    BY <2>1, SettledEntity DEF Files!SeenNonblock
<1>2. QED
  BY <1>1, FilesInit, EntitiesStep, BlockingStep, PTL DEF Files!Spec
-----------------------------------------------------------------------------
(* SocketStream: the theorems of StreamProofs for the stream checked here  *)

\* What is written as a compressed integer is read back from where it was written,
\* whatever its width, the size of the blocks and the bytes that follow.
THEOREM NumbersAreReturned == Stream!Spec => []NumbersReturn
<1>1. Stream!Spec => []Stream!NumbersReturn
  BY StreamAssumption, Stream!NumbersAlwaysReturn
<1>2. QED
  BY <1>1, PTL DEF NumbersReturn

\* A call for a fixed number of bytes receives just those the peer has sent, in order,
\* as long as its errors do not make the count of missing bytes wrap around.
THEOREM FixedSizeIsExact ==
  ASSUME Stream!FewErrors
  PROVE  Stream!Spec => []FixedSizeExact
<1>1. Stream!Spec => []Stream!FixedSizeExact
  BY StreamAssumption, Stream!FixedSizeAlwaysExact
<1>2. QED
  BY <1>1, PTL DEF FixedSizeExact

\* The chain of blocks behaves as one sequence of bytes with a position, through every
\* operation and every round of a call.
THEOREM BufferIsImplemented == Stream!Spec => ImplementsBuffer
<1>1. Stream!Spec => Stream!ImplementsBuffer
  BY StreamAssumption, Stream!ArrayImplementsBuffer
<1>2. QED
  BY <1>1 DEF ImplementsBuffer
=============================================================================

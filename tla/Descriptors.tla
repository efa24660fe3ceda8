----------------------------- MODULE Descriptors -----------------------------
(***************************************************************************)
(* The table of FileDescriptorManager (src/src/tcp-ip/fdmanager.cpp) under *)
(* the hooked calls that use it (src/src/concurrent/hook.cpp): socket() and*)
(* accept() create the entity of a new descriptor, fcntl(), ioctl() and    *)
(* setsockopt() change it, close() removes it. The kernel gives a number   *)
(* away again once it is closed, to any thread.                            *)
(*                                                                         *)
(* A thread works on the descriptors it has opened. Only the table and the *)
(* numbers are shared: what it does to an entity of its own after looking  *)
(* it up is one step.                                                      *)
(***************************************************************************)
EXTENDS Integers

CONSTANTS
  Fds,           \* descriptor numbers
  Threads,       \* threads whose calls are hooked
  Closed,        \* no owner
  InitialSize,   \* entities of the table at first; 64 in the constructor
  Ioctls,        \* what ioctl(FIONBIO) is called with
  MaxCalls       \* bound: calls made by all threads together

VARIABLES
  size,       \* m_file_descriptor_entities.size()
  entity,     \* m_file_descriptor_entities
  owner,      \* kernel: the thread that has each descriptor
  isSocket,   \* kernel: it is a socket
  blocking,   \* kernel: O_NONBLOCK is not set
  wanted,     \* what its owner has asked for: history
  pc,         \* where each thread is in its call
  at,         \* the descriptor of that call
  calls       \* calls made so far

kernelVars == <<owner, isSocket, blocking>>
callVars == <<pc, at, calls>>
vars == <<size, entity, kernelVars, wanted, callVars>>

Entities == [socket : BOOLEAN, system : BOOLEAN, user : BOOLEAN, timed : BOOLEAN]
NoEntity == [socket |-> FALSE, system |-> FALSE, user |-> FALSE, timed |-> TRUE]
Default == [nonblock |-> FALSE, timed |-> FALSE]

Init ==
  /\ size = InitialSize
  /\ entity = [fd \in Fds |-> NoEntity]
  /\ owner = [fd \in Fds |-> Closed]
  /\ isSocket = [fd \in Fds |-> FALSE]
  /\ blocking = [fd \in Fds |-> TRUE]
  /\ wanted = [fd \in Fds |-> Default]
  /\ pc = [t \in Threads |-> "ready"]
  /\ at = [t \in Threads |-> 0]
  /\ calls = 0

Has(fd) == fd < size /\ entity[fd] # NoEntity
\* The hooks treat it as a socket.
Managed(fd) == Has(fd) /\ entity[fd].socket

Goto(t, label) == pc' = [pc EXCEPT ![t] = label]
Count == calls < MaxCalls /\ calls' = calls + 1

-----------------------------------------------------------------------------
(* socket(), accept() and what is not hooked                               *)

\* The kernel opens a descriptor.
Opened(t, fd, socket) ==
  /\ pc[t] = "ready" /\ owner[fd] = Closed /\ Count
  /\ owner' = [owner EXCEPT ![fd] = t]
  /\ isSocket' = [isSocket EXCEPT ![fd] = socket]
  /\ blocking' = [blocking EXCEPT ![fd] = TRUE]
  /\ wanted' = [wanted EXCEPT ![fd] = Default]
  /\ at' = [at EXCEPT ![t] = fd]
  /\ UNCHANGED <<size, entity>>

Socket(t, fd) == Opened(t, fd, TRUE) /\ Goto(t, "get")

\* open() is not hooked.
OpenFile(t, fd) == Opened(t, fd, FALSE) /\ UNCHANGED pc

\* getFile_descriptor(fd, true) under the read lock.
Get(t) ==
  /\ pc[t] = "get"
  /\ Goto(t, IF size <= at[t] THEN "grow" ELSE IF Has(at[t]) THEN "ready" ELSE "create")
  /\ UNCHANGED <<size, entity, kernelVars, wanted, at, calls>>

\* The constructor of FileDescriptorEntity, put into a table of the new size.
NewEntity(fd) ==
  /\ entity' = [g \in Fds |-> IF g = fd THEN [socket |-> isSocket[fd], system |-> isSocket[fd],
                                               user |-> FALSE, timed |-> FALSE]
                              ELSE IF g < size' THEN entity[g] ELSE NoEntity]
  /\ blocking' = [blocking EXCEPT ![fd] = @ /\ ~isSocket[fd]]

\* Under the write lock, without another test.
Grow(t) ==
  /\ pc[t] = "grow"
  /\ size' = (3 * at[t]) \div 2
  /\ NewEntity(at[t])
  /\ Goto(t, "ready")
  /\ UNCHANGED <<owner, isSocket, wanted, at, calls>>

Create(t) ==
  /\ pc[t] = "create"
  /\ UNCHANGED size
  /\ NewEntity(at[t])
  /\ Goto(t, "ready")
  /\ UNCHANGED <<owner, isSocket, wanted, at, calls>>

-----------------------------------------------------------------------------
(* Calls on an open descriptor                                             *)

Works(t, fd) == pc[t] = "ready" /\ owner[fd] = t /\ Count

\* Mutant of SetFlags: the flags are passed on as they are.
SetFlagsPlain(t, fd, nonblock) ==
  /\ Works(t, fd)
  /\ entity' = IF Managed(fd) THEN [entity EXCEPT ![fd].user = nonblock] ELSE entity
  /\ blocking' = [blocking EXCEPT ![fd] = ~nonblock]
  /\ wanted' = [wanted EXCEPT ![fd].nonblock = nonblock]
  /\ UNCHANGED <<size, owner, isSocket, pc, at>>

\* fcntl(F_SETFL)
SetFlags(t, fd, nonblock) ==
  /\ Works(t, fd)
  /\ entity' = IF Managed(fd) THEN [entity EXCEPT ![fd].user = nonblock] ELSE entity
  /\ blocking' = [blocking EXCEPT ![fd] =
                    ~(IF Managed(fd) THEN entity[fd].system ELSE nonblock)]
  /\ wanted' = [wanted EXCEPT ![fd].nonblock = nonblock]
  /\ UNCHANGED <<size, owner, isSocket, pc, at>>

\* ioctl(FIONBIO): the kernel is told what the caller asks for.
Ioctl(t, fd, nonblock) ==
  /\ Works(t, fd)
  /\ entity' = IF Managed(fd) THEN [entity EXCEPT ![fd].user = nonblock] ELSE entity
  /\ blocking' = [blocking EXCEPT ![fd] = ~nonblock]
  /\ wanted' = [wanted EXCEPT ![fd].nonblock = nonblock]
  /\ UNCHANGED <<size, owner, isSocket, pc, at>>

\* setsockopt(SO_RCVTIMEO) on a socket.
SetTimeout(t, fd) ==
  /\ Works(t, fd) /\ isSocket[fd]
  /\ entity' = IF Has(fd) THEN [entity EXCEPT ![fd].timed = TRUE] ELSE entity
  /\ wanted' = [wanted EXCEPT ![fd].timed = TRUE]
  /\ UNCHANGED <<size, kernelVars, pc, at>>

\* Mutant of CloseBegin: the descriptor is closed first.
CloseFirst(t, fd) ==
  /\ Works(t, fd)
  /\ at' = [at EXCEPT ![t] = fd]
  /\ owner' = [owner EXCEPT ![fd] = Closed]
  /\ Goto(t, IF Has(fd) THEN "forget" ELSE "ready")
  /\ UNCHANGED <<size, entity, isSocket, blocking, wanted>>

\* close() looks for the entity, removes it and then closes the descriptor.
CloseBegin(t, fd) ==
  /\ Works(t, fd)
  /\ at' = [at EXCEPT ![t] = fd]
  /\ Goto(t, IF Has(fd) THEN "forget" ELSE "close")
  /\ UNCHANGED <<size, entity, kernelVars, wanted>>

Forget(t) ==
  /\ pc[t] = "forget"
  /\ entity' = IF at[t] < size THEN [entity EXCEPT ![at[t]] = NoEntity] ELSE entity
  /\ Goto(t, "close")
  /\ UNCHANGED <<size, kernelVars, wanted, at, calls>>

CloseEnd(t) ==
  /\ pc[t] = "close"
  /\ owner' = [owner EXCEPT ![at[t]] = IF @ = t THEN Closed ELSE @]
  /\ Goto(t, "ready")
  /\ UNCHANGED <<size, entity, isSocket, blocking, wanted, at, calls>>

Next ==
  \E t \in Threads :
    \/ Get(t) \/ Grow(t) \/ Create(t) \/ Forget(t) \/ CloseEnd(t)
    \/ \E fd \in Fds :
         \/ Socket(t, fd) \/ OpenFile(t, fd) \/ SetTimeout(t, fd) \/ CloseBegin(t, fd)
         \/ \E nonblock \in BOOLEAN : SetFlags(t, fd, nonblock)
         \/ \E nonblock \in Ioctls : Ioctl(t, fd, nonblock)

Spec == Init /\ [][Next]_vars

-----------------------------------------------------------------------------
(* Properties *)

TypeOK ==
  /\ size \in Nat /\ entity \in [Fds -> Entities] /\ calls \in 0 .. MaxCalls
  /\ owner \in [Fds -> Threads \cup {Closed}]
  /\ isSocket \in [Fds -> BOOLEAN] /\ blocking \in [Fds -> BOOLEAN]
  /\ wanted \in [Fds -> [nonblock : BOOLEAN, timed : BOOLEAN]]
  /\ pc \in [Threads -> {"ready", "get", "grow", "create", "forget", "close"}]
  /\ at \in [Threads -> Fds \cup {0}]

\* No call that creates or closes fd is under way.
Settled(fd) ==
  owner[fd] # Closed /\ (at[owner[fd]] = fd => pc[owner[fd]] = "ready")

\* What fcntl(F_GETFL) answers.
SeenNonblock(fd) == IF Managed(fd) THEN entity[fd].user ELSE ~blocking[fd]

\* An open socket has an entity and a file has none: none is lost when the table
\* changes or another thread closes the number that was used before, and none is
\* left over from it (fdmanager.cpp:70-140, hook.cpp:470-494).
EntitiesFit == \A fd \in Fds : Settled(fd) => Managed(fd) = isSocket[fd] /\ Has(fd) = isSocket[fd]

\* Hooked calls never block the thread in the kernel, and the owner sees the
\* settings it made, not those made under the number before (hook.cpp:495-640).
SettingsKept ==
  \A fd \in Fds : Settled(fd) =>
    /\ SeenNonblock(fd) = wanted[fd].nonblock
    /\ isSocket[fd] => ~blocking[fd] /\ entity[fd].timed = wanted[fd].timed

-----------------------------------------------------------------------------
(* The inductive invariants                                                *)

OneThread == \A t, u \in Threads : t = u

\* The entity of a settled descriptor is known from what its owner has done with it.
EntityOf(fd) ==
  IF isSocket[fd]
  THEN [socket |-> TRUE, system |-> TRUE, user |-> wanted[fd].nonblock, timed |-> wanted[fd].timed]
  ELSE NoEntity

\* What a thread in the middle of a call knows of its descriptor.
InCall(t) ==
  /\ at[t] \in Fds /\ owner[at[t]] = t
  /\ pc[t] = "grow" => InitialSize <= at[t] /\ (OneThread => size <= at[t])
  /\ pc[t] = "create" => at[t] < size
  /\ pc[t] \in {"get", "grow", "create"} =>
       isSocket[at[t]] /\ wanted[at[t]] = Default /\ entity[at[t]] = NoEntity
  /\ pc[t] = "close" => entity[at[t]] = NoEntity

EntitiesInv ==
  /\ TypeOK /\ InitialSize <= size
  /\ \A t \in Threads : pc[t] # "ready" => InCall(t)
  /\ \A fd \in Fds :
       /\ entity[fd] # NoEntity => fd < size
       /\ owner[fd] = Closed => entity[fd] = NoEntity
       /\ Settled(fd) => entity[fd] = EntityOf(fd)

\* A socket is never left blocking, a file is as its owner wants it.
BlockingInv ==
  \A fd \in Fds : Settled(fd) => blocking[fd] = (~isSocket[fd] /\ ~wanted[fd].nonblock)
=============================================================================

------------------------------- MODULE MCParts -------------------------------
(* Parts that work by themselves, one subject after the other: the two      *)
(* tables that are indexed by descriptors, the events of the IO manager     *)
(* (IOEvents) and the entities of the file descriptor manager               *)
(* (Descriptors), and byte arrays with a socket (SocketStream).  Numbers    *)
(* have 5 bits in groups of 2.                                              *)
EXTENDS IOEvents, TLC

CONSTANTS t1, t2,
  Closed, Ioctls,   \* of Descriptors
  MaxFdCalls,       \* its MaxCalls
  Width, Group, BlockSize, Texts, Numbers, Fills, Refused, MaxBlocks,   \* of ByteArray
  Peer, LengthMod, MaxLength, MaxErrors                                 \* of SocketStream

\* The threads do the same.
ThreadSymmetry == Permutations({t1, t2})

VARIABLES
  subject,   \* what the behaviour is of
  entities, entity, owner, isSocket, blocking, wanted, fdPc, fdAt, fdCalls,  \* of Descriptors
  array, result, number, crashed, taken, transfer                            \* of SocketStream

Files == INSTANCE Descriptors
           WITH size <- entities, pc <- fdPc, at <- fdAt, calls <- fdCalls, MaxCalls <- MaxFdCalls

\* SocketStream, with what is proved about it
Stream == INSTANCE StreamProofs WITH call <- transfer

SomeTexts == {<<1, 2, 3>>}
SomeNumbers == {-16, 2}
Sent == <<5, 6, 7>>

streamVars == <<array, result, number, crashed, taken, transfer>>
fileVars == <<entities, entity, owner, isSocket, blocking, wanted, fdPc, fdAt, fdCalls>>

ASSUME FdAssumption == Closed \notin Threads /\ InitialSize > 1
ASSUME IoctlAssumption == Ioctls \subseteq BOOLEAN /\ MaxFdCalls \in Nat
ASSUME StreamAssumption == Stream!ConstantsFit

PartsInit ==
  /\ subject \in {"events", "files", "stream"}
  /\ Init /\ Files!Init /\ Stream!StreamInit
  /\ subject # "stream" => array.blocks = <<Stream!Block(0)>>

PartsNext ==
  /\ UNCHANGED subject
  /\ \/ subject = "events" /\ Next /\ UNCHANGED <<fileVars, streamVars>>
     \/ subject = "files" /\ Files!Next /\ UNCHANGED <<vars, streamVars>>
     \/ subject = "stream" /\ Stream!Next /\ UNCHANGED <<vars, fileVars>>

PartsSpec == PartsInit /\ [][PartsNext]_<<subject, vars, fileVars, streamVars>>

-----------------------------------------------------------------------------
(* Properties of Descriptors and SocketStream                              *)

\* An open socket has an entity and a file has none.
EntitiesFit == Files!EntitiesFit

\* No hooked call blocks the thread, and the owner of a number sees its own settings.
SettingsKept == Files!SettingsKept

\* What was written as a compressed integer is read back.
NumbersReturn == Stream!NumbersReturn

\* A call for a fixed number of bytes receives just those, in order.
FixedSizeExact == Stream!FixedSizeExact

\* The array behaves as one sequence of bytes with a position.
ImplementsBuffer == Stream!ImplementsBuffer
=============================================================================

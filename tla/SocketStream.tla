---------------------------- MODULE SocketStream ----------------------------
(***************************************************************************)
(* A connection read into and written from a byte array: the loops of      *)
(* src/src/io/stream.cpp over src/src/io/socket-stream.cpp. The socket is  *)
(* external: each call gives some bytes of what the peer has sent, or the  *)
(* end of the stream, or an error.                                         *)
(***************************************************************************)
EXTENDS ByteArray

CONSTANTS
  Peer,        \* what the peer sends
  LengthMod,   \* 2^64: lengths are of type size_t
  MaxLength,   \* bound: bytes asked for at once
  MaxErrors    \* bound: errors in one call

VARIABLES
  taken,       \* how many bytes of Peer have been received
  call         \* the call of read_fixed_size() or write_fixed_size()

streamVars == <<taken, call>>
allVars == <<vars, streamVars>>

-----------------------------------------------------------------------------

Octets == 0..2 * More - 1   \* what a byte may hold

\* The integers have their width, and so have the lengths of the texts and of the calls.
ConstantsFit ==
  /\ {Width, Group, BlockSize} \subseteq Nat \ {0} /\ MaxBlocks \in Nat
  /\ Numbers \subseteq -PowerOf2[Width - 1]..PowerOf2[Width - 1] - 1
  /\ Texts \subseteq Seq(Octets) /\ \A text \in Texts : Len(text) < PowerOf2[Width]
  /\ Fills \subseteq Octets /\ Peer \in Seq(Octets)
  /\ LengthMod \in Nat /\ MaxLength \in 1..LengthMod - 1 /\ MaxErrors \in Nat

NoCall == [kind |-> "none", length |-> 0, todo |-> 0, start |-> 0, first |-> 0, errors |-> 0]

StreamInit == Init /\ taken = 0 /\ call = NoCall

\* recv() puts n bytes behind the position of a.
Received(a, n) == Stored(a, SubSeq(Peer, taken + 1, taken + n))

\* setPosition(getPosition() + n) after recv()
Advance(a, n) ==
  /\ taken' = taken + n
  /\ number' = NoNumber
  /\ IF a.position + n = a.capacity
     THEN crashed' = TRUE /\ UNCHANGED <<array, result>>
     ELSE Becomes(Positioned(Received(a, n), a.position + n)) /\ result' = <<>>

\* Mutant of Progress: what was received is not taken off.
ProgressNone(n) == call' = call

\* The loop goes on or returns the length.
Progress(n) ==
  call' = IF call.todo = n THEN [call EXCEPT !.kind = "returned", !.todo = 0]
          ELSE [call EXCEPT !.todo = @ - n]

\* The end of the stream: the loop returns 0.
EndOfStream(a) ==
  /\ call' = [call EXCEPT !.kind = "ended"]
  /\ Becomes(a)
  /\ UNCHANGED <<result, number, taken>>

\* An error: -1 as a size_t is not <= 0, so that the loop goes on with one byte
\* more to read than before.
ErrorReturn(a) ==
  /\ call.errors < MaxErrors
  /\ LET todo == (call.todo + 1) % LengthMod
     IN call' = [call EXCEPT !.errors = @ + 1, !.todo = todo,
                             !.kind = IF todo = 0 THEN "returned" ELSE @]
  /\ Becomes(a)
  /\ UNCHANGED <<result, number, taken>>

Begin(kind, length) ==
  /\ call.kind = "none"
  /\ call' = [kind |-> kind, length |-> length, todo |-> length, start |-> array.position,
              first |-> taken, errors |-> 0]
  /\ UNCHANGED <<vars, taken>>

\* A round of read_fixed_size() with SocketStream::read(): room for all that is
\* missing, then as much as has arrived.
ReadRound(fill) ==
  LET a == Expanded(array, call.todo, fill)
  IN /\ call.kind = "read"
     /\ Fits(a)
     /\ \/ \E n \in 1..call.todo :
             taken + n <= Len(Peer) /\ Advance(a, n) /\ Progress(n)
        \/ EndOfStream(a)
        \/ ErrorReturn(a)

\* A round of write_fixed_size() with SocketStream::write(): it receives into
\* the bytes it should send; without enough of them there is no buffer and
\* nothing is received.
WriteRound ==
  /\ call.kind = "write"
  /\ \/ /\ call.todo <= Readable(array)
        /\ \E n \in 1..call.todo :
             taken + n <= Len(Peer) /\ Advance(array, n) /\ Progress(n)
     \/ EndOfStream(array)
     \/ ErrorReturn(array)

Return ==
  /\ call.kind \in {"returned", "ended"}
  /\ call' = NoCall
  /\ UNCHANGED <<vars, taken>>

Next ==
  /\ ~crashed
  /\ \/ call.kind = "none" /\ Operation /\ UNCHANGED streamVars
     \/ \E kind \in {"read", "write"}, length \in 1..MaxLength : Begin(kind, length)
     \/ \E fill \in Fills : ReadRound(fill)
     \/ WriteRound
     \/ Return

Spec == StreamInit /\ [][Next]_allVars

-----------------------------------------------------------------------------
(* Properties                                                              *)

\* A call has moved the position by what it has received, and the array holds just
\* those bytes, in order; when it returns the length, it has received that many and,
\* for every error on the way, one byte more, which is not its own (stream.cpp:6-60).
FixedSizeExact ==
  call.kind \in {"read", "write", "returned"} /\ ~crashed =>
    LET received == call.length + call.errors - call.todo
    IN /\ array.position = call.start + received
       /\ taken = call.first + received
       /\ \A i \in 1..received : Byte(call.start + i - 1) = Peer[call.first + i]

\* All that one operation may write.
Inputs ==
  Texts \cup {Compressed[EncodeZigzag(value)] : value \in Numbers}
  \cup {Compressed[Len(text)] \o text : text \in Texts}
  \cup UNION {{SubSeq(Peer, i, j) : j \in 1..Len(Peer)} : i \in 1..Len(Peer)}

\* The array behaves as one sequence of bytes with a position.
Buffer == INSTANCE ByteBuffer
  WITH data <- [k \in 1..array.size |-> Byte(k - 1)], at <- array.position

ImplementsBuffer == Buffer!Spec
=============================================================================

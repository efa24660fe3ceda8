----------------------------- MODULE ByteBuffer -----------------------------
(***************************************************************************)
(* What a byte array promises: one sequence of bytes with a position at    *)
(* which bytes are overwritten or appended, and read. Blocks are not seen. *)
(***************************************************************************)
EXTENDS Integers, Sequences

CONSTANTS
  Inputs,    \* what one operation may write
  Refused    \* out_of_range

VARIABLES
  data,      \* the bytes up to the size
  at,        \* how many of them lie before the position
  result     \* what the last operation read

vars == <<data, at, result>>

Init == data = <<>> /\ at = 0 /\ result = <<>>

\* Bytes replace what lies behind the position and extend the sequence.
Put(bytes) ==
  /\ data' = SubSeq(data, 1, at) \o bytes \o SubSeq(data, at + Len(bytes) + 1, Len(data))
  /\ at' = at + Len(bytes)
  /\ result' = <<>>

Get(n) ==
  /\ result' = SubSeq(data, at + 1, at + n)
  /\ at' = at + n
  /\ UNCHANGED data

\* More was asked for than is there; a part may have been read before.
Refuse ==
  /\ result' = Refused
  /\ at' \in at..Len(data)
  /\ UNCHANGED data

Peek ==
  /\ result' = SubSeq(data, at + 1, Len(data))
  /\ UNCHANGED <<data, at>>

\* Beyond the end the sequence grows by whatever the memory holds.
Seek ==
  /\ at' \in Nat
  /\ IF at' <= Len(data) THEN UNCHANGED data
     ELSE Len(data') = at' /\ SubSeq(data', 1, Len(data)) = data
  /\ result' = <<>>

Clear == data' = <<>> /\ at' = 0 /\ result' = <<>>

Next ==
  \/ \E bytes \in Inputs : Put(bytes)
  \/ \E n \in 0..Len(data) - at : Get(n)
  \/ Refuse \/ Peek \/ Seek \/ Clear

Spec == Init /\ [][Next]_vars
=============================================================================

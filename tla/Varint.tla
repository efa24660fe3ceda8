------------------------------- MODULE Varint -------------------------------
(***************************************************************************)
(* The compressed integers of src/src/io/bytearray.cpp: a signed number is *)
(* folded to an unsigned one (zigzag) and written in groups of seven bits, *)
(* the eighth telling that more follow. Width and Group scale the 32 or 64 *)
(* bits of a number and the seven of a group down.                         *)
(***************************************************************************)
EXTENDS Integers, Sequences, FiniteSetsExt

CONSTANTS
  Width,   \* bits of an integer
  Group    \* payload bits of a byte

\* Function of n, as proofs unfold it step by step.
PowerOf2[n \in Nat] == IF n = 0 THEN 1 ELSE 2 * PowerOf2[n - 1]

More == PowerOf2[Group]                    \* 0x80
MaxBytes == (Width + Group - 1) \div Group \* rounds of the loop that reads

\* Mutant of EncodeZigzag: negative numbers land on even ones.
EncodeZigzagEven(value) == (2 * (IF value < 0 THEN -value ELSE value)) % PowerOf2[Width]

\* Negative numbers become odd, the others even.
EncodeZigzag(value) == (IF value < 0 THEN 2 * (-value) - 1 ELSE 2 * value) % PowerOf2[Width]

DecodeZigzag(value) == IF value % 2 = 0 THEN value \div 2 ELSE -(value \div 2) - 1

\* uint32_t, uint64_t
Unsigned == 0..PowerOf2[Width] - 1

\* The lowest groups first.
Compressed[value \in Unsigned] ==
  IF value < More THEN <<value>>
  ELSE <<More + (value % More)>> \o Compressed[value \div More]

\* How many bytes are read for a number that begins a sequence: up to the first
\* without the mark, if it has one.
Consumed(bytes) == Min({j \in 1..Len(bytes) : bytes[j] < More} \cup {MaxBytes})

\* The shifted groups; what exceeds the width is cut off.
Decompressed(bytes) ==
  LET value[j \in 0..Consumed(bytes)] ==
        IF j = 0 THEN 0 ELSE value[j - 1] + (bytes[j] % More) * PowerOf2[Group * (j - 1)]
  IN value[Consumed(bytes)] % PowerOf2[Width]
=============================================================================

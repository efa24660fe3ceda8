----------------------------- MODULE ByteArray ------------------------------
(***************************************************************************)
(* The byte array of src/src/io/bytearray.cpp: a chain of blocks of equal  *)
(* size, a position, and a pointer to the block the position lies in. Both *)
(* are moved separately; where the position is the capacity there is no    *)
(* such block and the pointer is null.                                     *)
(*                                                                         *)
(* The loops over the blocks are modelled by where they put or find each   *)
(* byte, starting from the block pointer as they do.                       *)
(***************************************************************************)
EXTENDS Varint

CONSTANTS
  BlockSize,   \* m_block_size
  Texts,       \* what the application writes
  Numbers,     \* integers it writes compressed
  Fills,       \* what newly allocated memory may hold
  Refused,     \* out_of_range was thrown
  MaxBlocks    \* bound: length of the chain

VARIABLES
  array,       \* the ByteArray
  result,      \* bytes the last operation has read, or Refused
  number,      \* the integer written last and where, while it is not overwritten
  crashed      \* a null pointer was used

vars == <<array, result, number, crashed>>

Null == 0
NoNumber == [value |-> 0, start |-> -1]

Block(fill) == [i \in 0..BlockSize - 1 |-> fill]

Init ==
  /\ \E fill \in Fills :
       array = [blocks |-> <<Block(fill)>>, capacity |-> BlockSize, size |-> 0, position |-> 0,
                current |-> 1]
  /\ result = <<>> /\ number = NoNumber /\ crashed = FALSE

-----------------------------------------------------------------------------
(* Pieces of the operations, as functions of the array                     *)

\* expendCapacity()
Expanded(a, required, fill) ==
  LET available == a.capacity - a.position
      differ == required - available
      count == (differ \div BlockSize) + (IF differ % BlockSize = 0 THEN 0 ELSE 1)
  IN IF available >= required THEN a
     ELSE [a EXCEPT !.blocks = @ \o [i \in 1..count |-> Block(fill)],
                    !.capacity = @ + count * BlockSize,
                    !.current = IF available = 0 THEN Len(a.blocks) + 1 ELSE @]

\* Where the loops get to n bytes behind the position: a full block is left.
BlockOf(a, n) == a.current + ((a.position % BlockSize) + n) \div BlockSize
OffsetOf(a, n) == ((a.position % BlockSize) + n) % BlockSize

\* memcpy() to the blocks
Stored(a, bytes) ==
  [a EXCEPT !.blocks = [b \in DOMAIN a.blocks |-> [i \in 0..BlockSize - 1 |->
     LET n == (b - a.current) * BlockSize + i - (a.position % BlockSize)
     IN IF n \in 0..Len(bytes) - 1 THEN bytes[n + 1] ELSE a.blocks[b][i]]]]

\* memcpy() from the blocks
Fetched(a, n) == [k \in 1..n |-> a.blocks[BlockOf(a, k - 1)][OffsetOf(a, k - 1)]]

\* Position and pointer after n bytes.
Moved(a, n) ==
  [a EXCEPT !.position = @ + n,
            !.current = IF n > 0 /\ BlockOf(a, n) > Len(a.blocks) THEN Null
                        ELSE IF n > 0 THEN BlockOf(a, n) ELSE @,
            !.size = IF a.position + n > @ THEN a.position + n ELSE @]

\* getRead_size()
Readable(a) == a.size - a.position

\* write()
Written(a, bytes, fill) == Moved(Stored(Expanded(a, Len(bytes), fill), bytes), Len(bytes))

\* The pieces of a file: as many bytes as a block has, the last with the rest.
Piece(text, i) == SubSeq(text, (i - 1) * BlockSize + 1, Min({i * BlockSize, Len(text)}))

\* Mutant of Loaded: what does not fill a block is left out.
LoadedWhole(a, text, fill) ==
  LET after[i \in 0..Len(text) \div BlockSize] ==
        IF i = 0 THEN a ELSE Written(after[i - 1], Piece(text, i), fill)
  IN after[Len(text) \div BlockSize]

\* readFromFile(): until the end of the file is met, which the last piece, empty
\* or not, does.
Loaded(a, text, fill) ==
  LET pieces == Len(text) \div BlockSize + 1
      after[i \in 0..pieces] ==
        IF i = 0 THEN a ELSE Written(after[i - 1], Piece(text, i), fill)
  IN after[pieces]

Fits(a) == Len(a.blocks) <= MaxBlocks

-----------------------------------------------------------------------------
(* Operations                                                              *)

Becomes(a) == array' = a /\ UNCHANGED crashed

\* write() and the calls that write integers of fixed size.
Write(text, fill) ==
  /\ Becomes(Written(array, text, fill)) /\ Fits(array')
  /\ result' = <<>> /\ number' = NoNumber

\* writeInt32_compressed() and its kin
WriteNumber(value, fill) ==
  /\ Becomes(Written(array, Compressed[EncodeZigzag(value)], fill)) /\ Fits(array')
  /\ result' = <<>>
  /\ number' = [value |-> value, start |-> array.position]

\* writeString64_compressed() and its kin: the length, then the bytes.
WriteString(text, fill) ==
  /\ Becomes(Written(Written(array, Compressed[Len(text)], fill), text, fill)) /\ Fits(array')
  /\ result' = <<>> /\ number' = NoNumber

\* readFromFile()
ReadFromFile(text, fill) ==
  /\ Becomes(Loaded(array, text, fill)) /\ Fits(array')
  /\ result' = <<>> /\ number' = NoNumber

\* read() and the calls that read integers of fixed size.
Read(n) ==
  /\ IF n > Readable(array)
     THEN result' = Refused /\ UNCHANGED array
     ELSE result' = Fetched(array, n) /\ array' = Moved(array, n)
  /\ UNCHANGED <<number, crashed>>

\* readInt32_compressed() and its kin: byte by byte, until one is missing.
ReadNumber ==
  /\ LET rest == Fetched(array, Readable(array))
         n == Consumed(rest)
     IN IF n > Len(rest)
        THEN result' = Refused /\ array' = Moved(array, Len(rest))
        ELSE result' = SubSeq(rest, 1, n) /\ array' = Moved(array, n)
  /\ UNCHANGED <<number, crashed>>

\* readString64_compressed() and its kin: the length stays read when the bytes
\* are not there.
ReadString ==
  /\ LET rest == Fetched(array, Readable(array))
         n == Consumed(rest)
         length == Decompressed(rest)
     IN IF n > Len(rest)
        THEN result' = Refused /\ array' = Moved(array, Len(rest))
        ELSE IF length > Len(rest) - n
        THEN result' = Refused /\ array' = Moved(array, n)
        ELSE result' = SubSeq(rest, 1, n + length) /\ array' = Moved(array, n + length)
  /\ UNCHANGED <<number, crashed>>

\* toString() and writeToFile(): from the position on, which stays.
AsString ==
  /\ result' = Fetched(array, Readable(array))
  /\ UNCHANGED <<array, number, crashed>>

\* The position is set, the size follows, and the block is looked for from the
\* first one on.
Positioned(a, position) ==
  [a EXCEPT !.position = position,
            !.size = IF position > @ THEN position ELSE @,
            !.current = position \div BlockSize + 1]

\* setPosition(): when the position is the capacity, the walk along the chain ends
\* at the null pointer behind it and asks that for its size.
SetPosition(position) ==
  /\ \/ /\ position > array.capacity
        /\ result' = Refused
        /\ UNCHANGED <<array, crashed>>
     \/ /\ position = array.capacity
        /\ crashed' = TRUE
        /\ UNCHANGED <<array, result>>
     \/ /\ position < array.capacity
        /\ Becomes(Positioned(array, position))
        /\ result' = <<>>
  /\ UNCHANGED number

\* clear()
Clear ==
  /\ Becomes([blocks |-> <<array.blocks[1]>>, capacity |-> BlockSize, size |-> 0,
              position |-> 0, current |-> 1])
  /\ result' = <<>> /\ number' = NoNumber

Operation ==
  \/ \E text \in Texts, fill \in Fills :
       Write(text, fill) \/ WriteString(text, fill) \/ ReadFromFile(text, fill)
  \/ \E value \in Numbers, fill \in Fills : WriteNumber(value, fill)
  \/ \E n \in 0..MaxBlocks * BlockSize : Read(n) \/ SetPosition(n)
  \/ ReadNumber \/ ReadString \/ AsString \/ Clear

-----------------------------------------------------------------------------
(* Properties                                                              *)

\* Byte i of the array, wherever the pointer is.
Byte(i) == array.blocks[i \div BlockSize + 1][i % BlockSize]

\* The integer written last is what is read from where it was written.
NumbersReturn ==
  number # NoNumber =>
    LET bytes == [k \in 1..array.size - number.start |-> Byte(number.start + k - 1)]
    IN DecodeZigzag(Decompressed(bytes)) = number.value
=============================================================================

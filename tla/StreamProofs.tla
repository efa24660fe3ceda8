----------------------------- MODULE StreamProofs -----------------------------
(* Proofs about byte arrays and the calls that fill them from a socket, for  *)
(* any width of the integers, size of the blocks and bytes.                  *)
EXTENDS SocketStream, SequenceTheorems, WellFoundedInduction, TLAPS

-----------------------------------------------------------------------------
(* Natural numbers                                                         *)

\* A set of natural numbers has a least one.
LEMMA Least ==
  ASSUME NEW T, T \subseteq Nat, T # {}
  PROVE  \E x \in T : \A y \in T : x <= y
<1> DEFINE R == {pair \in Nat \X Nat : pair[1] < pair[2]}
<1>1. IsWellFoundedOn(R, Nat)
  BY NatLessThanWellFounded DEF OpToRel
<1>2. \E x \in T : \A y \in T : ~(<<y, x>> \in R)
  <2> HIDE DEF R
  <2>1. QED
    BY <1>1, WFMin
<1>3. PICK x \in T : \A y \in T : ~(<<y, x>> \in R)
  BY <1>2
<1>4. ASSUME NEW y \in T PROVE x <= y
  <2>1. <<y, x>> \notin R
    BY <1>3
  <2>2. QED
    BY <2>1
<1>5. QED
  BY <1>4

\* Induction: a set that holds 0 and the successors of its elements holds every
\* natural number.
LEMMA Induction ==
  ASSUME NEW S, 0 \in S, \A n \in Nat : n \in S => n + 1 \in S
  PROVE  \A n \in Nat : n \in S
<1> SUFFICES ASSUME Nat \ S # {} PROVE FALSE
  OBVIOUS
<1>1. PICK x \in Nat \ S : \A y \in Nat \ S : x <= y
  BY Least
<1>2. x # 0 /\ x - 1 \in Nat
  BY <1>1
<1>3. x - 1 \in S
  BY <1>1, <1>2
<1>4. QED
  BY <1>1, <1>2, <1>3

\* What quotient and remainder are for.
LEMMA Division ==
  ASSUME NEW b \in Nat \ {0}, NEW x \in Int
  PROVE  x = b * (x \div b) + (x % b) /\ x % b \in 0 .. b - 1 /\ x \div b \in Int
<1>1. x = b * (x \div b) + (x % b)
  OBVIOUS
<1>2. x % b \in 0 .. b - 1
  OBVIOUS
<1>3. x \div b \in Int
  OBVIOUS
<1>4. QED
  BY <1>1, <1>2, <1>3

LEMMA Product == \A m, n \in Nat : m * n \in Nat
OBVIOUS
LEMMA Distribution == \A m, n, k \in Int : (m + n) * k = m * k + n * k
OBVIOUS

\* Quotient and remainder are what they are for only one pair of numbers.
LEMMA DivMod ==
  ASSUME NEW b \in Nat \ {0}, NEW q \in Int, NEW r \in 0 .. b - 1
  PROVE  (b * q + r) \div b = q /\ (b * q + r) % b = r
<1> DEFINE x == b * q + r
           k == x \div b - q
<1>1. x = b * (x \div b) + (x % b) /\ x % b \in 0 .. b - 1 /\ x \div b \in Int
  <2>1. x \in Int
    OBVIOUS
  <2> HIDE DEF x
  <2>2. QED
    BY <2>1, Division
<1>2. b * k = r - (x % b) /\ k \in Int
  BY <1>1
<1>3. b * k < b /\ -b < b * k
  BY <1>1, <1>2
<1>4. k >= 1 => b * k >= b
  BY <1>2
<1>5. k <= -1 => b * k <= -b
  BY <1>2
<1>6. k = 0
  BY <1>2, <1>3, <1>4, <1>5
<1>7. QED
  BY <1>1, <1>6

\* What follows a value, and a function that goes on so from a.
StepOn(h, V) == h \in [Nat \X V -> V]
Continues(f, V, a, h) ==
  f \in [Nat -> V] /\ f[0] = a /\ \A n \in Nat : f[n + 1] = h[<<n + 1, f[n]>>]

\* A function may be defined by its value at 0 and by what follows a value.
LEMMA Recursion ==
  ASSUME NEW V, NEW a \in V, NEW h, StepOn(h, V)
  PROVE  \E f : Continues(f, V, a, h)
<1> USE DEF StepOn, Continues
<1> DEFINE Begins(g, n) == g \in [0 .. n -> V] /\ g[0] = a /\ \A i \in 1 .. n : g[i] = h[<<i, g[i - 1]>>]
           Begun == {n \in Nat : \E g : Begins(g, n)}
           Beginning(n) == CHOOSE g : Begins(g, n)
           f == [n \in Nat |-> Beginning(n)[n]]
<1>1. \A n \in Nat : \E g : Begins(g, n)
  <2>1. 0 \in Begun
    <3>1. Begins([i \in 0 .. 0 |-> a], 0)
      OBVIOUS
    <3>2. QED
      BY <3>1
  <2>2. ASSUME NEW n \in Nat, n \in Begun PROVE n + 1 \in Begun
    <3>1. PICK g : Begins(g, n)
      BY <2>2
    <3> DEFINE more == [i \in 0 .. n + 1 |-> IF i = n + 1 THEN h[<<n + 1, g[n]>>] ELSE g[i]]
    <3>2. h[<<n + 1, g[n]>>] \in V
      BY <3>1
    <3>3. more \in [0 .. n + 1 -> V]
      BY <3>1, <3>2
    <3>4. ASSUME NEW i \in 1 .. n + 1 PROVE more[i] = h[<<i, more[i - 1]>>]
      <4>1. i - 1 \in 0 .. n + 1 /\ i - 1 # n + 1 /\ i \in 0 .. n + 1
        OBVIOUS
      <4>2. more[i - 1] = g[i - 1]
        BY <4>1
      <4>3. CASE i = n + 1
        BY <4>1, <4>2, <4>3
      <4>4. CASE i # n + 1
        <5>1. i \in 1 .. n
          BY <4>4
        <5>2. more[i] = g[i] /\ g[i] = h[<<i, g[i - 1]>>]
          BY <3>1, <4>1, <4>4, <5>1
        <5>3. QED
          BY <4>2, <5>2
      <4>5. QED
        BY <4>3, <4>4
    <3>5. more[0] = a
      BY <3>1
    <3>6. Begins(more, n + 1)
      <4> HIDE DEF more
      <4>1. QED
        BY <3>3, <3>4, <3>5
    <3>7. QED
      <4> HIDE DEF Begins, more
      <4>1. QED
        BY <3>6
  <2>3. \A n \in Nat : n \in Begun
    <3> HIDE DEF Begun
    <3>1. QED
      BY <2>1, <2>2, Induction
  <2>4. QED
    BY <2>3
<1>2. \A n \in Nat : Begins(Beginning(n), n)
  <2> HIDE DEF Begins
  <2>1. QED
    BY <1>1
<1>3. ASSUME NEW n \in Nat PROVE Beginning(n + 1)[n] = Beginning(n)[n]
  <2> DEFINE g == Beginning(n)
             more == Beginning(n + 1)
             Same == {i \in Nat : i <= n => more[i] = g[i]}
  <2>1. Begins(g, n) /\ Begins(more, n + 1)
    <3> HIDE DEF Begins
    <3>1. QED
      BY <1>2
  <2> HIDE DEF g, more
  <2>2. 0 \in Same
    BY <2>1
  <2>3. ASSUME NEW i \in Nat, i \in Same PROVE i + 1 \in Same
    <3> SUFFICES ASSUME i + 1 <= n PROVE more[i + 1] = g[i + 1]
      OBVIOUS
    <3>1. more[i] = g[i]
      BY <2>3
    <3>2. i + 1 \in 1 .. n /\ i + 1 \in 1 .. n + 1 /\ (i + 1) - 1 = i
      OBVIOUS
    <3>3. QED
      BY <2>1, <3>1, <3>2
  <2>4. \A i \in Nat : i \in Same
    <3> HIDE DEF Same
    <3>1. QED
      BY <2>2, <2>3, Induction
  <2>5. more[n] = g[n]
    BY <2>4
  <2>6. QED
    BY <2>5 DEF g, more
<1> HIDE DEF Beginning
<1>4. f \in [Nat -> V] /\ f[0] = a
  <2>1. \A n \in Nat : Beginning(n)[n] \in V
    BY <1>2
  <2>2. QED
    BY <1>2, <2>1
<1>5. ASSUME NEW n \in Nat PROVE f[n + 1] = h[<<n + 1, f[n]>>]
  <2>1. Begins(Beginning(n + 1), n + 1) /\ n + 1 \in 1 .. n + 1 /\ (n + 1) - 1 = n
    <3> HIDE DEF Begins
    <3>1. QED
      BY <1>2
  <2>2. Beginning(n + 1)[n + 1] = h[<<n + 1, Beginning(n + 1)[n]>>]
    BY <2>1
  <2>3. n + 1 \in Nat
    OBVIOUS
  <2>4. f[n + 1] = Beginning(n + 1)[n + 1] /\ f[n] = Beginning(n)[n]
    BY <2>3
  <2>5. QED
    BY <1>3, <2>2, <2>4
<1>6. QED
  BY <1>4, <1>5

\* The powers of two, step by step.
LEMMA PowerUnfolds == \A n \in Nat : PowerOf2[n] = IF n = 0 THEN 1 ELSE 2 * PowerOf2[n - 1]
<1> DEFINE h == [pair \in Nat \X Nat |-> 2 * pair[2]]
<1>1. StepOn(h, Nat)
  BY DEF StepOn
<1>2. PICK f : Continues(f, Nat, 1, h)
  <2> HIDE DEF h
  <2>1. 1 \in Nat
    OBVIOUS
  <2>2. QED
    BY <1>1, <2>1, Recursion, Zenon
<1>3. \A n \in Nat : f[n] = IF n = 0 THEN 1 ELSE 2 * f[n - 1]
  <2>1. ASSUME NEW n \in Nat, n # 0 PROVE f[n] = 2 * f[n - 1]
    <3>1. n - 1 \in Nat /\ (n - 1) + 1 = n
      BY <2>1
    <3>2. QED
      BY <1>2, <3>1 DEF Continues
  <2>2. QED
    BY <1>2, <2>1 DEF Continues
<1>4. f = [n \in Nat |-> IF n = 0 THEN 1 ELSE 2 * f[n - 1]]
  BY <1>2, <1>3 DEF Continues
<1>5. PowerOf2 = [n \in Nat |-> IF n = 0 THEN 1 ELSE 2 * PowerOf2[n - 1]]
  BY <1>4 DEF PowerOf2
<1>6. QED
  BY <1>5

LEMMA PowerPositive == \A n \in Nat : PowerOf2[n] \in Nat \ {0}
<1> DEFINE S == {n \in Nat : PowerOf2[n] \in Nat \ {0}}
<1>1. 0 \in S
  BY PowerUnfolds
<1>2. \A n \in Nat : n \in S => n + 1 \in S
  BY PowerUnfolds
<1>3. \A n \in Nat : n \in S
  <2> HIDE DEF S
  <2>1. QED
    BY <1>1, <1>2, Induction
<1>4. QED
  BY <1>3

\* Powers multiply.
LEMMA PowerOfSum == \A m, n \in Nat : PowerOf2[m + n] = PowerOf2[m] * PowerOf2[n]
<1> SUFFICES ASSUME NEW m \in Nat PROVE \A n \in Nat : PowerOf2[m + n] = PowerOf2[m] * PowerOf2[n]
  OBVIOUS
<1> DEFINE S == {n \in Nat : PowerOf2[m + n] = PowerOf2[m] * PowerOf2[n]}
<1>1. 0 \in S
  BY PowerUnfolds, PowerPositive
<1>2. \A n \in Nat : n \in S => n + 1 \in S
  <2> SUFFICES ASSUME NEW n \in Nat, n \in S PROVE n + 1 \in S
    OBVIOUS
  <2>1. PowerOf2[m + (n + 1)] = 2 * PowerOf2[m + n] /\ PowerOf2[n + 1] = 2 * PowerOf2[n]
    BY PowerUnfolds
  <2>2. PowerOf2[m] \in Nat /\ PowerOf2[n] \in Nat
    BY PowerPositive
  <2>3. QED
    BY <2>1, <2>2
<1>3. \A n \in Nat : n \in S
  <2> HIDE DEF S
  <2>1. QED
    BY <1>1, <1>2, Induction
<1>4. QED
  BY <1>3

-----------------------------------------------------------------------------
(* The chain of blocks                                                     *)

Blocks == [0 .. BlockSize - 1 -> Octets]

\* Where the block pointer stands.
Pointer(position, capacity) == IF position = capacity THEN Null ELSE position \div BlockSize + 1

\* The arrays whose parts agree.
Chains ==
  {a \in [blocks : Seq(Blocks), capacity : Nat, size : Nat, position : Nat, current : Nat] :
     /\ Len(a.blocks) >= 1
     /\ a.capacity = Len(a.blocks) * BlockSize
     /\ a.position <= a.size /\ a.size <= a.capacity
     /\ a.current = Pointer(a.position, a.capacity)}

\* Byte i of the blocks of a.
Cell(a, i) == a.blocks[(i \div BlockSize) + 1][i % BlockSize]

\* The blocks up to the n-th hold the bytes below n times the size of a block.
LEMMA BlockOfByte ==
  ASSUME ConstantsFit, NEW n \in Nat, NEW i \in 0 .. n * BlockSize - 1
  PROVE  /\ (i \div BlockSize) + 1 \in 1 .. n
         /\ i % BlockSize \in 0 .. BlockSize - 1
         /\ i = BlockSize * (i \div BlockSize) + (i % BlockSize)
<1> DEFINE q == i \div BlockSize
           r == i % BlockSize
<1>1. BlockSize \in Nat \ {0} /\ i \in Int
  BY DEF ConstantsFit
<1>2. i = BlockSize * q + r /\ r \in 0 .. BlockSize - 1 /\ q \in Int
  BY <1>1, Division
<1> HIDE DEF q, r
<1>3. q >= n => BlockSize * q >= n * BlockSize
  BY <1>1, <1>2
<1>4. q <= -1 => BlockSize * q <= -BlockSize
  BY <1>1, <1>2
<1>5. q \in 0 .. n - 1
  BY <1>1, <1>2, <1>3, <1>4
<1>6. QED
  BY <1>2, <1>5 DEF q, r

\* n bytes behind a position that is in a block, the loops are at the byte there.
LEMMA WhereLoopsAre ==
  ASSUME ConstantsFit, NEW p \in Nat, NEW n \in Nat
  PROVE  /\ ((p % BlockSize) + n) \div BlockSize + (p \div BlockSize) = (p + n) \div BlockSize
         /\ ((p % BlockSize) + n) % BlockSize = (p + n) % BlockSize
<1> DEFINE r == p % BlockSize
           q == p \div BlockSize
           s == (r + n) % BlockSize
           t == (r + n) \div BlockSize
<1>1. BlockSize \in Nat \ {0} /\ p \in Int
  BY DEF ConstantsFit
<1>2. p = BlockSize * q + r /\ r \in 0 .. BlockSize - 1 /\ q \in Int
  BY <1>1, Division
<1>3. r + n = BlockSize * t + s /\ s \in 0 .. BlockSize - 1 /\ t \in Int
  <2>1. r + n \in Int
    BY <1>1, <1>2
  <2> HIDE DEF r
  <2>2. QED
    BY <1>1, <2>1, Division
<1> HIDE DEF q, r, s, t
<1>4. p + n = BlockSize * (q + t) + s /\ q + t \in Int
  BY <1>1, <1>2, <1>3
<1>5. (p + n) \div BlockSize = q + t /\ (p + n) % BlockSize = s
  <2> DEFINE w == q + t
  <2>1. w \in Int /\ p + n = BlockSize * w + s
    BY <1>4
  <2> HIDE DEF w
  <2>2. (BlockSize * w + s) \div BlockSize = w /\ (BlockSize * w + s) % BlockSize = s
    BY <1>1, <1>3, <2>1, DivMod
  <2>3. QED
    BY <2>1, <2>2 DEF w
<1>6. QED
  BY <1>2, <1>3, <1>5 DEF q, r, s, t

\* An array that is made longer keeps its bytes and has room for what is asked for.
LEMMA ExpandedKeeps ==
  ASSUME ConstantsFit, NEW a \in Chains, NEW required \in Nat, NEW fill \in Fills
  PROVE  LET longer == Expanded(a, required, fill) IN
         /\ longer \in Chains
         /\ longer.size = a.size /\ longer.position = a.position
         /\ longer.capacity >= a.capacity
         /\ a.position + required <= longer.capacity
         /\ \A i \in 0 .. a.capacity - 1 : Cell(longer, i) = Cell(a, i)
<1> DEFINE available == a.capacity - a.position
           differ == required - available
           count == (differ \div BlockSize) + (IF differ % BlockSize = 0 THEN 0 ELSE 1)
           added == [i \in 1 .. count |-> Block(fill)]
           longer == Expanded(a, required, fill)
<1>0. /\ BlockSize \in Nat \ {0}
      /\ Block(fill) \in Blocks
      /\ a.blocks \in Seq(Blocks) /\ Len(a.blocks) \in Nat /\ a.capacity = Len(a.blocks) * BlockSize
      /\ a.position \in Nat /\ a.size \in Nat /\ a.capacity \in Nat
      /\ a.position <= a.size /\ a.size <= a.capacity
  BY DEF Chains, Blocks, Block, ConstantsFit
<1>1. CASE available >= required
  <2>1. longer = a
    BY <1>1 DEF Expanded
  <2> HIDE DEF longer
  <2>2. QED
    BY <1>0, <1>1, <2>1 DEF longer
<1>2. CASE ~(available >= required)
  <2>1. differ \in Nat \ {0}
    BY <1>0, <1>2
  <2>2. count \in Nat /\ count * BlockSize >= differ
    <3> DEFINE q == differ \div BlockSize
               r == differ % BlockSize
    <3>1. differ = BlockSize * q + r /\ r \in 0 .. BlockSize - 1 /\ q \in Int
      <4> HIDE DEF differ
      <4>1. QED
        BY <1>0, <2>1, Division
    <3>2. count = q + (IF r = 0 THEN 0 ELSE 1)
      OBVIOUS
    <3> HIDE DEF q, r, differ, count
    <3>3. q <= -1 => BlockSize * q <= -BlockSize
      BY <1>0, <3>1
    <3>4. q \in Nat
      BY <1>0, <2>1, <3>1, <3>3
    <3>5. QED
      BY <1>0, <3>1, <3>2, <3>4
  <2>3. added \in Seq(Blocks) /\ Len(added) = count
    <3> HIDE DEF count
    <3>1. QED
      BY <1>0, <2>2
  <2>4. longer = [a EXCEPT !.blocks = @ \o added,
                           !.capacity = @ + count * BlockSize,
                           !.current = IF available = 0 THEN Len(a.blocks) + 1 ELSE @]
    BY <1>2 DEF Expanded
  <2> HIDE DEF longer, added, count, differ
  <2>5. /\ longer.blocks = a.blocks \o added /\ longer.capacity = a.capacity + count * BlockSize
        /\ longer.size = a.size /\ longer.position = a.position
        /\ longer.current = IF available = 0 THEN Len(a.blocks) + 1 ELSE a.current
        /\ longer \in [blocks : Seq(Blocks), capacity : Nat, size : Nat, position : Nat, current : Nat]
    <3>1. a.blocks \o added \in Seq(Blocks) /\ a.capacity + count * BlockSize \in Nat
      <4>1. count * BlockSize \in Nat
        BY <1>0, <2>2, Product
      <4>2. QED
        BY <1>0, <2>3, <4>1, ConcatProperties, SMTT(30)
    <3>2. a \in [blocks : Seq(Blocks), capacity : Nat, size : Nat, position : Nat, current : Nat]
      BY DEF Chains
    <3>3. (IF available = 0 THEN Len(a.blocks) + 1 ELSE a.current) \in Nat
      BY <1>0, <3>2
    <3>4. QED
      BY <2>4, <3>1, <3>2, <3>3
  <2>6. Len(longer.blocks) = Len(a.blocks) + count /\ longer.capacity = Len(longer.blocks) * BlockSize
    <3>1. Len(longer.blocks) = Len(a.blocks) + count
      <4>1. Len(a.blocks \o added) = Len(a.blocks) + count
        BY <1>0, <2>2, <2>3, ConcatProperties
      <4>2. QED
        BY <2>5, <4>1
    <3>2. (Len(a.blocks) + count) * BlockSize = Len(a.blocks) * BlockSize + count * BlockSize
      <4>1. Len(a.blocks) \in Int /\ count \in Int /\ BlockSize \in Int
        BY <1>0, <2>2
      <4>2. QED
        BY <4>1, Distribution
    <3>3. QED
      BY <1>0, <2>5, <3>1, <3>2
  <2>7. longer.capacity \in Nat /\ longer.capacity >= a.capacity + differ
    <3> DEFINE room == count * BlockSize
    <3>1. room \in Nat
      BY <1>0, <2>2, Product
    <3>2. room >= differ /\ longer.capacity = a.capacity + room
      BY <2>2, <2>5
    <3> HIDE DEF room
    <3>3. a.capacity \in Nat /\ differ \in Nat
      BY <1>0, <2>1
    <3>4. QED
      BY <3>1, <3>2, <3>3
  <2>8. a.position < longer.capacity /\ a.position + required <= longer.capacity
    <3>1. differ = required - (a.capacity - a.position) /\ differ > 0
      BY <1>0, <1>2 DEF differ
    <3>2. a.capacity \in Nat /\ a.position \in Nat /\ a.position <= a.capacity
      BY <1>0
    <3>3. QED
      BY <2>7, <3>1, <3>2
  <2>9. longer.current = (a.position \div BlockSize) + 1
    <3>1. CASE available = 0
      <4> DEFINE k == Len(a.blocks)
      <4>1. a.position = BlockSize * k + 0 /\ k \in Int /\ 0 \in 0 .. BlockSize - 1
        BY <1>0, <3>1
      <4>2. (BlockSize * k + 0) \div BlockSize = k
        <5> HIDE DEF k
        <5>1. QED
          BY <1>0, <4>1, DivMod
      <4>3. QED
        BY <2>5, <3>1, <4>1, <4>2
    <3>2. CASE available # 0
      BY <1>0, <2>5, <3>2 DEF Chains, Pointer
    <3>3. QED
      BY <3>1, <3>2
  <2>10. longer \in Chains
    <3>1. Len(longer.blocks) >= 1
      BY <1>0, <2>2, <2>6 DEF Chains
    <3>2. longer.current = Pointer(longer.position, longer.capacity)
      <4>1. longer.position # longer.capacity
        BY <1>0, <2>5, <2>7, <2>8
      <4>2. QED
        BY <2>5, <2>9, <4>1 DEF Pointer
    <3>3. longer.position <= longer.size /\ longer.size <= longer.capacity
      <4>1. a.size \in Nat /\ a.position <= a.size /\ a.size <= a.capacity /\ a.capacity \in Nat
        BY <1>0
      <4>2. longer.size = a.size /\ longer.position = a.position
        BY <2>5
      <4>3. QED
        BY <2>1, <2>7, <4>1, <4>2
    <3>4. QED
      BY <2>5, <2>6, <3>1, <3>2, <3>3 DEF Chains
  <2>11. ASSUME NEW i \in 0 .. a.capacity - 1 PROVE Cell(longer, i) = Cell(a, i)
    <3>1. (i \div BlockSize) + 1 \in 1 .. Len(a.blocks)
      BY <1>0, BlockOfByte
    <3> DEFINE b == (i \div BlockSize) + 1
    <3>2. (a.blocks \o added)[b] = a.blocks[b]
      <4> HIDE DEF b
      <4>1. QED
        BY <1>0, <2>3, <3>1 DEF b
    <3>3. QED
      BY <2>5, <3>2 DEF Cell
  <2>12. QED
    <3>1. longer.capacity >= a.capacity
      BY <1>0, <2>1, <2>7
    <3>2. QED
      BY <2>5, <2>8, <2>10, <2>11, <3>1 DEF longer
<1>3. QED
  BY <1>1, <1>2

\* memcpy() into the blocks changes just the bytes behind the position.
LEMMA StoredCells ==
  ASSUME ConstantsFit, NEW a \in Chains, NEW bytes \in Seq(Octets),
         a.position + Len(bytes) <= a.capacity
  PROVE  /\ Stored(a, bytes) \in Chains
         /\ Stored(a, bytes) = [a EXCEPT !.blocks = Stored(a, bytes).blocks]
         /\ Len(Stored(a, bytes).blocks) = Len(a.blocks)
         /\ \A i \in 0 .. a.capacity - 1 :
              Cell(Stored(a, bytes), i) =
                IF i \in a.position .. a.position + Len(bytes) - 1 THEN bytes[i - a.position + 1]
                ELSE Cell(a, i)
<1> DEFINE p == a.position
           n(b, i) == (b - a.current) * BlockSize + i - (p % BlockSize)
           stored == [b \in DOMAIN a.blocks |-> [i \in 0 .. BlockSize - 1 |->
                        IF n(b, i) \in 0 .. Len(bytes) - 1 THEN bytes[n(b, i) + 1] ELSE a.blocks[b][i]]]
<1>0. /\ BlockSize \in Nat \ {0}
      /\ a.blocks \in Seq(Blocks) /\ Len(a.blocks) \in Nat /\ a.capacity = Len(a.blocks) * BlockSize
      /\ p \in Nat /\ a.size \in Nat /\ a.capacity \in Nat /\ a.current \in Nat
      /\ p <= a.size /\ a.size <= a.capacity
      /\ Len(bytes) \in Nat /\ DOMAIN a.blocks = 1 .. Len(a.blocks)
      /\ \A b \in 1 .. Len(a.blocks) : a.blocks[b] \in Blocks
      /\ \A k \in 1 .. Len(bytes) : bytes[k] \in Octets
  BY SMTT(30) DEF Chains, ConstantsFit
<1>1. p % BlockSize \in 0 .. BlockSize - 1
  <2>1. p \in Int
    BY <1>0
  <2> HIDE DEF p
  <2>2. QED
    BY <1>0, <2>1, Division
<1>2. Stored(a, bytes) = [a EXCEPT !.blocks = stored]
  BY DEF Stored
<1>3. ASSUME NEW b \in 1 .. Len(a.blocks) PROVE stored[b] \in Blocks
  <2>1. ASSUME NEW i \in 0 .. BlockSize - 1 PROVE n(b, i) \in Int /\ a.blocks[b][i] \in Octets
    <3>1. a.blocks[b][i] \in Octets
      BY <1>0, <2>1 DEF Blocks
    <3>2. (b - a.current) * BlockSize \in Int
      <4> DEFINE d == b - a.current
      <4>1. d \in Int /\ BlockSize \in Int
        BY <1>0
      <4> HIDE DEF d
      <4>2. d * BlockSize \in Int
        BY <4>1
      <4>3. QED
        BY <4>2 DEF d
    <3>3. QED
      BY <1>1, <2>1, <3>1, <3>2
  <2> HIDE DEF n
  <2>2. QED
    BY <1>0, <2>1, SMTT(30) DEF Blocks
<1>4. stored \in Seq(Blocks) /\ Len(stored) = Len(a.blocks)
  <2>1. DOMAIN stored = 1 .. Len(a.blocks)
    BY <1>0
  <2> HIDE DEF stored
  <2>2. stored \in [1 .. Len(a.blocks) -> Blocks]
    <3>1. stored = [b \in 1 .. Len(a.blocks) |-> stored[b]]
      BY <1>0, <2>1 DEF stored
    <3>2. QED
      BY <1>3, <3>1
  <2>3. Len(a.blocks) \in Nat
    BY <1>0
  <2>4. QED
    BY <2>2, <2>3
<1>5. Stored(a, bytes) \in Chains /\ Stored(a, bytes).blocks = stored
  <2> HIDE DEF stored
  <2>1. QED
    BY <1>0, <1>2, <1>4 DEF Chains
<1>6. ASSUME NEW x \in 0 .. a.capacity - 1
      PROVE  Cell(Stored(a, bytes), x) =
               IF x \in p .. p + Len(bytes) - 1 THEN bytes[x - p + 1] ELSE Cell(a, x)
  <2> DEFINE b == (x \div BlockSize) + 1
             i == x % BlockSize
  <2>1. b \in 1 .. Len(a.blocks) /\ i \in 0 .. BlockSize - 1 /\ x = BlockSize * (b - 1) + i
    <3>1. b - 1 = x \div BlockSize
      BY <1>0, Division
    <3>2. QED
      BY <1>0, <3>1, BlockOfByte
  <2>2. stored[b][i] = IF n(b, i) \in 0 .. Len(bytes) - 1 THEN bytes[n(b, i) + 1] ELSE a.blocks[b][i]
    <3> HIDE DEF n, b, i
    <3>1. QED
      BY <1>0, <2>1
  <2>3. Cell(Stored(a, bytes), x) = stored[b][i] /\ Cell(a, x) = a.blocks[b][i]
    BY <1>5 DEF Cell
  <2>4. CASE p = a.capacity
    <3>1. Len(bytes) = 0
      BY <1>0, <2>4
    <3>2. QED
      BY <1>0, <2>2, <2>3, <3>1
  <2>5. CASE p # a.capacity
    <3> DEFINE c == p \div BlockSize
               r == p % BlockSize
    <3>1. p = BlockSize * c + r /\ c \in Int /\ r \in Int
      <4>1. p \in Int
        BY <1>0
      <4> HIDE DEF p
      <4>2. QED
        BY <1>0, <4>1, Division
    <3>2. a.current = c + 1
      BY <2>5 DEF Chains, Pointer
    <3>3. n(b, i) = x - p
      <4> HIDE DEF b, i, c
      <4>1. n(b, i) = (b - (c + 1)) * BlockSize + i - r
        BY <3>2
      <4> HIDE DEF r, n
      <4>2. QED
        BY <1>0, <2>1, <3>1, <4>1
    <3>4. QED
      <4>1. n(b, i) \in 0 .. Len(bytes) - 1 <=> x \in p .. p + Len(bytes) - 1
        <5> DEFINE m == n(b, i)
        <5>1. m = x - p /\ x \in Nat /\ p \in Nat /\ Len(bytes) \in Nat
          BY <1>0, <3>3
        <5> HIDE DEF m, p
        <5>2. m \in 0 .. Len(bytes) - 1 <=> x \in p .. p + Len(bytes) - 1
          BY <5>1
        <5>3. QED
          BY <5>2 DEF m, p
      <4> HIDE DEF n, b, i
      <4>2. QED
        BY <2>2, <2>3, <3>3, <4>1
  <2>6. QED
    BY <2>4, <2>5
<1>7. QED
  BY <1>0, <1>2, <1>4, <1>5, <1>6

\* memcpy() from the blocks gives the bytes behind the position.
LEMMA FetchedBytes ==
  ASSUME ConstantsFit, NEW a \in Chains, NEW n \in Nat, a.position + n <= a.capacity
  PROVE  Fetched(a, n) = [k \in 1 .. n |-> Cell(a, a.position + k - 1)]
<1> SUFFICES ASSUME NEW k \in 1 .. n
             PROVE  a.blocks[BlockOf(a, k - 1)][OffsetOf(a, k - 1)] = Cell(a, a.position + k - 1)
  BY DEF Fetched
<1>1. a.position \in Nat /\ a.capacity \in Nat /\ k - 1 \in Nat
  BY DEF Chains
<1>2. a.current = (a.position \div BlockSize) + 1
  BY <1>1 DEF Chains, Pointer
<1> DEFINE p == a.position
           m == k - 1
<1>3. p \in Nat /\ m \in Nat /\ p + m = a.position + k - 1
  BY <1>1
<1>4. BlockOf(a, m) = (p \div BlockSize) + 1 + ((p % BlockSize) + m) \div BlockSize
      /\ OffsetOf(a, m) = ((p % BlockSize) + m) % BlockSize
  BY <1>2 DEF BlockOf, OffsetOf
<1>5. /\ p \div BlockSize \in Int /\ (p + m) \div BlockSize \in Int
      /\ ((p % BlockSize) + m) \div BlockSize \in Int
  <2> HIDE DEF p, m
  <2>1. BlockSize \in Nat \ {0} /\ p \in Int /\ p + m \in Int
    BY <1>3 DEF ConstantsFit
  <2>2. (p % BlockSize) + m \in Int
    BY <1>3, <2>1, Division
  <2>3. QED
    BY <2>1, <2>2, Division
<1>6. BlockOf(a, m) = (p + m) \div BlockSize + 1 /\ OffsetOf(a, m) = (p + m) % BlockSize
  <2> HIDE DEF p, m
  <2>1. QED
    BY <1>3, <1>4, <1>5, WhereLoopsAre
<1>7. QED
  BY <1>3, <1>6 DEF Cell

\* The position and the pointer move together.
LEMMA MovedChain ==
  ASSUME ConstantsFit, NEW a \in Chains, NEW n \in Nat, a.position + n <= a.capacity
  PROVE  /\ Moved(a, n) \in Chains
         /\ Moved(a, n).position = a.position + n
         /\ Moved(a, n).size = (IF a.position + n > a.size THEN a.position + n ELSE a.size)
         /\ Moved(a, n).capacity = a.capacity /\ Moved(a, n).blocks = a.blocks
<1> DEFINE moved == Moved(a, n)
           p == a.position
           end == p + n
           current == IF n > 0 /\ BlockOf(a, n) > Len(a.blocks) THEN Null
                      ELSE IF n > 0 THEN BlockOf(a, n) ELSE a.current
           size == IF end > a.size THEN end ELSE a.size
<1>0. /\ BlockSize \in Nat \ {0}
      /\ a \in [blocks : Seq(Blocks), capacity : Nat, size : Nat, position : Nat, current : Nat]
      /\ p \in Nat /\ a.capacity \in Nat /\ a.size \in Nat /\ Len(a.blocks) \in Nat /\ a.current \in Nat
      /\ a.capacity = Len(a.blocks) * BlockSize /\ p <= a.size /\ a.size <= a.capacity
      /\ Len(a.blocks) >= 1 /\ a.current = Pointer(p, a.capacity)
  BY DEF Chains, ConstantsFit
<1>1. end \in Nat /\ size \in Nat /\ end <= size /\ size <= a.capacity /\ end <= a.capacity
  BY <1>0
<1>3. ASSUME n # 0
      PROVE  BlockOf(a, n) = (end \div BlockSize) + 1 /\ end \div BlockSize \in Int
  <2> DEFINE c == p \div BlockSize
             t == ((p % BlockSize) + n) \div BlockSize
             s == end \div BlockSize
  <2>1. a.current = c + 1
    <3>1. p # a.capacity
      BY <1>0, <1>1, <1>3
    <3>2. QED
      BY <1>0, <3>1 DEF Pointer
  <2>2. BlockOf(a, n) = c + 1 + t
    BY <2>1 DEF BlockOf
  <2>3. c \in Int /\ s \in Int /\ t \in Int
    <3> HIDE DEF p
    <3>1. p \in Int /\ end \in Int
      BY <1>0
    <3>2. (p % BlockSize) + n \in Int
      BY <1>0, <3>1, Division
    <3> HIDE DEF end
    <3>3. QED
      BY <1>0, <3>1, <3>2, Division
  <2>4. t + c = s
    <3> HIDE DEF p
    <3>1. QED
      BY <1>0, WhereLoopsAre
  <2> HIDE DEF c, t, s
  <2>5. BlockOf(a, n) = s + 1
    BY <2>2, <2>3, <2>4
  <2>6. QED
    BY <2>3, <2>5 DEF s
<1>4. ASSUME end # a.capacity
      PROVE  (end \div BlockSize) + 1 \in 1 .. Len(a.blocks)
  <2>1. end \in 0 .. a.capacity - 1
    <3> DEFINE capacity == a.capacity
    <3>1. end \in Nat /\ capacity \in Nat /\ end <= capacity /\ end # capacity
      BY <1>0, <1>1, <1>4
    <3> HIDE DEF end, capacity
    <3>2. end \in 0 .. capacity - 1
      BY <3>1
    <3>3. QED
      BY <3>2 DEF capacity
  <2> HIDE DEF end
  <2>2. end \in 0 .. Len(a.blocks) * BlockSize - 1
    BY <1>0, <2>1, Zenon
  <2>3. QED
    BY <1>0, <2>2, BlockOfByte
<1>5. ASSUME end = a.capacity, n # 0
      PROVE  BlockOf(a, n) = Len(a.blocks) + 1
  <2> DEFINE k == Len(a.blocks)
  <2>1. end = BlockSize * k + 0 /\ k \in Int /\ 0 \in 0 .. BlockSize - 1
    BY <1>0, <1>5
  <2>2. (BlockSize * k + 0) \div BlockSize = k
    <3> HIDE DEF k
    <3>1. QED
      BY <1>0, <2>1, DivMod
  <2> HIDE DEF end
  <2>3. end \div BlockSize = k
    BY <2>1, <2>2
  <2>4. QED
    BY <1>3, <1>5, <2>3
<1>6. current = Pointer(end, a.capacity) /\ current \in Nat
  <2>1. CASE n = 0
    <3>1. end = p
      BY <1>0, <2>1
    <3>2. current = a.current
      BY <2>1
    <3>3. QED
      BY <1>0, <3>1, <3>2
  <2>2. CASE n # 0 /\ end = a.capacity
    <3>1. current = Null
      BY <1>0, <1>5, <2>2
    <3>2. QED
      BY <2>2, <3>1 DEF Pointer, Null
  <2>3. CASE n # 0 /\ end # a.capacity
    <3> DEFINE s == end \div BlockSize
    <3>1. BlockOf(a, n) = s + 1 /\ s + 1 \in 1 .. Len(a.blocks) /\ s \in Int
      BY <1>3, <1>4, <2>3
    <3> HIDE DEF s, end
    <3>2. current = s + 1 /\ s + 1 \in Nat
      BY <1>0, <2>3, <3>1
    <3>3. QED
      BY <2>3, <3>2 DEF Pointer, s
  <2>4. QED
    BY <2>1, <2>2, <2>3
<1>7. moved = [a EXCEPT !.position = end, !.current = current, !.size = size]
  BY DEF Moved
<1> HIDE DEF current, size, end, moved
<1>8. /\ moved \in [blocks : Seq(Blocks), capacity : Nat, size : Nat, position : Nat, current : Nat]
      /\ moved.position = end /\ moved.current = current /\ moved.size = size
      /\ moved.blocks = a.blocks /\ moved.capacity = a.capacity
  BY <1>0, <1>1, <1>6, <1>7
<1>9. moved \in Chains
  BY <1>0, <1>1, <1>6, <1>8 DEF Chains
<1>10. QED
  BY <1>8, <1>9 DEF moved, end, size

\* What the fields of an array are.
LEMMA ChainFields ==
  ASSUME NEW a \in Chains
  PROVE  /\ a \in [blocks : Seq(Blocks), capacity : Nat, size : Nat, position : Nat, current : Nat]
         /\ a.blocks \in Seq(Blocks) /\ Len(a.blocks) \in Nat /\ Len(a.blocks) >= 1
         /\ a.capacity = Len(a.blocks) * BlockSize
         /\ a.position \in Nat /\ a.size \in Nat /\ a.capacity \in Nat /\ a.current \in Nat
         /\ a.position <= a.size /\ a.size <= a.capacity
         /\ a.current = Pointer(a.position, a.capacity)
BY DEF Chains

\* Every byte of the blocks is one.
LEMMA CellsAreOctets ==
  ASSUME ConstantsFit, NEW a \in Chains, NEW i \in 0 .. a.capacity - 1
  PROVE  Cell(a, i) \in Octets
<1>1. i \in 0 .. Len(a.blocks) * BlockSize - 1
  BY ChainFields, Zenon
<1>2. (i \div BlockSize) + 1 \in 1 .. Len(a.blocks) /\ i % BlockSize \in 0 .. BlockSize - 1
  BY <1>1, ChainFields, BlockOfByte
<1>3. a.blocks[(i \div BlockSize) + 1] \in Blocks
  BY <1>2, ChainFields, ElementOfSeq
<1>4. QED
  BY <1>2, <1>3 DEF Cell, Blocks

\* w is a with the bytes put at the position, and its position behind them.
Puts(a, bytes, w) ==
  /\ w \in Chains
  /\ w.position = a.position + Len(bytes)
  /\ w.size = (IF a.position + Len(bytes) > a.size THEN a.position + Len(bytes) ELSE a.size)
  /\ \A i \in 0 .. w.size - 1 :
       Cell(w, i) = IF i \in a.position .. a.position + Len(bytes) - 1 THEN bytes[i - a.position + 1]
                    ELSE Cell(a, i)

\* write()
LEMMA WrittenPuts ==
  ASSUME ConstantsFit, NEW a \in Chains, NEW bytes \in Seq(Octets), NEW fill \in Fills
  PROVE  Puts(a, bytes, Written(a, bytes, fill))
<1> DEFINE longer == Expanded(a, Len(bytes), fill)
           stored == Stored(longer, bytes)
           w == Moved(stored, Len(bytes))
<1>0. Len(bytes) \in Nat
  OBVIOUS
<1>1. /\ longer \in Chains /\ longer.size = a.size /\ longer.position = a.position
      /\ longer.capacity >= a.capacity /\ a.position + Len(bytes) <= longer.capacity
      /\ \A i \in 0 .. a.capacity - 1 : Cell(longer, i) = Cell(a, i)
  BY <1>0, ExpandedKeeps
<1> HIDE DEF longer
<1>2. /\ stored \in Chains
      /\ stored = [longer EXCEPT !.blocks = stored.blocks]
      /\ \A i \in 0 .. longer.capacity - 1 :
           Cell(stored, i) = IF i \in longer.position .. longer.position + Len(bytes) - 1
                             THEN bytes[i - longer.position + 1] ELSE Cell(longer, i)
  BY <1>1, StoredCells
<1>3. stored.position = a.position /\ stored.size = a.size /\ stored.capacity = longer.capacity
  BY <1>1, <1>2, ChainFields
<1> HIDE DEF stored
<1>4. /\ w \in Chains /\ w.position = a.position + Len(bytes)
      /\ w.size = (IF a.position + Len(bytes) > a.size THEN a.position + Len(bytes) ELSE a.size)
      /\ w.capacity = stored.capacity /\ w.blocks = stored.blocks
  BY <1>0, <1>1, <1>2, <1>3, MovedChain
<1> HIDE DEF w
<1>5. ASSUME NEW i \in 0 .. w.size - 1
      PROVE  Cell(w, i) = IF i \in a.position .. a.position + Len(bytes) - 1
                          THEN bytes[i - a.position + 1] ELSE Cell(a, i)
  <2>1. Cell(w, i) = Cell(stored, i)
    BY <1>4 DEF Cell
  <2>2. i \in 0 .. longer.capacity - 1
    <3>1. w.size \in Nat /\ w.capacity \in Nat /\ w.size <= w.capacity /\ w.capacity = longer.capacity
      BY <1>3, <1>4, ChainFields
    <3>2. QED
      BY <3>1
  <2>3. Cell(stored, i) = IF i \in a.position .. a.position + Len(bytes) - 1
                          THEN bytes[i - a.position + 1] ELSE Cell(longer, i)
    BY <1>1, <1>2, <2>2
  <2>4. ASSUME i \notin a.position .. a.position + Len(bytes) - 1
        PROVE  Cell(longer, i) = Cell(a, i)
    <3>1. i \in 0 .. a.capacity - 1
      <4>1. /\ a.size \in Nat /\ a.capacity \in Nat /\ a.position \in Nat
            /\ a.position <= a.size /\ a.size <= a.capacity
        BY ChainFields
      <4>2. i \in Nat /\ i <= w.size - 1
        BY <1>4, ChainFields
      <4>3. i < a.position \/ i >= a.position + Len(bytes)
        BY <1>0, <2>4, <4>1, <4>2
      <4>4. QED
        <5> DEFINE p == a.position
                   m == Len(bytes)
                   size == a.size
                   capacity == a.capacity
                   end == w.size
        <5>1. end \in Nat /\ (end = size \/ end = p + m)
          BY <1>4, ChainFields
        <5>2. /\ p \in Nat /\ m \in Nat /\ size \in Nat /\ capacity \in Nat /\ p <= size
              /\ size <= capacity /\ i \in Nat /\ i <= end - 1 /\ (i < p \/ i >= p + m)
          BY <1>0, <4>1, <4>2, <4>3
        <5> HIDE DEF p, m, size, capacity, end
        <5>3. i \in 0 .. capacity - 1
          BY <5>1, <5>2
        <5>4. QED
          BY <5>3 DEF capacity
    <3>2. QED
      BY <1>1, <3>1
  <2>5. QED
    BY <2>1, <2>3, <2>4
<1>6. Written(a, bytes, fill) = w
  BY DEF Written, w, stored, longer
<1>7. QED
  BY <1>4, <1>5, <1>6 DEF Puts

\* Bytes put behind bytes are all of them put.
LEMMA PutsTwice ==
  ASSUME NEW a \in Chains, NEW first \in Seq(Octets), NEW second \in Seq(Octets), NEW v, NEW w,
         Puts(a, first, v), Puts(v, second, w)
  PROVE  Puts(a, first \o second, w)
<1> DEFINE m == Len(first)
           n == Len(second)
           both == first \o second
           p == a.position
<1>1. m \in Nat /\ n \in Nat /\ Len(both) = m + n /\ v \in Chains /\ w \in Chains
  BY ConcatProperties DEF Puts
<1>2. p \in Nat /\ a.size \in Nat /\ p <= a.size /\ v.size \in Nat /\ w.size \in Nat
  BY <1>1, ChainFields
<1>3. /\ v.position = p + m /\ w.position = p + m + n
      /\ v.size = (IF p + m > a.size THEN p + m ELSE a.size)
      /\ w.size = (IF p + m + n > v.size THEN p + m + n ELSE v.size)
  BY DEF Puts
<1>4. w.size = IF p + Len(both) > a.size THEN p + Len(both) ELSE a.size
  <2> HIDE DEF m, n, p, both
  <2>1. QED
    BY <1>1, <1>2, <1>3
<1>5. ASSUME NEW i \in 0 .. w.size - 1
      PROVE  Cell(w, i) = IF i \in p .. p + Len(both) - 1 THEN both[i - p + 1] ELSE Cell(a, i)
  <2>1. Cell(w, i) = IF i \in p + m .. p + m + n - 1 THEN second[i - (p + m) + 1] ELSE Cell(v, i)
    BY <1>3 DEF Puts
  <2>2. i \in 0 .. v.size - 1 => Cell(v, i) = IF i \in p .. p + m - 1 THEN first[i - p + 1] ELSE Cell(a, i)
    BY DEF Puts
  <2>3. \A k \in 1 .. m + n : both[k] = IF k <= m THEN first[k] ELSE second[k - m]
    BY ConcatProperties
  <2> HIDE DEF m, n, p, both
  <2>4. CASE i \in p .. p + m - 1
    <3>1. i \notin p + m .. p + m + n - 1 /\ i \in 0 .. v.size - 1
      BY <1>1, <1>2, <1>3, <2>4
    <3>2. i - p + 1 \in 1 .. m + n /\ i - p + 1 <= m /\ i \in p .. p + Len(both) - 1
      BY <1>1, <1>2, <2>4
    <3>3. QED
      BY <2>1, <2>2, <2>3, <2>4, <3>1, <3>2
  <2>5. CASE i \in p + m .. p + m + n - 1
    <3> DEFINE k == i - p + 1
    <3>1. k \in 1 .. m + n /\ ~(k <= m) /\ k - m = i - (p + m) + 1 /\ i \in p .. p + Len(both) - 1
      BY <1>1, <1>2, <2>5
    <3>2. both[k] = second[i - (p + m) + 1]
      <4> HIDE DEF k
      <4>1. QED
        BY <2>3, <3>1
    <3>3. QED
      BY <2>1, <2>5, <3>1, <3>2
  <2>6. CASE i \notin p .. p + m + n - 1
    <3>1. i \notin p + m .. p + m + n - 1 /\ i \notin p .. p + m - 1 /\ i \in 0 .. v.size - 1
          /\ i \notin p .. p + Len(both) - 1
      BY <1>1, <1>2, <1>3, <2>6
    <3>2. QED
      BY <2>1, <2>2, <3>1
  <2>7. QED
    BY <1>1, <1>2, <2>4, <2>5, <2>6
<1>6. w.position = p + Len(both)
  BY <1>1, <1>2, <1>3
<1>7. QED
  BY <1>1, <1>4, <1>5, <1>6 DEF Puts

\* setPosition() in front of the end
LEMMA PositionedChain ==
  ASSUME ConstantsFit, NEW a \in Chains, NEW n \in Nat, n < a.capacity
  PROVE  LET moved == Positioned(a, n) IN
         /\ moved \in Chains /\ moved.blocks = a.blocks /\ moved.capacity = a.capacity
         /\ moved.position = n /\ moved.size = IF n > a.size THEN n ELSE a.size
<1> DEFINE moved == Positioned(a, n)
           size == IF n > a.size THEN n ELSE a.size
           current == (n \div BlockSize) + 1
<1>1. /\ a \in [blocks : Seq(Blocks), capacity : Nat, size : Nat, position : Nat, current : Nat]
      /\ a.size \in Nat /\ a.capacity \in Nat /\ a.size <= a.capacity
      /\ Len(a.blocks) \in Nat /\ Len(a.blocks) >= 1 /\ a.capacity = Len(a.blocks) * BlockSize
  BY ChainFields
<1>2. size \in Nat /\ n <= size /\ size <= a.capacity
  BY <1>1
<1>3. current \in Nat
  <2>1. n \in 0 .. a.capacity - 1
    BY <1>1
  <2>2. n \in 0 .. Len(a.blocks) * BlockSize - 1
    BY <1>1, <2>1, Zenon
  <2>3. current \in 1 .. Len(a.blocks)
    BY <1>1, <2>2, BlockOfByte
  <2> HIDE DEF current
  <2>4. QED
    BY <1>1, <2>3
<1>4. moved = [a EXCEPT !.position = n, !.size = size, !.current = current]
  BY DEF Positioned
<1>5. current = Pointer(n, a.capacity)
  BY <1>1 DEF Pointer
<1> HIDE DEF size, current, moved
<1>6. /\ moved \in [blocks : Seq(Blocks), capacity : Nat, size : Nat, position : Nat, current : Nat]
      /\ moved.position = n /\ moved.current = current /\ moved.size = size
      /\ moved.blocks = a.blocks /\ moved.capacity = a.capacity
  BY <1>1, <1>2, <1>3, <1>4
<1>7. moved \in Chains
  BY <1>1, <1>2, <1>5, <1>6 DEF Chains
<1>8. QED
  BY <1>6, <1>7 DEF moved, size

\* What recv() leaves, with the position set behind it.
LEMMA ReceivedPuts ==
  ASSUME ConstantsFit, NEW a \in Chains, NEW bytes \in Seq(Octets),
         a.position + Len(bytes) < a.capacity
  PROVE  Puts(a, bytes, Positioned(Stored(a, bytes), a.position + Len(bytes)))
<1> DEFINE stored == Stored(a, bytes)
           end == a.position + Len(bytes)
           w == Positioned(stored, end)
<1>0. Len(bytes) \in Nat /\ a.position \in Nat /\ end \in Nat /\ a.capacity \in Nat /\ end <= a.capacity
  BY ChainFields
<1>1. /\ stored \in Chains
      /\ stored = [a EXCEPT !.blocks = stored.blocks]
      /\ \A i \in 0 .. a.capacity - 1 :
           Cell(stored, i) = IF i \in a.position .. a.position + Len(bytes) - 1
                             THEN bytes[i - a.position + 1] ELSE Cell(a, i)
  BY <1>0, StoredCells
<1>2. stored.position = a.position /\ stored.size = a.size /\ stored.capacity = a.capacity
  BY <1>1, ChainFields
<1> HIDE DEF stored, end
<1>3. end < stored.capacity
  BY <1>2 DEF end
<1>4. /\ w \in Chains /\ w.blocks = stored.blocks /\ w.capacity = stored.capacity
      /\ w.position = end /\ w.size = IF end > stored.size THEN end ELSE stored.size
  BY <1>0, <1>1, <1>3, PositionedChain
<1> HIDE DEF w
<1>5. ASSUME NEW i \in 0 .. w.size - 1
      PROVE  Cell(w, i) = IF i \in a.position .. a.position + Len(bytes) - 1
                          THEN bytes[i - a.position + 1] ELSE Cell(a, i)
  <2>1. w.size \in Nat /\ w.size <= a.capacity
    BY <1>2, <1>4, ChainFields
  <2>2. i \in 0 .. a.capacity - 1
    BY <1>0, <2>1
  <2>3. Cell(w, i) = Cell(stored, i)
    BY <1>4 DEF Cell
  <2>4. QED
    BY <1>1, <2>2, <2>3
<1>6. w.position = a.position + Len(bytes)
      /\ w.size = (IF a.position + Len(bytes) > a.size THEN a.position + Len(bytes) ELSE a.size)
  BY <1>2, <1>4 DEF end
<1>7. QED
  BY <1>4, <1>5, <1>6 DEF Puts, w, end, stored

-----------------------------------------------------------------------------
(* Compressed integers                                                     *)

\* What marks that more follow is at least 2.
LEMMA MoreIsPower ==
  ASSUME ConstantsFit
  PROVE  More \in Nat /\ More >= 2 /\ Octets \subseteq Nat
<1>1. More = 2 * PowerOf2[Group - 1] /\ Group - 1 \in Nat
  BY PowerUnfolds DEF More, ConstantsFit
<1>2. PowerOf2[Group - 1] \in Nat \ {0}
  BY <1>1, PowerPositive
<1>3. More \in Nat /\ More >= 2
  BY <1>1, <1>2
<1>4. QED
  BY <1>3 DEF Octets

\* Each round leaves less of a number.
LEMMA LessIsLeft ==
  ASSUME ConstantsFit, NEW v \in Nat, v >= More
  PROVE  v \div More \in Nat /\ v \div More < v /\ v \div More >= 1
<1> DEFINE q == v \div More
<1>1. More \in Nat \ {0} /\ More >= 2 /\ v \in Int
  BY MoreIsPower
<1>2. v = More * q + (v % More) /\ v % More \in 0 .. More - 1 /\ q \in Int
  BY <1>1, Division
<1> DEFINE r == v % More
<1>3. v = More * q + r /\ r \in 0 .. More - 1
  BY <1>2
<1> HIDE DEF q, r
<1>4. q <= 0 => More * q <= 0
  BY <1>1, <1>2
<1>5. q >= 1
  BY <1>1, <1>2, <1>3, <1>4
<1>6. More * q >= 2 * q
  BY <1>1, <1>2, <1>5
<1>7. q < v
  BY <1>1, <1>2, <1>3, <1>5, <1>6
<1>8. QED
  BY <1>2, <1>5, <1>7 DEF q

\* Compressed is defined, and does what its definition says.
LEMMA CompressedUnfolds ==
  ASSUME ConstantsFit
  PROVE  \A v \in Unsigned :
    Compressed[v] = IF v < More THEN <<v>> ELSE <<More + (v % More)>> \o Compressed[v \div More]
<1> DEFINE Follows(g, v) == IF v < More THEN <<v>> ELSE <<More + (v % More)>> \o g[v \div More]
           Defined == {n \in Nat : \E g : g = [v \in 0 .. n |-> Follows(g, v)]}
<1>1. 0 \in Defined
  <2> DEFINE g == [v \in 0 .. 0 |-> <<v>>]
  <2>1. \A v \in 0 .. 0 : g[v] = Follows(g, v)
    BY MoreIsPower
  <2>2. g = [v \in 0 .. 0 |-> Follows(g, v)]
    <3> HIDE DEF Follows
    <3>1. QED
      BY <2>1
  <2> HIDE DEF g, Follows
  <2>3. QED
    BY <2>2
<1>2. ASSUME NEW n \in Nat, n \in Defined PROVE n + 1 \in Defined
  <2>1. PICK g : g = [v \in 0 .. n |-> Follows(g, v)]
    BY <1>2
  <2> DEFINE more == [v \in 0 .. n + 1 |-> IF v = n + 1 THEN Follows(g, v) ELSE g[v]]
  <2>2. ASSUME NEW v \in 0 .. n + 1 PROVE more[v] = Follows(more, v)
    <3>1. more[v] = Follows(g, v)
      <4> HIDE DEF Follows
      <4>1. CASE v = n + 1
        BY <4>1
      <4>2. CASE v # n + 1
        <5>1. v \in 0 .. n
          BY <4>2
        <5>2. QED
          BY <2>1, <4>2, <5>1
      <4>3. QED
        BY <4>1, <4>2
    <3>2. CASE v < More
      <4> HIDE DEF more
      <4>1. QED
        BY <3>1, <3>2
    <3>3. CASE ~(v < More)
      <4> DEFINE q == v \div More
      <4>1. q \in Nat /\ q < v
        BY <3>3, LessIsLeft, MoreIsPower
      <4> HIDE DEF q
      <4>2. q \in 0 .. n + 1 /\ q # n + 1
        BY <4>1
      <4>3. more[q] = g[q]
        BY <4>2
      <4>4. more[v \div More] = g[v \div More]
        BY <4>3 DEF q
      <4> HIDE DEF more
      <4>5. QED
        BY <3>1, <3>3, <4>4
    <3>4. QED
      BY <3>2, <3>3
  <2>3. more = [v \in 0 .. n + 1 |-> Follows(more, v)]
    <3> HIDE DEF Follows
    <3>1. QED
      BY <2>2
  <2> HIDE DEF more, Follows
  <2>4. QED
    BY <2>3
<1>3. \A n \in Nat : n \in Defined
  <2> HIDE DEF Defined
  <2>1. QED
    BY <1>1, <1>2, Induction
<1>4. PowerOf2[Width] - 1 \in Nat
  <2>1. PowerOf2[Width] \in Nat \ {0}
    BY PowerPositive DEF ConstantsFit
  <2>2. QED
    BY <2>1
<1>5. PICK g : g = [v \in Unsigned |-> Follows(g, v)]
  <2>1. PowerOf2[Width] - 1 \in Defined
    BY <1>3, <1>4
  <2> HIDE DEF Follows
  <2>2. QED
    BY <2>1 DEF Unsigned
<1> DEFINE Solves(f) == f = [value \in Unsigned |->
                               IF value < More THEN <<value>>
                               ELSE <<More + (value % More)>> \o f[value \div More]]
<1>6. Solves(g)
  BY <1>5
<1>7. Compressed = CHOOSE f : Solves(f)
  BY DEF Compressed
<1>8. Solves(Compressed)
  <2> HIDE DEF Solves
  <2>1. QED
    BY <1>6, <1>7
<1>9. QED
  BY <1>8

\* Strong induction on the numbers that fit: what holds of v if it holds of
\* what a round leaves holds of all.
LEMMA RoundInduction ==
  ASSUME ConstantsFit, NEW S, \A v \in Unsigned : (v >= More => v \div More \in S) => v \in S
  PROVE  Unsigned \subseteq S
<1> SUFFICES ASSUME Unsigned \ S # {} PROVE FALSE
  OBVIOUS
<1>1. Unsigned \subseteq Nat
  BY DEF Unsigned
<1>2. PICK v \in Unsigned \ S : \A u \in Unsigned \ S : v <= u
  BY <1>1, Least
<1>3. v >= More /\ v \div More \notin S
  BY <1>2
<1> DEFINE q == v \div More
<1>4. q \in Nat /\ q < v
  BY <1>1, <1>2, <1>3, LessIsLeft
<1>5. q \notin S
  BY <1>3
<1> HIDE DEF q
<1>6. PowerOf2[Width] \in Nat
  BY PowerPositive DEF ConstantsFit
<1>7. q \in Unsigned
  BY <1>2, <1>4, <1>6 DEF Unsigned
<1>8. QED
  BY <1>1, <1>2, <1>4, <1>5, <1>7

\* A compressed integer is a sequence of bytes, of which only the last has no mark.
Packed(c) ==
  /\ c \in Seq(Octets) /\ Len(c) >= 1
  /\ c[Len(c)] < More
  /\ \A i \in 1 .. Len(c) - 1 : c[i] >= More

\* Whatever is compressed has that form, by induction over the rounds of the loop that writes.
LEMMA CompressedIsPacked ==
  ASSUME ConstantsFit
  PROVE  \A v \in Unsigned : Packed(Compressed[v])
<1> DEFINE S == {v \in Unsigned : Packed(Compressed[v])}
<1>1. ASSUME NEW v \in Unsigned, v >= More => v \div More \in S PROVE v \in S
  <2>0. v \in Nat /\ More \in Nat /\ More >= 2
    BY MoreIsPower DEF Unsigned
  <2>1. CASE v < More
    <3>1. Compressed[v] = <<v>>
      BY <2>1, CompressedUnfolds
    <3>2. v \in Octets
      BY <2>0, <2>1 DEF Octets
    <3>3. Packed(<<v>>)
      BY <2>0, <2>1, <3>2 DEF Packed
    <3>4. QED
      BY <3>1, <3>3
  <2>2. CASE ~(v < More)
    <3> DEFINE b == More + (v % More)
               c == Compressed[v \div More]
    <3>1. Compressed[v] = <<b>> \o c
      BY <2>2, CompressedUnfolds
    <3>2. Packed(c)
      BY <1>1, <2>0, <2>2
    <3>3. b \in Octets /\ b >= More
      <4>1. v % More \in 0 .. More - 1
        BY <2>0, Division
      <4>2. QED
        BY <2>0, <4>1 DEF Octets
    <3> HIDE DEF b, c
    <3>4. /\ <<b>> \in Seq(Octets) /\ Len(<<b>>) = 1
          /\ c \in Seq(Octets) /\ Len(c) \in Nat /\ Len(c) >= 1
      BY <3>2, <3>3 DEF Packed
    <3>5. /\ <<b>> \o c \in Seq(Octets) /\ Len(<<b>> \o c) = 1 + Len(c)
          /\ \A i \in 1 .. 1 + Len(c) : (<<b>> \o c)[i] = IF i = 1 THEN b ELSE c[i - 1]
      BY <3>4, ConcatProperties
    <3>6. Packed(<<b>> \o c)
      <4>1. (<<b>> \o c)[1 + Len(c)] = c[Len(c)]
        BY <3>4, <3>5
      <4>2. ASSUME NEW i \in 1 .. Len(c) PROVE (<<b>> \o c)[i] >= More
        <5>1. CASE i = 1
          BY <3>3, <3>5, <5>1
        <5>2. CASE i # 1
          <6>1. i - 1 \in 1 .. Len(c) - 1 /\ i \in 1 .. 1 + Len(c)
            BY <3>4, <5>2
          <6>2. QED
            BY <3>2, <3>5, <5>2, <6>1 DEF Packed
        <5>3. QED
          BY <5>1, <5>2
      <4>3. QED
        BY <3>2, <3>4, <3>5, <4>1, <4>2 DEF Packed
    <3>7. QED
      BY <3>1, <3>6
  <2>3. QED
    BY <2>1, <2>2
<1>2. Unsigned \subseteq S
  <2> HIDE DEF S
  <2>1. QED
    BY <1>1, RoundInduction
<1>3. QED
  BY <1>2

\* A remainder of what is small is itself.
LEMMA SmallRemainder ==
  ASSUME NEW b \in Nat \ {0}, NEW r \in 0 .. b - 1
  PROVE  r % b = r
<1>1. b * 0 + r = r /\ 0 \in Int
  OBVIOUS
<1>2. (b * 0 + r) % b = r
  BY <1>1, DivMod
<1>3. QED
  BY <1>1, <1>2

\* Folding a signed number and unfolding it gives the number.
LEMMA ZigzagReturns ==
  ASSUME ConstantsFit, NEW value \in -PowerOf2[Width - 1] .. PowerOf2[Width - 1] - 1
  PROVE  EncodeZigzag(value) \in Unsigned /\ DecodeZigzag(EncodeZigzag(value)) = value
<1> DEFINE half == PowerOf2[Width - 1]
           all == PowerOf2[Width]
           folded == IF value < 0 THEN 2 * (-value) - 1 ELSE 2 * value
<1>1. half \in Nat \ {0} /\ all = 2 * half
  BY PowerUnfolds, PowerPositive, SMTT(30) DEF ConstantsFit
<1>2. value \in Int /\ -half <= value /\ value < half
  BY <1>1
<1>3. folded \in 0 .. all - 1
  <2> HIDE DEF half, all
  <2>1. QED
    BY <1>1, <1>2
<1>4. EncodeZigzag(value) = folded
  <2>1. EncodeZigzag(value) = folded % all
    BY DEF EncodeZigzag
  <2>2. all \in Nat \ {0}
    <3> HIDE DEF half, all
    <3>1. QED
      BY <1>1
  <2> HIDE DEF folded, all
  <2>3. QED
    BY <1>3, <2>1, <2>2, SmallRemainder
<1>5. DecodeZigzag(folded) = value
  <2>1. CASE value < 0
    <3>1. folded = 2 * (-value - 1) + 1 /\ -value - 1 \in Int
      BY <1>2, <2>1
    <3>2. folded % 2 = 1 /\ folded \div 2 = -value - 1
      <4> DEFINE k == -value - 1
      <4>1. folded = 2 * k + 1 /\ k \in Int
        BY <3>1
      <4> HIDE DEF k, folded
      <4>2. (2 * k + 1) \div 2 = k /\ (2 * k + 1) % 2 = 1
        BY <4>1, DivMod
      <4>3. QED
        BY <4>1, <4>2 DEF k
    <3> HIDE DEF folded
    <3>3. QED
      BY <1>2, <3>2 DEF DecodeZigzag
  <2>2. CASE ~(value < 0)
    <3>1. folded = 2 * value + 0
      BY <1>2, <2>2
    <3>2. (2 * value + 0) \div 2 = value /\ (2 * value + 0) % 2 = 0
      BY <1>2, DivMod
    <3> HIDE DEF folded
    <3>3. QED
      BY <3>1, <3>2 DEF DecodeZigzag
  <2>3. QED
    BY <2>1, <2>2
<1>6. QED
  BY <1>3, <1>4, <1>5 DEF Unsigned

\* The groups of some bytes, added up.
Sums(f, bytes) ==
  /\ f \in [0 .. Len(bytes) -> Nat] /\ f[0] = 0
  /\ \A j \in 1 .. Len(bytes) : f[j] = f[j - 1] + (bytes[j] % More) * PowerOf2[Group * (j - 1)]

\* What a group adds.
LEMMA GroupIsNatural ==
  ASSUME ConstantsFit, NEW byte \in Octets, NEW j \in Nat \ {0}
  PROVE  /\ byte % More \in Nat /\ PowerOf2[Group * (j - 1)] \in Nat
         /\ (byte % More) * PowerOf2[Group * (j - 1)] \in Nat
<1>1. byte % More \in Nat
  <2>1. byte \in Int /\ More \in Nat \ {0}
    BY MoreIsPower
  <2>2. byte % More \in 0 .. More - 1
    BY <2>1, Division
  <2>3. QED
    BY <2>1, <2>2
<1>2. Group * (j - 1) \in Nat
  BY DEF ConstantsFit
<1>3. PowerOf2[Group * (j - 1)] \in Nat
  BY <1>2, PowerPositive
<1>4. QED
  BY <1>1, <1>3, Product

\* There is one such function, by recursion over the bytes.
LEMMA SumExists ==
  ASSUME ConstantsFit, NEW bytes \in Seq(Octets)
  PROVE  \E f : Sums(f, bytes)
<1> DEFINE Adds(j) == (bytes[j] % More) * PowerOf2[Group * (j - 1)]
           h == [pair \in Nat \X Nat |-> IF pair[1] \in 1 .. Len(bytes) THEN pair[2] + Adds(pair[1]) ELSE 0]
<1>0. Len(bytes) \in Nat
  OBVIOUS
<1>1. ASSUME NEW j \in 1 .. Len(bytes) PROVE Adds(j) \in Nat
  <2>1. bytes[j] \in Octets /\ j \in Nat \ {0}
    OBVIOUS
  <2>2. QED
    BY <2>1, GroupIsNatural
<1>2. StepOn(h, Nat)
  <2> HIDE DEF Adds
  <2>1. ASSUME NEW pair \in Nat \X Nat
        PROVE  (IF pair[1] \in 1 .. Len(bytes) THEN pair[2] + Adds(pair[1]) ELSE 0) \in Nat
    BY <1>1
  <2>2. QED
    BY <2>1 DEF StepOn
<1>3. PICK f : Continues(f, Nat, 0, h)
  <2> HIDE DEF h
  <2>1. 0 \in Nat
    OBVIOUS
  <2>2. QED
    BY <1>2, <2>1, Recursion, Zenon
<1>4. ASSUME NEW j \in 1 .. Len(bytes) PROVE f[j] = f[j - 1] + Adds(j) /\ f[j - 1] \in Nat
  <2>1. j - 1 \in Nat /\ (j - 1) + 1 = j /\ j \in Nat
    BY <1>0
  <2>2. f[j] = h[<<j, f[j - 1]>>] /\ f[j - 1] \in Nat
    <3> HIDE DEF h
    <3>1. QED
      BY <1>3, <2>1 DEF Continues
  <2> HIDE DEF Adds
  <2>3. QED
    BY <2>1, <2>2
<1> DEFINE g == [j \in 0 .. Len(bytes) |-> f[j]]
<1>5. Sums(g, bytes)
  <2>1. g \in [0 .. Len(bytes) -> Nat] /\ g[0] = 0
    <3> HIDE DEF h
    <3>1. QED
      BY <1>0, <1>3 DEF Continues
  <2>2. ASSUME NEW j \in 1 .. Len(bytes) PROVE g[j] = g[j - 1] + Adds(j)
    <3>1. j \in 0 .. Len(bytes) /\ j - 1 \in 0 .. Len(bytes)
      BY <1>0
    <3> HIDE DEF Adds
    <3>2. QED
      BY <1>4, <3>1
  <2> HIDE DEF g
  <2>3. QED
    BY <2>1, <2>2 DEF Sums
<1>6. QED
  <2> HIDE DEF g
  <2>1. QED
    BY <1>5

\* The loop that reads adds them up.
LEMMA DecompressedSum ==
  ASSUME NEW bytes \in Seq(Octets), NEW f, Sums(f, bytes), Consumed(bytes) \in 1 .. Len(bytes)
  PROVE  Decompressed(bytes) = f[Consumed(bytes)] % PowerOf2[Width]
<1> DEFINE n == Consumed(bytes)
           Solves(g) == g = [j \in 0 .. n |->
                               IF j = 0 THEN 0 ELSE g[j - 1] + (bytes[j] % More) * PowerOf2[Group * (j - 1)]]
           value == CHOOSE g : Solves(g)
           cut == [j \in 0 .. n |-> f[j]]
<1>0. Len(bytes) \in Nat /\ n \in 1 .. Len(bytes)
  OBVIOUS
<1>1. Decompressed(bytes) = value[n] % PowerOf2[Width]
  BY DEF Decompressed
<1> HIDE DEF n
<1>2. Solves(cut)
  <2>1. ASSUME NEW j \in 0 .. n
        PROVE  cut[j] = IF j = 0 THEN 0 ELSE cut[j - 1] + (bytes[j] % More) * PowerOf2[Group * (j - 1)]
    <3>1. CASE j = 0
      BY <3>1 DEF Sums
    <3>2. CASE j # 0
      <4>1. j \in 1 .. Len(bytes) /\ j - 1 \in 0 .. n
        BY <1>0, <3>2
      <4>2. f[j] = f[j - 1] + (bytes[j] % More) * PowerOf2[Group * (j - 1)]
        BY <4>1 DEF Sums
      <4>3. QED
        BY <3>2, <4>1, <4>2
    <3>3. QED
      BY <3>1, <3>2
  <2>2. DOMAIN cut = 0 .. n /\ cut = [j \in 0 .. n |-> cut[j]]
    OBVIOUS
  <2> HIDE DEF cut
  <2>3. QED
    BY <2>1, <2>2
<1>3. Solves(value)
  <2> HIDE DEF Solves, cut
  <2>1. QED
    BY <1>2
<1> HIDE DEF value
<1> DEFINE Same == {j \in Nat : j <= n => value[j] = f[j]}
<1>4. 0 \in Same
  <2>1. 0 \in 0 .. n
    BY <1>0
  <2>2. QED
    BY <1>3, <2>1 DEF Sums
<1>5. ASSUME NEW j \in Nat, j \in Same PROVE j + 1 \in Same
  <2> SUFFICES ASSUME j + 1 <= n PROVE value[j + 1] = f[j + 1]
    OBVIOUS
  <2>1. value[j] = f[j]
    BY <1>0, <1>5
  <2>2. j + 1 \in 0 .. n /\ j + 1 # 0 /\ (j + 1) - 1 = j /\ j + 1 \in 1 .. Len(bytes)
    BY <1>0
  <2>3. value[j + 1] = value[j] + (bytes[j + 1] % More) * PowerOf2[Group * ((j + 1) - 1)]
    BY <1>3, <2>2
  <2>4. f[j + 1] = f[j] + (bytes[j + 1] % More) * PowerOf2[Group * ((j + 1) - 1)]
    BY <2>2 DEF Sums
  <2>5. QED
    BY <2>1, <2>3, <2>4
<1>6. \A j \in Nat : j \in Same
  <2> HIDE DEF Same
  <2>1. QED
    BY <1>4, <1>5, Induction
<1>7. value[n] = f[n]
  BY <1>0, <1>6
<1>8. QED
  BY <1>1, <1>7 DEF n

\* The least of some numbers.
LEMMA MinIsLeast ==
  ASSUME NEW T, T \subseteq Nat, T # {}
  PROVE  Min(T) \in T /\ \A y \in T : Min(T) <= y
BY Least DEF Min

\* More powers are larger.
LEMMA PowerGrows == \A m, n \in Nat : m <= n => PowerOf2[m] <= PowerOf2[n]
<1> SUFFICES ASSUME NEW m \in Nat, NEW n \in Nat, m <= n PROVE PowerOf2[m] <= PowerOf2[n]
  OBVIOUS
<1> DEFINE k == n - m
           p == PowerOf2[m]
           q == PowerOf2[k]
<1>1. k \in Nat /\ n = m + k
  OBVIOUS
<1>2. PowerOf2[n] = p * q
  <2> HIDE DEF k
  <2>1. QED
    BY <1>1, PowerOfSum
<1>3. p \in Nat \ {0} /\ q \in Nat \ {0}
  <2> HIDE DEF k
  <2>1. QED
    BY <1>1, PowerPositive
<1> HIDE DEF p, q
<1>4. p * q >= p
  BY <1>3
<1>5. QED
  BY <1>2, <1>4 DEF p

\* The rounds of the loop that reads are enough for a number.
LEMMA RoundsSuffice ==
  ASSUME ConstantsFit
  PROVE  /\ MaxBytes \in Nat \ {0}
  /\ Width <= Group * MaxBytes
  /\ \A v \in Unsigned : v < PowerOf2[Group * MaxBytes]
<1> DEFINE x == Width + Group - 1
           q == x \div Group
           r == x % Group
<1>1. Width \in Nat \ {0} /\ Group \in Nat \ {0}
  BY DEF ConstantsFit
<1>2. x = Group * q + r /\ r \in 0 .. Group - 1 /\ q \in Int
  <2>1. x \in Int
    BY <1>1
  <2> HIDE DEF x
  <2>2. QED
    BY <1>1, <2>1, Division
<1>3. MaxBytes = q
  BY DEF MaxBytes
<1> HIDE DEF q, r
<1>4. q <= 0 => Group * q <= 0
  BY <1>1, <1>2
<1>5. q \in Nat \ {0} /\ Width <= Group * q
  BY <1>1, <1>2, <1>4
<1>6. PowerOf2[Width] <= PowerOf2[Group * q]
  <2>1. Group * q \in Nat
    BY <1>1, <1>5, Product
  <2>2. QED
    BY <1>1, <1>5, <2>1, PowerGrows
<1>7. PowerOf2[Width] \in Nat /\ PowerOf2[Group * q] \in Nat
  BY <1>1, <1>5, PowerPositive, Product
<1>8. ASSUME NEW v \in Unsigned PROVE v < PowerOf2[Group * q]
  BY <1>6, <1>7 DEF Unsigned
<1>9. QED
  BY <1>3, <1>5, <1>8

\* How many bytes are read is a number, not larger than the rounds.
LEMMA ConsumedIsNumber ==
  ASSUME ConstantsFit, NEW bytes \in Seq(Octets)
  PROVE  Consumed(bytes) \in 1 .. MaxBytes
<1> DEFINE T == {j \in 1 .. Len(bytes) : bytes[j] < More} \cup {MaxBytes}
<1>1. T \subseteq Nat \ {0} /\ MaxBytes \in T /\ MaxBytes \in Nat
  BY RoundsSuffice
<1>2. Consumed(bytes) = Min(T)
  BY DEF Consumed
<1> HIDE DEF T
<1>3. Min(T) \in T /\ Min(T) <= MaxBytes
  BY <1>1, MinIsLeast
<1>4. Consumed(bytes) \in Nat \ {0} /\ Consumed(bytes) <= MaxBytes
  BY <1>1, <1>2, <1>3
<1>5. QED
  BY <1>1, <1>4

\* A number below so many groups has at most so many bytes.
LEMMA CompressedLength ==
  ASSUME ConstantsFit
  PROVE  \A v \in Unsigned : \A m \in Nat \ {0} : v < PowerOf2[Group * m] => Len(Compressed[v]) <= m
<1> DEFINE Short(v) == \A m \in Nat \ {0} : v < PowerOf2[Group * m] => Len(Compressed[v]) <= m
           S == {v \in Unsigned : Short(v)}
<1>1. ASSUME NEW v \in Unsigned, v >= More => v \div More \in S PROVE v \in S
  <2>0. v \in Nat /\ More \in Nat /\ More >= 2
    BY MoreIsPower DEF Unsigned
  <2>1. CASE v < More
    <3>1. Compressed[v] = <<v>>
      BY <2>1, CompressedUnfolds
    <3>2. Len(<<v>>) = 1
      OBVIOUS
    <3>3. Len(Compressed[v]) = 1
      BY <3>1, <3>2
    <3>4. Short(v)
      BY <3>3
    <3>5. QED
      BY <3>4
  <2>2. CASE ~(v < More)
    <3> DEFINE b == More + (v % More)
               q == v \div More
               r == v % More
               c == Compressed[q]
    <3>1. Compressed[v] = <<b>> \o c /\ q \in S
      <4>1. Compressed[v] = <<b>> \o c
        BY <2>2, CompressedUnfolds
      <4>2. v >= More
        BY <2>0, <2>2
      <4> HIDE DEF S
      <4>3. QED
        BY <1>1, <4>1, <4>2
    <3>2. v = More * q + r /\ r \in 0 .. More - 1 /\ q \in Int
      BY <2>0, Division
    <3>3. b \in Octets
      BY <2>0, <3>2 DEF Octets
    <3>4. c \in Seq(Octets)
      BY <3>1, CompressedIsPacked DEF Packed
    <3>5. Len(Compressed[v]) = 1 + Len(c) /\ Len(c) \in Nat
      <4> HIDE DEF b, c
      <4>1. <<b>> \in Seq(Octets) /\ Len(<<b>>) = 1
        BY <3>3
      <4>2. QED
        BY <3>1, <3>4, <4>1, ConcatProperties
    <3>6. ASSUME NEW m \in Nat \ {0}, v < PowerOf2[Group * m] PROVE Len(Compressed[v]) <= m
      <4> DEFINE p == PowerOf2[Group * (m - 1)]
      <4>1. Group * (m - 1) \in Nat /\ Group \in Nat /\ Group * m = Group + Group * (m - 1)
        <5>1. Group \in Nat /\ m - 1 \in Nat
          BY DEF ConstantsFit
        <5>2. Group * (m - 1) \in Nat
          BY <5>1, Product
        <5>3. Group * m = Group + Group * (m - 1)
          BY <5>1
        <5>4. QED
          BY <5>1, <5>2, <5>3
      <4>2. PowerOf2[Group * m] = More * p /\ p \in Nat
        BY <4>1, PowerOfSum, PowerPositive DEF More
      <4>3. q < p
        <5> HIDE DEF p, q, r
        <5>1. q >= p => More * q >= More * p
          BY <2>0, <3>2, <4>2
        <5>2. QED
          BY <2>0, <3>2, <3>6, <4>2, <5>1
      <4>4. m # 1
        <5>1. m = 1 => p = 1
          <6>1. m = 1 => Group * (m - 1) = 0
            BY DEF ConstantsFit
          <6>2. QED
            BY <6>1, PowerUnfolds
        <5>2. q >= 1
          BY <2>0, <2>2, LessIsLeft
        <5> HIDE DEF p, q
        <5>3. QED
          BY <3>2, <4>2, <4>3, <5>1, <5>2
      <4>5. Len(c) <= m - 1
        <5>1. m - 1 \in Nat \ {0}
          BY <4>4
        <5>2. Short(q)
          BY <3>1
        <5> HIDE DEF q
        <5>3. QED
          BY <4>3, <5>1, <5>2
      <4> HIDE DEF c
      <4>6. QED
        BY <3>5, <4>5
    <3>7. QED
      BY <3>6
  <2>3. QED
    BY <2>1, <2>2
<1>2. Unsigned \subseteq S
  <2> HIDE DEF S
  <2>1. QED
    BY <1>1, RoundInduction
<1>3. QED
  BY <1>2

\* One byte in front moves the others up by a group.
LEMMA SumShifts ==
  ASSUME ConstantsFit, NEW b \in Octets, NEW c \in Seq(Octets), NEW f, NEW g, Sums(f,
         <<b>> \o c), Sums(g, c)
  PROVE  f[Len(c) + 1] = (b % More) + More * g[Len(c)]
<1> DEFINE d == <<b>> \o c
           n == Len(c)
           low == b % More
           S == {j \in Nat : j <= n => f[j + 1] = low + More * g[j]}
<1>0. /\ n \in Nat /\ d \in Seq(Octets) /\ Len(d) = n + 1
      /\ d[1] = b /\ \A j \in 1 .. n : d[j + 1] = c[j]
  <2>1. <<b>> \in Seq(Octets) /\ Len(<<b>>) = 1
    OBVIOUS
  <2>2. QED
    BY <2>1, ConcatProperties
<1>1. low \in Nat /\ More \in Nat /\ Group \in Nat
  BY GroupIsNatural, MoreIsPower DEF ConstantsFit
<1> HIDE DEF d, n, low
<1>2. 0 \in S
  <2>1. f[1] = f[0] + (d[1] % More) * PowerOf2[Group * (1 - 1)] /\ f[0] = 0 /\ g[0] = 0
    <3>1. 1 \in 1 .. Len(d) /\ 1 - 1 = 0
      BY <1>0
    <3>2. QED
      BY <3>1 DEF Sums, d
  <2>2. Group * (1 - 1) = 0 /\ PowerOf2[0] = 1
    BY <1>1, PowerUnfolds
  <2>3. d[1] % More = low
    BY <1>0 DEF low
  <2>4. f[1] = low
    BY <1>1, <2>1, <2>2, <2>3
  <2>5. QED
    BY <1>1, <2>1, <2>4
<1>3. ASSUME NEW j \in Nat, j \in S PROVE j + 1 \in S
  <2> SUFFICES ASSUME j + 1 <= n PROVE f[(j + 1) + 1] = low + More * g[j + 1]
    OBVIOUS
  <2> DEFINE part == c[j + 1] % More
             p == PowerOf2[Group * j]
  <2>1. f[j + 1] = low + More * g[j] /\ g[j] \in Nat
    <3>1. j <= n /\ j \in 0 .. n
      BY <1>0
    <3>2. g[j] \in Nat
      BY <3>1 DEF Sums, n
    <3>3. QED
      BY <1>3, <3>1, <3>2
  <2>2. g[j + 1] = g[j] + part * p
    <3>1. j + 1 \in 1 .. n /\ (j + 1) - 1 = j
      BY <1>0
    <3>2. g[j + 1] = g[(j + 1) - 1] + (c[j + 1] % More) * PowerOf2[Group * ((j + 1) - 1)]
      BY <3>1 DEF Sums, n
    <3>3. QED
      BY <3>1, <3>2
  <2>3. f[(j + 1) + 1] = f[j + 1] + part * PowerOf2[Group * (j + 1)]
    <3>1. (j + 1) + 1 \in 1 .. Len(d) /\ ((j + 1) + 1) - 1 = j + 1 /\ j + 1 \in 1 .. n
      BY <1>0
    <3>2. f[(j + 1) + 1] = f[((j + 1) + 1) - 1] + (d[(j + 1) + 1] % More) * PowerOf2[Group * (((j + 1) + 1) - 1)]
      BY <3>1 DEF Sums, d
    <3>3. d[(j + 1) + 1] = c[j + 1]
      BY <1>0, <3>1
    <3>4. QED
      BY <3>1, <3>2, <3>3
  <2>4. PowerOf2[Group * (j + 1)] = More * p /\ p \in Nat
    <3>1. Group * j \in Nat /\ Group * (j + 1) = Group + Group * j
      BY <1>1
    <3>2. QED
      BY <1>1, <3>1, PowerOfSum, PowerPositive DEF More
  <2>5. part \in Nat
    <3>1. j + 1 \in 1 .. n
      BY <1>0
    <3>2. c[j + 1] \in Octets
      BY <3>1 DEF n
    <3>3. QED
      BY <3>2, GroupIsNatural
  <2> DEFINE x == g[j]
             fs == f[(j + 1) + 1]
             gs == g[j + 1]
  <2> HIDE DEF part, p
  <2>6. fs = (low + More * x) + part * (More * p) /\ gs = x + part * p /\ x \in Nat
    BY <2>1, <2>2, <2>3, <2>4
  <2> HIDE DEF x, fs, gs
  <2>7. fs = low + More * gs
    BY <1>1, <2>4, <2>5, <2>6
  <2>8. QED
    BY <2>7 DEF fs, gs
<1>4. \A j \in Nat : j \in S
  <2> HIDE DEF S
  <2>1. QED
    BY <1>2, <1>3, Induction
<1>5. f[n + 1] = low + More * g[n]
  BY <1>0, <1>4
<1>6. QED
  BY <1>5 DEF n, low

\* The bytes of a number add up to it.
LEMMA CompressedSum ==
  ASSUME ConstantsFit
  PROVE  \A v \in Unsigned : \A f : Sums(f, Compressed[v]) => f[Len(Compressed[v])] = v
<1> DEFINE Right(v) == \A f : Sums(f, Compressed[v]) => f[Len(Compressed[v])] = v
           S == {v \in Unsigned : Right(v)}
<1>1. ASSUME NEW v \in Unsigned, v >= More => v \div More \in S PROVE v \in S
  <2>0. v \in Nat /\ More \in Nat /\ More >= 2
    BY MoreIsPower DEF Unsigned
  <2>1. CASE v < More
    <3>1. Compressed[v] = <<v>> /\ Len(<<v>>) = 1 /\ <<v>>[1] = v
      BY <2>1, CompressedUnfolds
    <3>2. ASSUME NEW f, Sums(f, Compressed[v]) PROVE f[Len(Compressed[v])] = v
      <4>1. f[1] = f[0] + (v % More) * PowerOf2[Group * (1 - 1)] /\ f[0] = 0
        <5>1. Sums(f, <<v>>) /\ 1 \in 1 .. Len(<<v>>) /\ 1 - 1 = 0
          BY <3>1, <3>2
        <5>2. QED
          BY <3>1, <5>1 DEF Sums
      <4>2. Group * (1 - 1) = 0 /\ PowerOf2[0] = 1
        BY PowerUnfolds DEF ConstantsFit
      <4>3. v % More = v
        BY <2>0, <2>1, SmallRemainder
      <4>4. f[1] = v
        BY <2>0, <4>1, <4>2, <4>3
      <4>5. QED
        BY <3>1, <4>4
    <3>3. QED
      BY <3>2
  <2>2. CASE ~(v < More)
    <3> DEFINE b == More + (v % More)
               q == v \div More
               r == v % More
               c == Compressed[q]
    <3>1. Compressed[v] = <<b>> \o c /\ q \in S
      <4>1. Compressed[v] = <<b>> \o c
        BY <2>2, CompressedUnfolds
      <4>2. v >= More
        BY <2>0, <2>2
      <4> HIDE DEF S
      <4>3. QED
        BY <1>1, <4>1, <4>2
    <3>2. v = More * q + r /\ r \in 0 .. More - 1 /\ q \in Int
      BY <2>0, Division
    <3>3. b \in Octets
      BY <2>0, <3>2 DEF Octets
    <3>4. c \in Seq(Octets) /\ Right(q)
      BY <3>1, CompressedIsPacked DEF Packed
    <3>5. b % More = r
      <4>1. b = More * 1 + r /\ 1 \in Int
        BY <2>0, <3>2
      <4> HIDE DEF b, r
      <4>2. (More * 1 + r) % More = r
        BY <2>0, <3>2, DivMod
      <4>3. QED
        BY <4>1, <4>2
    <3>6. ASSUME NEW f, Sums(f, Compressed[v]) PROVE f[Len(Compressed[v])] = v
      <4>1. PICK g : Sums(g, c)
        BY <3>4, SumExists
      <4>2. g[Len(c)] = q
        BY <3>4, <4>1
      <4> HIDE DEF b, c, q, r
      <4>3. f[Len(c) + 1] = (b % More) + More * g[Len(c)]
        BY <3>1, <3>3, <3>4, <3>6, <4>1, SumShifts
      <4>4. Len(Compressed[v]) = Len(c) + 1
        <5>1. <<b>> \in Seq(Octets) /\ Len(<<b>>) = 1 /\ Len(c) \in Nat
          BY <3>3, <3>4
        <5>2. QED
          BY <3>1, <3>4, <5>1, ConcatProperties
      <4>5. QED
        BY <2>0, <3>2, <3>5, <4>2, <4>3, <4>4
    <3>7. Right(v)
      BY <3>6
    <3>8. QED
      BY <3>7
  <2>3. QED
    BY <2>1, <2>2
<1>2. Unsigned \subseteq S
  <2> HIDE DEF S
  <2>1. QED
    BY <1>1, RoundInduction
<1>3. QED
  BY <1>2

\* Whatever follows the bytes of a number, the loop that reads stops behind them
\* and gives the number.
LEMMA NumberReturns ==
  ASSUME ConstantsFit, NEW v \in Unsigned, NEW bytes \in Seq(Octets),
         Len(Compressed[v]) <= Len(bytes),
         \A i \in 1 .. Len(Compressed[v]) : bytes[i] = Compressed[v][i]
  PROVE  Consumed(bytes) = Len(Compressed[v]) /\ Decompressed(bytes) = v
<1> DEFINE c == Compressed[v]
           n == Len(c)
           T == {j \in 1 .. Len(bytes) : bytes[j] < More} \cup {MaxBytes}
<1>1. /\ Packed(c) /\ c \in Seq(Octets) /\ n \in Nat \ {0} /\ Len(bytes) \in Nat /\ n <= Len(bytes)
      /\ \A i \in 1 .. n : bytes[i] = c[i]
  BY CompressedIsPacked DEF Packed
<1>2. n <= MaxBytes /\ MaxBytes \in Nat
  <2>1. \A m \in Nat \ {0} : v < PowerOf2[Group * m] => n <= m
    BY CompressedLength
  <2> HIDE DEF n, c
  <2>2. QED
    BY <2>1, RoundsSuffice
<1> HIDE DEF n, c
<1>3. n \in T /\ T \subseteq Nat
  <2>1. bytes[n] < More /\ n \in 1 .. Len(bytes)
    <3>1. c[n] < More
      BY <1>1 DEF Packed, n
    <3>2. QED
      BY <1>1, <3>1
  <2>2. QED
    BY <1>1, <1>2, <2>1
<1>4. \A j \in T : n <= j
  <2>1. ASSUME NEW j \in 1 .. Len(bytes), bytes[j] < More, j < n PROVE FALSE
    <3>1. j \in 1 .. n - 1 /\ j \in 1 .. n
      BY <1>1, <2>1
    <3>2. c[j] >= More /\ bytes[j] = c[j]
      BY <1>1, <3>1 DEF Packed, n
    <3>3. bytes[j] \in Nat /\ More \in Nat
      <4>1. bytes[j] \in Octets
        BY <2>1
      <4>2. QED
        BY <4>1, MoreIsPower
    <3>4. QED
      BY <2>1, <3>2, <3>3
  <2>2. QED
    BY <1>1, <1>2, <2>1
<1>5. Consumed(bytes) = n
  <2>1. Consumed(bytes) = Min(T)
    BY DEF Consumed
  <2> HIDE DEF T
  <2>2. Min(T) \in T /\ \A y \in T : Min(T) <= y
    BY <1>3, MinIsLeast
  <2>3. Min(T) \in Nat /\ Min(T) <= n /\ n <= Min(T)
    BY <1>3, <1>4, <2>2
  <2>4. QED
    BY <1>1, <2>1, <2>3
<1>6. PICK f : Sums(f, bytes)
  BY SumExists
<1> DEFINE g == [j \in 0 .. n |-> f[j]]
<1>7. Sums(g, c)
  <2>1. g \in [0 .. n -> Nat] /\ g[0] = 0
    <3>1. f \in [0 .. Len(bytes) -> Nat] /\ f[0] = 0
      BY <1>6 DEF Sums
    <3>2. 0 \in 0 .. n /\ \A j \in 0 .. n : j \in 0 .. Len(bytes)
      BY <1>1
    <3>3. QED
      BY <3>1, <3>2
  <2>2. ASSUME NEW j \in 1 .. n PROVE g[j] = g[j - 1] + (c[j] % More) * PowerOf2[Group * (j - 1)]
    <3>1. j \in 0 .. n /\ j - 1 \in 0 .. n /\ j \in 1 .. Len(bytes)
      BY <1>1
    <3>2. f[j] = f[j - 1] + (bytes[j] % More) * PowerOf2[Group * (j - 1)]
      BY <1>6, <3>1 DEF Sums
    <3>3. QED
      BY <1>1, <3>1, <3>2
  <2> HIDE DEF g
  <2>3. QED
    BY <2>1, <2>2 DEF Sums, n
<1>8. g[n] = v
  <2> HIDE DEF g
  <2>1. QED
    BY <1>7, CompressedSum DEF n, c
<1>9. Decompressed(bytes) = v % PowerOf2[Width]
  <2>1. Consumed(bytes) \in 1 .. Len(bytes)
    BY <1>1, <1>5
  <2>2. Decompressed(bytes) = f[n] % PowerOf2[Width]
    BY <1>5, <1>6, <2>1, DecompressedSum
  <2>3. f[n] = g[n]
    BY <1>1
  <2>4. QED
    BY <1>8, <2>2, <2>3
<1>10. v % PowerOf2[Width] = v
  <2>1. PowerOf2[Width] \in Nat \ {0}
    BY PowerPositive DEF ConstantsFit
  <2>2. QED
    BY <2>1, SmallRemainder DEF Unsigned
<1>11. QED
  BY <1>5, <1>9, <1>10 DEF n, c

-----------------------------------------------------------------------------
(* The array as one sequence of bytes                                      *)

DataOf(a) == [k \in 1 .. a.size |-> Cell(a, k - 1)]

\* It is a sequence of bytes.
LEMMA DataIsSequence ==
  ASSUME ConstantsFit, NEW a \in Chains
  PROVE  /\ DataOf(a) \in Seq(Octets) /\ Len(DataOf(a)) = a.size
         /\ \A k \in 1 .. a.size : DataOf(a)[k] = Cell(a, k - 1)
<1>1. a.size \in Nat /\ a.capacity \in Nat /\ a.size <= a.capacity
  BY ChainFields
<1>2. ASSUME NEW k \in 1 .. a.size PROVE Cell(a, k - 1) \in Octets
  <2>1. k - 1 \in 0 .. a.capacity - 1
    BY <1>1
  <2>2. QED
    BY <2>1, CellsAreOctets
<1>3. QED
  BY <1>1, <1>2 DEF DataOf

\* A part of a sequence.
LEMMA PartOf ==
  ASSUME NEW S, NEW s \in Seq(S), NEW i \in 1 .. Len(s) + 1, NEW j \in Nat, i <= j + 1, j <= Len(s)
  PROVE  /\ SubSeq(s, i, j) \in Seq(S) /\ Len(SubSeq(s, i, j)) = j - i + 1
         /\ \A k \in 1 .. j - i + 1 : SubSeq(s, i, j)[k] = s[i + k - 1]
<1>1. \A k \in i .. j : s[k] \in S
  OBVIOUS
<1>2. i \in Int /\ j \in Int
  OBVIOUS
<1>3. /\ SubSeq(s, i, j) \in Seq(S)
      /\ Len(SubSeq(s, i, j)) = IF i <= j THEN j - i + 1 ELSE 0
      /\ \A k \in 1 .. j - i + 1 : SubSeq(s, i, j)[k] = s[i + k - 1]
  BY <1>1, <1>2, SubSeqProperties
<1>4. (IF i <= j THEN j - i + 1 ELSE 0) = j - i + 1
  OBVIOUS
<1>5. QED
  BY <1>3, <1>4

\* Bytes put into the blocks replace what lies behind the position and extend the rest.
LEMMA PutsData ==
  ASSUME ConstantsFit, NEW a \in Chains, NEW bytes \in Seq(Octets), NEW w, Puts(a, bytes, w)
  PROVE  DataOf(w) = SubSeq(DataOf(a), 1, a.position) \o bytes
                       \o SubSeq(DataOf(a), a.position + Len(bytes) + 1, Len(DataOf(a)))
<1> DEFINE d == DataOf(a)
           p == a.position
           m == Len(bytes)
           front == SubSeq(d, 1, p)
           back == SubSeq(d, p + m + 1, Len(d))
           rest == IF p + m < a.size THEN a.size - p - m ELSE 0
           new == DataOf(w)
<1>1. /\ p \in Nat /\ a.size \in Nat /\ p <= a.size /\ m \in Nat
      /\ d \in Seq(Octets) /\ Len(d) = a.size /\ \A k \in 1 .. a.size : d[k] = Cell(a, k - 1)
  BY ChainFields, DataIsSequence
<1>2. /\ w \in Chains /\ w.size = (IF p + m > a.size THEN p + m ELSE a.size)
      /\ \A i \in 0 .. w.size - 1 :
           Cell(w, i) = IF i \in p .. p + m - 1 THEN bytes[i - p + 1] ELSE Cell(a, i)
  BY DEF Puts
<1>3. new \in Seq(Octets) /\ Len(new) = w.size /\ \A k \in 1 .. w.size : new[k] = Cell(w, k - 1)
  BY <1>2, DataIsSequence
<1> HIDE DEF d, p, m, new
<1>4. front \in Seq(Octets) /\ Len(front) = p /\ \A k \in 1 .. p : front[k] = d[k]
  <2>1. 1 \in 1 .. Len(d) + 1 /\ 1 <= p + 1 /\ p <= Len(d)
    BY <1>1
  <2>2. /\ SubSeq(d, 1, p) \in Seq(Octets) /\ Len(SubSeq(d, 1, p)) = p - 1 + 1
        /\ \A k \in 1 .. p - 1 + 1 : SubSeq(d, 1, p)[k] = d[1 + k - 1]
    BY <1>1, <2>1, PartOf
  <2>3. p - 1 + 1 = p /\ \A k \in 1 .. p : 1 + k - 1 = k
    BY <1>1
  <2>4. QED
    BY <2>2, <2>3
<1>5. /\ back \in Seq(Octets) /\ Len(back) = rest
      /\ \A k \in 1 .. rest : back[k] = d[p + m + k]
  <2>1. CASE p + m < a.size
    <3>1. p + m + 1 \in 1 .. Len(d) + 1 /\ Len(d) \in Nat /\ p + m + 1 <= Len(d) + 1
      BY <1>1, <2>1
    <3>2. /\ back \in Seq(Octets) /\ Len(back) = Len(d) - (p + m + 1) + 1
          /\ \A k \in 1 .. Len(d) - (p + m + 1) + 1 : back[k] = d[(p + m + 1) + k - 1]
      BY <1>1, <3>1, PartOf
    <3>3. Len(d) - (p + m + 1) + 1 = rest /\ \A k \in 1 .. rest : (p + m + 1) + k - 1 = p + m + k
      BY <1>1, <2>1
    <3>4. QED
      BY <3>2, <3>3
  <2>2. CASE ~(p + m < a.size)
    <3>1. Len(d) < p + m + 1 /\ p + m + 1 \in Int /\ Len(d) \in Int
      BY <1>1, <2>2
    <3>2. back = <<>>
      BY <3>1, SubSeqEmpty
    <3>3. rest = 0
      BY <2>2
    <3> HIDE DEF back, rest
    <3>4. QED
      BY <3>2, <3>3
  <2>3. QED
    BY <2>1, <2>2
<1>6. rest \in Nat /\ w.size = p + m + rest
  <2>1. w.size = IF p + m > a.size THEN p + m ELSE a.size
    BY <1>2
  <2>2. CASE p + m < a.size
    <3>1. ~(p + m > a.size)
      BY <1>1, <2>2
    <3>2. w.size = a.size
      BY <2>1, <3>1
    <3>3. rest = a.size - p - m
      BY <2>2
    <3> HIDE DEF rest
    <3>4. a.size - p - m \in Nat /\ p + m + (a.size - p - m) = a.size
      BY <1>1, <2>2
    <3>5. QED
      BY <3>2, <3>3, <3>4
  <2>3. CASE ~(p + m < a.size)
    <3>1. w.size = p + m
      BY <1>1, <2>1, <2>3
    <3>2. QED
      BY <1>1, <2>3, <3>1
  <2>4. QED
    BY <2>2, <2>3
<1> HIDE DEF front, back, rest
<1> DEFINE first == front \o bytes
           all == first \o back
<1>7. /\ first \in Seq(Octets) /\ Len(first) = p + m
      /\ \A k \in 1 .. p + m : first[k] = IF k <= p THEN front[k] ELSE bytes[k - p]
  BY <1>1, <1>4, ConcatProperties DEF m
<1> HIDE DEF first
<1>8. /\ all \in Seq(Octets) /\ Len(all) = p + m + rest
      /\ \A k \in 1 .. p + m + rest : all[k] = IF k <= p + m THEN first[k] ELSE back[k - (p + m)]
  <2>1. /\ all \in Seq(Octets) /\ Len(all) = Len(first) + Len(back)
        /\ \A k \in 1 .. Len(first) + Len(back) :
             all[k] = IF k <= Len(first) THEN first[k] ELSE back[k - Len(first)]
    BY <1>5, <1>7, ConcatProperties
  <2> HIDE DEF all
  <2>2. QED
    BY <1>5, <1>7, <2>1
<1> HIDE DEF all
<1>9. ASSUME NEW k \in 1 .. w.size PROVE new[k] = all[k]
  <2>1. k \in 1 .. p + m + rest /\ k - 1 \in 0 .. w.size - 1
    BY <1>1, <1>6
  <2>2. new[k] = IF k - 1 \in p .. p + m - 1 THEN bytes[(k - 1) - p + 1] ELSE Cell(a, k - 1)
    BY <1>2, <1>3, <2>1
  <2>3. CASE k <= p
    <3>1. k - 1 \notin p .. p + m - 1 /\ k \in 1 .. p /\ k \in 1 .. a.size /\ k <= p + m /\ k \in 1 .. p + m
      BY <1>1, <2>1, <2>3
    <3>2. all[k] = d[k] /\ d[k] = Cell(a, k - 1)
      BY <1>1, <1>4, <1>7, <1>8, <2>1, <2>3, <3>1
    <3>3. QED
      BY <2>2, <3>1, <3>2
  <2>4. CASE p < k /\ k <= p + m
    <3>1. k - 1 \in p .. p + m - 1 /\ k \in 1 .. p + m /\ (k - 1) - p + 1 = k - p /\ ~(k <= p)
      BY <1>1, <2>1, <2>4
    <3>2. all[k] = bytes[k - p]
      BY <1>7, <1>8, <2>1, <2>4, <3>1
    <3>3. QED
      BY <2>2, <3>1, <3>2
  <2>5. CASE p + m < k
    <3>1. /\ k - 1 \notin p .. p + m - 1 /\ ~(k <= p + m) /\ k - (p + m) \in 1 .. rest
          /\ p + m + (k - (p + m)) = k
      BY <1>1, <1>6, <2>1, <2>5
    <3>2. k \in 1 .. a.size
      BY <1>1, <1>2, <1>6, <2>5, <3>1 DEF rest
    <3>3. all[k] = d[k] /\ d[k] = Cell(a, k - 1)
      BY <1>1, <1>5, <1>8, <2>1, <3>1, <3>2
    <3>4. QED
      BY <2>2, <3>1, <3>3
  <2>6. k \in Int
    BY <1>6
  <2>7. QED
    BY <1>1, <2>3, <2>4, <2>5, <2>6
<1>10. new = all
  BY <1>3, <1>6, <1>8, <1>9, SeqEqual
<1>11. QED
  BY <1>10 DEF new, all, first, front, back, d, p, m

\* What is fetched is a part of the data.
LEMMA FetchedData ==
  ASSUME ConstantsFit, NEW a \in Chains, NEW n \in Nat, n <= Readable(a)
  PROVE  /\ Fetched(a, n) = SubSeq(DataOf(a), a.position + 1, a.position + n)
         /\ Fetched(a, n) \in Seq(Octets) /\ Len(Fetched(a, n)) = n
<1> DEFINE d == DataOf(a)
           p == a.position
           part == SubSeq(d, p + 1, p + n)
<1>1. /\ p \in Nat /\ a.size \in Nat /\ a.capacity \in Nat /\ p <= a.size /\ a.size <= a.capacity
      /\ p + n <= a.size /\ p + n <= a.capacity
      /\ d \in Seq(Octets) /\ Len(d) = a.size /\ \A k \in 1 .. a.size : d[k] = Cell(a, k - 1)
  BY ChainFields, DataIsSequence DEF Readable
<1>2. Fetched(a, n) = [k \in 1 .. n |-> Cell(a, p + k - 1)]
  BY <1>1, FetchedBytes
<1> HIDE DEF d, p
<1>3. /\ part \in Seq(Octets) /\ Len(part) = n /\ \A k \in 1 .. n : part[k] = d[p + k]
  <2>1. p + 1 \in 1 .. Len(d) + 1 /\ p + n \in Nat /\ p + 1 <= (p + n) + 1 /\ p + n <= Len(d)
    BY <1>1
  <2>2. /\ part \in Seq(Octets) /\ Len(part) = (p + n) - (p + 1) + 1
        /\ \A k \in 1 .. (p + n) - (p + 1) + 1 : part[k] = d[(p + 1) + k - 1]
    BY <1>1, <2>1, PartOf
  <2>3. (p + n) - (p + 1) + 1 = n /\ \A k \in 1 .. n : (p + 1) + k - 1 = p + k
    BY <1>1
  <2>4. QED
    BY <2>2, <2>3
<1> HIDE DEF part
<1>4. ASSUME NEW k \in 1 .. n PROVE part[k] = Cell(a, p + k - 1)
  <2>1. p + k \in 1 .. a.size
    BY <1>1
  <2>2. QED
    BY <1>1, <1>3, <2>1, SMTT(30)
<1>5. part = [k \in 1 .. n |-> part[k]]
  BY <1>3
<1>6. part = [k \in 1 .. n |-> Cell(a, p + k - 1)]
  BY <1>4, <1>5
<1>7. Fetched(a, n) = part
  BY <1>2, <1>6
<1>8. QED
  BY <1>3, <1>7 DEF part, d, p

-----------------------------------------------------------------------------
(* Invariants                                                              *)

Calls ==
  [kind : {"none", "read", "write", "returned", "ended"}, length : Nat, todo : Nat, start : Nat,
   first : Nat, errors : Nat]

\* The integer written last still lies where it was written.
NumberStands ==
  number # NoNumber =>
    LET c == Compressed[EncodeZigzag(number.value)] IN
    /\ number.value \in Numbers /\ number.start \in Nat
    /\ number.start + Len(c) <= array.size
    /\ \A i \in 1 .. Len(c) : Cell(array, number.start + i - 1) = c[i]

\* The chain of blocks, the types and the number.
ArrayInv ==
  /\ array \in Chains
  /\ crashed \in BOOLEAN
  /\ taken \in 0 .. Len(Peer)
  /\ call \in Calls
  /\ NumberStands

\* What a call has still to do fits its length and errors.
ExactInv ==
  /\ FixedSizeExact
  /\ call.kind # "none" => call.length \in 1 .. MaxLength
  /\ call.errors <= MaxErrors
  /\ call.todo <= call.length + call.errors

\* Bytes below the size stay where only the size, the position and the chain change.
Keeps(a, w) == w \in Chains /\ w.size >= a.size /\ \A i \in 0 .. a.size - 1 : Cell(w, i) = Cell(a, i)

\* A step that keeps the bytes below the size keeps the integer where it is.
LEMMA KeptNumber ==
  ASSUME ConstantsFit, array \in Chains, NumberStands, Keeps(array, array'), UNCHANGED number
  PROVE  NumberStands'
<1> SUFFICES ASSUME number # NoNumber PROVE NumberStands'
  BY DEF NumberStands
<1> DEFINE c == Compressed[EncodeZigzag(number.value)]
           start == number.start
<1>1. /\ number.value \in Numbers /\ start \in Nat /\ start + Len(c) <= array.size
      /\ \A i \in 1 .. Len(c) : Cell(array, start + i - 1) = c[i]
  BY DEF NumberStands
<1>2. number.value \in -PowerOf2[Width - 1] .. PowerOf2[Width - 1] - 1
  BY <1>1 DEF ConstantsFit
<1>3. c \in Seq(Octets) /\ Len(c) \in Nat
  BY <1>2, ZigzagReturns, CompressedIsPacked DEF Packed
<1>4. array.size \in Nat /\ array'.size \in Nat /\ array'.size >= array.size
  BY ChainFields DEF Keeps
<1> HIDE DEF c, start
<1>5. start + Len(c) <= array'.size
  BY <1>1, <1>3, <1>4
<1>6. ASSUME NEW i \in 1 .. Len(c) PROVE Cell(array', start + i - 1) = c[i]
  <2>1. start + i - 1 \in 0 .. array.size - 1
    BY <1>1, <1>3, <1>4
  <2>2. QED
    BY <1>1, <2>1 DEF Keeps
<1>7. QED
  BY <1>1, <1>5, <1>6 DEF NumberStands, c, start

\* What moves the position within the array keeps the bytes.
LEMMA MovedKeeps ==
  ASSUME ConstantsFit, NEW a \in Chains, NEW n \in Nat, n <= Readable(a)
  PROVE  /\ Moved(a, n) \in Chains /\ Keeps(a, Moved(a, n))
         /\ DataOf(Moved(a, n)) = DataOf(a) /\ Moved(a, n).position = a.position + n
<1> DEFINE w == Moved(a, n)
<1>1. /\ a.position \in Nat /\ a.size \in Nat /\ a.capacity \in Nat
      /\ a.position + n <= a.size /\ a.position + n <= a.capacity
  BY ChainFields DEF Readable
<1>2. /\ w \in Chains /\ w.position = a.position + n /\ w.blocks = a.blocks
      /\ w.size = IF a.position + n > a.size THEN a.position + n ELSE a.size
  BY <1>1, MovedChain
<1> HIDE DEF w
<1>3. w.size = a.size
  BY <1>1, <1>2
<1>4. \A i : Cell(w, i) = Cell(a, i)
  BY <1>2 DEF Cell
<1>5. Keeps(a, w)
  BY <1>1, <1>2, <1>3, <1>4 DEF Keeps
<1>6. DataOf(w) = DataOf(a)
  BY <1>3, <1>4 DEF DataOf
<1>7. QED
  BY <1>2, <1>5, <1>6 DEF w

\* So does room for more.
LEMMA ExpandedSame ==
  ASSUME ConstantsFit, NEW a \in Chains, NEW required \in Nat, NEW fill \in Fills
  PROVE  LET w == Expanded(a, required, fill) IN
         /\ Keeps(a, w) /\ DataOf(w) = DataOf(a) /\ w.position = a.position
<1> DEFINE w == Expanded(a, required, fill)
<1>1. /\ w \in Chains /\ w.size = a.size /\ w.position = a.position
      /\ \A i \in 0 .. a.capacity - 1 : Cell(w, i) = Cell(a, i)
  BY ExpandedKeeps
<1>2. a.size \in Nat /\ a.capacity \in Nat /\ a.size <= a.capacity
  BY ChainFields
<1> HIDE DEF w
<1>3. \A i \in 0 .. a.size - 1 : Cell(w, i) = Cell(a, i)
  BY <1>1, <1>2
<1>4. \A k \in 1 .. a.size : Cell(w, k - 1) = Cell(a, k - 1)
  <2>1. \A k \in 1 .. a.size : k - 1 \in 0 .. a.size - 1
    BY <1>2
  <2>2. QED
    BY <1>3, <2>1
<1>5. DataOf(w) = DataOf(a)
  BY <1>1, <1>4 DEF DataOf
<1>6. Keeps(a, w)
  BY <1>1, <1>2, <1>3 DEF Keeps
<1>7. QED
  BY <1>1, <1>5, <1>6 DEF w

\* And a position set in front of the end.
LEMMA PositionedKeeps ==
  ASSUME ConstantsFit, NEW a \in Chains, NEW n \in Nat, n < a.capacity
  PROVE  LET w == Positioned(a, n) IN
         /\ Keeps(a, w) /\ w.position = n
         /\ w.size = (IF n > a.size THEN n ELSE a.size)
         /\ \A k \in 1 .. a.size : DataOf(w)[k] = DataOf(a)[k]
<1> DEFINE w == Positioned(a, n)
<1>1. /\ w \in Chains /\ w.blocks = a.blocks /\ w.position = n
      /\ w.size = (IF n > a.size THEN n ELSE a.size)
  BY PositionedChain
<1>2. a.size \in Nat /\ w.size \in Nat
  BY <1>1, ChainFields
<1> HIDE DEF w
<1>3. \A i : Cell(w, i) = Cell(a, i)
  BY <1>1 DEF Cell
<1>4. w.size >= a.size
  BY <1>1, <1>2
<1>5. Keeps(a, w)
  BY <1>1, <1>3, <1>4 DEF Keeps
<1>6. ASSUME NEW k \in 1 .. a.size PROVE DataOf(w)[k] = DataOf(a)[k]
  <2>1. k \in 1 .. w.size
    BY <1>2, <1>4
  <2>2. QED
    BY <1>3, <2>1 DEF DataOf
<1>7. QED
  BY <1>1, <1>5, <1>6 DEF w

-----------------------------------------------------------------------------
(* A file, piece by piece                                                  *)

\* The text up to a place and the part that follows.
LEMMA PartsJoin ==
  ASSUME NEW text \in Seq(Octets), NEW i \in 0 .. Len(text), NEW j \in i .. Len(text)
  PROVE  /\ SubSeq(text, 1, i) \in Seq(Octets) /\ SubSeq(text, i + 1, j) \in Seq(Octets)
         /\ SubSeq(text, 1, j) = SubSeq(text, 1, i) \o SubSeq(text, i + 1, j)
<1> DEFINE a == SubSeq(text, 1, i)
           b == SubSeq(text, i + 1, j)
           c == SubSeq(text, 1, j)
<1>0. i \in Nat /\ j \in Nat /\ i <= j /\ Len(text) \in Nat /\ j <= Len(text)
  OBVIOUS
<1>1. a \in Seq(Octets) /\ Len(a) = i /\ \A k \in 1 .. i : a[k] = text[k]
  <2>1. 1 \in 1 .. Len(text) + 1 /\ 1 <= i + 1 /\ i <= Len(text)
    BY <1>0
  <2>2. a \in Seq(Octets) /\ Len(a) = i - 1 + 1 /\ \A k \in 1 .. i - 1 + 1 : a[k] = text[1 + k - 1]
    BY <1>0, <2>1, PartOf
  <2>3. i - 1 + 1 = i /\ \A k \in 1 .. i : 1 + k - 1 = k
    BY <1>0
  <2>4. QED
    BY <2>2, <2>3
<1>2. c \in Seq(Octets) /\ Len(c) = j /\ \A k \in 1 .. j : c[k] = text[k]
  <2>1. 1 \in 1 .. Len(text) + 1 /\ 1 <= j + 1 /\ j <= Len(text)
    BY <1>0
  <2>2. c \in Seq(Octets) /\ Len(c) = j - 1 + 1 /\ \A k \in 1 .. j - 1 + 1 : c[k] = text[1 + k - 1]
    BY <1>0, <2>1, PartOf
  <2>3. j - 1 + 1 = j /\ \A k \in 1 .. j : 1 + k - 1 = k
    BY <1>0
  <2>4. QED
    BY <2>2, <2>3
<1>3. b \in Seq(Octets) /\ Len(b) = j - i /\ \A k \in 1 .. j - i : b[k] = text[i + k]
  <2>1. i + 1 \in 1 .. Len(text) + 1 /\ i + 1 <= j + 1 /\ j <= Len(text)
    BY <1>0
  <2>2. /\ b \in Seq(Octets) /\ Len(b) = j - (i + 1) + 1
        /\ \A k \in 1 .. j - (i + 1) + 1 : b[k] = text[(i + 1) + k - 1]
    BY <1>0, <2>1, PartOf
  <2>3. j - (i + 1) + 1 = j - i /\ \A k \in 1 .. j - i : (i + 1) + k - 1 = i + k
    BY <1>0
  <2>4. QED
    BY <2>2, <2>3
<1> HIDE DEF a, b, c
<1> DEFINE d == a \o b
<1>4. /\ d \in Seq(Octets) /\ Len(d) = i + (j - i)
      /\ \A k \in 1 .. i + (j - i) : d[k] = IF k <= i THEN a[k] ELSE b[k - i]
  BY <1>1, <1>3, ConcatProperties
<1> HIDE DEF d
<1>5. i + (j - i) = j
  BY <1>0
<1>6. ASSUME NEW k \in 1 .. j PROVE c[k] = d[k]
  <2>1. CASE k <= i
    <3>1. k \in 1 .. i
      BY <1>0, <2>1
    <3>2. QED
      BY <1>1, <1>2, <1>4, <1>5, <2>1, <3>1
  <2>2. CASE ~(k <= i)
    <3>1. k - i \in 1 .. j - i /\ i + (k - i) = k
      BY <1>0, <2>2
    <3>2. QED
      BY <1>2, <1>3, <1>4, <1>5, <2>2, <3>1
  <2>3. QED
    BY <2>1, <2>2
<1>7. c = d
  BY <1>2, <1>4, <1>5, <1>6, SeqEqual
<1>8. QED
  BY <1>1, <1>3, <1>7 DEF a, b, c, d

\* The smaller of two numbers.
LEMMA MinOfTwo ==
  ASSUME NEW m \in Nat, NEW n \in Nat
  PROVE  Min({m, n}) = IF m <= n THEN m ELSE n
<1>1. Min({m, n}) \in {m, n} /\ \A y \in {m, n} : Min({m, n}) <= y
  BY MinIsLeast
<1> DEFINE x == Min({m, n})
<1> HIDE DEF x
<1>2. (x = m \/ x = n) /\ x <= m /\ x <= n
  BY <1>1 DEF x
<1>3. x = IF m <= n THEN m ELSE n
  BY <1>2
<1>4. QED
  BY <1>3 DEF x

\* How much of the text the first i pieces are.
Cut(text, i) == IF i * BlockSize <= Len(text) THEN i * BlockSize ELSE Len(text)

\* A piece is what lies between two cuts.
LEMMA PieceIsPart ==
  ASSUME ConstantsFit, NEW text \in Seq(Octets), NEW i \in Nat \ {0},
         (i - 1) * BlockSize <= Len(text)
  PROVE  /\ Cut(text, i - 1) \in 0 .. Len(text) /\ Cut(text, i) \in Cut(text, i - 1) .. Len(text)
         /\ Piece(text, i) = SubSeq(text, Cut(text, i - 1) + 1, Cut(text, i))
         /\ Piece(text, i) \in Seq(Octets)
<1> DEFINE m == (i - 1) * BlockSize
           n == i * BlockSize
<1>1. m \in Nat /\ n \in Nat /\ m <= n /\ Len(text) \in Nat /\ m <= Len(text)
  <2>1. BlockSize \in Nat /\ i - 1 \in Nat /\ i \in Nat
    BY DEF ConstantsFit
  <2>2. m \in Nat /\ n \in Nat
    BY <2>1, Product
  <2>3. n = m + BlockSize
    BY <2>1
  <2> HIDE DEF m, n
  <2>4. m <= n
    BY <2>1, <2>2, <2>3
  <2>5. QED
    BY <2>2, <2>4 DEF m
<1>2. Cut(text, i - 1) = m /\ Cut(text, i) = IF n <= Len(text) THEN n ELSE Len(text)
  BY <1>1 DEF Cut
<1>3. Piece(text, i) = SubSeq(text, m + 1, Min({n, Len(text)}))
  BY DEF Piece
<1> HIDE DEF m, n
<1>4. Min({n, Len(text)}) = IF n <= Len(text) THEN n ELSE Len(text)
  BY <1>1, MinOfTwo
<1> DEFINE k == Cut(text, i)
           j == Cut(text, i - 1)
<1>5. j \in 0 .. Len(text) /\ k \in j .. Len(text)
  BY <1>1, <1>2
<1>6. Piece(text, i) = SubSeq(text, j + 1, k)
  BY <1>2, <1>3, <1>4
<1> HIDE DEF j, k
<1>7. Piece(text, i) \in Seq(Octets)
  BY <1>5, <1>6, PartsJoin
<1>8. QED
  BY <1>5, <1>6, <1>7 DEF j, k

\* readFromFile()
LEMMA LoadedPuts ==
  ASSUME ConstantsFit, NEW a \in Chains, NEW text \in Seq(Octets), NEW fill \in Fills
  PROVE  Puts(a, text, Loaded(a, text, fill))
<1> DEFINE q == Len(text) \div BlockSize
           pieces == q + 1
           Solves(g) == g = [i \in 0 .. pieces |->
                               IF i = 0 THEN a ELSE Written(g[i - 1], Piece(text, i), fill)]
           after == CHOOSE g : Solves(g)
           h == [pair \in Nat \X Chains |->
                   IF pair[1] \in 1 .. pieces THEN Written(pair[2], Piece(text, pair[1]), fill) ELSE pair[2]]
<1>0. /\ Len(text) \in Nat /\ BlockSize \in Nat \ {0} /\ q \in Nat
      /\ q * BlockSize <= Len(text) /\ Len(text) < (q + 1) * BlockSize
  <2> DEFINE n == Len(text)
             r == n % BlockSize
  <2>1. n \in Nat /\ BlockSize \in Nat \ {0}
    BY DEF ConstantsFit
  <2>2. n = BlockSize * q + r /\ r \in 0 .. BlockSize - 1 /\ q \in Int
    <3>1. n \in Int
      BY <2>1
    <3> HIDE DEF n
    <3>2. QED
      BY <2>1, <3>1, Division DEF n
  <2> HIDE DEF n, q, r
  <2>3. q <= -1 => BlockSize * q <= -BlockSize
    BY <2>1, <2>2
  <2>4. q \in Nat
    BY <2>1, <2>2, <2>3
  <2>5. q * BlockSize <= n /\ n < (q + 1) * BlockSize
    BY <2>1, <2>2
  <2>6. QED
    BY <2>1, <2>4, <2>5 DEF n
<1>1. ASSUME NEW i \in 1 .. pieces PROVE (i - 1) * BlockSize <= Len(text)
  <2> HIDE DEF q
  <2>1. i - 1 \in Nat /\ i - 1 <= q
    BY <1>0
  <2> DEFINE k == i - 1
  <2> HIDE DEF k
  <2>2. k * BlockSize <= q * BlockSize
    BY <1>0, <2>1 DEF k
  <2>3. k * BlockSize \in Nat /\ q * BlockSize \in Nat
    BY <1>0, <2>1, Product DEF k
  <2>4. k * BlockSize <= Len(text)
    BY <1>0, <2>2, <2>3
  <2>5. QED
    BY <2>4 DEF k
<1>2. Loaded(a, text, fill) = after[pieces]
  BY DEF Loaded
<1>3. StepOn(h, Chains)
  <2>1. ASSUME NEW pair \in Nat \X Chains
        PROVE  (IF pair[1] \in 1 .. pieces THEN Written(pair[2], Piece(text, pair[1]), fill) ELSE pair[2])
                 \in Chains
    <3> DEFINE i == pair[1]
               b == pair[2]
    <3>1. i \in Nat /\ b \in Chains
      OBVIOUS
    <3>2. ASSUME i \in 1 .. pieces PROVE Written(b, Piece(text, i), fill) \in Chains
      <4>1. (i - 1) * BlockSize <= Len(text) /\ i \in Nat \ {0}
        BY <1>1, <3>1, <3>2
      <4> HIDE DEF i, b
      <4>2. Piece(text, i) \in Seq(Octets)
        BY <4>1, PieceIsPart
      <4>3. QED
        BY <3>1, <4>2, WrittenPuts DEF Puts
    <3>3. QED
      BY <3>1, <3>2
  <2> HIDE DEF pieces
  <2>2. QED
    BY <2>1 DEF StepOn
<1>4. PICK f : Continues(f, Chains, a, h)
  <2> HIDE DEF h
  <2>1. QED
    BY <1>3, Recursion, Zenon
<1>5. ASSUME NEW i \in 1 .. pieces
      PROVE  i - 1 \in Nat /\ f[i - 1] \in Chains /\ f[i] = Written(f[i - 1], Piece(text, i), fill)
  <2>1. i - 1 \in Nat /\ (i - 1) + 1 = i /\ i \in Nat
    BY <1>0
  <2>2. f[i] = h[<<i, f[i - 1]>>] /\ f[i - 1] \in Chains
    <3> HIDE DEF h
    <3>1. QED
      BY <1>4, <2>1 DEF Continues
  <2> HIDE DEF pieces
  <2>3. QED
    BY <2>1, <2>2
<1>6. Solves([i \in 0 .. pieces |-> f[i]])
  <2> DEFINE g == [i \in 0 .. pieces |-> f[i]]
  <2>0. pieces \in Nat
    BY <1>0
  <2> HIDE DEF pieces
  <2>1. ASSUME NEW i \in 0 .. pieces
        PROVE  g[i] = IF i = 0 THEN a ELSE Written(g[i - 1], Piece(text, i), fill)
    <3>1. CASE i = 0
      <4> HIDE DEF h
      <4>1. f[0] = a
        BY <1>4 DEF Continues
      <4>2. QED
        BY <3>1, <4>1
    <3>2. CASE i # 0
      <4>1. i \in 1 .. pieces /\ i - 1 \in 0 .. pieces
        BY <2>0, <3>2
      <4>2. g[i] = f[i] /\ g[i - 1] = f[i - 1]
        BY <4>1
      <4> HIDE DEF g
      <4>3. QED
        BY <1>5, <3>2, <4>1, <4>2
    <3>3. QED
      BY <3>1, <3>2
  <2>2. g = [i \in 0 .. pieces |-> g[i]]
    OBVIOUS
  <2> HIDE DEF g
  <2>3. Solves(g)
    BY <2>1, <2>2
  <2>4. QED
    BY <2>3 DEF g
<1>7. Solves(after)
  <2> HIDE DEF Solves, pieces
  <2>1. QED
    BY <1>6
<1> HIDE DEF after, h
<1> DEFINE Done(i) == Puts(a, SubSeq(text, 1, Cut(text, i)), after[i])
           S == {i \in Nat : i <= pieces => Done(i)}
<1>8. 0 \in S
  <2>1. Cut(text, 0) = 0
    BY <1>0 DEF Cut
  <2>2. SubSeq(text, 1, 0) = <<>>
    BY SubSeqEmpty
  <2>3. after[0] = a
    <3> HIDE DEF pieces
    <3>1. pieces \in Nat
      BY <1>0 DEF pieces
    <3>2. 0 \in 0 .. pieces
      BY <3>1
    <3>3. QED
      BY <1>7, <3>2
  <2>4. Puts(a, <<>>, a)
    <3>1. /\ Len(<<>>) = 0 /\ a.position \in Nat /\ a.size \in Nat /\ a.position <= a.size
      BY ChainFields
    <3>2. \A i : i \notin a.position .. a.position + 0 - 1
      BY <3>1
    <3>3. a.position + 0 = a.position /\ ~(a.position + 0 > a.size)
      BY <3>1
    <3>4. QED
      BY <3>1, <3>2, <3>3 DEF Puts
  <2>5. Done(0)
    BY <2>1, <2>2, <2>3, <2>4
  <2> HIDE DEF Done
  <2>6. QED
    BY <2>5
<1>9. ASSUME NEW i \in Nat, i \in S PROVE i + 1 \in S
  <2> SUFFICES ASSUME i + 1 <= pieces PROVE Done(i + 1)
    OBVIOUS
  <2> DEFINE j == i + 1
             first == SubSeq(text, 1, Cut(text, i))
             second == Piece(text, j)
  <2>0. pieces \in Nat
    BY <1>0
  <2> HIDE DEF pieces
  <2>1. j \in 1 .. pieces /\ j \in 0 .. pieces /\ j # 0 /\ j - 1 = i /\ j \in Nat \ {0}
    BY <2>0
  <2>2. Puts(a, first, after[i])
    <3> HIDE DEF Puts
    <3>1. i <= pieces
      BY <2>0
    <3>2. QED
      BY <1>9, <3>1
  <2>3. after[j] = Written(after[j - 1], Piece(text, j), fill)
    <3> HIDE DEF j
    <3>1. QED
      BY <1>7, <2>1
  <2>4. (j - 1) * BlockSize <= Len(text)
    BY <1>1, <2>1
  <2>5. /\ Cut(text, i) \in 0 .. Len(text) /\ Cut(text, j) \in Cut(text, i) .. Len(text)
        /\ second = SubSeq(text, Cut(text, i) + 1, Cut(text, j)) /\ second \in Seq(Octets)
    <3>1. /\ Cut(text, j - 1) \in 0 .. Len(text) /\ Cut(text, j) \in Cut(text, j - 1) .. Len(text)
          /\ Piece(text, j) = SubSeq(text, Cut(text, j - 1) + 1, Cut(text, j))
          /\ Piece(text, j) \in Seq(Octets)
      <4> HIDE DEF j
      <4>1. QED
        BY <2>1, <2>4, PieceIsPart
    <3>2. QED
      BY <2>1, <3>1
  <2>6. first \in Seq(Octets) /\ SubSeq(text, 1, Cut(text, j)) = first \o second
    <3> DEFINE x == Cut(text, i)
               y == Cut(text, j)
    <3>1. x \in 0 .. Len(text) /\ y \in x .. Len(text) /\ second = SubSeq(text, x + 1, y)
      BY <2>5
    <3> HIDE DEF x, y, second
    <3>2. SubSeq(text, 1, x) \in Seq(Octets) /\ SubSeq(text, 1, y) = SubSeq(text, 1, x) \o SubSeq(text, x + 1, y)
      BY <3>1, PartsJoin
    <3>3. QED
      BY <3>1, <3>2 DEF x, y
  <2>7. Puts(after[i], second, after[j])
    <3>1. after[i] \in Chains
      BY <2>2 DEF Puts
    <3>2. after[j] = Written(after[i], second, fill)
      BY <2>1, <2>3
    <3> HIDE DEF second
    <3>3. QED
      BY <2>5, <3>1, <3>2, WrittenPuts
  <2>8. Puts(a, first \o second, after[j])
    <3> HIDE DEF first, second, j
    <3>1. QED
      BY <2>2, <2>5, <2>6, <2>7, PutsTwice
  <2>9. QED
    BY <2>6, <2>8
<1>10. \A i \in Nat : i \in S
  <2> HIDE DEF S
  <2>1. QED
    BY <1>8, <1>9, Induction
<1>11. Done(pieces)
  <2>1. pieces \in Nat
    BY <1>0
  <2> HIDE DEF pieces, Done
  <2>2. QED
    BY <1>10, <2>1
<1>12. Cut(text, pieces) = Len(text)
  <2>1. ~(pieces * BlockSize <= Len(text))
    <3> HIDE DEF q
    <3>1. (q + 1) * BlockSize \in Nat
      BY <1>0, Product
    <3>2. QED
      BY <1>0, <3>1
  <2>2. QED
    BY <2>1 DEF Cut
<1>13. SubSeq(text, 1, Len(text)) = text
  BY SubSeqFull
<1>14. QED
  BY <1>2, <1>11, <1>12, <1>13

\* What is read as an integer is a natural number.
LEMMA DecompressedIsNatural ==
  ASSUME ConstantsFit, NEW bytes \in Seq(Octets), Consumed(bytes) <= Len(bytes)
  PROVE  Decompressed(bytes) \in Nat
<1>1. PICK f : Sums(f, bytes)
  BY SumExists
<1>2. Len(bytes) \in Nat /\ MaxBytes \in Nat /\ Consumed(bytes) \in 1 .. MaxBytes
  BY ConsumedIsNumber, RoundsSuffice
<1>3. Consumed(bytes) \in 1 .. Len(bytes)
  BY <1>2
<1>4. Decompressed(bytes) = f[Consumed(bytes)] % PowerOf2[Width]
  BY <1>1, <1>3, DecompressedSum
<1>5. f[Consumed(bytes)] \in Nat
  <2>1. f \in [0 .. Len(bytes) -> Nat] /\ Consumed(bytes) \in 0 .. Len(bytes)
    BY <1>1, <1>2, <1>3 DEF Sums
  <2>2. QED
    BY <2>1
<1>6. PowerOf2[Width] \in Nat \ {0}
  BY PowerPositive DEF ConstantsFit
<1> DEFINE x == f[Consumed(bytes)]
           m == PowerOf2[Width]
<1>7. x % m \in Nat
  <2> HIDE DEF x, m
  <2>1. x \in Int /\ m \in Nat \ {0}
    BY <1>5, <1>6 DEF x, m
  <2>2. x % m \in 0 .. m - 1
    BY <2>1, Division
  <2>3. QED
    BY <2>1, <2>2
<1>8. QED
  BY <1>4, <1>7

-----------------------------------------------------------------------------
(* What the operations do                                                  *)

\* The bytes of a number and those of a length are bytes.
LEMMA NumberBytes ==
  ASSUME ConstantsFit, NEW value \in Numbers
  PROVE  /\ EncodeZigzag(value) \in Unsigned /\ DecodeZigzag(EncodeZigzag(value)) = value
         /\ Compressed[EncodeZigzag(value)] \in Seq(Octets)
<1>1. value \in -PowerOf2[Width - 1] .. PowerOf2[Width - 1] - 1
  BY DEF ConstantsFit
<1>2. QED
  BY <1>1, ZigzagReturns, CompressedIsPacked DEF Packed

\* So are those of a text and of its length.
LEMMA LengthBytes ==
  ASSUME ConstantsFit, NEW text \in Texts
  PROVE  text \in Seq(Octets) /\ Compressed[Len(text)] \in Seq(Octets)
<1>1. text \in Seq(Octets) /\ Len(text) < PowerOf2[Width]
  BY DEF ConstantsFit
<1>2. Len(text) \in Nat /\ PowerOf2[Width] \in Nat
  BY <1>1, PowerPositive DEF ConstantsFit
<1>3. Len(text) \in Unsigned
  BY <1>1, <1>2 DEF Unsigned
<1>4. QED
  BY <1>1, <1>3, CompressedIsPacked DEF Packed

\* Everything that is written is put behind the position.
LEMMA WriteStep ==
  ASSUME ConstantsFit, array \in Chains, NEW text \in Texts, NEW fill \in Fills
  PROVE  /\ Write(text, fill) => Puts(array, text, array')
         /\ WriteString(text, fill) => Puts(array, Compressed[Len(text)] \o text, array')
         /\ ReadFromFile(text, fill) => Puts(array, text, array')
<1>1. text \in Seq(Octets) /\ Compressed[Len(text)] \in Seq(Octets)
  BY LengthBytes
<1>2. Write(text, fill) => Puts(array, text, array')
  <2>1. Puts(array, text, Written(array, text, fill))
    BY <1>1, WrittenPuts
  <2>2. QED
    BY <2>1 DEF Write, Becomes
<1>3. WriteString(text, fill) => Puts(array, Compressed[Len(text)] \o text, array')
  <2> DEFINE c == Compressed[Len(text)]
             v == Written(array, c, fill)
             w == Written(v, text, fill)
  <2>1. Puts(array, c, v)
    BY <1>1, WrittenPuts
  <2>2. v \in Chains
    BY <2>1 DEF Puts
  <2>3. Puts(v, text, w)
    <3> HIDE DEF v
    <3>1. QED
      BY <1>1, <2>2, WrittenPuts
  <2>4. Puts(array, c \o text, w)
    <3> HIDE DEF v, w, c
    <3>1. c \in Seq(Octets)
      BY <1>1 DEF c
    <3>2. QED
      BY <1>1, <2>1, <2>3, <3>1, PutsTwice
  <2>5. WriteString(text, fill) => array' = w
    BY DEF WriteString, Becomes
  <2> HIDE DEF w
  <2>6. QED
    BY <2>4, <2>5
<1>4. ReadFromFile(text, fill) => Puts(array, text, array')
  <2>1. Puts(array, text, Loaded(array, text, fill))
    BY <1>1, LoadedPuts
  <2>2. QED
    BY <2>1 DEF ReadFromFile, Becomes
<1>5. QED
  BY <1>2, <1>3, <1>4

\* The bytes of an integer stand where they are written.
LEMMA WriteNumberStep ==
  ASSUME ConstantsFit, array \in Chains, NEW value \in Numbers, NEW fill \in Fills,
         WriteNumber(value, fill)
  PROVE  Puts(array, Compressed[EncodeZigzag(value)], array') /\ NumberStands'
<1> DEFINE c == Compressed[EncodeZigzag(value)]
<1>1. c \in Seq(Octets)
  BY NumberBytes
<1>2. Puts(array, c, array')
  <2>1. Puts(array, c, Written(array, c, fill))
    BY <1>1, WrittenPuts
  <2>2. QED
    BY <2>1 DEF WriteNumber, Becomes
<1>3. number'.value = value /\ number'.start = array.position
  BY DEF WriteNumber
<1>4. array.position \in Nat /\ array.size \in Nat /\ Len(c) \in Nat
  BY <1>1, ChainFields
<1> HIDE DEF c
<1>5. /\ array'.size = (IF array.position + Len(c) > array.size THEN array.position + Len(c) ELSE array.size)
      /\ \A i \in 0 .. array'.size - 1 :
           Cell(array', i) = IF i \in array.position .. array.position + Len(c) - 1
                             THEN c[i - array.position + 1] ELSE Cell(array, i)
  BY <1>2 DEF Puts
<1>6. array.position + Len(c) <= array'.size /\ array'.size \in Nat
  BY <1>4, <1>5
<1>7. ASSUME NEW i \in 1 .. Len(c) PROVE Cell(array', array.position + i - 1) = c[i]
  <2> DEFINE j == array.position + i - 1
  <2>1. j \in array.position .. array.position + Len(c) - 1 /\ j - array.position + 1 = i
    BY <1>4
  <2>a. j \in 0 .. array'.size - 1
    <3> DEFINE p == array.position
               s == array'.size
               n == Len(c)
    <3>1. p \in Nat /\ n \in Nat /\ s \in Nat /\ p + n <= s /\ i \in 1 .. n
      BY <1>4, <1>6
    <3> HIDE DEF p, s, n
    <3>2. p + i - 1 \in 0 .. s - 1
      BY <3>1
    <3>3. QED
      BY <3>2 DEF p, s
  <2> HIDE DEF j
  <2>2. Cell(array', j) = c[j - array.position + 1]
    BY <1>5, <2>1, <2>a
  <2>3. QED
    BY <2>1, <2>2 DEF j
<1>8. NumberStands'
  <2>1. c = Compressed[EncodeZigzag(number'.value)]
    BY <1>3 DEF c
  <2>2. QED
    BY <1>3, <1>4, <1>6, <1>7, <2>1 DEF NumberStands
<1>9. QED
  BY <1>2, <1>8 DEF c

\* m bytes are read, or a part of what was asked for is passed over.
Reads(m) ==
  /\ m \in 0 .. Readable(array)
  /\ array' = Moved(array, m)
  /\ result' \in {Fetched(array, m), Refused}

\* To move by nothing changes nothing.
LEMMA MovedNone ==
  ASSUME NEW a \in Chains
  PROVE  Moved(a, 0) = a
<1>1. /\ a \in [blocks : Seq(Blocks), capacity : Nat, size : Nat, position : Nat, current : Nat]
      /\ a.position \in Nat /\ a.size \in Nat /\ a.position <= a.size
  BY ChainFields
<1>2. ~(0 > 0) /\ a.position + 0 = a.position /\ ~(a.position + 0 > a.size)
  BY <1>1
<1>3. Moved(a, 0) = [a EXCEPT !.position = a.position, !.current = a.current, !.size = a.size]
  BY <1>2 DEF Moved
<1>4. QED
  BY <1>1, <1>3

\* A part of what is fetched is what the part fetches.
LEMMA FetchedFirst ==
  ASSUME ConstantsFit, NEW a \in Chains, NEW m \in 0 .. Readable(a)
  PROVE  SubSeq(Fetched(a, Readable(a)), 1, m) = Fetched(a, m)
<1> DEFINE n == Readable(a)
           all == Fetched(a, n)
<1>1. n \in Nat /\ m \in Nat /\ m <= n
  BY ChainFields DEF Readable
<1>2. all \in Seq(Octets) /\ Len(all) = n
  <2> HIDE DEF n
  <2>1. n <= Readable(a)
    BY <1>1 DEF n
  <2>2. QED
    BY <1>1, <2>1, FetchedData
<1>3. \A k \in 1 .. n : all[k] = a.blocks[BlockOf(a, k - 1)][OffsetOf(a, k - 1)]
  BY DEF Fetched
<1> HIDE DEF n, all
<1> DEFINE part == SubSeq(all, 1, m)
<1>4. part \in Seq(Octets) /\ Len(part) = m /\ \A k \in 1 .. m : part[k] = all[k]
  <2>1. 1 \in 1 .. Len(all) + 1 /\ 1 <= m + 1 /\ m <= Len(all)
    BY <1>1, <1>2
  <2>2. part \in Seq(Octets) /\ Len(part) = m - 1 + 1 /\ \A k \in 1 .. m - 1 + 1 : part[k] = all[1 + k - 1]
    BY <1>1, <1>2, <2>1, PartOf
  <2>3. m - 1 + 1 = m /\ \A k \in 1 .. m : 1 + k - 1 = k
    BY <1>1
  <2>4. QED
    BY <2>2, <2>3
<1> HIDE DEF part
<1>5. part = [k \in 1 .. m |-> part[k]]
  BY <1>4
<1>6. \A k \in 1 .. m : part[k] = a.blocks[BlockOf(a, k - 1)][OffsetOf(a, k - 1)]
  <2>1. \A k \in 1 .. m : k \in 1 .. n
    BY <1>1
  <2>2. QED
    BY <1>3, <1>4, <2>1
<1>7. part = Fetched(a, m)
  BY <1>5, <1>6 DEF Fetched
<1>8. QED
  BY <1>7 DEF part, all, n

\* The calls that read either give the bytes and move behind them or are refused,
\* which may have moved the position but not beyond the size.
LEMMA ReadStep ==
  ASSUME ConstantsFit, array \in Chains, NEW n \in Nat, Read(n) \/ ReadNumber \/ ReadString
  PROVE  \E m : Reads(m)
<1> DEFINE whole == Readable(array)
           rest == Fetched(array, whole)
           c == Consumed(rest)
           length == Decompressed(rest)
<1>1. whole \in Nat
  BY ChainFields DEF Readable
<1>2. rest \in Seq(Octets) /\ Len(rest) = whole
  <2> HIDE DEF whole
  <2>1. whole <= Readable(array)
    BY <1>1 DEF whole
  <2>2. QED
    BY <1>1, <2>1, FetchedData
<1>3. c \in Nat /\ (c <= whole => length \in Nat)
  <2> HIDE DEF rest, whole
  <2>1. MaxBytes \in Nat /\ c \in 1 .. MaxBytes
    BY <1>2, ConsumedIsNumber, RoundsSuffice
  <2>2. QED
    BY <1>2, <2>1, DecompressedIsNatural
<1>4. \A m \in 0 .. whole : SubSeq(rest, 1, m) = Fetched(array, m)
  BY FetchedFirst
<1>5. Moved(array, 0) = array
  BY MovedNone
<1> HIDE DEF c, length
<1>6. CASE Read(n)
  <2>1. CASE n > whole
    <3>1. Reads(0)
      BY <1>1, <1>5, <1>6, <2>1 DEF Read, Reads
    <3>2. QED
      BY <3>1
  <2>2. CASE ~(n > whole)
    <3>1. Reads(n)
      BY <1>1, <1>6, <2>2 DEF Read, Reads
    <3>2. QED
      BY <3>1
  <2>3. QED
    BY <2>1, <2>2
<1>7. CASE ReadNumber
  <2>1. CASE c > Len(rest)
    <3>1. Reads(whole)
      BY <1>1, <1>2, <1>7, <2>1 DEF ReadNumber, Reads, c
    <3>2. QED
      BY <3>1
  <2>2. CASE ~(c > Len(rest))
    <3>1. c \in 0 .. whole
      BY <1>1, <1>2, <1>3, <2>2
    <3>2. result' = SubSeq(rest, 1, c) /\ array' = Moved(array, c)
      BY <1>7, <2>2 DEF ReadNumber, c
    <3>3. Reads(c)
      BY <1>4, <3>1, <3>2 DEF Reads
    <3>4. QED
      BY <3>3
  <2>3. QED
    BY <2>1, <2>2
<1>8. CASE ReadString
  <2>1. CASE c > Len(rest)
    <3>1. Reads(whole)
      BY <1>1, <1>2, <1>8, <2>1 DEF ReadString, Reads, c
    <3>2. QED
      BY <3>1
  <2>2. CASE ~(c > Len(rest)) /\ length > Len(rest) - c
    <3>1. c \in 0 .. whole
      BY <1>1, <1>2, <1>3, <2>2
    <3>2. Reads(c)
      BY <1>8, <2>2, <3>1 DEF ReadString, Reads, c, length
    <3>3. QED
      BY <3>2
  <2>3. CASE ~(c > Len(rest)) /\ ~(length > Len(rest) - c)
    <3>1. c + length \in 0 .. whole
      BY <1>1, <1>2, <1>3, <2>3
    <3>2. result' = SubSeq(rest, 1, c + length) /\ array' = Moved(array, c + length)
      BY <1>8, <2>3 DEF ReadString, c, length
    <3>3. Reads(c + length)
      BY <1>4, <3>1, <3>2 DEF Reads
    <3>4. QED
      BY <3>3
  <2>4. QED
    BY <2>1, <2>2, <2>3
<1>9. QED
  BY <1>6, <1>7, <1>8

\* clear() leaves the first block, empty.
LEMMA ClearStep ==
  ASSUME ConstantsFit, array \in Chains, Clear
  PROVE  array' \in Chains /\ array'.size = 0 /\ array'.position = 0
<1>1. array.blocks \in Seq(Blocks) /\ Len(array.blocks) \in Nat /\ Len(array.blocks) >= 1
  BY ChainFields
<1>2. array.blocks[1] \in Blocks
  BY <1>1, ElementOfSeq
<1> DEFINE first == array.blocks[1]
           one == <<first>>
<1>3. one \in Seq(Blocks) /\ Len(one) = 1
  BY <1>2
<1>4. BlockSize \in Nat \ {0}
  BY DEF ConstantsFit
<1> HIDE DEF one
<1> DEFINE w == [blocks |-> one, capacity |-> BlockSize, size |-> 0, position |-> 0, current |-> 1]
<1>5. array' = w
  BY DEF Clear, Becomes, one
<1>6. 1 = Pointer(0, BlockSize)
  <2>1. 0 \div BlockSize = 0
    BY <1>4
  <2>2. QED
    BY <1>4, <2>1 DEF Pointer
<1>7. w \in Chains
  <2>1. w \in [blocks : Seq(Blocks), capacity : Nat, size : Nat, position : Nat, current : Nat]
    BY <1>3, <1>4
  <2>2. Len(w.blocks) = 1 /\ w.capacity = 1 * BlockSize /\ w.current = Pointer(w.position, w.capacity)
    BY <1>3, <1>4, <1>6
  <2>3. w.position <= w.size /\ w.size <= w.capacity /\ Len(w.blocks) >= 1
    BY <1>3, <1>4
  <2> HIDE DEF w
  <2>4. w.capacity = Len(w.blocks) * BlockSize
    BY <2>2, Zenon
  <2>5. QED
    BY <2>1, <2>2, <2>3, <2>4 DEF Chains
<1>8. QED
  BY <1>5, <1>7

\* The first block is such an array, too.
LEMMA ArrayBegins ==
  ASSUME ConstantsFit, Init
  PROVE  array \in Chains /\ array.size = 0 /\ array.position = 0
<1>1. PICK fill \in Fills :
        array = [blocks |-> <<Block(fill)>>, capacity |-> BlockSize, size |-> 0, position |-> 0,
                 current |-> 1]
  BY DEF Init
<1>2. Block(fill) \in Blocks
  BY DEF Block, Blocks, ConstantsFit
<1> DEFINE first == Block(fill)
           one == <<first>>
<1>3. one \in Seq(Blocks) /\ Len(one) = 1
  BY <1>2
<1>4. BlockSize \in Nat \ {0}
  BY DEF ConstantsFit
<1> HIDE DEF one
<1> DEFINE w == [blocks |-> one, capacity |-> BlockSize, size |-> 0, position |-> 0, current |-> 1]
<1>5. array = w
  BY <1>1 DEF one
<1>6. 1 = Pointer(0, BlockSize)
  <2>1. 0 \div BlockSize = 0
    BY <1>4
  <2>2. QED
    BY <1>4, <2>1 DEF Pointer
<1>7. w \in Chains
  <2>1. w \in [blocks : Seq(Blocks), capacity : Nat, size : Nat, position : Nat, current : Nat]
    BY <1>3, <1>4
  <2>2. Len(w.blocks) = 1 /\ w.capacity = 1 * BlockSize /\ w.current = Pointer(w.position, w.capacity)
    BY <1>3, <1>4, <1>6
  <2>3. w.position <= w.size /\ w.size <= w.capacity /\ Len(w.blocks) >= 1
    BY <1>3, <1>4
  <2> HIDE DEF w
  <2>4. w.capacity = Len(w.blocks) * BlockSize
    BY <2>2, Zenon
  <2>5. QED
    BY <2>1, <2>2, <2>3, <2>4 DEF Chains
<1>8. QED
  BY <1>5, <1>7

\* setPosition() in front of the end
LEMMA SetPositionStep ==
  ASSUME array \in Chains, NEW n \in Nat, SetPosition(n)
  PROVE  \/ array' = array /\ (crashed' \/ result' = Refused)
         \/ /\ n < array.capacity /\ array' = Positioned(array, n) /\ result' = <<>>
            /\ UNCHANGED crashed
BY DEF SetPosition, Becomes

-----------------------------------------------------------------------------
(* The invariant of the array                                              *)

\* A round works on the array itself or on one with room for all that is missing.
Works(a) ==
  /\ Keeps(array, a) /\ DataOf(a) = DataOf(array) /\ a.position = array.position
  /\ a.position + call.todo <= a.capacity

\* What a round of either call may do.
LEMMA RoundStep ==
  ASSUME ConstantsFit, ArrayInv, (\E fill \in Fills : ReadRound(fill)) \/ WriteRound
  PROVE  /\ call.kind \in {"read", "write"}
         /\ \E a \in Chains :
              \/ /\ Works(a)
                 /\ \E n \in 1 .. call.todo : taken + n <= Len(Peer) /\ Advance(a, n) /\ Progress(n)
              \/ /\ Keeps(array, a) /\ DataOf(a) = DataOf(array) /\ a.position = array.position
                 /\ EndOfStream(a) \/ ErrorReturn(a)
<1>1. array \in Chains /\ call.todo \in Nat
  BY DEF ArrayInv, Calls
<1>2. ASSUME NEW fill \in Fills, ReadRound(fill)
      PROVE  /\ call.kind \in {"read", "write"}
             /\ \E a \in Chains :
                  \/ /\ Works(a)
                     /\ \E n \in 1 .. call.todo : taken + n <= Len(Peer) /\ Advance(a, n) /\ Progress(n)
                  \/ /\ Keeps(array, a) /\ DataOf(a) = DataOf(array) /\ a.position = array.position
                     /\ EndOfStream(a) \/ ErrorReturn(a)
  <2> DEFINE a == Expanded(array, call.todo, fill)
  <2>1. a \in Chains /\ Keeps(array, a) /\ DataOf(a) = DataOf(array) /\ a.position = array.position
    BY <1>1, ExpandedSame DEF Keeps
  <2>2. a.position + call.todo <= a.capacity
    BY <1>1, ExpandedKeeps
  <2>3. /\ call.kind = "read"
        /\ \/ \E n \in 1 .. call.todo : taken + n <= Len(Peer) /\ Advance(a, n) /\ Progress(n)
           \/ EndOfStream(a)
           \/ ErrorReturn(a)
    BY <1>2 DEF ReadRound
  <2> HIDE DEF a
  <2>4. QED
    BY <2>1, <2>2, <2>3 DEF Works
<1>3. CASE WriteRound
  <2>1. /\ array.position \in Nat /\ array.size \in Nat /\ array.capacity \in Nat
        /\ array.size <= array.capacity
    BY <1>1, ChainFields
  <2>2. Keeps(array, array)
    BY <1>1, <2>1 DEF Keeps
  <2>3. call.todo <= Readable(array) => Works(array)
    BY <1>1, <2>1, <2>2 DEF Works, Readable
  <2>4. QED
    BY <1>1, <1>3, <2>2, <2>3 DEF WriteRound
<1>4. QED
  BY <1>2, <1>3

\* What is received is put behind the position, or the position is the end of the
\* chain and nothing is there to be asked for its size.
LEMMA AdvanceStep ==
  ASSUME ConstantsFit, ArrayInv, NEW a \in Chains, Works(a), NEW n \in 1 .. call.todo,
         taken + n <= Len(Peer),
         Advance(a, n)
  PROVE  /\ SubSeq(Peer, taken + 1, taken + n) \in Seq(Octets)
         /\ Len(SubSeq(Peer, taken + 1, taken + n)) = n
         /\ \A k \in 1 .. n : SubSeq(Peer, taken + 1, taken + n)[k] = Peer[taken + k]
         /\ \/ crashed' = TRUE /\ array' = array /\ result' = result
            \/ /\ crashed' = crashed /\ result' = <<>>
               /\ Puts(a, SubSeq(Peer, taken + 1, taken + n), array')
<1> DEFINE bytes == SubSeq(Peer, taken + 1, taken + n)
<1>1. /\ taken \in Nat /\ n \in Nat /\ call.todo \in Nat /\ Peer \in Seq(Octets) /\ Len(Peer) \in Nat
  BY DEF ArrayInv, Calls, ConstantsFit
<1>2. bytes \in Seq(Octets) /\ Len(bytes) = n /\ \A k \in 1 .. n : bytes[k] = Peer[taken + k]
  <2>1. /\ taken + 1 \in 1 .. Len(Peer) + 1 /\ taken + n \in Nat /\ taken + 1 <= (taken + n) + 1
    BY <1>1
  <2>2. /\ bytes \in Seq(Octets) /\ Len(bytes) = (taken + n) - (taken + 1) + 1
        /\ \A k \in 1 .. (taken + n) - (taken + 1) + 1 : bytes[k] = Peer[(taken + 1) + k - 1]
    BY <1>1, <2>1, PartOf
  <2>3. (taken + n) - (taken + 1) + 1 = n /\ \A k \in 1 .. n : (taken + 1) + k - 1 = taken + k
    BY <1>1
  <2>4. QED
    BY <2>2, <2>3
<1>3. a.position \in Nat /\ a.capacity \in Nat /\ a.position + n <= a.capacity
  <2>1. a.position \in Nat /\ a.capacity \in Nat /\ a.position + call.todo <= a.capacity
    BY ChainFields DEF Works
  <2>2. n <= call.todo
    BY <1>1
  <2>3. QED
    BY <1>1, <2>1, <2>2
<1>4. Received(a, n) = Stored(a, bytes)
  BY DEF Received
<1> HIDE DEF bytes
<1>5. CASE a.position + n = a.capacity
  <2>1. crashed' = TRUE /\ array' = array /\ result' = result
    BY <1>5 DEF Advance
  <2>2. QED
    BY <1>2, <2>1 DEF bytes
<1>6. CASE a.position + n # a.capacity
  <2>1. a.position + Len(bytes) < a.capacity
    <3>1. a.position + n < a.capacity
      BY <1>1, <1>3, <1>6
    <3>2. QED
      BY <1>2, <3>1
  <2>2. Puts(a, bytes, Positioned(Stored(a, bytes), a.position + Len(bytes)))
    BY <1>2, <2>1, ReceivedPuts
  <2>3. /\ crashed' = crashed /\ result' = <<>>
        /\ array' = Positioned(Stored(a, bytes), a.position + Len(bytes))
    BY <1>2, <1>4, <1>6 DEF Advance, Becomes
  <2>4. Puts(a, bytes, array')
    BY <2>2, <2>3
  <2>5. QED
    BY <1>2, <2>3, <2>4 DEF bytes
<1>7. QED
  BY <1>5, <1>6

LEMMA ArrayInit ==
  ASSUME ConstantsFit
  PROVE  StreamInit => ArrayInv
<1> SUFFICES ASSUME StreamInit PROVE ArrayInv
  OBVIOUS
<1>1. array \in Chains
  BY ArrayBegins DEF StreamInit
<1>2. number = NoNumber /\ crashed = FALSE /\ taken = 0 /\ call = NoCall /\ Len(Peer) \in Nat
  BY DEF StreamInit, Init, ConstantsFit
<1>3. call \in Calls
  BY <1>2 DEF NoCall, Calls
<1>4. NumberStands
  BY <1>2 DEF NumberStands
<1>5. taken \in 0 .. Len(Peer)
  <2>1. taken = 0 /\ Len(Peer) \in Nat
    BY <1>2
  <2>2. QED
    BY <2>1
<1>6. crashed \in BOOLEAN
  BY <1>2, Zenon
<1>7. QED
  BY <1>1, <1>3, <1>4, <1>5, <1>6 DEF ArrayInv

\* Every operation keeps the invariant.
LEMMA OperationKeepsArray ==
  ASSUME ConstantsFit, ArrayInv, Operation, UNCHANGED streamVars
  PROVE  ArrayInv'
<1>0. array \in Chains /\ crashed \in BOOLEAN /\ taken' = taken /\ call' = call
      /\ taken \in 0 .. Len(Peer) /\ call \in Calls /\ NumberStands
  BY DEF ArrayInv, streamVars
<1>1. array' \in Chains /\ crashed' \in BOOLEAN /\ NumberStands' => ArrayInv'
  BY <1>0 DEF ArrayInv
<1>2. number' = NoNumber => NumberStands'
  BY DEF NumberStands
<1>3. ASSUME NEW text \in Texts, NEW fill \in Fills,
             Write(text, fill) \/ WriteString(text, fill) \/ ReadFromFile(text, fill)
      PROVE  ArrayInv'
  <2>1. array' \in Chains
    BY <1>0, <1>3, WriteStep DEF Puts
  <2>2. number' = NoNumber /\ crashed' = crashed
    BY <1>3 DEF Write, WriteString, ReadFromFile, Becomes
  <2>3. QED
    BY <1>0, <1>1, <1>2, <2>1, <2>2
<1>4. ASSUME NEW value \in Numbers, NEW fill \in Fills, WriteNumber(value, fill)
      PROVE  ArrayInv'
  <2>1. array' \in Chains /\ NumberStands'
    BY <1>0, <1>4, WriteNumberStep DEF Puts
  <2>2. crashed' = crashed
    BY <1>4 DEF WriteNumber, Becomes
  <2>3. QED
    BY <1>0, <1>1, <2>1, <2>2
<1>5. ASSUME Keeps(array, array'), UNCHANGED number, crashed' \in BOOLEAN PROVE ArrayInv'
  <2>1. NumberStands'
    BY <1>0, <1>5, KeptNumber
  <2>2. QED
    BY <1>1, <1>5, <2>1 DEF Keeps
<1>6. Keeps(array, array)
  <2>1. array.size \in Nat
    BY <1>0, ChainFields
  <2>2. QED
    BY <1>0, <2>1 DEF Keeps
<1>7. ASSUME NEW n \in Nat, Read(n) \/ ReadNumber \/ ReadString PROVE ArrayInv'
  <2>1. PICK m : Reads(m)
    BY <1>0, <1>7, ReadStep
  <2>2. m \in Nat /\ m <= Readable(array) /\ array' = Moved(array, m)
    BY <2>1 DEF Reads
  <2>3. Keeps(array, array')
    BY <1>0, <2>2, MovedKeeps
  <2>4. UNCHANGED <<number, crashed>>
    BY <1>7 DEF Read, ReadNumber, ReadString
  <2>5. QED
    BY <1>0, <1>5, <2>3, <2>4
<1>8. ASSUME NEW n \in Nat, SetPosition(n) PROVE ArrayInv'
  <2>1. number' = number /\ crashed' \in BOOLEAN
    BY <1>0, <1>8 DEF SetPosition, Becomes
  <2>2. CASE array' = array
    BY <1>5, <1>6, <2>1, <2>2
  <2>3. CASE array' # array
    <3>1. n < array.capacity /\ array' = Positioned(array, n)
      BY <1>0, <1>8, <2>3, SetPositionStep
    <3>2. Keeps(array, array')
      BY <1>0, <3>1, PositionedKeeps
    <3>3. QED
      BY <1>5, <2>1, <3>2
  <2>4. QED
    BY <2>2, <2>3
<1>9. CASE AsString
  BY <1>0, <1>5, <1>6, <1>9 DEF AsString
<1>10. CASE Clear
  <2>1. array' \in Chains
    BY <1>0, <1>10, ClearStep
  <2>2. number' = NoNumber /\ crashed' = crashed
    BY <1>10 DEF Clear, Becomes
  <2>3. QED
    BY <1>0, <1>1, <1>2, <2>1, <2>2
<1>11. \A n \in 0 .. MaxBlocks * BlockSize : n \in Nat
  BY Product DEF ConstantsFit
<1>12. QED
  BY <1>3, <1>4, <1>7, <1>8, <1>9, <1>10, <1>11 DEF Operation

\* And every round.
LEMMA RoundKeepsArray ==
  ASSUME ConstantsFit, ArrayInv, (\E fill \in Fills : ReadRound(fill)) \/ WriteRound
  PROVE  ArrayInv'
<1>0. array \in Chains /\ crashed \in BOOLEAN /\ taken \in Nat /\ Len(Peer) \in Nat
      /\ taken <= Len(Peer) /\ call \in Calls /\ NumberStands /\ call.todo \in Nat
  BY DEF ArrayInv, Calls, ConstantsFit
<1>1. PICK a \in Chains :
        \/ /\ Works(a)
           /\ \E n \in 1 .. call.todo : taken + n <= Len(Peer) /\ Advance(a, n) /\ Progress(n)
        \/ /\ Keeps(array, a) /\ DataOf(a) = DataOf(array) /\ a.position = array.position
           /\ EndOfStream(a) \/ ErrorReturn(a)
  BY RoundStep
<1>2. ASSUME Works(a), NEW n \in 1 .. call.todo, taken + n <= Len(Peer), Advance(a, n), Progress(n)
      PROVE  ArrayInv'
  <2>1. number' = NoNumber /\ taken' = taken + n
    BY <1>2 DEF Advance
  <2>2. array' \in Chains /\ crashed' \in BOOLEAN
    BY <1>0, <1>2, AdvanceStep DEF Puts
  <2>3. taken' \in 0 .. Len(Peer)
    BY <1>0, <1>2, <2>1
  <2>4. call' \in Calls
    <3>1. call.todo # n => call.todo - n \in Nat
      BY <1>0
    <3>2. call' \in [kind : {"none", "read", "write", "returned", "ended"}, length : Nat, todo : Nat,
                    start : Nat, first : Nat, errors : Nat]
      <4>1. CASE call.todo = n
        BY <1>0, <1>2, <4>1 DEF Progress, Calls
      <4>2. CASE call.todo # n
        BY <1>0, <1>2, <3>1, <4>2 DEF Progress, Calls
      <4>3. QED
        BY <4>1, <4>2
    <3>3. QED
      BY <3>2 DEF Calls
  <2>5. NumberStands'
    BY <2>1 DEF NumberStands
  <2>6. QED
    BY <2>2, <2>3, <2>4, <2>5 DEF ArrayInv
<1>3. ASSUME Keeps(array, a), EndOfStream(a) \/ ErrorReturn(a) PROVE ArrayInv'
  <2>1. array' = a /\ number' = number /\ taken' = taken /\ crashed' = crashed
    BY <1>3 DEF EndOfStream, ErrorReturn, Becomes
  <2>2. NumberStands'
    BY <1>0, <1>3, <2>1, KeptNumber
  <2>3. call' \in Calls
    <3>1. CASE EndOfStream(a)
      BY <1>0, <3>1 DEF EndOfStream, Calls
    <3>2. CASE ErrorReturn(a)
      <4> DEFINE todo == (call.todo + 1) % LengthMod
      <4>1. todo \in Nat
        <5>1. LengthMod \in Nat \ {0}
          BY DEF ConstantsFit
        <5>2. call.todo + 1 \in Int
          BY <1>0
        <5> DEFINE x == call.todo + 1
        <5> HIDE DEF x
        <5>3. x % LengthMod \in 0 .. LengthMod - 1
          BY <5>1, <5>2, Division DEF x
        <5>4. QED
          BY <5>1, <5>3 DEF x
      <4> HIDE DEF todo
      <4>2. call' = [call EXCEPT !.errors = @ + 1, !.todo = todo,
                                 !.kind = IF todo = 0 THEN "returned" ELSE @]
        BY <3>2 DEF ErrorReturn, todo
      <4>3. (IF todo = 0 THEN "returned" ELSE call.kind)
              \in {"none", "read", "write", "returned", "ended"} /\ call.errors + 1 \in Nat
        BY <1>0 DEF Calls
      <4>4. QED
        BY <1>0, <4>1, <4>2, <4>3 DEF Calls
    <3>3. QED
      BY <1>3, <3>1, <3>2
  <2>4. QED
    BY <1>0, <2>1, <2>2, <2>3 DEF ArrayInv
<1>4. QED
  BY <1>1, <1>2, <1>3

\* And so every step.
LEMMA ArrayStep ==
  ASSUME ConstantsFit
  PROVE  ArrayInv /\ [Next]_allVars => ArrayInv'
<1> SUFFICES ASSUME ArrayInv, [Next]_allVars PROVE ArrayInv'
  OBVIOUS
<1>0. array \in Chains /\ taken \in 0 .. Len(Peer) /\ call \in Calls /\ MaxLength \in Nat /\ Len(Peer) \in Nat
      /\ array.position \in Nat
  BY ChainFields DEF ArrayInv, ConstantsFit
<1>1. ASSUME UNCHANGED vars, taken' = taken, call' \in Calls PROVE ArrayInv'
  BY <1>1 DEF ArrayInv, NumberStands, vars
<1>2. CASE Operation /\ UNCHANGED streamVars
  BY <1>2, OperationKeepsArray
<1>3. ASSUME NEW kind \in {"read", "write"}, NEW length \in 1 .. MaxLength, Begin(kind, length)
      PROVE  ArrayInv'
  <2>1. call' \in Calls
    BY <1>0, <1>3 DEF Begin, Calls
  <2>2. QED
    BY <1>1, <1>3, <2>1 DEF Begin
<1>4. ASSUME NEW fill \in Fills, ReadRound(fill) PROVE ArrayInv'
  BY <1>4, RoundKeepsArray
<1>5. CASE WriteRound
  BY <1>5, RoundKeepsArray
<1>6. CASE Return
  <2>1. call' \in Calls
    BY <1>6 DEF Return, Calls, NoCall
  <2>2. QED
    BY <1>1, <1>6, <2>1 DEF Return
<1>7. CASE UNCHANGED allVars
  BY <1>0, <1>1, <1>7 DEF allVars, streamVars
<1>8. QED
  BY <1>2, <1>3, <1>4, <1>5, <1>6, <1>7 DEF Next
-----------------------------------------------------------------------------
(* A number is read back                                                   *)

\* The bytes from the number on begin with those that were written.
LEMMA NumberIsThere ==
  ASSUME ConstantsFit
  PROVE  ArrayInv => NumbersReturn
<1> SUFFICES ASSUME ArrayInv, number # NoNumber
             PROVE  DecodeZigzag(Decompressed([k \in 1 .. array.size - number.start |->
                                                 Byte(number.start + k - 1)])) = number.value
  BY DEF NumbersReturn
<1> DEFINE v == EncodeZigzag(number.value)
           c == Compressed[v]
           start == number.start
           n == array.size - start
           bytes == [k \in 1 .. n |-> Byte(start + k - 1)]
<1>1. /\ array \in Chains /\ number.value \in Numbers /\ start \in Nat
      /\ start + Len(c) <= array.size /\ \A i \in 1 .. Len(c) : Cell(array, start + i - 1) = c[i]
  BY DEF ArrayInv, NumberStands
<1>2. v \in Unsigned /\ DecodeZigzag(v) = number.value /\ c \in Seq(Octets) /\ Len(c) \in Nat
  BY <1>1, NumberBytes
<1>3. array.size \in Nat /\ array.capacity \in Nat /\ array.size <= array.capacity
  BY <1>1, ChainFields
<1>4. n \in Nat /\ Len(c) <= n
  BY <1>1, <1>2, <1>3
<1>5. \A i : Byte(i) = Cell(array, i)
  BY DEF Byte, Cell
<1>6. ASSUME NEW k \in 1 .. n PROVE Byte(start + k - 1) \in Octets
  <2>1. start + k - 1 \in 0 .. array.capacity - 1
    <3>1. start \in Nat /\ k \in 1 .. array.size - start
      BY <1>1
    <3> HIDE DEF start
    <3>2. QED
      BY <1>3, <3>1
  <2>2. QED
    BY <1>1, <1>5, <2>1, CellsAreOctets
<1> HIDE DEF n, start
<1>7. bytes \in Seq(Octets) /\ Len(bytes) = n
  BY <1>4, <1>6
<1>8. ASSUME NEW i \in 1 .. Len(c) PROVE bytes[i] = c[i]
  <2>1. i \in 1 .. n
    BY <1>2, <1>4
  <2>2. bytes[i] = Byte(start + i - 1)
    BY <2>1
  <2>3. QED
    BY <1>1, <1>5, <2>2 DEF start
<1> HIDE DEF bytes, v
<1>9. Decompressed(bytes) = v
  BY <1>2, <1>4, <1>7, <1>8, NumberReturns
<1>10. DecodeZigzag(Decompressed(bytes)) = number.value
  BY <1>2, <1>9
<1>11. QED
  BY <1>10 DEF bytes, n, start

\* The invariant of the array holds in every state: the chain, the capacity, the size, the
\* position and the block pointer agree, whatever is written, read, positioned or received,
\* and the integer written last still stands where it was written (bytearray.cpp).
THEOREM ArrayInvariant ==
  ASSUME ConstantsFit
  PROVE  Spec => []ArrayInv
<1>1. QED
  BY ArrayInit, ArrayStep, PTL DEF Spec

\* An integer that was written compressed is what is read from where it was written, for
\* every width, group, block size and integer that fits, and whatever lies behind it
\* (writeInt32_compressed() and readInt32_compressed(), bytearray.cpp).
THEOREM NumbersAlwaysReturn ==
  ASSUME ConstantsFit
  PROVE  Spec => []NumbersReturn
<1>1. QED
  BY ArrayInvariant, NumberIsThere, PTL

-----------------------------------------------------------------------------
(* What a call has received                                                *)

\* Fewer errors than make the count of what is missing wrap around.
FewErrors == MaxLength + MaxErrors < LengthMod

LEMMA ExactInit ==
  ASSUME ConstantsFit
  PROVE  StreamInit => ExactInv
<1>1. MaxErrors \in Nat
  BY DEF ConstantsFit
<1>2. QED
  BY <1>1 DEF StreamInit, NoCall, ExactInv, FixedSizeExact

\* The bytes of a call lie in front of the position.
LEMMA KeptReceived ==
  ASSUME ArrayInv, ExactInv, call.kind \in {"read", "write", "returned"}, ~crashed,
         NEW w, Keeps(array, w), NEW i \in 1 .. call.length + call.errors - call.todo
  PROVE  Cell(w, call.start + i - 1) = Peer[call.first + i]
<1> DEFINE received == call.length + call.errors - call.todo
           j == call.start + i - 1
<1>1. /\ array.position = call.start + received
      /\ \A k \in 1 .. received : Byte(call.start + k - 1) = Peer[call.first + k]
  BY DEF ExactInv, FixedSizeExact
<1>2. /\ call.start \in Nat /\ call.length \in Nat /\ call.errors \in Nat /\ call.todo \in Nat
      /\ array \in Chains
  BY DEF ArrayInv, Calls
<1>3. array.position \in Nat /\ array.size \in Nat /\ array.position <= array.size
  BY <1>2, ChainFields
<1>4. j \in 0 .. array.size - 1 /\ i \in 1 .. received
  BY <1>1, <1>2, <1>3
<1>5. Byte(j) = Cell(array, j)
  BY DEF Byte, Cell
<1>6. Byte(j) = Peer[call.first + i]
  BY <1>1, <1>4
<1> HIDE DEF j, received
<1>7. Cell(w, j) = Cell(array, j)
  BY <1>4 DEF Keeps
<1>8. QED
  BY <1>5, <1>6, <1>7 DEF j

\* An error adds one byte to what is missing and nothing to the array.
LEMMA ErrorKeepsExact ==
  ASSUME ConstantsFit, ArrayInv, ArrayInv', ExactInv, FewErrors, ~crashed, call.kind \in {"read",
         "write"},
         NEW a \in Chains, Keeps(array, a), a.position = array.position, ErrorReturn(a)
  PROVE  ExactInv'
<1> DEFINE received == call.length + call.errors - call.todo
<1>1. /\ call \in Calls /\ call.length \in 1 .. MaxLength /\ call.errors \in Nat /\ call.todo \in Nat
      /\ call.todo <= call.length + call.errors /\ call.start \in Nat /\ call.first \in Nat
      /\ MaxLength \in Nat /\ MaxErrors \in Nat /\ LengthMod \in Nat
  BY SMTT(30) DEF ArrayInv, ExactInv, Calls, ConstantsFit
<1>2. call.errors < MaxErrors /\ array' = a /\ taken' = taken /\ crashed' = crashed
  BY DEF ErrorReturn, Becomes
<1>3. (call.todo + 1) % LengthMod = call.todo + 1
  <2>1. call.todo + 1 \in 0 .. LengthMod - 1 /\ LengthMod \in Nat \ {0}
    BY <1>1, <1>2 DEF FewErrors
  <2> DEFINE x == call.todo + 1
  <2> HIDE DEF x
  <2>2. x % LengthMod = x
    BY <2>1, SmallRemainder DEF x
  <2>3. QED
    BY <2>2 DEF x
<1>4. call' = [call EXCEPT !.errors = @ + 1, !.todo = call.todo + 1]
  <2>1. call.todo + 1 # 0
    BY <1>1
  <2>2. call' = [call EXCEPT !.errors = @ + 1, !.todo = call.todo + 1,
                             !.kind = IF call.todo + 1 = 0 THEN "returned" ELSE @]
    BY <1>3 DEF ErrorReturn
  <2>3. QED
    BY <1>1, <2>1, <2>2 DEF Calls
<1>5. /\ call'.kind = call.kind /\ call'.length = call.length /\ call'.errors = call.errors + 1
      /\ call'.todo = call.todo + 1 /\ call'.start = call.start /\ call'.first = call.first
  BY <1>1, <1>4 DEF Calls
<1>6. call'.length + call'.errors - call'.todo = received
  BY <1>1, <1>5
<1>7. array.position = call.start + received /\ taken = call.first + received
  BY DEF ExactInv, FixedSizeExact
<1>8. ASSUME NEW i \in 1 .. received PROVE Byte(call.start + i - 1)' = Peer[call.first + i]
  <2>1. Cell(a, call.start + i - 1) = Peer[call.first + i]
    BY KeptReceived
  <2>2. QED
    BY <1>2, <1>5, <2>1 DEF Byte, Cell
<1> HIDE DEF received
<1>9. FixedSizeExact'
  BY <1>2, <1>5, <1>6, <1>7, <1>8 DEF FixedSizeExact
<1>10. call'.errors <= MaxErrors /\ call'.todo <= call'.length + call'.errors
  BY <1>1, <1>2, <1>5
<1>11. QED
  BY <1>1, <1>5, <1>9, <1>10 DEF ExactInv

\* What is received is added behind what the call has received before.
LEMMA AdvanceKeepsExact ==
  ASSUME ConstantsFit, ArrayInv, ExactInv, ~crashed, call.kind \in {"read", "write"},
         NEW a \in Chains, Works(a), NEW n \in 1 .. call.todo, taken + n <= Len(Peer),
         Advance(a, n), Progress(n)
  PROVE  ExactInv'
<1> DEFINE length == call.length
           errors == call.errors
           todo == call.todo
           start == call.start
           first == call.first
           received == length + errors - todo
           bytes == SubSeq(Peer, taken + 1, taken + n)
           p == a.position
           size == array'.size
<1>1. /\ length \in Nat /\ errors \in Nat /\ todo \in Nat /\ start \in Nat /\ first \in Nat
      /\ todo <= length + errors /\ n \in Nat /\ n <= todo /\ taken \in Nat
  BY DEF ArrayInv, ExactInv, Calls, ConstantsFit
<1>2. call.length \in 1 .. MaxLength /\ call.errors <= MaxErrors
  BY DEF ExactInv
<1>3. /\ call'.kind \in {"read", "write", "returned"} /\ call'.length = length
      /\ call'.errors = errors /\ call'.todo = todo - n /\ call'.start = start /\ call'.first = first
  <2>1. call \in Calls
    BY DEF ArrayInv
  <2>2. CASE call.todo = n
    <3>1. call' = [call EXCEPT !.kind = "returned", !.todo = 0]
      BY <2>2 DEF Progress
    <3>2. call.todo - n = 0
      BY <1>1, <2>2
    <3>3. QED
      BY <2>1, <3>1, <3>2 DEF Calls
  <2>3. CASE call.todo # n
    <3>1. call' = [call EXCEPT !.todo = call.todo - n]
      BY <2>3 DEF Progress
    <3>2. QED
      BY <2>1, <3>1 DEF Calls
  <2>4. QED
    BY <2>2, <2>3
<1>4. p = start + received /\ taken = first + received /\ Keeps(array, a)
  BY DEF ExactInv, FixedSizeExact, Works
<1>5. taken' = taken + n
  BY DEF Advance
<1>6. /\ bytes \in Seq(Octets) /\ Len(bytes) = n /\ \A k \in 1 .. n : bytes[k] = Peer[taken + k]
      /\ crashed' = TRUE \/ Puts(a, bytes, array')
  BY AdvanceStep
<1>7. \A i \in 1 .. received : Cell(a, start + i - 1) = Peer[first + i]
  BY <1>4, KeptReceived
<1>8. p \in Nat /\ a.size \in Nat
  BY ChainFields
<1>9. ASSUME Puts(a, bytes, array')
      PROVE  /\ array'.position = p + n
             /\ size \in Nat /\ p + n <= size
             /\ \A i \in 0 .. size - 1 :
                  Cell(array', i) = IF i \in p .. p + n - 1 THEN bytes[i - p + 1] ELSE Cell(a, i)
  <2>1. /\ array'.position = p + n
        /\ size = (IF p + n > a.size THEN p + n ELSE a.size)
        /\ \A i \in 0 .. size - 1 :
             Cell(array', i) = IF i \in p .. p + n - 1 THEN bytes[i - p + 1] ELSE Cell(a, i)
    BY <1>6, <1>9 DEF Puts
  <2> HIDE DEF p, size
  <2>2. size \in Nat /\ p + n <= size
    BY <1>1, <1>8, <2>1
  <2>3. QED
    BY <2>1, <2>2
<1> HIDE DEF bytes, length, errors, todo, start, first, p, size
<1>10. length + errors - (todo - n) = received + n /\ todo - n <= length + errors /\ received \in Nat
  BY <1>1
<1> HIDE DEF received
<1>11. ASSUME Puts(a, bytes, array'), NEW i \in 1 .. received + n
       PROVE  Cell(array', start + i - 1) = Peer[first + i]
  <2> DEFINE j == start + i - 1
  <2>1. j \in 0 .. size - 1
    BY <1>1, <1>4, <1>8, <1>9, <1>10, <1>11
  <2>2. CASE i <= received
    <3>1. i \in 1 .. received /\ j \notin p .. p + n - 1
      BY <1>1, <1>4, <1>10, <2>2
    <3> HIDE DEF j
    <3>2. Cell(array', j) = Cell(a, j)
      BY <1>9, <1>11, <2>1, <3>1
    <3>3. QED
      BY <1>7, <3>1, <3>2 DEF j
  <2>3. CASE ~(i <= received)
    <3> DEFINE k == i - received
    <3>1. j \in p .. p + n - 1 /\ j - p + 1 = k /\ k \in 1 .. n /\ taken + k = first + i
      BY <1>1, <1>4, <1>10, <2>3
    <3> HIDE DEF j, k
    <3>2. Cell(array', j) = bytes[k]
      BY <1>9, <1>11, <2>1, <3>1
    <3>3. bytes[k] = Peer[first + i]
      BY <1>6, <3>1
    <3>4. QED
      BY <3>2, <3>3 DEF j
  <2>4. QED
    BY <2>2, <2>3
<1>12. FixedSizeExact'
  <2>1. CASE crashed'
    BY <2>1 DEF FixedSizeExact
  <2>2. CASE ~crashed'
    <3>1. Puts(a, bytes, array')
      BY <1>6, <2>2
    <3>2. call'.length + call'.errors - call'.todo = received + n
      BY <1>3, <1>10
    <3>3. array'.position = start + (received + n) /\ taken' = first + (received + n)
      BY <1>1, <1>4, <1>5, <1>9, <1>10, <3>1
    <3>4. \A i : Byte(i)' = Cell(array', i)
      BY DEF Byte, Cell
    <3>5. QED
      BY <1>3, <1>11, <3>1, <3>2, <3>3, <3>4 DEF FixedSizeExact
  <2>3. QED
    BY <2>1, <2>2
<1>13. call'.length \in 1 .. MaxLength /\ call'.errors <= MaxErrors
  BY <1>2, <1>3 DEF length, errors
<1>14. call'.todo <= call'.length + call'.errors
  BY <1>3, <1>10
<1>15. QED
  BY <1>12, <1>13, <1>14 DEF ExactInv

\* Every step keeps the account of the call.
LEMMA ExactStep ==
  ASSUME ConstantsFit, FewErrors
  PROVE  ArrayInv /\ ArrayInv' /\ ExactInv /\ [Next]_allVars => ExactInv'
<1> SUFFICES ASSUME ArrayInv, ArrayInv', ExactInv, [Next]_allVars PROVE ExactInv'
  OBVIOUS
<1>0. call \in Calls /\ call' \in Calls /\ MaxErrors \in Nat /\ MaxLength \in Nat
  BY DEF ArrayInv, ConstantsFit
<1>1. CASE call.kind = "none" /\ Operation /\ UNCHANGED streamVars
  BY <1>1 DEF ExactInv, FixedSizeExact, streamVars
<1>2. ASSUME NEW kind \in {"read", "write"}, NEW length \in 1 .. MaxLength, Begin(kind, length)
      PROVE  ExactInv'
  <2>1. /\ call'.kind = kind /\ call'.length = length /\ call'.todo = length /\ call'.errors = 0
        /\ call'.start = array.position /\ call'.first = taken /\ array' = array /\ taken' = taken
    BY <1>2 DEF Begin, vars
  <2>2. array.position \in Nat /\ taken \in Nat
    BY ChainFields DEF ArrayInv, ConstantsFit
  <2>3. length + 0 - length = 0 /\ array.position = array.position + 0 /\ taken = taken + 0
        /\ length <= length + 0 /\ \A i : i \notin 1 .. 0
    BY <2>2
  <2>4. FixedSizeExact'
    BY <2>1, <2>2, <2>3 DEF FixedSizeExact
  <2>5. QED
    BY <1>0, <2>1, <2>3, <2>4 DEF ExactInv
<1>3. ASSUME ~crashed, (\E fill \in Fills : ReadRound(fill)) \/ WriteRound PROVE ExactInv'
  <2>1. /\ call.kind \in {"read", "write"}
        /\ \E a \in Chains :
             \/ /\ Works(a)
                /\ \E n \in 1 .. call.todo : taken + n <= Len(Peer) /\ Advance(a, n) /\ Progress(n)
             \/ /\ Keeps(array, a) /\ DataOf(a) = DataOf(array) /\ a.position = array.position
                /\ EndOfStream(a) \/ ErrorReturn(a)
    BY <1>3, RoundStep
  <2>2. ASSUME NEW a \in Chains, EndOfStream(a) PROVE ExactInv'
    <3>1. /\ call'.kind = "ended" /\ call'.length = call.length /\ call'.errors = call.errors
          /\ call'.todo = call.todo
      BY <1>0, <2>2 DEF EndOfStream, Calls
    <3>2. QED
      BY <2>1, <3>1 DEF ExactInv, FixedSizeExact
  <2>3. QED
    BY <1>3, <2>1, <2>2, AdvanceKeepsExact, ErrorKeepsExact
<1>4. CASE Return
  <2>1. call' = NoCall
    BY <1>4 DEF Return
  <2>2. QED
    BY <1>0, <2>1 DEF NoCall, ExactInv, FixedSizeExact
<1>5. CASE UNCHANGED allVars
  <2>1. call' = call /\ taken' = taken /\ array' = array /\ crashed' = crashed
    BY <1>5 DEF allVars, streamVars, vars
  <2>2. QED
    BY <2>1 DEF ExactInv, FixedSizeExact, Byte
<1>6. QED
  BY <1>1, <1>2, <1>3, <1>4, <1>5 DEF Next

\* read_fixed_size() and write_fixed_size() receive just what the peer has sent, in order,
\* and when they return the length, one byte more for every error on the way; until the
\* errors of a call are so many that the length wraps around (stream.cpp:6-60).
THEOREM FixedSizeAlwaysExact ==
  ASSUME ConstantsFit, FewErrors
  PROVE  Spec => []FixedSizeExact
<1>1. ExactInv => FixedSizeExact
  BY DEF ExactInv
<1>2. QED
  BY <1>1, ArrayInvariant, ExactInit, ExactStep, PTL DEF Spec

-----------------------------------------------------------------------------
(* The array implements the buffer                                         *)

\* The data of the buffer and the position, before and after a step.
LEMMA DataOfBuffer ==
  /\ [k \in 1 .. array.size |-> Byte(k - 1)] = DataOf(array)
  /\ [k \in 1 .. array'.size |-> Byte(k - 1)'] = DataOf(array')
BY DEF DataOf, Byte, Cell

\* A buffer step told by DataOf.
LEMMA PutRefines ==
  ASSUME ConstantsFit, NEW a \in Chains, DataOf(a) = DataOf(array), a.position = array.position,
         NEW bytes \in Seq(Octets), bytes \in Inputs, Puts(a, bytes, array'), result' = <<>>
  PROVE  Buffer!Next
<1>1. DataOf(array') = SubSeq(DataOf(array), 1, array.position) \o bytes
                         \o SubSeq(DataOf(array), array.position + Len(bytes) + 1, Len(DataOf(array)))
  BY PutsData
<1>2. array'.position = array.position + Len(bytes)
  BY DEF Puts
<1>3. Buffer!Put(bytes)
  BY <1>1, <1>2, DataOfBuffer DEF Buffer!Put
<1>4. QED
  BY <1>3 DEF Buffer!Next

\* A read is the read of the buffer, refused or not.
LEMMA ReadRefines ==
  ASSUME ConstantsFit, array \in Chains, NEW m, Reads(m)
  PROVE  Buffer!Next
<1>1. /\ array.position \in Nat /\ array.size \in Nat /\ array.position <= array.size
      /\ m \in Nat /\ m <= Readable(array) /\ Readable(array) = array.size - array.position
  BY ChainFields DEF Reads, Readable
<1>2. Len(DataOf(array)) = array.size
  BY DataIsSequence
<1>3. DataOf(array') = DataOf(array) /\ array'.position = array.position + m
  BY <1>1, MovedKeeps DEF Reads
<1>4. CASE result' = Fetched(array, m)
  <2>1. result' = SubSeq(DataOf(array), array.position + 1, array.position + m)
    BY <1>1, <1>4, FetchedData
  <2>2. Buffer!Get(m)
    BY <1>3, <2>1, DataOfBuffer DEF Buffer!Get
  <2>3. m \in 0 .. Len(DataOf(array)) - array.position
    BY <1>1, <1>2
  <2>4. QED
    BY <2>2, <2>3, DataOfBuffer DEF Buffer!Next
<1>5. CASE result' = Refused
  <2>1. array'.position \in array.position .. Len(DataOf(array))
    BY <1>1, <1>2, <1>3
  <2>2. Buffer!Refuse
    BY <1>3, <1>5, <2>1, DataOfBuffer DEF Buffer!Refuse
  <2>3. QED
    BY <2>2 DEF Buffer!Next
<1>6. QED
  BY <1>4, <1>5 DEF Reads

\* toString() gives the rest of the buffer.
LEMMA PeekRefines ==
  ASSUME ConstantsFit, array \in Chains, AsString
  PROVE  Buffer!Next
<1>1. /\ array.position \in Nat /\ array.size \in Nat /\ array.position <= array.size
      /\ Readable(array) = array.size - array.position /\ Readable(array) \in Nat
  BY ChainFields DEF Readable
<1>2. Len(DataOf(array)) = array.size /\ array.position + Readable(array) = array.size
  BY <1>1, DataIsSequence
<1>3. Fetched(array, Readable(array))
        = SubSeq(DataOf(array), array.position + 1, array.position + Readable(array))
  BY <1>1, FetchedData
<1>4. result' = SubSeq(DataOf(array), array.position + 1, Len(DataOf(array))) /\ array' = array
  BY <1>2, <1>3 DEF AsString
<1>5. Buffer!Peek
  BY <1>4, DataOfBuffer DEF Buffer!Peek
<1>6. QED
  BY <1>5 DEF Buffer!Next

\* setPosition() moves in the buffer, is refused or meets the null pointer.
LEMMA SeekRefines ==
  ASSUME ConstantsFit, array \in Chains, NEW n \in Nat, SetPosition(n)
  PROVE  [Buffer!Next]_(Buffer!vars)
<1>0. /\ array.position \in Nat /\ array.size \in Nat /\ array.position <= array.size
      /\ Len(DataOf(array)) = array.size
  BY ChainFields, DataIsSequence
<1>1. CASE array' = array /\ result' = Refused
  <2>1. array.position \in array.position .. Len(DataOf(array))
    BY <1>0
  <2>2. Buffer!Refuse
    BY <1>1, <2>1, DataOfBuffer DEF Buffer!Refuse
  <2>3. QED
    BY <2>2 DEF Buffer!Next
<1>2. CASE array' = array /\ result' = result
  BY <1>2 DEF Buffer!vars, Byte
<1>3. CASE n < array.capacity /\ array' = Positioned(array, n) /\ result' = <<>>
  <2>1. /\ array' \in Chains /\ array'.position = n
        /\ array'.size = (IF n > array.size THEN n ELSE array.size)
        /\ \A k \in 1 .. array.size : DataOf(array')[k] = DataOf(array)[k]
    BY <1>3, PositionedKeeps DEF Keeps
  <2>2. DataOf(array') \in Seq(Octets) /\ Len(DataOf(array')) = array'.size /\ DataOf(array) \in Seq(Octets)
    BY <2>1, DataIsSequence
  <2>3. CASE n <= array.size
    <3>1. array'.size = array.size
      BY <1>0, <2>1, <2>3
    <3>2. DataOf(array') = DataOf(array)
      BY <1>0, <2>1, <2>2, <3>1, SeqEqual
    <3>3. Buffer!Seek
      BY <1>0, <1>3, <2>1, <2>3, <3>2, DataOfBuffer DEF Buffer!Seek
    <3>4. QED
      BY <3>3 DEF Buffer!Next
  <2>4. CASE ~(n <= array.size)
    <3>1. array'.size = n
      BY <1>0, <2>1, <2>4
    <3> DEFINE d == DataOf(array)
               e == DataOf(array')
               part == SubSeq(e, 1, Len(d))
    <3>2. /\ part \in Seq(Octets) /\ Len(part) = Len(d) - 1 + 1
          /\ \A k \in 1 .. Len(d) - 1 + 1 : part[k] = e[1 + k - 1]
      <4>1. 1 \in 1 .. Len(e) + 1 /\ Len(d) \in Nat /\ 1 <= Len(d) + 1 /\ Len(d) <= Len(e)
        BY <1>0, <2>2, <2>4, <3>1
      <4> HIDE DEF d, e
      <4>2. e \in Seq(Octets)
        BY <2>2 DEF e
      <4>3. QED
        BY <4>1, <4>2, PartOf
    <3>3. Len(d) - 1 + 1 = Len(d) /\ \A k \in 1 .. Len(d) : 1 + k - 1 = k
      BY <1>0
    <3>4. \A k \in 1 .. Len(d) : e[k] = d[k]
      BY <1>0, <2>1
    <3>5. d \in Seq(Octets)
      BY <2>2
    <3> HIDE DEF d, e, part
    <3>6. part = d
      BY <3>2, <3>3, <3>4, <3>5, SeqEqual
    <3>7. Buffer!Seek
      BY <1>0, <1>3, <2>1, <2>2, <2>4, <3>1, <3>6, DataOfBuffer DEF Buffer!Seek, part, d, e
    <3>8. QED
      BY <3>7 DEF Buffer!Next
  <2>5. QED
    BY <2>3, <2>4
<1>4. QED
  BY <1>1, <1>2, <1>3 DEF SetPosition, Becomes

LEMMA EmptyData == \A a : a.size = 0 => DataOf(a) = <<>>
<1> SUFFICES ASSUME NEW a, a.size = 0 PROVE DataOf(a) = <<>>
  OBVIOUS
<1>1. DataOf(a) \in Seq({}) /\ Len(DataOf(a)) = 0
  BY DEF DataOf
<1>2. QED
  BY <1>1, EmptySeq

\* clear() empties the buffer.
LEMMA ClearRefines ==
  ASSUME ConstantsFit, array \in Chains, Clear
  PROVE  Buffer!Next
<1>1. array'.size = 0 /\ array'.position = 0 /\ result' = <<>>
  BY ClearStep DEF Clear
<1>2. DataOf(array') = <<>>
  BY <1>1, EmptyData
<1>3. Buffer!Clear
  BY <1>1, <1>2, DataOfBuffer DEF Buffer!Clear
<1>4. QED
  BY <1>3 DEF Buffer!Next

\* A round puts what has arrived, or does nothing to the buffer.
LEMMA RoundRefines ==
  ASSUME ConstantsFit, ArrayInv, (\E fill \in Fills : ReadRound(fill)) \/ WriteRound
  PROVE  [Buffer!Next]_(Buffer!vars)
<1>1. PICK a \in Chains :
        \/ /\ Works(a)
           /\ \E n \in 1 .. call.todo : taken + n <= Len(Peer) /\ Advance(a, n) /\ Progress(n)
        \/ /\ Keeps(array, a) /\ DataOf(a) = DataOf(array) /\ a.position = array.position
           /\ EndOfStream(a) \/ ErrorReturn(a)
  BY RoundStep
<1>2. ASSUME Works(a), NEW n \in 1 .. call.todo, taken + n <= Len(Peer), Advance(a, n)
      PROVE  [Buffer!Next]_(Buffer!vars)
  <2> DEFINE bytes == SubSeq(Peer, taken + 1, taken + n)
  <2>1. /\ bytes \in Seq(Octets)
        /\ \/ crashed' = TRUE /\ array' = array /\ result' = result
           \/ /\ crashed' = crashed /\ result' = <<>>
              /\ Puts(a, bytes, array')
    BY <1>2, AdvanceStep
  <2>2. bytes \in Inputs
    <3>1. taken \in Nat /\ n \in Nat /\ n >= 1 /\ Len(Peer) \in Nat
      BY DEF ArrayInv, Calls, ConstantsFit
    <3>2. taken + 1 \in 1 .. Len(Peer) /\ taken + n \in 1 .. Len(Peer)
      BY <1>2, <3>1
    <3> DEFINE PartsFrom(i) == {SubSeq(Peer, i, j) : j \in 1 .. Len(Peer)}
    <3>3. SubSeq(Peer, taken + 1, taken + n) \in PartsFrom(taken + 1)
      BY <3>2
    <3>4. PartsFrom(taken + 1) \in {PartsFrom(i) : i \in 1 .. Len(Peer)}
      BY <3>2
    <3>5. QED
      BY <3>3, <3>4, Zenon DEF Inputs
  <2>3. CASE array' = array /\ result' = result
    BY <2>3 DEF Buffer!vars, Byte
  <2> HIDE DEF bytes
  <2>4. CASE Puts(a, bytes, array') /\ result' = <<>>
    BY <1>2, <2>1, <2>2, <2>4, PutRefines DEF Works
  <2>5. QED
    BY <2>1, <2>3, <2>4
<1>3. ASSUME DataOf(a) = DataOf(array), a.position = array.position, EndOfStream(a) \/ ErrorReturn(a)
      PROVE  UNCHANGED Buffer!vars
  <2>1. array' = a /\ result' = result
    BY <1>3 DEF EndOfStream, ErrorReturn, Becomes
  <2>2. QED
    BY <1>3, <2>1, DataOfBuffer DEF Buffer!vars
<1>4. QED
  BY <1>1, <1>2, <1>3

\* An operation is a step of the buffer, or none.
LEMMA OperationRefines ==
  ASSUME ConstantsFit, ArrayInv, Operation
  PROVE  [Buffer!Next]_(Buffer!vars)
<1>0. array \in Chains
  BY DEF ArrayInv
<1>1. ASSUME NEW text \in Texts, NEW fill \in Fills,
             Write(text, fill) \/ WriteString(text, fill) \/ ReadFromFile(text, fill)
      PROVE  Buffer!Next
  <2> DEFINE c == Compressed[Len(text)]
  <2>1. text \in Seq(Octets) /\ c \in Seq(Octets) /\ c \o text \in Seq(Octets)
    BY LengthBytes, ConcatProperties
  <2>2. text \in Inputs /\ c \o text \in Inputs
    BY Zenon DEF Inputs
  <2>3. Puts(array, text, array') \/ Puts(array, c \o text, array')
    BY <1>0, <1>1, WriteStep
  <2>4. result' = <<>>
    BY <1>1 DEF Write, WriteString, ReadFromFile
  <2> HIDE DEF c
  <2>5. QED
    BY <1>0, <2>1, <2>2, <2>3, <2>4, PutRefines
<1>2. ASSUME NEW value \in Numbers, NEW fill \in Fills, WriteNumber(value, fill) PROVE Buffer!Next
  <2> DEFINE c == Compressed[EncodeZigzag(value)]
  <2>1. c \in Seq(Octets) /\ c \in Inputs
    BY NumberBytes DEF Inputs
  <2>2. Puts(array, c, array')
    BY <1>0, <1>2, WriteNumberStep
  <2>3. result' = <<>>
    BY <1>2 DEF WriteNumber
  <2> HIDE DEF c
  <2>4. QED
    BY <1>0, <2>1, <2>2, <2>3, PutRefines
<1>3. ASSUME NEW n \in Nat, Read(n) \/ ReadNumber \/ ReadString PROVE Buffer!Next
  BY <1>0, <1>3, ReadStep, ReadRefines
<1>4. ASSUME NEW n \in Nat, SetPosition(n) PROVE [Buffer!Next]_(Buffer!vars)
  BY <1>0, <1>4, SeekRefines
<1>5. AsString => Buffer!Next
  BY <1>0, PeekRefines
<1>6. Clear => Buffer!Next
  BY <1>0, ClearRefines
<1>7. \A n \in 0 .. MaxBlocks * BlockSize : n \in Nat
  BY Product DEF ConstantsFit
<1>8. QED
  BY <1>1, <1>2, <1>3, <1>4, <1>5, <1>6, <1>7 DEF Operation

\* Every step is one of the buffer, or none.
LEMMA BufferStep ==
  ASSUME ConstantsFit
  PROVE  ArrayInv /\ [Next]_allVars => [Buffer!Next]_(Buffer!vars)
<1> SUFFICES ASSUME ArrayInv, [Next]_allVars PROVE [Buffer!Next]_(Buffer!vars)
  OBVIOUS
<1>1. ASSUME UNCHANGED vars PROVE UNCHANGED Buffer!vars
  BY <1>1 DEF vars, Buffer!vars, Byte
<1>2. CASE Operation
  BY <1>2, OperationRefines
<1>3. CASE (\E fill \in Fills : ReadRound(fill)) \/ WriteRound
  BY <1>3, RoundRefines
<1>4. CASE Return \/ (\E kind \in {"read", "write"}, length \in 1 .. MaxLength : Begin(kind, length))
  BY <1>1, <1>4 DEF Return, Begin
<1>5. CASE UNCHANGED allVars
  BY <1>1, <1>5 DEF allVars
<1>6. QED
  BY <1>2, <1>3, <1>4, <1>5 DEF Next

LEMMA BufferInit ==
  ASSUME ConstantsFit
  PROVE  StreamInit => Buffer!Init
<1> SUFFICES ASSUME StreamInit PROVE Buffer!Init
  OBVIOUS
<1>1. array.size = 0 /\ array.position = 0 /\ result = <<>>
  BY ArrayBegins DEF StreamInit, Init
<1>2. DataOf(array) = <<>>
  BY <1>1, EmptyData
<1>3. QED
  BY <1>1, <1>2, DataOfBuffer DEF Buffer!Init

\* The byte array behaves as one sequence of bytes with a position: every operation and every
\* round of a call is one step of ByteBuffer, or none, wherever the blocks end
\* (bytearray.cpp, stream.cpp, socket-stream.cpp).
THEOREM ArrayImplementsBuffer ==
  ASSUME ConstantsFit
  PROVE  Spec => ImplementsBuffer
<1>1. QED
  BY BufferInit, BufferStep, ArrayInvariant, PTL DEF Spec, ImplementsBuffer, Buffer!Spec
=============================================================================

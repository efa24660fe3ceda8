---------------------------- MODULE ServletProofs ----------------------------
(* Proofs about the table of servlets, for any names, patterns and calls:  *)
(* a request gets the servlet the calls up to then ask for.                *)
EXTENDS Servlets, SequenceTheorems, WellFoundedInduction, TLAPS

-----------------------------------------------------------------------------
(* First and last positions                                                *)

\* A set of natural numbers has a least one.
LEMMA Least ==
  ASSUME NEW T, T \subseteq Nat, T # {}
  PROVE  Min(T) \in T /\ \A y \in T : Min(T) <= y
<1> DEFINE R == {pair \in Nat \X Nat : pair[1] < pair[2]}
<1>1. IsWellFoundedOn(R, Nat)
  BY NatLessThanWellFounded DEF OpToRel
<1>2. \E x \in T : \A y \in T : ~(<<y, x>> \in R)
  <2> HIDE DEF R
  <2>1. QED
    BY <1>1, WFMin
<1>3. \E x \in T : \A y \in T : x <= y
  <2>1. PICK x \in T : \A y \in T : ~(<<y, x>> \in R)
    BY <1>2
  <2>2. ASSUME NEW y \in T PROVE x <= y
    <3>1. <<y, x>> \notin R
      BY <2>1
    <3>2. QED
      BY <3>1
  <2>3. QED
    BY <2>2
<1>4. QED
  BY <1>3 DEF Min

\* A set of positions has a last one.
LEMMA Greatest ==
  ASSUME NEW n \in Nat, NEW T \in SUBSET (1..n), T # {}
  PROVE  Max(T) \in T /\ \A y \in T : Max(T) >= y
<1> DEFINE U == {n - x : x \in T}
<1>1. U \subseteq Nat /\ U # {}
  <2>1. \A x \in T : n - x \in Nat
    OBVIOUS
  <2>2. QED
    BY <2>1
<1>2. PICK u \in U : \A y \in U : u <= y
  <2> HIDE DEF U
  <2>1. QED
    BY <1>1, Least
<1>3. PICK x \in T : u = n - x
  BY <1>2
<1>4. ASSUME NEW y \in T PROVE x >= y
  <2>1. n - y \in U
    OBVIOUS
  <2>2. u <= n - y
    BY <1>2, <2>1
  <2>3. QED
    BY <1>3, <2>2
<1>5. QED
  BY <1>4 DEF Max

-----------------------------------------------------------------------------
(* What erasing an entry leaves                                            *)

\* The list without its entry at i: those behind it move up.
LEMMA Removed ==
  ASSUME NEW S, NEW seq \in Seq(S), NEW i \in 1..Len(seq)
  PROVE  /\ RemoveAt(seq, i) \in Seq(S)
         /\ Len(RemoveAt(seq, i)) = Len(seq) - 1
         /\ \A j \in 1..(Len(seq) - 1) :
              RemoveAt(seq, i)[j] = IF j < i THEN seq[j] ELSE seq[j + 1]
<1> DEFINE a == SubSeq(seq, 1, i - 1)
           b == SubSeq(seq, i + 1, Len(seq))
<1>1. Len(seq) \in Nat /\ \A j \in 1..Len(seq) : seq[j] \in S
  BY LenProperties, ElementOfSeq
<1>2. /\ a \in Seq(S) /\ Len(a) = i - 1
      /\ \A j \in 1..(i - 1) : a[j] = seq[j]
  <2>1. \A j \in 1..(i - 1) : seq[j] \in S
    BY <1>1
  <2>2. /\ a \in Seq(S)
        /\ Len(a) = IF 1 <= i - 1 THEN (i - 1) - 1 + 1 ELSE 0
        /\ \A j \in 1..((i - 1) - 1 + 1) : a[j] = seq[1 + j - 1]
    BY <2>1, SubSeqProperties, <1>1
  <2>3. QED
    BY <2>2, <1>1
<1>3. /\ b \in Seq(S) /\ Len(b) = Len(seq) - i
      /\ \A j \in 1..(Len(seq) - i) : b[j] = seq[i + j]
  <2>1. \A j \in (i + 1)..Len(seq) : seq[j] \in S
    BY <1>1
  <2>2. /\ b \in Seq(S)
        /\ Len(b) = IF i + 1 <= Len(seq) THEN Len(seq) - (i + 1) + 1 ELSE 0
        /\ \A j \in 1..(Len(seq) - (i + 1) + 1) : b[j] = seq[(i + 1) + j - 1]
    BY <2>1, SubSeqProperties, <1>1
  <2>3. QED
    BY <2>2, <1>1
<1>4. /\ a \o b \in Seq(S)
      /\ Len(a \o b) = Len(a) + Len(b)
      /\ \A j \in 1..(Len(a) + Len(b)) :
           (a \o b)[j] = IF j <= Len(a) THEN a[j] ELSE b[j - Len(a)]
  BY <1>2, <1>3, ConcatProperties
<1>5. RemoveAt(seq, i) = a \o b
  BY DEF RemoveAt
<1> HIDE DEF a, b
<1>6. Len(a) + Len(b) = Len(seq) - 1
  BY <1>1, <1>2, <1>3
<1>7. ASSUME NEW j \in 1..(Len(seq) - 1)
      PROVE  (a \o b)[j] = IF j < i THEN seq[j] ELSE seq[j + 1]
  <2>1. (a \o b)[j] = IF j <= i - 1 THEN a[j] ELSE b[j - (i - 1)]
    BY <1>1, <1>2, <1>4, <1>6
  <2>2. CASE j < i
    BY <2>1, <2>2, <1>1, <1>2
  <2>3. CASE ~(j < i)
    <3>1. j - (i - 1) \in 1..(Len(seq) - i) /\ i + (j - (i - 1)) = j + 1
      BY <2>3, <1>1
    <3>2. QED
      BY <2>1, <2>3, <3>1, <1>1, <1>3
  <2>4. QED
    BY <2>2, <2>3
<1>8. QED
  BY <1>4, <1>5, <1>6, <1>7

-----------------------------------------------------------------------------
(* The inductive invariant                                                 *)

Entries == {Exact(n) : n \in Names} \cup {Glob(p) : p \in Patterns} \cup {Default}

TableTypes ==
  /\ calls \in Seq({"add", "delete"} \X Entries)
  /\ datas \in [Names -> Nat]
  /\ globs \in Seq(Patterns \X Nat)

\* The list holds what stands for a pattern, and nothing else, ...
GlobsStand ==
  \A i \in 1..Len(globs) :
    /\ globs[i][2] = Standing(Glob(globs[i][1]))
    /\ globs[i][2] \in 1..Len(calls)

\* ... in the order in which it was registered, ...
GlobsOrdered ==
  \A i, j \in 1..Len(globs) : i < j => globs[i][2] < globs[j][2]

\* ... and all of it.
GlobsComplete ==
  \A p \in Patterns :
    Standing(Glob(p)) # None => \E i \in 1..Len(globs) : globs[i][1] = p

ServletInv ==
  /\ TableTypes /\ GlobsStand /\ GlobsOrdered /\ GlobsComplete
  /\ \A n \in Names : datas[n] = Standing(Exact(n))
  /\ fallback = IF Standing(Default) # None THEN Standing(Default) ELSE NotFound

-----------------------------------------------------------------------------
(* What a call changes                                                     *)

\* A call decides what stands in its entry, and in no other.
LEMMA CallStands ==
  ASSUME TableTypes, NEW op \in {"add", "delete"}, NEW entry \in Entries, Call(op, entry)
  PROVE  /\ calls' \in Seq({"add", "delete"} \X Entries)
         /\ Len(calls) \in Nat /\ Len(calls') = Len(calls) + 1
         /\ Standing(entry)' = (IF op = "add" THEN Len(calls) + 1 ELSE None)
         /\ \A other : other # entry => Standing(other)' = Standing(other)
<1> DEFINE n == Len(calls)
           About(e) == {i \in DOMAIN calls : calls[i][2] = e}
<1>1. <<op, entry>> \in {"add", "delete"} \X Entries
  OBVIOUS
<1>2. /\ calls' = Append(calls, <<op, entry>>)
      /\ n \in Nat /\ DOMAIN calls = 1..n
  BY LenProperties DEF Call, TableTypes
<1>3. /\ calls' \in Seq({"add", "delete"} \X Entries)
      /\ Len(calls') = n + 1
      /\ DOMAIN calls' = 1..(n + 1)
      /\ \A i \in 1..n : calls'[i] = calls[i]
      /\ calls'[n + 1] = <<op, entry>>
  <2>1. calls' \in Seq({"add", "delete"} \X Entries) /\ Len(calls') = n + 1
    BY <1>1, <1>2, AppendProperties DEF TableTypes
  <2>2. (\A i \in 1..n : calls'[i] = calls[i]) /\ calls'[n + 1] = <<op, entry>>
    BY <1>1, <1>2, AppendProperties DEF TableTypes
  <2>3. QED
    BY <2>1, <2>2, LenProperties
<1>4. Standing(entry)' = IF op = "add" THEN n + 1 ELSE None
  <2>1. n + 1 \in About(entry)' /\ About(entry)' \in SUBSET (1..(n + 1))
    BY <1>2, <1>3
  <2>2. Max(About(entry)') = n + 1
    <3>1. Max(About(entry)') \in About(entry)' /\ \A y \in About(entry)' : Max(About(entry)') >= y
      <4> HIDE DEF About
      <4>1. n + 1 \in Nat /\ About(entry)' # {}
        BY <1>2, <2>1
      <4>2. QED
        BY <2>1, <4>1, Greatest
    <3> HIDE DEF About
    <3>2. QED
      BY <1>2, <2>1, <3>1
  <2>3. Standing(entry)' = IF About(entry)' # {} /\ calls'[Max(About(entry)')][1] = "add"
                           THEN Max(About(entry)') ELSE None
    BY DEF Standing
  <2> HIDE DEF About
  <2>4. QED
    BY <1>3, <2>1, <2>2, <2>3
<1>5. ASSUME NEW other, other # entry PROVE Standing(other)' = Standing(other)
  <2>1. About(other)' = About(other)
    <3>1. n + 1 \notin About(other)'
      BY <1>3, <1>5
    <3>2. QED
      BY <1>2, <1>3, <3>1
  <2>2. About(other) # {} => Max(About(other)) \in 1..n
    <3>1. About(other) \in SUBSET (1..n)
      BY <1>2
    <3>2. QED
      BY <1>2, <3>1, Greatest
  <2>3. /\ Standing(other)' = IF About(other)' # {} /\ calls'[Max(About(other)')][1] = "add"
                              THEN Max(About(other)') ELSE None
        /\ Standing(other) = IF About(other) # {} /\ calls[Max(About(other))][1] = "add"
                             THEN Max(About(other)) ELSE None
    BY DEF Standing
  <2> HIDE DEF About
  <2>4. QED
    BY <1>3, <2>1, <2>2, <2>3
<1>6. QED
  BY <1>2, <1>3, <1>4, <1>5

\* Entries of different kinds, or of different names, are different.
LEMMA EntriesApart ==
  ASSUME NEW a, NEW b
  PROVE  /\ Exact(a) # Glob(b) /\ Exact(a) # Default /\ Glob(a) # Default
         /\ a # b => Exact(a) # Exact(b) /\ Glob(a) # Glob(b)
BY DEF Exact, Glob, Default

\* Erasing a pattern takes away its entry, and keeps the others in their order.
LEMMA ErasedGlobs ==
  ASSUME TableTypes, GlobsStand, GlobsOrdered, NEW name
  PROVE  /\ Erased(name) \in Seq(Patterns \X Nat)
         /\ \A j \in 1..Len(Erased(name)) :
              \E k \in 1..Len(globs) : Erased(name)[j] = globs[k] /\ globs[k][1] # name
         /\ \A k \in 1..Len(globs) :
              globs[k][1] # name => \E j \in 1..Len(Erased(name)) : Erased(name)[j] = globs[k]
         /\ \A j, k \in 1..Len(Erased(name)) : j < k => Erased(name)[j][2] < Erased(name)[k][2]
<1> DEFINE T == {i \in 1..Len(globs) : globs[i][1] = name}
           found == SelectInSeq(globs, LAMBDA entry : entry[1] = name)
           list == Erased(name)
<1>1. globs \in Seq(Patterns \X Nat) /\ Len(globs) \in Nat
  BY LenProperties DEF TableTypes
<1>2. found = IF T # {} THEN Min(T) ELSE 0
  BY DEF SelectInSeq
<1>3. list = IF found = 0 THEN globs ELSE RemoveAt(globs, found)
  BY DEF Erased
<1>4. CASE T = {}
  <2>1. list = globs /\ \A k \in 1..Len(globs) : globs[k][1] # name
    BY <1>2, <1>3, <1>4
  <2> HIDE DEF list
  <2>2. QED
    BY <1>1, <2>1 DEF GlobsOrdered, list
<1>5. CASE T # {}
  <2>1. found \in T /\ list = RemoveAt(globs, found)
    <3>1. T \subseteq Nat
      OBVIOUS
    <3>2. Min(T) \in T
      <4> HIDE DEF T
      <4>1. QED
        BY <1>5, <3>1, Least
    <3>3. Min(T) # 0
      BY <3>2
    <3> HIDE DEF T, found, list
    <3>4. QED
      BY <1>2, <1>3, <1>5, <3>2, <3>3
  <2>2. PICK i \in 1..Len(globs) : globs[i][1] = name /\ list = RemoveAt(globs, i)
    <3> HIDE DEF found, list
    <3>1. QED
      BY <2>1
  <2> HIDE DEF found, T, list
  <2>3. ASSUME NEW k \in 1..Len(globs), globs[k][1] = name PROVE k = i
    <3>1. globs[k][2] = globs[i][2] /\ globs[i][2] \in Nat
      BY <2>2, <2>3 DEF GlobsStand
    <3>2. /\ i < k => globs[i][2] < globs[k][2]
          /\ k < i => globs[k][2] < globs[i][2]
      BY DEF GlobsOrdered
    <3>3. i \in Nat /\ k \in Nat
      BY <1>1
    <3>4. QED
      BY <3>1, <3>2, <3>3
  <2>4. /\ list \in Seq(Patterns \X Nat)
        /\ Len(list) = Len(globs) - 1
        /\ \A j \in 1..(Len(globs) - 1) :
             list[j] = IF j < i THEN globs[j] ELSE globs[j + 1]
    BY <1>1, <2>2, Removed
  <2> DEFINE n == Len(globs)
  <2>5. i \in 1..n /\ n \in Nat /\ Len(list) = n - 1
    BY <1>1, <2>4
  <2> HIDE DEF n
  <2>6. ASSUME NEW j \in 1..Len(list)
        PROVE  \E k \in 1..Len(globs) : list[j] = globs[k] /\ globs[k][1] # name
    <3>1. CASE j < i
      <4>1. j \in 1..Len(globs) /\ j # i
        BY <2>5, <3>1 DEF n
      <4>2. QED
        BY <2>3, <2>4, <3>1, <4>1
    <3>2. CASE ~(j < i)
      <4>1. j + 1 \in 1..Len(globs) /\ j + 1 # i
        BY <2>5, <3>2 DEF n
      <4>2. QED
        BY <2>3, <2>4, <3>2, <4>1
    <3>3. QED
      BY <3>1, <3>2
  <2>7. ASSUME NEW k \in 1..Len(globs), globs[k][1] # name
        PROVE  \E j \in 1..Len(list) : list[j] = globs[k]
    <3>1. k # i
      BY <2>2, <2>7
    <3>2. CASE k < i
      <4>1. k \in 1..Len(list) /\ list[k] = globs[k]
        BY <2>4, <2>5, <3>2 DEF n
      <4>2. QED
        BY <4>1
    <3>3. CASE ~(k < i)
      <4>1. k - 1 \in 1..(Len(globs) - 1) /\ ~(k - 1 < i) /\ (k - 1) + 1 = k
        BY <1>1, <2>2, <3>1, <3>3
      <4>2. QED
        BY <2>4, <4>1
    <3>4. QED
      BY <3>2, <3>3
  <2>8. ASSUME NEW j \in 1..Len(list), NEW k \in 1..Len(list), j < k
        PROVE  list[j][2] < list[k][2]
    <3> DEFINE At(h) == IF h < i THEN h ELSE h + 1
    <3>1. At(j) \in 1..Len(globs) /\ At(k) \in 1..Len(globs) /\ At(j) < At(k)
      BY <2>5, <2>8 DEF n
    <3>2. list[j] = globs[At(j)] /\ list[k] = globs[At(k)]
      BY <2>4
    <3> HIDE DEF At
    <3>3. QED
      BY <3>1, <3>2 DEF GlobsOrdered
  <2>9. QED
    BY <2>4, <2>6, <2>7, <2>8 DEF list
<1>6. QED
  BY <1>4, <1>5

-----------------------------------------------------------------------------
(* Every call keeps the invariant                                          *)

LEMMA ServletInitial == ServletInit => ServletInv
<1> SUFFICES ASSUME ServletInit PROVE ServletInv
  OBVIOUS
<1>1. calls = <<>> /\ globs = <<>> /\ fallback = NotFound /\ datas = [n \in Names |-> None]
  BY DEF ServletInit
<1>2. /\ calls \in Seq({"add", "delete"} \X Entries) /\ Len(calls) = 0
      /\ globs \in Seq(Patterns \X Nat) /\ Len(globs) = 0
  BY <1>1, EmptySeq
<1>3. \A entry : Standing(entry) = None
  <2>1. DOMAIN calls = {}
    BY <1>2, LenProperties
  <2>2. QED
    BY <2>1 DEF Standing
<1>4. datas \in [Names -> Nat] /\ \A n \in Names : datas[n] = None
  BY <1>1 DEF None
<1>5. \A n \in Names : datas[n] = Standing(Exact(n))
  BY <1>3, <1>4
<1>6. TableTypes /\ GlobsStand /\ GlobsOrdered /\ GlobsComplete
  BY <1>2, <1>3, <1>4 DEF TableTypes, GlobsStand, GlobsOrdered, GlobsComplete
<1>7. QED
  BY <1>1, <1>3, <1>5, <1>6 DEF ServletInv

\* Calls that leave the list of patterns alone, and what stands for them.
LEMMA GlobsUntouched ==
  ASSUME ServletInv, UNCHANGED globs, Len(calls) \in Nat, Len(calls') = Len(calls) + 1,
         \A p : Standing(Glob(p))' = Standing(Glob(p))
  PROVE  GlobsStand' /\ GlobsOrdered' /\ GlobsComplete'
<1>1. GlobsStand'
  BY DEF ServletInv, GlobsStand
<1>2. QED
  BY <1>1 DEF ServletInv, GlobsOrdered, GlobsComplete

\* Adding or deleting the servlet of a name.
LEMMA NameStep ==
  ASSUME ServletInv, NEW name \in Names, AddServlet(name) \/ DeleteServlet(name)
  PROVE  ServletInv'
<1>1. PICK op \in {"add", "delete"} :
        /\ Call(op, Exact(name)) /\ UNCHANGED <<globs, fallback>>
        /\ datas' = [datas EXCEPT ![name] = IF op = "add" THEN This ELSE None]
  BY DEF AddServlet, DeleteServlet
<1>2. Exact(name) \in Entries
  BY DEF Entries
<1>3. /\ calls' \in Seq({"add", "delete"} \X Entries)
      /\ Len(calls) \in Nat /\ Len(calls') = Len(calls) + 1
      /\ Standing(Exact(name))' = (IF op = "add" THEN Len(calls) + 1 ELSE None)
      /\ \A other : other # Exact(name) => Standing(other)' = Standing(other)
  BY <1>1, <1>2, CallStands DEF ServletInv
<1>4. (\A p : Standing(Glob(p))' = Standing(Glob(p))) /\ Standing(Default)' = Standing(Default)
  BY <1>3, EntriesApart
<1>5. GlobsStand' /\ GlobsOrdered' /\ GlobsComplete'
  BY <1>1, <1>3, <1>4, GlobsUntouched
<1>6. datas \in [Names -> Nat] /\ \A n \in Names : datas[n] = Standing(Exact(n))
  BY DEF ServletInv, TableTypes
<1>7. ASSUME NEW n \in Names PROVE datas'[n] \in Nat /\ datas'[n] = Standing(Exact(n))'
  <2>1. CASE n = name
    BY <1>1, <1>3, <1>6, <2>1 DEF This, None
  <2>2. CASE n # name
    <3>1. Standing(Exact(n))' = Standing(Exact(n))
      BY <1>3, <2>2, EntriesApart
    <3>2. QED
      BY <1>1, <1>6, <2>2, <3>1
  <2>3. QED
    BY <2>1, <2>2
<1>8. TableTypes'
  <2>1. datas' \in [Names -> Nat]
    <3>1. datas' = [n \in Names |-> datas'[n]]
      BY <1>1, <1>6
    <3>2. QED
      BY <1>7, <3>1
  <2>2. QED
    BY <1>1, <1>3, <2>1 DEF ServletInv, TableTypes
<1>9. fallback' = IF Standing(Default)' # None THEN Standing(Default)' ELSE NotFound
  BY <1>1, <1>4 DEF ServletInv
<1>10. QED
  BY <1>5, <1>7, <1>8, <1>9 DEF ServletInv

\* Setting the default servlet.
LEMMA DefaultStep ==
  ASSUME ServletInv, SetDefaultServlet
  PROVE  ServletInv'
<1>1. Call("add", Default) /\ fallback' = This /\ UNCHANGED <<datas, globs>>
  BY DEF SetDefaultServlet
<1>2. Default \in Entries
  BY DEF Entries
<1>3. /\ calls' \in Seq({"add", "delete"} \X Entries)
      /\ Len(calls) \in Nat /\ Len(calls') = Len(calls) + 1
      /\ Standing(Default)' = Len(calls) + 1
      /\ \A other : other # Default => Standing(other)' = Standing(other)
  BY <1>1, <1>2, CallStands DEF ServletInv
<1>4. \A p : Standing(Glob(p))' = Standing(Glob(p)) /\ Standing(Exact(p))' = Standing(Exact(p))
  BY <1>3, EntriesApart
<1>5. GlobsStand' /\ GlobsOrdered' /\ GlobsComplete'
  BY <1>1, <1>3, <1>4, GlobsUntouched
<1>6. TableTypes' /\ \A n \in Names : datas'[n] = Standing(Exact(n))'
  BY <1>1, <1>3, <1>4 DEF ServletInv, TableTypes
<1>7. fallback' = IF Standing(Default)' # None THEN Standing(Default)' ELSE NotFound
  BY <1>1, <1>3 DEF This, None
<1>8. QED
  BY <1>5, <1>6, <1>7 DEF ServletInv

\* Adding or deleting the servlet of a pattern.
LEMMA GlobStep ==
  ASSUME ServletInv, NEW name \in Patterns, AddGlobServlet(name) \/ DeleteGlobServlet(name)
  PROVE  ServletInv'
<1> DEFINE kept == Erased(name)
           n == Len(calls)
<1>1. PICK op \in {"add", "delete"} :
        /\ Call(op, Glob(name)) /\ UNCHANGED <<datas, fallback>>
        /\ globs' = IF op = "add" THEN Append(kept, <<name, n + 1>>) ELSE kept
  BY DEF AddGlobServlet, DeleteGlobServlet, WithGlob, This
<1>2. Glob(name) \in Entries
  BY DEF Entries
<1>3. /\ calls' \in Seq({"add", "delete"} \X Entries)
      /\ n \in Nat /\ Len(calls') = n + 1
      /\ Standing(Glob(name))' = (IF op = "add" THEN n + 1 ELSE None)
      /\ \A other : other # Glob(name) => Standing(other)' = Standing(other)
  BY <1>1, <1>2, CallStands DEF ServletInv
<1>4. /\ kept \in Seq(Patterns \X Nat) /\ Len(kept) \in Nat
      /\ \A j \in 1..Len(kept) : \E k \in 1..Len(globs) : kept[j] = globs[k] /\ globs[k][1] # name
      /\ \A k \in 1..Len(globs) :
           globs[k][1] # name => \E j \in 1..Len(kept) : kept[j] = globs[k]
      /\ \A j, k \in 1..Len(kept) : j < k => kept[j][2] < kept[k][2]
  <2>1. TableTypes /\ GlobsStand /\ GlobsOrdered
    BY DEF ServletInv
  <2>2. QED
    BY <2>1, ErasedGlobs, LenProperties, ZenonT(30)
<1> HIDE DEF kept
<1>5. ASSUME NEW j \in 1..Len(kept)
      PROVE  \E p : kept[j][1] = p /\ kept[j][2] = Standing(Glob(p))' /\ kept[j][2] \in 1..n
  <2>1. PICK k \in 1..Len(globs) : kept[j] = globs[k] /\ globs[k][1] # name
    BY <1>4
  <2>2. globs[k][2] = Standing(Glob(globs[k][1])) /\ globs[k][2] \in 1..n
    BY DEF ServletInv, GlobsStand
  <2>3. PICK p : p = globs[k][1]
    OBVIOUS
  <2>4. Standing(Glob(p))' = Standing(Glob(p))
    BY <1>3, <2>1, <2>3, EntriesApart
  <2>5. QED
    BY <2>1, <2>2, <2>3, <2>4
<1>6. ASSUME NEW p \in Patterns, p # name, Standing(Glob(p))' # None
      PROVE  \E j \in 1..Len(kept) : kept[j][1] = p
  <2>1. Standing(Glob(p)) # None
    BY <1>3, <1>6, EntriesApart
  <2>2. PICK k \in 1..Len(globs) : globs[k][1] = p
    BY <2>1 DEF ServletInv, GlobsComplete
  <2>3. QED
    BY <1>4, <1>6, <2>2
<1>7. ASSUME op = "delete"
      PROVE  /\ globs' \in Seq(Patterns \X Nat)
             /\ GlobsStand' /\ GlobsOrdered' /\ GlobsComplete'
  <2>1. globs' = kept /\ Standing(Glob(name))' = None
    BY <1>1, <1>3, <1>7
  <2>2. GlobsStand'
    <3>1. ASSUME NEW j \in 1..Len(globs')
          PROVE  (globs[j][2] = Standing(Glob(globs[j][1])))' /\ globs'[j][2] \in 1..(n + 1)
      <4>1. PICK p : kept[j][1] = p /\ kept[j][2] = Standing(Glob(p))' /\ kept[j][2] \in 1..n
        BY <1>5, <2>1
      <4>2. (globs[j][2] = Standing(Glob(globs[j][1])))' /\ globs'[j][2] \in 1..n
        BY <2>1, <4>1
      <4>3. QED
        BY <1>3, <4>2
    <3>2. QED
      BY <1>3, <3>1 DEF GlobsStand
  <2>3. GlobsOrdered' /\ globs' \in Seq(Patterns \X Nat)
    BY <1>4, <2>1 DEF GlobsOrdered
  <2>4. GlobsComplete'
    BY <1>6, <2>1 DEF GlobsComplete
  <2>5. QED
    BY <2>2, <2>3, <2>4
<1>8. ASSUME op = "add"
      PROVE  /\ globs' \in Seq(Patterns \X Nat)
             /\ GlobsStand' /\ GlobsOrdered' /\ GlobsComplete'
  <2> DEFINE m == Len(kept)
  <2>1. globs' = Append(kept, <<name, n + 1>>) /\ Standing(Glob(name))' = n + 1
    BY <1>1, <1>3, <1>8
  <2>2. <<name, n + 1>> \in Patterns \X Nat
    BY <1>3
  <2>3. /\ globs' \in Seq(Patterns \X Nat) /\ Len(globs') = m + 1
        /\ \A j \in 1..m : globs'[j] = kept[j]
        /\ globs'[m + 1] = <<name, n + 1>>
    BY <1>4, <2>1, <2>2, AppendProperties
  <2>4. m \in Nat
    BY <1>4
  <2>5. n \in Nat /\ Len(calls') = n + 1
    BY <1>3
  <2> HIDE DEF m, n
  <2>6. ASSUME NEW j \in 1..(m + 1) PROVE j \in 1..m \/ j = m + 1
    BY <2>4
  <2>7. GlobsStand'
    <3>1. ASSUME NEW j \in 1..(m + 1)
          PROVE  (globs[j][2] = Standing(Glob(globs[j][1])))' /\ globs'[j][2] \in 1..(n + 1)
      <4>1. CASE j \in 1..m
        <5>1. PICK p : kept[j][1] = p /\ kept[j][2] = Standing(Glob(p))' /\ kept[j][2] \in 1..n
          BY <1>5, <4>1 DEF m
        <5>2. (globs[j][2] = Standing(Glob(globs[j][1])))' /\ globs'[j][2] \in 1..n
          BY <2>3, <4>1, <5>1
        <5>3. QED
          BY <2>5, <5>2
      <4>2. CASE j = m + 1
        <5>1. globs'[j] = <<name, n + 1>>
          BY <2>3, <4>2
        <5>2. globs'[j][1] = name /\ globs'[j][2] = n + 1
          BY <5>1
        <5>3. n + 1 \in 1..(n + 1) /\ Standing(Glob(name))' = n + 1
          BY <2>1, <2>5
        <5>4. QED
          BY <5>2, <5>3
      <4>3. QED
        BY <2>6, <4>1, <4>2
    <3>2. QED
      BY <2>5, <2>3, <3>1 DEF GlobsStand
  <2>8. GlobsOrdered'
    <3>1. ASSUME NEW i \in 1..(m + 1), NEW j \in 1..(m + 1), i < j
          PROVE  globs'[i][2] < globs'[j][2]
      <4>1. i \in 1..m
        BY <2>4, <3>1
      <4>2. CASE j \in 1..m
        BY <1>4, <2>3, <3>1, <4>1, <4>2 DEF m
      <4>3. CASE j = m + 1
        <5>1. globs'[j][2] = n + 1
          BY <2>3, <4>3
        <5>2. kept[i][2] \in 1..n
          BY <1>5, <4>1 DEF m
        <5>3. globs'[i][2] = kept[i][2]
          BY <2>3, <4>1
        <5>4. QED
          BY <2>5, <5>1, <5>2, <5>3
      <4>4. QED
        BY <2>6, <4>2, <4>3
    <3>2. QED
      BY <2>3, <3>1 DEF GlobsOrdered
  <2>9. GlobsComplete'
    <3>1. ASSUME NEW p \in Patterns, Standing(Glob(p))' # None
          PROVE  \E j \in 1..(m + 1) : globs'[j][1] = p
      <4>1. CASE p = name
        <5>1. m + 1 \in 1..(m + 1) /\ globs'[m + 1][1] = name
          BY <2>3, <2>4
        <5>2. QED
          BY <4>1, <5>1
      <4>2. CASE p # name
        <5>1. PICK j \in 1..m : kept[j][1] = p
          BY <1>6, <3>1, <4>2 DEF m
        <5>2. j \in 1..(m + 1) /\ globs'[j] = kept[j]
          BY <2>3, <2>4
        <5>3. QED
          BY <5>1, <5>2
      <4>3. QED
        BY <4>1, <4>2
    <3>2. QED
      BY <2>3, <3>1 DEF GlobsComplete
  <2>10. QED
    BY <2>3, <2>7, <2>8, <2>9
<1>9. TableTypes' /\ GlobsStand' /\ GlobsOrdered' /\ GlobsComplete'
  BY <1>1, <1>3, <1>7, <1>8 DEF ServletInv, TableTypes
<1>10. \A a : Standing(Exact(a))' = Standing(Exact(a)) /\ Standing(Default)' = Standing(Default)
  BY <1>3, EntriesApart
<1>11. QED
  BY <1>1, <1>9, <1>10 DEF ServletInv

\* The invariant of the table, whatever is registered and deleted in any order.
THEOREM TableInvariant == ServletSpec => []ServletInv
<1>1. ASSUME ServletInv, [ServletCall]_servletVars PROVE ServletInv'
  <2>1. CASE UNCHANGED servletVars
    <3>1. UNCHANGED <<datas, globs, fallback, calls>>
      BY <2>1 DEF servletVars
    <3>2. \A entry : Standing(entry)' = Standing(entry)
      BY <3>1 DEF Standing
    <3>3. TableTypes' /\ GlobsStand' /\ GlobsOrdered' /\ GlobsComplete'
      BY <1>1, <3>1, <3>2 DEF ServletInv, TableTypes, GlobsStand, GlobsOrdered, GlobsComplete
    <3>4. QED
      BY <1>1, <3>1, <3>2, <3>3 DEF ServletInv
  <2>2. CASE ServletCall
    BY <1>1, <2>2, NameStep, GlobStep, DefaultStep DEF ServletCall
  <2>3. QED
    BY <1>1, <2>1, <2>2
<1>2. QED
  BY <1>1, ServletInitial, PTL DEF ServletSpec

-----------------------------------------------------------------------------
(* What the lookup finds                                                   *)

\* Nothing stands for a name no call can be about.
LEMMA UnknownName ==
  ASSUME TableTypes, NEW path, path \notin Names
  PROVE  Standing(Exact(path)) = None
<1>1. Exact(path) \notin Entries
  BY EntriesApart DEF Entries
<1>2. \A i \in DOMAIN calls : calls[i][2] \in Entries
  BY ElementOfSeq, LenProperties DEF TableTypes
<1>3. {i \in DOMAIN calls : calls[i][2] = Exact(path)} = {}
  BY <1>1, <1>2
<1>4. QED
  BY <1>3 DEF Standing

\* The first pattern of the list that matches is the one that has stood longest.
LEMMA FirstMatch ==
  ASSUME ServletInv, NEW path
  PROVE  LET matching == {Standing(Glob(p)) : p \in {q \in Patterns : Matches(q, path)}} \ {None}
             i == SelectInSeq(globs, LAMBDA entry : Matches(entry[1], path))
         IN \/ i = 0 /\ matching = {}
            \/ i # 0 /\ matching # {} /\ globs[i][2] = Min(matching)
<1> DEFINE T == {i \in 1..Len(globs) : Matches(globs[i][1], path)}
           matching == {Standing(Glob(p)) : p \in {q \in Patterns : Matches(q, path)}} \ {None}
           found == SelectInSeq(globs, LAMBDA entry : Matches(entry[1], path))
<1>1. found = IF T # {} THEN Min(T) ELSE 0
  BY DEF SelectInSeq
<1>2. globs \in Seq(Patterns \X Nat) /\ Len(globs) \in Nat
  BY LenProperties DEF ServletInv, TableTypes
<1>3. ASSUME NEW k \in T PROVE globs[k][2] \in matching
  <2>1. k \in 1..Len(globs) /\ globs[k][1] \in Patterns /\ Matches(globs[k][1], path)
    BY <1>2, ElementOfSeq
  <2>2. globs[k][2] = Standing(Glob(globs[k][1])) /\ globs[k][2] # None
    BY <2>1 DEF ServletInv, GlobsStand, None
  <2>3. QED
    BY <2>1, <2>2
<1>4. ASSUME NEW y \in matching PROVE \E k \in T : y = globs[k][2]
  <2>1. PICK q \in Patterns : Matches(q, path) /\ y = Standing(Glob(q)) /\ y # None
    OBVIOUS
  <2>2. PICK k \in 1..Len(globs) : globs[k][1] = q
    BY <2>1 DEF ServletInv, GlobsComplete
  <2>3. globs[k][2] = Standing(Glob(q))
    BY <2>2 DEF ServletInv, GlobsStand
  <2>4. QED
    BY <2>1, <2>2, <2>3
<1>5. \A k \in T : k \in 1..Len(globs) /\ globs[k][2] \in Nat
  BY DEF ServletInv, GlobsStand
<1>6. T \subseteq Nat
  OBVIOUS
<1>7. CASE T = {}
  <2>1. found = 0
    BY <1>1, <1>7
  <2>2. matching = {}
    BY <1>4, <1>7
  <2>3. QED
    BY <2>1, <2>2
<1>8. CASE T # {}
  <2> HIDE DEF T, matching
  <2>1. Min(T) \in T /\ \A k \in T : Min(T) <= k
    BY <1>6, <1>8, Least
  <2>2. found = Min(T)
    BY <1>1, <1>8
  <2> HIDE DEF found
  <2>3. PICK h \in T : found = h /\ \A k \in T : h <= k
    BY <2>1, <2>2
  <2>4. ASSUME NEW k \in T PROVE globs[h][2] <= globs[k][2]
    <3>1. h \in 1..Len(globs) /\ k \in 1..Len(globs) /\ h <= k
      BY <1>5, <2>3
    <3>2. globs[h][2] \in Nat /\ globs[k][2] \in Nat
      BY <1>5
    <3>3. h < k => globs[h][2] < globs[k][2]
      BY <3>1 DEF ServletInv, GlobsOrdered
    <3>4. h = k \/ h < k
      BY <1>2, <3>1
    <3>5. QED
      BY <3>2, <3>3, <3>4
  <2>5. matching \subseteq Nat /\ matching # {}
    BY <1>3, <1>4, <1>5, <2>3
  <2>6. Min(matching) \in matching /\ \A y \in matching : Min(matching) <= y
    BY <2>5, Least
  <2>7. PICK k \in T : Min(matching) = globs[k][2]
    BY <1>4, <2>6
  <2>8. globs[h][2] = Min(matching)
    <3>1. globs[h][2] \in matching
      BY <1>3
    <3>2. Min(matching) <= globs[h][2] /\ globs[h][2] <= Min(matching)
      BY <2>4, <2>6, <2>7, <3>1
    <3>3. QED
      BY <1>5, <2>7, <3>2
  <2>9. found # 0
    BY <1>5, <2>3
  <2>10. QED
    BY <2>3, <2>5, <2>8, <2>9 DEF matching, found
<1>9. QED
  BY <1>7, <1>8

\* A request gets the servlet that the calls up to then ask for: the newest of its name,
\* then the one whose pattern has stood longest, then the default; for any names, patterns,
\* paths and calls (ServletDispatch::getMatched_servlet(), servlet.cpp:105-124).
THEOREM LookupAsAsked ==
  ASSUME NEW CONSTANT path
  PROVE  ServletSpec => [](MatchedServlet(path) = Asked(path))
<1>1. ASSUME ServletInv PROVE MatchedServlet(path) = Asked(path)
  <2> DEFINE matching == {Standing(Glob(p)) : p \in {q \in Patterns : Matches(q, path)}} \ {None}
             found == SelectInSeq(globs, LAMBDA entry : Matches(entry[1], path))
  <2>1. \/ found = 0 /\ matching = {}
        \/ found # 0 /\ matching # {} /\ globs[found][2] = Min(matching)
    BY <1>1, FirstMatch
  <2>2. MatchedServlet(path) =
          IF path \in Names /\ datas[path] # None THEN datas[path]
          ELSE IF found # 0 THEN globs[found][2] ELSE fallback
    BY DEF MatchedServlet
  <2>3. Asked(path) =
          IF Standing(Exact(path)) # None THEN Standing(Exact(path))
          ELSE IF matching # {} THEN Min(matching)
          ELSE IF Standing(Default) # None THEN Standing(Default) ELSE NotFound
    BY DEF Asked
  <2> HIDE DEF matching, found
  <2>4. Standing(Exact(path)) = IF path \in Names THEN datas[path] ELSE None
    BY <1>1, UnknownName DEF ServletInv
  <2>5. fallback = IF Standing(Default) # None THEN Standing(Default) ELSE NotFound
    BY <1>1 DEF ServletInv
  <2>6. QED
    BY <2>1, <2>2, <2>3, <2>4, <2>5
<1>2. QED
  BY <1>1, TableInvariant, PTL

\* No pattern stands twice in the list: deleting it takes away all there is of it.
PatternsOnce == \A i, j \in 1..Len(globs) : globs[i][1] = globs[j][1] => i = j

\* A pattern that is registered again replaces what was there (servlet.cpp:46-54).
THEOREM PatternsStandOnce == ServletSpec => []PatternsOnce
<1>1. ASSUME ServletInv PROVE PatternsOnce
  <2> SUFFICES ASSUME NEW i \in 1..Len(globs), NEW j \in 1..Len(globs),
                      globs[i][1] = globs[j][1]
               PROVE  i = j
    BY DEF PatternsOnce
  <2>1. globs[i][2] = globs[j][2] /\ globs[i][2] \in Nat
    BY <1>1 DEF ServletInv, GlobsStand
  <2>2. /\ i < j => globs[i][2] < globs[j][2]
        /\ j < i => globs[j][2] < globs[i][2]
    BY <1>1 DEF ServletInv, GlobsOrdered
  <2>3. i \in Nat /\ j \in Nat
    OBVIOUS
  <2>4. QED
    BY <2>1, <2>2, <2>3
<1>2. QED
  BY <1>1, TableInvariant, PTL
=============================================================================

------------------------------- MODULE Grammar -------------------------------
(***************************************************************************)
(* Regular expressions with embedded actions, as the .rl files write them, *)
(* and the bytes they allow next.  An expression is a tuple that begins    *)
(* with its kind:                                                          *)
(*    <<"one", S, A>>    one character of S, on which the actions A run    *)
(*    <<"act", A>>       nothing; A run on the character that comes next   *)
(*    <<"seq", s>>       the expressions of the sequence s, in order       *)
(*    <<"alt", E>>       one of the set E                                  *)
(*    <<"star", e>>      e any number of times (e is never empty)          *)
(* What is left of an input is a sequence of expressions, the rest; a      *)
(* position in the grammar is the set of all rests that are possible.      *)
(***************************************************************************)
EXTENDS Naturals, Sequences

One(S) == <<"one", S, {}>>
\* One character of S, after which the actions A run (the operator @).
OneDo(S, A) == <<"one", S, A>>
\* Actions of the next character: entering (>) before, leaving (%) behind.
Act(A) == <<"act", A>>
Concat(s) == <<"seq", s>>
Alt(E) == <<"alt", E>>
Star(e) == <<"star", e>>
Plus(e) == Concat(<<e, Star(e)>>)
Opt(e) == Alt({Concat(<<>>), e})
Literal(s) == Concat([i \in 1..Len(s) |-> One({s[i]})])
Repeat(e, n) == Concat([i \in 1..n |-> e])
UpTo(e, n) == Alt({Repeat(e, i) : i \in 0..n})

\* The ways to go on from rest: the characters, the actions they run, and the
\* rest after them; a way without characters is the end.
RECURSIVE Ways(_, _)
Ways(rest, acts) ==
  IF rest = <<>> THEN {[chars |-> {}, acts |-> acts, rest |-> <<>>]}
  ELSE LET e == Head(rest) IN
       CASE e[1] = "one"  -> {[chars |-> e[2], acts |-> acts \cup e[3], rest |-> Tail(rest)]}
         [] e[1] = "act"  -> Ways(Tail(rest), acts \cup e[2])
         [] e[1] = "seq"  -> Ways(e[2] \o Tail(rest), acts)
         [] e[1] = "alt"  -> UNION {Ways(<<d>> \o Tail(rest), acts) : d \in e[2]}
         [] e[1] = "star" -> Ways(<<e[2]>> \o rest, acts) \cup Ways(Tail(rest), acts)

\* The rests of a position without the first elements that are already decided.
WaysFrom(position) == UNION {Ways(rest, {}) : rest \in position}

\* The position after one more character, and the actions that character runs.
After(position, c) == {w.rest : w \in {v \in WaysFrom(position) : c \in v.chars}}
Runs(position, c) == UNION {w.acts : w \in {v \in WaysFrom(position) : c \in v.chars}}

\* The input may end here.
Accepts(position) == \E w \in WaysFrom(position) : w.chars = {}
=============================================================================

------------------------------- MODULE Parsers -------------------------------
(***************************************************************************)
(* The generated parsers against the grammars they are generated from      *)
(* (src/src/http/parser): both read the same characters, any that the      *)
(* parser takes.                                                           *)
(***************************************************************************)
EXTENDS Naturals, Sequences, Characters

VARIABLES
  machine,   \* which parser it is
  cs,        \* its state: parser->cs
  position   \* where the grammar is: see Grammar

parsersVars == <<machine, cs, position>>

Strict == INSTANCE RequestMachine WITH UriRelaxed <- FALSE
Relaxed == INSTANCE RequestMachine WITH UriRelaxed <- TRUE
Response == INSTANCE ResponseMachine
StrictGrammar == INSTANCE RequestGrammar WITH UriRelaxed <- FALSE
RelaxedGrammar == INSTANCE RequestGrammar WITH UriRelaxed <- TRUE
ResponseGrammar == INSTANCE ResponseGrammar
Language == INSTANCE Grammar

\* parser->uri_relaxed is not set by any constructor: both values are possible.
Machines == {"strict", "relaxed", "response"}

StepsOn(c) ==
  CASE machine = "strict" -> Strict!Step(cs, c)
    [] machine = "relaxed" -> Relaxed!Step(cs, c)
    [] machine = "response" -> Response!Step(cs, c)
MayEnd == IF machine = "response" THEN Response!Final(cs) ELSE Strict!Finished(cs)

Init ==
  /\ machine \in Machines
  /\ cs = <<"start">>
  /\ position = CASE machine = "strict" -> StrictGrammar!Main
                  [] machine = "relaxed" -> RelaxedGrammar!Main
                  [] machine = "response" -> ResponseGrammar!Main

\* One character, until cs becomes 0.
Next ==
  \E c \in AnyByte :
    /\ \E s \in StepsOn(c) : cs' = s.to
    /\ position' = Language!After(position, c)
    /\ UNCHANGED machine

Spec == Init /\ [][Next]_parsersVars

-----------------------------------------------------------------------------
(* Properties                                                              *)

\* Whatever has been read, the parser refuses the next character just when the
\* grammar does, it runs the actions the grammar runs there and no others, and it
\* may end where the grammar may (http11_parser.rl, httpclient_parser.rl).
FollowsGrammar ==
  /\ \A c \in AnyByte :
       /\ StepsOn(c) = {} <=> Language!After(position, c) = {}
       /\ \A s \in StepsOn(c) : s.acts = Language!Runs(position, c)
  /\ MayEnd <=> Language!Accepts(position)
=============================================================================

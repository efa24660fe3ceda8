------------------------------- MODULE MCHttp -------------------------------
(* HttpExchange on small instances.                                        *)
EXTENDS HttpExchange, TLC

CONSTANTS c1, c2, r1, r2, r3, l

\* The first client sends a request over the pool and one without it; the second
\* may use the connection of the first.
TwoAndOne == c1 :> <<r1, r2>> @@ c2 :> <<r3>>

\* One exchange has bodies, the others are heads only.
AskedLengths == r1 :> 1 @@ r2 :> 0 @@ r3 :> 0
AnsweredLengths == r1 :> 1 @@ r2 :> 0 @@ r3 :> 0
=============================================================================

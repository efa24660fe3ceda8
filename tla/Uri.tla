-------------------------------- MODULE Uri --------------------------------
(***************************************************************************)
(* Uri::Create(), its getters and toString() (http/parser/uri.rl,          *)
(* compiled into uri.rl.cc).  Texts are sequences of characters; a         *)
(* position in the text is the number of characters before it.             *)
(***************************************************************************)
EXTENDS UriGrammar, Integers, SequencesExt, FiniteSetsExt, TLC

Digit(n) == <<"0", "1", "2", "3", "4", "5", "6", "7", "8", "9">>[n + 1]
\* atoi() and std::to_string().
Number(digits) == FoldLeft(LAMBDA n, c : 10 * n + CHOOSE d \in 0..9 : Digit(d) = c, 0, digits)
Decimal[n \in Nat] == IF n < 10 THEN <<Digit(n)>> ELSE Decimal[n \div 10] \o <<Digit(n % 10)>>

Null == -1
\* What Create() works on: cs and mark, and the Uri it fills.
Parser == [position |-> Main, mark |-> Null, thrown |-> FALSE]
Empty == [scheme |-> <<>>, userinfo |-> <<>>, host |-> <<>>, port |-> 0, path |-> <<>>,
          query |-> <<>>, fragment |-> <<>>]

\* std::string(mark, fpc - mark) throws if mark is NULL.
Save(u, text, p, field) ==
  IF u.mark = Null THEN [u EXCEPT !.thrown = TRUE]
  ELSE [u EXCEPT ![field] = SubSeq(text, u.mark + 1, p), !.mark = Null]
SaveIfMarked(u, text, p, field) == IF u.mark = Null THEN u ELSE Save(u, text, p, field)

\* Mutant of SavePort: only a port that is there uses up the mark.
SavePortMarked(u, text, p) ==
  IF u.mark = p THEN u ELSE [u EXCEPT !.port = Number(SubSeq(text, u.mark + 1, p)), !.mark = Null]

SavePort(u, text, p) ==
  IF u.mark = p THEN [u EXCEPT !.mark = Null]
  ELSE IF u.mark = Null THEN [u EXCEPT !.thrown = TRUE]
  ELSE [u EXCEPT !.port = Number(SubSeq(text, u.mark + 1, p)), !.mark = Null]

\* save_host leaves the mark as it is.
Run(u, text, p, action) ==
  CASE action \in {"marku", "markh"} -> [u EXCEPT !.mark = p]
    [] action = "save_scheme" -> Save(u, text, p, "scheme")
    [] action = "save_userinfo" -> SaveIfMarked(u, text, p, "userinfo")
    [] action = "save_host" -> [SaveIfMarked(u, text, p, "host") EXCEPT !.mark = u.mark]
    [] action = "save_port" -> SavePort(u, text, p)
    [] action = "save_path" -> Save(u, text, p, "path")
    [] action = "save_query" -> Save(u, text, p, "query")
    [] action = "save_fragment" -> Save(u, text, p, "fragment")

\* The actions of one character, as they stand in the grammar; of those that would
\* run twice only the first was generated. What is thrown ends it.
Actions(runs) ==
  LET first == {r \in runs : \A s \in runs : s[2] = r[2] => r[1] <= s[1]} IN
  SetToSortSeq(first, LAMBDA r, s : r[1] < s[1])
RunAll(u, text, p, runs) ==
  FoldLeft(LAMBDA v, r : IF v.thrown THEN v ELSE Run(v, text, p, r[2]), u, Actions(runs))

\* The actions of the end of the text, where the grammar may be over.
AtEnd(u, text) ==
  RunAll(u, text, Len(text), UNION {w.acts : w \in {v \in WaysFrom(u.position) : v.chars = {}}})
Eat(u, text, p) ==
  IF u.thrown THEN u
  ELSE [RunAll(u, text, p - 1, Runs(u.position, text[p])) EXCEPT !.position = After(u.position, text[p])]
\* A Uri, nullptr or an exception, and what has been filled in.
Created(u) ==
  [result |-> IF u.thrown THEN "thrown" ELSE IF Accepts(u.position) THEN "uri" ELSE "nullptr"]
    @@ [field \in DOMAIN Empty |-> u[field]]
Create(text) ==
  LET parsed[p \in 0 .. Len(text)] == IF p = 0 THEN Parser @@ Empty ELSE Eat(parsed[p - 1], text, p)
  IN Created(AtEnd(parsed[Len(text)], text))

Http == <<"h", "t", "t", "p">>
Https == Http \o <<"s">>
\* The port of a scheme; 0 if it is none of the four the code knows.
SchemePort(scheme) ==
  IF scheme \in {Http, <<"w", "s">>} THEN 80
  ELSE IF scheme \in {Https, <<"w", "s", "s">>} THEN 443 ELSE 0
GetPort(uri) == IF uri.port # 0 THEN uri.port ELSE SchemePort(uri.scheme)
GetPath(uri) == IF uri.path = <<>> THEN <<"/">> ELSE uri.path
IsDefaultPort(uri) == uri.port = 0 \/ uri.port = SchemePort(uri.scheme)

Led(sign, text) == IF text = <<>> THEN <<>> ELSE sign \o text
\* toString()
Dump(uri) ==
  uri.scheme \o <<":", "/", "/">> \o (IF uri.userinfo = <<>> THEN <<>> ELSE uri.userinfo \o <<"@">>)
    \o uri.host \o (IF IsDefaultPort(uri) THEN <<>> ELSE <<":">> \o Decimal[uri.port])
    \o GetPath(uri) \o Led(<<"?">>, uri.query) \o Led(<<"#">>, uri.fragment)
=============================================================================

-------------------------- MODULE ResponseMachine --------------------------
(***************************************************************************)
(* The state machine generated for responses (http/parser/                 *)
(* httpclient_parser.rl.cc), by groups of its states.  Three headers have  *)
(* states of their own, since the machine follows their names and values   *)
(* and those of any other header at once.                                  *)
(***************************************************************************)
EXTENDS Naturals, Sequences, Characters

Start == <<"start">>
Token == Ascii \ (Controls \cup Separators)
Blank == Space \ {"CR", "LF"}
LineEnds == {"CR", "LF"}
ValueChar == AnyByte \ LineEnds
ReasonStart == AnyByte \ {"LF"}

StartStep(c) == On(Hex, c, <<"size">>, {"mark"}) \cup On({"H"}, c, <<"version", 2>>, {"mark"})

-----------------------------------------------------------------------------
(* Headers of chunks.                                                      *)

\* The end of an extension, or of the size.
PartEnd(c, acts) ==
  On({"LF"}, c, <<"end", "">>, acts \cup {"done"}) \cup On({"CR"}, c, <<"lastCr">>, acts)
    \cup On({";"}, c, <<"extension", 0>>, acts)
SizeStep(c) == On(Hex, c, <<"size">>, {}) \cup PartEnd(c, {"chunk_size"})
LastCrStep(c) == On({"LF"}, c, <<"end", "">>, {"done"})
ExtensionStep(n, c) ==
  On(Token, c, <<"extension", 1>>, IF n = 0 THEN {"start_field"} ELSE {})
    \cup (IF n = 0 THEN {}
          ELSE Also({"write_field", "mark"},
                    PartEnd(c, {"write_value"}) \cup On({"="}, c, <<"argument", 0>>, {})))
ArgumentStep(n, c) ==
  On(Token, c, <<"argument", 1>>, IF n = 0 THEN {"mark"} ELSE {})
    \cup (IF n = 0 THEN {} ELSE PartEnd(c, {"write_value"}))

-----------------------------------------------------------------------------
(* The status line.                                                        *)

VersionText == <<"H", "T", "T", "P", "/">>
VersionStep(i, c) == On({VersionText[i]}, c, IF i = 5 THEN <<"major", 0>> ELSE <<"version", i + 1>>, {})
MajorStep(n, c) ==
  On(Digits, c, <<"major", 1>>, {}) \cup (IF n = 1 THEN On({"."}, c, <<"minor", 0>>, {}) ELSE {})
MinorStep(n, c) ==
  On(Digits, c, <<"minor", 1>>, {})
    \cup (IF n = 1 THEN On({" "}, c, <<"status", 0>>, {"http_version"}) ELSE {})
StatusStep(n, c) ==
  On(Digits, c, <<"status", 1>>, IF n = 0 THEN {"mark"} ELSE {})
    \cup (IF n = 1 THEN On({" "}, c, <<"reason", 0>>, {"status_code"}) ELSE {})
ReasonStep(n, c) ==
  IF n = 0 THEN On(ReasonStart, c, <<"reason", 1>>, {"mark"})
  ELSE On(ValueChar, c, <<"reason", 1>>, {})
         \cup On({"LF"}, c, <<"line">>, {"reason_phrase"}) \cup On({"CR"}, c, <<"cr", "">>, {"reason_phrase"})

-----------------------------------------------------------------------------
(* The headers the parser knows: their names, and the values it looks for, *)
(* a word or a number.                                                     *)

HeaderNames ==
  [connection |-> <<"c", "o", "n", "n", "e", "c", "t", "i", "o", "n">>,
   length |-> <<"c", "o", "n", "t", "e", "n", "t", "-", "l", "e", "n", "g", "t", "h">>,
   encoding |-> <<"t", "r", "a", "n", "s", "f", "e", "r", "-", "e", "n", "c", "o", "d", "i", "n", "g">>]
Values == [connection |-> <<"c", "l", "o", "s", "e">>,
           encoding |-> <<"c", "h", "u", "n", "k", "e", "d">>]

\* What continues the value of header name, of which i characters are there.
Expected(name, i) ==
  CASE name = "" -> {}
    [] name = "length" -> Digits
    [] OTHER -> IF i < Len(Values[name]) THEN EitherCase(Values[name][i + 1]) ELSE {}
Further(name, i) == IF name = "length" THEN 1 ELSE i + 1
ValueMark(name) == IF name = "connection" THEN {} ELSE {"mark"}
Complete(name, i) == name # "" /\ i = (IF name = "length" THEN 1 ELSE Len(Values[name]))

\* The line ends behind the value of header name.
ValueEnd(name, c) ==
  CASE name = "length" -> On({"LF"}, c, <<"line">>, {"write_content_len", "write_value"})
                            \cup On({"CR"}, c, <<"cr", "">>, {"write_content_len", "write_value"})
    [] name = "encoding" -> On({"LF"}, c, <<"line">>, {"write_value", "trans_chunked"})
                              \cup On({"CR"}, c, <<"cr", name>>, {"write_value"})
    [] name = "connection" -> On({"LF"}, c, <<"closeLine">>, {}) \cup On({"CR"}, c, <<"cr", name>>, {})
CrStep(name, c) ==
  On({"LF"}, c, IF name = "connection" THEN <<"closeLine">> ELSE <<"line">>,
     IF name = "encoding" THEN {"trans_chunked"} ELSE {})

\* The names that go on with c after i characters.
Going(names, i, c) == {n \in names : i < Len(HeaderNames[n]) /\ c \in EitherCase(HeaderNames[n][i + 1])}
FieldStep(c) == On(Token, c, <<"field">>, {}) \cup On({":"}, c, <<"before", "">>, {"write_field"})
\* names are those that may still become the header's.
NameStep(names, i, c) ==
  IF Going(names, i, c) # {} THEN On(Token, c, <<"name", Going(names, i, c), i + 1>>, {})
  ELSE LET done == {n \in names : Len(HeaderNames[n]) = i} IN
       IF c = ":" THEN On({c}, c, <<"before", IF done = {} THEN "" ELSE CHOOSE n \in done : TRUE>>, {"write_field"})
       ELSE FieldStep(c)
LineStep(c) ==
  On({"LF"}, c, <<"end", "">>, {"done"}) \cup On({"CR"}, c, <<"lastCr">>, {})
    \cup Also({"start_field"}, IF c = ":" THEN {} ELSE NameStep(DOMAIN HeaderNames, 0, c))
CloseLineStep(c) == Also({"write_connection_close"}, LineStep(c))

-----------------------------------------------------------------------------
(* Values.                                                                 *)

AnyValue(c) ==
  On(ValueChar, c, <<"value", "", 0>>, {})
    \cup On({"LF"}, c, <<"line">>, {"write_value"}) \cup On({"CR"}, c, <<"cr", "">>, {"write_value"})
ValueStep(name, i, c) ==
  IF c \in Expected(name, i) THEN On(AnyByte, c, <<"value", name, Further(name, i)>>, {})
  ELSE IF Complete(name, i) /\ c \in LineEnds THEN Also({"write_value"}, ValueEnd(name, c))
  ELSE AnyValue(c)
BeforeStep(name, c) ==
  Also({"mark"},
       IF c \in Blank THEN On(Blank, c, <<"before", name>>, {})
       ELSE IF name # "" /\ c \in LineEnds
            THEN On({"LF"}, c, <<"emptyLine", name>>, {"write_value"})
                   \cup On({"CR"}, c, <<"emptyCr", name>>, {"write_value"})
       ELSE ValueStep(name, 0, c))

\* Behind an empty value, whose spaces may also go on: the value may still come.
GapStep(name, c) ==
  On(Space, c, <<"gap", name>>, {}) \cup On(Expected(name, 0), c, <<"late", name, 1>>, ValueMark(name))
EmptyCrStep(name, c) ==
  IF c = "LF" THEN On({c}, c, <<"emptyLine", name>>, {}) ELSE GapStep(name, c)
EmptyLineStep(name, c) ==
  CASE c \in Blank -> On(Blank, c, <<"gap", name>>, {})
    [] c = "LF" -> On({c}, c, <<"end", name>>, {"done"})
    [] c = "CR" -> On({c}, c, <<"emptyLastCr", name>>, {})
    [] c \in Expected(name, 0) -> On(Token, c, <<"either", name, 1>>, {"start_field"} \cup ValueMark(name))
    [] OTHER -> LineStep(c)
EmptyLastCrStep(name, c) ==
  IF c = "LF" THEN On({c}, c, <<"end", name>>, {"done"}) ELSE GapStep(name, c)
\* A value that comes lines later.
LateStep(name, i, c) ==
  On(Expected(name, i), c, <<"late", name, Further(name, i)>>, {})
    \cup (IF Complete(name, i) THEN ValueEnd(name, c) ELSE {})
\* A name that may also be that value.
EitherStep(name, i, c) ==
  IF c \in Expected(name, i) THEN On(Token, c, <<"either", name, Further(name, i)>>, {})
  ELSE IF Complete(name, i) /\ c \in LineEnds THEN ValueEnd(name, c)
  ELSE IF name # "length" /\ i = 1 THEN NameStep({"connection", "length"}, 1, c)
  ELSE FieldStep(c)

-----------------------------------------------------------------------------
\* switch (cs): the steps of state s on the character c.
Step(s, c) ==
  CASE s[1] = "start" -> StartStep(c)
    [] s[1] = "size" -> SizeStep(c)
    [] s[1] = "lastCr" -> LastCrStep(c)
    [] s[1] = "extension" -> ExtensionStep(s[2], c)
    [] s[1] = "argument" -> ArgumentStep(s[2], c)
    [] s[1] = "version" -> VersionStep(s[2], c)
    [] s[1] = "major" -> MajorStep(s[2], c)
    [] s[1] = "minor" -> MinorStep(s[2], c)
    [] s[1] = "status" -> StatusStep(s[2], c)
    [] s[1] = "reason" -> ReasonStep(s[2], c)
    [] s[1] = "line" -> LineStep(c)
    [] s[1] = "closeLine" -> CloseLineStep(c)
    [] s[1] = "cr" -> CrStep(s[2], c)
    [] s[1] = "field" -> FieldStep(c)
    [] s[1] = "name" -> NameStep(s[2], s[3], c)
    [] s[1] = "before" -> BeforeStep(s[2], c)
    [] s[1] = "value" -> ValueStep(s[2], s[3], c)
    [] s[1] = "gap" -> GapStep(s[2], c)
    [] s[1] = "emptyCr" -> EmptyCrStep(s[2], c)
    [] s[1] = "emptyLine" -> EmptyLineStep(s[2], c)
    [] s[1] = "emptyLastCr" -> EmptyLastCrStep(s[2], c)
    [] s[1] = "late" -> LateStep(s[2], s[3], c)
    [] s[1] = "either" -> EitherStep(s[2], s[3], c)
    [] s[1] = "end" -> IF s[2] = "" THEN {} ELSE GapStep(s[2], c)

\* The states the grammar ends in, of which httpclient_parser_is_finished()
\* knows only the first.
Final(s) == s[1] = "end"
Finished(s) == s = <<"end", "">>
=============================================================================

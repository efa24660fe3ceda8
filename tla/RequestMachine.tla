--------------------------- MODULE RequestMachine ---------------------------
(***************************************************************************)
(* The state machine generated for requests (http/parser/                  *)
(* http11_parser.rl.cc), by groups of its states.  A state is a tuple that *)
(* begins with the name of its group; a group exists twice where the same  *)
(* states were generated for the target of a request line ("uri") and for  *)
(* the name of a JSON request ("json").  An operator gives the steps of    *)
(* its states on one character: at most one, none where cs becomes 0.      *)
(***************************************************************************)
EXTENDS Naturals, Sequences, Characters

CONSTANT UriRelaxed  \* parser->uri_relaxed, which nothing in the code sets

Start == <<"start">>
\* The characters of the parts of a URI, for both values of UriRelaxed.
Classes ==
  [relaxed \in BOOLEAN |->
     LET subDelims == {"!", "$", "&", "'", "(", ")", "*", "+", ",", ";", "="}
                        \cup (IF relaxed THEN {"{", "}", "^"} ELSE {})
         regName == Alpha \cup Digits \cup {"-", ".", "_", "~"} \cup subDelims
         pchar == regName \cup High \cup {":", "@"}
     IN [regName |-> regName, name |-> regName \cup {"@"}, password |-> regName \cup {":"},
         passwordOnly |-> (regName \ Digits) \cup {":"}, pchar |-> pchar,
         path |-> pchar \cup {"/"}, query |-> pchar \cup {"/", "?"}]]
RegName == Classes[UriRelaxed].regName
NameChar == Classes[UriRelaxed].name
PasswordChar == Classes[UriRelaxed].password
PasswordOnly == Classes[UriRelaxed].passwordOnly
PChar == Classes[UriRelaxed].pchar
PathChar == Classes[UriRelaxed].path
QueryChar == Classes[UriRelaxed].query
MethodChar == Upper \cup Digits
SchemeChar == Alpha \cup Digits \cup {"+", "-", "."}
ValueChar == AnyByte \ {"NUL", "DEL", "CR", "LF"}
TagChar == Alpha \cup Digits \cup {"-", "."}
TagEnd == Space \cup {"/", ">"}

StartStep(c) == On(MethodChar, c, <<"method", 1>>, {"mark"})
                  \cup On({"<"}, c, <<"tag", 0>>, {"mark"}) \cup On({"@"}, c, <<"at">>, {"mark"})
MethodStep(n, c) == On({" "}, c, <<"target">>, {"request_method"})
                      \cup (IF n < 20 THEN On(MethodChar, c, <<"method", n + 1>>, {}) ELSE {})

\* %xx, of which n digits are left, within the state back.
Percent(back, c) == On({"%"}, c, <<"percent", 2, back>>, {})
PercentStep(n, back, c) == On(Hex, c, IF n = 2 THEN <<"percent", 1, back>> ELSE back, {})

\* How a path, or what may be one, ends.
PathEnd(kind, c) ==
  IF kind = "json" THEN On({" "}, c, <<"brace">>, {"request_path"})
  ELSE On({" "}, c, <<"version", 1>>, {"request_path", "request_uri"})
         \cup On({"#"}, c, <<"fragment", 0>>, {"request_path", "request_uri"})
         \cup On({"?"}, c, <<"query", 0>>, {"request_path"})
NameStep(kind, c) ==
  PathEnd(kind, c) \cup On(NameChar, c, <<"name", kind>>, {})
    \cup On({"/"}, c, <<"path", kind>>, {}) \cup Percent(<<"name", kind>>, c)
PathStep(kind, c) ==
  PathEnd(kind, c) \cup On(PathChar, c, <<"path", kind>>, {}) \cup Percent(<<"path", kind>>, c)
SlashStep(kind, c) ==
  PathEnd(kind, c) \cup On({"/"}, c, <<"authority", kind, 0>>, {})
    \cup On(PChar, c, <<"path", kind>>, {}) \cup Percent(<<"path", kind>>, c)

\* A first letter may begin a scheme.
TargetStep(c) ==
  Also({"mark"}, IF c \in Alpha THEN On(Alpha, c, <<"scheme">>, {})
                 ELSE IF c = "/" THEN On({"/"}, c, <<"slash", "uri">>, {}) ELSE NameStep("uri", c))
SchemeStep(c) ==
  IF c \in SchemeChar THEN On(SchemeChar, c, <<"scheme">>, {})
  ELSE On({":"}, c, <<"colon">>, {}) \cup NameStep("uri", c)
ColonStep(c) == Also({"mark"}, IF c = "/" THEN On({"/"}, c, <<"slash", "uri">>, {}) ELSE PathStep("uri", c))

QueryStep(c) ==
  On({" "}, c, <<"version", 1>>, {"query_string", "request_uri"})
    \cup On({"#"}, c, <<"fragment", 0>>, {"query_string", "request_uri"})
    \cup On(QueryChar, c, <<"query", 1>>, {}) \cup Percent(<<"query", 1>>, c)
QueryStart(c) == Also({"start_query"}, QueryStep(c))
FragmentStep(c) ==
  On({" "}, c, <<"version", 1>>, {"fragment"})
    \cup On(QueryChar, c, <<"fragment", 1>>, {}) \cup Percent(<<"fragment", 1>>, c)
FragmentStart(c) == Also({"mark"}, FragmentStep(c))

\* What stands before a ":" or "@" may be a user or a host, and digits behind the
\* ":" a port or a password.
AuthorityStep(kind, c) ==
  PathEnd(kind, c) \cup On(RegName, c, <<"authority", kind, 1>>, {})
    \cup Percent(<<"authority", kind, 1>>, c) \cup On({"/"}, c, <<"path", kind>>, {})
    \cup On({":"}, c, <<"portOrPassword", kind>>, {}) \cup On({"@"}, c, <<"host", kind, 0>>, {})
AuthorityStart(kind, c) == AuthorityStep(kind, c) \cup On({"["}, c, <<"literal", kind>>, {})
PortOrPasswordStep(kind, c) ==
  PathEnd(kind, c) \cup On(Digits, c, <<"portOrPassword", kind>>, {})
    \cup On(PasswordOnly, c, <<"password", kind>>, {}) \cup Percent(<<"password", kind>>, c)
    \cup On({"/"}, c, <<"path", kind>>, {}) \cup On({"@"}, c, <<"host", kind, 0>>, {})
PasswordStep(kind, c) ==
  On(PasswordChar, c, <<"password", kind>>, {}) \cup Percent(<<"password", kind>>, c)
    \cup On({"@"}, c, <<"host", kind, 0>>, {})
\* Mutant of HostStep: behind the host only a port or a path may stand.
HostStepAbsolute(kind, c) ==
  On(RegName, c, <<"host", kind, 1>>, {}) \cup Percent(<<"host", kind, 1>>, c)
    \cup On({"/"}, c, <<"path", kind>>, {}) \cup On({":"}, c, <<"port", kind>>, {})

HostStep(kind, c) ==
  PathEnd(kind, c) \cup On(RegName, c, <<"host", kind, 1>>, {}) \cup Percent(<<"host", kind, 1>>, c)
    \cup On({"/"}, c, <<"path", kind>>, {}) \cup On({":"}, c, <<"port", kind>>, {})
HostStart(kind, c) == HostStep(kind, c) \cup On({"["}, c, <<"literal", kind>>, {})
PortStep(kind, c) == PathEnd(kind, c) \cup On(Digits, c, <<"port", kind>>, {}) \cup On({"/"}, c, <<"path", kind>>, {})
ClosedStep(kind, c) == PathEnd(kind, c) \cup On({"/"}, c, <<"path", kind>>, {}) \cup On({":"}, c, <<"port", kind>>, {})

-----------------------------------------------------------------------------
(* Address literals: groups of up to four hexadecimal digits, the gap "::" *)
(* and an IPv4 address at the end.                                          *)

LiteralStep(kind, c) ==
  On({"x06"}, c, <<"six", kind, 0>>, {}) \cup On(Hex, c, <<"group", kind, 1, 1>>, {})
    \cup On({":"}, c, <<"noGroup", kind>>, {}) \cup On({"v"}, c, <<"future", kind, 0>>, {})
FutureStep(kind, n, c) ==
  IF n < 2 THEN On(Hex, c, <<"future", kind, 1>>, {})
                  \cup (IF n = 1 THEN On({"."}, c, <<"future", kind, 2>>, {}) ELSE {})
  ELSE On(PasswordChar, c, <<"future", kind, 3>>, {})
         \cup (IF n = 3 THEN On({"]"}, c, <<"closed", kind>>, {}) ELSE {})

\* Group g with n digits; the seventh stands for all that follow it.
GroupStep(kind, g, n, c) ==
  (IF n < 4 THEN On(Hex, c, <<"group", kind, g, n + 1>>, {}) ELSE {})
    \cup On({":"}, c, <<"groupEnd", kind, g>>, {})
GroupEndStep(kind, g, c) ==
  On(Hex, c, <<"group", kind, IF g = 7 THEN 7 ELSE g + 1, 1>>, {})
    \cup On({":"}, c, <<"gap", kind, g>>, {})

\* The group and ":" that come before the last two groups.
SixStep(kind, n, c) ==
  (IF n < 4 THEN On(Hex, c, <<"six", kind, n + 1>>, {}) ELSE {})
    \cup (IF n > 0 THEN On({":"}, c, <<"lastTwo", kind>>, {}) ELSE {})

\* An octet of an IPv4 address: what of it is there, "x" where nothing may follow.
OctetNext(octet, c) ==
  CASE octet = "" /\ c \in {"1", "2"} -> c
    [] octet = "" /\ c \in Digits \ {"1", "2"} -> "x"
    [] octet = "1" /\ c \in Digits -> "1d"
    [] octet = "1d" /\ c \in Digits -> "x"
    [] octet = "2" /\ c = "0" -> "20"
    [] octet = "2" /\ c = "5" -> "25"
    [] octet = "20" /\ c \in Digits -> "x"
    [] octet = "25" /\ c = "0" -> "x"
    [] OTHER -> "none"
Octets == {"1", "1d", "2", "x"}
DottedStep(kind, i, octet, c) ==
  (IF OctetNext(octet, c) # "none" THEN On(Digits, c, <<"dotted", kind, i, OctetNext(octet, c)>>, {}) ELSE {})
    \cup (IF octet \notin Octets THEN {}
          ELSE IF i < 4 THEN On({"."}, c, <<"dotted", kind, i + 1, "">>, {})
          ELSE On({"]"}, c, <<"closed", kind>>, {}))

\* A group that may turn out to be the first octet: n digits, the octet they
\* form, the state a ":" leads to, and whether it may be the last.
TailGroup(kind, octet, colon, last) == <<"tail", kind, 1, octet, colon, last>>
TailFirst(kind, colon, last, c) ==
  IF c \in Digits THEN On(Digits, c, TailGroup(kind, OctetNext("", c), colon, last), {})
  ELSE On(Hex, c, TailGroup(kind, "none", colon, last), {})
TailStep(kind, n, octet, colon, last, c) ==
  (IF n < 4 THEN On(Hex, c, <<"tail", kind, n + 1, OctetNext(octet, c), colon, last>>, {}) ELSE {})
    \cup (IF octet \in Octets THEN On({"."}, c, <<"dotted", kind, 2, "">>, {}) ELSE {})
    \cup On({":"}, c, <<colon, kind>>, {})
    \cup (IF last THEN On({"]"}, c, <<"closed", kind>>, {}) ELSE {})
LastGroupStep(kind, n, c) ==
  (IF n < 4 THEN On(Hex, c, <<"last", kind, n + 1>>, {}) ELSE {})
    \cup (IF n > 0 THEN On({"]"}, c, <<"closed", kind>>, {}) ELSE {})

\* Behind the gap, after g groups before it.
GapStep(kind, g, c) ==
  On(CASE g = 0 -> {"x02", "x03", "x04", "x05"} [] g = 1 -> {"x04"} [] g = 2 -> {"x03"} [] OTHER -> {"x02", "x03"},
     c, <<"six", kind, 0>>, {})
    \cup (CASE g = 4 -> On(Hex, c, <<"six", kind, 1>>, {})
            [] g = 5 -> TailFirst(kind, "lastTwoOrOne", FALSE, c)
            [] g \in {0, 6, 7} -> TailFirst(kind, "lastTwoOrOne", TRUE, c)
            [] OTHER -> {})
    \cup (IF g \in {0, 7} THEN On({"]"}, c, <<"closed", kind>>, {}) ELSE {})
LastTwoStep(kind, c) == TailFirst(kind, "lastOne", FALSE, c)
LastTwoOrOneStep(kind, c) == TailFirst(kind, "lastOne", TRUE, c)

-----------------------------------------------------------------------------
(* The version and the header fields.                                      *)

VersionText == <<"H", "T", "T", "P", "/", "1", ".">>
VersionStep(i, c) ==
  IF i <= 7 THEN On({VersionText[i]}, c, <<"version", i + 1>>, IF i = 1 THEN {"mark"} ELSE {})
  ELSE IF i = 8 THEN On({"0", "1"}, c, <<"version", 9>>, {})
  ELSE On({"LF"}, c, <<"line">>, {"http_version"}) \cup On({"CR"}, c, <<"cr">>, {"http_version"})

Token == Ascii \ ({"NUL", "DEL"} \cup Separators)
FieldStart == Token \ {"CR", "LF"}
LineStep(c) ==
  Also({"start_field"}, On({"LF"}, c, <<"end">>, {"done"}) \cup On({"CR"}, c, <<"lastCr">>, {})
                          \cup On(FieldStart, c, <<"field">>, {}))
FieldStep(c) == On(Token, c, <<"field">>, {}) \cup On({":"}, c, <<"before">>, {"write_field"})
\* A header may go on behind the head, but no one reads on.
EndStep(c) == FieldStep(c)
LastCrStep(c) == IF c = "LF" THEN On({"LF"}, c, <<"end">>, {"done"}) ELSE FieldStep(c)

ValueEnd(c) == On({"LF"}, c, <<"line">>, {"write_value"}) \cup On({"CR"}, c, <<"cr">>, {"write_value"})
ValueStep(c) == ValueEnd(c) \cup On(ValueChar, c, <<"value">>, {})
BeforeStep(c) ==
  Also({"mark"}, IF c \in {" ", "HT"} THEN On({" ", "HT"}, c, <<"before">>, {}) ELSE ValueStep(c))
CrStep(c) == On({"LF"}, c, <<"line">>, {})

-----------------------------------------------------------------------------
(* Requests over plain sockets.                                            *)

AtStep(c) == IF c = "/" THEN On({"/"}, c, <<"slash", "json">>, {}) ELSE NameStep("json", c)
BraceStep(c) == On({"{"}, c, <<"data", "}", 0>>, {"mark"})
TagStep(n, c) ==
  On(TagChar, c, <<"tag", 1>>, {})
    \cup (IF n = 1 THEN On(TagEnd, c, <<"data", ">", 0>>, {"request_path"}) ELSE {})
\* n = 1: the character before was the one that may end the data.
DataStep(end, n, c) ==
  IF c = end THEN On({end}, c, <<"data", end, 1>>, {})
  ELSE IF n = 1 /\ c = "NUL" THEN On({c}, c, <<"sent">>, {IF end = "}" THEN "json" ELSE "xml", "done"})
  ELSE On(AnyByte, c, <<"data", end, 0>>, {})

-----------------------------------------------------------------------------
(* switch (cs): the steps of state s on the character c.                   *)

\* The parts of a target.
PartStep(s, c) ==
  CASE s[1] = "name" -> NameStep(s[2], c)
    [] s[1] = "path" -> PathStep(s[2], c)
    [] s[1] = "slash" -> SlashStep(s[2], c)
    [] s[1] = "authority" -> IF s[3] = 0 THEN AuthorityStart(s[2], c) ELSE AuthorityStep(s[2], c)
    [] s[1] = "portOrPassword" -> PortOrPasswordStep(s[2], c)
    [] s[1] = "password" -> PasswordStep(s[2], c)
    [] s[1] = "host" -> IF s[3] = 0 THEN HostStart(s[2], c) ELSE HostStep(s[2], c)
    [] s[1] = "port" -> PortStep(s[2], c)
    [] s[1] = "percent" -> PercentStep(s[2], s[3], c)
    [] OTHER -> {}
LiteralSteps(s, c) ==
  CASE s[1] = "literal" -> LiteralStep(s[2], c)
    [] s[1] = "closed" -> ClosedStep(s[2], c)
    [] s[1] = "future" -> FutureStep(s[2], s[3], c)
    [] s[1] = "noGroup" -> On({":"}, c, <<"gap", s[2], 0>>, {})
    [] s[1] = "group" -> GroupStep(s[2], s[3], s[4], c)
    [] s[1] = "groupEnd" -> GroupEndStep(s[2], s[3], c)
    [] s[1] = "gap" -> GapStep(s[2], s[3], c)
    [] s[1] = "six" -> SixStep(s[2], s[3], c)
    [] s[1] = "lastTwo" -> LastTwoStep(s[2], c)
    [] s[1] = "lastTwoOrOne" -> LastTwoOrOneStep(s[2], c)
    [] s[1] = "lastOne" -> LastGroupStep(s[2], 0, c)
    [] s[1] = "last" -> LastGroupStep(s[2], s[3], c)
    [] s[1] = "tail" -> TailStep(s[2], s[3], s[4], s[5], s[6], c)
    [] s[1] = "dotted" -> DottedStep(s[2], s[3], s[4], c)
    [] OTHER -> {}
Step(s, c) ==
  CASE s[1] = "start" -> StartStep(c)
    [] s[1] = "method" -> MethodStep(s[2], c)
    [] s[1] = "target" -> TargetStep(c)
    [] s[1] = "scheme" -> SchemeStep(c)
    [] s[1] = "colon" -> ColonStep(c)
    [] s[1] = "query" -> IF s[2] = 0 THEN QueryStart(c) ELSE QueryStep(c)
    [] s[1] = "fragment" -> IF s[2] = 0 THEN FragmentStart(c) ELSE FragmentStep(c)
    [] s[1] = "version" -> VersionStep(s[2], c)
    [] s[1] = "line" -> LineStep(c)
    [] s[1] = "field" -> FieldStep(c)
    [] s[1] = "before" -> BeforeStep(c)
    [] s[1] = "value" -> ValueStep(c)
    [] s[1] = "cr" -> CrStep(c)
    [] s[1] = "lastCr" -> LastCrStep(c)
    [] s[1] = "end" -> EndStep(c)
    [] s[1] = "at" -> AtStep(c)
    [] s[1] = "brace" -> BraceStep(c)
    [] s[1] = "tag" -> TagStep(s[2], c)
    [] s[1] = "data" -> DataStep(s[2], s[3], c)
    [] s[1] = "sent" -> {}
    [] OTHER -> PartStep(s, c) \cup LiteralSteps(s, c)

\* http_parser_is_finished()
Finished(s) == s[1] \in {"end", "sent"}
=============================================================================

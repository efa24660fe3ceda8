--------------------------- MODULE RequestGrammar ---------------------------
(***************************************************************************)
(* The grammar of requests (http/parser/http11_parser.rl), rule by rule    *)
(* and with its actions.  Two operators of Ragel read differently from     *)
(* what the rules around them suggest, and are translated as they work:    *)
(* "a" - "b" and (0 - 31) are differences, not ranges; and 6( ... ) is the *)
(* byte 6 before ( ... ), not a repetition.                                *)
(***************************************************************************)
EXTENDS Grammar, Characters

CONSTANT UriRelaxed  \* parser->uri_relaxed, which nothing in the code sets

Crlf == Alt({Literal(<<"CR", "LF">>), One({"LF"})})

SubDelims == {"!", "$", "&", "'", "(", ")", "*", "+", ",", ";", "="}
               \cup (IF UriRelaxed THEN {"{", "}", "^"} ELSE {})
Unreserved == Alpha \cup Digits \cup {"-", ".", "_", "~"}
PctEncoded == Concat(<<One({"%"}), One(Hex), One(Hex)>>)
Plain(more) == Alt({One(Unreserved \cup SubDelims \cup more), PctEncoded})
PChar == Plain(High \cup {":", "@"})

Fragment == Concat(<<Act({"mark"}),
                     Star(Alt({PChar, One({"/", "?"})})),
                     Act({"fragment"})>>)
Query == Concat(<<Star(Alt({PChar, One({"/", "?"})})), Act({"query_string"})>>)

SegmentsFrom(first) == Concat(<<first, Star(Concat(<<One({"/"}), Star(PChar)>>))>>)
PathRootless == SegmentsFrom(Plus(PChar))
PathNoScheme == SegmentsFrom(Plus(Plain({"@"})))
PathAbsolute == Concat(<<One({"/"}), Opt(PathRootless)>>)
PathAbEmpty == SegmentsFrom(Concat(<<>>))

\* "0"-"4" and "0"-"5" are "0"; ("1"-"9") is "1".
DecOctet == Alt({One(Digits), Concat(<<One({"1"}), One(Digits)>>),
                 Concat(<<One({"1"}), One(Digits), One(Digits)>>),
                 Concat(<<Literal(<<"2", "0">>), One(Digits)>>), Literal(<<"2", "5", "0">>)})
Dot == One({"."})
IPv4address == Concat(<<DecOctet, Dot, DecOctet, Dot, DecOctet, Dot, DecOctet>>)
H16 == Concat(<<One(Hex), UpTo(One(Hex), 3)>>)
Pair == Concat(<<H16, One({":"})>>)
Ls32 == Alt({Concat(<<Pair, H16>>), IPv4address})
Gap == Literal(<<":", ":">>)
\* ( h16 ":" ){n,} h16, with no upper bound.
AtLeast(n) == Concat(<<Repeat(Pair, n), Star(Pair), H16>>)

\* The byte after "::" is what n( h16 ":" ) has become.
IPv6address ==
  Alt({Concat(<<One({"x06"}), Pair, Ls32>>),
       Concat(<<Gap, One({"x05"}), Pair, Ls32>>),
       Concat(<<Opt(H16), Gap, One({"x04"}), Pair, Ls32>>),
       Concat(<<Opt(AtLeast(1)), Gap, One({"x03"}), Pair, Ls32>>),
       Concat(<<Opt(AtLeast(2)), Gap, One({"x02"}), Pair, Ls32>>),
       Concat(<<Opt(AtLeast(3)), Gap, Pair, Ls32>>),
       Concat(<<Opt(AtLeast(4)), Gap, Ls32>>),
       Concat(<<Opt(AtLeast(5)), Gap, H16>>),
       Concat(<<Opt(AtLeast(6)), Gap>>)})
IPvFuture == Concat(<<One({"v"}), Plus(One(Hex)), Dot,
                      Plus(One(Unreserved \cup SubDelims \cup {":"}))>>)
IpLiteral == Concat(<<One({"["}), Alt({IPv6address, IPvFuture}), One({"]"})>>)

\* reg_name allows all that IPv4address allows.
Host == Alt({IpLiteral, Star(Plain({}))})
Authority == Concat(<<Opt(Concat(<<Star(Plain({":"})), One({"@"})>>)), Host,
                      Opt(Concat(<<One({":"}), Star(One(Digits))>>))>>)
Scheme == Concat(<<One(Alpha), Star(One(Alpha \cup Digits \cup {"+", "-", "."}))>>)
WithAuthority == Concat(<<Literal(<<"/", "/">>), Authority, PathAbEmpty>>)
RelativePart == Alt({WithAuthority, PathAbsolute, PathNoScheme, Concat(<<>>)})
HierPart == Alt({WithAuthority, PathAbsolute, PathRootless, Concat(<<>>)})

PathAndQuery(part) ==
  Concat(<<Act({"mark"}), part, Act({"request_path"}),
           Opt(Concat(<<One({"?"}), Act({"start_query"}), Query>>)), Act({"request_uri"}),
           Opt(Concat(<<One({"#"}), Fragment>>))>>)
UriReference == Alt({Concat(<<Scheme, One({":"}), PathAndQuery(HierPart)>>),
                     PathAndQuery(RelativePart)})

Method == Concat(<<Act({"mark"}), One(Upper \cup Digits), UpTo(One(Upper \cup Digits), 19),
                   Act({"request_method"})>>)
HttpVersion == Concat(<<Act({"mark"}), Literal(<<"H", "T", "T", "P", "/", "1", ".">>),
                        One({"0", "1"}), Act({"http_version"})>>)
RequestLine == Concat(<<Method, One({" "}), UriReference, One({" "}), HttpVersion, Crlf>>)

\* (0 - 31) is 0, so that the other control characters may be in names.
HttpCtl == {"NUL", "DEL"}
Token == Ascii \ (HttpCtl \cup Separators)
FieldName == Concat(<<Act({"start_field"}), Plus(One(Token)), Act({"write_field"})>>)
\* What :> leaves of lws* field_value: the first CR or LF ends it.
FieldValue == Concat(<<Star(One({" ", "HT"})), Act({"mark"}),
                       Star(One(AnyByte \ (HttpCtl \cup {"CR", "LF"}))), Act({"write_value"})>>)
MessageHeader == Concat(<<FieldName, One({":"}), FieldValue, Crlf>>)

LastCrlf == Alt({Concat(<<One({"CR"}), OneDo({"LF"}, {"done"})>>), OneDo({"LF"}, {"done"})})
Request == Concat(<<RequestLine, Star(MessageHeader), LastCrlf>>)

\* any* end :>> "\0": the first NUL that follows end is the last character.
DataTo(end, acts) ==
  Concat(<<Star(Alt({One(AnyByte \ {end}),
                     Concat(<<Plus(One({end})), One(AnyByte \ {end, "NUL"})>>)})),
           Plus(One({end})), OneDo({"NUL"}, acts)>>)
SocketJson == Concat(<<Act({"mark"}), One({"@"}), RelativePart, Act({"request_path"}), One({" "}),
                       Act({"mark"}), One({"{"}), DataTo("}", {"json", "done"})>>)
SocketXml == Concat(<<Act({"mark"}), One({"<"}), Plus(One(Alpha \cup Digits \cup {"-", "."})),
                      Act({"request_path"}), One({"/", ">"} \cup Space), DataTo(">", {"xml", "done"})>>)

Main == {<<Alt({Request, SocketJson, SocketXml})>>}
=============================================================================

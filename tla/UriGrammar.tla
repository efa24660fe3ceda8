----------------------------- MODULE UriGrammar -----------------------------
(***************************************************************************)
(* The grammar of URIs (http/parser/uri.rl), rule by rule and with its     *)
(* actions.  An action is a pair: where it stands in the grammar, which    *)
(* is the order in which the generated code runs those of one character,   *)
(* and its name.                                                           *)
(***************************************************************************)
EXTENDS Grammar, Characters

Do(place, action) == Act({<<place, action>>})

SubDelims == {"!", "$", "&", "'", "(", ")", "*", "+", ",", ";", "="}
Unreserved == Alpha \cup Digits \cup {"-", ".", "_", "~"}
PctEncoded == Concat(<<One({"%"}), One(Hex), One(Hex)>>)
Plain(more) == Alt({One(Unreserved \cup SubDelims \cup more), PctEncoded})
\* (any -- ascii) are the bytes from 128 on.
PChar == Plain(High \cup {":", "@"})

Scheme == Concat(<<Do(1, "marku"), One(Alpha), Star(One(Alpha \cup Digits \cup {"+", "-", "."})),
                   Do(2, "save_scheme")>>)

\* 2 [0-4] digit begins with the byte 2.
DecOctet == Alt({One(Digits), Concat(<<One(Digits \ {"0"}), One(Digits)>>),
                 Concat(<<One({"1"}), One(Digits), One(Digits)>>),
                 Concat(<<One({"x02"}), One({"0", "1", "2", "3", "4"}), One(Digits)>>),
                 Concat(<<Literal(<<"2", "5">>), One({"0", "1", "2", "3", "4", "5"})>>)})
Dot == One({"."})
IPv4address == Concat(<<DecOctet, Dot, DecOctet, Dot, DecOctet, Dot, DecOctet>>)
H16 == Concat(<<One(Hex), UpTo(One(Hex), 3)>>)
Pair == Concat(<<H16, One({":"})>>)
Ls32 == Alt({Concat(<<Pair, H16>>), IPv4address})
Gap == Literal(<<":", ":">>)
\* ((h16 ":"){n} h16)?
Before(n) == Opt(Concat(<<Repeat(Pair, n), H16>>))
IPv6address ==
  Alt({Concat(<<Repeat(Pair, 6), Ls32>>),
       Concat(<<Gap, Repeat(Pair, 5), Ls32>>),
       Concat(<<Before(0), Gap, Repeat(Pair, 4), Ls32>>),
       Concat(<<Before(1), Gap, Repeat(Pair, 3), Ls32>>),
       Concat(<<Before(2), Gap, Repeat(Pair, 2), Ls32>>),
       Concat(<<Before(3), Gap, Pair, Ls32>>),
       Concat(<<Before(4), Gap, Ls32>>),
       Concat(<<Before(5), Gap, H16>>),
       Concat(<<Before(6), Gap>>)})
IPvFuture == Concat(<<One({"v"}), Plus(One(Hex)), Dot,
                      Plus(One(Unreserved \cup SubDelims \cup {":"}))>>)
IpLiteral == Concat(<<One({"["}), Alt({IPv6address, IPvFuture}), One({"]"})>>)

Host == Concat(<<Do(5, "markh"), Alt({IpLiteral, IPv4address, Star(Plain({}))}), Do(6, "save_host")>>)
Port == Concat(<<Do(7, "markh"), Star(One(Digits)), Do(8, "save_port")>>)
Authority == Concat(<<Do(3, "markh"),
                      Opt(Concat(<<Star(Plain({":"})), Do(4, "save_userinfo"), One({"@"})>>)),
                      Host, Opt(Concat(<<One({":"}), Port>>))>>)

SegmentsFrom(first) == Concat(<<first, Star(Concat(<<One({"/"}), Star(PChar)>>))>>)
PathAbEmpty == SegmentsFrom(Concat(<<>>))
PathRootless == SegmentsFrom(Plus(PChar))
PathNoScheme == SegmentsFrom(Plus(Plain(High \cup {"@"})))
PathAbsolute == Concat(<<One({"/"}), Opt(PathRootless)>>)

\* Only a path behind an authority, and behind a scheme, is saved.
Slashes == Literal(<<"/", "/">>)
HierPart == Alt({Concat(<<Slashes, Authority, Do(9, "markh"), PathAbEmpty, Do(10, "save_path")>>),
                 PathAbsolute, PathRootless, Concat(<<>>)})
RelativePart == Alt({Concat(<<Slashes, Authority, PathAbEmpty>>),
                     PathAbsolute, PathNoScheme, Concat(<<>>)})

Rest == Star(Alt({PChar, One({"/", "?"})}))
Query == Opt(Concat(<<One({"?"}), Do(11, "marku"), Rest, Do(12, "save_query")>>))
Fragment == Opt(Concat(<<One({"#"}), Do(13, "marku"), Rest, Do(14, "save_fragment")>>))

UriReference == Alt({Concat(<<Scheme, One({":"}), HierPart, Query, Fragment>>),
                     Concat(<<RelativePart, Query, Fragment>>)})
Main == {<<UriReference>>}
=============================================================================

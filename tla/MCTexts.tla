------------------------------- MODULE MCTexts -------------------------------
(* The texts of HTTP, one subject after the other: the generated parsers    *)
(* (Parsers), the loops that read a head with them (MessageReader), and the *)
(* way of a URL to a servlet (Links), and addresses (Addresses).  A head    *)
(* comes in up to MaxReads pieces; the table of servlets is changed up to   *)
(* MaxCalls times.                                                          *)
EXTENDS Links

CONSTANTS Messages, BufferSize, MaxReads,   \* of MessageReader
  Octet, OctetCount, Word                   \* of Addresses

VARIABLES
  subject,                                              \* what the behaviour is of
  machine, cs, position,                                \* of Parsers
  which, relaxed, parser, arrived, base, cuts, phase,   \* of MessageReader
  ip                                                    \* for Addresses

Generated == INSTANCE Parsers
Reader == INSTANCE MessageReader
IP == INSTANCE Addresses

SomeMethods == {<<"G", "E", "T">>, <<"L", "O", "C", "K">>, <<"U", "N", "L", "O", "C", "K">>}
Length == <<"c", "o", "n", "t", "e", "n", "t", "-", "l", "e", "n", "g", "t", "h">>
Encoding == <<"t", "r", "a", "n", "s", "f", "e", "r", "-", "e", "n", "c", "o", "d", "i", "n", "g">>
Posted ==
  [method |-> <<"U", "N", "L", "O", "C", "K">>, path |-> <<"/", "^">>, query |-> <<"b", "=", "1">>,
   fragment |-> <<"c">>, minor |-> "0", close |-> TRUE,
   headers |-> <<Field(<<"k", "e">>, <<"v", "w">>)>>, body |-> <<"x", "y">>]
Answered == [reason |-> <<"O", "K">>, minor |-> "1", close |-> TRUE, headers |-> <<>>, body |-> <<>>]
Ok == <<"2", "0", "0">>
Ask == Wire!Message("request", Wire!RequestParts(Posted))
Answer(parts) == Wire!Message("response", parts)
SomeMessages ==
  <<Ask, Answer(Wire!ResponseParts(Answered)),
    Answer(Wire!ForeignParts(Ok, <<Field(<<"k">>, <<"v">>), Field(Length, <<"2">>)>>, <<"x", "y">>)),
    Answer(Wire!ForeignParts(Ok, <<Field(Encoding, Wire!Chunked)>>,
                               <<"1", "CR", "LF", "x", "CR", "LF", "0", "CR", "LF">>)),
    Answer(Wire!ForeignParts(Ok, <<Field(Length, <<>>)>>, <<"x", "y">>))>>
OneRequest == <<Ask>>


\* All authorities with few targets, and all targets with few authorities.
SomeUrls ==
  [scheme : {<<"h", "t", "t", "p">>, <<"w", "s", "s">>},
   user : {<<>>, <<"u", "@">>, <<"u", ":", "w", "@">>, <<"u", ":", "1", "@">>},
   host : {<<"h">>, <<"[", ":", ":", "1", "]">>},
   port : {<<>>, <<":">>, <<":", "8">>, <<":", "8", "0">>, <<":", "6", "5", "6", "1", "6">>},
   path : {<<>>, <<"/", "a">>}, query : {<<>>, <<"?", "q">>}, fragment : {<<>>}]
  \cup
  [scheme : {<<"h", "t", "t", "p">>}, user : {<<>>, <<"u", "@">>}, host : {<<"h">>}, port : {<<>>, <<":", "8">>},
   path : {<<>>, <<"/">>, <<"/", "a">>, <<"/", "a", "/", "b">>, <<"/", "/", "b", ":", "x">>},
   query : {<<>>, <<"?">>, <<"?", "q", "/", "?">>}, fragment : {<<>>, <<"#", "f">>}]
SomePorts == {0, 80}
\* IPv4 addresses are numbers, and of IPv6 addresses the octets are 0, 1 or all ones.
SomeIps ==
  [family : {4}, address : 0 .. IP!Full(Word)]
  \cup [family : {6}, address : [1 .. OctetCount + 1 -> {0, 1, IP!Full(Octet)}]]
SomeNames == {<<"/">>, <<"/", "a">>}
SomePatterns == {<<"/", "*">>, <<"/", "a", "*">>}

parserVars == <<machine, cs, position>>
readerVars == <<which, relaxed, parser, arrived, base, cuts, phase>>
urlVars == <<linkVars, servletVars>>
allVars == <<subject, urlVars, parserVars, readerVars, ip>>

SubjectInit(subjects) ==
  /\ subject \in subjects
  /\ Reader!Init
  /\ IF subject = "parsers" THEN Generated!Init ELSE machine = "none" /\ cs = <<>> /\ position = {}
  /\ IF subject = "links" THEN LinkInit ELSE ServletInit /\ NoRequest /\ url = Gone /\ pooled = FALSE /\ stage = "none"
  /\ subject # "reader" => which = 1 /\ relaxed
  /\ ip \in IF subject = "addresses" THEN SomeIps ELSE {<<>>}

SubjectNext ==
  /\ UNCHANGED <<subject, ip>>
  /\ \/ subject = "parsers" /\ Generated!Next /\ UNCHANGED <<urlVars, readerVars>>
     \/ subject = "reader" /\ Reader!Next /\ UNCHANGED <<urlVars, parserVars>>
     \/ subject = "links" /\ LinkNext /\ UNCHANGED <<parserVars, readerVars>>

TextsSpec == SubjectInit({"parsers", "reader", "links", "addresses"}) /\ [][SubjectNext]_allVars
HeadSpec == SubjectInit({"reader"}) /\ [][SubjectNext]_allVars

-----------------------------------------------------------------------------
(* Properties of Parsers and MessageReader                                 *)

\* The parsers generated from the grammars do what the grammars say.
FollowsGrammar == subject = "parsers" => Generated!FollowsGrammar

\* However a head is cut into pieces, its reader stops where the body begins, and
\* what no read cuts comes out as it was sent.
UncutExact == Reader!UncutExact

\* What the code can read is refused only where a read cuts it.
RefusedOnlyCut == Reader!RefusedOnlyCut

\* No header that was sent is missing or shortened.
NothingLost == Reader!NothingLost

\* What is made of an IP address means what it should: the networks of each prefix,
\* and the text it is printed as (address.cpp:98-160, 392-605).
AddressesExact ==
  subject = "addresses" =>
    IF ip.family = 4 THEN IP!NetworksV4(ip.address) /\ \A port \in SomePorts : IP!PrintedV4(ip.address, port)
    ELSE IP!NetworksV6(ip.address) /\ \A port \in SomePorts : IP!PrintedV6(ip.address, port)
=============================================================================

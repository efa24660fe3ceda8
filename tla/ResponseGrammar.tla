-------------------------- MODULE ResponseGrammar --------------------------
(***************************************************************************)
(* The grammar of responses and of the headers of chunks                   *)
(* (http/parser/httpclient_parser.rl), rule by rule and with its actions.  *)
(***************************************************************************)
EXTENDS Grammar, Characters

\* A line's end, of which LF runs acts.
CrlfDo(acts) == Alt({Concat(<<One({"CR"}), OneDo({"LF"}, acts)>>), OneDo({"LF"}, acts)})
AnyCase(text) == Concat([i \in 1..Len(text) |-> One(EitherCase(text[i]))])
Spaces == Star(One(Space))

Token == Ascii \ (Controls \cup Separators)

\* What :> leaves of any -- CRLF: a CR may only come first.
ReasonPhrase == Concat(<<Act({"mark"}), One(AnyByte \ {"LF"}), Star(One(AnyByte \ {"CR", "LF"})),
                         Act({"reason_phrase"})>>)
StatusCode == Concat(<<Act({"mark"}), Plus(One(Digits)), Act({"status_code"})>>)
HttpVersion == Concat(<<Act({"mark"}), Literal(<<"H", "T", "T", "P", "/">>), Plus(One(Digits)),
                        One({"."}), Plus(One(Digits)), Act({"http_version"})>>)
StatusLine == Concat(<<HttpVersion, One({" "}), StatusCode, One({" "}), ReasonPhrase, CrlfDo({})>>)

Name(name) == Concat(<<Act({"start_field"}), name, Act({"write_field"}), One({":"})>>)
\* The first CR or LF ends a value, even one in the spaces before it.
Fields == Concat(<<Name(Plus(One(Token))), Star(One(Space \ {"CR", "LF"})), Act({"mark"}),
                   Star(One(AnyByte \ {"CR", "LF"})), Act({"write_value"}), CrlfDo({})>>)
\* Here the spaces may well be ends of lines.
ContentLength ==
  Concat(<<Name(AnyCase(<<"c", "o", "n", "t", "e", "n", "t", "-", "l", "e", "n", "g", "t", "h">>)), Spaces,
           Act({"mark"}), Plus(One(Digits)), Act({"write_content_len", "write_value"}), CrlfDo({})>>)
ConnClose ==
  Concat(<<AnyCase(<<"c", "o", "n", "n", "e", "c", "t", "i", "o", "n", ":">>), Spaces,
           AnyCase(<<"c", "l", "o", "s", "e">>), CrlfDo({}), Act({"write_connection_close"})>>)
TransferEncodingChunked ==
  Concat(<<Name(AnyCase(<<"t", "r", "a", "n", "s", "f", "e", "r", "-",
                          "e", "n", "c", "o", "d", "i", "n", "g">>)), Spaces,
           Act({"mark"}), AnyCase(<<"c", "h", "u", "n", "k", "e", "d">>), Act({"write_value"}),
           CrlfDo({"trans_chunked"})>>)
MessageHeader == Alt({TransferEncodingChunked, ConnClose, ContentLength, Fields})
Response == Concat(<<StatusLine, Star(MessageHeader), CrlfDo({"done"})>>)

Tokens == Plus(One(Token))
ChunkExtension ==
  Star(Concat(<<One({";"}), Act({"start_field"}), Tokens, Act({"write_field", "mark"}),
                Opt(Concat(<<One({"="}), Act({"mark"}), Tokens>>)), Act({"write_value"})>>))
ChunkedHeader == Concat(<<Act({"mark"}), Plus(One(Hex)), Act({"chunk_size"}), ChunkExtension, CrlfDo({"done"})>>)

Main == {<<Alt({Response, ChunkedHeader})>>}
=============================================================================

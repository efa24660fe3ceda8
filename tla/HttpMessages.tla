---------------------------- MODULE HttpMessages ----------------------------
(***************************************************************************)
(* The messages on a connection: what HttpRequest::dump() and              *)
(* HttpResponse::dump() write (src/src/http/http.cpp), and the responses   *)
(* of other servers.  A message is a sequence of parts, texts of           *)
(* characters with what each is to the reader; the fixed texts in between  *)
(* have no kind.                                                           *)
(***************************************************************************)
EXTENDS Naturals, Sequences, SequencesExt

Part(kind, text) == <<[kind |-> kind, text |-> text]>>
Fixed(text) == Part("", text)
Led(by, kind, text) == IF text = <<>> THEN <<>> ELSE Fixed(by) \o Part(kind, text)
Crlf == <<"CR", "LF">>
Version(minor) == <<"H", "T", "T", "P", "/", "1", ".", minor>>
Header(name, colon, value) == Part("name", name) \o Fixed(colon) \o Part("value", value) \o Fixed(Crlf)
Headers(headers, colon) == FlattenSeq([i \in DOMAIN headers |-> Header(headers[i].name, colon, headers[i].value)])
Connection(close) ==
  Header(<<"c", "o", "n", "n", "e", "c", "t", "i", "o", "n">>, <<":", " ">>,
         IF close THEN <<"c", "l", "o", "s", "e">>
         ELSE <<"k", "e", "e", "p", "-", "a", "l", "i", "v", "e">>)
\* Bodies are shorter than ten.
Digit(n) == <<"0", "1", "2", "3", "4", "5", "6", "7", "8", "9">>[n + 1]
Body(body) ==
  IF body = <<>> THEN Fixed(Crlf)
  ELSE Header(<<"c", "o", "n", "t", "e", "n", "t", "-", "l", "e", "n", "g", "t", "h">>, <<":", " ">>,
              <<Digit(Len(body))>>) \o Fixed(Crlf) \o Part("body", body)

\* HttpRequest::dump()
RequestParts(r) ==
  Part("method", r.method) \o Fixed(<<" ">>) \o Part("path", r.path)
    \o Led(<<"?">>, "query", r.query) \o Led(<<"#">>, "fragment", r.fragment) \o Fixed(<<" ">>)
    \o Part("version", Version(r.minor)) \o Fixed(Crlf) \o Connection(r.close)
    \o Headers(r.headers, <<":">>) \o Body(r.body)

\* HttpResponse::dump(): there is no status code behind the version.
ResponseParts(r) ==
  Part("version", Version(r.minor)) \o Fixed(<<" ">>) \o Part("reason", r.reason) \o Fixed(Crlf)
    \o Headers(r.headers, <<":", " ">>) \o Connection(r.close) \o Body(r.body)

\* A response of another server.
Chunked == <<"c", "h", "u", "n", "k", "e", "d">>
ForeignParts(status, headers, body) ==
  Part("version", Version("1")) \o Fixed(<<" ">>) \o Part("status", status) \o Fixed(<<" ">>)
    \o Part("reason", <<"O", "K">>) \o Fixed(Crlf) \o Headers(headers, <<":", " ">>)
    \o Fixed(Crlf) \o Part("body", body)

TextOf(parts) == FlattenSeq([i \in DOMAIN parts |-> parts[i].text])
\* A message of a client ("request") or a server ("response"), its text, and where in
\* it the parts begin.
Message(side, parts) ==
  [side |-> side, parts |-> parts, text |-> TextOf(parts),
   starts |-> [i \in DOMAIN parts |-> Len(TextOf(SubSeq(parts, 1, i - 1)))]]
=============================================================================

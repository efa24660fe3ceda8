---------------------------- MODULE MessageReader ----------------------------
(***************************************************************************)
(* How HttpSession::receiveRequest() and HttpConnection::receiveResponse() *)
(* read the head of a message (http-session.cpp, http-connection.cpp,      *)
(* http_parser.cpp, and what surrounds the generated machines).  The head  *)
(* comes in pieces; every piece is parsed at the start of the same buffer. *)
(* A text the parser hands out is a span <<i, j>>: the characters from     *)
(* i + 1 to j of all that the peer sent.                                   *)
(***************************************************************************)
EXTENDS HttpMessages, FiniteSets, TLC

CONSTANTS Messages,    \* what peers send: see HttpMessages
          Methods,     \* names of HTTP_METHOD_MAP
          BufferSize,  \* s_http_request_buffer_size, s_http_response_buffer_size
          MaxReads     \* the pieces a message comes in, at most

VARIABLES which,    \* the message being received
          relaxed,  \* parser->uri_relaxed, which no constructor sets
          parser,   \* the parser's record and what it has handed out
          arrived,  \* characters read so far
          base,     \* characters in front of the buffer
          cuts,     \* where reads began, but the first
          phase
readerVars == <<which, relaxed, parser, arrived, base, cuts, phase>>

Strict == INSTANCE RequestMachine WITH UriRelaxed <- FALSE
Relaxed == INSTANCE RequestMachine WITH UriRelaxed <- TRUE
Response == INSTANCE ResponseMachine

-----------------------------------------------------------------------------
(* The message.                                                            *)

Text == Messages[which].text
Parts == Messages[which].parts
Span(i) == LET start == Messages[which].starts[i] IN <<start, start + Len(Parts[i].text)>>

-----------------------------------------------------------------------------
(* The parser.                                                             *)

Error == <<"error">>
Nothing == <<0, 0>>
IsRequest == Messages[which].side = "request"

\* http_parser_init(), httpclient_parser_init() and the constructors of the parsers
\* and their messages.
Machine == [cs |-> <<"start">>, bodyStart |-> 0, chunked |-> FALSE, mark |-> 0, fieldStart |-> 0,
            fieldLen |-> 0, sent |-> FALSE]
NewParser ==
  Machine @@ [queryStart |-> 0, pos |-> 0, stop |-> FALSE, error |-> "none", method |-> <<"G", "E", "T">>,
              path |-> Nothing, query |-> Nothing, fragment |-> Nothing, version |-> Nothing,
              status |-> Nothing, reason |-> Nothing, fields |-> <<>>]

Step(s, c) ==
  IF ~IsRequest THEN Response!Step(s, c)
  ELSE IF relaxed THEN Relaxed!Step(s, c) ELSE Strict!Step(s, c)
\* http_parser_is_finished(), httpclient_parser_is_finished()
Finished(s) == s # Error /\ IF IsRequest THEN Strict!Finished(s) ELSE Response!Finished(s)

\* MARK, PTR_TO and LEN, when the buffer begins behind the first b characters.
Here(b, p) == p.pos - b
Marked(b, p) == <<b + p.mark, p.pos>>

\* on_request_method(): the method whose name begins where the mark is.
OnMethod(b, p) ==
  LET known == {m \in Methods : IsPrefix(m, SubSeq(Text, b + p.mark + 1, Len(Text)))} IN
  IF known = {} THEN [p EXCEPT !.error = "method"] ELSE [p EXCEPT !.method = CHOOSE m \in known : TRUE]
\* Mutant of OnVersion: only the newest version is known.
OnVersionNewest(b, p) ==
  IF IsPrefix(SubSeq(Text, b + p.mark + 1, p.pos), Version("1"))
  THEN [p EXCEPT !.version = Marked(b, p)] ELSE [p EXCEPT !.error = "version"]

\* on_request_version(), on_response_version(): strncmp() up to the length.
OnVersion(b, p) ==
  LET text == SubSeq(Text, b + p.mark + 1, p.pos) IN
  IF IsPrefix(text, Version("1")) \/ IsPrefix(text, Version("0"))
  THEN [p EXCEPT !.version = Marked(b, p)] ELSE [p EXCEPT !.error = "version"]
\* on_request_query(): string(at, length) with a length below 0 throws.
OnQuery(b, p) ==
  IF Here(b, p) < p.queryStart THEN [p EXCEPT !.error = "thrown", !.stop = TRUE]
  ELSE [p EXCEPT !.query = <<b + p.queryStart, p.pos>>]
\* Mutant of OnField: a header without a name is kept.
OnFieldNameless(b, p) ==
  [p EXCEPT !.fields = Append(@, [name |-> <<b + p.fieldStart, b + p.fieldStart + p.fieldLen>>,
                                  value |-> Marked(b, p)])]

\* on_request_http_field(), on_response_http_field()
OnField(b, p) ==
  IF p.fieldLen = 0 THEN p
  ELSE [p EXCEPT !.fields = Append(@, [name |-> <<b + p.fieldStart, b + p.fieldStart + p.fieldLen>>,
                                       value |-> Marked(b, p)])]

\* The actions of the grammars, in the order of the generated code: marks first.
Actions == <<"mark", "start_query", "start_field", "write_field", "request_method", "request_path",
             "query_string", "fragment", "http_version", "status_code", "reason_phrase", "write_value",
             "trans_chunked", "chunk_size", "json", "xml", "done">>
Act(b, p, act) ==
  CASE act = "mark" -> [p EXCEPT !.mark = Here(b, p)]
    [] act = "start_query" -> [p EXCEPT !.queryStart = Here(b, p)]
    [] act = "start_field" -> [p EXCEPT !.fieldStart = Here(b, p)]
    [] act = "write_field" -> [p EXCEPT !.fieldLen = Here(b, p) - p.fieldStart]
    [] act = "request_method" -> OnMethod(b, p)
    [] act = "request_path" -> [p EXCEPT !.path = Marked(b, p)]
    [] act = "query_string" -> OnQuery(b, p)
    [] act = "fragment" -> [p EXCEPT !.fragment = Marked(b, p)]
    [] act = "http_version" -> OnVersion(b, p)
    [] act = "status_code" -> [p EXCEPT !.status = Marked(b, p)]
    [] act = "reason_phrase" -> [p EXCEPT !.reason = Marked(b, p)]
    [] act = "write_value" -> OnField(b, p)
    [] act \in {"trans_chunked", "chunk_size"} -> [p EXCEPT !.chunked = TRUE]
    [] act \in {"json", "xml"} -> [p EXCEPT !.sent = TRUE]
    [] act = "done" -> [p EXCEPT !.bodyStart = IF p.sent THEN p.mark ELSE Here(b, p) + 1, !.stop = TRUE]

\* Mutant of Go: the character that ends a head stays in the buffer.
GoShort(b, p, s) ==
  LET q == FoldLeft(LAMBDA r, act : Act(b, r, act), p, SelectSeq(Actions, LAMBDA a : a \in s.acts)) IN
  [q EXCEPT !.cs = s.to, !.pos = IF q.stop THEN @ ELSE @ + 1]

\* A transition.
Go(b, p, s) ==
  LET q == FoldLeft(LAMBDA r, act : Act(b, r, act), p, SelectSeq(Actions, LAMBDA a : a \in s.acts)) IN
  [q EXCEPT !.cs = s.to, !.pos = @ + 1]
GoAny(b, p, steps) ==
  IF steps = {} THEN [p EXCEPT !.cs = Error, !.stop = TRUE] ELSE Go(b, p, CHOOSE s \in steps : TRUE)
\* One character.
Feed(b, p, c) == IF p.stop THEN p ELSE GoAny(b, p, Step(p.cs, c))

\* http_parser_execute(), httpclient_parser_execute(): the characters up to upTo.
Execute(b, p, upTo) ==
  LET fed[i \in p.pos .. upTo] ==
        IF i = p.pos THEN [p EXCEPT !.mark = 0, !.fieldStart = 0, !.fieldLen = 0, !.stop = FALSE]
        ELSE Feed(b, fed[i - 1], Text[i])
  IN fed[upTo]

-----------------------------------------------------------------------------
Init ==
  /\ which \in DOMAIN Messages
  /\ relaxed \in IF IsRequest THEN BOOLEAN ELSE {FALSE}
  /\ parser = NewParser /\ arrived = 0 /\ base = 0 /\ cuts = {} /\ phase = "head"

\* What a parser makes of the characters up to upTo, those from b on in its buffer.
Parsed(b, upTo) ==
  /\ parser' = Execute(b, IF phase = "chunk" THEN Machine @@ parser ELSE parser, upTo)
  /\ phase' =
       CASE parser'.error = "thrown" -> "thrown"
         [] parser'.bodyStart > upTo - b -> "aborted"
         [] parser'.cs = Error \/ parser'.error # "none" \/ upTo - parser'.pos = BufferSize -> "refused"
         [] phase = "head" /\ Finished(parser'.cs) -> IF parser'.chunked THEN "chunk" ELSE "received"
         [] phase = "head" /\ ~Finished(parser'.cs) -> "head"
         [] phase = "chunk" /\ Finished(parser'.cs) -> "chunk"
         [] phase = "chunk" /\ ~Finished(parser'.cs) -> "thrown"

\* read(), what is left of the last read at the front of the buffer, and execute().
Read(n) ==
  /\ phase \in {"head", "chunk"}
  /\ arrived + n <= Len(Text) /\ n <= BufferSize - (arrived - parser.pos)
  /\ arrived' = arrived + n
  /\ base' = parser.pos
  /\ cuts' = IF arrived = 0 THEN {} ELSE cuts \cup {arrived}
  /\ Parsed(parser.pos, arrived + n)
  /\ UNCHANGED <<which, relaxed>>
\* The last read that counts brings all that is left.
Reads ==
  \E n \in 1 .. Len(Text) :
    /\ arrived + n = Len(Text) \/ Cardinality(cuts) + (IF arrived = 0 THEN 1 ELSE 2) < MaxReads
    /\ Read(n)

\* read() fails or returns 0.
ReadFails ==
  /\ phase \in {"head", "chunk"}
  /\ phase' = "closed"
  /\ UNCHANGED <<which, relaxed, parser, arrived, base, cuts>>

Next == Reads \/ ReadFails
Spec == Init /\ [][Next]_readerVars

-----------------------------------------------------------------------------
(* Properties.                                                             *)

\* A read begins inside the text <<i, j>>, or right behind it, where the parser
\* learns that it has ended.
Cut(i, j) == \E b \in cuts : i < b /\ b <= j
Kind(i) == Parts[i].kind
All == DOMAIN Parts
HeaderAt(i) == [name |-> Span(i), value |-> Span(i + 2)]
SentHeaders == {HeaderAt(i) : i \in {j \in All : Kind(j) = "name"}}
Fields == {parser.fields[i] : i \in DOMAIN parser.fields}

\* However a head is cut into pieces, its reader stops where it ends: the body
\* follows.  What no read cuts comes out as it was sent, and a header that comes out
\* was sent, if perhaps without its beginning (http_parser.cpp:12-84, 125-180,
\* http-session.cpp:29-69, http-connection.cpp:45-87).
UncutExact ==
  phase \in {"received", "chunk"} =>
    /\ phase = "received" =>
         parser.pos = Len(Text) - (IF Kind(Len(Parts)) = "body" THEN Len(Parts[Len(Parts)].text) ELSE 0)
    /\ \A i \in All :
         /\ Kind(i) = "method" /\ ~Cut(Span(i)[1], Span(i)[2]) => parser.method = Parts[i].text
         /\ /\ Kind(i) \in {"path", "query", "fragment", "version", "status", "reason"}
            /\ ~Cut(Span(i)[1], Span(i)[2])
            => parser[Kind(i)] = Span(i)
    /\ \A h \in SentHeaders : ~Cut(h.name[1], h.value[2]) => h \in Fields
    /\ \A f \in Fields : \E h \in SentHeaders :
         /\ f.name[1] >= h.name[1] /\ f.name[2] = h.name[2]
         /\ f.value[1] >= h.value[1] /\ f.value[2] = h.value[2]

\* A message is refused, or its fiber ended by an exception, only where a read cuts
\* its method, its version or its query, or for what the code cannot read at all:
\* a response without a status code, one in chunks, one whose last header is a
\* known one without a value, a target with "^" if relaxed happens to be FALSE.
Unreadable ==
  \/ ~IsRequest /\ \A i \in All : Kind(i) # "status"
  \/ \E i \in All : Kind(i) = "value" /\ Parts[i].text \in {<<>>, Chunked}
  \/ ~relaxed /\ \E i \in DOMAIN Text : Text[i] = "^"
RefusedOnlyCut ==
  phase \in {"refused", "thrown", "aborted"} /\ ~Unreadable =>
    \E i \in All : /\ Kind(i) \in IF phase = "thrown" THEN {"query"} ELSE {"method", "version"}
                   /\ Cut(Span(i)[1], Span(i)[2])

\* No header that was sent is missing or shortened: "better no error than information
\* lost" (http_parser.cpp:80).
NothingLost == phase = "received" => SentHeaders \subseteq Fields
=============================================================================

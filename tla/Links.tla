------------------------------- MODULE Links -------------------------------
(***************************************************************************)
(* What becomes of a URL: HttpConnection::DoGet() or that of a pool makes  *)
(* a request of it (http-connection.cpp) and asks for the address of its   *)
(* host (uri.rl), the server reads the request and looks for a servlet     *)
(* (http-server.cpp), while servlets come and go.                          *)
(***************************************************************************)
EXTENDS Servlets, TLC

CONSTANTS Urls,      \* records of the parts of a URL, each with its signs
          Methods    \* of MessageReader

VARIABLES url,       \* what the program is given
          pooled,    \* it asks a pool
          uri,       \* what Uri::Create() has made of it
          address,   \* that a connection is made to
          message,   \* the request on the wire
          path,      \* of the request as the servlets get it
          servlet,   \* that answers
          stage
linkVars == <<url, pooled, uri, address, message, path, servlet, stage>>

URI == INSTANCE Uri
Lookup == INSTANCE Addresses WITH Octet <- 8, OctetCount <- 16, Word <- 32
Wire == INSTANCE HttpMessages
Texts == Seq(STRING)
Sendable == [side : {"request"}, parts : Seq([kind : STRING, text : Texts]), text : Texts, starts : Seq(Nat)]
\* The request arrives in one piece.
Server(lax) == INSTANCE MessageReader
  WITH Messages <- [m \in Sendable |-> m], which <- message, relaxed <- lax, BufferSize <- 4096, MaxReads <- 1,
       parser <- <<>>, arrived <- 0, base <- 0, cuts <- {}, phase <- "head"

Gone == <<>>
\* The text of a URL.
TextOf(u) ==
  u.scheme \o <<":", "/", "/">> \o u.user \o u.host \o u.port \o u.path \o u.query \o u.fragment

NoRequest == uri = Gone /\ address = Gone /\ message = Gone /\ path = Gone /\ servlet = None
LinkInit ==
  /\ ServletInit /\ NoRequest
  /\ url \in Urls /\ pooled \in BOOLEAN /\ stage = "url"

\* Uri::Create(), and what DoGet() returns if there is none.
ParseUrl ==
  /\ stage = "url"
  /\ uri' = URI!Create(TextOf(url))
  /\ stage' = CASE uri'.result = "uri" -> "parsed"
                [] uri'.result = "nullptr" -> "invalid"
                [] uri'.result = "thrown" -> "thrown"
  /\ UNCHANGED <<url, pooled, address, message, path, servlet, servletVars>>

\* getaddrinfo() for AF_INET knows many names and addresses with dots, but none with
\* colons and no empty one.
MayResolve(node) == node.address # <<>> /\ ~Contains(node.address, ":") /\ ~node.service
\* Uri::createAddress(), by LookupAnyIPAddress(): setPort() takes 16 bits. A pool has
\* an address of its own.
CreateAddress ==
  /\ stage = "parsed" /\ ~pooled
  /\ \/ stage' = "no_address" /\ UNCHANGED address
     \/ /\ MayResolve(Lookup!Split(uri.host))
        /\ address' = [node |-> Lookup!Split(uri.host).address, port |-> URI!GetPort(uri) % 2^16]
        /\ stage' = "resolved"
  /\ UNCHANGED <<url, pooled, uri, message, path, servlet, servletVars>>

Field(name, value) == [name |-> name, value |-> value]
Get == [method |-> <<"G", "E", "T">>, minor |-> "1", body |-> <<>>]
\* DoRequest() of a connection.
Request ==
  Get @@ [path |-> URI!GetPath(uri), query |-> uri.query, fragment |-> uri.fragment, close |-> TRUE,
          headers |-> <<Field(<<"H", "o", "s", "t">>, uri.host)>>]
\* doRequest() of a pool: all in the path, and the fragment behind a second "?". The
\* host is the pool's.
PoolRequest ==
  Get @@ [path |-> URI!GetPath(uri) \o URI!Led(<<"?">>, uri.query) \o URI!Led(<<"?">>, uri.fragment),
          query |-> <<>>, fragment |-> <<>>, close |-> FALSE,
          headers |-> <<Field(<<"h", "o", "s", "t">>, <<"h">>)>>]

SendRequest ==
  /\ stage = IF pooled THEN "parsed" ELSE "resolved"
  /\ message' = Wire!Message("request", Wire!RequestParts(IF pooled THEN PoolRequest ELSE Request))
  /\ stage' = "sent"
  /\ UNCHANGED <<url, pooled, uri, address, path, servlet, servletVars>>

\* What the server's parser makes of the request.
Parsed(lax) == Server(lax)!Execute(0, Server(lax)!NewParser, Len(message.text))
Taken(span) == SubSeq(message.text, span[1] + 1, span[2])

\* receiveRequest() and the call of handle(). Of all that only the path goes on.
ReceiveRequest ==
  /\ stage = "sent"
  /\ \E lax \in BOOLEAN :
       \E read \in {Parsed(lax)} :
         IF Server(lax)!Finished(read.cs) /\ read.error = "none"
         THEN stage' = "handle" /\ path' = Taken(read.path)
         ELSE stage' = "refused" /\ path' = Gone
  /\ url' = Gone /\ uri' = Gone /\ address' = Gone /\ message' = Gone /\ pooled' = FALSE
  /\ UNCHANGED <<servlet, servletVars>>

\* The program may change the table until the session's fiber gets the lock; what it
\* did while the request was on its way comes to the same.
ChangeServlets ==
  /\ stage = "handle"
  /\ ServletCall
  /\ UNCHANGED linkVars

\* ServletDispatch::handle()
Handle ==
  /\ stage = "handle"
  /\ servlet' = MatchedServlet(path)
  /\ stage' = "served"
  /\ UNCHANGED <<url, pooled, uri, address, message, path, servletVars>>

LinkNext == ParseUrl \/ CreateAddress \/ SendRequest \/ ReceiveRequest \/ ChangeServlets \/ Handle

-----------------------------------------------------------------------------
(* Properties                                                              *)

\* The number of a port, without the colon.
PortOf(u) == IF u.port = <<>> THEN URI!SchemePort(u.scheme) ELSE URI!Number(Tail(u.port))
\* A password that begins with a digit is taken for a port until the "@" comes: what
\* is in front of it is lost.
PasswordLost(u) == \E i \in DOMAIN u.user : u.user[i] = ":" /\ u.user[i + 1] \in URI!Digits
Getters(u) ==
  [scheme |-> u.scheme, userinfo |-> u.userinfo, host |-> u.host, port |-> URI!GetPort(u),
   path |-> URI!GetPath(u), query |-> u.query, fragment |-> u.fragment]
Same(u, v) == u.result = v.result /\ Getters(u) = Getters(v)
Rest(signed) == IF signed = <<>> THEN <<>> ELSE Tail(signed)

\* Every part of a URL comes out of Uri::Create() as it stands there, and toString()
\* writes a URL that means the same (uri.rl:134-200); only a colon without a port
\* ends in an exception.
PartsKept ==
  /\ stage = "thrown" <=> stage # "url" /\ url # Gone /\ url.port = <<":">>
  /\ stage # "invalid"
  /\ stage = "parsed" =>
       /\ uri.scheme = url.scheme /\ uri.host = url.host /\ URI!GetPort(uri) = PortOf(url)
       /\ PasswordLost(url) \/ url.user = (IF uri.userinfo = <<>> THEN <<>> ELSE Append(uri.userinfo, "@"))
       /\ URI!GetPath(uri) = (IF url.path = <<>> THEN <<"/">> ELSE url.path)
       /\ uri.query = Rest(url.query) /\ uri.fragment = Rest(url.fragment)
       /\ Same(URI!Create(URI!Dump(uri)), uri)

\* A connection goes to the host and the port of its URL, if the port has 16 bits; a
\* host in brackets has no address (uri.rl:208, address.h:61).
AddressRight ==
  /\ stage = "resolved" =>
       address = [node |-> url.host, port |-> PortOf(url) % 2^16]
  /\ stage = "parsed" /\ MayResolve(Lookup!Split(uri.host)) => url.host[1] # "["

\* What it takes for an authority, with a port that is none.
LikeAuthority(p) ==
  IsPrefix(<<"/", "/">>, p) /\ \E i \in 1 .. Len(p) - 1 : p[i] = ":" /\ p[i + 1] \notin URI!Digits

\* The server reads the path, the query and the fragment the URL has, whatever its
\* parser's uri_relaxed; a pool's fragment it takes for the end of the query, and it
\* refuses a path that begins like an authority with a wrong port.
Understood(lax, read, path0) ==
  IF LikeAuthority(path0) THEN read.cs = Server(lax)!Error
  ELSE /\ Server(lax)!Finished(read.cs) /\ read.error = "none"
       /\ Taken(read.path) = path0
       /\ Taken(read.fragment) = (IF pooled THEN <<>> ELSE uri.fragment)
       /\ Taken(read.query) =
            IF pooled /\ uri.query # <<>> THEN uri.query \o URI!Led(<<"?">>, uri.fragment)
            ELSE IF pooled THEN uri.fragment ELSE uri.query
RequestUnderstood ==
  stage = "sent" => \A lax \in BOOLEAN : Understood(lax, Parsed(lax), URI!GetPath(uri))

\* What a URL names is what answers: its parts reach the server, and there the servlet
\* that the calls up to then ask for is found (servlet.cpp:27-124).
LinkServed ==
  /\ PartsKept
  /\ AddressRight
  /\ RequestUnderstood
  /\ stage = "served" => servlet = Asked(path)
=============================================================================

----------------------------- MODULE HttpExchange -----------------------------
(***************************************************************************)
(* Clients and server over the same connections: the requests of HttpPool  *)
(* are those HttpServer answers.                                           *)
(***************************************************************************)
EXTENDS HttpPool, HttpServer, FiniteSets

ASSUME FinitelyMany == IsFiniteSet(Clients)

vars == <<netVars, poolVars, serverVars>>

Init == NetInit /\ PoolInit /\ ServerInit

\* The kernel completes a connection to a socket that listens, and queues it.
Connect(c, k) ==
  /\ \A j \in Conns : end[j]["client"] = "none" => k <= j
  /\ \E l \in listening :
       /\ Connected(c, k)
       /\ backlog' = [backlog EXCEPT ![l] = Append(@, k)]
  /\ UNCHANGED <<sockets, listening, stopped, starts, loop, closing, sessionVars>>

ClientMoves(c) ==
  \/ ClientStep(c) /\ UNCHANGED serverVars
  \/ \E k \in Conns : Connect(c, k)

SessionMoves(k) == SessionStep(k) /\ UNCHANGED poolVars

LoopMoves(a) == LoopStep(a) /\ UNCHANGED poolVars

Alive == killed = "no"

Next ==
  /\ Alive
  /\ \/ \E c \in Clients : ClientMoves(c)
     \/ \E k \in Conns : SessionMoves(k)
     \/ \E a \in Loops : LoopMoves(a)
     \/ (Start \/ Stop \/ CloseSockets) /\ UNCHANGED poolVars

Spec == Init /\ [][Next]_vars

\* Tasks and fibers that can go on do; that includes recv() timing out when
\* nothing comes. Nobody has to start or stop the server.
Fairness ==
  /\ \A c \in Clients : WF_vars(Alive /\ ClientMoves(c))
  /\ \A k \in Conns : WF_vars(Alive /\ SessionMoves(k))
  /\ \A a \in Loops : WF_vars(Alive /\ LoopMoves(a))
  /\ WF_vars(Alive /\ CloseSockets /\ UNCHANGED poolVars)

FairSpec == Spec /\ Fairness

-----------------------------------------------------------------------------
(* Properties *)

TypeOK ==
  /\ arrived \in [Conns -> [Sides -> Seq(Requests \X Nat)]]
  /\ end \in [Conns -> [Sides -> EndStates]]
  /\ killed \in Sides \cup {"no"}
  /\ idle \in Seq(Conns) /\ total \in Int /\ uses \in [Conns -> Nat]
  /\ pc \in [Clients -> {"ready", "connect", "send", "head", "body", "release"}]
  /\ conn \in [Clients -> Conns \cup {NoConn}]
  /\ inbox \in [Clients -> Received]
  /\ session \in [Conns -> {"none", "head", "body", "answer", "send", "ended"}]
  /\ request \in [Conns -> Received]
  /\ loop \in [Loops -> {"off", "check", "accept", "ended"}]

\* A request that succeeds gets the response made for it, whole, whoever used
\* the connection before, whatever timed out on it; and a servlet gets whole
\* requests (http-connection.cpp:34-180, 456-495, http-session.cpp:15-85).
AnswersMatch ==
  /\ \A c \in Clients : Is(c, "release") /\ inbox[c] # Failed =>
       Intact(inbox[c], Current(c), Answered[Current(c)])
  /\ \A k \in Conns : At(k, "answer") =>
       Intact(request[k], request[k].of, Asked[request[k].of])

\* A connection of the pool is idle once or held by one client, and m_total
\* counts them (http-connection.cpp:330-399, 532-547).
PoolExact ==
  /\ \A c, d \in Clients : c # d /\ conn[c] # NoConn => conn[c] # conn[d]
  /\ \A i, j \in 1 .. Len(idle) : i # j => idle[i] # idle[j]
  /\ \A i \in 1 .. Len(idle), c \in Clients : conn[c] # idle[i]
  /\ total = Len(idle) + Cardinality({c \in Clients : conn[c] # NoConn /\ IsPooled(c)})

\* Nothing of an earlier exchange is on its way on an idle connection.
IdleClean ==
  \A i \in 1 .. Len(idle) : LET k == idle[i] IN
    /\ arrived[k] = [s \in Sides |-> <<>>] /\ unsent[k] = <<>>
    /\ session[k] \notin {"body", "answer"}

\* Every request returns: even after an error in the middle of a body, which the
\* loop of read_fixed_size() reads over, the other side gives up at last.
RequestsReturn ==
  \A c \in Clients : pc[c] \in {"send", "head", "body"} ~> Is(c, "ready") \/ ~Alive

\* A session ends after its client has closed the connection, and closes its side.
SessionsEnd ==
  \A k \in Conns :
    session[k] # "none" /\ end[k]["client"] = "closed" ~> end[k]["server"] = "closed" \/ ~Alive

\* After stop() the loops that accept come to their end.
LoopsEnd ==
  \A a \in Loops : stopped /\ loop[a] # "off" ~> loop[a] = "ended" \/ ~stopped \/ ~Alive

\* Nothing of the server outlives what it is for: a session its client, an accept loop
\* the call of stop() (http-server.cpp:17-48, tcp-server.cpp:97-155).
ServerEnds == SessionsEnd /\ LoopsEnd

-----------------------------------------------------------------------------
(* The inductive invariant of the pool                                     *)

PoolTypeOK ==
  /\ end \in [Conns -> [Sides -> EndStates]]
  /\ idle \in Seq(Conns) /\ total \in Int
  /\ pc \in [Clients -> {"ready", "connect", "send", "head", "body", "release"}]
  /\ conn \in [Clients -> Conns \cup {NoConn}]
  /\ turn \in [Clients -> Nat]

\* A client holds a connection while it is in doRequest(), and one that was made.
HeldInv ==
  \A c \in Clients :
    /\ conn[c] # NoConn <=> pc[c] \in {"send", "head", "body", "release"}
    /\ conn[c] # NoConn => end[conn[c]]["client"] # "none"

\* Nobody closes an idle connection on the side of the client.
IdleConnected == \A i \in 1 .. Len(idle) : IsConnected(idle[i], "client")

PoolInv == PoolTypeOK /\ HeldInv /\ IdleConnected /\ PoolExact

-----------------------------------------------------------------------------
(* The inductive invariant of the exchanges: what is on its way on each    *)
(* connection is the rest of one request or of the response to it          *)

\* Lengths in which no number of timeouts makes the count of read_fixed_size() wrap.
ShortBodies ==
  \A r \in Requests :
    Asked[r] + MaxSlips + 1 < LengthMod /\ Answered[r] + MaxSlips + 1 < LengthMod

Parts == Requests \X Nat

\* A message that is being received.
Incoming == [of : Requests \cup {None}, body : Seq(Parts), need : Nat, slips : Nat]

FlowTypeOK ==
  /\ arrived \in [Conns -> [Sides -> Seq(Parts)]]
  /\ session \in [Conns -> {"none", "head", "body", "answer", "send", "ended"}]
  /\ request \in [Conns -> Incoming] /\ unsent \in [Conns -> Seq(Parts)]
  /\ outbox \in [Clients -> Seq(Parts)] /\ inbox \in [Clients -> Incoming]
  /\ backlog \in [Listeners -> Seq(Conns)]
  /\ \A c \in Clients : pc[c] # "ready" => HasRequest(c)

\* The parts are those of r in order, from number n on.
Run(parts, r, n) == \A i \in 1 .. Len(parts) : parts[i] = <<r, n + i - 1>>

\* m is the head and some of the body of r; each error asks for one part more.
PartOf(m, r, length) ==
  /\ m.of = r /\ Run(m.body, r, 1) /\ Len(m.body) <= length
  /\ m.need = length - Len(m.body) + m.slips

\* A reset is one error more than the timeouts.
SlipsBounded(m, k, s) == m.slips <= IF end[k][s] = "shut" THEN MaxSlips + 1 ELSE MaxSlips

\* What a session has received and what it has not read yet is the front of a request.
SessionInv(k) ==
  LET parts == arrived[k]["server"]
      m == request[k]
  IN /\ session[k] \in {"none", "head", "send"} /\ parts # <<>> =>
          \E r \in Requests : Run(parts, r, 0) /\ Len(parts) <= Asked[r] + 1
     /\ session[k] = "body" =>
          /\ m.of \in Requests /\ PartOf(m, m.of, Asked[m.of]) /\ SlipsBounded(m, k, "server")
          /\ Run(parts, m.of, Len(m.body) + 1) /\ Len(m.body) + Len(parts) <= Asked[m.of]
     /\ session[k] = "answer" =>
          m.of \in Requests /\ Intact(m, m.of, Asked[m.of]) /\ parts = <<>>
     /\ session[k] # "send" => unsent[k] = <<>>
     /\ session[k] = "ended" => end[k]["server"] = "closed"
     /\ end[k]["server"] = "closed" => parts = <<>> /\ session[k] \in {"none", "head", "ended"}

\* Nothing has happened on a connection that is not made.
UnmadeInv(k) ==
  /\ end[k]["client"] = "none" <=> end[k]["server"] = "none"
  /\ end[k]["client"] = "none" =>
       arrived[k] = [s \in Sides |-> <<>>] /\ session[k] = "none"

\* What client c has still to send is the rest of its request.
OutboxInv(c) ==
  /\ Is(c, "send") <=> outbox[c] # <<>>
  /\ Len(outbox[c]) <= Asked[Current(c)] + 1
  /\ Run(outbox[c], Current(c), Asked[Current(c)] + 1 - Len(outbox[c]))

\* No response is made yet: the server has closed the connection, or the request of c
\* is all there, with the server, on its way or to be sent.
Asks(c, k) ==
  LET r == Current(c)
      parts == arrived[k]["server"]
  IN /\ pc[c] \in {"send", "head"} /\ arrived[k]["client"] = <<>> /\ unsent[k] = <<>>
     /\ \/ end[k]["server"] = "closed"
        \/ /\ session[k] \in {"none", "head", "send"}
           /\ Run(parts, r, 0) /\ Len(parts) + Len(outbox[c]) = Asked[r] + 1
        \/ /\ session[k] = "body" /\ request[k].of = r
           /\ Len(request[k].body) + Len(parts) + Len(outbox[c]) = Asked[r]
        \/ session[k] = "answer" /\ request[k].of = r /\ outbox[c] = <<>>

\* How many parts of the response client c has.
Got(c) == IF Is(c, "head") THEN 0 ELSE 1 + Len(inbox[c].body)

\* The response is made: it is all there, with the client, on its way or to be sent,
\* and nothing is left of the request.
Reads(c, k) ==
  LET r == Current(c)
      parts == arrived[k]["client"]
  IN /\ pc[c] \in {"head", "body", "release"} /\ arrived[k]["server"] = <<>>
     /\ session[k] \in {"send", "head", "ended"}
     /\ Run(parts, r, Got(c)) /\ Run(unsent[k], r, Got(c) + Len(parts))
     /\ Got(c) + Len(parts) + Len(unsent[k]) = Answered[r] + 1
     /\ Is(c, "body") => PartOf(inbox[c], r, Answered[r]) /\ SlipsBounded(inbox[c], k, "client")
     /\ Is(c, "release") => Intact(inbox[c], r, Answered[r])

\* A client that fails has closed its connection.
ClientInv(c) ==
  LET k == conn[c]
  IN conn[c] # NoConn =>
       /\ OutboxInv(c)
       /\ \/ Is(c, "release") /\ inbox[c] = Failed /\ end[k]["client"] = "closed"
          \/ IsConnected(k, "client") /\ (Asks(c, k) \/ Reads(c, k))

\* An idle connection is between two exchanges, or the server has closed it.
IdleInv(k) ==
  /\ arrived[k] = [s \in Sides |-> <<>>] /\ unsent[k] = <<>>
  /\ session[k] \in {"send", "head", "ended"}

\* A connection waits in one backlog, once, and has no session yet.
BacklogInv ==
  \A a, b \in Listeners : \A i \in 1 .. Len(backlog[a]), j \in 1 .. Len(backlog[b]) :
    /\ session[backlog[a][i]] = "none" /\ end[backlog[a][i]]["client"] # "none"
    /\ backlog[a][i] = backlog[b][j] => a = b /\ i = j

FlowInv ==
  /\ \A k \in Conns : SessionInv(k) /\ UnmadeInv(k)
  /\ \A c \in Clients : ClientInv(c)
  /\ \A i \in 1 .. Len(idle) : IdleInv(idle[i])
  /\ BacklogInv

\* The sockets of the server are bound to its addresses.
SocketsBound == sockets \subseteq Listeners

\* After SIGPIPE nothing moves any more.
ExchangeInv == PoolInv /\ FlowTypeOK /\ SocketsBound /\ AnswersMatch /\ (Alive => FlowInv)
=============================================================================

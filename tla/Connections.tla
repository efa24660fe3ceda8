----------------------------- MODULE Connections -----------------------------
(***************************************************************************)
(* Connected sockets (src/src/tcp-ip/socket.cpp) over the TCP of the       *)
(* kernel, and the messages of HTTP as what arrives on them. A message is  *)
(* a head and some parts of a body; recv() gives any prefix of what has    *)
(* arrived. A hooked recv() that waits too long gives -1 and ETIMEDOUT.    *)
(*                                                                         *)
(* receiveRequest() (http-session.cpp) and receiveResponse()               *)
(* (http-connection.cpp) are the same code but for the chunked coding, and *)
(* so are their messages here.                                             *)
(***************************************************************************)
EXTENDS Integers, Sequences

CONSTANTS
  Conns,        \* TCP connections
  Requests,     \* requests, each with its response
  None,         \* no request
  Asked,        \* length of the body of each request
  Answered,     \* length of the body of each response
  LengthMod,    \* 2^64: lengths are of type size_t
  MaxSlips      \* bound: timeouts in the body of one message

Sides == {"client", "server"}
Peer(side) == IF side = "client" THEN "server" ELSE "client"

ASSUME NoneIsNoRequest == None \notin Requests
ASSUME BodyAssumption == Asked \in [Requests -> Nat] /\ Answered \in [Requests -> Nat]
ASSUME LengthAssumption == LengthMod \in Nat \ {0} /\ MaxSlips \in Nat

VARIABLES
  arrived,    \* what has arrived at each side of each connection, unread
  end,        \* the state of each side's socket
  killed      \* the process that was ended by SIGPIPE

netVars == <<arrived, end, killed>>

\* "reset" still has to tell its error, "shut" has told it.
EndStates == {"none", "open", "reset", "shut", "closed"}

NetInit ==
  /\ arrived = [k \in Conns |-> [s \in Sides |-> <<>>]]
  /\ end = [k \in Conns |-> [s \in Sides |-> "none"]]
  /\ killed = "no"

\* m_is_connected: set by connect() and accept(), reset by close() only.
IsConnected(k, s) == end[k][s] \in {"open", "reset", "shut"}

Established(k) == end' = [end EXCEPT ![k] = [s \in Sides |-> "open"]]

\* close() of side s on the connections ks: the peer is reset if something was
\* left unread, and sees the end of the stream otherwise.
Hangup(ks, s) ==
  /\ end' = [k \in Conns |->
               IF k \notin ks \/ ~IsConnected(k, s) THEN end[k]
               ELSE [end[k] EXCEPT ![s] = "closed",
                       ![Peer(s)] = IF @ = "open" /\ arrived[k][s] # <<>> THEN "reset" ELSE @]]
  /\ arrived' = [k \in Conns |-> IF k \in ks THEN [arrived[k] EXCEPT ![s] = <<>>] ELSE arrived[k]]
  /\ UNCHANGED killed

Close(k, s) == Hangup({k}, s)

\* send(): to a peer that is closed the first one succeeds and is answered by a
\* reset, the next one raises SIGPIPE, which nobody handles.
Send(k, s, parts) ==
  IF end[k][s] # "open" THEN killed' = s /\ UNCHANGED <<arrived, end>>
  ELSE /\ UNCHANGED killed
       /\ IF IsConnected(k, Peer(s))
          THEN arrived' = [arrived EXCEPT ![k][Peer(s)] = @ \o parts] /\ UNCHANGED end
          ELSE end' = [end EXCEPT ![k][s] = "reset"] /\ UNCHANGED arrived

\* recv() gives the first n parts.
Take(k, s, n) ==
  /\ n \in 1 .. Len(arrived[k][s])
  /\ arrived' = [arrived EXCEPT ![k][s] = SubSeq(@, n + 1, Len(@))]
  /\ UNCHANGED <<end, killed>>

First(k, s, n) == SubSeq(arrived[k][s], 1, n)
Drained(k, s) == arrived[k][s] = <<>>

\* recv() returns 0; -1 for a reset, once; -1 for a timeout.
AtEnd(k, s) ==
  /\ Drained(k, s)
  /\ \/ end[k][s] = "shut"
     \/ end[k][s] = "open" /\ end[k][Peer(s)] = "closed"
IsReset(k, s) == Drained(k, s) /\ end[k][s] = "reset"
MayTimeOut(k, s) == Drained(k, s) /\ end[k][s] = "open" /\ end[k][Peer(s)] # "closed"

TellError(k, s) ==
  /\ end' = [end EXCEPT ![k][s] = IF @ = "reset" THEN "shut" ELSE @]
  /\ UNCHANGED <<arrived, killed>>

-----------------------------------------------------------------------------
(* Messages: part 0 is the head, the others are the body                   *)

Message(r, length) == [i \in 1 .. length + 1 |-> <<r, i - 1>>]

Received == [of : Requests \cup {None}, body : Seq(Requests \X Nat), need : 0 .. LengthMod - 1,
             slips : 0 .. MaxSlips + 1]
Nothing == [of |-> None, body |-> <<>>, need |-> 0, slips |-> 0]

IsHead(parts) == parts[1][2] = 0

\* After the read that completed the head: what came behind it belongs to the
\* body, the rest (an unsigned number) is still to be read.
Headed(parts, content) ==
  LET behind == Len(parts) - 1
  IN [of |-> parts[1][1],
      body |-> SubSeq(parts, 2, 1 + (IF content >= behind THEN behind ELSE content)),
      need |-> IF content = 0 THEN 0 ELSE (content - behind) % LengthMod,
      slips |-> 0]

\* A round of read_fixed_size().
Extended(m, parts) == [m EXCEPT !.body = @ \o parts, !.need = @ - Len(parts)]

\* A round that fails: -1 as a size_t is not <= 0, so there is one more to read,
\* to a place one further in front.
Slipped(m) == [m EXCEPT !.need = (@ + 1) % LengthMod, !.slips = @ + 1]

\* What was received is the response or request of that length.
Intact(m, r, length) ==
  m.of = r /\ m.slips = 0 /\ m.need = 0 /\ <<<<r, 0>>>> \o m.body = Message(r, length)
=============================================================================

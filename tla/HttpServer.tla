------------------------------ MODULE HttpServer ------------------------------
(***************************************************************************)
(* The server: listening sockets and the loops that accept on them         *)
(* (src/src/tcp-ip/tcp-server.cpp), and a session for each connection that *)
(* receives requests and sends responses                                   *)
(* (src/src/http/server/http-server.cpp, http-session.cpp). Loops and      *)
(* sessions are tasks of IO managers; what a servlet does is that there is *)
(* a response.                                                             *)
(***************************************************************************)
EXTENDS Connections

CONSTANTS
  Listeners,    \* addresses the server is to listen on
  KeepAlive,    \* m_is_keep_alive
  MaxStarts     \* bound: calls of start()

ASSUME ServerAssumption == KeepAlive \in BOOLEAN /\ MaxStarts \in Nat

VARIABLES
  sockets,     \* m_sockets
  listening,   \* kernel: listening sockets that are open
  backlog,     \* kernel: connections not yet accepted on each
  stopped,     \* m_is_stopped
  starts,      \* calls of start() that did something
  loop,        \* each task that runs startAccept()
  closing,     \* the task that closes the listening sockets is scheduled
  session,     \* where the session of each connection is
  request,     \* what each session has received
  unsent       \* what each session has still to send

acceptVars == <<sockets, listening, backlog, stopped, starts, loop, closing>>
sessionVars == <<session, request, unsent>>
serverVars == <<acceptVars, sessionVars>>

Loops == Listeners \X (1 .. MaxStarts)

\* bind(): if one address fails all sockets are given up.
Bind(failed) == IF failed = {} THEN Listeners ELSE {}

ServerInit ==
  /\ \E failed \in SUBSET Listeners : sockets = Bind(failed)
  /\ listening = sockets
  /\ backlog = [l \in Listeners |-> <<>>]
  /\ stopped = TRUE /\ starts = 0 /\ closing = FALSE
  /\ loop = [a \in Loops |-> "off"]
  /\ session = [k \in Conns |-> "none"]
  /\ request = [k \in Conns |-> Nothing]
  /\ unsent = [k \in Conns |-> <<>>]

-----------------------------------------------------------------------------
(* TcpServer                                                               *)

Start ==
  /\ stopped /\ starts < MaxStarts
  /\ stopped' = FALSE
  /\ starts' = starts + 1
  /\ loop' = [a \in Loops |-> IF a[1] \in sockets /\ a[2] = starts' THEN "check" ELSE loop[a]]
  /\ UNCHANGED <<netVars, sockets, listening, backlog, closing, sessionVars>>

Stop ==
  /\ ~stopped
  /\ stopped' = TRUE /\ closing' = TRUE
  /\ UNCHANGED <<netVars, sockets, listening, backlog, starts, loop, sessionVars>>

\* Mutant of CloseSockets: the sockets are forgotten, but not closed.
CloseForgetting ==
  /\ closing
  /\ closing' = FALSE /\ sockets' = {}
  /\ UNCHANGED <<netVars, listening, backlog, stopped, starts, loop, sessionVars>>

\* The task of stop(). The kernel resets what nobody has accepted.
CloseSockets ==
  LET waiting == UNION {{backlog[l][i] : i \in DOMAIN backlog[l]} : l \in sockets}
  IN /\ closing
     /\ closing' = FALSE /\ sockets' = {}
     /\ listening' = listening \ sockets
     /\ backlog' = [l \in Listeners |-> IF l \in sockets THEN <<>> ELSE backlog[l]]
     /\ end' = [k \in Conns |->
                  IF k \in waiting
                  THEN [end[k] EXCEPT !["server"] = "closed",
                                      !["client"] = IF @ = "open" THEN "reset" ELSE @]
                  ELSE end[k]]
     /\ arrived' = [k \in Conns |-> IF k \in waiting THEN [arrived[k] EXCEPT !["server"] = <<>>]
                                    ELSE arrived[k]]
     /\ UNCHANGED <<killed, stopped, starts, loop, sessionVars>>

AcceptCheck(a) ==
  /\ loop[a] = "check"
  /\ loop' = [loop EXCEPT ![a] = IF stopped THEN "ended" ELSE "accept"]
  /\ UNCHANGED <<netVars, sockets, listening, backlog, stopped, starts, closing, sessionVars>>

\* accept() gives a connection, for which handleClient() is scheduled.
Accept(a) ==
  /\ loop[a] = "accept" /\ a[1] \in listening /\ backlog[a[1]] # <<>>
  /\ backlog' = [backlog EXCEPT ![a[1]] = Tail(@)]
  /\ session' = [session EXCEPT ![Head(backlog[a[1]])] = "head"]
  /\ loop' = [loop EXCEPT ![a] = "check"]
  /\ UNCHANGED <<netVars, sockets, listening, stopped, starts, closing, request, unsent>>

\* accept() on a socket that was closed.
AcceptFails(a) ==
  /\ loop[a] = "accept" /\ a[1] \notin listening
  /\ loop' = [loop EXCEPT ![a] = "check"]
  /\ UNCHANGED <<netVars, sockets, listening, backlog, stopped, starts, closing, sessionVars>>

-----------------------------------------------------------------------------
(* HttpServer::handleClient() with HttpSession                             *)

At(k, label) == session[k] = label
Goto(k, label) == session' = [session EXCEPT ![k] = label]

\* Mutant of EndSession: the connection stays open.
EndSessionOpen(k) ==
  /\ Goto(k, "ended")
  /\ request' = [request EXCEPT ![k] = Nothing]
  /\ UNCHANGED netVars

EndSession(k) ==
  /\ Goto(k, "ended")
  /\ request' = [request EXCEPT ![k] = Nothing]
  /\ Close(k, "server")

SessionHead(k, n) ==
  /\ At(k, "head")
  /\ n \in 1 .. Len(arrived[k]["server"])
  /\ LET parts == First(k, "server", n)
         m == Headed(parts, Asked[parts[1][1]])
     IN IF IsHead(parts)
        THEN /\ Take(k, "server", n)
             /\ request' = [request EXCEPT ![k] = m]
             /\ Goto(k, IF m.need = 0 THEN "answer" ELSE "body")
        ELSE EndSession(k)
  /\ UNCHANGED <<unsent, acceptVars>>

\* recv() returns 0 or -1.
SessionHeadFails(k) ==
  /\ At(k, "head")
  /\ AtEnd(k, "server") \/ IsReset(k, "server") \/ MayTimeOut(k, "server")
  /\ EndSession(k)
  /\ UNCHANGED <<unsent, acceptVars>>

SessionBody(k, n) ==
  /\ At(k, "body") /\ n <= request[k].need
  /\ Take(k, "server", n)
  /\ request' = [request EXCEPT ![k] = Extended(@, First(k, "server", n))]
  /\ Goto(k, IF request'[k].need = 0 THEN "answer" ELSE "body")
  /\ UNCHANGED <<unsent, acceptVars>>

SessionBodyEnds(k) ==
  /\ At(k, "body") /\ AtEnd(k, "server")
  /\ EndSession(k)
  /\ UNCHANGED <<unsent, acceptVars>>

SessionBodySlips(k) ==
  /\ At(k, "body")
  /\ \/ IsReset(k, "server")
     \/ MayTimeOut(k, "server") /\ request[k].slips < MaxSlips
  /\ TellError(k, "server")
  /\ request' = [request EXCEPT ![k] = Slipped(@)]
  /\ UNCHANGED <<session, unsent, acceptVars>>

\* The servlet fills the response.
Answer(k) ==
  /\ At(k, "answer")
  /\ unsent' = [unsent EXCEPT ![k] = Message(request[k].of, Answered[request[k].of])]
  /\ request' = [request EXCEPT ![k] = Nothing]
  /\ Goto(k, "send")
  /\ UNCHANGED <<netVars, acceptVars>>

\* A round of write_fixed_size().
SessionSend(k, n) ==
  /\ At(k, "send") /\ n \in 1 .. Len(unsent[k])
  /\ Send(k, "server", SubSeq(unsent[k], 1, n))
  /\ unsent' = [unsent EXCEPT ![k] = SubSeq(@, n + 1, Len(@))]
  /\ UNCHANGED <<session, request, acceptVars>>

\* The loop goes on while the server keeps connections alive.
SessionSent(k) ==
  /\ At(k, "send") /\ unsent[k] = <<>>
  /\ IF KeepAlive THEN Goto(k, "head") /\ UNCHANGED <<netVars, request>> ELSE EndSession(k)
  /\ UNCHANGED <<unsent, acceptVars>>

SessionStep(k) ==
  \/ \E n \in 1 .. Len(arrived[k]["server"]) : SessionHead(k, n) \/ SessionBody(k, n)
  \/ SessionHeadFails(k) \/ SessionBodyEnds(k) \/ SessionBodySlips(k)
  \/ Answer(k) \/ SessionSent(k)
  \/ \E n \in 1 .. Len(unsent[k]) : SessionSend(k, n)

LoopStep(a) == AcceptCheck(a) \/ Accept(a) \/ AcceptFails(a)
=============================================================================

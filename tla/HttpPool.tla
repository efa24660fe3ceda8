------------------------------- MODULE HttpPool -------------------------------
(***************************************************************************)
(* The client (src/src/http/http-connection.cpp): fibers that make         *)
(* requests, each over a connection of a shared HttpConnectionPool or, with*)
(* HttpConnection::DoRequest(), over one of its own. The pool hands out an *)
(* idle connection under its lock or makes a new one outside of it, and    *)
(* takes it back when the last pointer to it goes away, at the end of      *)
(* doRequest().                                                            *)
(***************************************************************************)
EXTENDS Connections

CONSTANTS
  Clients,       \* fibers
  Plan,          \* the requests of each client, in order
  Single,        \* requests made by DoRequest(), without the pool
  MaxAliveTime,  \* m_max_alive_time
  MaxRequest,    \* m_max_request
  Now            \* milliseconds since 1970

ASSUME ClientAssumption ==
  /\ Single \subseteq Requests
  /\ Plan \in [Clients -> Seq(Requests)]
  /\ MaxRequest \in Nat

\* m_max_alive_time has 32 bits: at most 50 days.
ASSUME ClockAssumption == MaxAliveTime \in Nat /\ Now \in Nat /\ MaxAliveTime < Now

VARIABLES
  idle,      \* m_connections
  total,     \* m_total
  uses,      \* m_request_count of each connection
  pc,        \* where each client is in doRequest()
  conn,      \* the connection each client holds
  turn,      \* how many requests of each client are over
  outbox,    \* what each client has still to send
  inbox      \* what each client has received of the response, at last the result

poolVars == <<idle, total, uses, pc, conn, turn, outbox, inbox>>

NoConn == 0

ASSUME ConnAssumption == Conns \subseteq Nat \ {NoConn}

Failed == [Nothing EXCEPT !.need = 1]

PoolInit ==
  /\ idle = <<>> /\ total = 0
  /\ uses = [k \in Conns |-> 0]
  /\ pc = [c \in Clients |-> "ready"]
  /\ conn = [c \in Clients |-> NoConn]
  /\ turn = [c \in Clients |-> 0]
  /\ outbox = [c \in Clients |-> <<>>]
  /\ inbox = [c \in Clients |-> Nothing]

Is(c, label) == pc[c] = label
Move(c, label) == pc' = [pc EXCEPT ![c] = label]
Current(c) == Plan[c][turn[c] + 1]
HasRequest(c) == turn[c] < Len(Plan[c])
IsPooled(c) == Current(c) \notin Single
Over(c) == turn' = [turn EXCEPT ![c] = @ + 1]

\* m_create_time is never set and stays 0.
CreateTime(k) == 0

-----------------------------------------------------------------------------
(* getConnection()                                                         *)

Usable(k) == IsConnected(k, "client") /\ ~(CreateTime(k) + MaxAliveTime > Now)

\* How many connections at the front of the list are thrown away.
Unusable ==
  CHOOSE n \in 0 .. Len(idle) :
    /\ \A i \in 1 .. n : ~Usable(idle[i])
    /\ n < Len(idle) => Usable(idle[n + 1])

WriteRequest(c) == outbox' = [outbox EXCEPT ![c] = Message(Current(c), Asked[Current(c)])]

\* The section under the lock, and the deletion of what it threw away.
GetIdle(c) ==
  /\ Is(c, "ready") /\ HasRequest(c) /\ IsPooled(c)
  /\ Hangup({idle[i] : i \in 1 .. Unusable}, "client")
  /\ total' = total - Unusable
  /\ IF Unusable = Len(idle)
     THEN Move(c, "connect") /\ idle' = <<>> /\ UNCHANGED <<conn, outbox>>
     ELSE /\ conn' = [conn EXCEPT ![c] = idle[Unusable + 1]]
          /\ idle' = SubSeq(idle, Unusable + 2, Len(idle))
          /\ WriteRequest(c)
          /\ Move(c, "send")
  /\ UNCHANGED <<uses, turn, inbox>>

Connecting(c) == Is(c, "connect") \/ (Is(c, "ready") /\ HasRequest(c) /\ ~IsPooled(c))

\* A new connection.
Connected(c, k) ==
  /\ Connecting(c) /\ end[k]["client"] = "none"
  /\ Established(k)
  /\ conn' = [conn EXCEPT ![c] = k]
  /\ total' = IF IsPooled(c) THEN total + 1 ELSE total
  /\ WriteRequest(c)
  /\ Move(c, "send")
  /\ UNCHANGED <<arrived, killed, idle, uses, turn, inbox>>

\* No address or no connection.
ConnectFails(c) ==
  /\ Connecting(c)
  /\ Move(c, "ready") /\ Over(c)
  /\ UNCHANGED <<netVars, idle, total, uses, conn, outbox, inbox>>

-----------------------------------------------------------------------------
(* doRequest()                                                             *)

\* A round of write_fixed_size().
ClientSend(c, n) ==
  /\ Is(c, "send") /\ n \in 1 .. Len(outbox[c])
  /\ Send(conn[c], "client", SubSeq(outbox[c], 1, n))
  /\ outbox' = [outbox EXCEPT ![c] = SubSeq(@, n + 1, Len(@))]
  /\ Move(c, IF outbox'[c] = <<>> THEN "head" ELSE "send")
  /\ UNCHANGED <<idle, total, uses, conn, turn, inbox>>

\* Mutant of Fail: the connection stays open and is used again.
FailOpen(c) ==
  /\ inbox' = [inbox EXCEPT ![c] = Failed]
  /\ Move(c, "release")
  /\ UNCHANGED netVars

\* receiveResponse() closes the connection and returns none.
Fail(c) ==
  /\ inbox' = [inbox EXCEPT ![c] = Failed]
  /\ Move(c, "release")
  /\ Close(conn[c], "client")

ClientHead(c, n) ==
  /\ Is(c, "head")
  /\ n \in 1 .. Len(arrived[conn[c]]["client"])
  /\ LET parts == First(conn[c], "client", n)
         m == Headed(parts, Answered[parts[1][1]])
     IN IF ~IsHead(parts) THEN Fail(c)
        ELSE /\ Take(conn[c], "client", n)
             /\ inbox' = [inbox EXCEPT ![c] = m]
             /\ Move(c, IF m.need = 0 THEN "release" ELSE "body")
  /\ UNCHANGED <<idle, total, uses, conn, turn, outbox>>

\* recv() returns 0 or -1.
ClientHeadFails(c) ==
  /\ Is(c, "head")
  /\ AtEnd(conn[c], "client") \/ IsReset(conn[c], "client") \/ MayTimeOut(conn[c], "client")
  /\ Fail(c)
  /\ UNCHANGED <<idle, total, uses, conn, turn, outbox>>

ClientBody(c, n) ==
  /\ Is(c, "body") /\ n <= inbox[c].need
  /\ Take(conn[c], "client", n)
  /\ inbox' = [inbox EXCEPT ![c] = Extended(@, First(conn[c], "client", n))]
  /\ Move(c, IF inbox'[c].need = 0 THEN "release" ELSE "body")
  /\ UNCHANGED <<idle, total, uses, conn, turn, outbox>>

\* Mutant of ClientBodyEnds: the end of the stream is read over and over.
ClientBodyEndless(c) ==
  /\ Is(c, "body") /\ AtEnd(conn[c], "client")
  /\ UNCHANGED <<netVars, poolVars>>

ClientBodyEnds(c) ==
  /\ Is(c, "body") /\ AtEnd(conn[c], "client")
  /\ Fail(c)
  /\ UNCHANGED <<idle, total, uses, conn, turn, outbox>>

ClientBodySlips(c) ==
  /\ Is(c, "body")
  /\ \/ IsReset(conn[c], "client")
     \/ MayTimeOut(conn[c], "client") /\ inbox[c].slips < MaxSlips
  /\ TellError(conn[c], "client")
  /\ inbox' = [inbox EXCEPT ![c] = Slipped(@)]
  /\ UNCHANGED <<idle, total, uses, pc, conn, turn, outbox>>

-----------------------------------------------------------------------------
(* ReleasePtr(), or the destructor of a connection that is not pooled      *)

Reusable(k) ==
  /\ IsConnected(k, "client")
  /\ ~(CreateTime(k) + MaxAliveTime >= Now)
  /\ uses[k] + 1 < MaxRequest

\* Mutant of Release: a connection that is thrown away stays counted.
ReleaseUncounted(c) ==
  /\ Is(c, "release")
  /\ uses' = [uses EXCEPT ![conn[c]] = @ + 1]
  /\ IF IsPooled(c) /\ Reusable(conn[c])
     THEN idle' = Append(idle, conn[c]) /\ UNCHANGED netVars
     ELSE Close(conn[c], "client") /\ UNCHANGED idle
  /\ conn' = [conn EXCEPT ![c] = NoConn]
  /\ Move(c, "ready") /\ Over(c)
  /\ inbox' = [inbox EXCEPT ![c] = Nothing]
  /\ UNCHANGED <<total, outbox>>

Release(c) ==
  /\ Is(c, "release")
  /\ uses' = [uses EXCEPT ![conn[c]] = @ + 1]
  /\ IF IsPooled(c) /\ Reusable(conn[c])
     THEN idle' = Append(idle, conn[c]) /\ UNCHANGED <<netVars, total>>
     ELSE /\ Close(conn[c], "client")
          /\ total' = IF IsPooled(c) THEN total - 1 ELSE total
          /\ UNCHANGED idle
  /\ conn' = [conn EXCEPT ![c] = NoConn]
  /\ Move(c, "ready") /\ Over(c)
  /\ inbox' = [inbox EXCEPT ![c] = Nothing]
  /\ UNCHANGED outbox

ClientStep(c) ==
  \/ GetIdle(c) \/ ConnectFails(c)
  \/ \E n \in 1 .. Len(outbox[c]) : ClientSend(c, n)
  \/ \E k \in Conns : k = conn[c] /\ \E n \in 1 .. Len(arrived[k]["client"]) :
       ClientHead(c, n) \/ ClientBody(c, n)
  \/ ClientHeadFails(c) \/ ClientBodyEnds(c) \/ ClientBodySlips(c) \/ Release(c)
=============================================================================

------------------------------ MODULE HttpProofs ------------------------------
(***************************************************************************)
(* The pool of connections and the exchanges over them, for any clients,   *)
(* requests, connections and lengths, whatever the server and the network  *)
(* do.                                                                     *)
(***************************************************************************)
EXTENDS HttpExchange, FiniteSetTheorems, SequenceTheorems, TLAPS

-----------------------------------------------------------------------------
(* The sockets of the clients                                              *)

\* The client's side of the connections k stays made; it stays connected.
StaysMade(k) == end[k]["client"] # "none" => end'[k]["client"] # "none"
StaysConnected(k) == IsConnected(k, "client") => IsConnected(k, "client")'

LEMMA EndsUnchanged ==
  ASSUME UNCHANGED end, NEW k \in Conns
  PROVE  StaysMade(k) /\ StaysConnected(k)
BY DEF StaysMade, StaysConnected, IsConnected

\* Closing some connections leaves the client's side of the others connected, and of all
\* of them if it is the server that closes.
LEMMA HangupKeeps ==
  ASSUME PoolTypeOK, NEW ks \in SUBSET Conns, NEW s \in Sides, Hangup(ks, s), NEW k \in Conns
  PROVE  /\ end' \in [Conns -> [Sides -> EndStates]]
         /\ StaysMade(k)
         /\ s = "server" \/ k \notin ks => StaysConnected(k)
<1> USE DEF PoolTypeOK, Sides, EndStates, Peer
<1>1. end' \in [Conns -> [Sides -> EndStates]]
  BY DEF Hangup
<1>2. /\ end'[k]["client"] = end[k]["client"]
         \/ (end[k]["client"] = "open" /\ end'[k]["client"] = "reset")
         \/ (s = "client" /\ k \in ks /\ end'[k]["client"] = "closed")
  BY DEF Hangup
<1>3. QED
  BY <1>1, <1>2 DEF StaysMade, StaysConnected, IsConnected

\* The other operations on sockets.
LEMMA SendKeeps ==
  ASSUME PoolTypeOK, NEW j \in Conns, NEW s \in Sides, NEW parts, Send(j, s, parts), NEW k \in Conns
  PROVE  end' \in [Conns -> [Sides -> EndStates]] /\ StaysMade(k) /\ StaysConnected(k)
<1> USE DEF PoolTypeOK, Sides, EndStates
<1>1. UNCHANGED end \/ (end[j][s] = "open" /\ end' = [end EXCEPT ![j][s] = "reset"])
  BY DEF Send
<1>2. CASE UNCHANGED end
  BY <1>2, EndsUnchanged
<1>3. CASE end[j][s] = "open" /\ end' = [end EXCEPT ![j][s] = "reset"]
  <2>1. end' \in [Conns -> [Sides -> EndStates]]
    BY <1>3
  <2>2. end'[k]["client"] = end[k]["client"] \/ (end[k]["client"] = "open" /\ end'[k]["client"] = "reset")
    BY <1>3
  <2>3. QED
    BY <2>1, <2>2 DEF StaysMade, StaysConnected, IsConnected
<1>4. QED
  BY <1>1, <1>2, <1>3

LEMMA TellErrorKeeps ==
  ASSUME PoolTypeOK, NEW j \in Conns, NEW s \in Sides, TellError(j, s), NEW k \in Conns
  PROVE  end' \in [Conns -> [Sides -> EndStates]] /\ StaysMade(k) /\ StaysConnected(k)
BY DEF PoolTypeOK, Sides, EndStates, TellError, StaysMade, StaysConnected, IsConnected

\* The server does not touch the pool and closes only its own side.
LEMMA ServerKeeps ==
  ASSUME PoolTypeOK, NEW k \in Conns,
         \/ \E j \in Conns : SessionStep(j)
         \/ \E a \in Loops : LoopStep(a)
         \/ Start \/ Stop \/ CloseSockets
  PROVE  end' \in [Conns -> [Sides -> EndStates]] /\ StaysMade(k) /\ StaysConnected(k)
<1> DEFINE Goal == end' \in [Conns -> [Sides -> EndStates]] /\ StaysMade(k) /\ StaysConnected(k)
<1>0. CASE UNCHANGED end
  BY <1>0, EndsUnchanged DEF PoolTypeOK
<1>1. ASSUME NEW j \in Conns, EndSession(j)
      PROVE  Goal
  BY <1>1, HangupKeeps DEF EndSession, Close, Sides
<1>2. ASSUME NEW j \in Conns, SessionStep(j)
      PROVE  Goal
  <2>1. ASSUME NEW n, SessionHead(j, n) \/ SessionBody(j, n)
        PROVE  Goal
    BY <2>1, <1>0, <1>1 DEF SessionHead, SessionBody, Take
  <2>2. CASE SessionHeadFails(j) \/ SessionBodyEnds(j)
    BY <2>2, <1>1 DEF SessionHeadFails, SessionBodyEnds
  <2>3. CASE SessionBodySlips(j)
    BY <2>3, TellErrorKeeps DEF SessionBodySlips, Sides
  <2>4. ASSUME NEW n, SessionSend(j, n)
        PROVE  Goal
    BY <2>4, SendKeeps DEF SessionSend, Sides
  <2>5. CASE Answer(j) \/ SessionSent(j)
    BY <2>5, <1>0, <1>1 DEF Answer, SessionSent, netVars
  <2>6. QED
    BY <1>2, <2>1, <2>2, <2>3, <2>4, <2>5 DEF SessionStep
<1>3. CASE CloseSockets
  <2>1. /\ end'[k]["client"] \in {end[k]["client"]} \/ (end[k]["client"] = "open" /\ end'[k]["client"] = "reset")
        /\ end' \in [Conns -> [Sides -> EndStates]]
    BY <1>3 DEF CloseSockets, PoolTypeOK, Sides, EndStates
  <2>2. QED
    BY <2>1 DEF StaysMade, StaysConnected, IsConnected
<1>4. CASE Start \/ Stop \/ \E a \in Loops : LoopStep(a)
  BY <1>4, <1>0 DEF Start, Stop, LoopStep, AcceptCheck, Accept, AcceptFails, netVars
<1>5. QED
  BY <1>2, <1>3, <1>4

-----------------------------------------------------------------------------
(* The list of idle connections and the clients that hold one              *)

\* The clients that PoolExact counts.
Holders == {c \in Clients : conn[c] # NoConn /\ IsPooled(c)}

LEMMA HoldersFinite == IsFiniteSet(Holders) /\ Cardinality(Holders) \in Nat
BY FinitelyMany, FS_Subset, FS_CardinalityType DEF Holders

LEMMA IdleMembers ==
  ASSUME PoolTypeOK
  PROVE  Len(idle) \in Nat /\ \A i \in 1 .. Len(idle) : idle[i] \in Conns /\ idle[i] # NoConn
<1>1. idle \in Seq(Conns)
  BY DEF PoolTypeOK
<1>2. Len(idle) \in Nat /\ \A i \in 1 .. Len(idle) : idle[i] \in Conns
  BY <1>1, ElementOfSeq
<1>3. QED
  BY <1>2, ConnAssumption

\* The list without its first connection.
LEMMA IdleRest ==
  ASSUME PoolTypeOK, idle # <<>>, NEW s, s = SubSeq(idle, 2, Len(idle))
  PROVE  /\ s \in Seq(Conns) /\ Len(s) = Len(idle) - 1
         /\ \A i \in 1 .. Len(s) : s[i] = idle[i + 1] /\ i + 1 \in 1 .. Len(idle)
<1>1. idle \in Seq(Conns) /\ Len(idle) \in Nat \ {0}
  BY DEF PoolTypeOK
<1>2. /\ s \in Seq(Conns) /\ Len(s) = IF 2 <= Len(idle) THEN Len(idle) - 2 + 1 ELSE 0
      /\ \A i \in 1 .. Len(idle) - 2 + 1 : s[i] = idle[2 + i - 1]
  BY <1>1, SubSeqProperties
<1>3. Len(s) = Len(idle) - 1 /\ Len(idle) - 2 + 1 = Len(idle) - 1
  <2>1. \A n \in Nat \ {0} : n - 2 + 1 = n - 1 /\ (IF 2 <= n THEN n - 2 + 1 ELSE 0) = n - 1
    OBVIOUS
  <2>2. QED
    BY <1>1, <1>2, <2>1
<1>4. ASSUME NEW i \in 1 .. Len(s)
      PROVE  s[i] = idle[i + 1] /\ i + 1 \in 1 .. Len(idle)
  <2>1. i \in 1 .. Len(idle) - 2 + 1 /\ 2 + i - 1 = i + 1 /\ i + 1 \in 1 .. Len(idle)
    BY <1>1, <1>3
  <2>2. QED
    BY <1>2, <2>1
<1>5. QED
  BY <1>2, <1>3, <1>4

\* No idle connection is closed or too old, so none is thrown away.
LEMMA NoneUnusable ==
  ASSUME PoolTypeOK, IdleConnected
  PROVE  Unusable = 0
<1>1. \A i \in 1 .. Len(idle) : Usable(idle[i])
  BY ClockAssumption DEF IdleConnected, Usable, CreateTime
<1>2. Len(idle) \in Nat
  BY DEF PoolTypeOK
<1> DEFINE P(n) == /\ \A i \in 1 .. n : ~Usable(idle[i])
                   /\ n < Len(idle) => Usable(idle[n + 1])
<1>3. 0 \in 0 .. Len(idle) /\ P(0)
  BY <1>1, <1>2
<1>4. ASSUME NEW n \in 0 .. Len(idle), P(n)
      PROVE  n = 0
  BY <1>1, <1>2, <1>4
<1> HIDE DEF P
<1>5. (CHOOSE n \in 0 .. Len(idle) : P(n)) = 0
  BY <1>3, <1>4
<1>6. QED
  BY <1>5 DEF Unusable, P

\* A step of a client that keeps its connection, its request and the list.
LEMMA HoldingKept ==
  ASSUME PoolInv, UNCHANGED <<idle, total, conn, turn>>,
         end' \in [Conns -> [Sides -> EndStates]],
         pc' \in [Clients -> {"ready", "connect", "send", "head", "body", "release"}],
         \A c \in Clients : pc'[c] \in {"ready", "connect"} <=> pc[c] \in {"ready", "connect"},
         \A k \in Conns : StaysMade(k),
         \A i \in 1 .. Len(idle) : StaysConnected(idle[i])
  PROVE  PoolInv'
<1> USE DEF PoolInv
<1>1. PoolTypeOK'
  BY DEF PoolTypeOK
<1>2. HeldInv'
  BY DEF HeldInv, PoolTypeOK, StaysMade
<1>3. IdleConnected'
  BY DEF IdleConnected, StaysConnected
<1>4. PoolExact'
  BY DEF PoolExact, IsPooled, Current
<1>5. QED
  BY <1>1, <1>2, <1>3, <1>4

\* getConnection() finds an idle connection.
LEMMA TakesIdle ==
  ASSUME PoolInv, NEW c \in Clients, GetIdle(c), idle # <<>>
  PROVE  PoolInv'
<1> USE DEF PoolInv, PoolTypeOK, Is, Move
<1>0. Len(idle) \in Nat \ {0} /\ Unusable = 0
  BY NoneUnusable
<1>1. /\ pc[c] = "ready" /\ conn[c] = NoConn /\ IsPooled(c) /\ Hangup({}, "client")
      /\ conn' = [conn EXCEPT ![c] = idle[1]] /\ pc' = [pc EXCEPT ![c] = "send"]
      /\ idle' = SubSeq(idle, 2, Len(idle)) /\ total' = total /\ UNCHANGED turn
  <2>1. {idle[i] : i \in 1 .. Unusable} = {}
    BY <1>0
  <2>2. Unusable # Len(idle) /\ Unusable + 1 = 1 /\ Unusable + 2 = 2 /\ total - Unusable = total
    BY <1>0
  <2>3. conn[c] = NoConn
    BY DEF HeldInv, GetIdle
  <2>4. QED
    BY <2>1, <2>2, <2>3 DEF GetIdle
<1>2. \A k \in Conns : StaysMade(k) /\ StaysConnected(k)
  BY <1>1, HangupKeeps DEF Sides
<1>3. 1 \in 1 .. Len(idle) /\ idle[1] \in Conns /\ idle[1] # NoConn
  BY <1>0, IdleMembers
<1>4. /\ idle' \in Seq(Conns) /\ Len(idle') = Len(idle) - 1
      /\ \A i \in 1 .. Len(idle') : idle'[i] = idle[i + 1] /\ i + 1 \in 1 .. Len(idle)
  BY <1>1, IdleRest
<1>5. PoolTypeOK'
  <2>1. end' \in [Conns -> [Sides -> EndStates]]
    BY <1>1, <1>3, HangupKeeps DEF Sides
  <2>2. QED
    BY <2>1, <1>1, <1>3, <1>4
<1>6. HeldInv'
  <2>1. end'[idle[1]]["client"] # "none"
    BY <1>2, <1>3 DEF IdleConnected, StaysConnected, IsConnected
  <2>2. QED
    BY <1>1, <1>2, <1>3, <2>1 DEF HeldInv, StaysMade
<1>7. IdleConnected'
  <2> SUFFICES ASSUME NEW i \in 1 .. Len(idle')
               PROVE  IsConnected(idle[i], "client")'
    BY DEF IdleConnected
  <2>1. PICK k \in Conns : k = idle[i + 1] /\ IsConnected(k, "client")
    BY <1>4, IdleMembers DEF IdleConnected
  <2>2. IsConnected(k, "client")'
    BY <2>1, <1>2 DEF StaysConnected
  <2>3. k = idle'[i]
    BY <2>1, <1>4
  <2>4. QED
    BY <2>2, <2>3 DEF IsConnected
<1>8. PoolExact'
  <2>1. \A a, b \in Clients : a # b /\ conn'[a] # NoConn => conn'[a] # conn'[b]
    BY <1>0, <1>1, <1>3 DEF PoolExact
  <2>2. \A i, j \in 1 .. Len(idle') : i # j => idle'[i] # idle'[j]
    BY <1>4 DEF PoolExact
  <2>3. \A i \in 1 .. Len(idle'), a \in Clients : conn'[a] # idle'[i]
    BY <1>0, <1>1, <1>4 DEF PoolExact
  <2>4. Holders' = Holders \cup {c} /\ c \notin Holders
    BY <1>1, <1>3 DEF Holders, IsPooled, Current
  <2>5. Cardinality(Holders') = Cardinality(Holders) + 1
    BY <2>4, HoldersFinite, FS_AddElement
  <2>6. total' = Len(idle') + Cardinality(Holders')
    <3>1. total = Len(idle) + Cardinality(Holders)
      BY DEF PoolExact, Holders
    <3>2. Len(idle) \in Nat /\ Cardinality(Holders) \in Nat
      BY IdleMembers, HoldersFinite
    <3>3. total' = total /\ Len(idle') = Len(idle) - 1
      BY <1>1, <1>4
    <3>4. \A l, n \in Nat : l + n = (l - 1) + (n + 1)
      OBVIOUS
    <3>5. QED
      BY <3>1, <3>2, <3>3, <3>4, <2>5
  <2>7. QED
    BY <2>1, <2>2, <2>3, <2>6 DEF PoolExact, Holders, IsPooled, Current
<1>9. QED
  BY <1>5, <1>6, <1>7, <1>8

\* A new connection, for the pool or not.
LEMMA MakesConnection ==
  ASSUME PoolInv, NEW c \in Clients, NEW k \in Conns, Connected(c, k)
  PROVE  PoolInv'
<1> USE DEF PoolInv, PoolTypeOK, Is, Move
<1>1. /\ pc[c] \in {"ready", "connect"} /\ conn[c] = NoConn /\ end[k]["client"] = "none"
      /\ end' = [end EXCEPT ![k] = [s \in Sides |-> "open"]]
      /\ conn' = [conn EXCEPT ![c] = k] /\ pc' = [pc EXCEPT ![c] = "send"]
      /\ total' = IF IsPooled(c) THEN total + 1 ELSE total
      /\ UNCHANGED <<idle, turn>>
  BY DEF Connected, Connecting, Established, HeldInv
<1>2. k # NoConn /\ (\A a \in Clients : conn[a] # k) /\ (\A i \in 1 .. Len(idle) : idle[i] # k)
  BY <1>1, ConnAssumption DEF HeldInv, IdleConnected, IsConnected
<1>3. \A j \in Conns : j # k => end'[j] = end[j]
  BY <1>1
<1>4. end'[k]["client"] = "open"
  BY <1>1 DEF Sides
<1>5. PoolTypeOK'
  BY <1>1 DEF EndStates
<1>6. HeldInv'
  BY <1>1, <1>2, <1>3, <1>4 DEF HeldInv
<1>7. IdleConnected'
  BY <1>1, <1>2, <1>3 DEF IdleConnected, IsConnected
<1>8. PoolExact'
  <2>1. /\ \A a, b \in Clients : a # b /\ conn'[a] # NoConn => conn'[a] # conn'[b]
        /\ \A i \in 1 .. Len(idle), a \in Clients : conn'[a] # idle[i]
    BY <1>1, <1>2 DEF PoolExact
  <2>2. CASE IsPooled(c)
    <3>1. Holders' = Holders \cup {c} /\ c \notin Holders
      BY <1>1, <1>2, <2>2 DEF Holders, IsPooled, Current
    <3>2. Cardinality(Holders') = Cardinality(Holders) + 1
      BY <3>1, HoldersFinite, FS_AddElement
    <3>3. total' = Len(idle) + Cardinality(Holders')
      BY <3>2, <1>1, <2>2, HoldersFinite DEF PoolExact, Holders
    <3>4. QED
      BY <1>1, <2>1, <3>3 DEF PoolExact, Holders, IsPooled, Current
  <2>3. CASE ~IsPooled(c)
    <3>1. Holders' = Holders
      BY <1>1, <1>2, <2>3 DEF Holders, IsPooled, Current
    <3>2. total' = Len(idle) + Cardinality(Holders')
      BY <1>1, <2>3, <3>1 DEF PoolExact, Holders
    <3>3. QED
      BY <1>1, <2>1, <3>2 DEF PoolExact, Holders, IsPooled, Current
  <2>4. QED
    BY <2>2, <2>3
<1>9. QED
  BY <1>5, <1>6, <1>7, <1>8

\* The end of doRequest(): the connection goes back to the pool or is closed.
LEMMA GivesBack ==
  ASSUME PoolInv, NEW c \in Clients, Release(c)
  PROVE  PoolInv'
<1> USE DEF PoolInv, PoolTypeOK, Is, Move
<1> DEFINE k == conn[c]
<1>1. /\ pc[c] = "release" /\ k \in Conns /\ k # NoConn
      /\ conn' = [conn EXCEPT ![c] = NoConn] /\ pc' = [pc EXCEPT ![c] = "ready"]
      /\ turn' = [turn EXCEPT ![c] = @ + 1]
  BY DEF Release, Over, HeldInv
<1>2. (\A a \in Clients \ {c} : conn[a] # k) /\ (\A i \in 1 .. Len(idle) : idle[i] # k)
  BY <1>1 DEF PoolExact
<1>3. \A a \in Clients \ {c} : conn'[a] = conn[a] /\ turn'[a] = turn[a] /\ pc'[a] = pc[a]
  BY <1>1
<1>4. Holders' = Holders \ {c} /\ (c \in Holders <=> IsPooled(c))
  BY <1>1, <1>3 DEF Holders, IsPooled, Current
<1>5. Cardinality(Holders') = IF IsPooled(c) THEN Cardinality(Holders) - 1 ELSE Cardinality(Holders)
  <2>1. CASE IsPooled(c)
    BY <2>1, <1>4, HoldersFinite, FS_RemoveElement
  <2>2. CASE ~IsPooled(c)
    <3>1. Holders' = Holders
      BY <2>2, <1>4
    <3>2. QED
      BY <2>2, <3>1
  <2>3. QED
    BY <2>1, <2>2
<1>6. Len(idle) \in Nat /\ Cardinality(Holders) \in Nat
  BY HoldersFinite
<1>7. CASE IsPooled(c) /\ Reusable(k)
  <2>1. idle' = Append(idle, k) /\ UNCHANGED <<end, total>>
    BY <1>7 DEF Release, netVars
  <2>2. /\ idle' \in Seq(Conns) /\ Len(idle') = Len(idle) + 1
        /\ \A i \in 1 .. Len(idle') : idle'[i] = IF i = Len(idle) + 1 THEN k ELSE idle[i]
    BY <2>1, <1>1
  <2> HIDE DEF k
  <2>3. PoolTypeOK'
    BY <2>1, <2>2, <1>1
  <2>4. HeldInv'
    BY <2>1, <1>1, <1>3 DEF HeldInv
  <2>5. IdleConnected'
    BY <2>1, <2>2, <1>6, <1>7 DEF IdleConnected, Reusable, IsConnected
  <2>6. /\ \A a, b \in Clients : a # b /\ conn'[a] # NoConn => conn'[a] # conn'[b]
        /\ \A i, j \in 1 .. Len(idle') : i # j => idle'[i] # idle'[j]
        /\ \A i \in 1 .. Len(idle'), a \in Clients : conn'[a] # idle'[i]
    <3>1. \A a, b \in Clients : a # b /\ conn'[a] # NoConn => conn'[a] # conn'[b]
      BY <1>1, <1>3 DEF PoolExact
    <3>2. \A i \in 1 .. Len(idle') :
            \/ i = Len(idle) + 1 /\ idle'[i] = k
            \/ i \in 1 .. Len(idle) /\ idle'[i] = idle[i] /\ idle'[i] # k /\ idle[i] # NoConn
      BY <2>2, <1>2, <1>6, IdleMembers
    <3>3. \A i, j \in 1 .. Len(idle') : i # j => idle'[i] # idle'[j]
      BY <3>2 DEF PoolExact
    <3>4. \A i \in 1 .. Len(idle'), a \in Clients : conn'[a] # idle'[i]
      BY <3>2, <1>1, <1>2, <1>3 DEF PoolExact
    <3>5. QED
      BY <3>1, <3>3, <3>4
  <2>7. total' = Len(idle') + Cardinality(Holders')
    BY <2>1, <2>2, <1>5, <1>6, <1>7 DEF PoolExact, Holders
  <2>8. PoolExact'
    BY <2>6, <2>7 DEF PoolExact, Holders, IsPooled, Current
  <2>9. QED
    BY <2>3, <2>4, <2>5, <2>8
<1>8. CASE ~(IsPooled(c) /\ Reusable(k))
  <2>1. /\ Hangup({k}, "client") /\ UNCHANGED idle
        /\ total' = IF IsPooled(c) THEN total - 1 ELSE total
    BY <1>8 DEF Release, Close
  <2>2. end' \in [Conns -> [Sides -> EndStates]]
    BY <2>1, <1>1, HangupKeeps DEF Sides
  <2>3. ASSUME NEW j \in Conns
        PROVE  StaysMade(j) /\ (j # k => StaysConnected(j))
    <3>1. {k} \in SUBSET Conns /\ "client" \in Sides /\ (j # k => j \notin {k})
      BY <1>1 DEF Sides
    <3> HIDE DEF k
    <3>2. QED
      BY <2>1, <3>1, HangupKeeps
  <2> HIDE DEF k
  <2>4. PoolTypeOK'
    BY <2>1, <2>2, <1>1
  <2>5. HeldInv'
    BY <2>3, <1>1, <1>3 DEF HeldInv, StaysMade
  <2>6. IdleConnected'
    BY <2>1, <2>3, <1>2 DEF IdleConnected, StaysConnected
  <2>7. /\ \A a, b \in Clients : a # b /\ conn'[a] # NoConn => conn'[a] # conn'[b]
        /\ \A i \in 1 .. Len(idle), a \in Clients : conn'[a] # idle[i]
    <3>1. \A i \in 1 .. Len(idle) : idle[i] # NoConn
      BY IdleMembers
    <3>2. QED
      BY <3>1, <1>1, <1>3 DEF PoolExact
  <2>8. total' = Len(idle) + Cardinality(Holders')
    BY <2>1, <1>5, <1>6 DEF PoolExact, Holders
  <2>9. PoolExact'
    BY <2>1, <2>7, <2>8 DEF PoolExact, Holders, IsPooled, Current
  <2>10. QED
    BY <2>4, <2>5, <2>6, <2>9
<1>9. QED
  BY <1>7, <1>8

LEMMA ClientKeepsPool ==
  ASSUME PoolInv, NEW c \in Clients, ClientMoves(c)
  PROVE  PoolInv'
<1> USE DEF Is, Move
<1>0. PoolTypeOK /\ HeldInv /\ IdleConnected
  BY DEF PoolInv
\* A client that holds a connection goes on to use it.
<1>1. ASSUME pc[c] \in {"send", "head", "body"},
             \/ pc' = pc
             \/ \E label \in {"send", "head", "body", "release"} : pc' = [pc EXCEPT ![c] = label],
             UNCHANGED <<idle, total, conn, turn>>,
             \/ UNCHANGED end \/ TellError(conn[c], "client")
             \/ Close(conn[c], "client")
             \/ \E parts : Send(conn[c], "client", parts)
      PROVE  PoolInv'
  <2>1. conn[c] \in Conns /\ conn[c] # NoConn /\ \A i \in 1 .. Len(idle) : idle[i] # conn[c]
    BY <1>0, <1>1 DEF HeldInv, PoolTypeOK, PoolInv, PoolExact
  <2>2. ASSUME NEW k \in Conns
        PROVE  /\ end' \in [Conns -> [Sides -> EndStates]]
               /\ StaysMade(k) /\ (k # conn[c] => StaysConnected(k))
    <3>1. CASE UNCHANGED end
      BY <3>1, <1>0, EndsUnchanged DEF PoolTypeOK
    <3>2. CASE TellError(conn[c], "client")
      BY <3>2, <1>0, <2>1, TellErrorKeeps DEF Sides
    <3>3. CASE Close(conn[c], "client")
      <4>1. {conn[c]} \in SUBSET Conns /\ "client" \in Sides /\ Hangup({conn[c]}, "client")
        BY <3>3, <2>1 DEF Sides, Close
      <4>2. QED
        BY <4>1, <1>0, HangupKeeps
    <3>4. CASE \E parts : Send(conn[c], "client", parts)
      BY <3>4, <1>0, <2>1, SendKeeps DEF Sides
    <3>5. QED
      BY <1>1, <3>1, <3>2, <3>3, <3>4
  <2>3. end' \in [Conns -> [Sides -> EndStates]]
    BY <2>1, <2>2
  <2>4. \A i \in 1 .. Len(idle) : StaysConnected(idle[i])
    BY <2>1, <2>2, <1>0, IdleMembers
  <2>5. /\ pc' \in [Clients -> {"ready", "connect", "send", "head", "body", "release"}]
        /\ \A d \in Clients : pc'[d] \in {"ready", "connect"} <=> pc[d] \in {"ready", "connect"}
    BY <1>0, <1>1 DEF PoolTypeOK
  <2>6. QED
    BY <1>1, <2>2, <2>3, <2>4, <2>5, HoldingKept
<1>2. CASE GetIdle(c)
  <2>1. CASE idle # <<>>
    BY <1>2, <2>1, TakesIdle
  <2>2. CASE idle = <<>>
    <3>1. Unusable = 0 /\ Len(idle) = 0
      BY <1>0, <2>2, NoneUnusable
    <3>2. {idle[i] : i \in 1 .. Unusable} = {}
      BY <3>1
    <3>3. Hangup({}, "client") /\ pc[c] = "ready" /\ pc' = [pc EXCEPT ![c] = "connect"]
      BY <1>2, <3>1, <3>2 DEF GetIdle
    <3>4. UNCHANGED <<idle, total, conn, turn>>
      <4>1. total' = total - 0 /\ total \in Int
        BY <1>0, <1>2, <3>1 DEF GetIdle, PoolTypeOK
      <4>2. QED
        BY <1>2, <2>2, <3>1, <4>1 DEF GetIdle
    <3>5. \A k \in Conns : StaysMade(k) /\ StaysConnected(k)
      BY <3>3, <1>0, HangupKeeps DEF Sides
    <3>6. end' \in [Conns -> [Sides -> EndStates]]
      BY <3>3, <1>0 DEF Hangup, PoolTypeOK
    <3>7. \A i \in 1 .. Len(idle) : StaysConnected(idle[i])
      BY <3>1
    <3>8. /\ pc' \in [Clients -> {"ready", "connect", "send", "head", "body", "release"}]
          /\ \A d \in Clients : pc'[d] \in {"ready", "connect"} <=> pc[d] \in {"ready", "connect"}
      BY <3>3, <1>0 DEF PoolTypeOK
    <3>9. QED
      BY <3>4, <3>5, <3>6, <3>7, <3>8, HoldingKept
  <2>3. QED
    BY <2>1, <2>2
<1>3. CASE ConnectFails(c)
  <2>1. /\ pc[c] \in {"ready", "connect"} /\ pc' = [pc EXCEPT ![c] = "ready"]
        /\ turn' = [turn EXCEPT ![c] = @ + 1] /\ UNCHANGED <<end, idle, total, conn>>
    BY <1>3 DEF ConnectFails, Connecting, Over, netVars
  <2>2. conn[c] = NoConn
    BY <1>0, <2>1 DEF HeldInv
  <2>3. PoolTypeOK' /\ HeldInv' /\ IdleConnected'
    BY <1>0, <2>1 DEF PoolTypeOK, HeldInv, IdleConnected, IsConnected
  <2>4. {d \in Clients : conn[d] # NoConn /\ IsPooled(d)}'
         = {d \in Clients : conn[d] # NoConn /\ IsPooled(d)}
    BY <1>0, <2>1, <2>2 DEF IsPooled, Current, PoolTypeOK
  <2>5. PoolExact'
    BY <2>1, <2>4 DEF PoolExact, PoolInv
  <2>6. QED
    BY <2>3, <2>5 DEF PoolInv
<1>4. ASSUME NEW n, ClientSend(c, n)
      PROVE  PoolInv'
  BY <1>1, <1>4 DEF ClientSend
<1>5. ASSUME Fail(c), pc[c] \in {"head", "body"}, UNCHANGED <<idle, total, conn, turn>>
      PROVE  PoolInv'
  BY <1>1, <1>5 DEF Fail
<1>6. ASSUME NEW n, ClientHead(c, n) \/ ClientBody(c, n)
      PROVE  PoolInv'
  <2>1. pc[c] \in {"head", "body"} /\ UNCHANGED <<idle, total, conn, turn>>
    BY <1>6 DEF ClientHead, ClientBody
  <2>2. Fail(c) \/ (UNCHANGED end /\ \E label \in {"body", "release"} : pc' = [pc EXCEPT ![c] = label])
    BY <1>6 DEF ClientHead, ClientBody, Take
  <2>3. QED
    BY <2>1, <2>2, <1>1, <1>5
<1>7. CASE ClientHeadFails(c) \/ ClientBodyEnds(c)
  BY <1>5, <1>7 DEF ClientHeadFails, ClientBodyEnds
<1>8. CASE ClientBodySlips(c)
  BY <1>1, <1>8 DEF ClientBodySlips
<1>9. CASE Release(c)
  BY <1>9, GivesBack
<1>10. ASSUME NEW k \in Conns, Connect(c, k)
       PROVE  PoolInv'
  BY <1>10, MakesConnection DEF Connect
<1>11. QED
  BY <1>2, <1>3, <1>4, <1>6, <1>7, <1>8, <1>9, <1>10 DEF ClientMoves, ClientStep

LEMMA PoolInvInit == Init => PoolInv
<1> SUFFICES ASSUME Init
             PROVE  PoolInv
  OBVIOUS
<1> USE DEF Init, NetInit, PoolInit
<1>1. {c \in Clients : conn[c] # NoConn /\ IsPooled(c)} = {}
  OBVIOUS
<1>2. Cardinality({}) = 0
  BY FS_EmptySet
<1>3. PoolExact
  <2>1. Len(idle) = 0 /\ total = 0 /\ \A c \in Clients : conn[c] = NoConn
    OBVIOUS
  <2>2. total = Len(idle) + Cardinality({c \in Clients : conn[c] # NoConn /\ IsPooled(c)})
    <3>1. Cardinality({c \in Clients : conn[c] # NoConn /\ IsPooled(c)}) = 0
      BY <1>1, <1>2, Zenon
    <3>2. QED
      BY <2>1, <3>1
  <2>3. QED
    BY <2>1, <2>2 DEF PoolExact
<1>4. PoolTypeOK /\ HeldInv /\ IdleConnected
  BY DEF PoolTypeOK, HeldInv, IdleConnected, EndStates
<1>5. QED
  BY <1>3, <1>4 DEF PoolInv

LEMMA PoolInvStep ==
  ASSUME PoolInv, [Next]_vars
  PROVE  PoolInv'
<1>0. PoolTypeOK /\ UNCHANGED <<pc>> => pc' \in [Clients -> {"ready", "connect", "send", "head", "body", "release"}]
  BY DEF PoolTypeOK
<1>1. ASSUME UNCHANGED poolVars, end' \in [Conns -> [Sides -> EndStates]],
             \A k \in Conns : StaysMade(k) /\ StaysConnected(k)
      PROVE  PoolInv'
  <2>1. \A i \in 1 .. Len(idle) : StaysConnected(idle[i])
    BY <1>1, IdleMembers DEF PoolInv
  <2>2. QED
    BY <1>0, <1>1, <2>1, HoldingKept DEF poolVars, PoolInv
<1>2. CASE UNCHANGED vars
  BY <1>1, <1>2, EndsUnchanged DEF vars, netVars, PoolInv, PoolTypeOK
<1>3. ASSUME NEW c \in Clients, ClientMoves(c)
      PROVE  PoolInv'
  BY <1>3, ClientKeepsPool
<1>4. ASSUME UNCHANGED poolVars,
             \/ \E j \in Conns : SessionStep(j)
             \/ \E a \in Loops : LoopStep(a)
             \/ Start \/ Stop \/ CloseSockets
      PROVE  PoolInv'
  <2>1. \A k \in Conns :
          end' \in [Conns -> [Sides -> EndStates]] /\ StaysMade(k) /\ StaysConnected(k)
    BY <1>4, ServerKeeps DEF PoolInv
  <2>2. end' \in [Conns -> [Sides -> EndStates]]
    <3>1. CASE Conns = {}
      BY <3>1, <1>4 DEF SessionStep, LoopStep, Start, Stop, CloseSockets, AcceptCheck, Accept, AcceptFails, netVars,
           PoolInv, PoolTypeOK
    <3>2. QED
      BY <2>1, <3>1
  <2>3. QED
    BY <1>1, <1>4, <2>1, <2>2
<1>5. QED
  BY <1>2, <1>3, <1>4 DEF Next, SessionMoves, LoopMoves

\* A connection of the pool is idle once or held by one client, and m_total counts them
\* (http-connection.cpp:330-399, 532-547), for any clients and requests, whatever fails.
THEOREM PoolIsExact == Spec => []PoolExact
<1>1. PoolInv => PoolExact
  BY DEF PoolInv
<1>2. QED
  BY <1>1, PoolInvInit, PoolInvStep, PTL DEF Spec

\* Nobody closes an idle connection on the side of the client: getConnection() never
\* finds one to throw away before the one it hands out (http-connection.cpp:330-360).
THEOREM IdleStaysConnected == Spec => []IdleConnected
<1>1. PoolInv => IdleConnected
  BY DEF PoolInv
<1>2. QED
  BY <1>1, PoolInvInit, PoolInvStep, PTL DEF Spec

-----------------------------------------------------------------------------
(* Parts of messages                                                       *)

LEMMA RunSplit ==
  ASSUME NEW p \in Seq(Parts), NEW r, NEW m \in Nat, Run(p, r, m), NEW n \in 1 .. Len(p)
  PROVE  /\ SubSeq(p, 1, n) \in Seq(Parts) /\ Len(SubSeq(p, 1, n)) = n /\ Run(SubSeq(p, 1, n), r, m)
         /\ SubSeq(p, n + 1, Len(p)) \in Seq(Parts)
         /\ Len(SubSeq(p, n + 1, Len(p))) = Len(p) - n
         /\ Run(SubSeq(p, n + 1, Len(p)), r, m + n)
<1> DEFINE a == SubSeq(p, 1, n)
           b == SubSeq(p, n + 1, Len(p))
<1>0. Len(p) \in Nat /\ n \in Nat /\ 1 <= n /\ n <= Len(p)
  OBVIOUS
<1>1. a \in Seq(Parts) /\ Len(a) = n /\ \A i \in 1 .. n : a[i] = p[i]
  OBVIOUS
<1>2. /\ b \in Seq(Parts) /\ Len(b) = Len(p) - n
      /\ \A i \in 1 .. Len(p) - n : b[i] = p[n + i]
  OBVIOUS
<1> HIDE DEF a, b
<1>3. Run(a, r, m)
  <2>1. \A i \in 1 .. Len(a) : i \in 1 .. Len(p) /\ a[i] = p[i]
    BY <1>0, <1>1
  <2>2. QED
    BY <2>1 DEF Run
<1>4. Run(b, r, m + n)
  <2> SUFFICES ASSUME NEW i \in 1 .. Len(b)
               PROVE  b[i] = <<r, (m + n) + i - 1>>
    BY DEF Run
  <2>0. i \in 1 .. Len(p) - n
    BY <1>2
  <2>1. b[i] = p[n + i] /\ n + i \in 1 .. Len(p)
    <3>1. n + i \in 1 .. Len(p)
      BY <1>0, <2>0
    <3>2. QED
      BY <1>2, <2>0, <3>1
  <2>2. p[n + i] = <<r, m + (n + i) - 1>>
    BY <2>1 DEF Run
  <2>3. m + (n + i) - 1 = (m + n) + i - 1
    BY <1>0, <1>2
  <2>4. QED
    BY <2>1, <2>2, <2>3
<1>5. QED
  BY <1>1, <1>2, <1>3, <1>4 DEF a, b

LEMMA RunConcat ==
  ASSUME NEW p \in Seq(Parts), NEW q \in Seq(Parts), NEW r, NEW m \in Nat, NEW n,
         Run(p, r, m), Run(q, r, n), n = m + Len(p)
  PROVE  p \o q \in Seq(Parts) /\ Len(p \o q) = Len(p) + Len(q) /\ Run(p \o q, r, m)
<1> DEFINE s == p \o q
<1>0. Len(p) \in Nat /\ Len(q) \in Nat
  OBVIOUS
<1>1. /\ s \in Seq(Parts) /\ Len(s) = Len(p) + Len(q)
      /\ \A i \in 1 .. Len(p) + Len(q) : s[i] = IF i <= Len(p) THEN p[i] ELSE q[i - Len(p)]
  BY ConcatProperties
<1> HIDE DEF s
<1>2. ASSUME NEW i \in 1 .. Len(s)
      PROVE  s[i] = <<r, m + i - 1>>
  <2>1. CASE i <= Len(p)
    <3>1. i \in 1 .. Len(p) /\ s[i] = p[i]
      BY <1>0, <1>1, <2>1
    <3>2. QED
      BY <3>1 DEF Run
  <2>2. CASE ~(i <= Len(p))
    <3>1. i - Len(p) \in 1 .. Len(q) /\ s[i] = q[i - Len(p)]
      BY <1>0, <1>1, <2>2
    <3>2. s[i] = <<r, (m + Len(p)) + (i - Len(p)) - 1>>
      BY <3>1 DEF Run
    <3>3. (m + Len(p)) + (i - Len(p)) - 1 = m + i - 1
      BY <1>0, <1>1
    <3>4. QED
      BY <3>2, <3>3
  <2>3. QED
    BY <2>1, <2>2
<1>3. QED
  BY <1>1, <1>2 DEF Run, s

LEMMA RunEmpty ==
  ASSUME NEW p, p = <<>>, NEW r, NEW m
  PROVE  Run(p, r, m) /\ Len(p) = 0
BY DEF Run

\* The parts of a run are all of one message.
LEMMA RunFirst ==
  ASSUME NEW p \in Seq(Parts), p # <<>>, NEW r, NEW m \in Nat, Run(p, r, m)
  PROVE  Len(p) \in Nat \ {0} /\ p[1] = <<r, m>>
<1>1. 1 \in 1 .. Len(p) /\ Len(p) \in Nat \ {0}
  OBVIOUS
<1>2. p[1] = <<r, m + 1 - 1>> /\ m + 1 - 1 = m
  BY <1>1 DEF Run
<1>3. QED
  BY <1>1, <1>2

LEMMA MessageRun ==
  ASSUME NEW r \in Requests, NEW n \in Nat
  PROVE  /\ Message(r, n) \in Seq(Parts) /\ Len(Message(r, n)) = n + 1 /\ Message(r, n) # <<>>
         /\ Run(Message(r, n), r, 0)
<1>1. Message(r, n) \in Seq(Parts) /\ Len(Message(r, n)) = n + 1
  BY DEF Message, Parts
<1>2. \A i \in 1 .. n + 1 : Message(r, n)[i] = <<r, 0 + i - 1>>
  BY DEF Message
<1>3. QED
  BY <1>1, <1>2 DEF Run

\* What a reader has that needs no more is the message.
LEMMA WholeIntact ==
  ASSUME NEW m \in Incoming, NEW r \in Requests, NEW n \in Nat, PartOf(m, r, n), m.need = 0
  PROVE  Intact(m, r, n) /\ Len(m.body) = n
<1> DEFINE b == m.body
<1>1. b \in Seq(Parts) /\ Len(b) \in Nat /\ m.slips \in Nat /\ m.of = r
  BY DEF Incoming, PartOf
<1>2. Len(b) <= n /\ 0 = n - Len(b) + m.slips /\ Run(b, r, 1)
  BY DEF PartOf
<1>3. Len(b) = n /\ m.slips = 0
  BY <1>1, <1>2
<1>4. <<<<r, 0>>>> \o b = Message(r, n)
  <2> DEFINE h == <<<<r, 0>>>>
             s == h \o b
  <2>1. h \in Seq(Parts) /\ Len(h) = 1 /\ Run(h, r, 0)
    BY DEF Parts, Run
  <2> HIDE DEF h, b
  <2>2. s \in Seq(Parts) /\ Len(s) = n + 1 /\ Run(s, r, 0)
    <3>1. 0 \in Nat /\ 1 = 0 + Len(h) /\ Run(b, r, 1)
      BY <1>2, <2>1
    <3>2. 1 + Len(b) = n + 1
      BY <1>1, <1>3
    <3>3. s \in Seq(Parts) /\ Len(s) = Len(h) + Len(b) /\ Run(s, r, 0)
      BY <1>1, <2>1, <3>1, RunConcat, Zenon
    <3> HIDE DEF s
    <3>4. QED
      BY <2>1, <3>2, <3>3
  <2> HIDE DEF s
  <2>3. Message(r, n) \in Seq(Parts) /\ Len(Message(r, n)) = n + 1 /\ Run(Message(r, n), r, 0)
    BY MessageRun
  <2>4. \A i \in 1 .. n + 1 : s[i] = Message(r, n)[i]
    BY <2>2, <2>3 DEF Run
  <2>5. s = Message(r, n)
    BY <2>2, <2>3, <2>4, SeqEqual
  <2>6. QED
    BY <2>5 DEF s, h, b
<1>5. QED
  BY <1>1, <1>3, <1>4 DEF Intact

LEMMA IntactLength ==
  ASSUME NEW m \in Incoming, NEW r \in Requests, NEW n \in Nat, Intact(m, r, n)
  PROVE  Len(m.body) = n
<1> DEFINE b == m.body
           h == <<<<r, 0>>>>
<1>1. b \in Seq(Parts) /\ Len(b) \in Nat /\ h \in Seq(Parts) /\ Len(h) = 1
  BY DEF Incoming, Parts
<1>2. h \o b = Message(r, n)
  BY DEF Intact
<1>3. Len(h \o b) = 1 + Len(b)
  BY <1>1, ConcatProperties
<1>4. Len(Message(r, n)) = n + 1
  BY MessageRun
<1> HIDE DEF b, h
<1>5. 1 + Len(b) = n + 1
  BY <1>2, <1>3, <1>4
<1>6. QED
  BY <1>1, <1>5 DEF b

\* The read that completes the head.
LEMMA HeadedPart ==
  ASSUME NEW p \in Seq(Parts), p # <<>>, NEW r \in Requests, NEW n \in Nat, n < LengthMod,
         Run(p, r, 0), Len(p) <= n + 1
  PROVE  /\ IsHead(p) /\ p[1][1] = r
         /\ Headed(p, n) \in Incoming /\ PartOf(Headed(p, n), r, n)
         /\ Headed(p, n).slips = 0 /\ Len(Headed(p, n).body) = Len(p) - 1
<1>1. Len(p) \in Nat \ {0} /\ p[1] = <<r, 0>>
  BY RunFirst
<1>2. IsHead(p) /\ p[1][1] = r
  BY <1>1 DEF IsHead
<1> DEFINE b == SubSeq(p, 2, Len(p))
           h == Headed(p, n)
<1>3. /\ b \in Seq(Parts) /\ Len(b) = Len(p) - 1 /\ Run(b, r, 1)
  <2>1. 1 \in 1 .. Len(p) /\ 0 \in Nat /\ 1 + 1 = 2 /\ 0 + 1 = 1
    BY <1>1
  <2>2. /\ SubSeq(p, 1 + 1, Len(p)) \in Seq(Parts)
        /\ Len(SubSeq(p, 1 + 1, Len(p))) = Len(p) - 1
        /\ Run(SubSeq(p, 1 + 1, Len(p)), r, 0 + 1)
    BY <2>1, RunSplit, Zenon
  <2>3. QED
    BY <2>1, <2>2
<1>4. h = [of |-> r, body |-> b, need |-> n - (Len(p) - 1), slips |-> 0]
  <2>1. n >= Len(p) - 1 /\ 1 + (Len(p) - 1) = Len(p)
    BY <1>1
  <2>2. (IF n = 0 THEN 0 ELSE (n - (Len(p) - 1)) % LengthMod) = n - (Len(p) - 1)
    <3>1. \A x \in Nat : x < LengthMod => x % LengthMod = x
      BY LengthAssumption
    <3>2. n - (Len(p) - 1) \in Nat /\ n - (Len(p) - 1) < LengthMod
      BY <1>1, LengthAssumption
    <3>3. n = 0 => n - (Len(p) - 1) = 0
      BY <1>1
    <3>4. QED
      BY <3>1, <3>2, <3>3
  <2>3. QED
    BY <1>2, <2>1, <2>2 DEF Headed
<1>5. n - (Len(p) - 1) \in Nat /\ Len(p) - 1 <= n
  BY <1>1
<1> HIDE DEF b, h
<1>6. h.of = r /\ h.body = b /\ h.need = n - (Len(p) - 1) /\ h.slips = 0
  BY <1>4
<1>7. h \in Incoming
  BY <1>3, <1>4, <1>5 DEF Incoming
<1>8. PartOf(h, r, n)
  BY <1>3, <1>5, <1>6 DEF PartOf
<1>9. QED
  BY <1>2, <1>3, <1>6, <1>7, <1>8 DEF h

\* A read of more of the body.
LEMMA ExtendedPart ==
  ASSUME NEW m \in Incoming, NEW r \in Requests, NEW n \in Nat, PartOf(m, r, n),
         NEW p \in Seq(Parts), Run(p, r, Len(m.body) + 1), Len(m.body) + Len(p) <= n
  PROVE  /\ Extended(m, p) \in Incoming /\ PartOf(Extended(m, p), r, n)
         /\ Extended(m, p).slips = m.slips
         /\ Len(Extended(m, p).body) = Len(m.body) + Len(p)
<1> DEFINE b == m.body
           e == Extended(m, p)
           new == [of |-> m.of, body |-> b \o p, need |-> m.need - Len(p), slips |-> m.slips]
<1>1. /\ b \in Seq(Parts) /\ Len(b) \in Nat /\ Len(p) \in Nat /\ m.slips \in Nat
      /\ m.need \in Nat /\ m.of = r /\ Run(b, r, 1) /\ m.need = n - Len(b) + m.slips
  BY DEF Incoming, PartOf
<1>2. b \o p \in Seq(Parts) /\ Len(b \o p) = Len(b) + Len(p) /\ Run(b \o p, r, 1)
  <2>1. 1 \in Nat /\ Len(b) + 1 = 1 + Len(b)
    BY <1>1
  <2>2. QED
    BY <1>1, <2>1, RunConcat, Zenon
<1>3. m.need - Len(p) \in Nat /\ m.need - Len(p) = n - Len(b \o p) + m.slips
  <2>1. Len(b) + Len(p) <= n
    OBVIOUS
  <2> HIDE DEF b
  <2>2. \A x, y, z \in Nat : x + y <= n => /\ (n - x + z) - y \in Nat
                                          /\ (n - x + z) - y = n - (x + y) + z
    OBVIOUS
  <2>3. QED
    BY <2>1, <2>2, <1>1, <1>2
<1>4. e = new /\ new \in Incoming
  <2>1. new \in Incoming
    BY <1>1, <1>2, <1>3 DEF Incoming
  <2>2. e = [m EXCEPT !.body = b \o p, !.need = m.need - Len(p)]
    BY DEF Extended
  <2>3. new.of = m.of /\ new.slips = m.slips /\ new.body = b \o p /\ new.need = m.need - Len(p)
    OBVIOUS
  <2> HIDE DEF b, e, new
  <2>4. [m EXCEPT !.body = new.body, !.need = new.need] = new
    BY <2>1, <2>3 DEF Incoming
  <2>5. QED
    BY <2>1, <2>2, <2>3, <2>4
<1>5. e.of = m.of /\ e.body = b \o p /\ e.need = m.need - Len(p) /\ e.slips = m.slips
  <2> HIDE DEF e
  <2>1. QED
    BY <1>4
<1> HIDE DEF b, e, new
<1>6. Len(b \o p) <= n
  BY <1>2 DEF b
<1>7. PartOf(e, r, n)
  BY <1>1, <1>2, <1>3, <1>5, <1>6 DEF PartOf
<1>8. QED
  BY <1>2, <1>4, <1>5, <1>7 DEF e, b

\* A read that fails.
LEMMA SlippedPart ==
  ASSUME NEW m \in Incoming, NEW r \in Requests, NEW n \in Nat, PartOf(m, r, n),
         m.slips <= MaxSlips, n + MaxSlips + 1 < LengthMod
  PROVE  /\ Slipped(m) \in Incoming /\ PartOf(Slipped(m), r, n)
         /\ Slipped(m).slips = m.slips + 1 /\ Slipped(m).body = m.body /\ Slipped(m).of = m.of
<1> DEFINE e == Slipped(m)
           new == [of |-> m.of, body |-> m.body, need |-> m.need + 1, slips |-> m.slips + 1]
<1>1. /\ m.slips \in Nat /\ m.need \in Nat /\ Len(m.body) \in Nat
      /\ m.need = n - Len(m.body) + m.slips
  BY DEF Incoming, PartOf
<1>2. (m.need + 1) % LengthMod = m.need + 1
  <2>1. \A x \in Nat : x < LengthMod => x % LengthMod = x
    BY LengthAssumption
  <2>2. m.need + 1 \in Nat /\ m.need + 1 < LengthMod
    <3>1. \A x, y \in Nat : y <= MaxSlips => n - x + y <= n + MaxSlips
      BY LengthAssumption
    <3>2. m.need <= n + MaxSlips
      BY <1>1, <3>1
    <3>3. \A x \in Nat : x <= n + MaxSlips => x + 1 \in Nat /\ x + 1 < LengthMod
      BY LengthAssumption
    <3>4. QED
      BY <1>1, <3>2, <3>3
  <2>3. QED
    BY <2>1, <2>2
<1>3. e = new /\ new \in Incoming
  <2>1. new \in Incoming
    BY <1>1 DEF Incoming
  <2>2. e = [m EXCEPT !.need = m.need + 1, !.slips = m.slips + 1]
    BY <1>2 DEF Slipped
  <2>3. new.of = m.of /\ new.body = m.body /\ new.need = m.need + 1 /\ new.slips = m.slips + 1
    OBVIOUS
  <2> HIDE DEF e, new
  <2>4. [m EXCEPT !.need = new.need, !.slips = new.slips] = new
    BY <2>1, <2>3 DEF Incoming
  <2>5. QED
    BY <2>1, <2>2, <2>3, <2>4
<1>4. e.of = m.of /\ e.body = m.body /\ e.need = m.need + 1 /\ e.slips = m.slips + 1
  <2> HIDE DEF e
  <2>1. QED
    BY <1>3
<1> HIDE DEF e, new
<1>5. PartOf(e, r, n)
  <2>1. \A x, y \in Nat : (n - x + y) + 1 = n - x + (y + 1)
    OBVIOUS
  <2>2. m.need + 1 = n - Len(m.body) + (m.slips + 1)
    BY <1>1, <2>1
  <2>3. m.of = r /\ Run(m.body, r, 1) /\ Len(m.body) <= n
    BY DEF PartOf
  <2>4. QED
    BY <1>4, <2>2, <2>3 DEF PartOf
<1>6. QED
  BY <1>3, <1>4, <1>5 DEF e

-----------------------------------------------------------------------------
(* What a step leaves alone                                                *)

\* The step does not touch connection k, or client c.
Kept(k) ==
  /\ arrived'[k] = arrived[k] /\ end'[k] = end[k]
  /\ session'[k] = session[k] /\ request'[k] = request[k] /\ unsent'[k] = unsent[k]

KeptClient(c) ==
  /\ pc'[c] = pc[c] /\ conn'[c] = conn[c] /\ turn'[c] = turn[c]
  /\ outbox'[c] = outbox[c] /\ inbox'[c] = inbox[c]

LEMMA KeptSession ==
  ASSUME NEW k \in Conns, Kept(k)
  PROVE  /\ SessionInv(k) => SessionInv(k)'
         /\ UnmadeInv(k) => UnmadeInv(k)'
         /\ IdleInv(k) => IdleInv(k)'
<1> USE DEF Kept
<1>1. SessionInv(k) => SessionInv(k)'
  BY DEF SessionInv, SlipsBounded
<1>2. UnmadeInv(k) => UnmadeInv(k)'
  BY DEF UnmadeInv
<1>3. IdleInv(k) => IdleInv(k)'
  BY DEF IdleInv
<1>4. QED
  BY <1>1, <1>2, <1>3

LEMMA KeptHolder ==
  ASSUME NEW c \in Clients, KeptClient(c), ClientInv(c), conn[c] # NoConn => Kept(conn[c])
  PROVE  ClientInv(c)'
<1> USE DEF Kept, KeptClient
<1> SUFFICES ASSUME conn[c] # NoConn
             PROVE  ClientInv(c)'
  BY DEF ClientInv
<1> DEFINE k == conn[c]
<1>0. Current(c)' = Current(c) /\ Got(c)' = Got(c)
  BY DEF Current, Got, Is
<1>1. OutboxInv(c) => OutboxInv(c)'
  BY <1>0 DEF OutboxInv, Is
<1>2. Asks(c, k) => Asks(c, k)'
  BY <1>0 DEF Asks
<1>3. Reads(c, k) => Reads(c, k)'
  BY <1>0 DEF Reads, Is, SlipsBounded
<1>4. IsConnected(k, "client") => IsConnected(k, "client")'
  BY DEF IsConnected
<1>5. QED
  BY <1>1, <1>2, <1>3, <1>4 DEF ClientInv, Is

\* Waiting connections that a step keeps, and whose queue it keeps, go on waiting.
LEMMA KeptBacklog ==
  ASSUME FlowTypeOK, BacklogInv, UNCHANGED backlog,
         \A j \in Conns : session[j] = "none" /\ end[j]["client"] # "none" =>
                            session'[j] = "none" /\ end'[j]["client"] # "none"
  PROVE  BacklogInv'
<1>1. \A a \in Listeners : \A i \in 1 .. Len(backlog[a]) : backlog[a][i] \in Conns
  <2> TAKE a \in Listeners
  <2>1. backlog[a] \in Seq(Conns)
    BY DEF FlowTypeOK
  <2>2. QED
    BY <2>1, ElementOfSeq
<1>2. QED
  BY <1>1 DEF BacklogInv

\* A step of the session on connection k concerns nobody but the client that holds it.
LEMMA SessionFrame ==
  ASSUME PoolInv, FlowTypeOK, FlowInv, NEW k \in Conns, UNCHANGED <<poolVars, backlog>>,
         \A j \in Conns \ {k} : Kept(j),
         session[k] # "none", session'[k] # "none",
         end'[k]["client"] # "none", end'[k]["server"] # "none",
         SessionInv(k)',
         \A c \in Clients : conn[c] = k => ClientInv(c)',
         \A i \in 1 .. Len(idle) : idle[i] = k => IdleInv(k)'
  PROVE  FlowInv'
<1> USE DEF FlowInv
<1>1. ASSUME NEW j \in Conns
      PROVE  SessionInv(j)' /\ UnmadeInv(j)'
  <2>1. CASE j = k
    BY <2>1 DEF UnmadeInv
  <2>2. CASE j # k
    BY <2>2, KeptSession
  <2>3. QED
    BY <2>1, <2>2
<1>2. ASSUME NEW c \in Clients
      PROVE  ClientInv(c)'
  <2>1. CASE conn[c] = k
    BY <2>1
  <2>2. CASE conn[c] # k
    <3>1. conn[c] # NoConn => conn[c] \in Conns \ {k}
      BY <2>2 DEF PoolInv, PoolTypeOK
    <3>2. KeptClient(c)
      BY DEF KeptClient, poolVars
    <3>3. QED
      BY <3>1, <3>2, KeptHolder
  <2>3. QED
    BY <2>1, <2>2
<1>3. ASSUME NEW i \in 1 .. Len(idle)
      PROVE  IdleInv(idle[i])'
  <2>0. PICK j \in Conns : j = idle[i] /\ j = idle'[i]
    BY IdleMembers DEF PoolInv, poolVars
  <2>1. CASE j = k
    BY <2>0, <2>1 DEF IdleInv
  <2>2. CASE j # k
    <3>1. IdleInv(j)'
      BY <2>0, <2>2, KeptSession
    <3>2. QED
      BY <2>0, <3>1 DEF IdleInv
  <2>3. QED
    BY <2>1, <2>2
<1>4. BacklogInv'
  <2>1. \A j \in Conns : session[j] = "none" /\ end[j]["client"] # "none" =>
                           session'[j] = "none" /\ end'[j]["client"] # "none"
    BY DEF Kept
  <2>2. QED
    BY <2>1, KeptBacklog
<1>5. \A i \in 1 .. Len(idle') : IdleInv(idle[i])'
  BY <1>3 DEF poolVars
<1>6. QED
  BY <1>1, <1>2, <1>4, <1>5

\* A step of client c on the connection it holds concerns nobody but their session.
LEMMA HolderFrame ==
  ASSUME PoolInv, FlowTypeOK, FlowInv, NEW c \in Clients, NEW k \in Conns, conn[c] = k,
         UNCHANGED <<idle, backlog, session, request, unsent>>,
         \A j \in Conns \ {k} : Kept(j),
         \A d \in Clients : d # c => KeptClient(d),
         end'[k]["client"] # "none", end'[k]["server"] # "none",
         SessionInv(k)', ClientInv(c)'
  PROVE  FlowInv'
<1> USE DEF FlowInv
<1>0. k # NoConn /\ end[k]["client"] # "none" /\ end[k]["server"] # "none"
  BY ConnAssumption DEF PoolInv, HeldInv, UnmadeInv
<1>1. ASSUME NEW j \in Conns
      PROVE  SessionInv(j)' /\ UnmadeInv(j)'
  <2>1. CASE j = k
    BY <1>0, <2>1 DEF UnmadeInv
  <2>2. CASE j # k
    BY <1>0, <2>2, KeptSession
  <2>3. QED
    BY <2>1, <2>2
<1>2. ASSUME NEW d \in Clients, d # c
      PROVE  ClientInv(d)'
  <2>1. conn[d] # NoConn => conn[d] \in Conns /\ conn[d] # k
    BY <1>0, <1>2 DEF PoolInv, PoolTypeOK, PoolExact
  <2>2. QED
    BY <1>0, <1>2, <2>1, KeptHolder
<1>3. ASSUME NEW i \in 1 .. Len(idle)
      PROVE  IdleInv(idle[i])'
  <2>0. PICK j \in Conns : j = idle[i] /\ j = idle'[i] /\ j # k
    BY <1>0, IdleMembers DEF PoolInv, PoolExact
  <2>1. IdleInv(j)'
    BY <1>0, <2>0, KeptSession
  <2>2. QED
    BY <2>0, <2>1 DEF IdleInv
<1>4. BacklogInv'
  <2>1. \A j \in Conns : session[j] = "none" /\ end[j]["client"] # "none" =>
                           session'[j] = "none" /\ end'[j]["client"] # "none"
    BY <1>0 DEF Kept
  <2>2. QED
    BY <2>1, KeptBacklog
<1>5. \A d \in Clients : ClientInv(d)'
  BY <1>2
<1>6. QED
  BY <1>1, <1>3, <1>4, <1>5

\* What is known of one connection.
LEMMA ConnTypes ==
  ASSUME FlowTypeOK, PoolTypeOK, NEW k \in Conns
  PROVE  /\ arrived[k]["server"] \in Seq(Parts) /\ arrived[k]["client"] \in Seq(Parts)
         /\ Len(arrived[k]["server"]) \in Nat /\ Len(arrived[k]["client"]) \in Nat
         /\ request[k] \in Incoming /\ unsent[k] \in Seq(Parts) /\ Len(unsent[k]) \in Nat
         /\ end[k]["client"] \in EndStates /\ end[k]["server"] \in EndStates
BY DEF FlowTypeOK, PoolTypeOK, Sides

\* What is known of the client that holds a connection.
LEMMA ClientFacts ==
  ASSUME PoolInv, FlowTypeOK, FlowInv, NEW c \in Clients, NEW k \in Conns, conn[c] = k
  PROVE  /\ Current(c) \in Requests /\ Asked[Current(c)] \in Nat /\ Answered[Current(c)] \in Nat
         /\ outbox[c] \in Seq(Parts) /\ Len(outbox[c]) \in Nat
         /\ inbox[c] \in Incoming /\ Got(c) \in Nat
         /\ pc[c] \in {"send", "head", "body", "release"}
         /\ OutboxInv(c)
         /\ \/ Is(c, "release") /\ inbox[c] = Failed /\ end[k]["client"] = "closed"
            \/ IsConnected(k, "client") /\ (Asks(c, k) \/ Reads(c, k))
<1>1. conn[c] # NoConn
  BY ConnAssumption
<1>2. pc[c] \in {"send", "head", "body", "release"}
  BY <1>1 DEF PoolInv, HeldInv
<1>3. turn[c] \in Nat /\ turn[c] < Len(Plan[c]) /\ Plan[c] \in Seq(Requests)
  BY <1>2, ClientAssumption DEF FlowTypeOK, HasRequest, PoolInv, PoolTypeOK
<1>4. Current(c) \in Requests
  BY <1>3 DEF Current
<1>5. outbox[c] \in Seq(Parts) /\ inbox[c] \in Incoming
  BY DEF FlowTypeOK
<1>6. Got(c) \in Nat
  BY <1>5 DEF Got, Incoming
<1>7. QED
  BY <1>1, <1>2, <1>4, <1>5, <1>6, BodyAssumption DEF FlowInv, ClientInv

-----------------------------------------------------------------------------
(* The sessions                                                            *)

LEMMA SessionHeadFlow ==
  ASSUME ShortBodies, PoolInv, FlowTypeOK, FlowInv, NEW k \in Conns,
         NEW n \in 1 .. Len(arrived[k]["server"]), SessionHead(k, n), UNCHANGED poolVars
  PROVE  FlowTypeOK' /\ FlowInv'
<1> DEFINE parts == arrived[k]["server"]
           front == SubSeq(parts, 1, n)
           rest == SubSeq(parts, n + 1, Len(parts))
<1>1. /\ parts \in Seq(Parts) /\ Len(parts) \in Nat /\ parts # <<>> /\ n \in Nat /\ n <= Len(parts)
      /\ n >= 1 /\ request[k] \in Incoming
  BY ConnTypes DEF PoolInv
<1>2. session[k] = "head" /\ SessionInv(k)
  BY DEF SessionHead, At, FlowInv
<1>3. PICK r \in Requests : Run(parts, r, 0) /\ Len(parts) <= Asked[r] + 1
  BY <1>1, <1>2 DEF SessionInv
<1>4. Asked[r] \in Nat /\ Asked[r] < LengthMod /\ Asked[r] + MaxSlips + 1 < LengthMod
  BY BodyAssumption, LengthAssumption DEF ShortBodies
<1>5. /\ front \in Seq(Parts) /\ Len(front) = n /\ Run(front, r, 0) /\ front # <<>>
      /\ rest \in Seq(Parts) /\ Len(rest) = Len(parts) - n /\ Run(rest, r, n)
  <2>1. 0 \in Nat /\ 0 + n = n
    BY <1>1
  <2>2. /\ front \in Seq(Parts) /\ Len(front) = n /\ Run(front, r, 0)
        /\ rest \in Seq(Parts) /\ Len(rest) = Len(parts) - n /\ Run(rest, r, 0 + n)
    BY <1>1, <1>3, <2>1, RunSplit
  <2>3. QED
    BY <1>1, <2>1, <2>2
<1> DEFINE m == Headed(front, Asked[r])
<1>6. /\ IsHead(front) /\ front[1][1] = r /\ m \in Incoming /\ PartOf(m, r, Asked[r])
      /\ m.slips = 0 /\ Len(m.body) = n - 1
  <2> HIDE DEF front
  <2>1. Len(front) <= Asked[r] + 1
    BY <1>1, <1>3, <1>4, <1>5
  <2>2. QED
    BY <1>4, <1>5, <2>1, HeadedPart
<1>7. /\ arrived' = [arrived EXCEPT ![k]["server"] = rest]
      /\ request' = [request EXCEPT ![k] = m]
      /\ session' = [session EXCEPT ![k] = IF m.need = 0 THEN "answer" ELSE "body"]
      /\ UNCHANGED <<end, killed, unsent, backlog>>
  BY <1>6 DEF SessionHead, First, Take, Goto, acceptVars
<1> HIDE DEF front, rest, m
<1>8. m.of = r /\ m.body \in Seq(Parts) /\ m.need \in Nat
  BY <1>6 DEF PartOf, Incoming
<1>80. /\ n \in Nat /\ 1 <= n /\ n <= Len(parts) /\ Len(parts) \in Nat /\ Asked[r] \in Nat
       /\ Len(parts) <= Asked[r] + 1 /\ Len(rest) = Len(parts) - n /\ Len(m.body) = n - 1
       /\ Len(rest) \in Nat /\ Len(m.body) \in Nat
  BY <1>1, <1>3, <1>4, <1>5, <1>6
<1>9. m.need = 0 => Intact(m, r, Asked[r]) /\ n = Asked[r] + 1 /\ Len(parts) = n /\ rest = <<>>
  <2> SUFFICES ASSUME m.need = 0
               PROVE  Intact(m, r, Asked[r]) /\ n = Asked[r] + 1 /\ Len(parts) = n /\ rest = <<>>
    OBVIOUS
  <2>1. Intact(m, r, Asked[r]) /\ n - 1 = Asked[r]
    BY <1>4, <1>6, WholeIntact
  <2>2. n = Asked[r] + 1 /\ Len(parts) = n
    BY <1>1, <1>3, <1>4, <2>1
  <2>3. rest = <<>>
    BY <1>1, <1>5, <2>2, EmptySeq
  <2>4. QED
    BY <2>1, <2>2, <2>3
<1>10. FlowTypeOK'
  BY <1>5, <1>6, <1>7 DEF FlowTypeOK, poolVars, HasRequest
<1>11. \A j \in Conns \ {k} : Kept(j)
  BY <1>7 DEF Kept, FlowTypeOK
<1>12. /\ arrived'[k]["server"] = rest /\ arrived'[k]["client"] = arrived[k]["client"]
       /\ request'[k] = m /\ session'[k] = IF m.need = 0 THEN "answer" ELSE "body"
       /\ end'[k] = end[k] /\ unsent'[k] = unsent[k]
  BY <1>7 DEF FlowTypeOK, Sides
<1>13. end[k]["server"] # "closed" /\ end[k]["server"] # "none" /\ end[k]["client"] # "none"
  BY <1>1, <1>2 DEF SessionInv, UnmadeInv, FlowInv
<1>14. SessionInv(k)'
  <2>1. m.slips <= (IF end'[k]["server"] = "shut" THEN MaxSlips + 1 ELSE MaxSlips)
    BY <1>6, LengthAssumption
  <2>2. unsent[k] = <<>>
    BY <1>2 DEF SessionInv
  <2>3. Len(m.body) + 1 = n /\ Len(m.body) + Len(rest) <= Asked[r]
    BY <1>80
  <2>4. QED
    BY <1>5, <1>6, <1>8, <1>9, <1>12, <1>13, <2>1, <2>2, <2>3 DEF SessionInv, SlipsBounded
<1>15. ASSUME NEW c \in Clients, conn[c] = k
       PROVE  ClientInv(c)'
  <2>0. /\ conn'[c] = k /\ Current(c)' = Current(c) /\ pc'[c] = pc[c] /\ outbox'[c] = outbox[c]
        /\ inbox'[c] = inbox[c] /\ IsConnected(k, "client")' = IsConnected(k, "client")
    BY <1>12, <1>15 DEF poolVars, Current, IsConnected
  <2>1. OutboxInv(c)'
    BY <1>15, <2>0, ClientFacts DEF OutboxInv, Is
  <2>2. ~Reads(c, k)
    BY <1>1 DEF Reads
  <2>3. ASSUME Asks(c, k)
        PROVE  Asks(c, k)'
    <3>1. Run(parts, Current(c), 0) /\ Len(parts) + Len(outbox[c]) = Asked[Current(c)] + 1
      BY <1>2, <1>13, <2>3 DEF Asks
    <3>2. Current(c) = r
      BY <1>1, <1>3, <3>1 DEF Run
    <3>3. outbox[c] \in Seq(Parts) /\ Len(outbox[c]) \in Nat /\ Len(parts) + Len(outbox[c]) = Asked[r] + 1
      BY <1>15, <3>1, <3>2, ClientFacts
    <3>4. CASE m.need = 0
      <4>0. Len(outbox[c]) = 0
        <5>1. Len(parts) = Asked[r] + 1
          BY <1>9, <3>4
        <5>2. Len(outbox[c]) \in Nat /\ Len(parts) + Len(outbox[c]) = Asked[r] + 1
          BY <3>3
        <5> HIDE DEF parts
        <5>3. \A x, y, z \in Nat : x = z + 1 /\ x + y = z + 1 => y = 0
          OBVIOUS
        <5>4. QED
          BY <1>80, <5>1, <5>2, <5>3
      <4>1. outbox[c] = <<>>
        BY <3>3, <4>0, EmptySeq
      <4>2. QED
        BY <1>8, <1>12, <2>0, <2>3, <3>2, <3>4, <4>1 DEF Asks
    <3>5. CASE m.need # 0
      <4>1. Len(m.body) + Len(rest) + Len(outbox[c]) = Asked[r]
        <5>2. Len(outbox[c]) \in Nat /\ Len(parts) + Len(outbox[c]) = Asked[r] + 1
          BY <3>3
        <5> HIDE DEF parts
        <5>3. \A y \in Nat : Len(parts) + y = Asked[r] + 1 => Len(m.body) + Len(rest) + y = Asked[r]
          <6>1. \A y, x, z, b, w \in Nat : b = n - 1 /\ w = x - n /\ x + y = z + 1 => b + w + y = z
            BY <1>80
          <6>2. QED
            BY <1>80, <6>1
        <5>4. QED
          BY <5>2, <5>3
      <4>2. QED
        BY <1>8, <1>12, <2>0, <2>3, <3>2, <3>5, <4>1 DEF Asks
    <3>6. QED
      BY <3>4, <3>5
  <2>4. QED
    BY <1>15, <1>12, <2>0, <2>1, <2>2, <2>3, ClientFacts DEF ClientInv, Is
<1>16. \A i \in 1 .. Len(idle) : idle[i] = k => IdleInv(k)'
  BY <1>1 DEF FlowInv, IdleInv, Sides
<1>17. FlowInv'
  BY <1>2, <1>7, <1>11, <1>12, <1>13, <1>14, <1>15, <1>16, SessionFrame
<1>18. QED
  BY <1>10, <1>17

\* What Close() of one side does.
LEMMA CloseEffect ==
  ASSUME FlowTypeOK, PoolTypeOK, NEW k \in Conns, NEW s \in Sides, Close(k, s)
  PROVE  /\ \A j \in Conns \ {k} : arrived'[j] = arrived[j] /\ end'[j] = end[j]
         /\ arrived' \in [Conns -> [Sides -> Seq(Parts)]] /\ UNCHANGED killed
         /\ arrived'[k][s] = <<>> /\ arrived'[k][Peer(s)] = arrived[k][Peer(s)]
         /\ end'[k][s] = IF IsConnected(k, s) THEN "closed" ELSE end[k][s]
         /\ \/ end'[k][Peer(s)] = end[k][Peer(s)]
            \/ end[k][Peer(s)] = "open" /\ end'[k][Peer(s)] = "reset"
<1> USE DEF Close, Hangup, Sides, Peer
<1>1. arrived[k] \in [Sides -> Seq(Parts)] /\ end[k] \in [Sides -> EndStates]
  BY DEF FlowTypeOK, PoolTypeOK
<1>2. end'[k] = IF ~IsConnected(k, s) THEN end[k]
                ELSE [end[k] EXCEPT ![s] = "closed",
                        ![Peer(s)] = IF @ = "open" /\ arrived[k][s] # <<>> THEN "reset" ELSE @]
  OBVIOUS
<1>3. arrived'[k] = [arrived[k] EXCEPT ![s] = <<>>]
  OBVIOUS
<1>4. arrived' \in [Conns -> [Sides -> Seq(Parts)]]
  BY EmptySeq DEF FlowTypeOK
<1>5. \A j \in Conns \ {k} : arrived'[j] = arrived[j] /\ end'[j] = end[j]
  OBVIOUS
<1>6. QED
  BY <1>1, <1>2, <1>3, <1>4, <1>5

LEMMA EndSessionFlow ==
  ASSUME PoolInv, FlowTypeOK, FlowInv, NEW k \in Conns, EndSession(k),
         session[k] \in {"head", "body", "send"}, unsent[k] = <<>>,
         UNCHANGED <<unsent, acceptVars, poolVars>>
  PROVE  FlowTypeOK' /\ FlowInv'
<1>1. end[k]["server"] # "none" /\ end[k]["client"] # "none"
  BY DEF FlowInv, UnmadeInv
<1>2. /\ \A j \in Conns \ {k} : arrived'[j] = arrived[j] /\ end'[j] = end[j]
      /\ arrived' \in [Conns -> [Sides -> Seq(Parts)]]
      /\ arrived'[k]["server"] = <<>> /\ arrived'[k]["client"] = arrived[k]["client"]
      /\ end'[k]["server"] = "closed"
      /\ \/ end'[k]["client"] = end[k]["client"]
         \/ end[k]["client"] = "open" /\ end'[k]["client"] = "reset"
  <2>1. "server" \in Sides /\ Peer("server") = "client" /\ Close(k, "server") /\ PoolTypeOK
    BY DEF Sides, Peer, EndSession, PoolInv
  <2>2. IsConnected(k, "server") \/ end[k]["server"] = "closed"
    BY <1>1, ConnTypes DEF IsConnected, EndStates, PoolInv
  <2>3. QED
    BY <2>1, <2>2, CloseEffect
<1>3. /\ session' = [session EXCEPT ![k] = "ended"] /\ request' = [request EXCEPT ![k] = Nothing]
      /\ UNCHANGED <<unsent, backlog>>
  BY DEF EndSession, Goto, acceptVars
<1>4. FlowTypeOK'
  <2>1. Nothing \in Incoming
    BY EmptySeq DEF Nothing, Incoming
  <2>2. QED
    BY <1>2, <1>3, <2>1 DEF FlowTypeOK, poolVars, HasRequest
<1>5. session'[k] = "ended" /\ unsent'[k] = <<>>
  BY <1>3 DEF FlowTypeOK
<1>6. SessionInv(k)'
  BY <1>2, <1>5 DEF SessionInv
<1>7. \A j \in Conns \ {k} : Kept(j)
  BY <1>2, <1>3 DEF Kept, FlowTypeOK
<1>8. ASSUME NEW c \in Clients, conn[c] = k
      PROVE  ClientInv(c)'
  <2>1. /\ conn'[c] = k /\ Current(c)' = Current(c) /\ pc'[c] = pc[c] /\ outbox'[c] = outbox[c]
        /\ inbox'[c] = inbox[c] /\ Got(c)' = Got(c)
        /\ IsConnected(k, "client") => IsConnected(k, "client")'
        /\ end[k]["client"] = "closed" => end'[k]["client"] = "closed"
    BY <1>2, <1>8 DEF poolVars, Current, IsConnected, Got, Is
  <2>2. OutboxInv(c)'
    BY <1>8, <2>1, ClientFacts DEF OutboxInv, Is
  <2>3. Asks(c, k) => Asks(c, k)'
    BY <1>2, <1>5, <2>1 DEF Asks
  <2>4. Reads(c, k) => Reads(c, k)'
    BY <1>2, <1>3, <1>5, <2>1 DEF Reads, SlipsBounded, Is
  <2>5. QED
    BY <1>8, <2>1, <2>2, <2>3, <2>4, ClientFacts DEF ClientInv, Is
<1>9. ASSUME NEW i \in 1 .. Len(idle), idle[i] = k
      PROVE  IdleInv(k)'
  <2>1. arrived[k]["client"] = <<>> /\ arrived[k] \in [Sides -> Seq(Parts)]
    BY <1>9 DEF FlowInv, IdleInv, Sides, FlowTypeOK
  <2>2. arrived'[k] \in [Sides -> Seq(Parts)] /\ \A s \in Sides : arrived'[k][s] = <<>>
    BY <1>2, <2>1 DEF Sides
  <2>3. QED
    BY <1>5, <2>2 DEF IdleInv
<1>10. FlowInv'
  BY <1>1, <1>2, <1>3, <1>5, <1>6, <1>7, <1>8, <1>9, SessionFrame
<1>11. QED
  BY <1>4, <1>10

LEMMA SessionBodyFlow ==
  ASSUME PoolInv, FlowTypeOK, FlowInv, NEW k \in Conns,
         NEW n \in 1 .. Len(arrived[k]["server"]), SessionBody(k, n), UNCHANGED poolVars
  PROVE  FlowTypeOK' /\ FlowInv'
<1> DEFINE parts == arrived[k]["server"]
           front == SubSeq(parts, 1, n)
           rest == SubSeq(parts, n + 1, Len(parts))
           r == request[k].of
           b == request[k].body
<1>1. /\ parts \in Seq(Parts) /\ Len(parts) \in Nat /\ parts # <<>> /\ n \in Nat /\ n <= Len(parts)
      /\ n >= 1 /\ request[k] \in Incoming /\ b \in Seq(Parts) /\ Len(b) \in Nat
  BY ConnTypes DEF PoolInv, Incoming
<1>2. session[k] = "body" /\ SessionInv(k)
  BY DEF SessionBody, At, FlowInv
<1>3. /\ r \in Requests /\ PartOf(request[k], r, Asked[r]) /\ SlipsBounded(request[k], k, "server")
      /\ Run(parts, r, Len(b) + 1) /\ Len(b) + Len(parts) <= Asked[r]
  BY <1>2 DEF SessionInv
<1>4. Asked[r] \in Nat
  BY <1>3, BodyAssumption
<1>5. /\ front \in Seq(Parts) /\ Len(front) = n /\ Run(front, r, Len(b) + 1)
      /\ rest \in Seq(Parts) /\ Len(rest) = Len(parts) - n /\ Run(rest, r, Len(b) + 1 + n)
  <2>1. Len(b) + 1 \in Nat
    BY <1>1
  <2> HIDE DEF parts, r, b
  <2>2. QED
    BY <1>1, <1>3, <2>1, RunSplit
<1> DEFINE m == Extended(request[k], front)
<1>6. /\ m \in Incoming /\ PartOf(m, r, Asked[r]) /\ m.slips = request[k].slips
      /\ Len(m.body) = Len(b) + n
  <2> HIDE DEF front
  <2>1. Len(b) + Len(front) <= Asked[r]
    <3>1. \A x, y, z \in Nat : x + y <= z /\ n <= y => x + n <= z
      BY <1>1
    <3>2. QED
      BY <1>1, <1>3, <1>4, <1>5, <3>1
  <2>2. QED
    BY <1>1, <1>3, <1>4, <1>5, <2>1, ExtendedPart
<1>7. /\ arrived' = [arrived EXCEPT ![k]["server"] = rest]
      /\ request' = [request EXCEPT ![k] = m]
      /\ session' = [session EXCEPT ![k] = IF m.need = 0 THEN "answer" ELSE "body"]
      /\ UNCHANGED <<end, killed, unsent, backlog>>
  BY DEF SessionBody, First, Take, Goto, acceptVars, FlowTypeOK
<1> HIDE DEF front, rest, m, r, b
<1>8. m.of = r /\ m.body \in Seq(Parts) /\ m.need \in Nat
  BY <1>6 DEF PartOf, Incoming
<1>80. /\ n \in Nat /\ 1 <= n /\ n <= Len(parts) /\ Len(parts) \in Nat /\ Asked[r] \in Nat
       /\ Len(b) \in Nat /\ Len(rest) \in Nat /\ Len(m.body) \in Nat
       /\ Len(b) + Len(parts) <= Asked[r] /\ Len(rest) = Len(parts) - n /\ Len(m.body) = Len(b) + n
  <2>1. Len(rest) \in Nat /\ Len(m.body) \in Nat
    BY <1>5, <1>8
  <2> HIDE DEF parts
  <2>2. QED
    BY <1>1, <1>3, <1>4, <1>5, <1>6, <2>1
<1>81. Len(m.body) + Len(rest) = Len(b) + Len(parts) /\ Len(m.body) + 1 = Len(b) + 1 + n
  <2>1. \A x, y \in Nat : (y + n) + (x - n) = y + x /\ (y + n) + 1 = y + 1 + n
    BY <1>1
  <2> HIDE DEF parts
  <2>2. Len(rest) = Len(parts) - n /\ Len(m.body) = Len(b) + n
    BY <1>80
  <2>3. Len(parts) \in Nat /\ Len(b) \in Nat
    BY <1>80
  <2>4. QED
    BY <2>1, <2>2, <2>3
<1>9. m.need = 0 => Intact(m, r, Asked[r]) /\ rest = <<>>
  <2> SUFFICES ASSUME m.need = 0
               PROVE  Intact(m, r, Asked[r]) /\ rest = <<>>
    OBVIOUS
  <2>1. Intact(m, r, Asked[r]) /\ Len(m.body) = Asked[r]
    BY <1>3, <1>4, <1>6, WholeIntact DEF r
  <2>2. Len(rest) = 0
    <3>1. \A x, y, z \in Nat : x + y <= z /\ x = z => y = 0
      OBVIOUS
    <3>2. QED
      BY <1>80, <1>81, <2>1, <3>1
  <2>3. QED
    BY <1>5, <2>1, <2>2, EmptySeq
<1>10. FlowTypeOK'
  BY <1>5, <1>6, <1>7 DEF FlowTypeOK, poolVars, HasRequest
<1>11. \A j \in Conns \ {k} : Kept(j)
  BY <1>7 DEF Kept, FlowTypeOK
<1>12. /\ arrived'[k]["server"] = rest /\ arrived'[k]["client"] = arrived[k]["client"]
       /\ request'[k] = m /\ session'[k] = IF m.need = 0 THEN "answer" ELSE "body"
       /\ end'[k] = end[k] /\ unsent'[k] = unsent[k]
  BY <1>7 DEF FlowTypeOK, Sides
<1>13. end[k]["server"] # "closed" /\ end[k]["server"] # "none" /\ end[k]["client"] # "none"
  BY <1>1, <1>2 DEF SessionInv, UnmadeInv, FlowInv
<1>14. SessionInv(k)'
  <2>1. m.slips <= (IF end'[k]["server"] = "shut" THEN MaxSlips + 1 ELSE MaxSlips)
    BY <1>3, <1>6, <1>12 DEF SlipsBounded
  <2>2. unsent[k] = <<>>
    BY <1>2 DEF SessionInv
  <2>3. Run(rest, r, Len(m.body) + 1) /\ Len(m.body) + Len(rest) <= Asked[r]
    BY <1>5, <1>80, <1>81
  <2>4. r \in Requests
    BY <1>3 DEF r
  <2>5. QED
    BY <1>6, <1>8, <1>9, <1>12, <1>13, <2>1, <2>2, <2>3, <2>4 DEF SessionInv, SlipsBounded
<1>15. ASSUME NEW c \in Clients, conn[c] = k
       PROVE  ClientInv(c)'
  <2>0. /\ conn'[c] = k /\ Current(c)' = Current(c) /\ pc'[c] = pc[c] /\ outbox'[c] = outbox[c]
        /\ inbox'[c] = inbox[c] /\ IsConnected(k, "client")' = IsConnected(k, "client")
    BY <1>12, <1>15 DEF poolVars, Current, IsConnected
  <2>1. OutboxInv(c)'
    BY <1>15, <2>0, ClientFacts DEF OutboxInv, Is
  <2>2. ~Reads(c, k)
    BY <1>1 DEF Reads
  <2>3. ASSUME Asks(c, k)
        PROVE  Asks(c, k)'
    <3>1. r = Current(c) /\ Len(b) + Len(parts) + Len(outbox[c]) = Asked[r]
      BY <1>2, <1>13, <2>3 DEF Asks, r, b
    <3>2. outbox[c] \in Seq(Parts) /\ Len(outbox[c]) \in Nat
      BY <1>15, ClientFacts
    <3>3. Len(m.body) + Len(rest) + Len(outbox[c]) = Asked[r]
      BY <1>81, <3>1
    <3>4. CASE m.need = 0
      <4>1. Len(m.body) = Asked[r]
        BY <1>3, <1>4, <1>6, <3>4, WholeIntact DEF r
      <4>2. Len(outbox[c]) = 0
        <5>1. \A x, y, z \in Nat : x + y + z = x => z = 0
          OBVIOUS
        <5>2. QED
          BY <1>80, <3>2, <3>3, <4>1, <5>1
      <4>3. outbox[c] = <<>>
        BY <3>2, <4>2, EmptySeq
      <4>4. QED
        BY <1>8, <1>12, <2>0, <2>3, <3>1, <3>4, <4>3 DEF Asks
    <3>5. CASE m.need # 0
      BY <1>8, <1>12, <2>0, <2>3, <3>1, <3>3, <3>5 DEF Asks
    <3>6. QED
      BY <3>4, <3>5
  <2>4. QED
    BY <1>15, <1>12, <2>0, <2>1, <2>2, <2>3, ClientFacts DEF ClientInv, Is
<1>16. \A i \in 1 .. Len(idle) : idle[i] = k => IdleInv(k)'
  BY <1>1 DEF FlowInv, IdleInv, Sides
<1>17. FlowInv'
  BY <1>2, <1>7, <1>11, <1>12, <1>13, <1>14, <1>15, <1>16, SessionFrame
<1>18. QED
  BY <1>10, <1>17

LEMMA SessionBodySlipsFlow ==
  ASSUME ShortBodies, PoolInv, FlowTypeOK, FlowInv, NEW k \in Conns, SessionBodySlips(k),
         UNCHANGED poolVars
  PROVE  FlowTypeOK' /\ FlowInv'
<1> DEFINE r == request[k].of
           m == Slipped(request[k])
<1>1. /\ session[k] = "body" /\ SessionInv(k) /\ request[k] \in Incoming
      /\ arrived[k]["server"] = <<>>
  BY DEF SessionBodySlips, At, FlowInv, FlowTypeOK, IsReset, MayTimeOut, Drained
<1>2. /\ r \in Requests /\ PartOf(request[k], r, Asked[r]) /\ SlipsBounded(request[k], k, "server")
      /\ Run(arrived[k]["server"], r, Len(request[k].body) + 1)
      /\ Len(request[k].body) + Len(arrived[k]["server"]) <= Asked[r]
  BY <1>1 DEF SessionInv
<1>3. Asked[r] \in Nat /\ Asked[r] + MaxSlips + 1 < LengthMod
  BY <1>2, BodyAssumption DEF ShortBodies
<1>4. /\ request[k].slips <= MaxSlips
      /\ \/ end[k]["server"] = "reset"
         \/ end[k]["server"] = "open" /\ request[k].slips < MaxSlips
  BY <1>2 DEF SessionBodySlips, IsReset, MayTimeOut, SlipsBounded
<1>5. /\ end' = [end EXCEPT ![k]["server"] = IF @ = "reset" THEN "shut" ELSE @]
      /\ request' = [request EXCEPT ![k] = m]
      /\ UNCHANGED <<arrived, killed, session, unsent, backlog>>
  BY DEF SessionBodySlips, TellError, acceptVars
<1>6. /\ m \in Incoming /\ PartOf(m, r, Asked[r])
      /\ m.slips = request[k].slips + 1 /\ m.body = request[k].body /\ m.of = r
  BY <1>1, <1>2, <1>3, <1>4, SlippedPart
<1> HIDE DEF m, r
<1>7. FlowTypeOK'
  BY <1>5, <1>6 DEF FlowTypeOK, poolVars, HasRequest
<1>8. \A j \in Conns \ {k} : Kept(j)
  BY <1>5 DEF Kept, FlowTypeOK, PoolInv, PoolTypeOK
<1>9. /\ request'[k] = m
      /\ end'[k]["server"] = IF end[k]["server"] = "reset" THEN "shut" ELSE end[k]["server"]
      /\ end'[k]["client"] = end[k]["client"]
  BY <1>5 DEF FlowTypeOK, Sides, PoolInv, PoolTypeOK
<1>10. end'[k]["server"] # "closed" /\ end'[k]["server"] # "none" /\ end'[k]["client"] # "none"
  BY <1>1, <1>4, <1>9 DEF UnmadeInv, FlowInv
<1>11. SessionInv(k)'
  <2>1. m.slips <= (IF end'[k]["server"] = "shut" THEN MaxSlips + 1 ELSE MaxSlips)
    <3>1. request[k].slips \in Nat
      BY <1>1 DEF Incoming
    <3>2. QED
      BY <1>4, <1>6, <1>9, <3>1, LengthAssumption
  <2>2. unsent[k] = <<>>
    BY <1>1 DEF SessionInv
  <2>3. QED
    BY <1>1, <1>2, <1>5, <1>6, <1>9, <1>10, <2>1, <2>2 DEF SessionInv, SlipsBounded
<1>12. ASSUME NEW c \in Clients, conn[c] = k
       PROVE  ClientInv(c)'
  <2>1. /\ conn'[c] = k /\ Current(c)' = Current(c) /\ pc'[c] = pc[c] /\ outbox'[c] = outbox[c]
        /\ inbox'[c] = inbox[c] /\ IsConnected(k, "client")' = IsConnected(k, "client")
    BY <1>9, <1>12 DEF poolVars, Current, IsConnected
  <2>2. OutboxInv(c)'
    BY <1>12, <2>1, ClientFacts DEF OutboxInv, Is
  <2>3. ~Reads(c, k)
    BY <1>1 DEF Reads
  <2>4. Asks(c, k) => Asks(c, k)'
    BY <1>1, <1>4, <1>5, <1>6, <1>9, <2>1 DEF Asks, r
  <2>5. QED
    BY <1>9, <1>12, <2>1, <2>2, <2>3, <2>4, ClientFacts DEF ClientInv, Is
<1>13. \A i \in 1 .. Len(idle) : idle[i] = k => IdleInv(k)'
  BY <1>1 DEF FlowInv, IdleInv
<1>14. FlowInv'
  BY <1>1, <1>5, <1>8, <1>10, <1>11, <1>12, <1>13, SessionFrame
<1>15. QED
  BY <1>7, <1>14

LEMMA AnswerFlow ==
  ASSUME PoolInv, FlowTypeOK, FlowInv, NEW k \in Conns, Answer(k), UNCHANGED poolVars
  PROVE  FlowTypeOK' /\ FlowInv'
<1> DEFINE r == request[k].of
<1>1. session[k] = "answer" /\ SessionInv(k)
  BY DEF Answer, At, FlowInv
<1>2. r \in Requests /\ arrived[k]["server"] = <<>> /\ unsent[k] = <<>> /\ end[k]["server"] # "closed"
  BY <1>1 DEF SessionInv
<1> DEFINE m == Message(r, Answered[r])
<1>3. Answered[r] \in Nat /\ m \in Seq(Parts) /\ Len(m) = Answered[r] + 1 /\ Run(m, r, 0)
  BY <1>2, BodyAssumption, MessageRun
<1>4. /\ unsent' = [unsent EXCEPT ![k] = m] /\ request' = [request EXCEPT ![k] = Nothing]
      /\ session' = [session EXCEPT ![k] = "send"]
      /\ UNCHANGED <<arrived, end, killed, backlog>>
  BY DEF Answer, Goto, acceptVars, netVars
<1> HIDE DEF r, m
<1>5. FlowTypeOK'
  <2>1. Nothing \in Incoming
    BY EmptySeq DEF Nothing, Incoming
  <2>2. QED
    BY <1>3, <1>4, <2>1 DEF FlowTypeOK, poolVars, HasRequest
<1>6. unsent'[k] = m /\ session'[k] = "send"
  BY <1>4 DEF FlowTypeOK
<1>7. \A j \in Conns \ {k} : Kept(j)
  BY <1>4 DEF Kept, FlowTypeOK
<1>8. end[k]["server"] # "none" /\ end[k]["client"] # "none"
  BY <1>1 DEF UnmadeInv, FlowInv
<1>9. SessionInv(k)'
  BY <1>2, <1>4, <1>6 DEF SessionInv
<1>10. ASSUME NEW c \in Clients, conn[c] = k
       PROVE  ClientInv(c)'
  <2>1. /\ conn'[c] = k /\ Current(c)' = Current(c) /\ pc'[c] = pc[c] /\ outbox'[c] = outbox[c]
        /\ inbox'[c] = inbox[c] /\ Got(c)' = Got(c) /\ IsConnected(k, "client")' = IsConnected(k, "client")
    BY <1>4, <1>10 DEF poolVars, Current, IsConnected, Got, Is
  <2>2. OutboxInv(c)'
    BY <1>10, <2>1, ClientFacts DEF OutboxInv, Is
  <2>3. ~Reads(c, k)
    BY <1>1 DEF Reads
  <2>4. Asks(c, k) => Reads(c, k)'
    <3> SUFFICES ASSUME Asks(c, k)
                 PROVE  Reads(c, k)'
      OBVIOUS
    <3>1. Current(c) = r /\ outbox[c] = <<>> /\ arrived[k]["client"] = <<>> /\ pc[c] \in {"send", "head"}
      BY <1>1, <1>2 DEF Asks, r
    <3>2. pc[c] = "head"
      BY <1>10, <3>1, ClientFacts DEF OutboxInv, Is
    <3>3. Got(c) = 0 /\ Len(arrived[k]["client"]) = 0
      BY <3>1, <3>2 DEF Got, Is
    <3>4. Run(arrived[k]["client"], r, 0)
      BY <3>1, RunEmpty
    <3>5. QED
      BY <1>2, <1>3, <1>4, <1>6, <2>1, <3>1, <3>2, <3>3, <3>4 DEF Reads, Is
  <2>5. QED
    BY <1>4, <1>10, <2>1, <2>2, <2>3, <2>4, ClientFacts DEF ClientInv, Is
<1>11. \A i \in 1 .. Len(idle) : idle[i] = k => IdleInv(k)'
  BY <1>1 DEF FlowInv, IdleInv
<1>12. FlowInv'
  BY <1>1, <1>4, <1>6, <1>7, <1>8, <1>9, <1>10, <1>11, SessionFrame
<1>13. QED
  BY <1>5, <1>12

\* What Send() does in a process that goes on.
LEMMA SendEffect ==
  ASSUME FlowTypeOK, PoolTypeOK, NEW k \in Conns, NEW s \in Sides, NEW t, t = Peer(s), NEW p \in Seq(Parts),
         Send(k, s, p), Alive
  PROVE  /\ arrived' \in [Conns -> [Sides -> Seq(Parts)]]
         /\ \A j \in Conns \ {k} : arrived'[j] = arrived[j] /\ end'[j] = end[j]
         /\ arrived'[k][s] = arrived[k][s] /\ end'[k][t] = end[k][t]
         /\ Alive' => /\ end[k][s] = "open"
                      /\ IF IsConnected(k, t)
                         THEN /\ arrived'[k][t] = arrived[k][t] \o p
                              /\ end'[k][s] = end[k][s]
                         ELSE arrived'[k][t] = arrived[k][t] /\ end'[k][s] = "reset"
<1> USE DEF Peer, Sides, Alive
<1>1. arrived \in [Conns -> [Sides -> Seq(Parts)]] /\ end \in [Conns -> [Sides -> EndStates]]
  BY DEF FlowTypeOK, PoolTypeOK
<1>2. CASE end[k][s] # "open"
  <2>1. UNCHANGED <<arrived, end>> /\ killed' = s
    BY <1>2 DEF Send
  <2>2. QED
    BY <1>1, <2>1
<1>3. CASE end[k][s] = "open" /\ IsConnected(k, Peer(s))
  <2>1. arrived' = [arrived EXCEPT ![k][Peer(s)] = @ \o p] /\ UNCHANGED end
    BY <1>3 DEF Send
  <2>2. arrived[k][Peer(s)] \o p \in Seq(Parts)
    BY <1>1, ConcatProperties
  <2>3. QED
    BY <1>1, <1>3, <2>1, <2>2
<1>4. CASE end[k][s] = "open" /\ ~IsConnected(k, Peer(s))
  <2>1. end' = [end EXCEPT ![k][s] = "reset"] /\ UNCHANGED arrived
    BY <1>4 DEF Send
  <2>2. QED
    BY <1>1, <1>4, <2>1
<1>5. QED
  BY <1>2, <1>3, <1>4

LEMMA SessionSendFlow ==
  ASSUME PoolInv, FlowTypeOK, FlowInv, Alive, NEW k \in Conns, NEW n \in 1 .. Len(unsent[k]),
         SessionSend(k, n), UNCHANGED poolVars
  PROVE  FlowTypeOK' /\ (Alive' => FlowInv')
<1> DEFINE front == SubSeq(unsent[k], 1, n)
           rest == SubSeq(unsent[k], n + 1, Len(unsent[k]))
<1>1. /\ session[k] = "send" /\ SessionInv(k) /\ unsent[k] \in Seq(Parts) /\ Len(unsent[k]) \in Nat
      /\ unsent[k] # <<>> /\ n \in Nat /\ 1 <= n /\ n <= Len(unsent[k])
  BY ConnTypes DEF SessionSend, At, FlowInv, PoolInv
<1>2. ASSUME NEW r, NEW x \in Nat, Run(unsent[k], r, x)
      PROVE  Run(front, r, x) /\ Run(rest, r, x + n)
  BY <1>1, <1>2, RunSplit
<1>3. front \in Seq(Parts) /\ Len(front) = n /\ rest \in Seq(Parts) /\ Len(rest) = Len(unsent[k]) - n
  BY <1>1, SubSeqProperties
<1>4. /\ Send(k, "server", front) /\ unsent' = [unsent EXCEPT ![k] = rest]
      /\ UNCHANGED <<session, request, backlog>>
  BY DEF SessionSend, acceptVars, FlowTypeOK
<1> HIDE DEF front, rest
<1>5. /\ arrived' \in [Conns -> [Sides -> Seq(Parts)]]
      /\ \A j \in Conns \ {k} : arrived'[j] = arrived[j] /\ end'[j] = end[j]
      /\ arrived'[k]["server"] = arrived[k]["server"] /\ end'[k]["client"] = end[k]["client"]
      /\ Alive' => /\ end[k]["server"] = "open"
                   /\ IF IsConnected(k, "client")
                      THEN /\ arrived'[k]["client"] = arrived[k]["client"] \o front
                           /\ end'[k]["server"] = end[k]["server"]
                      ELSE /\ arrived'[k]["client"] = arrived[k]["client"]
                           /\ end'[k]["server"] = "reset"
  <2>1. "server" \in Sides /\ "client" = Peer("server") /\ PoolTypeOK
    BY DEF Sides, Peer, PoolInv
  <2>2. front \in Seq(Parts) /\ Send(k, "server", front)
    BY <1>3, <1>4
  <2>3. QED
    BY <2>1, <2>2, SendEffect
<1>6. FlowTypeOK'
  BY <1>3, <1>4, <1>5 DEF FlowTypeOK, poolVars, HasRequest
<1>7. unsent'[k] = rest /\ \A j \in Conns \ {k} : Kept(j)
  BY <1>4, <1>5 DEF Kept, FlowTypeOK
<1> SUFFICES ASSUME Alive'
             PROVE  FlowInv'
  BY <1>6
<1>8. /\ end[k]["server"] # "none" /\ end[k]["client"] # "none"
      /\ end'[k]["server"] \notin {"none", "closed"} /\ end'[k]["client"] # "none"
  BY <1>1, <1>5 DEF UnmadeInv, FlowInv
<1>9. SessionInv(k)'
  BY <1>1, <1>4, <1>5, <1>8 DEF SessionInv
<1>10. ASSUME NEW c \in Clients, conn[c] = k
       PROVE  ClientInv(c)'
  <2>1. /\ conn'[c] = k /\ Current(c)' = Current(c) /\ pc'[c] = pc[c] /\ outbox'[c] = outbox[c]
        /\ inbox'[c] = inbox[c] /\ Got(c)' = Got(c) /\ IsConnected(k, "client")' = IsConnected(k, "client")
    BY <1>5, <1>10 DEF poolVars, Current, IsConnected, Got, Is
  <2>2. OutboxInv(c)'
    BY <1>10, <2>1, ClientFacts DEF OutboxInv, Is
  <2>3. ~Asks(c, k)
    BY <1>1 DEF Asks
  <2>4. ASSUME Reads(c, k), IsConnected(k, "client")
        PROVE  Reads(c, k)'
    <3> DEFINE a == arrived[k]["client"]
               r == Current(c)
    <3>1. /\ a \in Seq(Parts) /\ Len(a) \in Nat /\ Got(c) \in Nat /\ Answered[r] \in Nat
          /\ Len(rest) \in Nat /\ Got(c) + Len(a) \in Nat
      <4>1. a \in Seq(Parts) /\ Len(a) \in Nat
        BY ConnTypes DEF PoolInv
      <4>2. Got(c) \in Nat /\ Answered[r] \in Nat
        BY <1>10, ClientFacts
      <4>3. Len(rest) \in Nat
        BY <1>3
      <4> HIDE DEF a, r
      <4>4. QED
        BY <4>1, <4>2, <4>3
    <3>2. /\ Run(a, r, Got(c)) /\ Run(unsent[k], r, Got(c) + Len(a))
          /\ Got(c) + Len(a) + Len(unsent[k]) = Answered[r] + 1
      BY <2>4 DEF Reads
    <3>3. Run(front, r, Got(c) + Len(a)) /\ Run(rest, r, Got(c) + Len(a) + n)
      BY <1>2, <3>1, <3>2
    <3>4. Len(a \o front) = Len(a) + n /\ Run(a \o front, r, Got(c))
      BY <1>3, <3>1, <3>2, <3>3, RunConcat
    <3>5. arrived'[k]["client"] = a \o front
      BY <1>5, <2>4
    <3> HIDE DEF a, r
    <3>6. /\ Got(c) + (Len(a) + n) = Got(c) + Len(a) + n
          /\ Got(c) + (Len(a) + n) + Len(rest) = Answered[r] + 1
      <4>1. \A x, y, z \in Nat : /\ x + (y + n) = x + y + n
                                 /\ n <= z => x + (y + n) + (z - n) = x + y + z
        BY <1>1
      <4>2. Len(rest) = Len(unsent[k]) - n /\ n <= Len(unsent[k]) /\ Len(unsent[k]) \in Nat
        BY <1>1, <1>3
      <4>3. QED
        BY <3>1, <3>2, <4>1, <4>2
    <3>7. Run(arrived'[k]["client"], r, Got(c)) /\ Run(rest, r, Got(c) + Len(arrived'[k]["client"]))
      BY <3>3, <3>4, <3>5, <3>6
    <3>8. Got(c) + Len(arrived'[k]["client"]) + Len(rest) = Answered[r] + 1
      BY <3>4, <3>5, <3>6
    <3>9. QED
      BY <1>1, <1>4, <1>5, <1>7, <2>1, <2>4, <3>7, <3>8 DEF Reads, SlipsBounded, r, Is
  <2>5. QED
    BY <1>5, <1>10, <2>1, <2>2, <2>3, <2>4, ClientFacts DEF ClientInv, Is
<1>11. \A i \in 1 .. Len(idle) : idle[i] = k => IdleInv(k)'
  BY <1>1 DEF FlowInv, IdleInv
<1>12. session[k] # "none" /\ session'[k] # "none"
  BY <1>1, <1>4
<1>13. QED
  BY <1>4, <1>7, <1>8, <1>9, <1>10, <1>11, <1>12, SessionFrame

\* The loop of handleClient() goes on.
LEMMA NextRequestFlow ==
  ASSUME PoolInv, FlowTypeOK, FlowInv, NEW k \in Conns, session[k] = "send", unsent[k] = <<>>,
         session' = [session EXCEPT ![k] = "head"],
         UNCHANGED <<netVars, request, unsent, acceptVars, poolVars>>
  PROVE  FlowTypeOK' /\ FlowInv'
<1> USE DEF netVars, acceptVars
<1>1. FlowTypeOK'
  BY DEF FlowTypeOK, poolVars, HasRequest
<1>2. session'[k] = "head" /\ \A j \in Conns \ {k} : Kept(j)
  BY DEF FlowTypeOK, Kept
<1>3. SessionInv(k) /\ end[k]["server"] # "none" /\ end[k]["client"] # "none"
  BY DEF FlowInv, UnmadeInv
<1>4. SessionInv(k)'
  BY <1>2, <1>3 DEF SessionInv
<1>5. ASSUME NEW c \in Clients, conn[c] = k
      PROVE  ClientInv(c)'
  <2>1. /\ conn'[c] = k /\ Current(c)' = Current(c) /\ pc'[c] = pc[c] /\ outbox'[c] = outbox[c]
        /\ inbox'[c] = inbox[c] /\ Got(c)' = Got(c) /\ IsConnected(k, "client")' = IsConnected(k, "client")
    BY <1>5 DEF poolVars, Current, IsConnected, Got, Is
  <2>2. OutboxInv(c)'
    BY <1>5, <2>1, ClientFacts DEF OutboxInv, Is
  <2>3. Asks(c, k) => Asks(c, k)'
    BY <1>2, <2>1 DEF Asks
  <2>4. Reads(c, k) => Reads(c, k)'
    BY <1>2, <2>1 DEF Reads, SlipsBounded, Is
  <2>5. QED
    BY <1>5, <2>1, <2>2, <2>3, <2>4, ClientFacts DEF ClientInv, Is
<1>6. \A i \in 1 .. Len(idle) : idle[i] = k => IdleInv(k)'
  BY <1>2 DEF FlowInv, IdleInv
<1>7. FlowInv'
  BY <1>2, <1>3, <1>4, <1>5, <1>6, SessionFrame
<1>8. QED
  BY <1>1, <1>7

\* A step that leaves connections and clients alone.
LEMMA QuietFlow ==
  ASSUME PoolInv, FlowTypeOK, FlowInv, UNCHANGED <<netVars, sessionVars, backlog, poolVars>>
  PROVE  FlowTypeOK' /\ FlowInv'
<1> USE DEF netVars, sessionVars, poolVars
<1>1. FlowTypeOK'
  BY DEF FlowTypeOK, HasRequest
<1>2. \A k \in Conns : Kept(k)
  BY DEF Kept
<1>3. \A c \in Clients : KeptClient(c)
  BY DEF KeptClient
<1>4. \A k \in Conns : SessionInv(k)' /\ UnmadeInv(k)'
  BY <1>2, KeptSession DEF FlowInv
<1>5. ASSUME NEW c \in Clients
      PROVE  ClientInv(c)'
  <2>1. conn[c] # NoConn => Kept(conn[c])
    BY <1>2 DEF PoolInv, PoolTypeOK
  <2>2. QED
    BY <1>3, <2>1, KeptHolder DEF FlowInv
<1>6. \A i \in 1 .. Len(idle) : IdleInv(idle[i])'
  BY DEF FlowInv, IdleInv
<1>7. BacklogInv'
  BY KeptBacklog DEF FlowInv
<1>8. QED
  BY <1>1, <1>4, <1>5, <1>6, <1>7 DEF FlowInv

LEMMA AcceptFlow ==
  ASSUME PoolInv, FlowTypeOK, FlowInv, NEW a \in Loops, Accept(a), UNCHANGED poolVars
  PROVE  FlowTypeOK' /\ FlowInv'
<1> USE DEF netVars
<1> DEFINE l == a[1]
           q == backlog[l]
<1>1. l \in Listeners /\ q \in Seq(Conns) /\ q # <<>> /\ Len(q) \in Nat \ {0}
  BY DEF Loops, FlowTypeOK, Accept
<1>20. PICK k \in Conns : k = Head(q)
  BY <1>1, HeadTailProperties
<1>2. /\ k \in Conns /\ k = q[1] /\ 1 \in 1 .. Len(q) /\ Tail(q) \in Seq(Conns)
      /\ Len(Tail(q)) = Len(q) - 1
      /\ \A i \in 1 .. Len(Tail(q)) : Tail(q)[i] = q[i + 1] /\ i + 1 \in 1 .. Len(q)
  BY <1>1, <1>20, HeadTailProperties
<1>3. /\ backlog' = [backlog EXCEPT ![l] = Tail(q)] /\ session' = [session EXCEPT ![k] = "head"]
      /\ UNCHANGED <<arrived, end, killed, request, unsent>>
  BY <1>20 DEF Accept
<1>4. session[k] = "none" /\ end[k]["client"] # "none" /\ end[k]["server"] # "none"
  BY <1>1, <1>2 DEF FlowInv, BacklogInv, UnmadeInv
<1>5. /\ \A b \in Listeners : backlog'[b] = IF b = l THEN Tail(q) ELSE backlog[b]
      /\ \A j \in Conns : session'[j] = IF j = k THEN "head" ELSE session[j]
  BY <1>1, <1>2, <1>3 DEF FlowTypeOK
<1>6. FlowTypeOK'
  BY <1>1, <1>2, <1>3 DEF FlowTypeOK, poolVars, HasRequest
<1>7. ASSUME NEW b \in Listeners, NEW i \in 1 .. Len(backlog'[b])
      PROVE  /\ backlog'[b][i] \in Conns /\ backlog'[b][i] # k
             /\ \E j \in 1 .. Len(backlog[b]) : backlog'[b][i] = backlog[b][j] /\ j = IF b = l THEN i + 1 ELSE i
  <2>1. CASE b = l
    <3>1. i \in 1 .. Len(Tail(q)) /\ backlog'[b][i] = q[i + 1] /\ i + 1 \in 1 .. Len(q)
      BY <1>2, <1>5, <1>7, <2>1
    <3>2. q[i + 1] # q[1]
      BY <1>1, <1>2, <3>1 DEF FlowInv, BacklogInv
    <3>3. q[i + 1] \in Conns
      BY <1>1, <3>1, ElementOfSeq
    <3>4. QED
      BY <1>2, <2>1, <3>1, <3>2, <3>3
  <2>2. CASE b # l
    <3>1. i \in 1 .. Len(backlog[b]) /\ backlog'[b][i] = backlog[b][i] /\ backlog[b] \in Seq(Conns)
      BY <1>5, <1>7, <2>2 DEF FlowTypeOK
    <3>2. backlog[b][i] # q[1]
      BY <1>1, <1>2, <2>2, <3>1 DEF FlowInv, BacklogInv
    <3>3. QED
      BY <1>2, <2>2, <3>1, <3>2, ElementOfSeq
  <2>3. QED
    BY <2>1, <2>2
<1> HIDE DEF q, l
<1>8. BacklogInv'
  <2> SUFFICES ASSUME NEW b \in Listeners, NEW d \in Listeners,
                      NEW i \in 1 .. Len(backlog'[b]), NEW j \in 1 .. Len(backlog'[d])
               PROVE  /\ session'[backlog'[b][i]] = "none" /\ end'[backlog'[b][i]]["client"] # "none"
                      /\ backlog'[b][i] = backlog'[d][j] => b = d /\ i = j
    BY DEF BacklogInv
  <2>1. PICK x \in 1 .. Len(backlog[b]) : backlog'[b][i] = backlog[b][x] /\ x = IF b = l THEN i + 1 ELSE i
    BY <1>7
  <2>2. PICK y \in 1 .. Len(backlog[d]) : backlog'[d][j] = backlog[d][y] /\ y = IF d = l THEN j + 1 ELSE j
    BY <1>7
  <2>3. backlog'[b][i] \in Conns /\ backlog'[b][i] # k
    BY <1>7
  <2>4. /\ session[backlog[b][x]] = "none" /\ end[backlog[b][x]]["client"] # "none"
        /\ backlog[b][x] = backlog[d][y] => b = d /\ x = y
    BY DEF FlowInv, BacklogInv
  <2>5. b = d /\ x = y => i = j
    BY <2>1, <2>2
  <2>6. QED
    BY <1>3, <1>5, <2>1, <2>2, <2>3, <2>4, <2>5
<1>9. \A j \in Conns \ {k} : Kept(j)
  BY <1>3, <1>5 DEF Kept
<1>10. session'[k] = "head" /\ SessionInv(k) /\ UnmadeInv(k)
  BY <1>2, <1>5 DEF FlowInv
<1>11. SessionInv(k)' /\ UnmadeInv(k)'
  <2>1. SessionInv(k)'
    BY <1>3, <1>4, <1>10 DEF SessionInv
  <2>2. QED
    BY <1>3, <1>4, <1>10, <2>1 DEF UnmadeInv
<1>12. ASSUME NEW j \in Conns
       PROVE  SessionInv(j)' /\ UnmadeInv(j)'
  <2>1. CASE j = k
    BY <1>11, <2>1
  <2>2. CASE j # k
    BY <1>9, <2>2, KeptSession DEF FlowInv
  <2>3. QED
    BY <2>1, <2>2
<1>13. ASSUME NEW c \in Clients
       PROVE  ClientInv(c)'
  <2>0. KeptClient(c) /\ ClientInv(c)
    BY DEF KeptClient, poolVars, FlowInv
  <2>1. CASE conn[c] = k
    <3>1. /\ conn'[c] = conn[c] /\ Current(c)' = Current(c) /\ pc'[c] = pc[c] /\ outbox'[c] = outbox[c]
          /\ inbox'[c] = inbox[c] /\ Got(c)' = Got(c)
          /\ IsConnected(conn[c], "client")' = IsConnected(conn[c], "client")
      BY <1>3 DEF poolVars, Current, IsConnected, Got, Is
    <3>2. OutboxInv(c)'
      BY <1>2, <2>1, <3>1, ClientFacts DEF OutboxInv, Is
    <3>3. Asks(c, conn[c]) => Asks(c, conn[c])'
      BY <1>3, <1>4, <1>10, <2>1, <3>1 DEF Asks
    <3>4. ~Reads(c, conn[c])
      BY <1>4, <2>1 DEF Reads
    <3>5. QED
      BY <1>2, <1>3, <2>1, <3>1, <3>2, <3>3, <3>4, ClientFacts DEF ClientInv, Is
  <2>2. CASE conn[c] # k
    <3>1. conn[c] # NoConn => Kept(conn[c])
      BY <1>9, <2>2 DEF PoolInv, PoolTypeOK
    <3>2. QED
      BY <2>0, <3>1, KeptHolder
  <2>3. QED
    BY <2>1, <2>2
<1>14. ASSUME NEW i \in 1 .. Len(idle)
       PROVE  IdleInv(idle[i])'
  <2>1. PICK j \in Conns : j = idle[i] /\ IdleInv(j)
    BY IdleMembers DEF PoolInv, FlowInv
  <2>2. j # k
    BY <1>4, <2>1 DEF IdleInv
  <2>3. IdleInv(j)'
    BY <1>9, <2>1, <2>2, KeptSession
  <2>4. QED
    BY <2>1, <2>3 DEF IdleInv, poolVars
<1>15. idle' = idle
  BY DEF poolVars
<1>16. QED
  BY <1>6, <1>8, <1>12, <1>13, <1>14, <1>15 DEF FlowInv

\* The connections that wait when the sockets are closed have no session; the server closes them.
LEMMA CloseSocketsFlow ==
  ASSUME PoolInv, FlowTypeOK, FlowInv, SocketsBound, CloseSockets, UNCHANGED poolVars
  PROVE  FlowTypeOK' /\ FlowInv'
<1> DEFINE W == UNION {{backlog[l][i] : i \in DOMAIN backlog[l]} : l \in sockets}
           Dropped(k) ==
             /\ arrived'[k]["server"] = <<>> /\ arrived'[k]["client"] = arrived[k]["client"]
             /\ end'[k]["server"] = "closed"
             /\ \/ end'[k]["client"] = end[k]["client"]
                \/ end[k]["client"] = "open" /\ end'[k]["client"] = "reset"
             /\ session[k] = "none" /\ end[k]["client"] # "none"
             /\ session'[k] = session[k] /\ request'[k] = request[k] /\ unsent'[k] = unsent[k]
<1>1. \A k \in Conns : arrived[k] \in [Sides -> Seq(Parts)] /\ end[k] \in [Sides -> EndStates]
  BY DEF FlowTypeOK, PoolInv, PoolTypeOK
<1>2. /\ end' = [k \in Conns |->
                   IF k \in W
                   THEN [end[k] EXCEPT !["server"] = "closed",
                                       !["client"] = IF @ = "open" THEN "reset" ELSE @]
                   ELSE end[k]]
      /\ arrived' = [k \in Conns |-> IF k \in W THEN [arrived[k] EXCEPT !["server"] = <<>>]
                                     ELSE arrived[k]]
      /\ backlog' = [l \in Listeners |-> IF l \in sockets THEN <<>> ELSE backlog[l]]
      /\ UNCHANGED <<session, request, unsent>>
  BY DEF CloseSockets, sessionVars
<1>3. ASSUME NEW k \in Conns, k \in W
      PROVE  Dropped(k)
  <2>1. PICK l \in sockets : \E i \in DOMAIN backlog[l] : k = backlog[l][i]
    BY <1>3
  <2>2. backlog[l] \in Seq(Conns) /\ l \in Listeners
    BY DEF FlowTypeOK, SocketsBound
  <2>3. PICK i \in 1 .. Len(backlog[l]) : k = backlog[l][i]
    BY <2>1, <2>2
  <2>4. session[k] = "none" /\ end[k]["client"] # "none"
    BY <2>2, <2>3 DEF FlowInv, BacklogInv
  <2> HIDE DEF W
  <2>5. /\ end'[k] = [end[k] EXCEPT !["server"] = "closed",
                                    !["client"] = IF @ = "open" THEN "reset" ELSE @]
        /\ arrived'[k] = [arrived[k] EXCEPT !["server"] = <<>>]
    BY <1>2, <1>3
  <2>6. QED
    BY <1>1, <1>2, <2>4, <2>5 DEF Sides
<1>4. ASSUME NEW k \in Conns, k \notin W
      PROVE  Kept(k)
  <2> HIDE DEF W
  <2>1. QED
    BY <1>2, <1>4 DEF Kept
<1>5. FlowTypeOK'
  <2>1. arrived' \in [Conns -> [Sides -> Seq(Parts)]]
    BY <1>1, <1>2, EmptySeq
  <2>2. backlog' \in [Listeners -> Seq(Conns)]
    BY <1>2, EmptySeq DEF FlowTypeOK
  <2>3. QED
    BY <1>2, <2>1, <2>2 DEF FlowTypeOK, poolVars, HasRequest
<1> HIDE DEF W, Dropped
<1>6. ASSUME NEW k \in Conns
      PROVE  SessionInv(k)' /\ UnmadeInv(k)'
  <2>1. CASE k \in W
    <3>1. SessionInv(k) /\ UnmadeInv(k)
      BY DEF FlowInv
    <3>2. SessionInv(k)'
      BY <1>3, <2>1, <3>1 DEF SessionInv, Dropped
    <3>3. UnmadeInv(k)'
      BY <1>3, <2>1, <3>1 DEF UnmadeInv, Dropped
    <3>4. QED
      BY <3>2, <3>3
  <2>2. CASE k \notin W
    BY <1>4, <2>2, KeptSession DEF FlowInv
  <2>3. QED
    BY <2>1, <2>2
<1>7. ASSUME NEW c \in Clients
      PROVE  ClientInv(c)'
  <2>0. KeptClient(c) /\ ClientInv(c)
    BY DEF KeptClient, poolVars, FlowInv
  <2>1. ASSUME NEW k \in Conns, conn[c] = k, k \in W
        PROVE  ClientInv(c)'
    <3>0. Dropped(k)
      BY <1>3, <2>1
    <3>1. /\ conn'[c] = k /\ Current(c)' = Current(c) /\ pc'[c] = pc[c] /\ outbox'[c] = outbox[c]
          /\ inbox'[c] = inbox[c] /\ Got(c)' = Got(c)
          /\ IsConnected(k, "client") => IsConnected(k, "client")'
          /\ end[k]["client"] = "closed" => end'[k]["client"] = "closed"
      BY <2>1, <3>0 DEF poolVars, Current, IsConnected, Got, Is, Dropped
    <3>2. OutboxInv(c)'
      BY <2>1, <3>1, ClientFacts DEF OutboxInv, Is
    <3>3. Asks(c, k) => Asks(c, k)'
      BY <3>0, <3>1 DEF Asks, Dropped
    <3>4. ~Reads(c, k)
      BY <3>0 DEF Reads, Dropped
    <3>5. QED
      BY <2>1, <3>0, <3>1, <3>2, <3>3, <3>4, ClientFacts DEF ClientInv, Is, Dropped
  <2>2. ASSUME conn[c] # NoConn => conn[c] \notin W
        PROVE  ClientInv(c)'
    <3>1. conn[c] # NoConn => Kept(conn[c])
      BY <1>4, <2>2 DEF PoolInv, PoolTypeOK
    <3>2. QED
      BY <2>0, <3>1, KeptHolder
  <2>3. conn[c] \in Conns \/ conn[c] = NoConn
    BY DEF PoolInv, PoolTypeOK
  <2>4. QED
    BY <2>1, <2>2, <2>3
<1>8. ASSUME NEW i \in 1 .. Len(idle)
      PROVE  IdleInv(idle[i])'
  <2>1. PICK j \in Conns : j = idle[i] /\ IdleInv(j)
    BY IdleMembers DEF PoolInv, FlowInv
  <2>2. j \notin W
    BY <1>3, <2>1 DEF IdleInv, Dropped
  <2>3. IdleInv(j)'
    BY <1>4, <2>1, <2>2, KeptSession
  <2>4. QED
    BY <2>1, <2>3 DEF IdleInv, poolVars
<1>9. BacklogInv'
  <2> SUFFICES ASSUME NEW b \in Listeners, NEW d \in Listeners,
                      NEW i \in 1 .. Len(backlog'[b]), NEW j \in 1 .. Len(backlog'[d])
               PROVE  /\ session'[backlog'[b][i]] = "none" /\ end'[backlog'[b][i]]["client"] # "none"
                      /\ backlog'[b][i] = backlog'[d][j] => b = d /\ i = j
    BY DEF BacklogInv
  <2>1. backlog'[b] = backlog[b] /\ backlog'[d] = backlog[d] /\ backlog[b] \in Seq(Conns)
    BY <1>2 DEF FlowTypeOK
  <2>2. PICK k \in Conns : k = backlog[b][i]
    BY <2>1, ElementOfSeq
  <2>3. /\ session[k] = "none" /\ end[k]["client"] # "none"
        /\ backlog[b][i] = backlog[d][j] => b = d /\ i = j
    BY <2>1, <2>2 DEF FlowInv, BacklogInv
  <2>4. end'[k]["client"] # "none"
    BY <1>3, <1>4, <2>3 DEF Dropped, Kept
  <2>5. QED
    BY <1>2, <2>1, <2>2, <2>3, <2>4
<1>10. idle' = idle
  BY DEF poolVars
<1>11. QED
  BY <1>5, <1>6, <1>7, <1>8, <1>9, <1>10 DEF FlowInv

-----------------------------------------------------------------------------
(* The clients                                                             *)

\* A step of a client that keeps its request and changes what it has of its connection.
LEMMA ClientTypes ==
  ASSUME FlowTypeOK, NEW c \in Clients,
         arrived' \in [Conns -> [Sides -> Seq(Parts)]],
         outbox' \in [Clients -> Seq(Parts)], inbox' \in [Clients -> Incoming],
         UNCHANGED <<session, request, unsent, backlog, turn>>,
         \A d \in Clients \ {c} : pc'[d] = pc[d],
         pc[c] # "ready" \/ HasRequest(c)
  PROVE  FlowTypeOK'
BY DEF FlowTypeOK, HasRequest

LEMMA ClientSendFlow ==
  ASSUME PoolInv, FlowTypeOK, FlowInv, Alive, NEW c \in Clients, NEW n \in 1 .. Len(outbox[c]),
         ClientSend(c, n), UNCHANGED serverVars
  PROVE  FlowTypeOK' /\ (Alive' => FlowInv')
<1> USE DEF serverVars, acceptVars, sessionVars
<1> DEFINE front == SubSeq(outbox[c], 1, n)
           rest == SubSeq(outbox[c], n + 1, Len(outbox[c]))
           r == Current(c)
<1>1. PICK k \in Conns : conn[c] = k
  BY DEF ClientSend, Is, PoolInv, HeldInv, PoolTypeOK
<1>2. /\ pc[c] = "send" /\ r \in Requests /\ Asked[r] \in Nat /\ OutboxInv(c)
      /\ outbox[c] \in Seq(Parts) /\ Len(outbox[c]) \in Nat /\ outbox[c] # <<>>
      /\ n \in Nat /\ 1 <= n /\ n <= Len(outbox[c])
  BY <1>1, ClientFacts DEF ClientSend, Is
<1>3. Len(outbox[c]) <= Asked[r] + 1 /\ Run(outbox[c], r, Asked[r] + 1 - Len(outbox[c]))
  BY <1>2 DEF OutboxInv
<1>4. Asks(c, k) /\ IsConnected(k, "client")
  BY <1>1, <1>2, ClientFacts DEF Is, Reads
<1>5. /\ front \in Seq(Parts) /\ Len(front) = n /\ Run(front, r, Asked[r] + 1 - Len(outbox[c]))
      /\ rest \in Seq(Parts) /\ Len(rest) = Len(outbox[c]) - n
      /\ Run(rest, r, (Asked[r] + 1 - Len(outbox[c])) + n)
  <2>1. Asked[r] + 1 - Len(outbox[c]) \in Nat
    BY <1>2, <1>3
  <2> HIDE DEF r
  <2>2. QED
    BY <1>2, <1>3, <2>1, RunSplit
<1>6. /\ Send(k, "client", front) /\ outbox' = [outbox EXCEPT ![c] = rest]
      /\ pc' = [pc EXCEPT ![c] = IF rest = <<>> THEN "head" ELSE "send"]
      /\ UNCHANGED <<session, request, unsent, backlog, idle, conn, turn, inbox>>
  BY <1>1 DEF ClientSend, Move, FlowTypeOK
<1> HIDE DEF front, rest
<1>7. /\ arrived' \in [Conns -> [Sides -> Seq(Parts)]]
      /\ \A j \in Conns \ {k} : arrived'[j] = arrived[j] /\ end'[j] = end[j]
      /\ arrived'[k]["client"] = arrived[k]["client"] /\ end'[k]["server"] = end[k]["server"]
      /\ Alive' => /\ end[k]["client"] = "open"
                   /\ IF IsConnected(k, "server")
                      THEN /\ arrived'[k]["server"] = arrived[k]["server"] \o front
                           /\ end'[k]["client"] = end[k]["client"]
                      ELSE /\ arrived'[k]["server"] = arrived[k]["server"]
                           /\ end'[k]["client"] = "reset"
  <2>1. "client" \in Sides /\ "server" = Peer("client") /\ PoolTypeOK
    BY DEF Sides, Peer, PoolInv
  <2>2. front \in Seq(Parts) /\ Send(k, "client", front)
    BY <1>5, <1>6
  <2>3. QED
    BY <2>1, <2>2, SendEffect
<1>8. FlowTypeOK'
  BY <1>2, <1>5, <1>6, <1>7, ClientTypes DEF FlowTypeOK, PoolInv, PoolTypeOK
<1>9. /\ \A j \in Conns \ {k} : Kept(j)
      /\ \A d \in Clients : d # c => KeptClient(d)
      /\ outbox'[c] = rest /\ pc'[c] = IF rest = <<>> THEN "head" ELSE "send"
  BY <1>6, <1>7 DEF Kept, KeptClient, FlowTypeOK, PoolInv, PoolTypeOK
<1> SUFFICES ASSUME Alive'
             PROVE  FlowInv'
  BY <1>8
<1>10. end[k]["server"] # "none" /\ end'[k]["client"] \in {"open", "reset"}
  BY <1>4, <1>7 DEF UnmadeInv, FlowInv, IsConnected
<1>11. Current(c)' = r
  BY <1>6 DEF Current
<1>12. /\ Len(rest) \in Nat /\ Len(rest) <= Asked[r] + 1
       /\ (Asked[r] + 1 - Len(outbox[c])) + n = Asked[r] + 1 - Len(rest)
  <2>1. \A x, y \in Nat : n <= x /\ x <= y + 1 => /\ x - n \in Nat /\ x - n <= y + 1
                                                  /\ (y + 1 - x) + n = y + 1 - (x - n)
    BY <1>2
  <2> HIDE DEF r
  <2>2. Len(outbox[c]) \in Nat /\ Asked[r] \in Nat /\ n <= Len(outbox[c]) /\ Len(outbox[c]) <= Asked[r] + 1
    BY <1>2, <1>3
  <2>3. Len(rest) = Len(outbox[c]) - n
    BY <1>5
  <2>4. QED
    BY <2>1, <2>2, <2>3
<1>13. OutboxInv(c)'
  BY <1>5, <1>9, <1>11, <1>12 DEF OutboxInv, Is
<1>14. pc'[c] \in {"send", "head"} /\ arrived'[k]["client"] = <<>> /\ unsent'[k] = <<>>
  BY <1>4, <1>6, <1>7, <1>9 DEF Asks
<1>15. Asks(c, k)' => ClientInv(c)'
  BY <1>1, <1>6, <1>9, <1>10, <1>13 DEF ClientInv, IsConnected
<1> DEFINE parts == arrived[k]["server"]
<1>16. parts \in Seq(Parts) /\ Len(parts) \in Nat
  BY ConnTypes DEF PoolInv
<1>17. CASE end[k]["server"] = "closed"
  <2>1. arrived'[k]["server"] = parts /\ end'[k]["server"] = "closed"
    BY <1>7, <1>17 DEF IsConnected
  <2>2. SessionInv(k)'
    <3>1. SessionInv(k)
      BY DEF FlowInv
    <3>2. QED
      BY <1>6, <1>17, <2>1, <3>1 DEF SessionInv
  <2>3. Asks(c, k)'
    BY <1>14, <2>1 DEF Asks
  <2>4. QED
    BY <1>1, <1>6, <1>9, <1>10, <1>15, <1>17, <2>1, <2>2, <2>3, HolderFrame
<1>18. CASE end[k]["server"] # "closed"
  <2>1. /\ arrived'[k]["server"] = parts \o front
        /\ end'[k]["server"] = end[k]["server"] /\ end'[k]["client"] = end[k]["client"]
    <3>1. end[k]["server"] \in {"open", "reset", "shut"}
      BY <1>10, <1>18, ConnTypes DEF EndStates, PoolInv
    <3>2. QED
      BY <1>7, <3>1 DEF IsConnected
  <2>2. ASSUME NEW x \in Nat, Run(parts, r, x), Len(parts) + Len(outbox[c]) + x = Asked[r] + 1
        PROVE  /\ Run(parts \o front, r, x) /\ Len(parts \o front) = Len(parts) + n
               /\ Len(parts) + n + Len(rest) + x = Asked[r] + 1
    <3>1. \A y, z, a \in Nat : n <= z /\ y + z + x = a + 1 =>
             a + 1 - z = x + y /\ y + n + (z - n) + x = a + 1
      BY <1>2
    <3>2. /\ Len(parts) + Len(outbox[c]) + x = Asked[r] + 1 /\ n <= Len(outbox[c])
          /\ Len(parts) \in Nat /\ Len(outbox[c]) \in Nat /\ Asked[r] \in Nat
          /\ Len(rest) = Len(outbox[c]) - n
      BY <1>2, <1>5, <1>16, <2>2
    <3> HIDE DEF parts, r
    <3>3. /\ Asked[r] + 1 - Len(outbox[c]) = x + Len(parts)
          /\ Len(parts) + n + (Len(outbox[c]) - n) + x = Asked[r] + 1
      <4>1. PICK y \in Nat, z \in Nat, a \in Nat : y = Len(parts) /\ z = Len(outbox[c]) /\ a = Asked[r]
        BY <3>2
      <4>2. n <= z /\ y + z + x = a + 1
        BY <3>2, <4>1
      <4>3. a + 1 - z = x + y /\ y + n + (z - n) + x = a + 1
        BY <3>1, <4>2
      <4>4. QED
        BY <4>1, <4>3
    <3>4. Run(parts \o front, r, x) /\ Len(parts \o front) = Len(parts) + Len(front)
      BY <1>5, <1>16, <2>2, <3>3, RunConcat
    <3>5. QED
      BY <1>5, <3>2, <3>3, <3>4
  <2>3. SessionInv(k) /\ end'[k]["server"] # "closed"
    BY <1>18, <2>1 DEF FlowInv
  <2>4. outbox[c] # <<>> /\ session' = session /\ request' = request
    BY <1>2, <1>6
  <2>5. SessionInv(k)' /\ Asks(c, k)'
    <3>1. CASE /\ session[k] \in {"none", "head", "send"}
               /\ Run(parts, r, 0) /\ Len(parts) + Len(outbox[c]) = Asked[r] + 1
      <4>1. /\ Run(parts \o front, r, 0) /\ Len(parts \o front) + Len(rest) = Asked[r] + 1
            /\ Len(parts \o front) \in Nat
        <5>1. Len(parts) \in Nat /\ Len(outbox[c]) \in Nat /\ Len(parts) + Len(outbox[c]) = Asked[r] + 1
          BY <1>2, <1>16, <3>1
        <5>2. Len(parts) + Len(outbox[c]) + 0 = Asked[r] + 1
          <6>1. \A y, z \in Nat : y + z + 0 = y + z
            OBVIOUS
          <6> HIDE DEF parts, r
          <6>2. QED
            BY <5>1, <6>1
        <5>3. /\ Run(parts \o front, r, 0) /\ Len(parts \o front) = Len(parts) + n
              /\ Len(parts) + n + Len(rest) + 0 = Asked[r] + 1
          BY <2>2, <3>1, <5>2
        <5>4. Asked[r] \in Nat /\ Len(rest) \in Nat /\ n \in Nat
          BY <1>2, <1>12
        <5> HIDE DEF parts, r
        <5>5. \A x, y \in Nat : x + n \in Nat /\ x + n + y + 0 = x + n + y
          BY <5>4
        <5>6. Len(parts) + n \in Nat /\ Len(parts) + n + Len(rest) = Asked[r] + 1
          BY <5>1, <5>3, <5>4, <5>5
        <5>7. QED
          BY <5>3, <5>6
      <4> HIDE DEF parts, r
      <4>2. Len(parts \o front) <= Asked[r] + 1
        <5>1. \A y, z, a \in Nat : y + z = a + 1 => y <= a + 1
          OBVIOUS
        <5>2. QED
          BY <1>2, <1>12, <4>1, <5>1
      <4>3. SessionInv(k)'
        BY <1>2, <1>6, <2>1, <2>3, <2>4, <3>1, <4>1, <4>2 DEF SessionInv
      <4>4. Asks(c, k)'
        BY <1>9, <1>11, <1>14, <2>1, <2>4, <3>1, <4>1 DEF Asks
      <4>5. QED
        BY <4>3, <4>4
    <3>2. CASE /\ session[k] = "body" /\ request[k].of = r
               /\ Len(request[k].body) + Len(parts) + Len(outbox[c]) = Asked[r]
      <4> DEFINE b == request[k].body
      <4>1. Len(b) \in Nat /\ Run(parts, r, Len(b) + 1)
        BY <2>3, <3>2, ConnTypes DEF SessionInv, Incoming, PoolInv
      <4> HIDE DEF b, parts, r
      <4>2. Len(b) + Len(parts) + Len(outbox[c]) = Asked[r]
        BY <3>2 DEF b
      <4>3. /\ Run(parts \o front, r, Len(b) + 1) /\ Len(b) + Len(parts \o front) + Len(rest) = Asked[r]
            /\ Len(parts \o front) \in Nat
        <5>0. /\ Len(b) \in Nat /\ Len(parts) \in Nat /\ Len(outbox[c]) \in Nat /\ Asked[r] \in Nat
              /\ Len(rest) \in Nat /\ n \in Nat
          BY <1>2, <1>12, <1>16, <4>1 DEF parts, r
        <5>1. Len(b) + 1 \in Nat /\ Len(parts) + Len(outbox[c]) + (Len(b) + 1) = Asked[r] + 1
          <6>1. \A x, y, z, a \in Nat : x + y + z = a => x + 1 \in Nat /\ y + z + (x + 1) = a + 1
            OBVIOUS
          <6>2. PICK x \in Nat, y \in Nat, z \in Nat, a \in Nat :
                  x = Len(b) /\ y = Len(parts) /\ z = Len(outbox[c]) /\ a = Asked[r]
            BY <5>0
          <6>3. x + y + z = a
            BY <4>2, <6>2
          <6>4. x + 1 \in Nat /\ y + z + (x + 1) = a + 1
            BY <6>1, <6>3
          <6>5. QED
            BY <6>2, <6>4
        <5>2. /\ Run(parts \o front, r, Len(b) + 1) /\ Len(parts \o front) = Len(parts) + n
              /\ Len(parts) + n + Len(rest) + (Len(b) + 1) = Asked[r] + 1
          BY <2>2, <4>1, <5>1 DEF parts, r
        <5>3. \A x, y, z, a \in Nat : x + n + y + (z + 1) = a + 1 => x + n \in Nat /\ z + (x + n) + y = a
          BY <5>0
        <5>4. Len(parts) + n \in Nat /\ Len(b) + (Len(parts) + n) + Len(rest) = Asked[r]
          BY <5>0, <5>2, <5>3
        <5>5. QED
          BY <5>2, <5>4
      <4>4. Len(b) + Len(parts \o front) <= Asked[r]
        <5>1. \A x, y, z, a \in Nat : x + y + z = a => x + y <= a
          OBVIOUS
        <5>2. QED
          BY <1>2, <1>12, <4>1, <4>3, <5>1
      <4>5. SessionInv(k)'
        BY <1>2, <1>6, <2>1, <2>3, <2>4, <3>2, <4>3, <4>4 DEF SessionInv, SlipsBounded, b
      <4>6. Asks(c, k)'
        BY <1>9, <1>11, <1>14, <2>1, <2>4, <3>2, <4>3 DEF Asks, b
      <4>7. QED
        BY <4>5, <4>6
    <3>3. QED
      BY <1>4, <1>18, <2>4, <3>1, <3>2 DEF Asks
  <2>6. end'[k]["server"] # "none" /\ end'[k]["client"] # "none"
    BY <1>10, <2>1
  <2>7. QED
    BY <1>1, <1>6, <1>9, <1>15, <2>5, <2>6, HolderFrame
<1>19. QED
  BY <1>17, <1>18

\* A read of the response: m is what client c has after it.
LEMMA ReadFlow ==
  ASSUME PoolInv, FlowTypeOK, FlowInv, NEW c \in Clients, NEW k \in Conns, conn[c] = k,
         pc[c] \in {"head", "body"}, Reads(c, k), IsConnected(k, "client"),
         NEW n \in 1 .. Len(arrived[k]["client"]), Take(k, "client", n),
         NEW m \in Incoming, PartOf(m, Current(c), Answered[Current(c)]),
         SlipsBounded(m, k, "client"), 1 + Len(m.body) = Got(c) + n,
         inbox' = [inbox EXCEPT ![c] = m],
         pc' = [pc EXCEPT ![c] = IF m.need = 0 THEN "release" ELSE "body"],
         UNCHANGED <<serverVars, idle, conn, turn, outbox>>
  PROVE  FlowTypeOK' /\ FlowInv'
<1> USE DEF serverVars, acceptVars, sessionVars
<1> DEFINE parts == arrived[k]["client"]
           rest == SubSeq(parts, n + 1, Len(parts))
           r == Current(c)
           g == Got(c)
<1>1. /\ parts \in Seq(Parts) /\ Len(parts) \in Nat /\ n \in Nat /\ 1 <= n /\ n <= Len(parts)
      /\ r \in Requests /\ Answered[r] \in Nat /\ g \in Nat /\ Len(unsent[k]) \in Nat
      /\ OutboxInv(c) /\ Len(m.body) \in Nat
  BY ConnTypes, ClientFacts DEF PoolInv, Incoming
<1>2. /\ Run(parts, r, g) /\ Run(unsent[k], r, g + Len(parts))
      /\ g + Len(parts) + Len(unsent[k]) = Answered[r] + 1
      /\ arrived[k]["server"] = <<>> /\ session[k] \in {"send", "head", "ended"}
  BY DEF Reads
<1>3. /\ rest \in Seq(Parts) /\ Len(rest) = Len(parts) - n /\ Run(rest, r, g + n)
  <2> HIDE DEF parts, r, g
  <2>1. QED
    BY <1>1, <1>2, RunSplit DEF parts
<1>4. arrived' = [arrived EXCEPT ![k]["client"] = rest] /\ UNCHANGED <<end, killed>>
  BY DEF Take, FlowTypeOK
<1> HIDE DEF rest
<1>5. FlowTypeOK'
  <2>1. arrived' \in [Conns -> [Sides -> Seq(Parts)]]
    BY <1>3, <1>4 DEF FlowTypeOK
  <2>2. /\ outbox' \in [Clients -> Seq(Parts)] /\ inbox' \in [Clients -> Incoming]
        /\ \A d \in Clients \ {c} : pc'[d] = pc[d]
    BY DEF FlowTypeOK, PoolInv, PoolTypeOK
  <2>3. QED
    BY <2>1, <2>2, ClientTypes
<1>6. /\ arrived'[k]["client"] = rest /\ arrived'[k]["server"] = arrived[k]["server"]
      /\ inbox'[c] = m /\ pc'[c] = (IF m.need = 0 THEN "release" ELSE "body")
      /\ Current(c)' = r
  BY <1>4 DEF FlowTypeOK, PoolInv, PoolTypeOK, Sides, Current
<1>7. (\A j \in Conns \ {k} : Kept(j)) /\ \A d \in Clients : d # c => KeptClient(d)
  BY <1>4 DEF Kept, KeptClient, FlowTypeOK, PoolInv, PoolTypeOK
<1>8. Got(c)' = g + n
  BY <1>6 DEF Got, Is
<1>9. Run(unsent[k], r, g + n + Len(rest)) /\ g + n + Len(rest) + Len(unsent[k]) = Answered[r] + 1
  <2> HIDE DEF parts, r, g
  <2>1. \A x, y \in Nat : n <= y => x + n + (y - n) = x + y
    BY <1>1
  <2>2. PICK x \in Nat, y \in Nat : x = g /\ y = Len(parts)
    BY <1>1
  <2>3. x + n + (y - n) = x + y
    BY <1>1, <2>1, <2>2
  <2>4. g + n + Len(rest) = g + Len(parts)
    BY <1>3, <2>2, <2>3
  <2>5. QED
    BY <1>2, <2>4
<1>10. m.need = 0 => Intact(m, r, Answered[r])
  BY <1>1, WholeIntact
<1>11. Reads(c, k)'
  <2> HIDE DEF parts, r, g
  <2>1. SlipsBounded(m, k, "client")'
    BY <1>4 DEF SlipsBounded
  <2>2. PartOf(m, r, Answered[r])
    BY DEF r
  <2>3. pc'[c] \in {"body", "release"} /\ Is(c, "body")' = (m.need # 0) /\ Is(c, "release")' = (m.need = 0)
    BY <1>6 DEF Is
  <2>4. Run(rest, r, g + n) /\ unsent' = unsent /\ session' = session
    BY <1>3
  <2>5. arrived'[k]["server"] = <<>> /\ session[k] \in {"send", "head", "ended"}
    BY <1>2, <1>6
  <2>6. SlipsBounded(inbox[c], k, "client")'
    BY <1>6, <2>1 DEF SlipsBounded
  <2>7. QED
    BY <1>6, <1>8, <1>9, <1>10, <2>2, <2>3, <2>4, <2>5, <2>6 DEF Reads
<1>12. OutboxInv(c)'
  BY <1>1, <1>6 DEF OutboxInv, Is
<1>13. ClientInv(c)'
  BY <1>4, <1>11, <1>12 DEF ClientInv, IsConnected
<1>14. SessionInv(k)'
  BY <1>4, <1>6 DEF SessionInv, SlipsBounded, FlowInv
<1>15. end'[k]["client"] # "none" /\ end'[k]["server"] # "none"
  BY <1>4 DEF IsConnected, FlowInv, UnmadeInv
<1>16. QED
  BY <1>5, <1>7, <1>13, <1>14, <1>15, HolderFrame

LEMMA ClientHeadFlow ==
  ASSUME ShortBodies, PoolInv, FlowTypeOK, FlowInv, NEW c \in Clients, NEW k \in Conns, conn[c] = k,
         NEW n \in 1 .. Len(arrived[k]["client"]), ClientHead(c, n), UNCHANGED serverVars
  PROVE  FlowTypeOK' /\ FlowInv'
<1> DEFINE parts == arrived[k]["client"]
           front == SubSeq(parts, 1, n)
           r == Current(c)
           m == Headed(front, Answered[r])
<1>1. /\ parts \in Seq(Parts) /\ Len(parts) \in Nat /\ n \in Nat /\ 1 <= n /\ n <= Len(parts)
      /\ r \in Requests /\ Answered[r] \in Nat /\ Len(unsent[k]) \in Nat /\ parts # <<>>
  BY ConnTypes, ClientFacts DEF PoolInv
<1>2. pc[c] = "head" /\ Got(c) = 0
  BY DEF ClientHead, Is, Got
<1>3. Reads(c, k) /\ IsConnected(k, "client")
  BY <1>1, <1>2, ClientFacts DEF Is, Asks
<1>4. Run(parts, r, 0) /\ 0 + Len(parts) + Len(unsent[k]) = Answered[r] + 1
  BY <1>2, <1>3 DEF Reads
<1>5. Len(parts) <= Answered[r] + 1 /\ Answered[r] < LengthMod
  <2>1. Answered[r] + MaxSlips + 1 < LengthMod
    BY <1>1 DEF ShortBodies
  <2> HIDE DEF parts, r
  <2>2. PICK x \in Nat, y \in Nat, z \in Nat : x = Len(parts) /\ y = Len(unsent[k]) /\ z = Answered[r]
    BY <1>1
  <2>3. 0 + x + y = z + 1 /\ z + MaxSlips + 1 < LengthMod
    BY <1>4, <2>1, <2>2
  <2>4. x <= z + 1 /\ z < LengthMod
    BY <2>3, LengthAssumption
  <2>5. QED
    BY <2>2, <2>4
<1>6. front \in Seq(Parts) /\ Len(front) = n /\ Run(front, r, 0) /\ front # <<>>
  <2> HIDE DEF r
  <2>1. 0 \in Nat
    OBVIOUS
  <2>2. front \in Seq(Parts) /\ Len(front) = n /\ Run(front, r, 0)
    BY <1>1, <1>4, <2>1, RunSplit
  <2>3. QED
    BY <1>1, <2>2
<1>7. /\ IsHead(front) /\ front[1][1] = r /\ m \in Incoming /\ PartOf(m, r, Answered[r])
      /\ m.slips = 0 /\ Len(m.body) = n - 1
  <2> HIDE DEF front, r
  <2>1. Len(front) <= Answered[r] + 1
    <3> HIDE DEF parts
    <3>1. PICK x \in Nat, z \in Nat : x = Len(parts) /\ z = Answered[r]
      BY <1>1
    <3>2. n <= z + 1
      BY <1>1, <1>5, <3>1
    <3>3. QED
      BY <1>6, <3>1, <3>2
  <2>2. QED
    BY <1>1, <1>5, <1>6, <2>1, HeadedPart
<1>8. /\ Take(k, "client", n) /\ inbox' = [inbox EXCEPT ![c] = m]
      /\ pc' = [pc EXCEPT ![c] = IF m.need = 0 THEN "release" ELSE "body"]
      /\ UNCHANGED <<idle, conn, turn, outbox>>
  BY <1>7 DEF ClientHead, First, Move
<1> HIDE DEF front, m
<1>9. 1 + Len(m.body) = Got(c) + n
  BY <1>1, <1>2, <1>7
<1>10. SlipsBounded(m, k, "client")
  BY <1>7, LengthAssumption DEF SlipsBounded
<1>11. QED
  BY <1>2, <1>3, <1>7, <1>8, <1>9, <1>10, ReadFlow

LEMMA ClientBodyFlow ==
  ASSUME PoolInv, FlowTypeOK, FlowInv, NEW c \in Clients, NEW k \in Conns, conn[c] = k,
         NEW n \in 1 .. Len(arrived[k]["client"]), ClientBody(c, n), UNCHANGED serverVars
  PROVE  FlowTypeOK' /\ FlowInv'
<1> DEFINE parts == arrived[k]["client"]
           front == SubSeq(parts, 1, n)
           r == Current(c)
           b == inbox[c].body
           m == Extended(inbox[c], front)
<1>1. /\ parts \in Seq(Parts) /\ Len(parts) \in Nat /\ n \in Nat /\ 1 <= n /\ n <= Len(parts)
      /\ r \in Requests /\ Answered[r] \in Nat /\ Len(unsent[k]) \in Nat /\ parts # <<>>
      /\ inbox[c] \in Incoming /\ b \in Seq(Parts) /\ Len(b) \in Nat
  BY ConnTypes, ClientFacts DEF PoolInv, Incoming
<1>2. pc[c] = "body" /\ Got(c) = 1 + Len(b)
  BY DEF ClientBody, Is, Got
<1>3. Reads(c, k) /\ IsConnected(k, "client")
  BY <1>1, <1>2, ClientFacts DEF Is, Asks
<1>4. /\ Run(parts, r, 1 + Len(b)) /\ 1 + Len(b) + Len(parts) + Len(unsent[k]) = Answered[r] + 1
      /\ PartOf(inbox[c], r, Answered[r]) /\ SlipsBounded(inbox[c], k, "client")
  BY <1>2, <1>3 DEF Reads, Is
<1>5. /\ Len(b) + 1 \in Nat /\ Len(b) + 1 = 1 + Len(b) /\ Len(b) + n <= Answered[r]
      /\ n + Len(b) = Len(b) + n
  <2> HIDE DEF parts, r, b
  <2>1. PICK x \in Nat, y \in Nat, z \in Nat, a \in Nat :
          x = Len(b) /\ y = Len(parts) /\ z = Len(unsent[k]) /\ a = Answered[r]
    BY <1>1
  <2>2. 1 + x + y + z = a + 1 /\ n <= y
    BY <1>1, <1>4, <2>1
  <2>3. x + 1 \in Nat /\ x + 1 = 1 + x /\ x + n <= a /\ n + x = x + n
    BY <1>1, <2>2
  <2>4. QED
    BY <2>1, <2>3
<1>6. front \in Seq(Parts) /\ Len(front) = n /\ Run(front, r, Len(b) + 1)
  <2> HIDE DEF r, b
  <2>1. Run(parts, r, Len(b) + 1)
    BY <1>4, <1>5
  <2>2. QED
    BY <1>1, <1>5, <2>1, RunSplit
<1>7. /\ m \in Incoming /\ PartOf(m, r, Answered[r]) /\ m.slips = inbox[c].slips
      /\ Len(m.body) = Len(b) + n
  <2> HIDE DEF front, r
  <2>1. QED
    BY <1>1, <1>4, <1>5, <1>6, ExtendedPart
<1>8. /\ Take(k, "client", n) /\ inbox' = [inbox EXCEPT ![c] = m]
      /\ UNCHANGED <<idle, conn, turn, outbox>>
  BY DEF ClientBody, First, FlowTypeOK
<1>80. pc' = [pc EXCEPT ![c] = IF m.need = 0 THEN "release" ELSE "body"]
  <2> HIDE DEF m
  <2>1. inbox'[c] = m
    BY <1>8 DEF FlowTypeOK
  <2>2. QED
    BY <2>1 DEF ClientBody, Move
<1> HIDE DEF front, m
<1>9. 1 + Len(m.body) = Got(c) + n
  <2> HIDE DEF b
  <2>1. \A x \in Nat : 1 + (x + n) = 1 + x + n
    BY <1>1
  <2>2. QED
    BY <1>1, <1>2, <1>7, <2>1
<1>10. SlipsBounded(m, k, "client")
  BY <1>4, <1>7 DEF SlipsBounded
<1>11. QED
  BY <1>2, <1>3, <1>7, <1>8, <1>80, <1>9, <1>10, ReadFlow

LEMMA ClientBodySlipsFlow ==
  ASSUME ShortBodies, PoolInv, FlowTypeOK, FlowInv, NEW c \in Clients, ClientBodySlips(c),
         UNCHANGED serverVars
  PROVE  FlowTypeOK' /\ FlowInv'
<1> USE DEF serverVars, acceptVars, sessionVars
<1> DEFINE r == Current(c)
           m == Slipped(inbox[c])
<1>1. PICK k \in Conns : conn[c] = k
  BY DEF ClientBodySlips, Is, PoolInv, HeldInv, PoolTypeOK
<1>2. /\ pc[c] = "body" /\ arrived[k]["client"] = <<>> /\ r \in Requests /\ Answered[r] \in Nat
      /\ inbox[c] \in Incoming /\ OutboxInv(c)
  BY <1>1, ClientFacts DEF ClientBodySlips, Is, IsReset, MayTimeOut, Drained
<1>3. Reads(c, k) /\ IsConnected(k, "client")
  BY <1>1, <1>2, ClientFacts DEF Is, Asks
<1>4. PartOf(inbox[c], r, Answered[r]) /\ SlipsBounded(inbox[c], k, "client")
  BY <1>2, <1>3 DEF Reads, Is
<1>5. /\ inbox[c].slips <= MaxSlips
      /\ \/ end[k]["client"] = "reset"
         \/ end[k]["client"] = "open" /\ inbox[c].slips < MaxSlips
  BY <1>1, <1>4 DEF ClientBodySlips, IsReset, MayTimeOut, SlipsBounded
<1>6. /\ end' = [end EXCEPT ![k]["client"] = IF @ = "reset" THEN "shut" ELSE @]
      /\ inbox' = [inbox EXCEPT ![c] = m]
      /\ UNCHANGED <<arrived, killed, idle, pc, conn, turn, outbox>>
  BY <1>1 DEF ClientBodySlips, TellError
<1>7. /\ m \in Incoming /\ PartOf(m, r, Answered[r])
      /\ m.slips = inbox[c].slips + 1 /\ m.body = inbox[c].body /\ m.of = inbox[c].of
  <2>1. Answered[r] + MaxSlips + 1 < LengthMod
    BY <1>2 DEF ShortBodies
  <2> HIDE DEF r
  <2>2. QED
    BY <1>2, <1>4, <1>5, <2>1, SlippedPart
<1> HIDE DEF m
<1>8. FlowTypeOK'
  BY <1>2, <1>6, <1>7 DEF FlowTypeOK, HasRequest
<1>9. (\A j \in Conns \ {k} : Kept(j)) /\ \A d \in Clients : d # c => KeptClient(d)
  BY <1>6 DEF Kept, KeptClient, FlowTypeOK, PoolInv, PoolTypeOK
<1>10. /\ inbox'[c] = m /\ Current(c)' = r
       /\ end'[k]["client"] = IF end[k]["client"] = "reset" THEN "shut" ELSE end[k]["client"]
       /\ end'[k]["server"] = end[k]["server"]
  BY <1>6 DEF FlowTypeOK, Sides, PoolInv, PoolTypeOK, Current
<1>11. Got(c)' = Got(c)
  BY <1>6, <1>7, <1>10 DEF Got, Is
<1>12. SlipsBounded(inbox[c], k, "client")'
  <2>1. inbox[c].slips \in Nat
    BY <1>2 DEF Incoming
  <2>2. m.slips <= (IF end'[k]["client"] = "shut" THEN MaxSlips + 1 ELSE MaxSlips)
    BY <1>5, <1>7, <1>10, <2>1, LengthAssumption
  <2>3. QED
    BY <1>10, <2>2 DEF SlipsBounded
<1>13. Reads(c, k)'
  <2>1. PartOf(inbox'[c], r, Answered[r])
    BY <1>7, <1>10
  <2>2. Is(c, "body")' /\ ~Is(c, "release")' /\ pc'[c] = "body"
    BY <1>2, <1>6 DEF Is
  <2>3. /\ arrived' = arrived /\ session' = session /\ unsent' = unsent
        /\ Current(c)' = Current(c) /\ Got(c)' = Got(c)
    BY <1>6, <1>10, <1>11
  <2>4. QED
    BY <1>3, <1>12, <2>1, <2>2, <2>3 DEF Reads
<1>14. OutboxInv(c)'
  BY <1>2, <1>6, <1>10 DEF OutboxInv, Is
<1>15. IsConnected(k, "client")' /\ end'[k]["client"] # "none" /\ end'[k]["server"] # "none"
  BY <1>3, <1>5, <1>10 DEF IsConnected, FlowInv, UnmadeInv
<1>16. ClientInv(c)'
  BY <1>1, <1>6, <1>13, <1>14, <1>15 DEF ClientInv
<1>17. SessionInv(k)'
  BY <1>6, <1>10 DEF SessionInv, SlipsBounded, FlowInv
<1>18. QED
  BY <1>1, <1>6, <1>8, <1>9, <1>15, <1>16, <1>17, HolderFrame

\* The client gives up and closes the connection.
LEMMA FailFlow ==
  ASSUME PoolInv, FlowTypeOK, FlowInv, NEW c \in Clients, pc[c] \in {"head", "body"}, Fail(c),
         UNCHANGED <<idle, conn, turn, outbox, serverVars>>
  PROVE  FlowTypeOK' /\ FlowInv'
<1> USE DEF serverVars, acceptVars, sessionVars
<1>1. PICK k \in Conns : conn[c] = k
  BY DEF PoolInv, HeldInv, PoolTypeOK
<1>2. IsConnected(k, "client") /\ OutboxInv(c)
  BY <1>1, ClientFacts DEF Is
<1>3. /\ inbox' = [inbox EXCEPT ![c] = Failed] /\ pc' = [pc EXCEPT ![c] = "release"]
      /\ Close(k, "client")
  BY <1>1 DEF Fail, Move
<1>4. /\ \A j \in Conns \ {k} : arrived'[j] = arrived[j] /\ end'[j] = end[j]
      /\ arrived' \in [Conns -> [Sides -> Seq(Parts)]]
      /\ arrived'[k]["server"] = arrived[k]["server"]
      /\ end'[k]["client"] = "closed"
      /\ \/ end'[k]["server"] = end[k]["server"]
         \/ end[k]["server"] = "open" /\ end'[k]["server"] = "reset"
  <2>1. "client" \in Sides /\ Peer("client") = "server" /\ PoolTypeOK
    BY DEF Sides, Peer, PoolInv
  <2>2. QED
    BY <1>2, <1>3, <2>1, CloseEffect
<1>5. FlowTypeOK'
  <2>1. Failed \in Incoming
    BY EmptySeq DEF Failed, Nothing, Incoming
  <2>2. QED
    BY <1>3, <1>4, <2>1, ClientTypes DEF FlowTypeOK, PoolInv, PoolTypeOK
<1>6. (\A j \in Conns \ {k} : Kept(j)) /\ \A d \in Clients : d # c => KeptClient(d)
  BY <1>3, <1>4 DEF Kept, KeptClient, FlowTypeOK, PoolInv, PoolTypeOK
<1>7. inbox'[c] = Failed /\ pc'[c] = "release" /\ Current(c)' = Current(c)
  BY <1>3 DEF FlowTypeOK, PoolInv, PoolTypeOK, Current
<1>8. OutboxInv(c)'
  BY <1>2, <1>7 DEF OutboxInv, Is
<1>9. ClientInv(c)'
  BY <1>1, <1>4, <1>7, <1>8 DEF ClientInv, Is, Failed, Nothing
<1>10. SessionInv(k)'
  <2>1. SessionInv(k)
    BY DEF FlowInv
  <2>2. CASE session[k] = "body"
    BY <1>4, <2>1, <2>2 DEF SessionInv, SlipsBounded
  <2>3. CASE session[k] # "body"
    BY <1>4, <2>1, <2>3 DEF SessionInv
  <2>4. QED
    BY <2>2, <2>3
<1>11. end'[k]["client"] # "none" /\ end'[k]["server"] # "none"
  BY <1>2, <1>4 DEF IsConnected, FlowInv, UnmadeInv
<1>12. QED
  BY <1>1, <1>5, <1>6, <1>9, <1>10, <1>11, HolderFrame

\* A step of client c that takes or gives back connection k.
LEMMA PoolFrame ==
  ASSUME PoolInv, FlowTypeOK, FlowInv, NEW c \in Clients, NEW k,
         \A j \in Conns \ {k} : Kept(j),
         \A d \in Clients : d # c => KeptClient(d) /\ (conn[d] # NoConn => conn[d] # k),
         k \in Conns => SessionInv(k)' /\ UnmadeInv(k)',
         ClientInv(c)',
         \A i \in 1 .. Len(idle') : \E j \in Conns :
           idle'[i] = j /\ (j = k => IdleInv(j)') /\ (j # k => IdleInv(j)),
         BacklogInv'
  PROVE  FlowInv'
<1> USE DEF FlowInv
<1>1. ASSUME NEW j \in Conns
      PROVE  SessionInv(j)' /\ UnmadeInv(j)'
  <2>1. CASE j = k
    BY <2>1
  <2>2. CASE j # k
    BY <2>2, KeptSession
  <2>3. QED
    BY <2>1, <2>2
<1>2. ASSUME NEW d \in Clients, d # c
      PROVE  ClientInv(d)'
  <2>1. KeptClient(d) /\ ClientInv(d) /\ (conn[d] # NoConn => Kept(conn[d]))
    BY <1>2 DEF PoolInv, PoolTypeOK
  <2>2. QED
    BY <2>1, KeptHolder
<1>3. ASSUME NEW i \in 1 .. Len(idle')
      PROVE  IdleInv(idle[i])'
  <2>1. PICK j \in Conns : idle'[i] = j /\ (j = k => IdleInv(j)') /\ (j # k => IdleInv(j))
    OBVIOUS
  <2>2. IdleInv(j)'
    BY <2>1, KeptSession
  <2>3. QED
    BY <2>1, <2>2 DEF IdleInv
<1>4. \A d \in Clients : ClientInv(d)'
  BY <1>2
<1>5. QED
  BY <1>1, <1>3, <1>4

\* A client begins its request on connection k, where nothing is left of earlier ones.
LEMMA RequestBegins ==
  ASSUME NEW c \in Clients, NEW k \in Conns, NEW r \in Requests, Current(c)' = r,
         outbox'[c] = Message(r, Asked[r]), pc'[c] = "send", conn'[c] = k,
         arrived'[k]["server"] = <<>>, arrived'[k]["client"] = <<>>, unsent'[k] = <<>>,
         session'[k] \in {"none", "head", "send"} \/ end'[k]["server"] = "closed",
         IsConnected(k, "client")'
  PROVE  ClientInv(c)'
<1>1. Asked[r] \in Nat
  BY BodyAssumption
<1>2. /\ Message(r, Asked[r]) \in Seq(Parts) /\ Len(Message(r, Asked[r])) = Asked[r] + 1
      /\ Message(r, Asked[r]) # <<>> /\ Run(Message(r, Asked[r]), r, 0)
  BY <1>1, MessageRun
<1>3. OutboxInv(c)'
  <2>1. \A x \in Nat : x + 1 <= x + 1 /\ x + 1 - (x + 1) = 0
    OBVIOUS
  <2>2. Len(outbox'[c]) <= Asked[r] + 1 /\ Asked[r] + 1 - Len(outbox'[c]) = 0
    BY <1>1, <1>2, <2>1
  <2>3. QED
    BY <1>2, <2>2 DEF OutboxInv, Is
<1>4. Asks(c, k)'
  <2>1. Run(arrived'[k]["server"], r, 0) /\ Len(arrived'[k]["server"]) = 0
    BY RunEmpty
  <2>2. Len(arrived'[k]["server"]) + Len(outbox'[c]) = Asked[r] + 1
    BY <1>1, <1>2, <2>1
  <2>3. QED
    BY <2>1, <2>2 DEF Asks
<1>5. QED
  BY <1>3, <1>4 DEF ClientInv

LEMMA ConnectFlow ==
  ASSUME PoolInv, FlowTypeOK, FlowInv, NEW c \in Clients, NEW k \in Conns, Connect(c, k)
  PROVE  FlowTypeOK' /\ FlowInv'
<1> DEFINE r == Current(c)
<1>1. PICK l \in listening : backlog' = [backlog EXCEPT ![l] = Append(@, k)]
  BY DEF Connect
<1>2. /\ Connecting(c) /\ end[k]["client"] = "none"
      /\ end' = [end EXCEPT ![k] = [s \in Sides |-> "open"]]
      /\ conn' = [conn EXCEPT ![c] = k] /\ pc' = [pc EXCEPT ![c] = "send"]
      /\ outbox' = [outbox EXCEPT ![c] = Message(r, Asked[r])]
      /\ UNCHANGED <<arrived, idle, turn, inbox, session, request, unsent>>
  BY DEF Connect, Connected, Established, WriteRequest, Move, sessionVars
<1>3. HasRequest(c) /\ r \in Requests /\ Asked[r] \in Nat
  <2>1. turn[c] \in Nat /\ turn[c] < Len(Plan[c]) /\ Plan[c] \in Seq(Requests)
    BY <1>2, ClientAssumption DEF FlowTypeOK, Connecting, Is, HasRequest, PoolInv, PoolTypeOK
  <2>2. QED
    BY <2>1, BodyAssumption DEF Current, HasRequest
<1>4. Message(r, Asked[r]) \in Seq(Parts)
  <2> HIDE DEF r
  <2>1. QED
    BY <1>3, MessageRun
<1>5. /\ end'[k]["client"] = "open" /\ end'[k]["server"] = "open"
      /\ conn'[c] = k /\ pc'[c] = "send" /\ outbox'[c] = Message(r, Asked[r]) /\ Current(c)' = r
  BY <1>2 DEF Sides, FlowTypeOK, PoolInv, PoolTypeOK, Current
<1> HIDE DEF r
<1>6. (\A j \in Conns \ {k} : Kept(j)) /\ \A d \in Clients : d # c => KeptClient(d)
  BY <1>2 DEF Kept, KeptClient, FlowTypeOK, PoolInv, PoolTypeOK
<1>7. arrived[k]["server"] = <<>> /\ arrived[k]["client"] = <<>> /\ session[k] = "none" /\ unsent[k] = <<>>
  BY <1>2 DEF FlowInv, UnmadeInv, SessionInv, Sides
<1>8. FlowTypeOK'
  <2>1. backlog' \in [Listeners -> Seq(Conns)]
    BY <1>1, AppendProperties DEF FlowTypeOK
  <2>2. outbox' \in [Clients -> Seq(Parts)]
    BY <1>2, <1>4 DEF FlowTypeOK
  <2>3. \A d \in Clients : pc'[d] # "ready" => HasRequest(d)'
    BY <1>2, <1>3 DEF FlowTypeOK, HasRequest, PoolInv, PoolTypeOK
  <2>4. QED
    BY <1>2, <2>1, <2>2, <2>3 DEF FlowTypeOK
<1>9. ClientInv(c)'
  BY <1>2, <1>3, <1>5, <1>7, RequestBegins DEF IsConnected
<1>10. SessionInv(k)' /\ UnmadeInv(k)'
  BY <1>2, <1>5, <1>7 DEF SessionInv, UnmadeInv
<1>11. \A d \in Clients : conn[d] # NoConn => conn[d] # k
  BY <1>2 DEF PoolInv, HeldInv
<1>12. \A i \in 1 .. Len(idle') : \E j \in Conns : idle'[i] = j /\ j # k /\ IdleInv(j)
  <2> SUFFICES ASSUME NEW i \in 1 .. Len(idle)
               PROVE  \E j \in Conns : idle[i] = j /\ j # k /\ IdleInv(j)
    BY <1>2
  <2>1. PICK j \in Conns : j = idle[i] /\ IdleInv(j) /\ IsConnected(j, "client")
    BY IdleMembers DEF PoolInv, IdleConnected, FlowInv
  <2>2. QED
    BY <1>2, <2>1 DEF IsConnected
<1>13. BacklogInv'
  <2>1. ASSUME NEW b \in Listeners, NEW i \in 1 .. Len(backlog'[b])
        PROVE  /\ session'[backlog'[b][i]] = "none" /\ end'[backlog'[b][i]]["client"] # "none"
               /\ \/ /\ b = l /\ i = Len(backlog[b]) + 1 /\ backlog'[b][i] = k
                  \/ /\ i \in 1 .. Len(backlog[b]) /\ backlog'[b][i] = backlog[b][i]
                     /\ backlog'[b][i] \in Conns \ {k}
    <3>0. /\ backlog[b] \in Seq(Conns) /\ Len(backlog[b]) \in Nat
          /\ backlog'[b] = IF b = l THEN Append(backlog[b], k) ELSE backlog[b]
      BY <1>1 DEF FlowTypeOK
    <3>1. ASSUME i \in 1 .. Len(backlog[b])
          PROVE  /\ session'[backlog'[b][i]] = "none" /\ end'[backlog'[b][i]]["client"] # "none"
                 /\ backlog'[b][i] = backlog[b][i] /\ backlog'[b][i] \in Conns \ {k}
      <4>1. PICK j \in Conns : j = backlog[b][i]
        BY <3>0, <3>1, ElementOfSeq
      <4>2. session[j] = "none" /\ end[j]["client"] # "none"
        BY <3>1, <4>1 DEF FlowInv, BacklogInv
      <4>3. j # k /\ end'[j] = end[j] /\ session'[j] = session[j]
        BY <1>2, <4>2, <1>6 DEF Kept
      <4>4. backlog'[b][i] = j
        BY <3>0, <3>1, <4>1, AppendProperties
      <4>5. QED
        BY <4>1, <4>2, <4>3, <4>4
    <3>2. ASSUME i \notin 1 .. Len(backlog[b])
          PROVE  b = l /\ i = Len(backlog[b]) + 1 /\ backlog'[b][i] = k
      <4>1. b = l /\ Len(backlog'[b]) = Len(backlog[b]) + 1
        BY <2>1, <3>0, <3>2, AppendProperties
      <4>2. i = Len(backlog[b]) + 1
        BY <2>1, <3>0, <3>2, <4>1
      <4>3. QED
        BY <3>0, <4>1, <4>2, AppendProperties
    <3>3. QED
      BY <1>2, <1>5, <1>7, <3>1, <3>2
  <2>2. ASSUME NEW a \in Listeners, NEW b \in Listeners,
               NEW i \in 1 .. Len(backlog'[a]), NEW j \in 1 .. Len(backlog'[b]),
               backlog'[a][i] = backlog'[b][j]
        PROVE  a = b /\ i = j
    <3>1. CASE backlog'[a][i] = k
      <4>1. a = l /\ i = Len(backlog[a]) + 1
        BY <2>1, <3>1
      <4>2. backlog'[b][j] = k
        BY <2>2, <3>1
      <4>3. b = l /\ j = Len(backlog[b]) + 1
        BY <2>1, <4>2
      <4>4. QED
        BY <4>1, <4>3
    <3>2. CASE backlog'[a][i] # k
      <4>1. i \in 1 .. Len(backlog[a]) /\ j \in 1 .. Len(backlog[b]) /\ backlog[a][i] = backlog[b][j]
        BY <2>1, <2>2, <3>2
      <4>2. QED
        BY <4>1 DEF FlowInv, BacklogInv
    <3>3. QED
      BY <3>1, <3>2
  <2>3. QED
    BY <2>1, <2>2 DEF BacklogInv
<1>14. FlowInv'
  BY <1>6, <1>9, <1>10, <1>11, <1>12, <1>13, PoolFrame
<1>15. QED
  BY <1>8, <1>14

LEMMA ConnectFailsFlow ==
  ASSUME PoolInv, FlowTypeOK, FlowInv, NEW c \in Clients, ConnectFails(c), UNCHANGED serverVars
  PROVE  FlowTypeOK' /\ FlowInv'
<1> USE DEF serverVars, acceptVars, sessionVars, netVars
<1>1. /\ pc' = [pc EXCEPT ![c] = "ready"] /\ turn' = [turn EXCEPT ![c] = @ + 1] /\ conn[c] = NoConn
      /\ UNCHANGED <<arrived, end, session, request, unsent, backlog, idle, conn, outbox, inbox>>
  BY DEF ConnectFails, Connecting, Is, Move, Over, PoolInv, HeldInv
<1>2. FlowTypeOK'
  BY <1>1 DEF FlowTypeOK, HasRequest, PoolInv, PoolTypeOK
<1>3. \A d \in Clients : d # c => KeptClient(d)
  BY <1>1 DEF KeptClient, PoolInv, PoolTypeOK
<1>4. \A j \in Conns : Kept(j)
  BY <1>1 DEF Kept
<1>5. ClientInv(c)'
  BY <1>1 DEF ClientInv
<1>6. \A i \in 1 .. Len(idle') : \E j \in Conns : idle'[i] = j /\ IdleInv(j) /\ j # NoConn
  BY <1>1, IdleMembers DEF FlowInv, PoolInv
<1>7. BacklogInv'
  BY <1>1, KeptBacklog DEF FlowInv
<1>8. NoConn \notin Conns
  BY ConnAssumption
<1>9. FlowInv'
  BY <1>3, <1>4, <1>5, <1>6, <1>7, <1>8, PoolFrame
<1>10. QED
  BY <1>2, <1>9

LEMMA GetIdleFlow ==
  ASSUME PoolInv, FlowTypeOK, FlowInv, NEW c \in Clients, GetIdle(c), UNCHANGED serverVars
  PROVE  FlowTypeOK' /\ FlowInv'
<1> USE DEF serverVars, acceptVars, sessionVars
<1> DEFINE r == Current(c)
<1>0. PoolTypeOK /\ Len(idle) \in Nat /\ Unusable = 0 /\ pc[c] = "ready" /\ HasRequest(c) /\ conn[c] = NoConn
  BY NoneUnusable, IdleMembers DEF PoolInv, HeldInv, GetIdle, Is
<1>1. r \in Requests /\ Asked[r] \in Nat
  <2>1. turn[c] \in Nat /\ turn[c] < Len(Plan[c]) /\ Plan[c] \in Seq(Requests)
    BY <1>0, ClientAssumption DEF HasRequest, PoolTypeOK
  <2>2. QED
    BY <2>1, BodyAssumption DEF Current
<1>2. UNCHANGED <<arrived, end>>
  <2>1. Hangup({idle[i] : i \in 1 .. Unusable}, "client") /\ {idle[i] : i \in 1 .. Unusable} = {}
    BY <1>0 DEF GetIdle
  <2>2. Hangup({}, "client")
    BY <2>1
  <2>3. end' = [k \in Conns |-> end[k]] /\ arrived' = [k \in Conns |-> arrived[k]]
    BY <2>2 DEF Hangup
  <2>4. QED
    BY <1>0, <2>3 DEF FlowTypeOK, PoolTypeOK
<1>3. UNCHANGED <<session, request, unsent, backlog, turn, inbox>>
  BY DEF GetIdle
<1>4. (\A j \in Conns : Kept(j)) /\ BacklogInv'
  <2>1. \A j \in Conns : Kept(j)
    BY <1>2, <1>3 DEF Kept
  <2>2. BacklogInv'
    BY <1>2, <1>3, KeptBacklog DEF FlowInv
  <2>3. QED
    BY <2>1, <2>2
<1>5. CASE idle = <<>>
  <2>1. /\ pc' = [pc EXCEPT ![c] = "connect"] /\ idle' = <<>> /\ UNCHANGED <<conn, outbox>>
    BY <1>0, <1>5 DEF GetIdle, Move
  <2>2. FlowTypeOK'
    BY <1>0, <1>2, <1>3, <2>1 DEF FlowTypeOK, HasRequest, PoolTypeOK
  <2>3. \A d \in Clients : d # c => KeptClient(d)
    BY <1>0, <1>3, <2>1 DEF KeptClient, PoolTypeOK
  <2>4. ClientInv(c)'
    BY <1>0, <2>1 DEF ClientInv
  <2>5. NoConn \notin Conns /\ Len(idle') = 0
    BY <2>1, ConnAssumption
  <2>6. FlowInv'
    BY <1>4, <2>3, <2>4, <2>5, PoolFrame
  <2>7. QED
    BY <2>2, <2>6
<1>6. CASE idle # <<>>
  <2>1. Unusable # Len(idle) /\ Unusable + 1 = 1 /\ Unusable + 2 = 2 /\ Len(idle) \in Nat \ {0}
    BY <1>0, <1>6 DEF PoolTypeOK
  <2>2. PICK k \in Conns : k = idle[1] /\ IdleInv(k) /\ IsConnected(k, "client") /\ SessionInv(k) /\ UnmadeInv(k)
    BY <2>1, IdleMembers DEF PoolInv, FlowInv, IdleConnected
  <2>3. /\ conn' = [conn EXCEPT ![c] = k] /\ pc' = [pc EXCEPT ![c] = "send"]
        /\ idle' = SubSeq(idle, 2, Len(idle)) /\ outbox' = [outbox EXCEPT ![c] = Message(r, Asked[r])]
    BY <2>1, <2>2 DEF GetIdle, Move, WriteRequest
  <2>4. conn'[c] = k /\ pc'[c] = "send" /\ outbox'[c] = Message(r, Asked[r]) /\ Current(c)' = r
    BY <1>0, <1>3, <2>3 DEF FlowTypeOK, PoolTypeOK, Current
  <2> HIDE DEF r
  <2>5. Message(r, Asked[r]) \in Seq(Parts)
    BY <1>1, MessageRun
  <2>6. FlowTypeOK'
    BY <1>0, <1>2, <1>3, <2>3, <2>5 DEF FlowTypeOK, HasRequest, PoolTypeOK
  <2>7. \A d \in Clients : d # c => KeptClient(d) /\ (conn[d] # NoConn => conn[d] # k)
    <3>1. \A d \in Clients : conn[d] # idle[1]
      BY <2>1 DEF PoolInv, PoolExact
    <3>2. QED
      BY <1>0, <1>3, <2>2, <2>3, <3>1 DEF KeptClient, FlowTypeOK, PoolTypeOK
  <2>8. /\ arrived[k]["server"] = <<>> /\ arrived[k]["client"] = <<>> /\ unsent[k] = <<>>
        /\ session[k] \in {"none", "head", "send"} \/ end[k]["server"] = "closed"
    BY <2>2 DEF IdleInv, SessionInv, Sides
  <2>9. ClientInv(c)'
    <3>1. IsConnected(k, "client")'
      BY <1>2, <2>2 DEF IsConnected
    <3>2. QED
      BY <1>1, <1>2, <1>3, <2>4, <2>8, <3>1, RequestBegins
  <2>10. SessionInv(k)' /\ UnmadeInv(k)'
    BY <1>4, <2>2, KeptSession
  <2>11. \A i \in 1 .. Len(idle') : \E j \in Conns : idle'[i] = j /\ IdleInv(j) /\ j # k
    <3>1. \A i \in 1 .. Len(idle') : idle'[i] = idle[i + 1] /\ i + 1 \in 1 .. Len(idle)
      BY <1>0, <1>6, <2>3, IdleRest
    <3> TAKE i \in 1 .. Len(idle')
    <3>2. i + 1 \in 1 .. Len(idle) /\ 1 \in 1 .. Len(idle) /\ i + 1 # 1 /\ idle'[i] = idle[i + 1]
      BY <2>1, <3>1
    <3>3. idle[i + 1] # idle[1]
      BY <3>2 DEF PoolInv, PoolExact
    <3>4. idle[i + 1] \in Conns /\ IdleInv(idle[i + 1])
      BY <1>0, <3>2, IdleMembers DEF FlowInv
    <3>5. QED
      BY <2>2, <3>2, <3>3, <3>4
  <2>12. \A j \in Conns \ {k} : Kept(j)
    BY <1>4
  <2>13. FlowInv'
    BY <1>4, <2>7, <2>9, <2>10, <2>11, <2>12, PoolFrame
  <2>14. QED
    BY <2>6, <2>13
<1>7. QED
  BY <1>5, <1>6

LEMMA ReleaseFlow ==
  ASSUME PoolInv, FlowTypeOK, FlowInv, NEW c \in Clients, Release(c), UNCHANGED serverVars
  PROVE  FlowTypeOK' /\ FlowInv'
<1> USE DEF serverVars, acceptVars, sessionVars
<1>1. PICK k \in Conns : conn[c] = k
  BY DEF Release, Is, PoolInv, HeldInv, PoolTypeOK
<1>2. /\ pc[c] = "release" /\ conn' = [conn EXCEPT ![c] = NoConn] /\ pc' = [pc EXCEPT ![c] = "ready"]
      /\ turn' = [turn EXCEPT ![c] = @ + 1] /\ inbox' = [inbox EXCEPT ![c] = Nothing]
      /\ UNCHANGED <<outbox, session, request, unsent, backlog>>
  BY DEF Release, Is, Move, Over
<1>3. /\ k # NoConn /\ end[k]["client"] # "none" /\ end[k]["server"] # "none"
      /\ (\A d \in Clients : d # c => conn[d] # k)
      /\ \A i \in 1 .. Len(idle) : idle[i] # k
  BY <1>1, ConnAssumption DEF PoolInv, HeldInv, PoolExact, FlowInv, UnmadeInv
<1>4. ClientInv(c)'
  BY <1>2 DEF ClientInv, PoolInv, PoolTypeOK
<1>5. \A d \in Clients : d # c => KeptClient(d)
  BY <1>2 DEF KeptClient, FlowTypeOK, PoolInv, PoolTypeOK
<1>6. ASSUME arrived' \in [Conns -> [Sides -> Seq(Parts)]]
      PROVE  FlowTypeOK'
  <2>1. Nothing \in Incoming
    BY EmptySeq DEF Nothing, Incoming
  <2>2. QED
    BY <1>2, <1>6, <2>1 DEF FlowTypeOK, HasRequest, PoolInv, PoolTypeOK
<1>7. CASE IsPooled(c) /\ Reusable(k)
  <2>1. idle' = Append(idle, k) /\ UNCHANGED <<arrived, end>>
    BY <1>1, <1>7 DEF Release, netVars
  <2>2. \A j \in Conns : Kept(j)
    BY <1>2, <2>1 DEF Kept
  <2>3. Reads(c, k) /\ OutboxInv(c)
    BY <1>1, <1>2, <1>7, ClientFacts DEF Reusable, Asks, IsConnected, Is
  <2>4. IdleInv(k)
    <3> DEFINE r == Current(c)
               g == Got(c)
               parts == arrived[k]["client"]
    <3>1. /\ r \in Requests /\ Answered[r] \in Nat /\ g \in Nat /\ Len(parts) \in Nat /\ Len(unsent[k]) \in Nat
          /\ inbox[c] \in Incoming /\ parts \in Seq(Parts) /\ unsent[k] \in Seq(Parts)
      BY <1>1, ConnTypes, ClientFacts DEF PoolInv
    <3>2. /\ g + Len(parts) + Len(unsent[k]) = Answered[r] + 1 /\ Intact(inbox[c], r, Answered[r])
          /\ arrived[k]["server"] = <<>> /\ session[k] \in {"send", "head", "ended"}
      BY <1>2, <2>3 DEF Reads, Is
    <3>3. g = 1 + Answered[r]
      <4>1. Len(inbox[c].body) = Answered[r]
        <5> HIDE DEF r
        <5>1. QED
          BY <3>1, <3>2, IntactLength
      <4>2. QED
        BY <1>2, <4>1 DEF Got, Is
    <3>4. Len(parts) = 0 /\ Len(unsent[k]) = 0
      <4> HIDE DEF r, g, parts
      <4>1. PICK x \in Nat, y \in Nat, a \in Nat : x = Len(parts) /\ y = Len(unsent[k]) /\ a = Answered[r]
        BY <3>1
      <4>2. 1 + a + x + y = a + 1
        BY <3>2, <3>3, <4>1
      <4>3. x = 0 /\ y = 0
        BY <4>2
      <4>4. QED
        BY <4>1, <4>3
    <3>5. parts = <<>> /\ unsent[k] = <<>>
      BY <3>1, <3>4, EmptySeq
    <3>6. arrived[k] \in [Sides -> Seq(Parts)]
      BY DEF FlowTypeOK
    <3>7. arrived[k] = [s \in Sides |-> <<>>]
      BY <3>2, <3>5, <3>6 DEF Sides
    <3>8. QED
      BY <3>2, <3>5, <3>7 DEF IdleInv
  <2>5. IdleInv(k)' /\ SessionInv(k)' /\ UnmadeInv(k)'
    BY <2>2, <2>4, KeptSession DEF FlowInv
  <2>6. \A i \in 1 .. Len(idle') : \E j \in Conns :
          idle'[i] = j /\ (j = k => IdleInv(j)') /\ (j # k => IdleInv(j))
    <3> TAKE i \in 1 .. Len(idle')
    <3>1. idle \in Seq(Conns) /\ Len(idle) \in Nat /\ Len(idle') = Len(idle) + 1
      BY <2>1, AppendProperties DEF PoolInv, PoolTypeOK
    <3>2. CASE i = Len(idle) + 1
      <4>1. idle'[i] = k
        BY <2>1, <3>1, <3>2, AppendProperties
      <4>2. QED
        BY <2>5, <4>1
    <3>3. CASE i # Len(idle) + 1
      <4>1. i \in 1 .. Len(idle)
        BY <3>1, <3>3
      <4>2. idle'[i] = idle[i]
        BY <2>1, <3>1, <4>1, AppendProperties
      <4>3. PICK j \in Conns : j = idle[i] /\ IdleInv(j) /\ j # k
        BY <1>3, <4>1, IdleMembers DEF PoolInv, FlowInv
      <4>4. QED
        BY <4>2, <4>3
    <3>4. QED
      BY <3>2, <3>3
  <2>7. BacklogInv'
    BY <1>2, <2>1, KeptBacklog DEF FlowInv
  <2>8. FlowInv'
    BY <1>3, <1>4, <1>5, <2>2, <2>5, <2>6, <2>7, PoolFrame
  <2>9. QED
    BY <1>6, <2>1, <2>8 DEF FlowTypeOK
<1>8. CASE ~(IsPooled(c) /\ Reusable(k))
  <2>1. Close(k, "client") /\ UNCHANGED idle
    BY <1>1, <1>8 DEF Release
  <2>2. /\ \A j \in Conns \ {k} : arrived'[j] = arrived[j] /\ end'[j] = end[j]
        /\ arrived' \in [Conns -> [Sides -> Seq(Parts)]]
        /\ arrived'[k]["server"] = arrived[k]["server"]
        /\ end'[k]["client"] \in {"closed", end[k]["client"]}
        /\ \/ end'[k]["server"] = end[k]["server"]
           \/ end[k]["server"] = "open" /\ end'[k]["server"] = "reset"
    <3>1. "client" \in Sides /\ Peer("client") = "server" /\ PoolTypeOK
      BY DEF Sides, Peer, PoolInv
    <3>2. QED
      BY <2>1, <3>1, CloseEffect
  <2>3. \A j \in Conns \ {k} : Kept(j)
    BY <1>2, <2>2 DEF Kept
  <2>4. SessionInv(k)'
    <3>1. SessionInv(k)
      BY DEF FlowInv
    <3>2. CASE session[k] = "body"
      BY <1>2, <2>2, <3>1, <3>2 DEF SessionInv, SlipsBounded
    <3>3. CASE session[k] # "body"
      BY <1>2, <2>2, <3>1, <3>3 DEF SessionInv
    <3>4. QED
      BY <3>2, <3>3
  <2>5. UnmadeInv(k)'
    BY <1>3, <2>2 DEF UnmadeInv
  <2>6. \A i \in 1 .. Len(idle') : \E j \in Conns : idle'[i] = j /\ IdleInv(j) /\ j # k
    BY <1>3, <2>1, IdleMembers DEF PoolInv, FlowInv
  <2>7. BacklogInv'
    <3>1. \A j \in Conns : session[j] = "none" /\ end[j]["client"] # "none" =>
                             session'[j] = "none" /\ end'[j]["client"] # "none"
      BY <1>2, <1>3, <2>2
    <3>2. QED
      BY <1>2, <3>1, KeptBacklog DEF FlowInv
  <2>8. FlowInv'
    BY <1>3, <1>4, <1>5, <2>3, <2>4, <2>5, <2>6, <2>7, PoolFrame
  <2>9. QED
    BY <1>6, <2>2, <2>8
<1>9. QED
  BY <1>7, <1>8

-----------------------------------------------------------------------------
(* Whole steps                                                             *)

LEMMA FlowGivesAnswers == PoolInv /\ FlowTypeOK /\ FlowInv => AnswersMatch
<1> SUFFICES ASSUME PoolInv, FlowTypeOK, FlowInv
             PROVE  AnswersMatch
  OBVIOUS
<1>1. ASSUME NEW c \in Clients, Is(c, "release"), inbox[c] # Failed
      PROVE  Intact(inbox[c], Current(c), Answered[Current(c)])
  <2>1. PICK k \in Conns : conn[c] = k
    BY <1>1 DEF Is, PoolInv, HeldInv, PoolTypeOK
  <2>2. Reads(c, k)
    BY <1>1, <2>1, ClientFacts DEF Asks, Is
  <2>3. QED
    BY <1>1, <2>2 DEF Reads
<1>2. ASSUME NEW k \in Conns, At(k, "answer")
      PROVE  Intact(request[k], request[k].of, Asked[request[k].of])
  BY <1>2 DEF FlowInv, SessionInv, At
<1>3. QED
  BY <1>1, <1>2 DEF AnswersMatch

LEMMA SessionFlow ==
  ASSUME ShortBodies, PoolInv, FlowTypeOK, FlowInv, AnswersMatch, Alive,
         NEW k \in Conns, SessionMoves(k)
  PROVE  FlowTypeOK' /\ (Alive' => FlowInv') /\ (FlowInv' \/ AnswersMatch')
<1>0. SessionStep(k) /\ UNCHANGED poolVars
  BY DEF SessionMoves
<1>1. SessionInv(k)
  BY DEF FlowInv
<1>2. ASSUME NEW n \in 1 .. Len(arrived[k]["server"]), SessionHead(k, n) \/ SessionBody(k, n)
      PROVE  FlowTypeOK' /\ FlowInv'
  BY <1>0, <1>2, SessionHeadFlow, SessionBodyFlow
<1>3. CASE SessionHeadFails(k) \/ SessionBodyEnds(k)
  <2>1. /\ session[k] \in {"head", "body", "send"} /\ EndSession(k) /\ UNCHANGED <<unsent, acceptVars>>
        /\ unsent[k] = <<>>
    BY <1>1, <1>3 DEF SessionHeadFails, SessionBodyEnds, At, SessionInv
  <2>2. QED
    BY <1>0, <2>1, EndSessionFlow
<1>4. CASE SessionBodySlips(k)
  BY <1>0, <1>4, SessionBodySlipsFlow
<1>5. CASE Answer(k)
  BY <1>0, <1>5, AnswerFlow
<1>6. CASE SessionSent(k)
  <2>1. session[k] = "send" /\ unsent[k] = <<>> /\ UNCHANGED <<unsent, acceptVars>>
    BY <1>6 DEF SessionSent, At
  <2>2. CASE KeepAlive
    <3>1. session' = [session EXCEPT ![k] = "head"] /\ UNCHANGED <<netVars, request>>
      BY <1>6, <2>2 DEF SessionSent, Goto
    <3>2. QED
      BY <1>0, <2>1, <3>1, NextRequestFlow
  <2>3. CASE ~KeepAlive
    <3>1. EndSession(k) /\ session[k] \in {"head", "body", "send"}
      BY <1>6, <2>1, <2>3 DEF SessionSent
    <3>2. QED
      BY <1>0, <2>1, <3>1, EndSessionFlow
  <2>4. QED
    BY <2>2, <2>3
<1>7. ASSUME NEW n \in 1 .. Len(unsent[k]), SessionSend(k, n)
      PROVE  FlowTypeOK' /\ (Alive' => FlowInv') /\ AnswersMatch'
  <2>1. AnswersMatch'
    BY <1>0, <1>7 DEF AnswersMatch, SessionSend, poolVars, Is, At, Current, Intact
  <2>2. QED
    BY <1>0, <1>7, <2>1, SessionSendFlow
<1>8. QED
  BY <1>0, <1>2, <1>3, <1>4, <1>5, <1>6, <1>7 DEF SessionStep

LEMMA ClientFlow ==
  ASSUME ShortBodies, PoolInv, FlowTypeOK, FlowInv, AnswersMatch, Alive,
         NEW c \in Clients, ClientMoves(c)
  PROVE  FlowTypeOK' /\ (Alive' => FlowInv') /\ (FlowInv' \/ AnswersMatch')
<1>1. ASSUME NEW k \in Conns, Connect(c, k)
      PROVE  FlowTypeOK' /\ FlowInv'
  BY <1>1, ConnectFlow
<1>2. CASE ClientStep(c) /\ UNCHANGED serverVars
  <2>1. CASE GetIdle(c) \/ ConnectFails(c) \/ ClientBodySlips(c) \/ Release(c)
    BY <1>2, <2>1, GetIdleFlow, ConnectFailsFlow, ClientBodySlipsFlow, ReleaseFlow
  <2>2. ASSUME NEW n \in 1 .. Len(outbox[c]), ClientSend(c, n)
        PROVE  FlowTypeOK' /\ (Alive' => FlowInv') /\ AnswersMatch'
    <3>1. \A d \in Clients : Is(d, "release")' => Is(d, "release")
      BY <2>2 DEF ClientSend, Is, Move, PoolInv, PoolTypeOK
    <3>2. UNCHANGED <<inbox, turn, session, request>>
      BY <1>2, <2>2 DEF ClientSend, serverVars, sessionVars
    <3>3. AnswersMatch'
      BY <3>1, <3>2 DEF AnswersMatch, At, Current, Intact
    <3>4. QED
      BY <1>2, <2>2, <3>3, ClientSendFlow
  <2>3. ASSUME NEW k \in Conns, k = conn[c], NEW n \in 1 .. Len(arrived[k]["client"]),
               ClientHead(c, n) \/ ClientBody(c, n)
        PROVE  FlowTypeOK' /\ FlowInv'
    BY <1>2, <2>3, ClientHeadFlow, ClientBodyFlow
  <2>4. CASE ClientHeadFails(c) \/ ClientBodyEnds(c)
    <3>1. Fail(c) /\ pc[c] \in {"head", "body"} /\ UNCHANGED <<idle, conn, turn, outbox>>
      BY <2>4 DEF ClientHeadFails, ClientBodyEnds, Is
    <3>2. QED
      BY <1>2, <3>1, FailFlow
  <2>5. QED
    BY <1>2, <2>1, <2>2, <2>3, <2>4 DEF ClientStep
<1>3. QED
  BY <1>1, <1>2 DEF ClientMoves

LEMMA LoopFlow ==
  ASSUME PoolInv, FlowTypeOK, FlowInv, SocketsBound, UNCHANGED poolVars,
         Start \/ Stop \/ CloseSockets \/ \E a \in Loops : LoopStep(a)
  PROVE  FlowTypeOK' /\ FlowInv'
<1>1. CASE CloseSockets
  BY <1>1, CloseSocketsFlow
<1>2. ASSUME NEW a \in Loops, Accept(a)
      PROVE  FlowTypeOK' /\ FlowInv'
  BY <1>2, AcceptFlow
<1>3. ASSUME UNCHANGED <<netVars, sessionVars, backlog>>
      PROVE  FlowTypeOK' /\ FlowInv'
  BY <1>3, QuietFlow
<1>4. QED
  BY <1>1, <1>2, <1>3 DEF LoopStep, Start, Stop, AcceptCheck, AcceptFails

LEMMA ExchangeInvInit == Init => ExchangeInv
<1> SUFFICES ASSUME Init
             PROVE  ExchangeInv
  OBVIOUS
<1> USE DEF Init, NetInit, PoolInit, ServerInit
<1>1. PoolInv
  BY PoolInvInit
<1>2. <<>> \in Seq(Parts) /\ <<>> \in Seq(Conns) /\ Len(<<>>) = 0
  OBVIOUS
<1>3. FlowTypeOK
  <2>1. Nothing \in Incoming
    BY <1>2 DEF Nothing, Incoming
  <2>2. QED
    BY <1>2, <2>1 DEF FlowTypeOK, HasRequest
<1>4. SocketsBound
  BY DEF SocketsBound, Bind
<1>5. FlowInv
  <2>1. ASSUME NEW k \in Conns
        PROVE  SessionInv(k) /\ UnmadeInv(k)
    BY DEF SessionInv, UnmadeInv, Sides
  <2>2. \A c \in Clients : ClientInv(c)
    BY DEF ClientInv
  <2>3. BacklogInv
    BY <1>2 DEF BacklogInv
  <2>4. \A i \in 1 .. Len(idle) : IdleInv(idle[i])
    BY <1>2
  <2>5. QED
    BY <2>1, <2>2, <2>3, <2>4 DEF FlowInv
<1>6. AnswersMatch
  BY <1>1, <1>3, <1>5, FlowGivesAnswers
<1>7. QED
  BY <1>1, <1>3, <1>4, <1>5, <1>6 DEF ExchangeInv

LEMMA ExchangeInvStep ==
  ASSUME ShortBodies, ExchangeInv, [Next]_vars
  PROVE  ExchangeInv'
<1> USE DEF ExchangeInv
<1>1. PoolInv'
  BY PoolInvStep
<1>2. SocketsBound'
  <2>1. sockets' = sockets \/ sockets' = {}
    BY DEF Next, vars, ClientMoves, Connect, SessionMoves, LoopMoves, SessionStep, SessionHead,
           SessionBody, SessionHeadFails, SessionBodyEnds, SessionBodySlips, Answer, SessionSent,
           SessionSend, LoopStep, AcceptCheck, Accept, AcceptFails, Start, Stop, CloseSockets,
           serverVars, acceptVars
  <2>2. QED
    BY <2>1 DEF SocketsBound
<1>3. CASE UNCHANGED vars
  <2> USE <1>3 DEF vars, netVars, poolVars, serverVars, acceptVars, sessionVars
  <2>1. FlowTypeOK'
    BY DEF FlowTypeOK, HasRequest
  <2>2. AnswersMatch'
    BY DEF AnswersMatch, Is, At, Current, Intact
  <2>3. Alive' => FlowInv'
    <3>1. Alive' = Alive
      BY DEF Alive
    <3>2. QED
      BY <3>1, QuietFlow
  <2>4. QED
    BY <1>1, <1>2, <2>1, <2>2, <2>3
<1>4. CASE Next
  <2>1. Alive /\ PoolInv /\ FlowTypeOK /\ FlowInv /\ SocketsBound /\ AnswersMatch
    BY <1>4 DEF Next
  <2>2. FlowTypeOK' /\ (Alive' => FlowInv') /\ (FlowInv' \/ AnswersMatch')
    <3>1. CASE \E c \in Clients : ClientMoves(c)
      BY <2>1, <3>1, ClientFlow
    <3>2. CASE \E k \in Conns : SessionMoves(k)
      BY <2>1, <3>2, SessionFlow
    <3>3. CASE (\E a \in Loops : LoopMoves(a)) \/ ((Start \/ Stop \/ CloseSockets) /\ UNCHANGED poolVars)
      BY <2>1, <3>3, LoopFlow DEF LoopMoves
    <3>4. QED
      BY <1>4, <3>1, <3>2, <3>3 DEF Next
  <2>3. PoolInv' /\ FlowTypeOK' /\ FlowInv' => AnswersMatch'
    BY FlowGivesAnswers, PTL
  <2>4. QED
    BY <1>1, <1>2, <2>2, <2>3
<1>5. QED
  BY <1>3, <1>4

\* A request that succeeds gets the response made for it, whole, whoever used the
\* connection before, and a servlet gets whole requests; whatever breaks off, is reset or
\* times out (http-connection.cpp:34-180, 456-495, http-session.cpp:15-85). The bodies are
\* so short that the number of bytes still to be read does not wrap around.
THEOREM AnswersAlwaysMatch == ASSUME ShortBodies PROVE Spec => []AnswersMatch
<1>1. ExchangeInv => AnswersMatch
  BY DEF ExchangeInv
<1>2. Init => ExchangeInv
  BY ExchangeInvInit
<1>3. ExchangeInv /\ [Next]_vars => ExchangeInv'
  BY ExchangeInvStep
<1>4. QED
  BY <1>1, <1>2, <1>3, PTL DEF Spec
=============================================================================

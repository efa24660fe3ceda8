---------------------------- MODULE TimerInvariant ----------------------------
(***************************************************************************)
(* The inductive invariant of TimerManager: what OneHolder, CancelFinal,   *)
(* NoTimerLost, OneShot and StopAwaitsTimers need to be preserved by every *)
(* step.                                                                   *)
(***************************************************************************)
EXTENDS TimerManager

\* th has changed or will change the timer of its operation.
Operating(th) == pc[th] \in {"insert", "set_due"}

\* The timer of an operation was added, and is not one the thread collected and
\* has not treated yet.
InvOperation ==
  \A th \in Threads : Operating(th) => op[th].timer \in added /\ op[th].timer \notin expired[th]

\* Only the loop of getExpired_callbacks() has expired timers.
InvExpired ==
  \A th \in Threads : expired[th] # {} =>
    pc[th] = "rearm" \/ (pc[th] = "insert" /\ op[th].ret = "rearm")

\* What the manager knows of was added by the application.
InvAdded ==
  /\ timers \subseteq added /\ cancelled \subseteq added
  /\ \A th \in Threads : expired[th] \subseteq added
  /\ \A t \in Timers : runs[t] > 0 => t \in added

\* A timer that was collected and does not recur is over.
InvRuns ==
  /\ \A th \in Threads : \A t \in expired[th] : runs[t] > 0
  /\ \A t \in Timers \ Recurring : runs[t] > 0 =>
       /\ runs[t] = 1 /\ t \notin timers
       /\ \A th \in Threads : Operating(th) => op[th].timer # t

\* A thread leaves run() only after stop(), which the application calls when it
\* is done with its timers.
InvStop ==
  /\ \A p \in Pollers : pc[p] = "exited" => stopping
  /\ stopping => \A u \in Users : pc[u] = "run"

TimerInv ==
  /\ TypeOK /\ InvOperation /\ InvExpired /\ InvAdded /\ InvRuns /\ InvStop
  /\ OneHolder /\ CancelFinal /\ NoTimerLost /\ StopAwaitsTimers

-----------------------------------------------------------------------------
(* The sleep of the pollers, as long as no timer is refreshed or reset     *)

\* Poller p wakes up in time for timer t, unless that is further away than MaxWait.
InTime(p, t) == wake[p] <= mono + UntilNext(t) \/ UntilNext(t) > MaxWait

\* A timer that is put into the set is new, or put back by the poller that collected it.
InvInsert ==
  \A th \in Threads : Operating(th) =>
    At(th, "insert") /\ (op[th].ret = "tickle" \/ (op[th].ret = "rearm" /\ th \in Pollers))

\* Unless a poller is up or about to be woken, one wakes up in time for each timer.
WakeInv ==
  /\ InvInsert
  /\ \A p \in Pollers : At(p, "epoll") => wake[p] <= mono + MaxWait
  /\ \/ pipeReady
     \/ \E th \in Threads : At(th, "tickle")
     \/ \E p \in Pollers : ~At(p, "epoll")
     \/ \A t \in timers : \E p \in Pollers : InTime(p, t)
=============================================================================

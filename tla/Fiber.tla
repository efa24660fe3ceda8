------------------------------- MODULE Fiber --------------------------------
(***************************************************************************)
(* The coroutines of src/src/concurrent/fiber.cpp: the state word m_state  *)
(* that every thread of the scheduler reads without a lock, and whether    *)
(* the ucontext_t m_context holds a context that may be resumed.           *)
(*                                                                         *)
(* A switch to the background is two steps in the code, and two here: the  *)
(* fiber first publishes its new state (READY, HOLD, TERMINAL or EXCEPT)   *)
(* and only then swapcontext() saves the context it will be resumed from.  *)
(* Between the two the fiber still runs on its old stack.                  *)
(***************************************************************************)
CONSTANT Fibers

VARIABLES
  state,      \* m_state of each fiber
  saved       \* m_context of the fiber is a context that may be resumed

fiberVars == <<state, saved>>

FiberState == {"INITIALIZE", "EXECUTE", "READY", "HOLD", "TERMINAL", "EXCEPT"}

\* The states in which run() drops a fiber instead of switching to it.
Finished == {"TERMINAL", "EXCEPT"}

FiberTypeOK ==
  /\ state \in [Fibers -> FiberState]
  /\ saved \in [Fibers -> BOOLEAN]

\* Fiber::Fiber(): makecontext() leaves a context that starts MainFunction.
FiberInit ==
  /\ state = [f \in Fibers |-> "INITIALIZE"]
  /\ saved = [f \in Fibers |-> TRUE]

\* swapIn() can go on: its assertion (not EXECUTE) holds and the context it
\* jumps to is complete. Otherwise the assertion aborts the process, or the
\* thread jumps to the context of an older suspension, over a live stack.
CanSwapIn(f) == state[f] # "EXECUTE" /\ saved[f]

\* swapIn(): the fiber is on a processor, its m_context is stale from now on.
SwapIn(f) ==
  /\ state' = [state EXCEPT ![f] = "EXECUTE"]
  /\ saved' = [saved EXCEPT ![f] = FALSE]

\* First half of YieldToReady(), YieldToHold() and the end of MainFunction():
\* publish s.
Publish(f, s) ==
  /\ state' = [state EXCEPT ![f] = s]
  /\ UNCHANGED saved

\* Mutant of SwapOut: the context is left without being saved.
SwapOutDiscarding(f) == UNCHANGED fiberVars

\* swapOut(): swapcontext() saves m_context and leaves the fiber.
SwapOut(f) ==
  /\ saved' = [saved EXCEPT ![f] = TRUE]
  /\ UNCHANGED state
=============================================================================

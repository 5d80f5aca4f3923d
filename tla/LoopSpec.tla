------------------------------ MODULE LoopSpec ------------------------------
(***************************************************************************)
(* What Common::BlockingLoop (Common/BlockingLoop.h) promises its clients, *)
(* with its events, locks, flags and the sleeping state left out: after a  *)
(* Wakeup the loop is done again only when a payload run that began later  *)
(* is complete, and until then a last run is still owed.  BlockingLoop     *)
(* implements it; Fifo is built on it.                                     *)
(***************************************************************************)
EXTENDS Integers

VARIABLES
  state,      \* m_running_state, asleep being a way of being done
  place,      \* where the worker is: between runs, in the payload, in the switch
  stopping    \* the loop is being started or stopped, and promises nothing

DONE == 1
LAST == 2
NEED == 3

vars == <<state, place, stopping>>

TypeOK == state \in DONE .. NEED /\ place \in {"idle", "payload", "switch"} /\ stopping \in BOOLEAN

IsDone == state = DONE

Wakeup ==
  /\ state' = NEED
  /\ UNCHANGED place

\* The worker also runs the payload of a loop that is done: while it has not
\* been allowed to sleep, and when its timeout expires.
Begin ==
  /\ place = "idle" /\ place' = "payload"
  /\ UNCHANGED state

End ==
  /\ place = "payload" /\ place' = "switch"
  /\ UNCHANGED state

Dec ==
  /\ place = "switch"
  /\ \/ state = NEED /\ state' = LAST /\ place' = "idle"
     \/ state = LAST /\ state' = DONE /\ UNCHANGED place

\* Not with the last run still to be counted.
Leave ==
  /\ place = "switch" /\ state # LAST /\ place' = "idle"
  /\ UNCHANGED state

Lifecycle ==
  /\ stopping \/ stopping'
  /\ state' \in DONE .. NEED /\ place' \in {"idle", "payload", "switch"} /\ stopping' \in BOOLEAN

Init == TypeOK

Next == \/ (Wakeup \/ Begin \/ End \/ Dec \/ Leave) /\ UNCHANGED stopping
        \/ Lifecycle

Spec == Init /\ [][Next]_vars

\* A worker that passes the switch again and again counts the runs down: it
\* cannot always leave with a Wakeup that arrived after it had looked.
Fairness == <>[]~stopping => SF_vars(Dec /\ UNCHANGED stopping)
=============================================================================

------------------------------ MODULE EventSpec ------------------------------
(***************************************************************************)
(* What Common::Event promises: an auto-reset event.  Setting it any       *)
(* number of times before somebody waits is the same as setting it once,   *)
(* and each time it is set releases at most one waiter.                    *)
(***************************************************************************)
CONSTANT Threads

VARIABLES
  signalled,   \* the event is set
  waiting      \* the threads inside Wait or WaitFor

vars == <<signalled, waiting>>

Init == signalled = FALSE /\ waiting = {}

Set == signalled' = TRUE /\ UNCHANGED waiting

Reset == signalled' = FALSE /\ UNCHANGED waiting

StartWait(t) == t \notin waiting /\ waiting' = waiting \cup {t} /\ UNCHANGED signalled

\* A wait that consumes the signal, blocked before or not.
WaitReturns(t) == signalled /\ signalled' = FALSE /\ waiting' = waiting \ {t}

\* Only WaitFor gives up; the abstraction does not tell the two apart.
TimesOut(t) == t \in waiting /\ waiting' = waiting \ {t} /\ UNCHANGED signalled

Release == \E t \in waiting : WaitReturns(t)

Next == Set \/ Reset \/ \E t \in Threads : StartWait(t) \/ WaitReturns(t) \/ TimesOut(t)

Spec == Init /\ [][Next]_vars

\* A signal that stays set while somebody waits releases a waiter.
FairSpec == Spec /\ WF_vars(Release)
=============================================================================

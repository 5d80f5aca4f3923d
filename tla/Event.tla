-------------------------------- MODULE Event --------------------------------
(***************************************************************************)
(* Common::Event (Common/Event.h) over Common::Flag (Common/Flag.h): an    *)
(* atomic flag that is tested and changed outside the mutex, and a mutex   *)
(* and a condition variable that are only touched when a thread has to     *)
(* sleep or may have to be woken.                                          *)
(*                                                                         *)
(* One action per access to m_flag and per acquisition of m_mutex.  A      *)
(* condition variable wakes a waiter after a notification, or spuriously.  *)
(***************************************************************************)
EXTENDS Naturals

CONSTANTS
  Threads,
  NoThread     \* m_mutex is free

ASSUME ThreadsAssumption == NoThread \notin Threads

VARIABLES
  m_flag,
  m_mutex,     \* the thread that holds it
  pc,          \* where each thread is
  timed,       \* the thread's wait is a WaitFor
  notified     \* the sleepers notify_one has chosen that have not run yet

vars == <<m_flag, m_mutex, pc, timed, notified>>

(* "notify": in Set, about to lock; "wantLock": in Wait, about to lock;    *)
(* "tested": holds the lock, found the flag clear; "asleep": in m_condvar. *)
Places  == {"idle", "notify", "wantLock", "tested", "asleep"}
InWait  == {"wantLock", "tested", "asleep"}
Asleep  == {t \in Threads : pc[t] = "asleep"}

TypeOK ==
  /\ m_flag \in BOOLEAN
  /\ m_mutex \in Threads \cup {NoThread}
  /\ pc \in [Threads -> Places]
  /\ timed \in [Threads -> BOOLEAN]
  /\ notified \in SUBSET Threads

GoTo(t, place) == pc' = [pc EXCEPT ![t] = place]

\* m_flag.TestAndSet(): only the thread that changes the flag notifies.  A
\* Set that finds the flag set changes nothing and needs no action.
Set(t) ==
  /\ pc[t] = "idle" /\ ~m_flag
  /\ m_flag' = TRUE
  /\ GoTo(t, "notify")
  /\ UNCHANGED <<m_mutex, timed, notified>>

\* Mutant: notify_one is called without holding m_mutex.
NotifyWithoutLock(t) ==
  /\ pc[t] = "notify"
  /\ \/ Asleep \subseteq notified /\ UNCHANGED notified
     \/ \E w \in Asleep \ notified : notified' = notified \cup {w}
  /\ GoTo(t, "idle")
  /\ UNCHANGED <<m_flag, m_mutex, timed>>

\* m_condvar.notify_one() under m_mutex.
Notify(t) ==
  /\ pc[t] = "notify" /\ m_mutex = NoThread
  /\ \/ Asleep \subseteq notified /\ UNCHANGED notified
     \/ \E w \in Asleep \ notified : notified' = notified \cup {w}
  /\ GoTo(t, "idle")
  /\ UNCHANGED <<m_flag, m_mutex, timed>>

\* The first TestAndClear of Wait (for = FALSE) or WaitFor, without the mutex.
Wait(t, for) ==
  /\ pc[t] = "idle"
  /\ m_flag' = FALSE
  /\ GoTo(t, IF m_flag THEN "idle" ELSE "wantLock")
  /\ timed' = [timed EXCEPT ![t] = for]
  /\ UNCHANGED <<m_mutex, notified>>

\* Take the mutex and evaluate the predicate, TestAndClear: return, or keep
\* the mutex until the thread sleeps.
Test(t) ==
  /\ m_mutex = NoThread
  /\ m_flag' = FALSE
  /\ m_mutex' = IF m_flag THEN NoThread ELSE t
  /\ GoTo(t, IF m_flag THEN "idle" ELSE "tested")
  /\ UNCHANGED timed

Lock(t) == pc[t] = "wantLock" /\ Test(t) /\ UNCHANGED notified

Sleep(t) ==
  /\ pc[t] = "tested"
  /\ GoTo(t, "asleep")
  /\ m_mutex' = NoThread
  /\ UNCHANGED <<m_flag, timed, notified>>

Wake(t) == pc[t] = "asleep" /\ Test(t) /\ notified' = notified \ {t}

\* wait_for evaluates the predicate once more before it reports a timeout.
TimeOut(t) ==
  /\ pc[t] = "asleep" /\ timed[t] /\ m_mutex = NoThread
  /\ m_flag' = FALSE
  /\ GoTo(t, "idle")
  /\ notified' = notified \ {t}
  /\ UNCHANGED <<m_mutex, timed>>

Reset(t) ==
  /\ pc[t] = "idle"
  /\ m_flag' = FALSE
  /\ UNCHANGED <<m_mutex, pc, timed, notified>>

Init ==
  /\ m_flag = FALSE
  /\ m_mutex = NoThread
  /\ pc = [t \in Threads |-> "idle"]
  /\ timed = [t \in Threads |-> FALSE]
  /\ notified = {}

Step(t) == \/ Set(t) \/ Notify(t) \/ Lock(t) \/ Sleep(t) \/ Wake(t) \/ TimeOut(t) \/ Reset(t)
           \/ \E for \in BOOLEAN : Wait(t, for)

Next == \E t \in Threads : Step(t)

Spec == Init /\ [][Next]_vars

\* Every thread is scheduled; a sleeper need not wake unless it is notified.
Continue(t) == Notify(t) \/ Lock(t) \/ Sleep(t) \/ (t \in notified /\ Wake(t))

FairSpec == Spec /\ \A t \in Threads : WF_vars(Continue(t))

-----------------------------------------------------------------------------
(* Properties.                                                             *)

\* The event is set and a thread sleeps, or is about to, only while somebody
\* is about to notify or a notified thread is about to look: the flag is
\* changed outside the mutex, and still no wake-up falls in between.
NoLostWakeup ==
  m_flag /\ (\E t \in Threads : pc[t] \in {"tested", "asleep"})
    => \/ \E t \in Threads : pc[t] = "notify"
       \/ notified # {}

\* With the facts that make it inductive: who holds the mutex, who is notified.
IndInv ==
  /\ TypeOK
  /\ \A t \in Threads : m_mutex = t <=> pc[t] = "tested"
  /\ notified \subseteq Asleep
  /\ NoLostWakeup

\* Event implements the auto-reset event, its liveness included.
Abstract == INSTANCE EventSpec
              WITH signalled <- m_flag, waiting <- {t \in Threads : pc[t] \in InWait}
AbstractSpec == Abstract!Spec
AbstractFairSpec == Abstract!FairSpec
=============================================================================

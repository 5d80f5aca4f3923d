----------------------------- MODULE EventProofs -----------------------------
(***************************************************************************)
(* Proofs about Event.tla, for any set of threads: no wake-up is lost, and *)
(* the flag with its mutex and condition variable implements EventSpec.    *)
(***************************************************************************)
EXTENDS Event, TLAPS

\* Nobody waits at first.
LEMMA InitIndInv == Init => IndInv
BY ThreadsAssumption DEF Init, IndInv, TypeOK, NoLostWakeup, Asleep, Places

\* Every step of Set, Wait, WaitFor and Reset keeps the invariant.
LEMMA NextIndInv == IndInv /\ [Next]_vars => IndInv'
<1> SUFFICES ASSUME IndInv, [Next]_vars PROVE IndInv'
  OBVIOUS
<1> USE ThreadsAssumption DEF IndInv, TypeOK, NoLostWakeup, Asleep, Places, GoTo
<1>1. ASSUME NEW t \in Threads, Set(t) PROVE IndInv'
  BY <1>1 DEF Set
<1>2. ASSUME NEW t \in Threads, Notify(t) PROVE IndInv'
  <2>1. CASE Asleep \subseteq notified /\ UNCHANGED notified
    BY <1>2, <2>1 DEF Notify
  <2>2. ASSUME NEW w \in Asleep \ notified, notified' = notified \cup {w} PROVE IndInv'
    BY <1>2, <2>2 DEF Notify
  <2> QED BY <1>2, <2>1, <2>2 DEF Notify
<1>3. ASSUME NEW t \in Threads, NEW for \in BOOLEAN, Wait(t, for) PROVE IndInv'
  BY <1>3 DEF Wait
<1>4. ASSUME NEW t \in Threads, Lock(t) PROVE IndInv'
  BY <1>4 DEF Lock, Test
<1>5. ASSUME NEW t \in Threads, Sleep(t) PROVE IndInv'
  BY <1>5 DEF Sleep
<1>6. ASSUME NEW t \in Threads, Wake(t) PROVE IndInv'
  BY <1>6 DEF Wake, Test
<1>7. ASSUME NEW t \in Threads, TimeOut(t) PROVE IndInv'
  BY <1>7 DEF TimeOut
<1>8. ASSUME NEW t \in Threads, Reset(t) PROVE IndInv'
  BY <1>8 DEF Reset
<1>9. CASE UNCHANGED vars
  BY <1>9 DEF vars
<1> QED BY <1>1, <1>2, <1>3, <1>4, <1>5, <1>6, <1>7, <1>8, <1>9 DEF Next, Step

\* The invariant of Event holds, whatever the threads do.
THEOREM Invariance == Spec => []IndInv
BY InitIndInv, NextIndInv, PTL DEF Spec

\* A set event with a sleeper always has somebody about to wake the sleeper.
THEOREM WakeupsAreKept == Spec => []NoLostWakeup
<1>1. IndInv => NoLostWakeup
  BY DEF IndInv
<1> QED BY <1>1, Invariance, PTL

-----------------------------------------------------------------------------

\* Each access to the flag is a step of the auto-reset event, and each step
\* that only touches the mutex or the condition variable is invisible.
LEMMA StepImplements == IndInv /\ [Next]_vars => [Abstract!Next]_(Abstract!vars)
<1> SUFFICES ASSUME IndInv, [Next]_vars PROVE [Abstract!Next]_(Abstract!vars)
  OBVIOUS
<1>a. pc \in [Threads -> Places] /\ m_flag \in BOOLEAN
  BY DEF IndInv, TypeOK
<1> USE <1>a DEF InWait, GoTo
<1>1. ASSUME NEW t \in Threads, Set(t) PROVE Abstract!Set
  BY <1>1 DEF Set, Abstract!Set
<1>2. ASSUME NEW t \in Threads, Notify(t) PROVE UNCHANGED Abstract!vars
  BY <1>2 DEF Notify, Abstract!vars
<1>3. ASSUME NEW t \in Threads, NEW for \in BOOLEAN, Wait(t, for)
      PROVE  Abstract!StartWait(t) \/ Abstract!WaitReturns(t)
  BY <1>3 DEF Wait, Abstract!StartWait, Abstract!WaitReturns
<1>4. ASSUME NEW t \in Threads, Lock(t)
      PROVE  Abstract!WaitReturns(t) \/ UNCHANGED Abstract!vars
  BY <1>4 DEF Lock, Test, Abstract!WaitReturns, Abstract!vars
<1>5. ASSUME NEW t \in Threads, Sleep(t) PROVE UNCHANGED Abstract!vars
  BY <1>5 DEF Sleep, Abstract!vars
<1>6. ASSUME NEW t \in Threads, Wake(t)
      PROVE  Abstract!WaitReturns(t) \/ UNCHANGED Abstract!vars
  BY <1>6 DEF Wake, Test, Abstract!WaitReturns, Abstract!vars
<1>7. ASSUME NEW t \in Threads, TimeOut(t)
      PROVE  Abstract!WaitReturns(t) \/ Abstract!TimesOut(t)
  BY <1>7 DEF TimeOut, Abstract!WaitReturns, Abstract!TimesOut
<1>8. ASSUME NEW t \in Threads, Reset(t) PROVE Abstract!Reset
  BY <1>8 DEF Reset, Abstract!Reset
<1>9. CASE UNCHANGED vars
  BY <1>9 DEF vars, Abstract!vars
<1> QED
  BY <1>1, <1>2, <1>3, <1>4, <1>5, <1>6, <1>7, <1>8, <1>9 DEF Next, Step, Abstract!Next

\* Common::Event implements the auto-reset event (without its liveness).
THEOREM Implements == Spec => AbstractSpec
<1>1. Init => Abstract!Init
  BY DEF Init, Abstract!Init, InWait
<1> QED BY <1>1, StepImplements, Invariance, PTL DEF Spec, AbstractSpec, Abstract!Spec
=============================================================================

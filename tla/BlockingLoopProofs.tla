------------------------- MODULE BlockingLoopProofs -------------------------
(***************************************************************************)
(* Proofs about BlockingLoop.tla, for any set of clients and calls.        *)
(***************************************************************************)
EXTENDS BlockingLoop, TLAPS

USE DEF STATE_SLEEPING, STATE_DONE, STATE_LAST_EXECUTION, STATE_NEED_EXECUTION

\* A fresh loop satisfies the invariant, whatever m_running_state holds.
LEMMA InitIndInv == Init => IndInv
BY ThreadsAssumption
   DEF Init, IndInv, TypeOK, PlaceInv, StateInv, PendingInv, worker, Threads, Before, InLoop,
       Preparing, Executing, PreparePlaces, WorkerPlaces, ClientPlaces, StopModes

-----------------------------------------------------------------------------
(* Prepare, from a client or from Run.                                     *)

\* Each step of Prepare keeps the invariant.
LEMMA PrepareIndInv ==
  ASSUME IndInv, NEW t \in Threads, PrepareStep(t)
  PROVE  IndInv'
<1> USE ThreadsAssumption
    DEF IndInv, TypeOK, Threads, worker, Before, InLoop, Preparing, Executing, PreparePlaces,
        WorkerPlaces, ClientPlaces, WakeupPlaces, WaitPlaces, GoTo, Return, events, locks, calls, runs
<1>1. CASE PrepareTest(t)
  <2>1. TypeOK'
    <3>1. CASE m_stopped
      BY <1>1, <3>1 DEF PrepareTest
    <3>2. CASE ~m_stopped
      BY <1>1, <3>2 DEF PrepareTest
    <3> QED BY <3>1, <3>2
  <2>2. PlaceInv'
    BY <1>1 DEF PrepareTest, PlaceInv
  <2>3. StateInv'
    BY <1>1 DEF PrepareTest, PlaceInv, StateInv
  <2>4. PendingInv'
    BY <1>1 DEF PrepareTest, PlaceInv, StateInv, PendingInv
  <2> QED BY <2>1, <2>2, <2>3, <2>4
<1>2. CASE PrepareStore(t)
  <2>1. TypeOK'
    BY <1>2 DEF PrepareStore
  <2>2. PlaceInv'
    BY <1>2 DEF PrepareStore, PlaceInv
  <2>3. StateInv'
    BY <1>2 DEF PrepareStore, PlaceInv, StateInv
  <2>4. PendingInv'
    BY <1>2 DEF PrepareStore, PlaceInv, StateInv, PendingInv
  <2> QED BY <2>1, <2>2, <2>3, <2>4
<1>3. CASE PrepareClear(t)
  <2>1. TypeOK'
    BY <1>3 DEF PrepareClear
  <2>2. PlaceInv'
    BY <1>3 DEF PrepareClear, PlaceInv
  <2>3. StateInv'
    BY <1>3 DEF PrepareClear, PlaceInv, StateInv
  <2>4. PendingInv'
    BY <1>3 DEF PrepareClear, PlaceInv, StateInv, PendingInv
  <2> QED BY <2>1, <2>2, <2>3, <2>4
<1>4. CASE PrepareSleep(t)
  <2>1. TypeOK'
    BY <1>4 DEF PrepareSleep
  <2>2. PlaceInv'
    BY <1>4 DEF PrepareSleep, PlaceInv
  <2>3. StateInv'
    BY <1>4 DEF PrepareSleep, PlaceInv, StateInv
  <2>4. PendingInv'
    BY <1>4 DEF PrepareSleep, PlaceInv, StateInv, PendingInv
  <2> QED BY <2>1, <2>2, <2>3, <2>4
<1> QED BY <1>1, <1>2, <1>3, <1>4 DEF PrepareStep

-----------------------------------------------------------------------------
(* The worker.                                                             *)

\* Each step of the worker keeps the invariant.
LEMMA WorkerIndInv ==
  ASSUME IndInv, WorkerStep
  PROVE  IndInv'
<1> USE ThreadsAssumption
    DEF IndInv, TypeOK, Threads, worker, Before, InLoop, Preparing, Executing, PreparePlaces,
        WorkerPlaces, ClientPlaces, GoTo, FlagsUnchanged, Frame, events, locks, calls, runs
<1>1. CASE Run
  <2>1. TypeOK' /\ PlaceInv'
    BY <1>1 DEF Run, PlaceInv
  <2>2. StateInv'
    BY <1>1 DEF Run, PlaceInv, StateInv
  <2>3. PendingInv'
    BY <1>1 DEF Run, PlaceInv, StateInv, PendingInv
  <2> QED BY <2>1, <2>2, <2>3
<1>2. CASE Check
  <2>1. TypeOK' /\ PlaceInv'
    BY <1>2 DEF Check, PlaceInv
  <2>2. StateInv'
    BY <1>2 DEF Check, PlaceInv, StateInv
  <2>3. PendingInv'
    BY <1>2 DEF Check, PlaceInv, StateInv, PendingInv
  <2> QED BY <2>1, <2>2, <2>3
<1>3. CASE PayloadDone
  <2>1. TypeOK' /\ PlaceInv'
    BY <1>3 DEF PayloadDone, PlaceInv
  <2>2. StateInv'
    BY <1>3 DEF PayloadDone, PlaceInv, StateInv
  <2>3. PendingInv'
    BY <1>3 DEF PayloadDone, PlaceInv, StateInv, PendingInv
  <2> QED BY <2>1, <2>2, <2>3
<1>4. CASE Load
  <2>1. TypeOK' /\ PlaceInv'
    BY <1>4 DEF Load, PlaceInv
  <2>2. StateInv'
    BY <1>4 DEF Load, PlaceInv, StateInv
  <2>3. PendingInv'
    BY <1>4 DEF Load, PlaceInv, StateInv, PendingInv
  <2> QED BY <2>1, <2>2, <2>3
<1>5. CASE DecNeed
  <2>1. TypeOK' /\ PlaceInv'
    BY <1>5 DEF DecNeed, PlaceInv, StateInv
  <2>2. StateInv'
    BY <1>5 DEF DecNeed, PlaceInv, StateInv
  <2>3. PendingInv'
    BY <1>5 DEF DecNeed, PlaceInv, StateInv, PendingInv
  <2> QED BY <2>1, <2>2, <2>3
<1>6. CASE DecLast
  <2>1. TypeOK' /\ PlaceInv'
    BY <1>6 DEF DecLast, PlaceInv, StateInv
  <2>2. StateInv'
    BY <1>6 DEF DecLast, PlaceInv, StateInv
  <2>3. PendingInv'
    BY <1>6 DEF DecLast, PlaceInv, StateInv, PendingInv
  <2> QED BY <2>1, <2>2, <2>3
<1>7. CASE SetDone
  <2>1. TypeOK' /\ PlaceInv'
    BY <1>7 DEF SetDone, PlaceInv
  <2>2. StateInv'
    BY <1>7 DEF SetDone, PlaceInv, StateInv
  <2>3. PendingInv'
    BY <1>7 DEF SetDone, PlaceInv, StateInv, PendingInv
  <2> QED BY <2>1, <2>2, <2>3
<1>8. CASE MaySleep
  <2>1. TypeOK' /\ PlaceInv'
    BY <1>8 DEF MaySleep, PlaceInv
  <2>2. StateInv'
    BY <1>8 DEF MaySleep, PlaceInv, StateInv
  <2>3. PendingInv'
    BY <1>8 DEF MaySleep, PlaceInv, StateInv, PendingInv
  <2> QED BY <2>1, <2>2, <2>3
<1>9. CASE DecDone
  <2>1. TypeOK' /\ PlaceInv'
    BY <1>9 DEF DecDone, PlaceInv, StateInv
  <2>2. StateInv'
    BY <1>9 DEF DecDone, PlaceInv, StateInv
  <2>3. PendingInv'
    BY <1>9 DEF DecDone, PlaceInv, StateInv, PendingInv
  <2> QED BY <2>1, <2>2, <2>3
<1>10. CASE Sleep
  <2>1. TypeOK' /\ PlaceInv'
    BY <1>10 DEF Sleep, PlaceInv
  <2>2. StateInv'
    BY <1>10 DEF Sleep, PlaceInv, StateInv
  <2>3. PendingInv'
    BY <1>10 DEF Sleep, PlaceInv, StateInv, PendingInv
  <2> QED BY <2>1, <2>2, <2>3
<1>11. CASE ExitStore
  <2>1. TypeOK' /\ PlaceInv'
    BY <1>11 DEF ExitStore, PlaceInv
  <2>2. StateInv'
    BY <1>11 DEF ExitStore, PlaceInv, StateInv
  <2>3. PendingInv'
    BY <1>11 DEF ExitStore, PlaceInv, StateInv, PendingInv
  <2> QED BY <2>1, <2>2, <2>3
<1>12. CASE ExitStopped
  <2>1. TypeOK' /\ PlaceInv'
    BY <1>12 DEF ExitStopped, PlaceInv
  <2>2. StateInv'
    BY <1>12 DEF ExitStopped, PlaceInv, StateInv
  <2>3. PendingInv'
    BY <1>12 DEF ExitStopped, PlaceInv, StateInv, PendingInv
  <2> QED BY <2>1, <2>2, <2>3
<1>13. CASE ExitDone
  <2>1. TypeOK' /\ PlaceInv'
    BY <1>13 DEF ExitDone, PlaceInv
  <2>2. StateInv'
    BY <1>13 DEF ExitDone, PlaceInv, StateInv
  <2>3. PendingInv'
    BY <1>13 DEF ExitDone, PlaceInv, StateInv, PendingInv
  <2> QED BY <2>1, <2>2, <2>3
<1>14. CASE PrepareStep(Worker)
  BY <1>14, PrepareIndInv
<1> QED
  BY <1>1, <1>2, <1>3, <1>4, <1>5, <1>6, <1>7, <1>8, <1>9, <1>10, <1>11, <1>12, <1>13, <1>14
     DEF WorkerStep

-----------------------------------------------------------------------------
(* The clients.                                                            *)

\* Each step of a client keeps the invariant.
LEMMA ClientIndInv ==
  ASSUME IndInv, NEW c \in Clients, ClientStep(c)
  PROVE  IndInv'
<1> USE ThreadsAssumption
    DEF IndInv, TypeOK, Threads, worker, Before, InLoop, Preparing, Executing, PreparePlaces,
        ClientPlaces, WakeupPlaces, WaitPlaces, StopModes, GoTo, FlagsUnchanged, Frame, events,
        locks, calls, runs
<1>1. CASE PrepareStep(c)
  BY <1>1, PrepareIndInv
<1>2. CASE Prepare(c)
  <2>1. TypeOK'
    BY <1>2 DEF Prepare, Idle, PlaceInv
  <2>2. PlaceInv'
    BY <1>2 DEF Prepare, Idle, PlaceInv
  <2>3. StateInv'
    BY <1>2 DEF Prepare, Idle, PlaceInv, StateInv
  <2>4. PendingInv'
    BY <1>2 DEF Prepare, Idle, PlaceInv, StateInv, PendingInv
  <2> QED BY <2>1, <2>2, <2>3, <2>4
<1>3. CASE AllowSleep(c)
  <2>1. TypeOK'
    BY <1>3 DEF AllowSleep, Idle, PlaceInv
  <2>2. PlaceInv'
    BY <1>3 DEF AllowSleep, Idle, PlaceInv
  <2>3. StateInv'
    BY <1>3 DEF AllowSleep, Idle, PlaceInv, StateInv
  <2>4. PendingInv'
    BY <1>3 DEF AllowSleep, Idle, PlaceInv, StateInv, PendingInv
  <2> QED BY <2>1, <2>2, <2>3, <2>4
<1>4. CASE Wakeup(c)
  <2>1. TypeOK'
    BY <1>4 DEF Wakeup, Idle, WakeLoad, AfterWakeup, PlaceInv
  <2>2. PlaceInv'
    BY <1>4 DEF Wakeup, Idle, WakeLoad, AfterWakeup, PlaceInv
  <2>3. StateInv'
    BY <1>4 DEF Wakeup, Idle, WakeLoad, AfterWakeup, PlaceInv, StateInv
  <2>4. PendingInv'
    BY <1>4 DEF Wakeup, Idle, WakeLoad, AfterWakeup, PlaceInv, StateInv, PendingInv
  <2> QED BY <2>1, <2>2, <2>3, <2>4
<1>5. CASE StopWakeup(c)
  <2>1. TypeOK'
    BY <1>5 DEF StopWakeup, WakeLoad, AfterWakeup, PlaceInv
  <2>2. PlaceInv'
    BY <1>5 DEF StopWakeup, WakeLoad, AfterWakeup, PlaceInv
  <2>3. StateInv'
    BY <1>5 DEF StopWakeup, WakeLoad, AfterWakeup, PlaceInv, StateInv
  <2>4. PendingInv'
    BY <1>5 DEF StopWakeup, WakeLoad, AfterWakeup, PlaceInv, StateInv, PendingInv
  <2> QED BY <2>1, <2>2, <2>3, <2>4
<1>6. CASE WakeExchange(c)
  <2>1. TypeOK'
    BY <1>6 DEF WakeExchange, AfterWakeup, PlaceInv
  <2>2. PlaceInv'
    BY <1>6 DEF WakeExchange, AfterWakeup, PlaceInv
  <2>3. StateInv'
    BY <1>6 DEF WakeExchange, AfterWakeup, PlaceInv, StateInv
  <2>4. PendingInv'
    BY <1>6 DEF WakeExchange, AfterWakeup, PlaceInv, StateInv, PendingInv
  <2> QED BY <2>1, <2>2, <2>3, <2>4
<1>7. CASE WakeSet(c)
  <2>1. TypeOK'
    BY <1>7 DEF WakeSet, AfterWakeup, PlaceInv
  <2>2. PlaceInv'
    BY <1>7 DEF WakeSet, AfterWakeup, PlaceInv
  <2>3. StateInv'
    BY <1>7 DEF WakeSet, AfterWakeup, PlaceInv, StateInv
  <2>4. PendingInv'
    BY <1>7 DEF WakeSet, AfterWakeup, PlaceInv, StateInv, PendingInv
  <2> QED BY <2>1, <2>2, <2>3, <2>4
<1>8. CASE Wait(c)
  <2>1. TypeOK'
    BY <1>8 DEF Wait, Idle, PlaceInv
  <2>2. PlaceInv'
    BY <1>8 DEF Wait, Idle, PlaceInv
  <2>3. StateInv'
    BY <1>8 DEF Wait, Idle, PlaceInv, StateInv
  <2>4. PendingInv'
    BY <1>8 DEF Wait, Idle, PlaceInv, StateInv, PendingInv
  <2> QED BY <2>1, <2>2, <2>3, <2>4
<1>9. CASE IsDoneStopped(c)
  <2>1. TypeOK'
    BY <1>9 DEF IsDoneStopped, PlaceInv
  <2>2. PlaceInv'
    BY <1>9 DEF IsDoneStopped, PlaceInv
  <2>3. StateInv'
    BY <1>9 DEF IsDoneStopped, PlaceInv, StateInv
  <2>4. PendingInv'
    BY <1>9 DEF IsDoneStopped, PlaceInv, StateInv, PendingInv
  <2> QED BY <2>1, <2>2, <2>3, <2>4
<1>10. CASE IsDoneState(c)
  <2>1. TypeOK'
    BY <1>10 DEF IsDoneState, PlaceInv
  <2>2. PlaceInv'
    BY <1>10 DEF IsDoneState, PlaceInv
  <2>3. StateInv'
    BY <1>10 DEF IsDoneState, PlaceInv, StateInv
  <2>4. PendingInv'
    BY <1>10 DEF IsDoneState, PlaceInv, StateInv, PendingInv
  <2> QED BY <2>1, <2>2, <2>3, <2>4
<1>11. CASE WaitLock(c)
  <2>1. TypeOK'
    BY <1>11 DEF WaitLock, PlaceInv
  <2>2. PlaceInv'
    BY <1>11 DEF WaitLock, PlaceInv
  <2>3. StateInv'
    BY <1>11 DEF WaitLock, PlaceInv, StateInv
  <2>4. PendingInv'
    BY <1>11 DEF WaitLock, PlaceInv, StateInv, PendingInv
  <2> QED BY <2>1, <2>2, <2>3, <2>4
<1>12. CASE WaitEvent(c)
  <2>1. TypeOK'
    BY <1>12 DEF WaitEvent, PlaceInv
  <2>2. PlaceInv'
    BY <1>12 DEF WaitEvent, PlaceInv
  <2>3. StateInv'
    BY <1>12 DEF WaitEvent, PlaceInv, StateInv
  <2>4. PendingInv'
    BY <1>12 DEF WaitEvent, PlaceInv, StateInv, PendingInv
  <2> QED BY <2>1, <2>2, <2>3, <2>4
<1>13. CASE GiveUp(c)
  <2>1. TypeOK'
    BY <1>13 DEF GiveUp, PlaceInv
  <2>2. PlaceInv'
    BY <1>13 DEF GiveUp, PlaceInv
  <2>3. StateInv'
    BY <1>13 DEF GiveUp, PlaceInv, StateInv
  <2>4. PendingInv'
    BY <1>13 DEF GiveUp, PlaceInv, StateInv, PendingInv
  <2> QED BY <2>1, <2>2, <2>3, <2>4
<1>14. CASE WaitDone(c)
  <2>1. TypeOK'
    BY <1>14 DEF WaitDone, PlaceInv
  <2>2. PlaceInv'
    BY <1>14 DEF WaitDone, PlaceInv
  <2>3. StateInv'
    BY <1>14 DEF WaitDone, PlaceInv, StateInv
  <2>4. PendingInv'
    BY <1>14 DEF WaitDone, PlaceInv, StateInv, PendingInv
  <2> QED BY <2>1, <2>2, <2>3, <2>4
<1>15. CASE StopShutdown(c)
  <2>1. TypeOK'
    BY <1>15 DEF StopShutdown, PlaceInv
  <2>2. PlaceInv'
    BY <1>15 DEF StopShutdown, PlaceInv
  <2>3. StateInv'
    BY <1>15 DEF StopShutdown, PlaceInv, StateInv
  <2>4. PendingInv'
    BY <1>15 DEF StopShutdown, PlaceInv, StateInv, PendingInv
  <2> QED BY <2>1, <2>2, <2>3, <2>4
<1>16. ASSUME NEW m \in StopModes, Stop(c, m) PROVE IndInv'
  <2>1. TypeOK'
    BY <1>16 DEF Stop, Idle, PlaceInv
  <2>2. PlaceInv'
    BY <1>16 DEF Stop, Idle, PlaceInv
  <2>3. StateInv'
    BY <1>16 DEF Stop, Idle, PlaceInv, StateInv
  <2>4. PendingInv'
    BY <1>16 DEF Stop, Idle, PlaceInv, StateInv, PendingInv
  <2> QED BY <2>1, <2>2, <2>3, <2>4
<1> QED
  BY <1>1, <1>2, <1>3, <1>4, <1>5, <1>6, <1>7, <1>8, <1>9, <1>10, <1>11, <1>12, <1>13, <1>14, <1>15, <1>16
     DEF ClientStep, Continue

-----------------------------------------------------------------------------
(* Theorems.                                                               *)

\* The invariant is inductive.
LEMMA NextIndInv == IndInv /\ [Next]_vars => IndInv'
<1> SUFFICES ASSUME IndInv, [Next]_vars PROVE IndInv'
  OBVIOUS
<1>1. CASE Next
  BY <1>1, WorkerIndInv, ClientIndInv DEF Next
<1>2. CASE UNCHANGED vars
  BY <1>2 DEF vars, events, locks, calls, runs, IndInv, TypeOK, PlaceInv, StateInv, PendingInv, worker
<1> QED BY <1>1, <1>2

\* m_running_state keeps to its four values ("must be of type RUNNING_TYPE"),
\* and no stored Wakeup is forgotten, for any set of clients and calls.
THEOREM Invariance == Spec => []IndInv
BY InitIndInv, NextIndInv, PTL DEF Spec

\* The worker never sleeps on work.
THEOREM SleepsOnlyWhenDone == Spec => []NoSleepOnWork
<1>1. IndInv => NoSleepOnWork
  BY DEF IndInv, TypeOK, StateInv, PendingInv, NoSleepOnWork, worker, InLoop
<1> QED BY <1>1, Invariance, PTL

\* Wait returns only after a complete payload run that began after the last
\* Wakeup of its caller, unless the loop is being shut down.
THEOREM WaitIsSound == Spec => WaitSeesPayload
<1> DEFINE Sees ==
      \A c \in Clients :
        pc[c] \in {"isDoneState", "lockedState"} /\ pc'[c] \in {"idle", "allowSleep"}
          => c \notin pending \/ m_shutdown
<1>1. IndInv /\ [Next]_vars => [Sees]_vars
  <2> SUFFICES ASSUME IndInv, Next, NEW c \in Clients,
                      pc[c] \in {"isDoneState", "lockedState"}, pc'[c] \in {"idle", "allowSleep"},
                      c \in pending, ~m_shutdown
               PROVE  FALSE
    OBVIOUS
  <2>1. m_running_state <= STATE_DONE
    <3>1. CASE WorkerStep
      BY <3>1, ThreadsAssumption
         DEF WorkerStep, Run, PrepareStep, PrepareTest, PrepareStore, PrepareClear, PrepareSleep,
             Return, Check, PayloadDone, Load, DecNeed, DecLast, SetDone, MaySleep, DecDone, Sleep,
             ExitStore, ExitStopped, ExitDone, GoTo, IndInv, TypeOK, Threads
    <3>2. ASSUME NEW d \in Clients, d # c, ClientStep(d) PROVE FALSE
      BY <3>2, ThreadsAssumption
         DEF ClientStep, Continue, PrepareStep, PrepareTest, PrepareStore, PrepareClear, PrepareSleep,
             Return, StopWakeup, WakeLoad, AfterWakeup, WakeExchange, WakeSet, IsDoneStopped,
             IsDoneState, WaitLock, WaitEvent, GiveUp, WaitDone, StopShutdown, Prepare, AllowSleep,
             Wakeup, Wait, Stop, GoTo, IndInv, TypeOK, Threads
    <3>3. CASE ClientStep(c)
      BY <3>3
         DEF ClientStep, Continue, PrepareStep, PrepareTest, PrepareStore, PrepareClear, PrepareSleep,
             StopWakeup, WakeExchange, WakeSet, IsDoneStopped, IsDoneState, WaitLock, WaitEvent,
             GiveUp, WaitDone, StopShutdown, Prepare, AllowSleep, Wakeup, Wait, Stop, Idle, GoTo,
             IndInv, TypeOK, Threads
    <3> QED BY <3>1, <3>2, <3>3 DEF Next
  <2> QED
    BY <2>1 DEF IndInv, PendingInv, Executing
<1> QED BY <1>1, Invariance, PTL DEF Spec, WaitSeesPayload

-----------------------------------------------------------------------------
(* BlockingLoop implements LoopSpec.                                       *)

\* The abstract variables have their types.
LEMMA LoopTypes ==
  ASSUME TypeOK
  PROVE  loopState \in 1 .. 3 /\ loopPlace \in {"idle", "payload", "switch"} /\ loopStopping \in BOOLEAN
BY DEF TypeOK, loopState, loopPlace, loopStopping

\* Every step is a step of the abstract loop or leaves it alone.
LEMMA LoopStep == ASSUME IndInv, IndInv', [Next]_vars PROVE [Loop!Next]_(Loop!vars)
<1>t. /\ loopState \in 1 .. 3 /\ loopPlace \in {"idle", "payload", "switch"} /\ loopStopping \in BOOLEAN
      /\ loopState' \in 1 .. 3 /\ loopPlace' \in {"idle", "payload", "switch"} /\ loopStopping' \in BOOLEAN
  BY LoopTypes DEF IndInv, TypeOK, loopState, loopPlace, loopStopping
<1> USE ThreadsAssumption, <1>t
    DEF IndInv, TypeOK, PlaceInv, StateInv, worker, Threads, Before, InLoop, Preparing, Executing, PreparePlaces, GoTo,
        Return, Frame, FlagsUnchanged, AfterWakeup, events, locks, calls, runs, loopState, loopPlace, loopStopping,
        Loop!Next, Loop!vars, Loop!Wakeup, Loop!Begin, Loop!End, Loop!Dec, Loop!Leave, Loop!Lifecycle,
        Loop!DONE, Loop!LAST, Loop!NEED
<1>1. CASE Run
  BY <1>1 DEF Run
<1>2. CASE Check
  BY <1>2 DEF Check
<1>3. CASE PayloadDone
  BY <1>3 DEF PayloadDone
<1>4. CASE Load
  BY <1>4 DEF Load
<1>5. CASE DecNeed
  BY <1>5 DEF DecNeed
<1>6. CASE DecLast
  BY <1>6 DEF DecLast
<1>7. CASE SetDone
  BY <1>7 DEF SetDone
<1>8. CASE MaySleep
  BY <1>8 DEF MaySleep
<1>9. CASE DecDone
  BY <1>9 DEF DecDone
<1>10. CASE Sleep
  BY <1>10 DEF Sleep
<1>11. CASE ExitStore
  BY <1>11 DEF ExitStore
<1>12. CASE ExitStopped
  BY <1>12 DEF ExitStopped
<1>13. CASE ExitDone
  BY <1>13 DEF ExitDone
<1>14. ASSUME NEW t \in Threads, PrepareTest(t) PROVE [Loop!Next]_(Loop!vars)
  BY <1>14 DEF PrepareTest
<1>15. ASSUME NEW t \in Threads, PrepareStore(t) PROVE [Loop!Next]_(Loop!vars)
  BY <1>15 DEF PrepareStore
<1>16. ASSUME NEW t \in Threads, PrepareClear(t) PROVE [Loop!Next]_(Loop!vars)
  BY <1>16 DEF PrepareClear
<1>17. ASSUME NEW t \in Threads, PrepareSleep(t) PROVE [Loop!Next]_(Loop!vars)
  BY <1>17 DEF PrepareSleep
<1>18. ASSUME NEW c \in Clients, Prepare(c) PROVE [Loop!Next]_(Loop!vars)
  BY <1>18 DEF Prepare, Idle
<1>19. ASSUME NEW c \in Clients, AllowSleep(c) PROVE [Loop!Next]_(Loop!vars)
  BY <1>19 DEF AllowSleep, Idle
<1>20. ASSUME NEW c \in Clients, Wakeup(c) PROVE [Loop!Next]_(Loop!vars)
  BY <1>20 DEF Wakeup, Idle, WakeLoad
<1>21. ASSUME NEW c \in Clients, StopWakeup(c) PROVE [Loop!Next]_(Loop!vars)
  BY <1>21 DEF StopWakeup, WakeLoad
<1>22. ASSUME NEW c \in Clients, WakeExchange(c) PROVE [Loop!Next]_(Loop!vars)
  BY <1>22 DEF WakeExchange
<1>23. ASSUME NEW c \in Clients, WakeSet(c) PROVE [Loop!Next]_(Loop!vars)
  BY <1>23 DEF WakeSet
<1>24. ASSUME NEW c \in Clients, Wait(c) PROVE [Loop!Next]_(Loop!vars)
  BY <1>24 DEF Wait, Idle
<1>25. ASSUME NEW c \in Clients, IsDoneStopped(c) PROVE [Loop!Next]_(Loop!vars)
  BY <1>25 DEF IsDoneStopped
<1>26. ASSUME NEW c \in Clients, IsDoneState(c) PROVE [Loop!Next]_(Loop!vars)
  BY <1>26 DEF IsDoneState
<1>27. ASSUME NEW c \in Clients, WaitLock(c) PROVE [Loop!Next]_(Loop!vars)
  BY <1>27 DEF WaitLock
<1>28. ASSUME NEW c \in Clients, WaitEvent(c) PROVE [Loop!Next]_(Loop!vars)
  BY <1>28 DEF WaitEvent
<1>29. ASSUME NEW c \in Clients, WaitDone(c) PROVE [Loop!Next]_(Loop!vars)
  BY <1>29 DEF WaitDone
<1>30. ASSUME NEW c \in Clients, StopShutdown(c) PROVE [Loop!Next]_(Loop!vars)
  BY <1>30 DEF StopShutdown
<1>31. ASSUME NEW c \in Clients, GiveUp(c) PROVE [Loop!Next]_(Loop!vars)
  BY <1>31 DEF GiveUp
<1>32. ASSUME NEW c \in Clients, NEW m \in StopModes, Stop(c, m) PROVE [Loop!Next]_(Loop!vars)
  BY <1>32 DEF Stop, Idle
<1>33. CASE UNCHANGED vars
  BY <1>33 DEF vars
<1> QED
  BY <1>1, <1>2, <1>3, <1>4, <1>5, <1>6, <1>7, <1>8, <1>9, <1>10, <1>11, <1>12, <1>13, <1>14, <1>15, <1>16, <1>17, <1>18, <1>19, <1>20, <1>21, <1>22, <1>23, <1>24, <1>25, <1>26, <1>27, <1>28, <1>29, <1>30, <1>31, <1>32, <1>33
     DEF Next, WorkerStep, ClientStep, Continue, PrepareStep

\* No interleaving of the atomic accesses to m_running_state loses the payload
\* run that a Wakeup is owed, or lets IsDone answer before it is complete.
THEOREM LoopIsImplemented == Spec => LoopImplemented
<1>1. Init => Loop!Init
  BY InitIndInv, LoopTypes DEF IndInv, Loop!Init, Loop!TypeOK, Loop!DONE, Loop!NEED
<1>2. IndInv /\ IndInv' /\ [Next]_vars => [Loop!Next]_(Loop!vars)
  BY LoopStep
<1> QED BY <1>1, <1>2, Invariance, PTL DEF Spec, LoopImplemented, Loop!Spec
=============================================================================

---------------------------- MODULE BlockingLoop ----------------------------
(***************************************************************************)
(* Common::BlockingLoop (Common/BlockingLoop.h): one worker thread runs a  *)
(* payload whenever a client has called Wakeup, and sleeps otherwise.      *)
(*                                                                         *)
(* One action per access to an atomic variable, flag, event or lock.  The  *)
(* two events are auto-reset events, which is what module Event implements.*)
(***************************************************************************)
EXTENDS Integers

CONSTANTS
  Clients,    \* threads that call everything but Run
  Worker,     \* the thread that calls Run
  NoThread,   \* a free lock
  Periodic,   \* Run was given a timeout
  Calls       \* the calls each client makes

ASSUME ThreadsAssumption == Worker \notin Clients /\ NoThread \notin Clients \cup {Worker}
ASSUME PeriodicAssumption == Periodic \in BOOLEAN

StopModes == {"kNonBlock", "kBlock", "kBlockAndGiveUp"}

ASSUME CallsAssumption ==
  Calls \in [Clients -> SUBSET ({"Prepare", "AllowSleep", "Wakeup", "Wait"} \cup StopModes)]

VARIABLES
  m_running_state,
  m_stopped, m_shutdown, m_may_sleep,    \* Flags
  m_new_work_event, m_done_event,        \* Events
  m_wait_lock, m_prepare_lock,           \* their holders
  pc,          \* where each thread is
  mode,        \* the StopMode of each client's call, "none" outside Stop
  destroyed,   \* the destructor has been called
  pending,     \* history: clients with no complete payload run since their last Wakeup
  covered      \* history: those for which the payload run in progress is one

events == <<m_new_work_event, m_done_event>>
locks  == <<m_wait_lock, m_prepare_lock>>
calls  == <<mode, destroyed>>
runs   == <<pending, covered>>
vars   == <<m_running_state, m_stopped, m_shutdown, m_may_sleep, events, locks, pc, calls, runs>>

Threads == Clients \cup {Worker}

STATE_SLEEPING       == 0
STATE_DONE           == 1
STATE_LAST_EXECUTION == 2
STATE_NEED_EXECUTION == 3

PreparePlaces == {"prepare", "prepareStore", "prepareClear", "prepareSleep"}
WorkerPlaces  == {"outside", "check", "payload", "load", "decNeed", "decLast", "setDone", "maySleep",
                  "decDone", "sleep", "exitStore", "exitStopped", "exitDone"} \cup PreparePlaces
WakeupPlaces  == {"stopShutdown", "wakeLoad", "wakeExchange", "wakeSet"}
WaitPlaces    == {"isDone", "isDoneState", "waitLock", "locked", "lockedState", "waitEvent", "allowSleep"}
ClientPlaces  == {"idle"} \cup PreparePlaces \cup WakeupPlaces \cup WaitPlaces

TypeOK ==
  /\ m_running_state \in STATE_SLEEPING .. STATE_NEED_EXECUTION
  /\ m_stopped \in BOOLEAN /\ m_shutdown \in BOOLEAN /\ m_may_sleep \in BOOLEAN
  /\ m_new_work_event \in BOOLEAN /\ m_done_event \in BOOLEAN
  /\ m_wait_lock \in Clients \cup {NoThread}
  /\ m_prepare_lock \in Threads \cup {NoThread}
  /\ pc \in [Threads -> WorkerPlaces \cup ClientPlaces]
  /\ pc[Worker] \in WorkerPlaces /\ \A c \in Clients : pc[c] \in ClientPlaces
  /\ mode \in [Clients -> StopModes \cup {"none"}]
  /\ destroyed \in BOOLEAN
  /\ pending \subseteq Clients /\ covered \subseteq pending

GoTo(t, place) == pc' = [pc EXCEPT ![t] = place]

-----------------------------------------------------------------------------
(* Prepare, from a client or from Run, under m_prepare_lock.               *)

Return(t) == GoTo(t, IF t = Worker THEN "check" ELSE "idle")

PrepareTest(t) ==
  /\ pc[t] = "prepare" /\ m_prepare_lock = NoThread
  /\ m_stopped' = FALSE
  /\ IF m_stopped THEN GoTo(t, "prepareStore") /\ m_prepare_lock' = t
                  ELSE Return(t) /\ UNCHANGED m_prepare_lock
  /\ UNCHANGED <<m_running_state, m_shutdown, m_may_sleep, events, m_wait_lock, calls, runs>>

PrepareStore(t) ==
  /\ pc[t] = "prepareStore"
  /\ m_running_state' = STATE_LAST_EXECUTION
  /\ GoTo(t, "prepareClear")
  /\ UNCHANGED <<m_stopped, m_shutdown, m_may_sleep, events, locks, calls, runs>>

PrepareClear(t) ==
  /\ pc[t] = "prepareClear"
  /\ m_shutdown' = FALSE
  /\ GoTo(t, "prepareSleep")
  /\ UNCHANGED <<m_running_state, m_stopped, m_may_sleep, events, locks, calls, runs>>

PrepareSleep(t) ==
  /\ pc[t] = "prepareSleep"
  /\ m_may_sleep' = TRUE
  /\ m_prepare_lock' = NoThread
  /\ Return(t)
  /\ UNCHANGED <<m_running_state, m_stopped, m_shutdown, events, m_wait_lock, calls, runs>>

PrepareStep(t) == PrepareTest(t) \/ PrepareStore(t) \/ PrepareClear(t) \/ PrepareSleep(t)

-----------------------------------------------------------------------------
(* The worker: Run.                                                        *)

FlagsUnchanged == UNCHANGED <<m_stopped, m_shutdown, m_may_sleep>>
Frame == UNCHANGED <<locks, calls>>

Run ==
  /\ pc[Worker] = "outside" /\ ~destroyed
  /\ GoTo(Worker, "prepare")
  /\ UNCHANGED <<m_running_state, events, runs>> /\ FlagsUnchanged /\ Frame

\* while (!m_shutdown.IsSet()) payload();
Check ==
  /\ pc[Worker] = "check"
  /\ IF m_shutdown THEN GoTo(Worker, "exitStore") /\ UNCHANGED runs
                   ELSE GoTo(Worker, "payload") /\ covered' = pending /\ UNCHANGED pending
  /\ UNCHANGED <<m_running_state, events>> /\ FlagsUnchanged /\ Frame

PayloadDone ==
  /\ pc[Worker] = "payload"
  /\ GoTo(Worker, "load")
  /\ pending' = pending \ covered /\ covered' = {}
  /\ UNCHANGED <<m_running_state, events>> /\ FlagsUnchanged /\ Frame

\* switch (m_running_state.load())
Load ==
  /\ pc[Worker] = "load"
  /\ GoTo(Worker, CASE m_running_state = STATE_NEED_EXECUTION -> "decNeed"
                    [] m_running_state = STATE_LAST_EXECUTION -> "decLast"
                    [] m_running_state = STATE_DONE           -> "maySleep"
                    [] m_running_state = STATE_SLEEPING       -> "sleep")
  /\ UNCHANGED <<m_running_state, events, runs>> /\ FlagsUnchanged /\ Frame

\* Mutant: the state is only read.
DecNeedForgotten ==
  /\ pc[Worker] = "decNeed"
  /\ GoTo(Worker, "check")
  /\ UNCHANGED <<m_running_state, events, runs>> /\ FlagsUnchanged /\ Frame

DecNeed ==
  /\ pc[Worker] = "decNeed"
  /\ m_running_state' = m_running_state - 1
  /\ GoTo(Worker, "check")
  /\ UNCHANGED <<events, runs>> /\ FlagsUnchanged /\ Frame

\* Mutant: the old value of the decrement is ignored.
DecLastUnchecked ==
  /\ pc[Worker] = "decLast"
  /\ m_running_state' = STATE_DONE
  /\ GoTo(Worker, "setDone")
  /\ UNCHANGED <<events, runs>> /\ FlagsUnchanged /\ Frame

DecLast ==
  /\ pc[Worker] = "decLast"
  /\ m_running_state' = m_running_state - 1
  /\ GoTo(Worker, IF m_running_state = STATE_LAST_EXECUTION THEN "setDone" ELSE "check")
  /\ UNCHANGED <<events, runs>> /\ FlagsUnchanged /\ Frame

\* Mutant: the waiters are not told.
SetDoneForgotten ==
  /\ pc[Worker] = "setDone"
  /\ GoTo(Worker, "maySleep")
  /\ UNCHANGED <<m_running_state, events, runs>> /\ FlagsUnchanged /\ Frame

SetDone ==
  /\ pc[Worker] = "setDone"
  /\ m_done_event' = TRUE
  /\ GoTo(Worker, "maySleep")
  /\ UNCHANGED <<m_running_state, m_new_work_event, runs>> /\ FlagsUnchanged /\ Frame

MaySleep ==
  /\ pc[Worker] = "maySleep"
  /\ m_may_sleep' = FALSE
  /\ GoTo(Worker, IF m_may_sleep THEN "decDone" ELSE "check")
  /\ UNCHANGED <<m_running_state, m_stopped, m_shutdown, events, runs>> /\ Frame

DecDone ==
  /\ pc[Worker] = "decDone"
  /\ m_running_state' = m_running_state - 1
  /\ GoTo(Worker, IF m_running_state = STATE_DONE THEN "sleep" ELSE "check")
  /\ UNCHANGED <<events, runs>> /\ FlagsUnchanged /\ Frame

\* m_new_work_event.Wait(), or WaitFor with a timeout.
Sleep ==
  /\ pc[Worker] = "sleep" /\ (m_new_work_event \/ Periodic)
  /\ m_new_work_event' = FALSE
  /\ GoTo(Worker, "check")
  /\ UNCHANGED <<m_running_state, m_done_event, runs>> /\ FlagsUnchanged /\ Frame

ExitStore ==
  /\ pc[Worker] = "exitStore"
  /\ m_running_state' = STATE_DONE
  /\ GoTo(Worker, "exitStopped")
  /\ UNCHANGED <<events, runs>> /\ FlagsUnchanged /\ Frame

ExitStopped ==
  /\ pc[Worker] = "exitStopped"
  /\ m_stopped' = TRUE
  /\ GoTo(Worker, "exitDone")
  /\ UNCHANGED <<m_running_state, m_shutdown, m_may_sleep, events, runs>> /\ Frame

ExitDone ==
  /\ pc[Worker] = "exitDone"
  /\ m_done_event' = TRUE
  /\ GoTo(Worker, "outside")
  /\ UNCHANGED <<m_running_state, m_new_work_event, runs>> /\ FlagsUnchanged /\ Frame

WorkerStep == \/ Run \/ PrepareStep(Worker) \/ Check \/ PayloadDone \/ Load \/ DecNeed \/ DecLast
              \/ SetDone \/ MaySleep \/ DecDone \/ Sleep \/ ExitStore \/ ExitStopped \/ ExitDone

-----------------------------------------------------------------------------
(* Clients.                                                                *)

Idle(c, call) == pc[c] = "idle" /\ ~destroyed /\ call \in Calls[c]

Prepare(c) ==
  /\ Idle(c, "Prepare")
  /\ GoTo(c, "prepare")
  /\ UNCHANGED <<m_running_state, events, runs>> /\ FlagsUnchanged /\ Frame

AllowSleep(c) ==
  /\ Idle(c, "AllowSleep")
  /\ m_may_sleep' = TRUE
  /\ UNCHANGED <<m_running_state, m_stopped, m_shutdown, events, pc, runs>> /\ Frame

\* Wakeup returns to its caller, or to the Stop that called it.
AfterWakeup(c, m) == GoTo(c, IF m \in {"none", "kNonBlock"} THEN "idle" ELSE "isDone")

\* The first load of Wakeup: from here on the client wants a payload run.
WakeLoad(c, m) ==
  /\ pending' = pending \cup {c} /\ covered' = covered \ {c}
  /\ IF m_running_state >= STATE_NEED_EXECUTION THEN AfterWakeup(c, m) ELSE GoTo(c, "wakeExchange")
  /\ mode' = [mode EXCEPT ![c] = m]
  /\ UNCHANGED <<m_running_state, events, locks, destroyed>> /\ FlagsUnchanged

Wakeup(c) == Idle(c, "Wakeup") /\ WakeLoad(c, "none")

StopWakeup(c) == pc[c] = "wakeLoad" /\ WakeLoad(c, mode[c])

\* Mutant: a worker found in STATE_DONE is taken to be asleep, one found asleep is not woken.
WakeExchangeWrongState(c) ==
  /\ pc[c] = "wakeExchange"
  /\ m_running_state' = STATE_NEED_EXECUTION
  /\ IF m_running_state = STATE_DONE THEN GoTo(c, "wakeSet") ELSE AfterWakeup(c, mode[c])
  /\ UNCHANGED <<events, runs>> /\ FlagsUnchanged /\ Frame

WakeExchange(c) ==
  /\ pc[c] = "wakeExchange"
  /\ m_running_state' = STATE_NEED_EXECUTION
  /\ IF m_running_state = STATE_SLEEPING THEN GoTo(c, "wakeSet") ELSE AfterWakeup(c, mode[c])
  /\ UNCHANGED <<events, runs>> /\ FlagsUnchanged /\ Frame

WakeSet(c) ==
  /\ pc[c] = "wakeSet"
  /\ m_new_work_event' = TRUE
  /\ AfterWakeup(c, mode[c])
  /\ UNCHANGED <<m_running_state, m_done_event, runs>> /\ FlagsUnchanged /\ Frame

\* Wait, and the Wait or WaitYield inside Stop.  A WaitYield with a plain
\* yield function only repeats the test and changes nothing else.
Wait(c) ==
  /\ Idle(c, "Wait")
  /\ mode' = [mode EXCEPT ![c] = "none"]
  /\ GoTo(c, "isDone")
  /\ UNCHANGED <<m_running_state, events, locks, destroyed, runs>> /\ FlagsUnchanged

\* IsDone() reads m_stopped, then m_running_state.
IsDoneStopped(c) ==
  /\ \/ pc[c] = "isDone" /\ GoTo(c, IF m_stopped THEN "idle" ELSE "isDoneState")
     \/ pc[c] = "locked" /\ GoTo(c, IF m_stopped THEN "allowSleep" ELSE "lockedState")
  /\ UNCHANGED <<m_running_state, events, runs>> /\ FlagsUnchanged /\ Frame

IsDoneState(c) ==
  /\ \/ /\ pc[c] = "isDoneState"
        /\ GoTo(c, IF m_running_state <= STATE_DONE THEN "idle" ELSE "waitLock")
     \/ /\ pc[c] = "lockedState"
        /\ GoTo(c, IF m_running_state <= STATE_DONE THEN "allowSleep" ELSE "waitEvent")
  /\ UNCHANGED <<m_running_state, events, runs>> /\ FlagsUnchanged /\ Frame

WaitLock(c) ==
  /\ pc[c] = "waitLock" /\ m_wait_lock = NoThread
  /\ m_wait_lock' = c
  /\ GoTo(c, "locked")
  /\ UNCHANGED <<m_running_state, events, m_prepare_lock, calls, runs>> /\ FlagsUnchanged

WaitEvent(c) ==
  /\ pc[c] = "waitEvent" /\ m_done_event
  /\ m_done_event' = FALSE
  /\ GoTo(c, "locked")
  /\ UNCHANGED <<m_running_state, m_new_work_event, runs>> /\ FlagsUnchanged /\ Frame

\* The destructor's Stop gives up after 100 ms.
GiveUp(c) ==
  /\ pc[c] = "waitEvent" /\ mode[c] = "kBlockAndGiveUp"
  /\ m_stopped' = TRUE
  /\ GoTo(c, "locked")
  /\ UNCHANGED <<m_running_state, m_shutdown, m_may_sleep, events, runs>> /\ Frame

WaitDone(c) ==
  /\ pc[c] = "allowSleep"
  /\ m_may_sleep' = TRUE
  /\ m_wait_lock' = NoThread
  /\ GoTo(c, "idle")
  /\ UNCHANGED <<m_running_state, m_stopped, m_shutdown, events, m_prepare_lock, calls, runs>>

\* Stop: nothing happens when m_stopped is set.  kBlockAndGiveUp is the
\* destructor's: no call is in progress and none follows.
Stop(c, m) ==
  /\ Idle(c, m) /\ ~m_stopped
  /\ m = "kBlockAndGiveUp" => \A d \in Clients : pc[d] = "idle"
  /\ destroyed' = (m = "kBlockAndGiveUp")
  /\ mode' = [mode EXCEPT ![c] = m]
  /\ GoTo(c, "stopShutdown")
  /\ UNCHANGED <<m_running_state, events, locks, runs>> /\ FlagsUnchanged

StopShutdown(c) ==
  /\ pc[c] = "stopShutdown"
  /\ m_shutdown' = TRUE
  /\ GoTo(c, "wakeLoad")
  /\ UNCHANGED <<m_running_state, m_stopped, m_may_sleep, events, runs>> /\ Frame

Continue(c) == \/ PrepareStep(c) \/ StopWakeup(c) \/ WakeExchange(c) \/ WakeSet(c)
               \/ IsDoneStopped(c) \/ IsDoneState(c) \/ WaitLock(c) \/ WaitEvent(c) \/ WaitDone(c)
               \/ StopShutdown(c) \/ GiveUp(c)

ClientStep(c) == \/ Continue(c) \/ Prepare(c) \/ AllowSleep(c) \/ Wakeup(c)
                 \/ Wait(c) \/ \E m \in StopModes : Stop(c, m)

\* m_running_state is not initialised: any value, up to what the comparisons
\* tell apart.
Init ==
  /\ m_running_state \in STATE_SLEEPING .. STATE_NEED_EXECUTION
  /\ m_stopped = TRUE /\ m_shutdown = FALSE /\ m_may_sleep = FALSE
  /\ m_new_work_event = FALSE /\ m_done_event = FALSE
  /\ m_wait_lock = NoThread /\ m_prepare_lock = NoThread
  /\ pc = [t \in Threads |-> IF t = Worker THEN "outside" ELSE "idle"]
  /\ mode = [c \in Clients |-> "none"]
  /\ destroyed = FALSE
  /\ pending = {} /\ covered = {}

Next == WorkerStep \/ \E c \in Clients : ClientStep(c)

Spec == Init /\ [][Next]_vars

\* Threads are scheduled, the payload returns, and a worker for a prepared
\* loop comes along.  No client has to start a call.
FairSpec ==
  /\ Spec
  /\ WF_vars(WorkerStep /\ (pc[Worker] = "outside" => ~m_stopped))
  /\ \A c \in Clients : WF_vars(Continue(c))

-----------------------------------------------------------------------------
(* Properties.                                                             *)

\* "Wait for a complete payload run after the last Wakeup() call": a Wait that
\* ends because of the state, and not because the loop is shut down, has seen
\* a payload run that began after the caller's last Wakeup and is complete.
WaitSeesPayload ==
  [][\A c \in Clients :
       pc[c] \in {"isDoneState", "lockedState"} /\ pc'[c] \in {"idle", "allowSleep"}
         => c \notin pending \/ m_shutdown]_vars

\* The worker does not sleep on work: with a Wakeup not yet served, either the
\* event is set or the client is about to set it.
NoSleepOnWork ==
  pc[Worker] = "sleep" /\ pending # {}
    => \/ m_new_work_event
       \/ \E c \in Clients : pc[c] \in {"wakeExchange", "wakeSet"}

\* A Wakeup of a loop that is not shut down is followed by the start of a
\* payload run.
WakeupServed ==
  \A c \in Clients : c \in pending ~> (c \notin pending \ covered \/ m_shutdown \/ m_stopped)

\* When no more Wakeups come, every Wait returns.
WaitReturns ==
  (\A c \in Clients : <>[](pc[c] \notin WakeupPlaces))
    => \A c \in Clients : pc[c] \in WaitPlaces ~> pc[c] = "idle"

-----------------------------------------------------------------------------
(* The inductive invariant behind the two safety properties.               *)

worker == pc[Worker]

Before    == {"outside", "prepare", "exitDone"}
InLoop    == {"check", "payload", "load", "decNeed", "decLast", "setDone", "maySleep", "decDone", "sleep"}
Preparing == {"prepareStore", "prepareClear", "prepareSleep"}
Executing == {STATE_LAST_EXECUTION, STATE_NEED_EXECUTION}

\* Who is where: only the worker outside its loop meets a stopped loop, except
\* after the destructor gave up, and a Prepare excludes the loop.
PlaceInv ==
  /\ m_stopped /\ ~destroyed => worker \in Before
  /\ \A t \in Threads : pc[t] \in Preparing <=> m_prepare_lock = t
  /\ \A c \in Clients :
       /\ pc[c] \in Preparing => worker \in Before /\ ~m_stopped
       /\ pc[c] \in PreparePlaces => ~destroyed
       /\ mode[c] = "kBlockAndGiveUp" => destroyed
  /\ worker \in {"exitStore", "exitStopped"} => m_shutdown

\* What the worker knows of m_running_state: clients only raise it to
\* STATE_NEED_EXECUTION.
StateInv ==
  /\ worker = "decNeed" => m_running_state = STATE_NEED_EXECUTION
  /\ worker = "decLast" => m_running_state \in Executing
  /\ worker \in {"setDone", "maySleep", "decDone"}
       => m_running_state \in {STATE_DONE, STATE_NEED_EXECUTION}
  /\ worker = "sleep" => m_running_state \in {STATE_SLEEPING, STATE_NEED_EXECUTION}
  /\ (\E t \in Threads : pc[t] \in {"prepareClear", "prepareSleep"}) => m_running_state \in Executing
  /\ worker \in Before /\ ~m_stopped /\ (\A t \in Threads : pc[t] # "prepareStore")
       => m_running_state \in Executing

\* A Wakeup that has stored STATE_NEED_EXECUTION is not forgotten: the state
\* says so until a payload run that began later is complete.
PendingInv ==
  /\ covered # {} => worker = "payload"
  /\ \A c \in pending : pc[c] # "wakeExchange" =>
       /\ worker \in InLoop =>
            \/ m_running_state = STATE_NEED_EXECUTION
            \/ m_running_state = STATE_LAST_EXECUTION /\ (c \in covered \/ worker = "check")
       /\ worker \notin InLoop => m_shutdown \/ m_running_state \in Executing
  /\ worker = "sleep" /\ m_running_state = STATE_NEED_EXECUTION
       => m_new_work_event \/ \E c \in Clients : pc[c] = "wakeSet"

IndInv == TypeOK /\ PlaceInv /\ StateInv /\ PendingInv

-----------------------------------------------------------------------------
(* The loop as its clients see it.                                         *)

loopState    == IF m_running_state = STATE_SLEEPING THEN STATE_DONE ELSE m_running_state
loopPlace    == IF worker = "payload" THEN "payload"
                ELSE IF worker \in {"load", "decNeed", "decLast", "setDone", "maySleep", "decDone"}
                THEN "switch" ELSE "idle"
loopStopping == m_stopped \/ m_shutdown \/ m_prepare_lock # NoThread

Loop == INSTANCE LoopSpec WITH state <- loopState, place <- loopPlace, stopping <- loopStopping

\* The worker and any number of concurrent calls behave as the abstract loop:
\* no interleaving of the atomic accesses to m_running_state loses the run
\* that a Wakeup is owed or lets IsDone answer before it is complete.
LoopImplemented == Loop!Spec

\* A loop that is not stopped again and again also counts down fairly: a flood
\* of Wakeups does not keep the worker from counting the runs it completes.
LoopCountsDown == Loop!Fairness
=============================================================================

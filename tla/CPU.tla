--------------------------------- MODULE CPU ---------------------------------
(***************************************************************************)
(* The execution state of the emulated CPU: Core/HW/CPU.cpp.               *)
(*                                                                         *)
(* One CPU thread sits in CPU::Run.  Host threads call EnableStepping,     *)
(* StepOpcode, the PauseAndLock pair and Stop; any system thread (the CPU  *)
(* thread inside the run loop, the GPU thread at the end of a frame) calls *)
(* Break.                                                                  *)
(*                                                                         *)
(* Grain of atomicity.  Everything the code does between taking and giving *)
(* up s_state_change_lock is one action, so that lock needs no variable; a *)
(* condition-variable wait gives the lock up and ends the action.  The two *)
(* assignments of s_state that Run makes without the lock, and the reads   *)
(* of s_state by the run loop, are actions of their own.  s_stepping_lock  *)
(* is held across waits and is a variable.                                 *)
(***************************************************************************)
EXTENDS Integers

CONSTANTS
  Hosts,      \* threads that may control the CPU
  None        \* no thread / nullptr

ASSUME HostsAssumption == None \notin Hosts

VARIABLES
  breakpoints,                       \* not the interpreter core, and a breakpoint at PC or a
                                     \* memcheck exists: chosen once
  s_state,                           \* CPU::State
  s_stepping_lock,                   \* holder of the stepping lock, or None
  s_state_cpu_thread_active,
  s_state_paused_and_locked,
  s_state_system_request_stepping,
  s_state_cpu_step_instruction,
  s_state_cpu_step_instruction_sync, \* whose event StepOpcode was given, or None
  s_have_fake_cpu_thread,
  tls_is_cpu_thread,                 \* Core::IsCPUThread() of each host thread
  adjacent,                          \* what RunAdjacentSystems last told FIFO and audio
  cpu,                               \* where the CPU thread is
  cpu_notified,                      \* s_state_cpu_cvar was notified while the CPU thread waited
  pc,                                \* where each host thread is
  was_unpaused,                      \* what each host's PauseAndLock(true) returned
  halted                             \* history: the last explicit request was to stop, not to run

flags == <<s_state_paused_and_locked, s_state_system_request_stepping>>
step  == <<s_state_cpu_step_instruction, s_state_cpu_step_instruction_sync>>
fake  == <<s_have_fake_cpu_thread, tls_is_cpu_thread>>
vars  == <<breakpoints, s_state, s_stepping_lock, s_state_cpu_thread_active, flags, step, fake,
           adjacent, cpu, cpu_notified, pc, was_unpaused, halted>>

States == {"Running", "Stepping", "PowerDown"}

(* Places in Run.  At "start" the thread has not taken the lock yet;       *)
(* "waitUnlocked" and "waitStep" are the two waits on s_state_cpu_cvar; in *)
(* the Executing places it has given up the lock to run guest code, and at *)
(* "leaving" RunLoop has returned but the lock is not taken back yet.      *)
Waiting   == {"waitUnlocked", "waitStep"}
Executing == {"enter", "breakpointStep", "runLoop", "leaving", "singleStep"}
CpuPlaces == {"start", "exited"} \cup Waiting \cup Executing

(* Places of a host: waiting for the CPU thread to go idle in              *)
(* EnableStepping(true), PauseAndLock(true) or Stop, or between the two    *)
(* halves of a PauseAndLock pair.  The StepOut places belong to the        *)
(* debugger's "step out", which pairs the calls without touching the       *)
(* adjacent systems and never unpauses.                                    *)
LockWaiting == {"lockWait", "lockWaitStepOut"}
Locked      == {"locked", "lockedStepOut"}
HostPlaces  == {"idle", "steppingWait", "stepOut", "stopWait"} \cup LockWaiting \cup Locked

TypeOK ==
  /\ breakpoints \in BOOLEAN
  /\ s_state \in States
  /\ s_stepping_lock \in Hosts \cup {None}
  /\ s_state_cpu_thread_active \in BOOLEAN
  /\ s_state_paused_and_locked \in BOOLEAN
  /\ s_state_system_request_stepping \in BOOLEAN
  /\ s_state_cpu_step_instruction \in BOOLEAN
  /\ s_state_cpu_step_instruction_sync \in Hosts \cup {None}
  /\ s_have_fake_cpu_thread \in BOOLEAN
  /\ tls_is_cpu_thread \in [Hosts -> BOOLEAN]
  /\ adjacent \in BOOLEAN
  /\ cpu \in CpuPlaces
  /\ cpu_notified \in BOOLEAN
  /\ pc \in [Hosts -> HostPlaces]
  /\ was_unpaused \in [Hosts -> BOOLEAN]
  /\ halted \in BOOLEAN

-----------------------------------------------------------------------------
(* Helpers of CPU.cpp.                                                     *)

IsStepping == s_state = "Stepping"

\* Mutant: PowerDown does not stick.
SetStateLockedAlways(s) == s

\* The state after SetStateLocked(s): PowerDown is never left.
SetStateLocked(s) == IF s_state = "PowerDown" THEN s_state ELSE s

FlushStepSyncEventLocked ==
  /\ s_state_cpu_step_instruction' = FALSE
  /\ s_state_cpu_step_instruction_sync' = None

RunAdjacentSystems(running) == adjacent' = running

\* Mutant: the notification is forgotten.
NoNotify == UNCHANGED cpu_notified

\* notify_one on s_state_cpu_cvar: lost unless the CPU thread waits on it.
NotifyCpu == cpu_notified' = (cpu \in Waiting)

-----------------------------------------------------------------------------
(* The CPU thread: CPU::Run.                                               *)

\* Mutant: a step is served although the CPU is locked.
PlaceSteppingWhileLocked(stepping) ==
  CASE s_state = "PowerDown" -> "exited"
    [] s_state = "Running" -> IF s_state_paused_and_locked THEN "waitUnlocked" ELSE "enter"
    [] s_state = "Stepping" -> IF stepping THEN "singleStep" ELSE "waitStep"

\* Where the thread gives up the lock next when it evaluates the while
\* condition now; stepping: a step instruction is requested.
Place(stepping) ==
  CASE s_state = "PowerDown"     -> "exited"
    [] s_state # "PowerDown" /\ s_state_paused_and_locked -> "waitUnlocked"
    [] s_state = "Running"  /\ ~s_state_paused_and_locked -> "enter"
    [] s_state = "Stepping" /\ ~s_state_paused_and_locked ->
         IF stepping THEN "singleStep" ELSE "waitStep"

CpuUnchanged ==
  UNCHANGED <<breakpoints, s_stepping_lock, flags, fake, adjacent, pc, was_unpaused, halted>>

\* Mutant: the thread never reports itself idle again.
IterateStaysActive(stepping) ==
  /\ cpu' = Place(stepping)
  /\ s_state_cpu_thread_active' = (s_state_cpu_thread_active \/ Place(stepping) \in Executing)
  /\ cpu_notified' = FALSE
  /\ UNCHANGED s_state
  /\ CpuUnchanged

\* while (s_state != State::PowerDown), with the lock held, up to the point
\* where the lock is given up.
Iterate(stepping) ==
  /\ cpu' = Place(stepping)
  /\ s_state_cpu_thread_active' = (Place(stepping) \in Executing)
  /\ cpu_notified' = FALSE
  /\ UNCHANGED s_state
  /\ CpuUnchanged

Run ==
  /\ cpu = "start"
  /\ Iterate(s_state_cpu_step_instruction)
  /\ UNCHANGED step

\* A wake-up, notified or spurious, re-evaluates the predicate of the wait.
WakeUnlocked ==
  /\ cpu = "waitUnlocked"
  /\ \/ /\ s_state_paused_and_locked
        /\ cpu_notified' = FALSE
        /\ UNCHANGED <<s_state, s_state_cpu_thread_active, cpu>> /\ CpuUnchanged
     \/ ~s_state_paused_and_locked /\ Iterate(s_state_cpu_step_instruction)
  /\ UNCHANGED step

WakeStep ==
  /\ cpu = "waitStep"
  /\ \/ /\ IsStepping /\ ~s_state_cpu_step_instruction
        /\ cpu_notified' = FALSE
        /\ UNCHANGED <<s_state, s_state_cpu_thread_active, step, cpu>> /\ CpuUnchanged
     \/ IsStepping /\ s_state_cpu_step_instruction /\ Iterate(TRUE) /\ UNCHANGED step
     \/ ~IsStepping /\ FlushStepSyncEventLocked /\ Iterate(FALSE)

Unlocked(place) ==
  /\ cpu' = place
  /\ UNCHANGED <<s_state_cpu_thread_active, step, cpu_notified>>
  /\ CpuUnchanged

\* Before the run loop: with a breakpoint at PC, or a memcheck, force s_state
\* to Stepping, without the lock, to single-step past it.
EnterRunning ==
  /\ cpu = "enter"
  /\ \/ breakpoints /\ s_state' = "Stepping" /\ Unlocked("breakpointStep")
     \/ UNCHANGED s_state /\ Unlocked("runLoop")

BreakpointStepDone ==
  /\ cpu = "breakpointStep"
  /\ s_state' = "Running"
  /\ Unlocked("runLoop")

\* PowerPC::RunLoop returns once it has seen a state other than Running.
RunLoopReturns ==
  /\ cpu = "runLoop"
  /\ s_state # "Running"
  /\ UNCHANGED s_state
  /\ Unlocked("leaving")

RunLoopDone ==
  /\ cpu = "leaving"
  /\ Iterate(s_state_cpu_step_instruction)
  /\ UNCHANGED step

SingleStepDone ==
  /\ cpu = "singleStep"
  /\ FlushStepSyncEventLocked
  /\ Iterate(FALSE)

CpuStep == \/ Run \/ WakeUnlocked \/ WakeStep \/ EnterRunning \/ BreakpointStepDone
           \/ RunLoopReturns \/ RunLoopDone \/ SingleStepDone

-----------------------------------------------------------------------------
(* Host threads.  A call that has to wait for the CPU thread to become     *)
(* idle takes two actions; the wait polls (wait_for 100 ms), so it ends    *)
(* whenever the thread is idle.  A call that finds it idle goes through    *)
(* the waiting place too: the lock may be taken from it in between, but    *)
(* the second half tests the same condition again.                         *)

HostUnchanged == UNCHANGED <<breakpoints, s_state_cpu_thread_active, cpu>>

EnableStepping(h) ==
  /\ pc[h] = "idle" /\ s_stepping_lock = None
  /\ s_stepping_lock' = h
  /\ s_state' = SetStateLocked("Stepping")
  /\ pc' = [pc EXCEPT ![h] = "steppingWait"]
  /\ halted' = TRUE
  /\ UNCHANGED <<flags, step, fake, adjacent, cpu_notified, was_unpaused>> /\ HostUnchanged

EnableSteppingDone(h) ==
  /\ pc[h] = "steppingWait" /\ ~s_state_cpu_thread_active
  /\ RunAdjacentSystems(FALSE)
  /\ s_stepping_lock' = None
  /\ pc' = [pc EXCEPT ![h] = "idle"]
  /\ UNCHANGED <<s_state, flags, step, fake, cpu_notified, was_unpaused, halted>>
  /\ HostUnchanged

\* EnableStepping(false)
DisableStepping(h) ==
  /\ pc[h] = "idle" /\ s_stepping_lock = None
  /\ s_state # "PowerDown"
  /\ s_state' = SetStateLocked("Running")
  /\ NotifyCpu
  /\ RunAdjacentSystems(TRUE)
  /\ halted' = FALSE
  /\ UNCHANGED <<s_stepping_lock, flags, step, fake, pc, was_unpaused>> /\ HostUnchanged

\* The caller waits at most 20 ms for its event, then goes on regardless.
StepOpcode(h) ==
  /\ pc[h] = "idle"
  /\ IsStepping
  /\ s_state_cpu_step_instruction' = TRUE
  /\ s_state_cpu_step_instruction_sync' = h
  /\ NotifyCpu
  /\ UNCHANGED <<s_state, s_stepping_lock, flags, fake, adjacent, pc, was_unpaused, halted>>
  /\ HostUnchanged

\* CodeWidget::StepOut tests IsStepping before it asks for the lock.
StepOut(h) ==
  /\ pc[h] = "idle" /\ IsStepping
  /\ pc' = [pc EXCEPT ![h] = "stepOut"]
  /\ UNCHANGED <<s_state, s_stepping_lock, flags, step, fake, adjacent, cpu_notified,
                 was_unpaused, halted>>
  /\ HostUnchanged

\* PauseAndLock(true), up to the wait.
PauseAndLock(h) ==
  /\ s_stepping_lock = None
  /\ \/ pc[h] = "idle" /\ pc' = [pc EXCEPT ![h] = "lockWait"]
     \/ pc[h] = "stepOut" /\ pc' = [pc EXCEPT ![h] = "lockWaitStepOut"]
  /\ s_stepping_lock' = h
  /\ s_state_paused_and_locked' = TRUE
  /\ was_unpaused' = [was_unpaused EXCEPT ![h] = (s_state = "Running")]
  /\ s_state' = SetStateLocked("Stepping")
  /\ UNCHANGED <<s_state_system_request_stepping, step, fake, adjacent, cpu_notified, halted>>
  /\ HostUnchanged

\* No caller passes control_adjacent: Core::PauseAndLock locks DSP and FIFO itself.
PauseAndLockDone(h) ==
  /\ ~s_state_cpu_thread_active
  /\ \/ pc[h] = "lockWait" /\ pc' = [pc EXCEPT ![h] = "locked"]
     \/ pc[h] = "lockWaitStepOut" /\ pc' = [pc EXCEPT ![h] = "lockedStepOut"]
  /\ s_have_fake_cpu_thread' = (s_have_fake_cpu_thread \/ ~tls_is_cpu_thread[h])
  /\ tls_is_cpu_thread' = [tls_is_cpu_thread EXCEPT ![h] = TRUE]
  /\ UNCHANGED <<s_state, s_stepping_lock, flags, step, adjacent, cpu_notified, was_unpaused, halted>>
  /\ HostUnchanged

\* PauseAndLock(false, was_unpaused, true), or (false, false, false) from
\* the debugger's step out.
Unlock(h) ==
  /\ pc[h] \in Locked
  /\ s_have_fake_cpu_thread' = FALSE
  /\ tls_is_cpu_thread' =
       [tls_is_cpu_thread EXCEPT ![h] = tls_is_cpu_thread[h] /\ ~s_have_fake_cpu_thread]
  /\ s_state_system_request_stepping' = FALSE
  /\ s_state' = IF /\ ~s_state_system_request_stepping
                   /\ pc[h] = "locked" /\ was_unpaused[h]
                THEN SetStateLocked("Running") ELSE s_state
  /\ s_state_paused_and_locked' = FALSE
  /\ NotifyCpu
  /\ IF pc[h] = "locked" THEN RunAdjacentSystems(s_state' = "Running") ELSE UNCHANGED adjacent
  /\ s_stepping_lock' = None
  /\ pc' = [pc EXCEPT ![h] = "idle"]
  /\ UNCHANGED <<step, was_unpaused, halted>> /\ HostUnchanged

\* Stop takes no stepping lock.
Stop(h) ==
  /\ pc[h] = "idle"
  /\ s_state' = "PowerDown"
  /\ NotifyCpu
  /\ pc' = [pc EXCEPT ![h] = "stopWait"]
  /\ halted' = TRUE
  /\ UNCHANGED <<s_stepping_lock, flags, step, fake, adjacent, was_unpaused>> /\ HostUnchanged

StopDone(h) ==
  /\ pc[h] = "stopWait" /\ ~s_state_cpu_thread_active
  /\ RunAdjacentSystems(FALSE)
  /\ FlushStepSyncEventLocked
  /\ pc' = [pc EXCEPT ![h] = "idle"]
  /\ UNCHANGED <<s_state, s_stepping_lock, flags, fake, cpu_notified, was_unpaused, halted>>
  /\ HostUnchanged

HostFinish(h) == EnableSteppingDone(h) \/ PauseAndLockDone(h) \/ Unlock(h) \/ StopDone(h)

HostStep(h) == \/ EnableStepping(h) \/ DisableStepping(h) \/ StepOpcode(h) \/ StepOut(h)
               \/ PauseAndLock(h) \/ Stop(h) \/ HostFinish(h)

-----------------------------------------------------------------------------

\* Mutant: a Break under PauseAndLock is not remembered.
BreakNotRemembered ==
  /\ s_state' = SetStateLocked("Stepping")
  /\ RunAdjacentSystems(FALSE)
  /\ halted' = TRUE
  /\ UNCHANGED <<s_stepping_lock, flags, step, fake, cpu_notified, pc, was_unpaused>>
  /\ HostUnchanged

\* From any system thread, the CPU thread itself included.
Break ==
  /\ \/ /\ s_state_paused_and_locked
        /\ s_state_system_request_stepping' = TRUE
        /\ UNCHANGED <<s_state, adjacent>>
     \/ /\ ~s_state_paused_and_locked
        /\ s_state' = SetStateLocked("Stepping")
        /\ RunAdjacentSystems(FALSE)
        /\ UNCHANGED s_state_system_request_stepping
  /\ halted' = TRUE
  /\ UNCHANGED <<s_stepping_lock, s_state_paused_and_locked, step, fake, cpu_notified, pc,
                 was_unpaused>>
  /\ HostUnchanged

\* Shutdown (which calls Stop once more), then Init and the Break with which
\* EmuThread starts the next emulation session.
Reboot ==
  /\ cpu = "exited" /\ \A h \in Hosts : pc[h] = "idle"
  /\ s_state' = "Stepping"
  /\ RunAdjacentSystems(FALSE)
  /\ FlushStepSyncEventLocked
  /\ cpu' = "start"
  /\ halted' = TRUE
  /\ UNCHANGED <<breakpoints, s_stepping_lock, s_state_cpu_thread_active, flags, fake, cpu_notified, pc,
                 was_unpaused>>

Init ==
  /\ breakpoints \in BOOLEAN
  /\ s_state = "Stepping"
  /\ s_stepping_lock = None
  /\ s_state_cpu_thread_active = FALSE
  /\ s_state_paused_and_locked = FALSE
  /\ s_state_system_request_stepping = FALSE
  /\ s_state_cpu_step_instruction = FALSE
  /\ s_state_cpu_step_instruction_sync = None
  /\ s_have_fake_cpu_thread = FALSE
  /\ tls_is_cpu_thread = [h \in Hosts |-> FALSE]
  /\ adjacent = FALSE
  /\ cpu = "start"
  /\ cpu_notified = FALSE
  /\ pc = [h \in Hosts |-> "idle"]
  /\ was_unpaused = [h \in Hosts |-> FALSE]
  /\ halted = TRUE

Next == CpuStep \/ Break \/ Reboot \/ \E h \in Hosts : HostStep(h)

Spec == Init /\ [][Next]_vars

(* The operating system schedules every thread, a condition variable wakes *)
(* its waiter after a notification (and need not otherwise), a run loop    *)
(* polls s_state, and every PauseAndLock(true) is paired with a            *)
(* PauseAndLock(false).  Nobody has to start a call.                       *)
CpuScheduled == CpuStep /\ (cpu \in Waiting => cpu_notified)

Fairness == WF_vars(CpuScheduled) /\ \A h \in Hosts : WF_vars(HostFinish(h))

FairSpec == Spec /\ Fairness

-----------------------------------------------------------------------------
(* Properties.                                                             *)

\* At most one thread acts as the CPU thread: while a host is declared as it
\* (so may touch ppcState and CoreTiming), no other host is, and the real CPU
\* thread runs no guest code (CPU.h: "While this lock is held, the CPU Thread
\* will not perform any action").
OneCPUThread ==
  \A h \in Hosts : tls_is_cpu_thread[h] =>
    /\ cpu \notin Executing
    /\ \A g \in Hosts \ {h} : ~tls_is_cpu_thread[g]

\* Between PauseAndLock(true) returning and PauseAndLock(false) the caller is
\* declared as the CPU thread, and after it is not: the boolean
\* s_have_fake_cpu_thread never undeclares too little or too much.
FakeThreadBalanced == \A h \in Hosts : tls_is_cpu_thread[h] <=> pc[h] \in Locked

\* Without breakpoints a halt is never undone by anything but an explicit resume: in particular
\* unlocking does not resume a CPU that hit Break while it was locked
\* (the reason for s_state_system_request_stepping).
HaltHonoured == ~breakpoints /\ halted => s_state # "Running"

\* PowerDown "will stick permanently": only the next boot, after Run has
\* exited, leaves it.
PowerDownSticksPermanently ==
  [][s_state = "PowerDown" /\ s_state' # "PowerDown" => cpu = "exited"]_vars

\* The same for a CPU without breakpoints, whose Run writes s_state only under
\* its lock.
PowerDownSticks ==
  [][~breakpoints /\ s_state = "PowerDown" /\ s_state' # "PowerDown" => cpu = "exited"]_vars

\* Without breakpoints, PauseAndLock(true) gets its lock and Stop returns.  EnableStepping(true)
\* returns too unless steps are requested while it waits: another host that
\* keeps stepping can keep the CPU thread active whenever the waiter looks.
HostCallReturns ==
  ~breakpoints => \A h \in Hosts :
    /\ pc[h] \in LockWaiting ~> pc[h] \in Locked
    /\ pc[h] = "stopWait" ~> pc[h] = "idle"
    /\ pc[h] = "steppingWait" ~> pc[h] = "idle" \/ s_state_cpu_step_instruction

\* Without breakpoints, once powered down and not locked again first, Run exits: no wake-up is
\* lost, whether the CPU ran, stepped or waited for the unlock.
PowerDownExits ==
  (~breakpoints /\ s_state = "PowerDown" /\ ~s_state_paused_and_locked)
    ~> (cpu = "exited" \/ s_state_paused_and_locked)

\* A resumed CPU executes, unless it is stopped or locked again first.
ResumeRuns == s_state = "Running" ~> (cpu \in Executing \/ s_state # "Running")

\* A requested step is executed or dropped with its event signalled, unless
\* the CPU is locked or made to run again first.
StepServed ==
  (s_state_cpu_step_instruction /\ IsStepping /\ ~s_state_paused_and_locked)
    ~> (~s_state_cpu_step_instruction \/ ~IsStepping \/ s_state_paused_and_locked)

\* The inductive strengthening.  The two locks, the flags and the thread
\* identities all follow from where the threads are ...
LockInv ==
  /\ \A h \in Hosts : s_stepping_lock = h <=> pc[h] \in {"steppingWait"} \cup LockWaiting \cup Locked
  /\ s_state_paused_and_locked <=> \E h \in Hosts : pc[h] \in LockWaiting \cup Locked
  /\ s_state_system_request_stepping => s_state_paused_and_locked
  /\ s_state_cpu_thread_active <=> cpu \in Executing
  /\ s_have_fake_cpu_thread <=> \E h \in Hosts : pc[h] \in Locked
  /\ FakeThreadBalanced
  /\ \A h \in Hosts : pc[h] \in Locked => ~s_state_cpu_thread_active

\* ... and, without breakpoints, a locker that will unpause the CPU although a
\* halt was requested since is stopped by the remembered Break or by PowerDown.
HaltInv ==
  breakpoints \/
    /\ HaltHonoured
    /\ cpu # "breakpointStep"
    /\ s_state_paused_and_locked => s_state # "Running"
    /\ \A h \in Hosts :
         halted /\ was_unpaused[h] /\ pc[h] \in LockWaiting \cup Locked
           => s_state_system_request_stepping \/ s_state = "PowerDown"

IndInv == TypeOK /\ LockInv /\ HaltInv
=============================================================================

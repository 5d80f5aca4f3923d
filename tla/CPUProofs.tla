------------------------------ MODULE CPUProofs ------------------------------
(***************************************************************************)
(* Proofs about CPU.tla, for any set of host threads.                      *)
(***************************************************************************)
EXTENDS CPU, TLAPS

\* The type invariant, the lock facts and the halt facts hold initially.
LEMMA InitIndInv == Init => IndInv
BY HostsAssumption
   DEF Init, IndInv, TypeOK, LockInv, HaltInv, HaltHonoured, FakeThreadBalanced, States,
       CpuPlaces, HostPlaces, Waiting, Executing, LockWaiting, Locked

-----------------------------------------------------------------------------
(* Steps of the CPU thread.                                                *)

\* Where Run gives up the lock: never to execute while the CPU is locked.
LEMMA PlaceFacts ==
  ASSUME TypeOK, NEW stepping \in BOOLEAN
  PROVE  /\ Place(stepping) \in CpuPlaces \ {"breakpointStep"}
         /\ s_state_paused_and_locked => Place(stepping) \notin Executing
BY DEF TypeOK, States, Place, CpuPlaces, Waiting, Executing

\* What a step of the CPU thread may change, and how.
CpuEffect ==
  /\ CpuUnchanged
  /\ s_state' \in States
  /\ s_state' = s_state \/ breakpoints \/ cpu = "breakpointStep"
  /\ cpu' \in CpuPlaces
  /\ cpu' = "breakpointStep" => breakpoints
  /\ cpu_notified' \in BOOLEAN
  /\ s_state_cpu_step_instruction' \in BOOLEAN
  /\ s_state_cpu_step_instruction_sync' \in Hosts \cup {None}
  /\ s_state_cpu_thread_active' \in BOOLEAN
  /\ s_state_cpu_thread_active' <=> cpu' \in Executing
  /\ s_state_paused_and_locked /\ s_state_cpu_thread_active' => s_state_cpu_thread_active

\* The loop of Run with the lock held, whatever it does to the step request.
LEMMA IterateEffect ==
  ASSUME TypeOK, NEW stepping \in BOOLEAN, Iterate(stepping),
         UNCHANGED step \/ FlushStepSyncEventLocked
  PROVE  CpuEffect
<1>1. /\ cpu' \in CpuPlaces \ {"breakpointStep"}
      /\ s_state_paused_and_locked => cpu' \notin Executing
  BY PlaceFacts DEF Iterate
<1>2. /\ s_state_cpu_thread_active' \in BOOLEAN
      /\ s_state_cpu_thread_active' <=> cpu' \in Executing
  <2>1. cpu' = Place(stepping)
    BY DEF Iterate
  <2>2. CASE Place(stepping) \in Executing
    BY <2>1, <2>2, Zenon DEF Iterate
  <2>3. CASE Place(stepping) \notin Executing
    <3>1. (Place(stepping) \in Executing) = FALSE
      BY <2>3
    <3>2. s_state_cpu_thread_active' = FALSE
      BY <3>1, Zenon DEF Iterate
    <3> QED BY <2>1, <2>3, <3>2
  <2> QED BY <2>2, <2>3
<1>3. /\ s_state_cpu_step_instruction' \in BOOLEAN
      /\ s_state_cpu_step_instruction_sync' \in Hosts \cup {None}
  BY DEF TypeOK, step, FlushStepSyncEventLocked
<1>4. cpu_notified' = FALSE /\ s_state' = s_state /\ CpuUnchanged
  BY DEF Iterate
<1> QED BY <1>1, <1>2, <1>3, <1>4 DEF CpuEffect, TypeOK

\* Every step of the CPU thread has that effect.
LEMMA CpuStepEffect == TypeOK /\ LockInv /\ CpuStep => CpuEffect
<1> SUFFICES ASSUME TypeOK, LockInv, CpuStep PROVE CpuEffect
  OBVIOUS
<1>a. s_state_cpu_step_instruction \in BOOLEAN
  BY DEF TypeOK
<1>b. s_state_cpu_thread_active <=> cpu \in Executing
  BY DEF LockInv
<1>1. CASE Run
  BY <1>1, <1>a, IterateEffect DEF Run
<1>2. CASE WakeUnlocked
  <2>1. CASE s_state_paused_and_locked
    BY <1>2, <2>1, <1>b DEF WakeUnlocked, CpuEffect, TypeOK, step, Waiting, CpuPlaces
  <2>2. CASE ~s_state_paused_and_locked
    BY <1>2, <2>2, <1>a, IterateEffect DEF WakeUnlocked
  <2> QED BY <2>1, <2>2
<1>3. CASE WakeStep
  <2>1. CASE IsStepping /\ ~s_state_cpu_step_instruction
    BY <1>3, <2>1, <1>b DEF WakeStep, CpuEffect, TypeOK, step, Waiting, CpuPlaces
  <2>2. CASE IsStepping /\ s_state_cpu_step_instruction
    BY <1>3, <2>2, IterateEffect DEF WakeStep
  <2>3. CASE ~IsStepping
    BY <1>3, <2>3, IterateEffect DEF WakeStep
  <2> QED BY <2>1, <2>2, <2>3
<1>4. CASE EnterRunning
  BY <1>4, <1>b DEF EnterRunning, Unlocked, CpuEffect, TypeOK, step, States, CpuPlaces, Executing
<1>5. CASE BreakpointStepDone
  BY <1>5, <1>b DEF BreakpointStepDone, Unlocked, CpuEffect, TypeOK, step, States, CpuPlaces, Executing
<1>6. CASE RunLoopReturns
  BY <1>6, <1>b DEF RunLoopReturns, Unlocked, CpuEffect, TypeOK, step, CpuPlaces, Executing
<1>7. CASE RunLoopDone
  BY <1>7, <1>a, IterateEffect DEF RunLoopDone
<1>8. CASE SingleStepDone
  BY <1>8, IterateEffect DEF SingleStepDone
<1> QED
  BY <1>1, <1>2, <1>3, <1>4, <1>5, <1>6, <1>7, <1>8 DEF CpuStep

\* No step of the CPU thread breaks the invariant.
LEMMA CpuStepIndInv == IndInv /\ CpuStep => IndInv'
<1> SUFFICES ASSUME IndInv, CpuStep PROVE IndInv'
  OBVIOUS
<1>1. CpuEffect
  BY CpuStepEffect DEF IndInv
<1> USE <1>1 DEF CpuEffect, CpuUnchanged, flags, fake
<1>2. TypeOK'
  BY DEF IndInv, TypeOK
<1>3. LockInv'
  BY DEF IndInv, TypeOK, LockInv, FakeThreadBalanced, Locked, LockWaiting
<1>4. HaltInv'
  BY DEF IndInv, HaltInv, HaltHonoured
<1> QED BY <1>2, <1>3, <1>4 DEF IndInv

-----------------------------------------------------------------------------
(* Steps of the host threads.                                              *)

\* The value SetStateLocked leaves in s_state.
LEMMA SetStateFacts ==
  ASSUME TypeOK, NEW s \in States
  PROVE  /\ SetStateLocked(s) \in States
         /\ SetStateLocked(s) \in {s, "PowerDown"}
         /\ s_state = "PowerDown" => SetStateLocked(s) = "PowerDown"
BY DEF TypeOK, SetStateLocked, States

\* A notification leaves a Boolean.
LEMMA NotifyType == NotifyCpu => cpu_notified' \in BOOLEAN
<1> SUFFICES ASSUME NotifyCpu PROVE cpu_notified' \in BOOLEAN
  OBVIOUS
<1>1. CASE cpu \in Waiting
  BY <1>1, Zenon DEF NotifyCpu
<1>2. CASE cpu \notin Waiting
  <2>1. (cpu \in Waiting) = FALSE
    BY <1>2
  <2> QED BY <2>1, Zenon DEF NotifyCpu
<1> QED BY <1>1, <1>2

\* No step of a host thread breaks the type invariant.
LEMMA HostStepTypeOK ==
  ASSUME TypeOK, NEW h \in Hosts, HostStep(h)
  PROVE  TypeOK'
<1> USE SetStateFacts DEF TypeOK, HostUnchanged, flags, step, fake, HostPlaces, LockWaiting, Locked
<1>1. CASE EnableStepping(h)
  BY <1>1 DEF EnableStepping, States
<1>2. CASE DisableStepping(h)
  BY <1>2, NotifyType DEF DisableStepping, RunAdjacentSystems, States
<1>3. CASE StepOpcode(h)
  BY <1>3, NotifyType DEF StepOpcode
<1>4. CASE StepOut(h)
  BY <1>4 DEF StepOut
<1>5. CASE PauseAndLock(h)
  <2>1. was_unpaused' \in [Hosts -> BOOLEAN]
    BY <1>5 DEF PauseAndLock
  <2> QED BY <1>5, <2>1 DEF PauseAndLock, States
<1>6. CASE Stop(h)
  BY <1>6, NotifyType DEF Stop, States
<1>7. CASE EnableSteppingDone(h)
  BY <1>7 DEF EnableSteppingDone, RunAdjacentSystems
<1>8. CASE PauseAndLockDone(h)
  <2>1. s_have_fake_cpu_thread' \in BOOLEAN
    BY <1>8 DEF PauseAndLockDone
  <2> QED BY <1>8, <2>1 DEF PauseAndLockDone, RunAdjacentSystems
<1>9. CASE Unlock(h)
  <2>1. tls_is_cpu_thread' \in [Hosts -> BOOLEAN]
    BY <1>9 DEF Unlock
  <2>2. adjacent' \in BOOLEAN
    BY <1>9 DEF Unlock, RunAdjacentSystems
  <2>3. s_state' \in States
    BY <1>9 DEF Unlock, States
  <2> QED BY <1>9, <2>1, <2>2, <2>3, NotifyType DEF Unlock
<1>10. CASE StopDone(h)
  BY <1>10 DEF StopDone, RunAdjacentSystems, FlushStepSyncEventLocked
<1> QED
  BY <1>1, <1>2, <1>3, <1>4, <1>5, <1>6, <1>7, <1>8, <1>9, <1>10 DEF HostStep, HostFinish

\* No step of a host thread breaks the lock facts.
LEMMA HostStepLockInv ==
  ASSUME TypeOK, LockInv, NEW h \in Hosts, HostStep(h)
  PROVE  LockInv'
<1> USE HostsAssumption
    DEF TypeOK, LockInv, FakeThreadBalanced, HostUnchanged, flags, step, fake, LockWaiting, Locked
<1>1. CASE EnableStepping(h)
  BY <1>1 DEF EnableStepping
<1>2. CASE DisableStepping(h)
  BY <1>2 DEF DisableStepping
<1>3. CASE StepOpcode(h)
  BY <1>3 DEF StepOpcode
<1>4. CASE StepOut(h)
  BY <1>4 DEF StepOut
<1>5. CASE PauseAndLock(h)
  BY <1>5 DEF PauseAndLock
<1>6. CASE Stop(h)
  BY <1>6 DEF Stop
<1>7. CASE EnableSteppingDone(h)
  BY <1>7 DEF EnableSteppingDone
<1>8. CASE PauseAndLockDone(h)
  BY <1>8 DEF PauseAndLockDone
<1>9. CASE Unlock(h)
  BY <1>9 DEF Unlock
<1>10. CASE StopDone(h)
  BY <1>10 DEF StopDone
<1> QED
  BY <1>1, <1>2, <1>3, <1>4, <1>5, <1>6, <1>7, <1>8, <1>9, <1>10 DEF HostStep, HostFinish

\* No step of a host thread breaks the halt facts.
LEMMA HostStepHaltInv ==
  ASSUME TypeOK, LockInv, HaltInv, NEW h \in Hosts, HostStep(h)
  PROVE  HaltInv'
<1>a. breakpoints' = breakpoints
  BY DEF HostStep, HostFinish, EnableStepping, DisableStepping, StepOpcode, StepOut, PauseAndLock,
         Stop, EnableSteppingDone, PauseAndLockDone, Unlock, StopDone, HostUnchanged
<1> SUFFICES ASSUME ~breakpoints PROVE HaltInv'
  BY <1>a DEF HaltInv
<1> USE HostsAssumption, SetStateFacts
    DEF HaltInv, HaltHonoured, HostUnchanged, flags, step, fake, LockWaiting, Locked, States
<1>1. CASE EnableStepping(h)
  BY <1>1 DEF EnableStepping, TypeOK, LockInv
<1>2. CASE DisableStepping(h)
  BY <1>2 DEF DisableStepping, TypeOK, LockInv
<1>3. CASE StepOpcode(h)
  BY <1>3 DEF StepOpcode
<1>4. CASE StepOut(h)
  BY <1>4 DEF StepOut, TypeOK
<1>5. CASE PauseAndLock(h)
  BY <1>5 DEF PauseAndLock, TypeOK, LockInv
<1>6. CASE Stop(h)
  BY <1>6 DEF Stop, TypeOK
<1>7. CASE EnableSteppingDone(h)
  BY <1>7 DEF EnableSteppingDone, TypeOK
<1>8. CASE PauseAndLockDone(h)
  BY <1>8 DEF PauseAndLockDone, TypeOK
<1>9. CASE Unlock(h)
  BY <1>9 DEF Unlock, TypeOK, LockInv
<1>10. CASE StopDone(h)
  BY <1>10 DEF StopDone, TypeOK
<1> QED
  BY <1>1, <1>2, <1>3, <1>4, <1>5, <1>6, <1>7, <1>8, <1>9, <1>10 DEF HostStep, HostFinish

-----------------------------------------------------------------------------
(* Break and the next boot.                                                *)

\* Break, from any system thread, keeps the invariant.
LEMMA BreakIndInv == IndInv /\ Break => IndInv'
<1> SUFFICES ASSUME IndInv, Break PROVE IndInv'
  OBVIOUS
<1> USE SetStateFacts DEF IndInv, Break, HostUnchanged, step, fake, RunAdjacentSystems
<1>1. TypeOK'
  BY DEF TypeOK, States
<1>2. LockInv'
  BY DEF LockInv, FakeThreadBalanced
<1>3. HaltInv'
  BY DEF HaltInv, HaltHonoured, TypeOK, LockInv, States
<1> QED BY <1>1, <1>2, <1>3

\* Shutdown and Init keep the invariant.
LEMMA RebootIndInv == IndInv /\ Reboot => IndInv'
<1> SUFFICES ASSUME IndInv, Reboot PROVE IndInv'
  OBVIOUS
<1> USE DEF IndInv, Reboot, flags, fake, RunAdjacentSystems, FlushStepSyncEventLocked
<1>1. TypeOK'
  BY DEF TypeOK, States, CpuPlaces
<1>2. LockInv'
  BY DEF LockInv, FakeThreadBalanced, Executing
<1>3. HaltInv'
  BY DEF HaltInv, HaltHonoured, LockWaiting, Locked
<1> QED BY <1>1, <1>2, <1>3

\* The invariant is inductive.
LEMMA NextIndInv == IndInv /\ [Next]_vars => IndInv'
<1> SUFFICES ASSUME IndInv, [Next]_vars PROVE IndInv'
  OBVIOUS
<1>1. CASE CpuStep
  BY <1>1, CpuStepIndInv
<1>2. CASE Break
  BY <1>2, BreakIndInv
<1>3. CASE Reboot
  BY <1>3, RebootIndInv
<1>4. CASE \E h \in Hosts : HostStep(h)
  BY <1>4, HostStepTypeOK, HostStepLockInv, HostStepHaltInv DEF IndInv
<1>5. CASE UNCHANGED vars
  BY <1>5 DEF vars, flags, step, fake, IndInv, TypeOK, LockInv, FakeThreadBalanced, HaltInv,
              HaltHonoured
<1> QED BY <1>1, <1>2, <1>3, <1>4, <1>5 DEF Next

-----------------------------------------------------------------------------
(* Theorems.                                                               *)

\* Type correctness and the lock discipline, for any number of hosts, with and
\* without breakpoints.
THEOREM Invariance == Spec => []IndInv
<1>1. Init => IndInv
  BY InitIndInv
<1>2. IndInv /\ [Next]_vars => IndInv'
  BY NextIndInv
<1> QED BY <1>1, <1>2, PTL DEF Spec

\* While PauseAndLock is held nobody else acts as the CPU thread: neither the
\* real one nor another host.
THEOREM LockIsExclusive == Spec => []OneCPUThread
<1>1. IndInv => OneCPUThread
  BY HostsAssumption DEF IndInv, TypeOK, LockInv, FakeThreadBalanced, OneCPUThread
<1> QED BY <1>1, Invariance, PTL

\* Without breakpoints, nothing but EnableStepping(false) undoes a halt.
THEOREM HaltIsHonoured == Spec => []HaltHonoured
<1>1. IndInv => HaltHonoured
  BY DEF IndInv, HaltInv, HaltHonoured
<1> QED BY <1>1, Invariance, PTL

\* Without breakpoints, PowerDown is left only by the next boot, after Run
\* has exited.
THEOREM PowerDownIsSticky == Spec => PowerDownSticks
<1> DEFINE Sticks == ~breakpoints /\ s_state = "PowerDown" /\ s_state' # "PowerDown" => cpu = "exited"
<1>1. IndInv /\ [Next]_vars => [Sticks]_vars
  <2> SUFFICES ASSUME IndInv, Next PROVE Sticks
    OBVIOUS
  <2>a. TypeOK
    BY DEF IndInv
  <2>1. CASE CpuStep
    BY <2>1, CpuStepEffect DEF CpuEffect, IndInv, HaltInv
  <2>2. CASE Break
    BY <2>2, <2>a, SetStateFacts DEF Break, States
  <2>3. CASE Reboot
    BY <2>3 DEF Reboot
  <2>4. ASSUME NEW h \in Hosts, HostStep(h) PROVE Sticks
    BY <2>4, <2>a, SetStateFacts
       DEF HostStep, HostFinish, EnableStepping, DisableStepping, StepOpcode, StepOut, PauseAndLock,
           Stop, EnableSteppingDone, PauseAndLockDone, Unlock, StopDone, States
  <2> QED BY <2>1, <2>2, <2>3, <2>4 DEF Next
<1> QED BY <1>1, Invariance, PTL DEF Spec, PowerDownSticks

-----------------------------------------------------------------------------
(* Wake-ups.  PowerDownExits, ResumeRuns and StepServed are liveness, and  *)
(* checked on an instance; what the code can get wrong about them is this. *)

\* No wake-up of the CPU thread is lost: while it waits on s_state_cpu_cvar, what it waits
\* for has not happened, or a notification is there that makes it look.
NoLostNotify ==
  /\ cpu = "waitUnlocked" => s_state_paused_and_locked \/ cpu_notified
  /\ cpu = "waitStep" => (IsStepping /\ ~s_state_cpu_step_instruction) \/ cpu_notified

\* Every step keeps the CPU thread's wake-ups: those that change what it waits for notify it,
\* and it waits only after it has looked.
LEMMA NotifyStep == ASSUME IndInv, NoLostNotify, Next PROVE NoLostNotify'
<1>t. TypeOK
  BY DEF IndInv
<1>p. ASSUME NEW b \in BOOLEAN, Iterate(b), s_state_cpu_step_instruction' = b
      PROVE  NoLostNotify'
  <2>1. cpu' = Place(b) /\ s_state' = s_state /\ s_state_paused_and_locked' = s_state_paused_and_locked
    BY <1>p DEF Iterate, CpuUnchanged, flags
  <2>2. Place(b) = "waitUnlocked" => s_state_paused_and_locked
    BY <1>t, PlaceFacts DEF TypeOK, States, Place
  <2>3. Place(b) = "waitStep" => s_state = "Stepping" /\ ~b
    BY <1>t DEF TypeOK, States, Place
  <2> QED BY <1>p, <2>1, <2>2, <2>3 DEF NoLostNotify, IsStepping
<1>f. FALSE \in BOOLEAN /\ TRUE \in BOOLEAN /\ s_state_cpu_step_instruction \in BOOLEAN
  BY <1>t DEF TypeOK
<1>1. CASE Run \/ RunLoopDone
  BY <1>1, <1>f, <1>p DEF Run, RunLoopDone, step
<1>2. CASE WakeUnlocked
  <2>1. CASE s_state_paused_and_locked /\ UNCHANGED cpu /\ CpuUnchanged
    BY <1>2, <2>1 DEF WakeUnlocked, NoLostNotify, CpuUnchanged, flags
  <2>2. CASE Iterate(s_state_cpu_step_instruction)
    BY <1>2, <2>2, <1>f, <1>p DEF WakeUnlocked, step
  <2> QED BY <1>2, <2>1, <2>2 DEF WakeUnlocked
<1>3. CASE WakeStep
  <2>1. CASE IsStepping /\ ~s_state_cpu_step_instruction /\ UNCHANGED <<s_state, step, cpu>>
    BY <1>3, <2>1 DEF WakeStep, NoLostNotify, IsStepping, step
  <2>2. CASE s_state_cpu_step_instruction /\ Iterate(TRUE) /\ UNCHANGED step
    BY <2>2, <1>f, <1>p DEF step
  <2>3. CASE FlushStepSyncEventLocked /\ Iterate(FALSE)
    BY <2>3, <1>f, <1>p DEF FlushStepSyncEventLocked
  <2> QED BY <1>3, <2>1, <2>2, <2>3 DEF WakeStep
<1>4. CASE SingleStepDone
  BY <1>4, <1>f, <1>p DEF SingleStepDone, FlushStepSyncEventLocked
<1>5. CASE EnterRunning \/ BreakpointStepDone \/ RunLoopReturns
  BY <1>5 DEF EnterRunning, BreakpointStepDone, RunLoopReturns, Unlocked, NoLostNotify
<1>6. CASE Break
  BY <1>6, <1>t DEF Break, SetStateLocked, HostUnchanged, step, NoLostNotify, IsStepping, TypeOK
<1>7. CASE Reboot
  BY <1>7 DEF Reboot, NoLostNotify
<1>8. ASSUME NEW h \in Hosts, HostStep(h) PROVE NoLostNotify'
  <2>1. cpu' = cpu
    BY <1>8 DEF HostStep, HostFinish, EnableStepping, DisableStepping, StepOpcode, StepOut, PauseAndLock, Stop,
            EnableSteppingDone, PauseAndLockDone, Unlock, StopDone, HostUnchanged
  <2>2. CASE DisableStepping(h) \/ StepOpcode(h) \/ Stop(h) \/ Unlock(h)
    BY <2>1, <2>2 DEF DisableStepping, StepOpcode, Stop, Unlock, NotifyCpu, Waiting, NoLostNotify
  <2>3. CASE EnableStepping(h) \/ PauseAndLock(h)
    BY <2>1, <2>3, <1>t
       DEF EnableStepping, PauseAndLock, SetStateLocked, flags, step, NoLostNotify, IsStepping, TypeOK
  <2>4. CASE StepOut(h) \/ EnableSteppingDone(h) \/ PauseAndLockDone(h)
    <3>1. UNCHANGED <<s_state, s_state_paused_and_locked, s_state_cpu_step_instruction, cpu_notified>>
      BY <2>4, Zenon DEF StepOut, EnableSteppingDone, PauseAndLockDone, flags, step
    <3> QED BY <2>1, <3>1 DEF NoLostNotify, IsStepping
  <2>5. CASE StopDone(h)
    BY <2>1, <2>5 DEF StopDone, FlushStepSyncEventLocked, flags, NoLostNotify, IsStepping
  <2> QED BY <1>8, <2>2, <2>3, <2>4, <2>5 DEF HostStep, HostFinish
<1> QED BY <1>1, <1>2, <1>3, <1>4, <1>5, <1>6, <1>7, <1>8 DEF Next, CpuStep

\* For any number of hosts, with and without breakpoints, the CPU thread never sleeps through
\* an unlock, a resume, a requested step or a stop.
THEOREM NotificationsAreKept == Spec => []NoLostNotify
<1>1. Init => NoLostNotify
  BY DEF Init, NoLostNotify
<1>2. IndInv /\ NoLostNotify /\ [Next]_vars => NoLostNotify'
  <2> SUFFICES ASSUME NoLostNotify, UNCHANGED vars PROVE NoLostNotify'
    BY NotifyStep
  <2> QED BY DEF vars, flags, step, NoLostNotify, IsStepping
<1> QED BY <1>1, <1>2, Invariance, PTL DEF Spec
=============================================================================

-------------------------------- MODULE Fifo --------------------------------
(***************************************************************************)
(* The graphics FIFO in dual core mode (VideoCommon/Fifo.cpp and           *)
(* VideoCommon/CommandProcessor.cpp): the CPU thread appends blocks of 32  *)
(* bytes, the GPU thread consumes them as the payload of a BlockingLoop,   *)
(* of which only the promise (LoopSpec) is used here.  With bSyncGPU the   *)
(* two keep within a distance of each other, counted in s_sync_ticks.      *)
(*                                                                         *)
(* Pointers and the distance count blocks; CPBase is 0 and CPEnd the       *)
(* constant below.  What the decoder does with a block is left out, except *)
(* the cycles it takes.  The game attaches an empty FIFO, moves the        *)
(* breakpoint only while reading is off, releases no breakpoint in the     *)
(* very write that turns reading off, and does not overflow the FIFO.      *)
(***************************************************************************)
EXTENDS Integers

CONSTANTS
  CPEnd,            \* the last block of the FIFO
  CPHiWatermark, CPLoWatermark,
  Controls,         \* the values the game writes to the control register, by bSyncGPU
  Breakpoints,      \* the blocks at which it sets the breakpoint
  Slots,            \* emulated time between two SyncGPUCallbacks
  Cycles,           \* GPU time one block may take
  iSyncGpuMinDistance, iSyncGpuMaxDistance

ControlRegisters ==
  [GPReadEnable : BOOLEAN, GPLinkEnable : BOOLEAN, BPEnable : BOOLEAN, BPInt : BOOLEAN,
   FifoOverflowIntEnable : BOOLEAN, FifoUnderflowIntEnable : BOOLEAN]

Off == [GPReadEnable |-> FALSE, GPLinkEnable |-> FALSE, BPEnable |-> FALSE, BPInt |-> FALSE,
        FifoOverflowIntEnable |-> FALSE, FifoUnderflowIntEnable |-> FALSE]

ASSUME SizeAssumption == CPEnd \in Nat /\ CPHiWatermark \in Nat /\ CPLoWatermark \in Nat
ASSUME BreakpointsAssumption == Breakpoints \subseteq 0 .. CPEnd
ASSUME ControlsAssumption == Controls \in [BOOLEAN -> SUBSET ControlRegisters]
ASSUME TicksAssumption ==
  /\ Slots \subseteq Nat \ {0} /\ \E t \in Slots : \A u \in Slots : u <= t
  /\ Cycles \subseteq Nat
  /\ iSyncGpuMinDistance \in Int /\ iSyncGpuMinDistance <= 0 /\ iSyncGpuMaxDistance \in Nat \ {0}

VARIABLES
  bSyncGPU,                            \* the setting, fixed while the game runs
  state, place,                        \* s_gpu_mainloop
  s_emu_running_state,
  CPReadWriteDistance, CPReadPointer, CPWritePointer, CPBreakpoint, bFF_Breakpoint,
  m_CPCtrlReg,
  s_interrupt_set, s_interrupt_waiting,
  et_UpdateInterrupts,                 \* the userdata of the scheduled events
  s_sync_ticks, s_syncing_suspended, s_sync_wakeup_event,
  gpu, cpu,                            \* where the two threads are
  interrupt, cyclesExecuted,           \* locals of the GPU thread
  old, now,                            \* locals of WaitForGpuThread
  overtaken     \* history: a wait for the GPU thread ended inside its loop condition

loop   == <<state, place>>
blocks == <<CPReadWriteDistance, CPReadPointer, CPWritePointer>>
irq    == <<s_interrupt_set, s_interrupt_waiting, et_UpdateInterrupts>>
sync   == <<s_sync_ticks, s_syncing_suspended, s_sync_wakeup_event>>
regs   == <<CPBreakpoint, m_CPCtrlReg>>
gpuLocals == <<interrupt, cyclesExecuted>>
cpuLocals == <<old, now>>
vars == <<loop, blocks, irq, sync, bSyncGPU, s_emu_running_state, regs, bFF_Breakpoint, gpu, cpu, gpuLocals, cpuLocals, overtaken>>

Loop == INSTANCE LoopSpec WITH stopping <- FALSE

GpuPlaces == {"rest", "start", "status", "post", "ticks", "set", "test", "bounds", "read", "add",
              "skip", "exchange", "skipSet", "end", "panic"}
CpuPlaces == {"run", "burstSet", "burst", "flush", "wake", "syncTest", "syncWait",
              "stopped", "locked"}

TypeOK ==
  /\ bSyncGPU \in BOOLEAN /\ s_emu_running_state \in BOOLEAN
  /\ state \in 1 .. 3 /\ place \in {"idle", "payload", "switch"}
  /\ CPReadWriteDistance \in Int
  /\ CPReadPointer \in 0 .. CPEnd /\ CPWritePointer \in 0 .. CPEnd /\ CPBreakpoint \in 0 .. CPEnd
  /\ m_CPCtrlReg \in ControlRegisters
  /\ bFF_Breakpoint \in BOOLEAN /\ interrupt \in BOOLEAN
  /\ s_interrupt_set \in BOOLEAN /\ s_interrupt_waiting \in BOOLEAN
  /\ et_UpdateInterrupts \subseteq BOOLEAN
  /\ s_sync_ticks \in Int /\ old \in Int /\ now \in Int
  /\ s_syncing_suspended \in BOOLEAN /\ s_sync_wakeup_event \in BOOLEAN
  /\ gpu \in GpuPlaces /\ cpu \in CpuPlaces
  /\ cyclesExecuted \in Nat /\ overtaken \in BOOLEAN

AtBreakpoint == m_CPCtrlReg.BPEnable /\ CPReadPointer = CPBreakpoint

\* A pointer at CPEnd wraps to CPBase.
Advanced(pointer) == IF pointer = CPEnd THEN 0 ELSE pointer + 1

\* The interrupt line as both status functions compute it.
InterruptLine(breakpoint) ==
  /\ m_CPCtrlReg.GPReadEnable
  /\ \/ breakpoint /\ m_CPCtrlReg.BPInt
     \/ CPReadWriteDistance > CPHiWatermark /\ m_CPCtrlReg.FifoOverflowIntEnable
     \/ CPReadWriteDistance < CPLoWatermark /\ m_CPCtrlReg.FifoUnderflowIntEnable

-----------------------------------------------------------------------------
(* The GPU thread: RunGpuLoop.                                             *)

GpuFrame == UNCHANGED <<cpu, cpuLocals, bSyncGPU, s_emu_running_state, regs, CPWritePointer, s_syncing_suspended, overtaken>>

GpuBegin ==
  /\ Loop!Begin
  /\ gpu' = "start"
  /\ UNCHANGED <<blocks, irq, sync, bFF_Breakpoint, gpuLocals>> /\ GpuFrame

\* Do nothing while paused.
Start ==
  /\ gpu = "start"
  /\ gpu' = IF s_emu_running_state THEN "status" ELSE "end"
  /\ UNCHANGED <<loop, blocks, irq, sync, bFF_Breakpoint, gpuLocals>> /\ GpuFrame

\* SetCPStatusFromGPU: the flags and the line ...
SetCPStatusFromGPU ==
  /\ gpu = "status"
  /\ bFF_Breakpoint' = AtBreakpoint
  /\ interrupt' = InterruptLine(AtBreakpoint)
  /\ gpu' = "post"
  /\ UNCHANGED <<loop, blocks, irq, sync, cyclesExecuted>> /\ GpuFrame

\* ... and the event that tells the CPU thread, one at a time.
PostInterrupt ==
  /\ gpu = "post"
  /\ IF interrupt # s_interrupt_set /\ ~s_interrupt_waiting
       THEN s_interrupt_waiting' = TRUE /\ et_UpdateInterrupts' = et_UpdateInterrupts \cup {interrupt}
       ELSE UNCHANGED <<s_interrupt_waiting, et_UpdateInterrupts>>
  /\ IF cyclesExecuted > 0 /\ bSyncGPU
       THEN gpu' = "ticks" /\ UNCHANGED cyclesExecuted
       ELSE gpu' = "test" /\ cyclesExecuted' = 0
  /\ interrupt' = FALSE
  /\ UNCHANGED <<loop, blocks, sync, s_interrupt_set, bFF_Breakpoint>> /\ GpuFrame

\* The GPU takes its time from the distance, and ends the CPU's wait when the
\* distance falls below the maximum.
TakeTicks ==
  /\ gpu = "ticks"
  /\ s_sync_ticks' = s_sync_ticks - cyclesExecuted
  /\ gpu' = IF s_sync_ticks >= iSyncGpuMaxDistance /\ s_sync_ticks' < iSyncGpuMaxDistance
            THEN "set" ELSE "test"
  /\ cyclesExecuted' = 0
  /\ UNCHANGED <<loop, blocks, irq, s_sync_wakeup_event, bFF_Breakpoint, interrupt>> /\ GpuFrame

SetWakeup ==
  /\ \/ gpu = "set" /\ gpu' = "test"
     \/ gpu = "skipSet" /\ gpu' = "end"
  /\ s_sync_wakeup_event' = TRUE
  /\ UNCHANGED <<loop, blocks, irq, s_sync_ticks, bFF_Breakpoint, gpuLocals>> /\ GpuFrame

\* The loop condition reads its variables in this order.
Test ==
  /\ gpu = "test"
  /\ gpu' = IF ~s_interrupt_waiting /\ m_CPCtrlReg.GPReadEnable THEN "bounds" ELSE "skip"
  /\ UNCHANGED <<loop, blocks, irq, sync, bFF_Breakpoint, gpuLocals>> /\ GpuFrame

Readable ==
  /\ CPReadWriteDistance # 0 /\ ~AtBreakpoint
  /\ bSyncGPU => s_sync_ticks >= iSyncGpuMinDistance

TestBounds ==
  /\ gpu = "bounds"
  /\ gpu' = IF Readable THEN "read" ELSE "skip"
  /\ UNCHANGED <<loop, blocks, irq, sync, bFF_Breakpoint, gpuLocals>> /\ GpuFrame

\* ASSERT_MSG: "Negative fifo.CPReadWriteDistance".  What follows a failed
\* assertion is not modelled.
AssertDistance ==
  /\ gpu = "read" /\ CPReadWriteDistance - 1 < 0
  /\ gpu' = "panic"
  /\ UNCHANGED <<loop, blocks, irq, sync, bFF_Breakpoint, gpuLocals>> /\ GpuFrame

ReadDataFromFifo ==
  /\ gpu = "read" /\ CPReadWriteDistance - 1 >= 0
  /\ CPReadPointer' = Advanced(CPReadPointer)
  /\ cyclesExecuted' \in Cycles
  /\ gpu' = "add"
  /\ UNCHANGED <<loop, CPReadWriteDistance, irq, sync, bFF_Breakpoint, interrupt>> /\ GpuFrame

\* Mutant: the status is not computed again.
ConsumeWithoutStatus ==
  /\ gpu = "add"
  /\ CPReadWriteDistance' = CPReadWriteDistance - 1
  /\ gpu' = "test"
  /\ UNCHANGED <<loop, CPReadPointer, irq, sync, bFF_Breakpoint, gpuLocals>> /\ GpuFrame

Consume ==
  /\ gpu = "add"
  /\ CPReadWriteDistance' = CPReadWriteDistance - 1
  /\ gpu' = "status"
  /\ UNCHANGED <<loop, CPReadPointer, irq, sync, bFF_Breakpoint, gpuLocals>> /\ GpuFrame

\* Fast skip of the remaining GPU time: a load, then an exchange.
Skip ==
  /\ gpu = "skip"
  /\ gpu' = IF s_sync_ticks > 0 THEN "exchange" ELSE "end"
  /\ UNCHANGED <<loop, blocks, irq, sync, bFF_Breakpoint, gpuLocals>> /\ GpuFrame

\* Mutant: the CPU that waits is forgotten.
ExchangeWithoutSet ==
  /\ gpu = "exchange"
  /\ s_sync_ticks' = 0 /\ gpu' = "end"
  /\ UNCHANGED <<loop, blocks, irq, s_sync_wakeup_event, bFF_Breakpoint, gpuLocals>> /\ GpuFrame

Exchange ==
  /\ gpu = "exchange"
  /\ s_sync_ticks' = 0
  /\ gpu' = IF s_sync_ticks >= iSyncGpuMaxDistance THEN "skipSet" ELSE "end"
  /\ UNCHANGED <<loop, blocks, irq, s_sync_wakeup_event, bFF_Breakpoint, gpuLocals>> /\ GpuFrame

GpuEnd ==
  /\ gpu = "end"
  /\ Loop!End
  /\ gpu' = "rest"
  /\ UNCHANGED <<blocks, irq, sync, bFF_Breakpoint, gpuLocals>> /\ GpuFrame

CountDown ==
  /\ Loop!Dec
  /\ UNCHANGED <<blocks, irq, sync, bFF_Breakpoint, gpu, gpuLocals>> /\ GpuFrame

Leave ==
  /\ Loop!Leave
  /\ UNCHANGED <<blocks, irq, sync, bFF_Breakpoint, gpu, gpuLocals>> /\ GpuFrame

GpuStep == \/ GpuBegin \/ Start \/ SetCPStatusFromGPU \/ PostInterrupt \/ TakeTicks \/ SetWakeup
           \/ Test \/ TestBounds \/ AssertDistance \/ ReadDataFromFifo \/ Consume \/ Skip \/ Exchange
           \/ GpuEnd \/ CountDown \/ Leave

-----------------------------------------------------------------------------
(* The CPU thread, and the host while it holds the CPU thread.             *)

GpuUnchanged == UNCHANGED <<gpu, gpuLocals, bFF_Breakpoint, bSyncGPU>>
CpuFrame == GpuUnchanged /\ UNCHANGED overtaken

\* s_gpu_mainloop.Wait() returns, perhaps from a loop that is running its
\* payload without having been woken.
GpuWaited ==
  /\ Loop!IsDone
  /\ overtaken' = (overtaken \/ gpu = "bounds")
  /\ GpuUnchanged

\* RunGpu: wake the GPU thread and, with bSyncGPU, the suspended callback.
RunGpu ==
  /\ cpu = "wake" /\ cpu' = "run"
  /\ Loop!Wakeup
  /\ s_syncing_suspended' = (s_syncing_suspended /\ ~bSyncGPU)
  /\ UNCHANGED <<blocks, irq, s_sync_ticks, s_sync_wakeup_event, s_emu_running_state, regs, cpuLocals>>
  /\ CpuFrame

\* GatherPipeBursted begins with SetCPStatusFromCPU, which changes the line at
\* once unless an event is on its way.  Only this thread writes it.
GatherPipeBursted ==
  /\ cpu = "run"
  /\ m_CPCtrlReg.GPLinkEnable => CPReadWriteDistance < CPEnd
  /\ cpu' = IF InterruptLine(bFF_Breakpoint) # s_interrupt_set /\ ~s_interrupt_waiting
            THEN "burstSet" ELSE "burst"
  /\ UNCHANGED <<loop, blocks, irq, sync, s_emu_running_state, regs, cpuLocals>> /\ CpuFrame

BurstSet ==
  /\ cpu = "burstSet" /\ cpu' = "burst"
  /\ s_interrupt_set' = ~s_interrupt_set
  /\ UNCHANGED <<loop, blocks, s_interrupt_waiting, et_UpdateInterrupts, sync, s_emu_running_state, regs,
                 cpuLocals>>
  /\ CpuFrame

\* A linked FIFO takes the block.  In multibuffer mode the CPU writes to a
\* FIFO of its own, and waits when that is the one the GPU reads.
Burst ==
  /\ cpu = "burst"
  /\ IF m_CPCtrlReg.GPLinkEnable
       THEN /\ CPWritePointer' = Advanced(CPWritePointer)
            /\ CPReadWriteDistance' = CPReadWriteDistance + 1
            /\ cpu' = "wake"
       ELSE /\ \/ cpu' = "wake"
               \/ CPReadWriteDistance > 0 /\ cpu' = "flush"
            /\ UNCHANGED <<CPWritePointer, CPReadWriteDistance>>
  /\ UNCHANGED <<loop, CPReadPointer, irq, sync, s_emu_running_state, regs, cpuLocals>> /\ CpuFrame

\* FlushGpu; both of its callers then call RunGpu.
FlushGpu ==
  /\ cpu = "flush" /\ cpu' = "wake"
  /\ GpuWaited
  /\ UNCHANGED <<loop, blocks, irq, sync, s_emu_running_state, regs, cpuLocals>>

\* Mutant: no FlushGpu.
SetCpControlRegisterAtOnce(c) ==
  /\ cpu = "run" /\ cpu' = "wake"
  /\ m_CPCtrlReg' = c
  /\ UNCHANGED <<loop, blocks, irq, sync, s_emu_running_state, CPBreakpoint, cpuLocals>> /\ CpuFrame

\* Control register: turning reading off waits for the GPU thread.
SetCpControlRegister(c) ==
  /\ cpu = "run"
  /\ m_CPCtrlReg.GPReadEnable /\ ~c.GPReadEnable /\ m_CPCtrlReg.BPEnable => c.BPEnable
  /\ m_CPCtrlReg' = c
  /\ cpu' = IF m_CPCtrlReg.GPReadEnable /\ ~c.GPReadEnable THEN "flush" ELSE "wake"
  /\ UNCHANGED <<loop, blocks, irq, sync, s_emu_running_state, CPBreakpoint, cpuLocals>> /\ CpuFrame

\* The clear register does nothing but wake the GPU thread.
SetCpClearRegister ==
  /\ cpu = "run" /\ cpu' = "wake"
  /\ UNCHANGED <<loop, blocks, irq, sync, s_emu_running_state, regs, cpuLocals>> /\ CpuFrame

WriteBreakpoint(block) ==
  /\ cpu = "run" /\ ~m_CPCtrlReg.GPReadEnable
  /\ CPBreakpoint' = block
  /\ UNCHANGED <<loop, blocks, irq, sync, s_emu_running_state, m_CPCtrlReg, cpu, cpuLocals>> /\ CpuFrame

\* Mutant: the distance of the FIFO detached is kept.
AttachFifoKeepingDistance ==
  /\ cpu = "run" /\ ~m_CPCtrlReg.GPReadEnable
  /\ CPReadPointer' = 0 /\ CPWritePointer' = 0 /\ UNCHANGED CPReadWriteDistance
  /\ cpu' = "wake"
  /\ UNCHANGED <<loop, irq, sync, s_emu_running_state, regs, cpuLocals>> /\ CpuFrame

\* The pointer registers and, last, the distance.
AttachFifo ==
  /\ cpu = "run" /\ ~m_CPCtrlReg.GPReadEnable
  /\ CPReadPointer' = 0 /\ CPWritePointer' = 0 /\ CPReadWriteDistance' = 0
  /\ cpu' = "wake"
  /\ UNCHANGED <<loop, irq, sync, s_emu_running_state, regs, cpuLocals>> /\ CpuFrame

\* Mutant: the GPU thread, which stopped for the event, is not woken.
UpdateInterruptsWithoutWake(userdata) ==
  /\ cpu = "run" /\ UNCHANGED cpu
  /\ s_interrupt_set' = userdata
  /\ s_interrupt_waiting' = FALSE
  /\ et_UpdateInterrupts' = et_UpdateInterrupts \ {userdata}
  /\ UNCHANGED <<loop, blocks, sync, s_emu_running_state, regs, cpuLocals>> /\ CpuFrame

UpdateInterrupts(userdata) ==
  /\ cpu = "run"
  /\ s_interrupt_set' = userdata
  /\ s_interrupt_waiting' = FALSE
  /\ et_UpdateInterrupts' = et_UpdateInterrupts \ {userdata}
  /\ cpu' = "wake"
  /\ UNCHANGED <<loop, blocks, sync, s_emu_running_state, regs, cpuLocals>> /\ CpuFrame

\* SyncGPUCallback: WaitForGpuThread adds the CPU's time, ...
SyncGPUCallback(ticks) ==
  /\ cpu = "run" /\ bSyncGPU /\ ~s_syncing_suspended
  /\ s_sync_ticks' = s_sync_ticks + ticks
  /\ old' = s_sync_ticks /\ now' = s_sync_ticks + ticks
  /\ cpu' = "syncTest"
  /\ UNCHANGED <<loop, blocks, irq, s_syncing_suspended, s_sync_wakeup_event, s_emu_running_state, regs>>
  /\ CpuFrame

\* Mutant: the CPU does not wait for a GPU too far behind.
WaitForGpuThreadNever ==
  /\ cpu = "syncTest" /\ cpu' = "run"
  /\ s_syncing_suspended' = FALSE
  /\ old' = 0 /\ now' = 0
  /\ UNCHANGED <<loop, blocks, irq, s_sync_ticks, s_sync_wakeup_event, s_emu_running_state, regs>> /\ CpuFrame

\* ... stops polling an idle GPU, wakes one that has work again, and waits for
\* one that is too far behind.
WaitForGpuThread ==
  /\ cpu = "syncTest"
  /\ LET idle == old >= 0 /\ Loop!IsDone
     IN /\ s_syncing_suspended' = idle
        /\ IF ~idle /\ old < iSyncGpuMinDistance /\ now >= iSyncGpuMinDistance
             THEN Loop!Wakeup ELSE UNCHANGED loop
        /\ cpu' = IF ~idle /\ now >= iSyncGpuMaxDistance THEN "syncWait" ELSE "run"
  /\ old' = 0 /\ now' = 0
  /\ UNCHANGED <<blocks, irq, s_sync_ticks, s_sync_wakeup_event, s_emu_running_state, regs>> /\ CpuFrame

SyncWait ==
  /\ cpu = "syncWait" /\ cpu' = "run"
  /\ s_sync_wakeup_event /\ s_sync_wakeup_event' = FALSE
  /\ UNCHANGED <<loop, blocks, irq, s_sync_ticks, s_syncing_suspended, s_emu_running_state, regs, cpuLocals>>
  /\ CpuFrame

\* EmulatorState(false), with the CPU thread held.
Pause ==
  /\ cpu = "run" /\ cpu' = "stopped"
  /\ s_emu_running_state' = FALSE
  /\ UNCHANGED <<loop, blocks, irq, sync, regs, cpuLocals>> /\ CpuFrame

\* PauseAndLock also waits for the GPU thread.
Lock ==
  /\ cpu = "stopped" /\ cpu' = "locked"
  /\ GpuWaited
  /\ UNCHANGED <<loop, blocks, irq, sync, s_emu_running_state, regs, cpuLocals>>

\* EmulatorState(true).
Unpause ==
  /\ cpu \in {"stopped", "locked"} /\ cpu' = "run"
  /\ s_emu_running_state' = TRUE
  /\ Loop!Wakeup
  /\ UNCHANGED <<blocks, irq, sync, regs, cpuLocals>> /\ CpuFrame

\* What the CPU thread has begun it ends.
CpuContinue == RunGpu \/ BurstSet \/ Burst \/ FlushGpu \/ WaitForGpuThread \/ SyncWait

CpuStep == \/ CpuContinue \/ GatherPipeBursted \/ SetCpClearRegister \/ AttachFifo
           \/ \E userdata \in et_UpdateInterrupts : UpdateInterrupts(userdata)
           \/ Pause \/ Lock \/ Unpause
           \/ \E c \in Controls[bSyncGPU] : SetCpControlRegister(c)
           \/ \E block \in Breakpoints : WriteBreakpoint(block)
           \/ \E ticks \in Slots : SyncGPUCallback(ticks)

\* Init and Prepare, the loop prepared; reading is off.
Init ==
  /\ bSyncGPU \in BOOLEAN /\ s_emu_running_state = TRUE
  /\ state = Loop!LAST /\ place = "idle"
  /\ CPReadWriteDistance = 0 /\ CPReadPointer = 0 /\ CPWritePointer = 0 /\ CPBreakpoint = 0
  /\ m_CPCtrlReg = Off
  /\ bFF_Breakpoint = FALSE /\ interrupt = FALSE /\ cyclesExecuted = 0
  /\ s_interrupt_set = FALSE /\ s_interrupt_waiting = FALSE /\ et_UpdateInterrupts = {}
  /\ s_sync_ticks = 0 /\ s_syncing_suspended = TRUE /\ s_sync_wakeup_event = FALSE
  /\ gpu = "rest" /\ cpu = "run" /\ old = 0 /\ now = 0 /\ overtaken = FALSE

Next == GpuStep \/ CpuStep

Spec == Init /\ [][Next]_vars

\* Both threads are scheduled.  The loop has a timeout of 100 ms, so the
\* payload also runs when nobody calls Wakeup, and it counts down fairly.
FairSpec == Spec /\ WF_vars(GpuStep) /\ SF_vars(CountDown) /\ WF_vars(CpuContinue)

-----------------------------------------------------------------------------
(* Properties.                                                             *)

Reading == gpu \in {"read", "add"}

\* The GPU thread is still when it has to be: after FlushGpu has returned from
\* turning reading off, and while the emulator is locked for a savestate, it
\* moves neither pointer nor distance, though it may be in its payload.
StillWhenFlushed ==
  \/ cpu = "locked"
  \/ ~m_CPCtrlReg.GPReadEnable /\ cpu # "flush"
  => ~Reading \/ overtaken

\* The distance, changed by both threads, is the distance of the pointers, and
\* there is a block for every read ("Negative fifo.CPReadWriteDistance").
InFlight == IF gpu = "add" THEN 1 ELSE 0

DistanceAgrees ==
  ~overtaken =>
    /\ CPReadWriteDistance >= InFlight
    /\ CPReadWriteDistance - InFlight \in
         {CPWritePointer - CPReadPointer, CPWritePointer - CPReadPointer + CPEnd + 1}
    /\ gpu = "read" => CPReadWriteDistance > 0

\* No work is stranded for want of a Wakeup: when both threads are at rest and
\* the loop is done, there is nothing to read, or bSyncGPU holds the GPU back.
AtRest == cpu = "run" /\ gpu = "rest" /\ Loop!IsDone

Stranded == AtRest /\ m_CPCtrlReg.GPReadEnable /\ ~s_interrupt_waiting
            /\ CPReadWriteDistance > 0 /\ ~AtBreakpoint

NoStrandedWork == Stranded => bSyncGPU /\ s_sync_ticks < iSyncGpuMinDistance

\* "GPU is idle, so stop polling": a GPU thread that is only held back keeps
\* the callback that will let it on.
PollsUntilIdle == Stranded /\ bSyncGPU => ~s_syncing_suspended

\* When both are at rest and no event is on its way, the CPU has seen the line
\* that the state calls for, whichever thread computed it last.
InterruptSettles ==
  AtRest /\ ~s_interrupt_waiting => s_interrupt_set = InterruptLine(AtBreakpoint)

MaxSlot == CHOOSE t \in Slots : \A u \in Slots : u <= t

\* The CPU is never ahead by more than the maximum and four callbacks: the one
\* that crosses the maximum, one that finds the GPU idle, and two whose wait is
\* ended by a wake-up left over from waits that did not happen.
SyncBound == s_sync_ticks < iSyncGpuMaxDistance + 4 * MaxSlot

\* Whoever waits for the GPU thread gets on.
WaitsEnd == cpu \in {"flush", "syncWait"} ~> cpu = "run" \/ gpu = "panic"

-----------------------------------------------------------------------------
(* The inductive invariant behind the safety properties.                   *)

Stopped == cpu \in {"stopped", "locked"}

PlaceInv ==
  /\ place = "payload" <=> gpu # "rest"
  /\ s_emu_running_state <=> ~Stopped
  /\ cpu \in {"syncTest", "syncWait"} => bSyncGPU /\ ~s_syncing_suspended
  /\ cpu = "syncTest" => s_sync_ticks <= now
  /\ gpu = "exchange" => s_sync_ticks > 0

\* The CPU thread is about to wake the GPU thread.
Waking == \/ cpu = "wake"
          \/ cpu = "syncTest" /\ old < iSyncGpuMinDistance /\ now >= iSyncGpuMinDistance

Work == m_CPCtrlReg.GPReadEnable /\ ~s_interrupt_waiting /\ Readable

\* The run that the loop still owes is past the tests that could find work.
PastTests == gpu \in {"skip", "exchange", "skipSet", "end"} \/ place = "switch"

\* A loop that is done, or about to be, has no work.
WorkInv ==
  /\ ~Waking /\ ~Stopped =>
       /\ state = Loop!DONE /\ gpu \in {"rest", "start"} => ~Work
       /\ state # Loop!NEED /\ PastTests => ~Work
  /\ state = Loop!DONE /\ ~Waking /\ ~overtaken =>
       /\ gpu \in {"status", "post", "ticks", "set", "test"} => ~Work
       /\ gpu = "bounds" => ~Readable
       /\ ~Reading

\* Past the enable test, reading is on, or FlushGpu has not returned.
FlushInv ==
  /\ gpu \in {"bounds", "read", "add"} => m_CPCtrlReg.GPReadEnable \/ cpu = "flush" \/ overtaken
  /\ cpu = "locked" => state = Loop!DONE

\* The CPU thread is changing what the line depends on, and will wake the GPU.
Changing == cpu \in {"burstSet", "burst", "flush", "wake"}

InterruptInv ==
  state # Loop!NEED /\ ~Changing /\ ~Stopped =>
    /\ gpu = "post" => interrupt = InterruptLine(AtBreakpoint)
    /\ \/ gpu \in {"ticks", "set", "test", "bounds"}
       \/ PastTests
       \/ state = Loop!DONE /\ gpu \in {"rest", "start"}
       => s_interrupt_waiting \/ s_interrupt_set = InterruptLine(AtBreakpoint)

BlocksInv ==
  ~overtaken =>
    /\ CPReadWriteDistance <= CPEnd
    /\ cpu \in {"burstSet", "burst"} /\ m_CPCtrlReg.GPLinkEnable => CPReadWriteDistance < CPEnd

\* The distance with every wake-up that is set, or about to be, counted as a
\* callback that will not wait.
Ahead(callbacks) ==
  s_sync_ticks + (IF s_sync_wakeup_event THEN MaxSlot ELSE 0) + (IF gpu \in {"set", "skipSet"} THEN MaxSlot ELSE 0)
    < iSyncGpuMaxDistance + callbacks * MaxSlot

Settled == \/ state = Loop!DONE
           \/ state = Loop!LAST /\ PastTests /\ gpu \notin {"skip", "exchange"}

SyncInv ==
  IF Settled /\ ~Stopped /\ ~s_syncing_suspended
    THEN IF cpu \in {"syncTest", "syncWait"} THEN Ahead(3) ELSE Ahead(2)
    ELSE IF cpu \in {"syncTest", "syncWait"} THEN Ahead(4) ELSE Ahead(3)

IndInv == /\ TypeOK /\ PlaceInv /\ WorkInv /\ FlushInv /\ InterruptInv
          /\ DistanceAgrees /\ BlocksInv /\ SyncInv
=============================================================================

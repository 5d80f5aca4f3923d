----------------------------- MODULE FifoProofs -----------------------------
(***************************************************************************)
(* The inductive invariant of Fifo and what follows from it, for a FIFO of *)
(* any length, any watermarks, control values, slots, cycles and bounds.   *)
(* One lemma per conjunct of the invariant, one step per action.           *)
(***************************************************************************)
EXTENDS Fifo, TLAPS

\* The longest slot exists and bounds every other.
LEMMA MaxSlotType == MaxSlot \in Nat \ {0} /\ \A u \in Slots : u <= MaxSlot
  BY TicksAssumption DEF MaxSlot

\* Every step keeps the types.
LEMMA TypeStep == ASSUME IndInv, [Next]_vars PROVE TypeOK'
<1> USE SizeAssumption, BreakpointsAssumption, ControlsAssumption, TicksAssumption
<1>inv. TypeOK
  BY DEF IndInv
<1> USE DEF TypeOK, ControlRegisters, GpuPlaces, CpuPlaces, AtBreakpoint, InterruptLine, Advanced,
            Loop!IsDone, Loop!Wakeup, Loop!Begin, Loop!End, Loop!Dec, Loop!Leave, Loop!DONE,
            Loop!LAST, Loop!NEED, loop, blocks, irq, sync, regs, gpuLocals, cpuLocals, GpuFrame,
            CpuFrame, GpuUnchanged, GpuWaited
<1>1. CASE GpuBegin
  BY <1>inv, <1>1 DEF GpuBegin
<1>2. CASE Start
  BY <1>inv, <1>2 DEF Start
<1>3. CASE SetCPStatusFromGPU
  BY <1>inv, <1>3 DEF SetCPStatusFromGPU
<1>4. CASE PostInterrupt
  <2>1. s_interrupt_waiting' \in BOOLEAN /\ interrupt' \in BOOLEAN
    BY <1>inv, <1>4 DEF PostInterrupt
  <2>2. et_UpdateInterrupts' \subseteq BOOLEAN
    BY <1>inv, <1>4 DEF PostInterrupt
  <2> QED BY <1>inv, <2>1, <2>2, <1>4 DEF PostInterrupt
<1>5. CASE TakeTicks
  BY <1>inv, <1>5 DEF TakeTicks
<1>6. CASE SetWakeup
  BY <1>inv, <1>6 DEF SetWakeup
<1>7. CASE Test
  BY <1>inv, <1>7 DEF Test
<1>8. CASE TestBounds
  BY <1>inv, <1>8 DEF TestBounds
<1>9. CASE AssertDistance
  BY <1>inv, <1>9 DEF AssertDistance
<1>10. CASE ReadDataFromFifo
  BY <1>inv, <1>10 DEF ReadDataFromFifo
<1>11. CASE Consume
  BY <1>inv, <1>11 DEF Consume
<1>12. CASE Skip
  BY <1>inv, <1>12 DEF Skip
<1>13. CASE Exchange
  BY <1>inv, <1>13 DEF Exchange
<1>14. CASE GpuEnd
  BY <1>inv, <1>14 DEF GpuEnd
<1>15. CASE CountDown
  BY <1>inv, <1>15 DEF CountDown
<1>16. CASE Leave
  BY <1>inv, <1>16 DEF Leave
<1>17. CASE RunGpu
  BY <1>inv, <1>17 DEF RunGpu
<1>18. CASE BurstSet
  BY <1>inv, <1>18 DEF BurstSet
<1>19. CASE Burst
  BY <1>inv, <1>19 DEF Burst
<1>20. CASE FlushGpu
  BY <1>inv, <1>20 DEF FlushGpu
<1>21. CASE WaitForGpuThread
  BY <1>inv, <1>21 DEF WaitForGpuThread
<1>22. CASE SyncWait
  <2>1. s_sync_wakeup_event' \in BOOLEAN
    BY <1>22 DEF SyncWait
  <2> QED BY <1>inv, <2>1, <1>22 DEF SyncWait
<1>23. CASE GatherPipeBursted
  BY <1>inv, <1>23 DEF GatherPipeBursted
<1>24. CASE SetCpClearRegister
  BY <1>inv, <1>24 DEF SetCpClearRegister
<1>25. CASE AttachFifo
  BY <1>inv, <1>25 DEF AttachFifo
<1>26. CASE Pause
  <2>1. s_emu_running_state' \in BOOLEAN
    BY <1>26 DEF Pause
  <2> QED BY <1>inv, <2>1, <1>26 DEF Pause
<1>27. CASE Lock
  BY <1>inv, <1>27 DEF Lock
<1>28. CASE Unpause
  BY <1>inv, <1>28 DEF Unpause
<1>29. ASSUME NEW userdata \in et_UpdateInterrupts, UpdateInterrupts(userdata) PROVE TypeOK'
  <2>1. s_interrupt_set' \in BOOLEAN /\ s_interrupt_waiting' \in BOOLEAN
    BY <1>inv, <1>29 DEF UpdateInterrupts
  <2>2. et_UpdateInterrupts' \subseteq BOOLEAN
    BY <1>inv, <1>29 DEF UpdateInterrupts
  <2> QED BY <1>inv, <2>1, <2>2, <1>29 DEF UpdateInterrupts
<1>30. ASSUME NEW c \in Controls[bSyncGPU], SetCpControlRegister(c) PROVE TypeOK'
  BY <1>inv, <1>30 DEF SetCpControlRegister
<1>31. ASSUME NEW block \in Breakpoints, WriteBreakpoint(block) PROVE TypeOK'
  BY <1>inv, <1>31 DEF WriteBreakpoint
<1>32. ASSUME NEW ticks \in Slots, SyncGPUCallback(ticks) PROVE TypeOK'
  BY <1>inv, <1>32 DEF SyncGPUCallback
<1>33. CASE UNCHANGED vars
  BY <1>inv, <1>33 DEF vars
<1> QED
  BY <1>1, <1>2, <1>3, <1>4, <1>5, <1>6, <1>7, <1>8, <1>9, <1>10, <1>11, <1>12, <1>13, <1>14, <1>15, <1>16, <1>17, <1>18, <1>19, <1>20, <1>21, <1>22, <1>23, <1>24, <1>25, <1>26, <1>27, <1>28, <1>29, <1>30, <1>31, <1>32, <1>33 DEF Next, GpuStep, CpuStep, CpuContinue

\* The two threads and the loop agree on where they are; only the GPU thread
\* lowers the ticks behind a callback's back.
LEMMA PlaceStep == ASSUME IndInv, [Next]_vars PROVE PlaceInv'
<1> USE SizeAssumption, BreakpointsAssumption, ControlsAssumption, TicksAssumption
<1>inv. TypeOK /\ PlaceInv
  BY DEF IndInv
<1> USE DEF TypeOK, PlaceInv, Stopped, Loop!IsDone, Loop!Wakeup, Loop!Begin, Loop!End, Loop!Dec,
            Loop!Leave, Loop!DONE, Loop!LAST, Loop!NEED, loop, blocks, irq, sync, regs, gpuLocals,
            cpuLocals, GpuFrame, CpuFrame, GpuUnchanged, GpuWaited
<1>1. CASE GpuBegin
  BY <1>inv, <1>1 DEF GpuBegin
<1>2. CASE Start
  BY <1>inv, <1>2 DEF Start
<1>3. CASE SetCPStatusFromGPU
  BY <1>inv, <1>3 DEF SetCPStatusFromGPU
<1>4. CASE PostInterrupt
  BY <1>inv, <1>4 DEF PostInterrupt
<1>5. CASE TakeTicks
  BY <1>inv, <1>5 DEF TakeTicks
<1>6. CASE SetWakeup
  BY <1>inv, <1>6 DEF SetWakeup
<1>7. CASE Test
  BY <1>inv, <1>7 DEF Test
<1>8. CASE TestBounds
  BY <1>inv, <1>8 DEF TestBounds
<1>9. CASE AssertDistance
  BY <1>inv, <1>9 DEF AssertDistance
<1>10. CASE ReadDataFromFifo
  BY <1>inv, <1>10 DEF ReadDataFromFifo
<1>11. CASE Consume
  BY <1>inv, <1>11 DEF Consume
<1>12. CASE Skip
  BY <1>inv, <1>12 DEF Skip
<1>13. CASE Exchange
  BY <1>inv, <1>13 DEF Exchange
<1>14. CASE GpuEnd
  BY <1>inv, <1>14 DEF GpuEnd
<1>15. CASE CountDown
  BY <1>inv, <1>15 DEF CountDown
<1>16. CASE Leave
  BY <1>inv, <1>16 DEF Leave
<1>17. CASE RunGpu
  BY <1>inv, <1>17 DEF RunGpu
<1>18. CASE BurstSet
  BY <1>inv, <1>18 DEF BurstSet
<1>19. CASE Burst
  BY <1>inv, <1>19 DEF Burst
<1>20. CASE FlushGpu
  BY <1>inv, <1>20 DEF FlushGpu
<1>21. CASE WaitForGpuThread
  BY <1>inv, <1>21 DEF WaitForGpuThread
<1>22. CASE SyncWait
  BY <1>inv, <1>22 DEF SyncWait
<1>23. CASE GatherPipeBursted
  BY <1>inv, <1>23 DEF GatherPipeBursted
<1>24. CASE SetCpClearRegister
  BY <1>inv, <1>24 DEF SetCpClearRegister
<1>25. CASE AttachFifo
  BY <1>inv, <1>25 DEF AttachFifo
<1>26. CASE Pause
  BY <1>inv, <1>26 DEF Pause
<1>27. CASE Lock
  BY <1>inv, <1>27 DEF Lock
<1>28. CASE Unpause
  BY <1>inv, <1>28 DEF Unpause
<1>29. ASSUME NEW userdata \in et_UpdateInterrupts, UpdateInterrupts(userdata) PROVE PlaceInv'
  BY <1>inv, <1>29 DEF UpdateInterrupts
<1>30. ASSUME NEW c \in Controls[bSyncGPU], SetCpControlRegister(c) PROVE PlaceInv'
  BY <1>inv, <1>30 DEF SetCpControlRegister
<1>31. ASSUME NEW block \in Breakpoints, WriteBreakpoint(block) PROVE PlaceInv'
  BY <1>inv, <1>31 DEF WriteBreakpoint
<1>32. ASSUME NEW ticks \in Slots, SyncGPUCallback(ticks) PROVE PlaceInv'
  BY <1>inv, <1>32 DEF SyncGPUCallback
<1>33. CASE UNCHANGED vars
  BY <1>inv, <1>33 DEF vars
<1> QED
  BY <1>1, <1>2, <1>3, <1>4, <1>5, <1>6, <1>7, <1>8, <1>9, <1>10, <1>11, <1>12, <1>13, <1>14, <1>15, <1>16, <1>17, <1>18, <1>19, <1>20, <1>21, <1>22, <1>23, <1>24, <1>25, <1>26, <1>27, <1>28, <1>29, <1>30, <1>31, <1>32, <1>33 DEF Next, GpuStep, CpuStep, CpuContinue

\* A loop that is done, or will be without another look, has no work.
LEMMA WorkStep == ASSUME IndInv, [Next]_vars PROVE WorkInv'
<1> USE SizeAssumption, BreakpointsAssumption, ControlsAssumption, TicksAssumption
<1>inv. TypeOK /\ PlaceInv /\ WorkInv /\ FlushInv
  BY DEF IndInv
<1> USE DEF TypeOK, PlaceInv, WorkInv, FlushInv, ControlRegisters, Waking, Work, Readable,
            AtBreakpoint, PastTests, Reading, Stopped, Advanced, Loop!IsDone, Loop!Wakeup,
            Loop!Begin, Loop!End, Loop!Dec, Loop!Leave, Loop!DONE, Loop!LAST, Loop!NEED, loop,
            blocks, irq, sync, regs, gpuLocals, cpuLocals, GpuFrame, CpuFrame, GpuUnchanged,
            GpuWaited
<1>1. CASE GpuBegin
  BY <1>inv, <1>1 DEF GpuBegin
<1>2. CASE Start
  BY <1>inv, <1>2 DEF Start
<1>3. CASE SetCPStatusFromGPU
  BY <1>inv, <1>3 DEF SetCPStatusFromGPU
<1>4. CASE PostInterrupt
  BY <1>inv, <1>4 DEF PostInterrupt
<1>5. CASE TakeTicks
  BY <1>inv, <1>5 DEF TakeTicks
<1>6. CASE SetWakeup
  BY <1>inv, <1>6 DEF SetWakeup
<1>7. CASE Test
  BY <1>inv, <1>7 DEF Test
<1>8. CASE TestBounds
  BY <1>inv, <1>8 DEF TestBounds
<1>9. CASE AssertDistance
  BY <1>inv, <1>9 DEF AssertDistance
<1>10. CASE ReadDataFromFifo
  BY <1>inv, <1>10 DEF ReadDataFromFifo
<1>11. CASE Consume
  BY <1>inv, <1>11 DEF Consume
<1>12. CASE Skip
  BY <1>inv, <1>12 DEF Skip
<1>13. CASE Exchange
  BY <1>inv, <1>13 DEF Exchange
<1>14. CASE GpuEnd
  BY <1>inv, <1>14 DEF GpuEnd
<1>15. CASE CountDown
  BY <1>inv, <1>15 DEF CountDown
<1>16. CASE Leave
  BY <1>inv, <1>16 DEF Leave
<1>17. CASE RunGpu
  BY <1>inv, <1>17 DEF RunGpu
<1>18. CASE BurstSet
  BY <1>inv, <1>18 DEF BurstSet
<1>19. CASE Burst
  BY <1>inv, <1>19 DEF Burst
<1>20. CASE FlushGpu
  BY <1>inv, <1>20 DEF FlushGpu
<1>21. CASE WaitForGpuThread
  BY <1>inv, <1>21 DEF WaitForGpuThread
<1>22. CASE SyncWait
  BY <1>inv, <1>22 DEF SyncWait
<1>23. CASE GatherPipeBursted
  BY <1>inv, <1>23 DEF GatherPipeBursted
<1>24. CASE SetCpClearRegister
  BY <1>inv, <1>24 DEF SetCpClearRegister
<1>25. CASE AttachFifo
  BY <1>inv, <1>25 DEF AttachFifo
<1>26. CASE Pause
  BY <1>inv, <1>26 DEF Pause
<1>27. CASE Lock
  BY <1>inv, <1>27 DEF Lock
<1>28. CASE Unpause
  BY <1>inv, <1>28 DEF Unpause
<1>29. ASSUME NEW userdata \in et_UpdateInterrupts, UpdateInterrupts(userdata) PROVE WorkInv'
  BY <1>inv, <1>29 DEF UpdateInterrupts
<1>30. ASSUME NEW c \in Controls[bSyncGPU], SetCpControlRegister(c) PROVE WorkInv'
  BY <1>inv, <1>30 DEF SetCpControlRegister
<1>31. ASSUME NEW block \in Breakpoints, WriteBreakpoint(block) PROVE WorkInv'
  BY <1>inv, <1>31 DEF WriteBreakpoint
<1>32. ASSUME NEW ticks \in Slots, SyncGPUCallback(ticks) PROVE WorkInv'
  BY <1>inv, <1>32 DEF SyncGPUCallback
<1>33. CASE UNCHANGED vars
  BY <1>inv, <1>33 DEF vars
<1> QED
  BY <1>1, <1>2, <1>3, <1>4, <1>5, <1>6, <1>7, <1>8, <1>9, <1>10, <1>11, <1>12, <1>13, <1>14, <1>15, <1>16, <1>17, <1>18, <1>19, <1>20, <1>21, <1>22, <1>23, <1>24, <1>25, <1>26, <1>27, <1>28, <1>29, <1>30, <1>31, <1>32, <1>33 DEF Next, GpuStep, CpuStep, CpuContinue

\* Reading past the enable test ends before FlushGpu returns, or is overtaken.
LEMMA FlushStep == ASSUME IndInv, [Next]_vars PROVE FlushInv'
<1> USE SizeAssumption, BreakpointsAssumption, ControlsAssumption, TicksAssumption
<1>inv. TypeOK /\ PlaceInv /\ WorkInv /\ FlushInv
  BY DEF IndInv
<1> USE DEF TypeOK, PlaceInv, WorkInv, FlushInv, ControlRegisters, Waking, Work, Readable,
            AtBreakpoint, PastTests, Reading, Stopped, Loop!IsDone, Loop!Wakeup, Loop!Begin,
            Loop!End, Loop!Dec, Loop!Leave, Loop!DONE, Loop!LAST, Loop!NEED, loop, blocks, irq,
            sync, regs, gpuLocals, cpuLocals, GpuFrame, CpuFrame, GpuUnchanged, GpuWaited
<1>1. CASE GpuBegin
  BY <1>inv, <1>1 DEF GpuBegin
<1>2. CASE Start
  BY <1>inv, <1>2 DEF Start
<1>3. CASE SetCPStatusFromGPU
  BY <1>inv, <1>3 DEF SetCPStatusFromGPU
<1>4. CASE PostInterrupt
  BY <1>inv, <1>4 DEF PostInterrupt
<1>5. CASE TakeTicks
  BY <1>inv, <1>5 DEF TakeTicks
<1>6. CASE SetWakeup
  BY <1>inv, <1>6 DEF SetWakeup
<1>7. CASE Test
  BY <1>inv, <1>7 DEF Test
<1>8. CASE TestBounds
  BY <1>inv, <1>8 DEF TestBounds
<1>9. CASE AssertDistance
  BY <1>inv, <1>9 DEF AssertDistance
<1>10. CASE ReadDataFromFifo
  BY <1>inv, <1>10 DEF ReadDataFromFifo
<1>11. CASE Consume
  BY <1>inv, <1>11 DEF Consume
<1>12. CASE Skip
  BY <1>inv, <1>12 DEF Skip
<1>13. CASE Exchange
  BY <1>inv, <1>13 DEF Exchange
<1>14. CASE GpuEnd
  BY <1>inv, <1>14 DEF GpuEnd
<1>15. CASE CountDown
  BY <1>inv, <1>15 DEF CountDown
<1>16. CASE Leave
  BY <1>inv, <1>16 DEF Leave
<1>17. CASE RunGpu
  BY <1>inv, <1>17 DEF RunGpu
<1>18. CASE BurstSet
  BY <1>inv, <1>18 DEF BurstSet
<1>19. CASE Burst
  BY <1>inv, <1>19 DEF Burst
<1>20. CASE FlushGpu
  BY <1>inv, <1>20 DEF FlushGpu
<1>21. CASE WaitForGpuThread
  BY <1>inv, <1>21 DEF WaitForGpuThread
<1>22. CASE SyncWait
  BY <1>inv, <1>22 DEF SyncWait
<1>23. CASE GatherPipeBursted
  BY <1>inv, <1>23 DEF GatherPipeBursted
<1>24. CASE SetCpClearRegister
  BY <1>inv, <1>24 DEF SetCpClearRegister
<1>25. CASE AttachFifo
  BY <1>inv, <1>25 DEF AttachFifo
<1>26. CASE Pause
  BY <1>inv, <1>26 DEF Pause
<1>27. CASE Lock
  BY <1>inv, <1>27 DEF Lock
<1>28. CASE Unpause
  BY <1>inv, <1>28 DEF Unpause
<1>29. ASSUME NEW userdata \in et_UpdateInterrupts, UpdateInterrupts(userdata) PROVE FlushInv'
  BY <1>inv, <1>29 DEF UpdateInterrupts
<1>30. ASSUME NEW c \in Controls[bSyncGPU], SetCpControlRegister(c) PROVE FlushInv'
  BY <1>inv, <1>30 DEF SetCpControlRegister
<1>31. ASSUME NEW block \in Breakpoints, WriteBreakpoint(block) PROVE FlushInv'
  BY <1>inv, <1>31 DEF WriteBreakpoint
<1>32. ASSUME NEW ticks \in Slots, SyncGPUCallback(ticks) PROVE FlushInv'
  BY <1>inv, <1>32 DEF SyncGPUCallback
<1>33. CASE UNCHANGED vars
  BY <1>inv, <1>33 DEF vars
<1> QED
  BY <1>1, <1>2, <1>3, <1>4, <1>5, <1>6, <1>7, <1>8, <1>9, <1>10, <1>11, <1>12, <1>13, <1>14, <1>15, <1>16, <1>17, <1>18, <1>19, <1>20, <1>21, <1>22, <1>23, <1>24, <1>25, <1>26, <1>27, <1>28, <1>29, <1>30, <1>31, <1>32, <1>33 DEF Next, GpuStep, CpuStep, CpuContinue

\* The line is right after the last status of a run that saw no change.
LEMMA InterruptStep == ASSUME IndInv, [Next]_vars PROVE InterruptInv'
<1> USE SizeAssumption, BreakpointsAssumption, ControlsAssumption, TicksAssumption
<1>inv. TypeOK /\ PlaceInv /\ InterruptInv
  BY DEF IndInv
<1> USE DEF TypeOK, PlaceInv, InterruptInv, ControlRegisters, InterruptLine, AtBreakpoint,
            PastTests, Changing, Stopped, Loop!IsDone, Loop!Wakeup, Loop!Begin, Loop!End, Loop!Dec,
            Loop!Leave, Loop!DONE, Loop!LAST, Loop!NEED, loop, blocks, irq, sync, regs, gpuLocals,
            cpuLocals, GpuFrame, CpuFrame, GpuUnchanged, GpuWaited
<1>1. CASE GpuBegin
  BY <1>inv, <1>1 DEF GpuBegin
<1>2. CASE Start
  BY <1>inv, <1>2 DEF Start
<1>3. CASE SetCPStatusFromGPU
  BY <1>inv, <1>3 DEF SetCPStatusFromGPU
<1>4. CASE PostInterrupt
  BY <1>inv, <1>4 DEF PostInterrupt
<1>5. CASE TakeTicks
  BY <1>inv, <1>5 DEF TakeTicks
<1>6. CASE SetWakeup
  BY <1>inv, <1>6 DEF SetWakeup
<1>7. CASE Test
  BY <1>inv, <1>7 DEF Test
<1>8. CASE TestBounds
  BY <1>inv, <1>8 DEF TestBounds
<1>9. CASE AssertDistance
  BY <1>inv, <1>9 DEF AssertDistance
<1>10. CASE ReadDataFromFifo
  BY <1>inv, <1>10 DEF ReadDataFromFifo
<1>11. CASE Consume
  BY <1>inv, <1>11 DEF Consume
<1>12. CASE Skip
  BY <1>inv, <1>12 DEF Skip
<1>13. CASE Exchange
  BY <1>inv, <1>13 DEF Exchange
<1>14. CASE GpuEnd
  BY <1>inv, <1>14 DEF GpuEnd
<1>15. CASE CountDown
  <2>1. gpu = "rest" /\ gpu' = "rest"
    BY <1>inv, <1>15 DEF CountDown
  <2>2. CASE state = Loop!NEED /\ state' = Loop!LAST /\ place' = "idle"
    BY <2>1, <2>2
  <2>3. CASE state = Loop!LAST /\ state' = Loop!DONE /\ UNCHANGED place
    <3>1. (InterruptLine(AtBreakpoint))' = InterruptLine(AtBreakpoint)
      BY <1>15 DEF CountDown
    <3>2. cpu' = cpu /\ s_interrupt_waiting' = s_interrupt_waiting /\ s_interrupt_set' = s_interrupt_set
      BY <1>15 DEF CountDown
    <3>3. place = "switch"
      BY <1>15 DEF CountDown
    <3> HIDE DEF InterruptLine, AtBreakpoint
    <3> QED BY <1>inv, <2>1, <2>3, <3>1, <3>2, <3>3
  <2> QED BY <2>2, <2>3, <1>15 DEF CountDown
<1>16. CASE Leave
  BY <1>inv, <1>16 DEF Leave
<1>17. CASE RunGpu
  BY <1>inv, <1>17 DEF RunGpu
<1>18. CASE BurstSet
  BY <1>inv, <1>18 DEF BurstSet
<1>19. CASE Burst
  BY <1>inv, <1>19 DEF Burst
<1>20. CASE FlushGpu
  BY <1>inv, <1>20 DEF FlushGpu
<1>21. CASE WaitForGpuThread
  BY <1>inv, <1>21 DEF WaitForGpuThread
<1>22. CASE SyncWait
  BY <1>inv, <1>22 DEF SyncWait
<1>23. CASE GatherPipeBursted
  BY <1>inv, <1>23 DEF GatherPipeBursted
<1>24. CASE SetCpClearRegister
  BY <1>inv, <1>24 DEF SetCpClearRegister
<1>25. CASE AttachFifo
  BY <1>inv, <1>25 DEF AttachFifo
<1>26. CASE Pause
  BY <1>inv, <1>26 DEF Pause
<1>27. CASE Lock
  BY <1>inv, <1>27 DEF Lock
<1>28. CASE Unpause
  BY <1>inv, <1>28 DEF Unpause
<1>29. ASSUME NEW userdata \in et_UpdateInterrupts, UpdateInterrupts(userdata) PROVE InterruptInv'
  BY <1>inv, <1>29 DEF UpdateInterrupts
<1>30. ASSUME NEW c \in Controls[bSyncGPU], SetCpControlRegister(c) PROVE InterruptInv'
  BY <1>inv, <1>30 DEF SetCpControlRegister
<1>31. ASSUME NEW block \in Breakpoints, WriteBreakpoint(block) PROVE InterruptInv'
  BY <1>inv, <1>31 DEF WriteBreakpoint
<1>32. ASSUME NEW ticks \in Slots, SyncGPUCallback(ticks) PROVE InterruptInv'
  BY <1>inv, <1>32 DEF SyncGPUCallback
<1>33. CASE UNCHANGED vars
  BY <1>inv, <1>33 DEF vars
<1> QED
  BY <1>1, <1>2, <1>3, <1>4, <1>5, <1>6, <1>7, <1>8, <1>9, <1>10, <1>11, <1>12, <1>13, <1>14, <1>15, <1>16, <1>17, <1>18, <1>19, <1>20, <1>21, <1>22, <1>23, <1>24, <1>25, <1>26, <1>27, <1>28, <1>29, <1>30, <1>31, <1>32, <1>33 DEF Next, GpuStep, CpuStep, CpuContinue

\* Pointers and distance agree; a linked burst finds room.
LEMMA BlocksStep == ASSUME IndInv, [Next]_vars PROVE (DistanceAgrees /\ BlocksInv)'
<1> USE SizeAssumption, BreakpointsAssumption, ControlsAssumption, TicksAssumption
<1>inv. TypeOK /\ PlaceInv /\ FlushInv /\ DistanceAgrees /\ BlocksInv
  BY DEF IndInv
<1> USE DEF TypeOK, PlaceInv, FlushInv, DistanceAgrees, BlocksInv, ControlRegisters, InFlight,
            Advanced, Readable, Reading, Loop!IsDone, Loop!Wakeup, Loop!Begin, Loop!End, Loop!Dec,
            Loop!Leave, Loop!DONE, Loop!LAST, Loop!NEED, loop, blocks, irq, sync, regs, gpuLocals,
            cpuLocals, GpuFrame, CpuFrame, GpuUnchanged, GpuWaited
<1>1. CASE GpuBegin
  BY <1>inv, <1>1 DEF GpuBegin
<1>2. CASE Start
  BY <1>inv, <1>2 DEF Start
<1>3. CASE SetCPStatusFromGPU
  BY <1>inv, <1>3 DEF SetCPStatusFromGPU
<1>4. CASE PostInterrupt
  BY <1>inv, <1>4 DEF PostInterrupt
<1>5. CASE TakeTicks
  BY <1>inv, <1>5 DEF TakeTicks
<1>6. CASE SetWakeup
  BY <1>inv, <1>6 DEF SetWakeup
<1>7. CASE Test
  BY <1>inv, <1>7 DEF Test
<1>8. CASE TestBounds
  BY <1>inv, <1>8 DEF TestBounds
<1>9. CASE AssertDistance
  BY <1>inv, <1>9 DEF AssertDistance
<1>10. CASE ReadDataFromFifo
  BY <1>inv, <1>10 DEF ReadDataFromFifo
<1>11. CASE Consume
  BY <1>inv, <1>11 DEF Consume
<1>12. CASE Skip
  BY <1>inv, <1>12 DEF Skip
<1>13. CASE Exchange
  BY <1>inv, <1>13 DEF Exchange
<1>14. CASE GpuEnd
  BY <1>inv, <1>14 DEF GpuEnd
<1>15. CASE CountDown
  BY <1>inv, <1>15 DEF CountDown
<1>16. CASE Leave
  BY <1>inv, <1>16 DEF Leave
<1>17. CASE RunGpu
  BY <1>inv, <1>17 DEF RunGpu
<1>18. CASE BurstSet
  BY <1>inv, <1>18 DEF BurstSet
<1>19. CASE Burst
  BY <1>inv, <1>19 DEF Burst
<1>20. CASE FlushGpu
  BY <1>inv, <1>20 DEF FlushGpu
<1>21. CASE WaitForGpuThread
  BY <1>inv, <1>21 DEF WaitForGpuThread
<1>22. CASE SyncWait
  BY <1>inv, <1>22 DEF SyncWait
<1>23. CASE GatherPipeBursted
  BY <1>inv, <1>23 DEF GatherPipeBursted
<1>24. CASE SetCpClearRegister
  BY <1>inv, <1>24 DEF SetCpClearRegister
<1>25. CASE AttachFifo
  <2>1. overtaken \/ gpu \notin {"bounds", "read", "add"}
    BY <1>inv, <1>25 DEF AttachFifo
  <2>2. CPReadPointer' = 0 /\ CPWritePointer' = 0 /\ CPReadWriteDistance' = 0
        /\ gpu' = gpu /\ overtaken' = overtaken /\ cpu' = "wake"
    BY <1>25 DEF AttachFifo
  <2>3. DistanceAgrees'
    <3> SUFFICES ASSUME ~overtaken' PROVE DistanceAgrees'
      OBVIOUS
    <3>1. InFlight' = 0 /\ gpu' # "read"
      BY <2>1, <2>2
    <3>2. 0 - 0 = 0 /\ 0 >= 0
      OBVIOUS
    <3> HIDE DEF InFlight
    <3> QED BY <2>2, <3>1, <3>2
  <2>4. BlocksInv'
    BY <2>2
  <2> QED BY <2>3, <2>4
<1>26. CASE Pause
  BY <1>inv, <1>26 DEF Pause
<1>27. CASE Lock
  BY <1>inv, <1>27 DEF Lock
<1>28. CASE Unpause
  BY <1>inv, <1>28 DEF Unpause
<1>29. ASSUME NEW userdata \in et_UpdateInterrupts, UpdateInterrupts(userdata) PROVE (DistanceAgrees /\ BlocksInv)'
  BY <1>inv, <1>29 DEF UpdateInterrupts
<1>30. ASSUME NEW c \in Controls[bSyncGPU], SetCpControlRegister(c) PROVE (DistanceAgrees /\ BlocksInv)'
  BY <1>inv, <1>30 DEF SetCpControlRegister
<1>31. ASSUME NEW block \in Breakpoints, WriteBreakpoint(block) PROVE (DistanceAgrees /\ BlocksInv)'
  BY <1>inv, <1>31 DEF WriteBreakpoint
<1>32. ASSUME NEW ticks \in Slots, SyncGPUCallback(ticks) PROVE (DistanceAgrees /\ BlocksInv)'
  BY <1>inv, <1>32 DEF SyncGPUCallback
<1>33. CASE UNCHANGED vars
  BY <1>inv, <1>33 DEF vars
<1> QED
  BY <1>1, <1>2, <1>3, <1>4, <1>5, <1>6, <1>7, <1>8, <1>9, <1>10, <1>11, <1>12, <1>13, <1>14, <1>15, <1>16, <1>17, <1>18, <1>19, <1>20, <1>21, <1>22, <1>23, <1>24, <1>25, <1>26, <1>27, <1>28, <1>29, <1>30, <1>31, <1>32, <1>33 DEF Next, GpuStep, CpuStep, CpuContinue

\* Each wake-up pays for one callback beyond the maximum.
LEMMA SyncStep == ASSUME IndInv, [Next]_vars PROVE SyncInv'
<1> USE SizeAssumption, BreakpointsAssumption, ControlsAssumption, TicksAssumption
<1>inv. TypeOK /\ PlaceInv /\ SyncInv
  BY DEF IndInv
<1> USE DEF TypeOK, PlaceInv, SyncInv, Ahead, Settled, PastTests, Stopped, Loop!IsDone, Loop!Wakeup,
            Loop!Begin, Loop!End, Loop!Dec, Loop!Leave, Loop!DONE, Loop!LAST, Loop!NEED, loop,
            blocks, irq, sync, regs, gpuLocals, cpuLocals, GpuFrame, CpuFrame, GpuUnchanged,
            GpuWaited
<1>1. CASE GpuBegin
  BY MaxSlotType, <1>inv, <1>1 DEF GpuBegin
<1>2. CASE Start
  BY MaxSlotType, <1>inv, <1>2 DEF Start
<1>3. CASE SetCPStatusFromGPU
  BY MaxSlotType, <1>inv, <1>3 DEF SetCPStatusFromGPU
<1>4. CASE PostInterrupt
  BY MaxSlotType, <1>inv, <1>4 DEF PostInterrupt
<1>5. CASE TakeTicks
  BY MaxSlotType, <1>inv, <1>5 DEF TakeTicks
<1>6. CASE SetWakeup
  BY MaxSlotType, <1>inv, <1>6 DEF SetWakeup
<1>7. CASE Test
  BY MaxSlotType, <1>inv, <1>7 DEF Test
<1>8. CASE TestBounds
  BY MaxSlotType, <1>inv, <1>8 DEF TestBounds
<1>9. CASE AssertDistance
  BY MaxSlotType, <1>inv, <1>9 DEF AssertDistance
<1>10. CASE ReadDataFromFifo
  BY MaxSlotType, <1>inv, <1>10 DEF ReadDataFromFifo
<1>11. CASE Consume
  BY MaxSlotType, <1>inv, <1>11 DEF Consume
<1>12. CASE Skip
  BY MaxSlotType, <1>inv, <1>12 DEF Skip
<1>13. CASE Exchange
  BY MaxSlotType, <1>inv, <1>13 DEF Exchange
<1>14. CASE GpuEnd
  BY MaxSlotType, <1>inv, <1>14 DEF GpuEnd
<1>15. CASE CountDown
  BY MaxSlotType, <1>inv, <1>15 DEF CountDown
<1>16. CASE Leave
  BY MaxSlotType, <1>inv, <1>16 DEF Leave
<1>17. CASE RunGpu
  BY MaxSlotType, <1>inv, <1>17 DEF RunGpu
<1>18. CASE BurstSet
  BY MaxSlotType, <1>inv, <1>18 DEF BurstSet
<1>19. CASE Burst
  BY MaxSlotType, <1>inv, <1>19 DEF Burst
<1>20. CASE FlushGpu
  BY MaxSlotType, <1>inv, <1>20 DEF FlushGpu
<1>21. CASE WaitForGpuThread
  <2>1. Ahead(4)' /\ (Settled => Ahead(3)') /\ (now < iSyncGpuMaxDistance => Ahead(2)')
    BY MaxSlotType, <1>inv, <1>21 DEF WaitForGpuThread
  <2>2. CASE old >= 0 /\ Loop!IsDone
    BY <1>inv, <2>1, <2>2, <1>21 DEF WaitForGpuThread
  <2>3. CASE ~(old >= 0 /\ Loop!IsDone)
    <3>1. s_syncing_suspended' = FALSE /\ (Settled' => Settled) /\ (Stopped' <=> FALSE)
      BY <1>inv, <2>3, <1>21 DEF WaitForGpuThread
    <3>2. cpu' = IF now >= iSyncGpuMaxDistance THEN "syncWait" ELSE "run"
      BY <2>3, <1>21 DEF WaitForGpuThread
    <3> HIDE DEF Ahead, Settled, Stopped
    <3>3. Ahead(2)' => Ahead(3)'
      BY MaxSlotType, <1>inv, <1>21 DEF WaitForGpuThread, Ahead
    <3> QED BY <1>inv, <2>1, <3>1, <3>2, <3>3
  <2> QED BY <2>2, <2>3
<1>22. CASE SyncWait
  BY MaxSlotType, <1>inv, <1>22 DEF SyncWait
<1>23. CASE GatherPipeBursted
  BY MaxSlotType, <1>inv, <1>23 DEF GatherPipeBursted
<1>24. CASE SetCpClearRegister
  BY MaxSlotType, <1>inv, <1>24 DEF SetCpClearRegister
<1>25. CASE AttachFifo
  BY MaxSlotType, <1>inv, <1>25 DEF AttachFifo
<1>26. CASE Pause
  BY MaxSlotType, <1>inv, <1>26 DEF Pause
<1>27. CASE Lock
  BY MaxSlotType, <1>inv, <1>27 DEF Lock
<1>28. CASE Unpause
  BY MaxSlotType, <1>inv, <1>28 DEF Unpause
<1>29. ASSUME NEW userdata \in et_UpdateInterrupts, UpdateInterrupts(userdata) PROVE SyncInv'
  BY MaxSlotType, <1>inv, <1>29 DEF UpdateInterrupts
<1>30. ASSUME NEW c \in Controls[bSyncGPU], SetCpControlRegister(c) PROVE SyncInv'
  BY MaxSlotType, <1>inv, <1>30 DEF SetCpControlRegister
<1>31. ASSUME NEW block \in Breakpoints, WriteBreakpoint(block) PROVE SyncInv'
  BY MaxSlotType, <1>inv, <1>31 DEF WriteBreakpoint
<1>32. ASSUME NEW ticks \in Slots, SyncGPUCallback(ticks) PROVE SyncInv'
  BY MaxSlotType, <1>inv, <1>32 DEF SyncGPUCallback
<1>33. CASE UNCHANGED vars
  BY MaxSlotType, <1>inv, <1>33 DEF vars
<1> QED
  BY <1>1, <1>2, <1>3, <1>4, <1>5, <1>6, <1>7, <1>8, <1>9, <1>10, <1>11, <1>12, <1>13, <1>14, <1>15, <1>16, <1>17, <1>18, <1>19, <1>20, <1>21, <1>22, <1>23, <1>24, <1>25, <1>26, <1>27, <1>28, <1>29, <1>30, <1>31, <1>32, <1>33 DEF Next, GpuStep, CpuStep, CpuContinue

\* Together.
LEMMA Step == ASSUME IndInv, [Next]_vars PROVE IndInv'
  BY TypeStep, PlaceStep, WorkStep, FlushStep, InterruptStep, BlocksStep, SyncStep DEF IndInv

\* The FIFO starts empty, unread and prepared.
LEMMA Start0 == Init => IndInv
<1> SUFFICES ASSUME Init PROVE IndInv
  OBVIOUS
<1> USE SizeAssumption, TicksAssumption, MaxSlotType DEF Init, Loop!DONE, Loop!LAST, Loop!NEED
<1>1. TypeOK
  <2>1. m_CPCtrlReg \in ControlRegisters
    BY DEF ControlRegisters, Off
  <2>2. et_UpdateInterrupts \subseteq BOOLEAN /\ state \in 1 .. 3
    OBVIOUS
  <2>3. /\ bFF_Breakpoint \in BOOLEAN /\ interrupt \in BOOLEAN /\ s_interrupt_set \in BOOLEAN
        /\ s_interrupt_waiting \in BOOLEAN /\ s_syncing_suspended \in BOOLEAN
        /\ s_sync_wakeup_event \in BOOLEAN /\ overtaken \in BOOLEAN
        /\ bSyncGPU \in BOOLEAN /\ s_emu_running_state \in BOOLEAN
    OBVIOUS
  <2> QED BY <2>1, <2>2, <2>3 DEF TypeOK, GpuPlaces, CpuPlaces
<1>2. PlaceInv /\ FlushInv /\ BlocksInv
  BY DEF PlaceInv, FlushInv, BlocksInv, Stopped
<1>3. WorkInv /\ InterruptInv
  BY DEF WorkInv, InterruptInv, PastTests, Reading
<1>4. DistanceAgrees
  BY DEF DistanceAgrees, InFlight
<1>5. SyncInv
  BY DEF SyncInv, Ahead, Settled
<1> QED BY <1>1, <1>2, <1>3, <1>4, <1>5 DEF IndInv

\* The inductive invariant holds of every behaviour of the two threads.
THEOREM Invariance == Spec => []IndInv
  BY Start0, Step, PTL DEF Spec

\* After FlushGpu and under the lock of PauseAndLock the GPU thread reads
\* nothing, unless the wait ended inside its loop condition.
THEOREM FlushIsSound == Spec => []StillWhenFlushed
<1>1. IndInv => StillWhenFlushed
  <2> SUFFICES ASSUME IndInv PROVE StillWhenFlushed
    OBVIOUS
  <2>1. CASE cpu = "locked"
    BY <2>1 DEF IndInv, FlushInv, WorkInv, Waking, StillWhenFlushed
  <2>2. CASE ~m_CPCtrlReg.GPReadEnable /\ cpu # "flush"
    BY <2>2 DEF IndInv, FlushInv, Reading, StillWhenFlushed
  <2> QED BY <2>1, <2>2 DEF StillWhenFlushed
<1> QED BY <1>1, Invariance, PTL

\* The distance both threads change is the distance of the pointers.
THEOREM DistanceIsRight == Spec => []DistanceAgrees
<1>1. IndInv => DistanceAgrees
  BY DEF IndInv
<1> QED BY <1>1, Invariance, PTL

\* No block is left for want of a Wakeup.
THEOREM WorkIsSeen == Spec => []NoStrandedWork
<1>1. IndInv => NoStrandedWork
  BY TicksAssumption DEF IndInv, TypeOK, PlaceInv, WorkInv, NoStrandedWork, Stranded, AtRest, Stopped, Waking, Work, Readable,
         Loop!IsDone, Loop!DONE
<1> QED BY <1>1, Invariance, PTL

\* The interrupt line settles on what the state calls for.
THEOREM LineSettles == Spec => []InterruptSettles
<1>1. IndInv => InterruptSettles
  BY DEF IndInv, TypeOK, PlaceInv, InterruptInv, InterruptSettles, AtRest, Stopped, Changing,
         Loop!IsDone, Loop!DONE, Loop!NEED
<1> QED BY <1>1, Invariance, PTL

\* The CPU is ahead by less than the maximum and four slots.
THEOREM BoundHolds == Spec => []SyncBound
<1>1. IndInv => SyncBound
  BY MaxSlotType, TicksAssumption DEF IndInv, TypeOK, SyncInv, Ahead, SyncBound
<1> QED BY <1>1, Invariance, PTL

-----------------------------------------------------------------------------
(* The wait of WaitForGpuThread.                                           *)

\* The CPU thread waits for the GPU thread, or has counted what will make it wait.
WillWait == cpu = "syncWait" \/ (cpu = "syncTest" /\ now >= iSyncGpuMaxDistance)

\* The wait of WaitForGpuThread is not for nothing: until s_sync_wakeup_event is set or
\* about to be, the distance is one that the GPU thread, which is not paused, will still
\* cross in RunGpuLoop, be it by its cycles or by the fast skip.
SyncWaitServed ==
  WillWait => /\ \/ s_sync_wakeup_event
                 \/ gpu \in {"set", "skipSet"}
                 \/ s_sync_ticks >= iSyncGpuMaxDistance
              /\ s_emu_running_state

\* Only the steps that end a wait, or set the event, take the distance below the maximum.
LEMMA ServedStep == ASSUME IndInv, SyncWaitServed, [Next]_vars PROVE SyncWaitServed'
<1>inv. TypeOK /\ PlaceInv
  BY DEF IndInv
<1> USE TicksAssumption, <1>inv
    DEF SyncWaitServed, WillWait, TypeOK, PlaceInv, Stopped, loop, blocks, irq, sync, regs,
        gpuLocals, cpuLocals, GpuFrame, CpuFrame, GpuUnchanged, GpuWaited
<1>1. CASE GpuBegin \/ Start \/ SetCPStatusFromGPU \/ PostInterrupt
  <2>1. gpu \notin {"set", "skipSet"} /\ UNCHANGED <<sync, cpu, cpuLocals, s_emu_running_state>>
    BY <1>1 DEF GpuBegin, Start, SetCPStatusFromGPU, PostInterrupt, Loop!Begin
  <2> QED BY <2>1
<1>2. CASE TakeTicks
  BY <1>2 DEF TakeTicks
<1>3. CASE SetWakeup
  BY <1>3 DEF SetWakeup
<1>4. CASE Test \/ TestBounds \/ AssertDistance \/ ReadDataFromFifo \/ Consume \/ Skip
  BY <1>4 DEF Test, TestBounds, AssertDistance, ReadDataFromFifo, Consume, Skip
<1>5. CASE Exchange
  BY <1>5 DEF Exchange
<1>6. CASE GpuEnd \/ CountDown \/ Leave
  BY <1>6 DEF GpuEnd, CountDown, Leave
<1>7. CASE WaitForGpuThread
  BY <1>7 DEF WaitForGpuThread
<1>8. CASE RunGpu \/ BurstSet \/ Burst \/ FlushGpu \/ SyncWait
  BY <1>8 DEF RunGpu, BurstSet, Burst, FlushGpu, SyncWait
<1>9. CASE GatherPipeBursted \/ SetCpClearRegister \/ AttachFifo
  BY <1>9 DEF GatherPipeBursted, SetCpClearRegister, AttachFifo
<1>10. CASE Pause \/ Lock \/ Unpause
  BY <1>10 DEF Pause, Lock, Unpause
<1>11. ASSUME NEW userdata \in et_UpdateInterrupts, UpdateInterrupts(userdata) PROVE SyncWaitServed'
  BY <1>11 DEF UpdateInterrupts
<1>12. ASSUME NEW c \in Controls[bSyncGPU], SetCpControlRegister(c) PROVE SyncWaitServed'
  BY <1>12 DEF SetCpControlRegister
<1>13. ASSUME NEW block \in Breakpoints, WriteBreakpoint(block) PROVE SyncWaitServed'
  BY <1>13 DEF WriteBreakpoint
<1>14. ASSUME NEW ticks \in Slots, SyncGPUCallback(ticks) PROVE SyncWaitServed'
  BY <1>14 DEF SyncGPUCallback
<1>15. CASE UNCHANGED vars
  BY <1>15 DEF vars
<1> QED
  BY <1>1, <1>2, <1>3, <1>4, <1>5, <1>6, <1>7, <1>8, <1>9, <1>10, <1>11, <1>12, <1>13, <1>14, <1>15
     DEF Next, GpuStep, CpuStep, CpuContinue

\* For any slots, cycles and distances, the CPU thread waits in WaitForGpuThread only while
\* s_sync_wakeup_event is set or the GPU thread has yet to set it.
THEOREM WaitIsServed == Spec => []SyncWaitServed
<1>1. Init => SyncWaitServed
  BY DEF Init, SyncWaitServed, WillWait
<1> QED BY <1>1, ServedStep, Invariance, PTL DEF Spec
=============================================================================

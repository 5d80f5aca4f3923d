# Dolphin: TLA+ models of the emulator's concurrent core

Dolphin emulates a GameCube or a Wii on a handful of host threads. Most of its
code is sequential (instruction semantics, register files, file formats); what
is hard to get right, and hardly reached by its unit tests, is where the threads
meet and where emulated time is kept. This directory holds TLA+ modules of those
parts, TLC configurations that check them on small instances, and TLAPS proofs
of their main safety properties for every instance. Paths below are relative to
`Source/Core/`.

## Inventory

| component | state it keeps | operations | what makes it correct |
| --- | --- | --- | --- |
| CPU state control `Core/HW/CPU.cpp` | `s_state`, the stepping lock, the pause-and-lock flags, the step request and its event | Run, EnableStepping, StepOpcode, Break, PauseAndLock, Stop | one thread acts as the CPU; a halt or a power-down is not undone; every wait ends |
| Event `Common/Event.h` | an atomic flag, a mutex, a condition variable | Set, Wait, WaitFor, Reset | an auto-reset event without lost wake-ups |
| BlockingLoop `Common/BlockingLoop.h` | a four-valued running state, flags, two events, two locks | Run, Prepare, Wakeup, Wait, AllowSleep, Stop | Wait sees a complete payload run; no sleep on work; Wait returns |
| CoreTiming `Core/CoreTiming.cpp` | timer, slice, downcount, event heap, off-thread queue | ScheduleEvent, RemoveEvent, ForceExceptionCheck, Advance, Idle, AdjustEventQueueTimes, DoState | a slice ends by the next event; callbacks in order and on time; time never runs back |
| DVD thread `Core/HW/DVD/DVDThread.cpp` | request and result queue, result map, two events, the exit flag, the disc | StartRead, FinishRead, WaitUntilIdle, SetDisc, DoState, Start, Stop | every read gets its own result; no wait for ever; the disc is touched only at rest |
| SPSCQueue `Common/SPSCQueue.h` | a linked list with one reader and one writer | Push, Pop, Empty, Clear | safe for one producer and one consumer |
| WorkQueueThread `Common/WorkQueueThread.h` | items under a mutex, an Event, a shutdown flag | EmplaceItem, Shutdown, ThreadLoop | every item is processed before shutdown |
| Video FIFO `VideoCommon/Fifo.cpp`, `CommandProcessor.cpp` | video buffer pointers, read-write distance, sync ticks, a BlockingLoop | RunGpuLoop, RunGpu, SyncGPU, FlushGpu, WaitForGpuThread, PauseAndLock | pointers and distance agree; reading stops when told; no work is left without a wake-up; the CPU does not wait for an idle GPU |
| Wii IPC and IOS `Core/HW/WII_IPC.cpp`, `Core/IOS/IOS.cpp` | control register, request/reply/ack queues, the fd table | register reads and writes, EnqueueIPCRequest, ExecuteIPCCommand, UpdateIPC, DoState | one message at a time; replies in order and to requests somebody waits for; every interrupt comes; nothing lost across a save |
| Core lifecycle `Core/Core.cpp` | `s_is_booting`, `s_hardware_initialized`, the host job queue | Init, EmuThread, SetState, Stop, RunAsCPUThread, QueueHostJob, HostDispatchJobs | lock and unlock are paired; jobs run or are dropped once |
| Save states, movies `Core/State.cpp`, `Core/Movie.cpp` | buffers, slots, the recording | SaveToBuffer, LoadFromBuffer, undo | a load gives back what was saved |
| NetPlay `Core/NetPlay*.cpp` | players, pad maps, pad buffers | lobby messages, StartGame, GetNetPads, OnData | all players see the same inputs |
| Traversal `Common/Traversal*.cpp` | connections, unacknowledged packets | packets, acknowledgements, resends | a joiner is sent only to the right host, and only after that host has tried to open its NAT; one answer per request; a request is answered or fails |

Interaction. A host thread (user interface, hotkeys) controls the CPU thread
through `CPU`, and borrows its identity with `RunAsCPUThread` to save states. The
CPU thread runs slices that `CoreTiming` hands out and calls the event callbacks
between them; other threads schedule through its off-thread queue. `DVDThread`
and the FIFO hand work to their own threads through `SPSCQueue`, `Event` and
`BlockingLoop`, and collect it in `CoreTiming` callbacks. The remaining parts
(PowerPC cores, DSP and audio, EXI/SI, IOS services, disc images, input, video
backends, user interfaces) are listed in `PROJECT.json` with the reason why they
are left out.

What is hard: unlocked writes next to a lock (`CPU::Run`), atomics whose old value
decides who wakes whom (`BlockingLoop`), a flag set outside the mutex (`Event`),
rounding between two clocks (`CoreTiming`), a queue inspected from the wrong end
and ids reused across games (`DVDThread`), two threads that each compute an interrupt
line and move one end of a ring (`Fifo`), a mailbox of one message with three queues
behind it (`IPC`), packets lost, late and duplicated between peers that restart
(`Traversal`), saves taken while other threads go on.
Each hazard is listed at its line in `PROJECT.json` with the properties that
would catch it.

## Modules

| module | models | grain |
| --- | --- | --- |
| `CPU`, `CPUProofs` | `CPU.cpp`: the CPU thread in `Run`, hosts in the other calls, any system thread in `Break` | all that happens under `s_state_change_lock` is one action; the writes and reads without it are their own |
| `Event`, `EventSpec`, `EventProofs` | `Event.h` over flag, mutex and condition variable; `EventSpec` is the auto-reset event it promises | one action per access to the flag, and per wait |
| `BlockingLoop`, `LoopSpec`, `MCBlockingLoop`, `BlockingLoopProofs` | `BlockingLoop.h`, every call from any number of clients against one worker; `LoopSpec` is what it promises | one action per atomic, flag, event or lock |
| `CoreTiming`, `MCCoreTiming`, `CoreTimingProofs` | `CoreTiming.cpp` with the dispatcher loop of the CPU cores around it | one action per operation; off-thread scheduling in two steps; Advance one action per callback |
| `DVDThread`, `DVDThreadProofs` | `DVDThread.cpp` and the two loads of `SPSCQueue::Empty` | one action per access to a shared queue, event or flag |
| `Fifo`, `MCFifo`, `FifoProofs` | `VideoCommon/Fifo.cpp` and `CommandProcessor.cpp` in dual core mode, over `LoopSpec` | one action per access to what the two threads share |
| `Traversal`, `MCTraversal`, `TraversalProofs` | `TraversalClient.cpp`, `TraversalServer.cpp` and the network between them | one action per packet handled, sent again or given up |
| `IPC`, `IPCProofs` | `WII_IPC.cpp` and the mailbox part of `IOS.cpp`, with the program that uses them | one action per register write, event and tick: all of it is one thread |

`BlockingLoop` and `DVDThread` use events as atomic Booleans: that `Common::Event`
behaves so is what `Event` shows, by refinement of `EventSpec`. `Fifo` uses the loop
through `LoopSpec`, which `BlockingLoop` is shown to implement. State variables
and actions keep the names of the code. Variables marked *history* in the
declarations record something for a property and are never read by an action.

**CPU.** `cpu` is the place of the CPU thread, `pc` that of each host; the values
name the waits and the unlocked stretches. `adjacent` is what `RunAdjacentSystems`
last told audio and FIFO. `breakpoints` says that a breakpoint at PC or a memcheck
exists, which makes `Run` write `s_state` without its lock; the initial state chooses
it, and the properties that need its absence say so. `StepOut` is the one
caller outside the file that is modelled too, because it tests and then locks.

**BlockingLoop.** A client is inside one call at a time. `pending` holds the clients
whose last Wakeup no complete payload run has followed, `covered` those for which
the run in progress is one. The destructor is `Stop(kBlockAndGiveUp)`.

**CoreTiming.** Cycles and downcount are integers related by a rational clock factor
and truncate as the casts do. The product that is truncated is exact, where the code
multiplies by a `float` factor or its `float` inverse (`CoreTiming.cpp:95`, `100`, `127`): the
rounding of the cast is modelled, that of the multiplication is not. The heap is a set with its front, plus `heap_ok`, which
`AdjustEventQueueTimes` can falsify by rescaling in place. An event records the
position at which it was added and, if the CPU thread scheduled it, the earliest time
at which it can be served. A save is two passes, between which other threads run.

**DVDThread.** A read carries its id, a number of its own (`seq`, since ids are
reused) and the disc it was asked of; a result says which disc it came from. `Empty`,
called by the producer, is two loads with a Pop possible in between, after which
either answer is possible. `mistaken` records that it answered TRUE of a queue with
requests in it, `leftover` that a game began with results in the map: the two events after
which the code does not keep its promises (see below). No action is held back by them; the
properties say what holds until they happen (`Undisturbed`). A read asks for a disc, as
`ExecuteReadCommand` does; the reads of DTK streaming do not ask and are left out.

**Fifo.** Pointers and the distance count blocks of 32 bytes; a block stands for the
GPU time it takes. `gpu` and `cpu` are the places of the two threads inside the payload
and inside `GatherPipeBursted`, the control register, `FlushGpu` and the SyncGPU
callback. `state` and `place` are those of `LoopSpec`, whose actions the GPU thread
takes at the ends of its payload. The setting `bSyncGPU` is chosen initially. The game
is disciplined: it attaches an empty FIFO, does not overflow it, moves the breakpoint
only while reading is off and releases none in the write that turns reading off.
`overtaken` records the one race that remains (below). Four places are coarser than the
code: the control register and the `bFF_*` flags derived from it are stored together
(`CommandProcessor.cpp:485-499`); the tests of the interrupt's two flags and the store that
follows are one step (`415-424`); a thread computes the watermark flags from the
distance in the step in which it computes the line, where the code stores them and reads
them back from variables that the other thread writes too (`406-411`, `437-442`); and
attaching a FIFO is one action for the several register writes with which a game does it.

**Traversal.** A client stands for its address. Messages are sets, so they arrive in any
order; `Receive` may keep what it takes (a duplicate), sends may fail, and not taking a
message until the sender gives up is loss. Request ids are numbers never drawn before
and order the history: `punched` has an entry for each time a host was about to send its
packet to a joiner, with the time at which it was and whether the send succeeded (`sent`): the
code ignores the result and acknowledges with `ok` either way. `MaxEvents` bounds the sum of
the packets clients start and the faults.

**IPC.** Requests are numbers in the order made. `events` holds what is scheduled, each so
many ticks away; the kernel's `last` is the time until its last reply. `HandleIPCCommand`
comes to a reply after a delay, a request that a device keeps, or, for a launch, a new
kernel. `BootIOS` removes the events before the destructor of the old kernel ends the
threads of its devices, so any of the requests they keep may still be answered in between
(`late`): those replies are scheduled after the removal and reach the new kernel, and the
history `stray` has them. The program follows the protocol of the comments: a request when the last one is
acknowledged, a handler that takes a reply or an acknowledgement and then clears the
flag, two acknowledgements after a launch. `LoadState` is a load into a session with
another number of queued acknowledgements: all else is as it was saved.

## Runs

| run | states | shows |
| --- | --- | --- |
| `cpu` | 26 748 | two hosts and system threads, with and without breakpoints: the pause lock excludes everybody and steps are served; without breakpoints a halt stays a halt although Break races with unlock, power-down sticks, every call returns and every resume runs |
| `cpu_breakpoint` | violation | with breakpoints the unlocked writes of `Run` overwrite `PowerDown` |
| `event` | 2 440 | three threads: no lost wake-up; implements `EventSpec` with its liveness |
| `blocking_loop` | 240 493 | a client making all calls and one that wakes, waits and gives up: Wait sees a complete run, no sleep on work, wake-ups are served and waits return; implements `LoopSpec` and counts down fairly |
| `timing` | 4 281 623 | slices end by the next event, lateness, order and monotone time with clock factors 2 and 1/2, off-thread scheduling, forced checks, idling, single steps, early ends of a slice, restarts, saves, loads and the change of the PPC clock |
| `dvd` | 1 675 122 | three reads in any order with disc changes, queries, saves, loads and restarts, any number of them queued: until `Empty` is mistaken the disc is touched only at rest and every wait ends, and until then or until a game begins with another's results every read gets its own |
| `dvd_idle` | violation | `Empty`, called by the producer, calls a queue with a request in it empty, and `WaitUntilIdle` lets its caller touch the disc |
| `fifo` | 829 487 | a FIFO of three blocks, with and without `bSyncGPU`: still when flushed, distance and pointers agree, no stranded work, the interrupt line settles, the CPU's lead is bounded, every wait ends |
| `fifo_poll` | violation | a GPU that is only held back is taken for idle and the callback is dropped |
| `traversal` | 281 845 | a host and a joiner with lost, late, duplicated and unsendable packets, evictions and restarts of the server: who is told to connect, once, and that answers arrive |
| `ipc` | 63 747 | three requests, devices that keep them and may answer while their kernel is torn down, launches, a load: nothing waits that could be sent, interrupts come, replies are awaited and in order, requests and acknowledgements arrive |
| `ipc_load` | violation | a launch is not acknowledged twice after a load, because the acknowledgement queue is not saved |

Bounds. Two hosts are enough for a holder, a contender and, with the system
threads, a third party for Break; three threads in `event` give a setter, a sleeper
and a second sleeper that times out. Two clients in `blocking_loop` give the pair of
waiters behind `m_wait_lock` and any Wakeup that races with them; a single worker is
what the class is for. In CoreTiming a slice of 3 cycles, blocks of up to 2, two
pending events and the delays -1, 1 and 3 put an event in the past, inside and at the
end of a slice, and let a block overrun it; `MaxTime` stops the clock within the second
slice. The constraint `MCBound` follows a session that has saved its state or changed the
PPC clock only at the lower factor, up to the third cycle, and while it does not idle, step
or restart and no other thread schedules: enough for a save, a load, a slice end and the
callbacks after it, and the theorems have no such limit. Checks forced from a callback
(`CallbackForce`) are not in the run; the theorems cover them, with one clock factor where
they say so. In `dvd` three reads give one being read, one answered and one queued, with
the middle one finished first; one disc and the empty drive suffice to tell a read
from the wrong disc. In `fifo` three blocks let a pointer wrap, the distance reach both watermarks and the breakpoint lie between
read and write; a block may cost more ticks than a callback brings, so the GPU falls
below the minimum and the CPU passes the maximum. In `traversal` one host and one joiner
with two tries each allow a resend, a giving up and a late acknowledgement of either; three
host ids allow a collision and a stale code; three packets and faults in all allow a
join, a ping and a reconnect without a fault, or a join with two faults, which are as many as
the tries of a packet. In `ipc` three requests give one at the
mailbox, one queued and one kept or launching, with delays on both sides of the
request's. Symmetry is not used, since the runs check liveness. Deadlock is checked
except where a system at rest is a proper end: `blocking_loop` (a stopped loop with
nobody calling), `dvd` (after a mistaken `Empty` a load may drop a request whose `FinishRead`
then waits for ever, which is what the code does), `fifo` (the GPU thread has met the assertion in the race below, and the
CPU waits for it), `traversal` and `ipc` (their bounds used up).

Fairness. Threads inside a call are scheduled and mutexes are granted (weak
fairness of each thread's own steps); a payload, a read and a run loop that is told
to stop do return. Nobody is obliged to start a call: no fairness for the steps that
begin one. A worker comes along for a prepared loop, as the emulator starts the
GPU thread after `Prepare`. `WaitReturns` of BlockingLoop asks that Wakeups cease,
because a client that keeps waking the loop keeps it from being done. In Fifo both
threads are scheduled (weak fairness); the GPU thread also runs when nobody wakes it,
because its loop has a timeout of 100 ms (`Fifo.cpp:390`), and the strong fairness of
counting down is what `LoopCountsDown` shows of `BlockingLoop`. In Traversal one weak
fairness for all loops together, less than each guarantees; nobody has to join. In IPC
emulation goes on and the program serves its interrupts; no device has to reply.

## Proofs

All theorems hold for every value of the constants, from the named ASSUMEs of the
module alone unless stated. The inductive invariants, which contain the types, are proved
and therefore not repeated in the runs; each was an invariant of the run first.

* `CPUProofs`: `IndInv` is `TypeOK`, `LockInv` (locks, flags and thread identities
  are functions of where the threads are) and `HaltInv` (without breakpoints, a holder
  that would unpause a halted CPU is held back by `s_state_system_request_stepping`
  or by power-down; `HaltHonoured` alone is not inductive, because the unlock decides
  on what PauseAndLock read earlier). `LockIsExclusive` holds with breakpoints too;
  `HaltHonoured` and `PowerDownSticks` speak of behaviours without any, and run
  `cpu_breakpoint` shows that this is needed. `NoLostNotify`, proved on top of `IndInv`
  with breakpoints too, is the safety core of `PowerDownExits`, `ResumeRuns` and
  `StepServed`: an un-notified CPU thread that sleeps on the condition variable has a
  false predicate, so no unlock, resume, step or stop is slept through.
* `EventProofs`: `NoLostWakeup` with the holder of the mutex; `Implements` is the
  step simulation of `EventSpec`.
* `BlockingLoopProofs`: `PlaceInv` (who may be where), `StateInv` (what the worker knows
  of the state, since clients only raise it) and `PendingInv` (a stored Wakeup stays
  visible in the state until a later payload run is complete) give
  `SleepsOnlyWhenDone` and `WaitIsSound`. `LoopIsImplemented` is the step simulation of
  `LoopSpec`: a sleeping loop is a done one, and what the worker knows of the state
  decides which step its decrement is.
* `CoreTimingProofs`: `SliceEndsByNextEvent` with `SaneOK` and `DueOK` is inductive;
  rounding needs the lemmas that going from cycles to downcount and back never
  lengthens a slice. `FifoIsKept` uses `FifoOK` (ids are positions, the vector is a
  heap). It needs no hypothesis on what the session does; the property itself speaks of
  callbacks at the Wii clock in states in which no fifo id was given out twice
  (`Numbered`), because a load may hand out ids again and a changed clock may leave
  the vector no heap (see Disagreements).
  `ClockInvariance`: `ClockOK` says that the slice is within its limits and that neither the
  clock nor a saved one counts a negative number of executed cycles, whatever the casts
  round away; with it `GetTicks` grows (`TicksGrow`). `AheadOK` (within a slice no event
  is overdue, and the slice ends by the first) bounds lateness at the end of a slice
  (`SliceEndIsOnTime`). Before the first Advance the timer is sane although a slice is
  declared, and a load may put the CPU there: `EntryOK` (every event, queued or saved, is
  on time by the clock that goes with it) and `FirstOK` cover it and give
  `EventsAreOnTime`, that is `LateByABlock`. The arithmetic is in lemmas of its own:
  division and truncation are monotone, a round trip between cycles and downcount loses
  less than one unit, and whole factors are exact. The hypotheses exclude what the bounds
  do not survive. All four theorems: no check forced from a callback, or one clock factor
  only, because a check forced after the factor changed cuts the slice by an amount
  counted in the other factor. `EventsAreOnTime` also: either factors that are exact on the
  delays, and not both saved states and restarts (a load before the first Advance of the
  next session finds the timer sane and adds the saved slice to it), or any factors with
  blocks of two cycles or more and neither forced checks nor saved states (before the
  first Advance every forced check may round once more; the emulator forces 0 and 50).
  Run `timing` checks what the last theorem leaves out on its instance: forced checks,
  saved states and restarts at a fractional factor, where the loss stays within the block.
* `DVDThreadProofs`: nothing is assumed of the number of requests queued or of the results
  a stopped game leaves. `IdsOK` (an id names one read among those known), `DiscOK`,
  `PlacesOK` and `NoReadLost` are inductive together as long as neither `mistaken` nor
  `leftover` happened, and give `RightResult`: without `IdsOK` the result that matches by id
  could be another's, and without `NoReadLost` a saved state could lack a result its events
  need. `IdleUnlessMistaken` needs the absence of `mistaken` only, and is inductive with what
  the CPU thread knows of the queue between the loads of `Empty` and the body. `WaitInv`
  (what is queued, expanded, or flagged is seen by the thread that is asleep or about to
  sleep) gives `NobodyWaitsInVain`: the CPU thread in `FinishRead`, `WaitUntilIdle` or
  `StopDVDThread` and the DVD thread are never both asleep. After a mistaken `Empty`, and for
  `FinishRead` after a game began with another's results, there may be nothing left to wait
  for, and only `StopDVDThread` is covered. This is the safety core of
  `FinishReturns` and `WaitReturns`.
* `FifoProofs`: seven conjuncts, one lemma each. `WorkInv` (a loop that is done, or
  past its tests, leaves work only with a Wakeup on the way or a GPU that is held back)
  gives `WorkIsSeen`; `FlushInv` (past the enable test, reading is on or `FlushGpu` has not
  returned) gives `FlushIsSound`; `InterruptInv` follows the line through both threads and
  the event between them; `BlocksInv` with `DistanceAgrees` ties distance to pointers;
  `SyncInv` counts every wake-up that is set, or about to be, as a callback that will not
  wait, without which `SyncBound` is not inductive. `SyncWaitServed`, proved on top, is the
  safety core of `WaitsEnd` for `WaitForGpuThread`: until the event is set, the distance is
  one that the GPU thread has yet to cross.
* `TraversalProofs`: `IdsInv` (an id is drawn once), `UpInv` and `DownInv` (what a packet on
  the way, or in a list, says about the request it belongs to), `AckInv` (the addressee of
  an acknowledged PleaseSendPacket tried to send its packet, whether or not the send
  succeeded) and `ToldInv`. `ReadyIsTried` says no more than that of a ready answer, because
  the code promises no more. The two safety properties speak of the
  end of an exchange of four packets and need all of them: a ready answer is believed
  because of what its ids say, whatever the server has forgotten.
* `IPCProofs`: every write and event ends in `UpdateIPC`; one lemma says what that leaves
  behind, and types, `NothingWaits` and `InterruptComes` are inductive together.
  `MailInv` follows a request through the kernel: it is in exactly one place (scheduled,
  queued, kept by a device, in the mailbox, or answered), the queues and the due times of
  the synchronous replies are in the order of the requests, and every launch has its
  acknowledgements. A reply that outlives its kernel keeps its place among the scheduled
  ones, with its request in `stray`: a reply the program sees is to a request it waits for
  or, once, to one of those. It gives `RepliesAreAwaited`, `OrderIsKept` and `LaunchIsAcked`.

Only model-checked: the liveness properties (`HostCallReturns`, `PowerDownExits`,
`ResumeRuns`, `StepServed`, `WakeupServed`, both `WaitReturns`, `FinishReturns`, `WaitsEnd`,
`HelloSettles`, `AnswerArrives`, `RequestAnswered`, `AcksArrive`) and the fairness of the
abstract specifications (`AbstractFairSpec`, `LoopCountsDown`), which are out of the
prover's reach. Every safety property that a passing run checks is stated by a theorem.

## Disagreements with comments

Four runs are expected to be violated; `PROJECT.json` quotes the lines.

1. `CPU.cpp:92`: with a breakpoint at PC a Stop between `Run`'s unlock and its
   unlocked writes is overwritten, against "PowerDown ... will stick permanently".
2. `Fifo.cpp:545`: `WaitForGpuThread` reads the ticks before it asks whether the loop is
   done, takes a GPU that `bSyncGPU` holds back for an idle one and drops the callback
   that would let it on, against "GPU is idle, so stop polling". A game that waits for
   the GPU makes no `RunGpu` that would start it again.
3. `IOS.cpp:689`: `DoState` saves the request and the reply queue but not `m_ack_queue`,
   against the "two acknowledgements in a row" of a launch (`ES.cpp:585`).
4. `DVDThread.cpp:241`: the producer's `Empty` can answer TRUE with requests queued, when a
   Pop comes between its two loads, against "we ensure that s_request_queue will be empty"
   (`DVDThread.cpp:136`). Several requests are queued in the ordinary way, one per chunk
   (`DVDInterface.cpp:1216`).

Four more can be reproduced by changing a configuration:

* `State.cpp:224`: an event pushed between the two passes of a save is written but not
  measured, against "calculate size" (`ChunkFile.h:47`). `MCCoreTiming.cfg` without its
  CONSTRAINT and PROPERTIES, with `Ops = {"SaveState", "OffThread"}` and
  `INVARIANT MeasuredSize`.
* `DVDThread.cpp:103`: ids restart while `s_result_map` survives, against "this will
  never get exposed to the emulated game". `MCDVDThread.cfg` with `INVARIANT OwnResult`.
* `TraversalClient.cpp:169`: the result of the send that opens the NAT is ignored and the
  request acknowledged with `ok`, against "an ack implies success" (`TraversalProto.h:23`).
  `MCTraversal.cfg` with `INVARIANT ReadyMeansPunched`.
* `IOS.cpp:226`: the events of the old kernel are removed before its devices and their
  threads end; a device that replies in between (`BTReal.cpp:687`, `HIDv4.cpp:205`) has its
  reply delivered by the new kernel, against the comment at `IOS.cpp:357`.
  `MCIPC.cfg` with `INVARIANT OldKernelIsSilent`.

Met on the way, without a run of their own:

* `CPU::Stop` waits for `s_state_cpu_thread_active` only and can return before `Run`
  has exited, although `CPU.h:33` reads as if it waited for that.
* A step request that arrives while the CPU thread leaves the run loop stays, and its
  event stays unsignalled, until the next pause (`CPU.cpp:115`); the debugger's `Step`
  waits 20 ms for an event on its stack (`CodeWidget.cpp:375`). `StepOut` tests and then
  locks; a resume in between leaves the CPU stopped with audio and FIFO running.
* A waiter may destroy an event on its stack while the setter has yet to lock its mutex
  (`Event.h:34`).
* `Prepare` can clear the `m_shutdown` of a Stop that slips in behind its first test, and
  the destructor gives up after 100 ms on a payload that still runs.
* `AdjustEventQueueTimes` can make two events simultaneous and leave the later one in
  front, which the order in `CoreTiming.cpp:44` means to exclude.
* `CoreTiming::DoState` writes the fifo id before `MoveEvents` takes ids from it.
* A load before the first Advance of a session finds the timer still marked sane.
* DTK streaming starts reads without asking whether the drive still has a disc.
* `FlushGpu` can return while the GPU thread, in a run nobody woke, is between its test of
  the enable bit and that of the pointers; if the FIFO is then attached anew it reads one
  block too many, or meets the assertion at `Fifo.cpp:345`. The variable `overtaken`
  marks this, and the safety properties of `Fifo` are stated with it.
* The delay of 100 ticks before an IPC interrupt (`WII_IPC.cpp:224`) is bypassed when
  the packet is sent from within a register write, which schedules an update at once.
* A ping that the traversal server refused stays in the client's list across
  `ReconnectToServer`; its next refusal fails the new connection.
* The server draws a host id outside the loop that looks for a free one: a collision
  leaves it in that loop (`TraversalServer.cpp:308`; `stuck`).
* A client whose hello was acknowledged stays Connecting, and a joiner pending, when the
  server's answer has used up its tries; a hello that is resent, because its
  acknowledgement was lost, registers the client twice.

## Not modelled, and the plan

Left out for good: instruction semantics, code generation, graphics, audio, file
formats, device input, user interfaces. They are sequential computation or calls to
the outside, and what they share with other threads goes through the parts above. Of
the modelled parts: single core mode and the deterministic GPU thread of the FIFO, the
file descriptors and the devices behind IPC, and the protocol version and short packets
of Traversal.

Order of further work:

1. Proofs: an abstract specification of reading (request, answer) that `DVDThread`
   implements, and of the scheduler that `CoreTiming` implements, with their step
   simulations.
2. `Core`: lifecycle, host jobs and the pairing of PauseAndLock, composed with `CPU`.
3. `NetPlay`: the start of a game and the pad buffers as a message protocol.
4. `WorkQueueThread` over `EventSpec`.

----------------------------- MODULE CoreTiming -----------------------------
(***************************************************************************)
(* The event scheduler (Core/CoreTiming.cpp): events of the emulated       *)
(* machine's future, the slices of execution between them, the queue       *)
(* through which other threads schedule, and the save and load of it all.  *)
(*                                                                         *)
(* One action per operation of the CPU thread; the thread that schedules   *)
(* from outside samples the timer and pushes in two steps, under           *)
(* s_ts_write_lock.  The heap is a set with its front: std::pop_heap and   *)
(* std::push_heap keep the least event at the front of what was a heap.    *)
(***************************************************************************)
EXTENDS Integers, Sequences, FiniteSets

CONSTANTS
  Types,              \* event types
  Delays,             \* the cycles_into_future of calls
  OCFactors,          \* values of m_OCFactor, as <<numerator, denominator>>
  MAX_SLICE_LENGTH,
  MaxBlock,           \* the longest block of instructions, in downcount units
  ClockRatio,         \* the GameCube's clock over the Wii's
  Ops,                \* the operations that happen
  MaxTime, MaxEvents, \* bounds on the timer and on the events added
  NoEvent, NoState

ASSUME OCAssumption == OCFactors \subseteq (Nat \ {0}) \X (Nat \ {0}) /\ OCFactors # {}
ASSUME BoundsAssumption ==
  /\ MAX_SLICE_LENGTH \in Nat \ {0} /\ MaxBlock \in Nat \ {0} /\ MaxTime \in Nat /\ MaxEvents \in Nat
ASSUME DelaysAssumption == Delays \subseteq Int
ASSUME RatioAssumption == ClockRatio \in (Nat \ {0}) \X (Nat \ {0})
ASSUME OpsAssumption ==
  Ops \subseteq {"OffThread", "Remove", "RemoveAll", "Force", "CallbackForce", "Idle", "SingleStep", "Break",
                 "Adjust", "SaveState", "Restart"}

VARIABLES
  global_timer, slice_length,     \* g
  downcount,                      \* PowerPC::ppcState
  s_is_global_timer_sane,
  s_last_OC_factor,               \* with g.last_OC_factor_inverted
  s_idled_cycles,
  s_event_queue, s_event_fifo_id,
  heap_ok,       \* the vector is a heap in the order of (time, fifo_order)
  s_ts_queue,
  ts_writer,     \* what the holder of s_ts_write_lock is about to push
  phase,         \* where the CPU thread is
  caller,        \* which dispatcher called Advance
  evt,           \* the event whose callback is running
  s_cpu_core_clock, \* SystemTimers: "Wii" or "GC"
  state,         \* a save state
  measured,      \* the events counted by the save's first pass
  added          \* history: events ever added to the queue

clock == <<global_timer, slice_length, downcount, s_is_global_timer_sane, s_last_OC_factor, s_idled_cycles>>
queue == <<s_event_queue, s_event_fifo_id, heap_ok, added>>
ts    == <<s_ts_queue, ts_writer>>
place == <<phase, caller, evt, s_cpu_core_clock>>
saves == <<state, measured>>
vars  == <<clock, queue, ts, place, saves>>

\* "off": before Init; "entry": outside the dispatcher, which starts with Advance;
\* "events" and "callback": in Advance; "first": a slice just declared; "slice": past its first block.
\* "saving": stopped between the two passes of a save.
Phases == {"off", "entry", "events", "callback", "first", "slice", "saving"}

-----------------------------------------------------------------------------
(* Cycles and downcount under a clock override; casts to int truncate.     *)

Truncate(n, d) == IF n >= 0 THEN n \div d ELSE -((-n) \div d)

Inverted(oc, dc) == Truncate(dc * oc[2], oc[1])

DowncountToCycles(dc) == Inverted(s_last_OC_factor, dc)
CyclesToDowncount(oc, cycles) == Truncate(cycles * oc[1], oc[2])

GetTicks ==
  IF s_is_global_timer_sane THEN global_timer
                            ELSE global_timer + slice_length - DowncountToCycles(downcount)

-----------------------------------------------------------------------------
(* The queue.  Besides the code's fields an event records, as history, the *)
(* position at which it was added and, for those the CPU thread scheduled, *)
(* the earliest time at which it can be served.                            *)

MaxOf(a, b) == IF a >= b THEN a ELSE b
MinOf(a, b) == IF a <= b THEN a ELSE b

Event(time, fifo_order, type, seq, cpu, due) ==
  [time |-> time, fifo_order |-> fifo_order, type |-> type, seq |-> seq, cpu |-> cpu, due |-> due]

\* Mutant: the order of the heap is that of the times alone.
Before_TimeOnly(e, f) == e.time < f.time

\* operator<, the order of the heap
Before(e, f) == e.time < f.time \/ (e.time = f.time /\ e.fifo_order < f.fifo_order)

\* The candidates for s_event_queue.front(): a heap whose ties are out of order has
\* a front of the least time, but not necessarily the one first in line.
Fronts == {e \in s_event_queue : \A f \in s_event_queue :
              IF heap_ok THEN ~Before(f, e) ELSE e.time <= f.time}

\* What MoveEvents pops off s_ts_queue, numbered from fifo id on.
Moved(id) ==
  {Event(s_ts_queue[i].time, id + i - 1, s_ts_queue[i].type, added + i - 1, FALSE, s_ts_queue[i].time) :
     i \in DOMAIN s_ts_queue}

MoveEvents ==
  /\ s_event_queue' = s_event_queue \cup Moved(s_event_fifo_id)
  /\ s_event_fifo_id' = s_event_fifo_id + Len(s_ts_queue)
  /\ added' = added + Len(s_ts_queue)
  /\ s_ts_queue' = <<>>

-----------------------------------------------------------------------------
(* Where the CPU thread may call what.                                     *)

InSlice    == phase \in {"first", "slice"}
OnCPU      == phase \in {"entry", "first", "slice", "callback"}
\* The CPU thread has left its dispatcher, at the end of a slice or at a breakpoint,
\* and a host thread acts in its place (Core::RunAsCPUThread).
Stopped ==
  /\ caller = "Run" /\ ts_writer = NoEvent
  /\ phase = "entry" \/ (InSlice /\ (downcount <= 0 \/ "Break" \in Ops))

Room == added + Len(s_ts_queue) < MaxEvents

Schedule(type, cycles) ==
  LET timeout == GetTicks + cycles
  IN  /\ s_event_queue' = s_event_queue \cup
           {Event(timeout, s_event_fifo_id, type, added, TRUE, MaxOf(timeout, GetTicks))}
      /\ s_event_fifo_id' = s_event_fifo_id + 1
      /\ added' = added + 1
      /\ UNCHANGED heap_ok

\* Mutant: the slice is not cut for an event that falls within it.
Cut_Never(cycles) == UNCHANGED <<slice_length, downcount>>

\* Mutant: the cycles already executed are not accounted for.
Cut_NoAccount(cycles) ==
  IF DowncountToCycles(downcount) > MaxOf(0, cycles)
  THEN /\ slice_length' = MaxOf(0, cycles)
       /\ downcount' = CyclesToDowncount(s_last_OC_factor, MaxOf(0, cycles))
  ELSE UNCHANGED <<slice_length, downcount>>

\* ForceExceptionCheck's effect
Cut(cycles) ==
  LET c    == MaxOf(0, cycles)
      left == DowncountToCycles(downcount)
  IN  IF left > c
      THEN /\ slice_length' = slice_length - (left - c)
           /\ downcount' = CyclesToDowncount(s_last_OC_factor, c)
      ELSE UNCHANGED <<slice_length, downcount>>

\* ScheduleEvent from the CPU thread
ScheduleEvent(type, cycles) ==
  /\ OnCPU /\ Room
  /\ IF s_is_global_timer_sane THEN UNCHANGED <<slice_length, downcount>> ELSE Cut(cycles)
  /\ Schedule(type, cycles)
  /\ UNCHANGED <<global_timer, s_is_global_timer_sane, s_last_OC_factor, s_idled_cycles, ts, place, saves>>

\* ScheduleEvent from another thread: the timer is read, then the event is pushed.
OffThreadSample(type, cycles) ==
  /\ "OffThread" \in Ops /\ phase # "off" /\ Room
  /\ ts_writer = NoEvent
  /\ ts_writer' = [time |-> global_timer + cycles, type |-> type]
  /\ UNCHANGED <<clock, queue, s_ts_queue, place, saves>>

OffThreadPush ==
  /\ ts_writer # NoEvent
  /\ s_ts_queue' = Append(s_ts_queue, ts_writer)
  /\ ts_writer' = NoEvent
  /\ UNCHANGED <<clock, queue, place, saves>>

\* std::make_heap is called if anything was removed
Remove(type, q) ==
  /\ s_event_queue' = {e \in q : e.type # type}
  /\ heap_ok' = (heap_ok \/ \E e \in q : e.type = type)

RemoveEvent(type) ==
  /\ "Remove" \in Ops /\ OnCPU
  /\ Remove(type, s_event_queue)
  /\ UNCHANGED <<clock, s_event_fifo_id, added, ts, place, saves>>

RemoveAllEvents(type) ==
  /\ "RemoveAll" \in Ops /\ OnCPU
  /\ Remove(type, s_event_queue \cup Moved(s_event_fifo_id))
  /\ s_event_fifo_id' = s_event_fifo_id + Len(s_ts_queue)
  /\ added' = added + Len(s_ts_queue)
  /\ s_ts_queue' = <<>>
  /\ UNCHANGED <<clock, ts_writer, place, saves>>

ForceExceptionCheck(cycles) ==
  /\ "Force" \in Ops /\ OnCPU
  /\ phase = "callback" => "CallbackForce" \in Ops
  /\ Cut(cycles)
  /\ UNCHANGED <<global_timer, s_is_global_timer_sane, s_last_OC_factor, s_idled_cycles, queue, ts, place, saves>>

-----------------------------------------------------------------------------
(* Advance: it ends a slice, runs the events that are due and declares the *)
(* next slice.                                                             *)

CyclesExecuted == slice_length - DowncountToCycles(downcount)

\* A dispatcher starts with Advance, and calls it again at the end of each slice, or
\* sooner when a breakpoint made it leave.
AdvanceBegin(dispatcher, oc) ==
  /\ phase = "entry" \/ (InSlice /\ (downcount <= 0 \/ "Break" \in Ops))
  /\ caller = "Run"
  /\ dispatcher = "SingleStep" => "SingleStep" \in Ops
  /\ MoveEvents /\ UNCHANGED heap_ok
  /\ global_timer' = global_timer + CyclesExecuted
  /\ global_timer' <= MaxTime
  /\ s_last_OC_factor' = oc
  /\ slice_length' = MAX_SLICE_LENGTH
  /\ s_is_global_timer_sane' = TRUE
  /\ phase' = "events" /\ caller' = dispatcher
  /\ UNCHANGED <<downcount, s_idled_cycles, ts_writer, evt, s_cpu_core_clock, saves>>

RunCallback ==
  \E e \in Fronts :
     /\ phase = "events" /\ e.time <= global_timer
     /\ evt' = e /\ s_event_queue' = s_event_queue \ {e}
     /\ heap_ok' = (heap_ok \/ Cardinality(s_event_queue') <= 1)
     /\ phase' = "callback"
     /\ UNCHANGED <<clock, s_event_fifo_id, added, ts, caller, s_cpu_core_clock, saves>>

CallbackReturn ==
  /\ phase = "callback"
  /\ phase' = "events" /\ evt' = NoEvent
  /\ UNCHANGED <<clock, queue, ts, caller, s_cpu_core_clock, saves>>

\* Mutant: the next slice ignores the pending events.
NextSlice_Full == slice_length' = slice_length

\* The next slice ends with the first of the events left, if any.
NextSlice ==
  \/ s_event_queue = {} /\ slice_length' = slice_length
  \/ \E front \in Fronts :
        /\ front.time > global_timer
        /\ slice_length' = MinOf(front.time - global_timer, MAX_SLICE_LENGTH)

AdvanceEnd ==
  /\ phase = "events"
  /\ \A e \in Fronts : e.time > global_timer
  /\ s_is_global_timer_sane' = FALSE
  /\ NextSlice
  /\ downcount' = CyclesToDowncount(s_last_OC_factor, slice_length')
  /\ phase' = "first"
  /\ UNCHANGED <<global_timer, s_last_OC_factor, s_idled_cycles, queue, ts, caller, evt, s_cpu_core_clock, saves>>

-----------------------------------------------------------------------------
(* The dispatchers (PowerPC): blocks of instructions, at least one in a    *)
(* slice for the JITs, until the downcount is used up.                     *)

MayExecute == caller = "Run" /\ (phase = "first" \/ (phase = "slice" /\ downcount > 0))

ExecuteBlock(cycles) ==
  /\ MayExecute
  /\ downcount' = downcount - cycles
  /\ phase' = "slice"
  /\ UNCHANGED <<global_timer, slice_length, s_is_global_timer_sane, s_last_OC_factor, s_idled_cycles,
                 queue, ts, caller, evt, s_cpu_core_clock, saves>>

\* A block that ends in an idle loop: Idle, then the block's cycles.
IdleBlock(cycles) ==
  /\ "Idle" \in Ops /\ MayExecute
  /\ s_idled_cycles' = s_idled_cycles + DowncountToCycles(downcount)
  /\ downcount' = 0 - cycles
  /\ phase' = "slice"
  /\ UNCHANGED <<global_timer, slice_length, s_is_global_timer_sane, s_last_OC_factor, queue, ts, caller, evt, s_cpu_core_clock, saves>>

\* Interpreter::SingleStep, after its instruction
SingleStepEnd ==
  /\ phase = "first" /\ caller = "SingleStep"
  /\ slice_length' = 1 /\ downcount' = 0
  /\ phase' = "slice" /\ caller' = "Run"
  /\ UNCHANGED <<global_timer, s_is_global_timer_sane, s_last_OC_factor, s_idled_cycles, queue, ts, evt, s_cpu_core_clock, saves>>

-----------------------------------------------------------------------------
(* The change to the GameCube's clock when MIOS is loaded, from the        *)
(* callback of an IPC event.                                               *)

Rescaled(e) ==
  LET time == global_timer + Truncate((e.time - global_timer) * ClockRatio[1], ClockRatio[2])
  IN  [e EXCEPT !.time = time, !.due = MaxOf(time, global_timer)]

\* The times change in place: events that become simultaneous keep their positions.
ChangePPCClock ==
  /\ "Adjust" \in Ops /\ phase = "callback"
  /\ s_cpu_core_clock = "Wii" /\ s_cpu_core_clock' = "GC"
  /\ s_event_queue' = {Rescaled(e) : e \in s_event_queue}
  /\ heap_ok' = (heap_ok /\ \A e, f \in s_event_queue : Before(e, f) => Before(Rescaled(e), Rescaled(f)))
  /\ UNCHANGED <<clock, s_event_fifo_id, added, ts, phase, caller, evt, saves>>

-----------------------------------------------------------------------------
(* Save states and restarts, with the CPU stopped.  State::SaveToBuffer    *)
(* runs DoState twice: to measure, then to write.                          *)

SaveMeasure ==
  /\ "SaveState" \in Ops /\ Stopped
  /\ MoveEvents /\ UNCHANGED heap_ok
  /\ measured' = Cardinality(s_event_queue')
  /\ phase' = "saving"
  /\ UNCHANGED <<clock, ts_writer, caller, evt, s_cpu_core_clock, state>>

\* The fifo id is written before MoveEvents takes its numbers from it.
SaveWrite ==
  /\ phase = "saving" /\ ts_writer = NoEvent
  /\ MoveEvents /\ UNCHANGED heap_ok
  /\ state' = [slice_length |-> slice_length, global_timer |-> global_timer, downcount |-> downcount,
               oc |-> s_last_OC_factor, idled |-> s_idled_cycles, fifo_id |-> s_event_fifo_id,
               events |-> s_event_queue', added |-> added', size |-> measured]
  /\ phase' = "entry" /\ measured' = 0
  /\ UNCHANGED <<clock, ts_writer, caller, evt, s_cpu_core_clock>>

\* What waits in s_ts_queue is numbered, and then overwritten with the rest of the queue.
LoadState ==
  /\ "SaveState" \in Ops /\ Stopped /\ state # NoState
  /\ slice_length' = state.slice_length /\ global_timer' = state.global_timer
  /\ downcount' = state.downcount /\ s_last_OC_factor' = state.oc
  /\ s_idled_cycles' = state.idled
  /\ s_event_queue' = state.events /\ heap_ok' = TRUE
  /\ s_event_fifo_id' = state.fifo_id + Len(s_ts_queue)
  /\ added' = state.added + Len(s_ts_queue)
  /\ s_ts_queue' = <<>>
  /\ phase' = "entry"
  /\ UNCHANGED <<s_is_global_timer_sane, ts_writer, caller, evt, s_cpu_core_clock, saves>>

Shutdown ==
  /\ "Restart" \in Ops /\ Stopped
  /\ s_event_queue' = {} /\ s_ts_queue' = <<>> /\ heap_ok' = TRUE
  /\ s_event_fifo_id' = s_event_fifo_id + Len(s_ts_queue)
  /\ added' = added + Len(s_ts_queue)
  /\ phase' = "off"
  /\ UNCHANGED <<clock, ts_writer, caller, evt, s_cpu_core_clock, saves>>

InitCoreTiming(oc) ==
  /\ phase = "off"
  /\ s_last_OC_factor' = oc
  /\ downcount' = CyclesToDowncount(oc, MAX_SLICE_LENGTH)
  /\ slice_length' = MAX_SLICE_LENGTH
  /\ global_timer' = 0 /\ s_idled_cycles' = 0
  /\ s_is_global_timer_sane' = TRUE
  /\ s_event_fifo_id' = 0 /\ added' = 0
  /\ phase' = "entry" /\ s_cpu_core_clock' = "Wii"
  /\ UNCHANGED <<s_event_queue, heap_ok, ts, caller, evt, saves>>

-----------------------------------------------------------------------------

Init ==
  /\ s_last_OC_factor \in OCFactors
  /\ downcount = CyclesToDowncount(s_last_OC_factor, MAX_SLICE_LENGTH)
  /\ slice_length = MAX_SLICE_LENGTH
  /\ global_timer = 0 /\ s_idled_cycles = 0
  /\ s_is_global_timer_sane = TRUE
  /\ s_event_queue = {} /\ heap_ok = TRUE
  /\ s_event_fifo_id = 0 /\ added = 0
  /\ s_ts_queue = <<>> /\ ts_writer = NoEvent
  /\ phase = "entry" /\ caller = "Run" /\ evt = NoEvent /\ s_cpu_core_clock = "Wii"
  /\ state = NoState /\ measured = 0

Next ==
  \/ \E t \in Types, d \in Delays : ScheduleEvent(t, d) \/ OffThreadSample(t, d)
  \/ OffThreadPush
  \/ \E t \in Types : RemoveEvent(t) \/ RemoveAllEvents(t)
  \/ \E d \in Delays : ForceExceptionCheck(d)
  \/ \E dispatcher \in {"Run", "SingleStep"}, oc \in OCFactors : AdvanceBegin(dispatcher, oc)
  \/ RunCallback \/ CallbackReturn \/ AdvanceEnd
  \/ \E n \in 1 .. MaxBlock : ExecuteBlock(n) \/ IdleBlock(n)
  \/ SingleStepEnd
  \/ ChangePPCClock
  \/ SaveMeasure \/ SaveWrite \/ LoadState
  \/ Shutdown \/ \E oc \in OCFactors : InitCoreTiming(oc)

Spec == Init /\ [][Next]_vars

-----------------------------------------------------------------------------

Requests == [time : Int, type : Types]
Events   == [time : Int, fifo_order : Nat, type : Types, seq : Nat, cpu : BOOLEAN, due : Int]

SavedOK ==
  state # NoState =>
    /\ state.slice_length \in Int /\ state.global_timer \in Int /\ state.downcount \in Int
    /\ state.oc \in OCFactors /\ state.idled \in Int
    /\ state.fifo_id \in Nat /\ state.added \in Nat
    /\ state.events \subseteq Events /\ \A e \in state.events : e.due >= e.time

TypeOK ==
  /\ global_timer \in Int /\ slice_length \in Int /\ downcount \in Int
  /\ s_is_global_timer_sane \in BOOLEAN /\ s_last_OC_factor \in OCFactors /\ s_idled_cycles \in Int
  /\ s_event_queue \subseteq Events /\ s_event_fifo_id \in Nat /\ heap_ok \in BOOLEAN /\ added \in Nat
  /\ s_ts_queue \in Seq(Requests) /\ ts_writer \in Requests \cup {NoEvent}
  /\ phase \in Phases /\ caller \in {"Run", "SingleStep"} /\ evt \in Events \cup {NoEvent}
  /\ s_cpu_core_clock \in {"Wii", "GC"}

\* The slice ends no later than the first event the CPU thread scheduled can be
\* served: Advance takes it from the front of the queue, and ScheduleEvent cuts it short
\* for an event that falls within it.  A single step lasts one cycle whatever is pending.
SliceEndsByNextEvent ==
  InSlice => \A e \in s_event_queue :
    e.cpu => global_timer + slice_length <= MaxOf(e.due, global_timer + 1)

\* The invariant that carries it: the timer is sane inside Advance and nowhere within a
\* slice, and no event, queued or saved, can be served before its time.
SaneOK ==
  /\ phase \in {"events", "callback"} => s_is_global_timer_sane
  /\ InSlice => ~s_is_global_timer_sane

DueOK == \A e \in s_event_queue : e.due >= e.time

IndInv == TypeOK /\ SaneOK /\ DueOK /\ SavedOK /\ SliceEndsByNextEvent

\* The cycles of the longest block, or of a single step, at the factor of the slice.
LateBound == MaxOf(1, Inverted(s_last_OC_factor, MaxBlock))

\* When Advance is called, an event the CPU thread scheduled is late by no more than one
\* block of instructions at the clock factor of the slice that ends.
LateByABlock ==
  [][(phase \in {"entry", "first", "slice"} /\ phase' = "events") =>
       (\A e \in s_event_queue : (e.cpu => global_timer' <= e.due + LateBound))]_vars

\* The ids are the positions at which events were added, so none is given out twice: so it
\* stays until a state is loaded whose save moved events after it had written the id.
Numbered == s_event_fifo_id = added

\* Events of the same time are called back in the order in which they were added to the
\* queue, across saves and loads, as long as no id is given out twice and the PPC clock has
\* not changed, which makes events simultaneous without moving them.
FifoAmongEqualTimes ==
  [][Numbered /\ s_cpu_core_clock = "Wii" /\ phase = "events" /\ phase' = "callback" =>
       \A e \in s_event_queue' : e.time = evt'.time => e.seq > evt'.seq]_vars

\* What keeps it so: no two events of a numbered queue, or of a saved one, share a position,
\* and the vector is a heap.
Placed(q, n) ==
  /\ \A e \in q : e.fifo_order = e.seq /\ e.seq < n
  /\ \A e, f \in q : e.seq = f.seq => e = f

FifoOK ==
  /\ s_event_fifo_id <= added
  /\ Numbered => Placed(s_event_queue, added)
  /\ s_cpu_core_clock = "Wii" => heap_ok
  /\ state # NoState =>
       /\ state.fifo_id <= state.added
       /\ state.fifo_id = state.added => Placed(state.events, state.added)
  /\ phase = "off" => s_event_queue = {} /\ heap_ok

\* GetTicks never goes back, save by loading a state, restarting, or a single step,
\* which takes one cycle whatever the slice it was given.
TicksMonotone ==
  [][GetTicks' >= GetTicks \/ LoadState \/ SingleStepEnd \/ \E oc \in OCFactors : InitCoreTiming(oc)]_vars

\* MODE_MEASURE "calculate[s the] size": what the second pass of a save writes is what
\* the first pass measured.
MeasuredSize == state # NoState => Cardinality(state.events) = state.size
=============================================================================

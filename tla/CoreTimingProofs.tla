-------------------------- MODULE CoreTimingProofs --------------------------
(***************************************************************************)
(* The invariants of CoreTiming and what follows from them, for any event  *)
(* types, delays, clock factors and bounds:                                *)
(*   - every slice ends by the first event scheduled (IndInv);             *)
(*   - simultaneous events are called back in order (FifoOK);              *)
(*   - GetTicks never goes back (ClockOK), from what the casts between     *)
(*     cycles and downcount round away;                                    *)
(*   - an event is late by no more than a block (AheadOK within a slice,   *)
(*     EntryOK and FirstOK where the dispatcher is entered).               *)
(***************************************************************************)
EXTENDS CoreTiming, TLAPS

(* Casts of an integer product to int are integers. *)
LEMMA TruncateInt == ASSUME NEW n \in Int, NEW d \in Nat \ {0} PROVE Truncate(n, d) \in Int
BY DEF Truncate

LEMMA FactorInt == ASSUME NEW oc \in OCFactors PROVE oc[1] \in Nat \ {0} /\ oc[2] \in Nat \ {0}
BY OCAssumption

(* DowncountToCycles and CyclesToDowncount return integers. *)
LEMMA CyclesInt ==
  ASSUME NEW oc \in OCFactors, NEW n \in Int
  PROVE  Inverted(oc, n) \in Int /\ CyclesToDowncount(oc, n) \in Int
<1>1. n * oc[2] \in Int /\ n * oc[1] \in Int BY FactorInt
<1>. QED BY <1>1, FactorInt, TruncateInt DEF Inverted, CyclesToDowncount

LEMMA Integers ==
  ASSUME TypeOK
  PROVE  DowncountToCycles(downcount) \in Int /\ GetTicks \in Int /\ CyclesExecuted \in Int
<1>1. s_last_OC_factor \in OCFactors /\ downcount \in Int /\ global_timer \in Int /\ slice_length \in Int
  BY DEF TypeOK
<1>2. DowncountToCycles(downcount) \in Int BY <1>1, CyclesInt DEF DowncountToCycles
<1>. QED BY <1>1, <1>2 DEF GetTicks, CyclesExecuted

(* What MoveEvents moves are events of other threads. *)
MovedSafe ==
  /\ Moved(s_event_fifo_id) \subseteq Events
  /\ \A e \in Moved(s_event_fifo_id) : ~e.cpu /\ e.due = e.time
  /\ Len(s_ts_queue) \in Nat

LEMMA MovedType ==
  ASSUME TypeOK
  PROVE  /\ Moved(s_event_fifo_id) \subseteq Events
         /\ \A e \in Moved(s_event_fifo_id) : ~e.cpu /\ e.due = e.time
         /\ Len(s_ts_queue) \in Nat
<1>1. Len(s_ts_queue) \in Nat /\ DOMAIN s_ts_queue = 1 .. Len(s_ts_queue) BY DEF TypeOK
<1>2. ASSUME NEW i \in DOMAIN s_ts_queue
      PROVE  /\ s_ts_queue[i].time \in Int /\ s_ts_queue[i].type \in Types
             /\ s_event_fifo_id + i - 1 \in Nat /\ added + i - 1 \in Nat
  <2>1. s_ts_queue[i] \in Requests BY <1>2, <1>1 DEF TypeOK
  <2>. QED BY <2>1, <1>1 DEF Requests, TypeOK
<1>3. ASSUME NEW e \in Moved(s_event_fifo_id) PROVE e \in Events /\ ~e.cpu /\ e.due = e.time
  <2>1. PICK i \in DOMAIN s_ts_queue :
          e = Event(s_ts_queue[i].time, s_event_fifo_id + i - 1, s_ts_queue[i].type, added + i - 1,
                    FALSE, s_ts_queue[i].time)
    BY DEF Moved
  <2>2. /\ s_ts_queue[i].time \in Int /\ s_ts_queue[i].type \in Types
        /\ s_event_fifo_id + i - 1 \in Nat /\ added + i - 1 \in Nat
    BY <1>2
  <2>. QED BY <2>1, <2>2 DEF Event, Events
<1>. QED BY <1>1, <1>3

(* ForceExceptionCheck and ScheduleEvent only ever move the end of the slice closer,  *)
(* to the requested time or to what was left of the slice.                            *)
LEMMA CutShortens ==
  ASSUME TypeOK, NEW c \in Int, Cut(c), ~s_is_global_timer_sane
  PROVE  /\ slice_length' \in Int /\ downcount' \in Int
         /\ slice_length' <= slice_length
         /\ global_timer + slice_length' <= MaxOf(GetTicks + c, GetTicks)
<1>. DEFINE left == DowncountToCycles(downcount)
            m    == MaxOf(0, c)
<1>1. left \in Int /\ global_timer \in Int /\ slice_length \in Int /\ downcount \in Int
      /\ s_last_OC_factor \in OCFactors
  BY Integers DEF TypeOK
<1>2. m \in Nat /\ MaxOf(GetTicks + c, GetTicks) = GetTicks + m BY Integers DEF MaxOf
<1>3. GetTicks = global_timer + slice_length - left BY DEF GetTicks
<1>4. CASE left > m
  <2>1. slice_length' = slice_length - (left - m) /\ downcount' = CyclesToDowncount(s_last_OC_factor, m)
    BY <1>4 DEF Cut
  <2>2. downcount' \in Int BY <2>1, <1>1, <1>2, CyclesInt
  <2>. QED BY <2>1, <2>2, <1>1, <1>2, <1>3, <1>4
<1>5. CASE ~(left > m)
  <2>1. slice_length' = slice_length /\ downcount' = downcount BY <1>5 DEF Cut
  <2>. QED BY <2>1, <1>1, <1>2, <1>3, <1>5
<1>. QED BY <1>4, <1>5

LEMMA CutType ==
  ASSUME TypeOK, NEW c \in Int, Cut(c)
  PROVE  slice_length' \in Int /\ downcount' \in Int
<1>1. MaxOf(0, c) \in Int BY DEF MaxOf
<1>2. CyclesToDowncount(s_last_OC_factor, MaxOf(0, c)) \in Int BY <1>1, CyclesInt DEF TypeOK
<1>. QED BY <1>1, <1>2, Integers DEF Cut, TypeOK

(* Init establishes the invariant. *)
LEMMA InitInv == Init => IndInv
<1>. SUFFICES ASSUME Init PROVE IndInv OBVIOUS
<1>1. downcount \in Int BY CyclesInt, BoundsAssumption DEF Init
<1>. QED BY <1>1, BoundsAssumption
     DEF Init, IndInv, TypeOK, SaneOK, DueOK, SavedOK, SliceEndsByNextEvent, InSlice, Phases

(* Every step preserves the invariant. *)
LEMMA NextInv == IndInv /\ [Next]_vars => IndInv'
<1>. SUFFICES ASSUME IndInv, [Next]_vars PROVE IndInv' OBVIOUS
<1>. USE DEF IndInv
<1>t. TypeOK OBVIOUS
<1>m. MovedSafe BY <1>t, MovedType DEF MovedSafe
<1>1. ASSUME NEW t \in Types, NEW d \in Delays, ScheduleEvent(t, d) PROVE IndInv'
  <2>. DEFINE new == Event(GetTicks + d, s_event_fifo_id, t, added, TRUE, MaxOf(GetTicks + d, GetTicks))
  <2>1. d \in Int /\ GetTicks \in Int /\ GetTicks + d \in Int /\ MaxOf(GetTicks + d, GetTicks) \in Int
    BY DelaysAssumption, Integers DEF MaxOf
  <2>2. new \in Events /\ new.due = MaxOf(GetTicks + d, GetTicks) /\ new.due >= new.time
    <3>1. s_event_fifo_id \in Nat /\ added \in Nat BY DEF TypeOK
    <3>2. MaxOf(GetTicks + d, GetTicks) >= GetTicks + d BY <2>1 DEF MaxOf
    <3>. QED BY <2>1, <3>1, <3>2 DEF Event, Events
  <2>3. s_event_queue' = s_event_queue \cup {new} BY <1>1 DEF ScheduleEvent, Schedule
  <2>. HIDE DEF new
  <2>4. slice_length' \in Int /\ downcount' \in Int
    BY <1>1, <2>1, CutType DEF ScheduleEvent, TypeOK
  <2>5. TypeOK'
    <3>1. s_event_queue' \subseteq Events BY <2>2, <2>3 DEF TypeOK
    <3>2. s_event_fifo_id' \in Nat /\ added' \in Nat BY <1>1 DEF ScheduleEvent, Schedule, TypeOK
    <3>. QED BY <1>1, <2>4, <3>1, <3>2 DEF ScheduleEvent, Schedule, TypeOK, ts, place
  <2>6. SaneOK' BY <1>1 DEF ScheduleEvent, SaneOK, InSlice, place
  <2>7. DueOK' BY <2>2, <2>3 DEF DueOK
  <2>8. SavedOK' BY <1>1 DEF ScheduleEvent, SavedOK, saves
  <2>9. SliceEndsByNextEvent'
    <3>. SUFFICES ASSUME InSlice', NEW e \in s_event_queue', e.cpu
                  PROVE global_timer' + slice_length' <= MaxOf(e.due, global_timer' + 1)
      BY DEF SliceEndsByNextEvent
    <3>1. InSlice /\ global_timer' = global_timer BY <1>1 DEF ScheduleEvent, InSlice, place
    <3>2. ~s_is_global_timer_sane BY <3>1 DEF SaneOK
    <3>3. Cut(d) BY <3>2, <1>1 DEF ScheduleEvent
    <3>4. slice_length' <= slice_length /\ global_timer + slice_length' <= MaxOf(GetTicks + d, GetTicks)
      BY <3>2, <3>3, <2>1, CutShortens
    <3>5. e.due \in Int /\ global_timer \in Int /\ slice_length \in Int
      BY <2>2, <2>3 DEF TypeOK, Events
    <3>6. CASE e = new
      <4>1. global_timer + slice_length' <= e.due BY <3>4, <3>6, <2>2
      <4>. QED BY <4>1, <3>1, <3>5, <2>4 DEF MaxOf
    <3>7. CASE e \in s_event_queue
      <4>1. global_timer + slice_length <= MaxOf(e.due, global_timer + 1)
        BY <3>1, <3>7 DEF SliceEndsByNextEvent
      <4>. QED BY <4>1, <3>1, <3>4, <3>5, <2>4 DEF MaxOf
    <3>. QED BY <3>6, <3>7, <2>3
  <2>. QED BY <2>5, <2>6, <2>7, <2>8, <2>9
<1>2. ASSUME NEW t \in Types, NEW d \in Delays, OffThreadSample(t, d) PROVE IndInv'
  <2>1. [time |-> global_timer + d, type |-> t] \in Requests BY DelaysAssumption DEF TypeOK, Requests
  <2>. QED BY <1>2, <2>1
       DEF OffThreadSample, TypeOK, SaneOK, DueOK, SavedOK, SliceEndsByNextEvent, InSlice, clock, queue, place, saves
<1>3. CASE OffThreadPush
  BY <1>3 DEF OffThreadPush, TypeOK, SaneOK, DueOK, SavedOK, SliceEndsByNextEvent, InSlice, clock, queue, place, saves
<1>4. ASSUME NEW t \in Types, RemoveEvent(t) PROVE IndInv'
  BY <1>4 DEF RemoveEvent, Remove, TypeOK, SaneOK, DueOK, SavedOK, SliceEndsByNextEvent, InSlice, clock, ts, place, saves
<1>5. ASSUME NEW t \in Types, RemoveAllEvents(t) PROVE IndInv'
  <2>1. s_event_queue' \subseteq s_event_queue \cup Moved(s_event_fifo_id)
    BY <1>5 DEF RemoveAllEvents, Remove
  <2>2. TypeOK' BY <1>5, <1>m, <2>1 DEF MovedSafe, RemoveAllEvents, Remove, TypeOK, clock, place
  <2>3. SaneOK' /\ SavedOK' BY <1>5 DEF RemoveAllEvents, SaneOK, SavedOK, InSlice, clock, place, saves
  <2>4. DueOK' BY <2>1, <1>m DEF MovedSafe, DueOK, TypeOK, Events
  <2>5. SliceEndsByNextEvent'
    BY <1>5, <2>1, <1>m DEF MovedSafe, RemoveAllEvents, SliceEndsByNextEvent, InSlice, clock, place
  <2>. QED BY <2>2, <2>3, <2>4, <2>5
<1>6. ASSUME NEW d \in Delays, ForceExceptionCheck(d) PROVE IndInv'
  <2>1. d \in Int /\ slice_length' \in Int /\ downcount' \in Int
    BY <1>6, DelaysAssumption, CutType DEF ForceExceptionCheck
  <2>2. TypeOK' BY <1>6, <2>1 DEF ForceExceptionCheck, TypeOK, queue, ts, place
  <2>3. SaneOK' /\ SavedOK' /\ DueOK'
    BY <1>6 DEF ForceExceptionCheck, SaneOK, SavedOK, DueOK, InSlice, queue, place, saves
  <2>4. SliceEndsByNextEvent'
    <3>. SUFFICES ASSUME InSlice', NEW e \in s_event_queue', e.cpu
                  PROVE global_timer' + slice_length' <= MaxOf(e.due, global_timer' + 1)
      BY DEF SliceEndsByNextEvent
    <3>1. InSlice /\ global_timer' = global_timer /\ e \in s_event_queue
      BY <1>6 DEF ForceExceptionCheck, InSlice, place, queue
    <3>2. slice_length' <= slice_length
      BY <3>1, <1>6, <2>1, CutShortens DEF SaneOK, ForceExceptionCheck
    <3>3. global_timer + slice_length <= MaxOf(e.due, global_timer + 1)
      BY <3>1 DEF SliceEndsByNextEvent
    <3>. QED BY <3>1, <3>2, <3>3, <2>1 DEF MaxOf, TypeOK, Events
  <2>. QED BY <2>2, <2>3, <2>4
<1>7. ASSUME NEW dispatcher \in {"Run", "SingleStep"}, NEW oc \in OCFactors, AdvanceBegin(dispatcher, oc)
      PROVE IndInv'
  <2>1. TypeOK'
    BY <1>7, <1>m, Integers, BoundsAssumption DEF MovedSafe, AdvanceBegin, MoveEvents, TypeOK, Phases
  <2>2. DueOK' BY <1>7, <1>m DEF MovedSafe, AdvanceBegin, MoveEvents, DueOK, TypeOK, Events
  <2>. QED BY <1>7, <2>1, <2>2 DEF AdvanceBegin, SaneOK, SavedOK, SliceEndsByNextEvent, InSlice, saves
<1>8. CASE RunCallback
  BY <1>8 DEF RunCallback, Fronts, TypeOK, SaneOK, DueOK, SavedOK, SliceEndsByNextEvent, InSlice, Phases, clock, ts, saves
<1>9. CASE CallbackReturn
  BY <1>9 DEF CallbackReturn, TypeOK, SaneOK, DueOK, SavedOK, SliceEndsByNextEvent, InSlice, Phases, clock, queue, ts, saves
<1>10. CASE AdvanceEnd
  <2>1. slice_length' \in Int
    BY <1>10, BoundsAssumption DEF AdvanceEnd, NextSlice, Fronts, MinOf, TypeOK, Events
  <2>2. downcount' \in Int BY <1>10, <2>1, CyclesInt DEF AdvanceEnd, TypeOK
  <2>3. TypeOK' BY <1>10, <2>1, <2>2 DEF AdvanceEnd, TypeOK, Phases, queue, ts
  <2>4. SaneOK' /\ DueOK' /\ SavedOK'
    BY <1>10 DEF AdvanceEnd, SaneOK, DueOK, SavedOK, InSlice, queue, saves
  <2>5. SliceEndsByNextEvent'
    <3>. SUFFICES ASSUME NEW e \in s_event_queue
                  PROVE global_timer + slice_length' <= MaxOf(e.due, global_timer + 1)
      BY <1>10 DEF AdvanceEnd, SliceEndsByNextEvent, queue
    <3>1. PICK front \in Fronts : slice_length' = MinOf(front.time - global_timer, MAX_SLICE_LENGTH)
      BY <1>10 DEF AdvanceEnd, NextSlice
    <3>2. front \in Events /\ e \in Events /\ e.due >= e.time BY DEF TypeOK, DueOK, Fronts
    <3>3. front.time <= e.time BY <3>2 DEF Fronts, Before, Events
    <3>. QED BY <3>1, <3>2, <3>3, BoundsAssumption DEF MinOf, MaxOf, Events, TypeOK
  <2>. QED BY <2>3, <2>4, <2>5
<1>11. ASSUME NEW n \in 1 .. MaxBlock, ExecuteBlock(n) \/ IdleBlock(n) PROVE IndInv'
  <2>1. n \in Int BY BoundsAssumption
  <2>2. downcount' \in Int /\ s_idled_cycles' \in Int
    BY <1>11, <2>1, Integers DEF ExecuteBlock, IdleBlock, TypeOK
  <2>a. TypeOK' BY <1>11, <2>2 DEF ExecuteBlock, IdleBlock, TypeOK, Phases, queue, ts
  <2>3. InSlice /\ SaneOK' /\ DueOK' /\ SavedOK'
    BY <1>11 DEF ExecuteBlock, IdleBlock, MayExecute, SaneOK, DueOK, SavedOK, InSlice, queue, saves
  <2>4. SliceEndsByNextEvent'
    BY <1>11, <2>3 DEF ExecuteBlock, IdleBlock, SliceEndsByNextEvent, InSlice, queue
  <2>. QED BY <2>a, <2>3, <2>4
<1>12. CASE SingleStepEnd
  <2>1. TypeOK' /\ SaneOK' /\ DueOK' /\ SavedOK'
    BY <1>12 DEF SingleStepEnd, TypeOK, SaneOK, DueOK, SavedOK, InSlice, Phases, queue, ts, saves
  <2>2. SliceEndsByNextEvent'
    BY <1>12 DEF SingleStepEnd, SliceEndsByNextEvent, MaxOf, TypeOK, Events, queue
  <2>. QED BY <2>1, <2>2
<1>13. CASE ChangePPCClock
  <2>1. ASSUME NEW e \in s_event_queue PROVE Rescaled(e) \in Events /\ Rescaled(e).due >= Rescaled(e).time
    <3>. DEFINE time == global_timer + Truncate((e.time - global_timer) * ClockRatio[1], ClockRatio[2])
    <3>1. e \in Events /\ e.time \in Int /\ global_timer \in Int BY DEF TypeOK, Events
    <3>2. (e.time - global_timer) * ClockRatio[1] \in Int BY <3>1, RatioAssumption
    <3>3. time \in Int
      <4>1. ClockRatio[2] \in Nat \ {0} BY RatioAssumption
      <4>. QED BY <3>1, <3>2, <4>1, TruncateInt
    <3>4. MaxOf(time, global_timer) \in Int /\ MaxOf(time, global_timer) >= time BY <3>1, <3>3 DEF MaxOf
    <3>5. Rescaled(e) = [e EXCEPT !.time = time, !.due = MaxOf(time, global_timer)] BY DEF Rescaled
    <3>. HIDE DEF time
    <3>. QED BY <3>1, <3>3, <3>4, <3>5 DEF Events
  <2>2. TypeOK' BY <1>13, <2>1 DEF ChangePPCClock, TypeOK, Phases, clock, ts
  <2>3. DueOK' BY <1>13, <2>1 DEF ChangePPCClock, DueOK
  <2>. QED BY <1>13, <2>2, <2>3 DEF ChangePPCClock, SaneOK, SavedOK, SliceEndsByNextEvent, InSlice, clock, saves
<1>14. CASE SaveMeasure
  <2>1. TypeOK' BY <1>14, <1>m DEF MovedSafe, SaveMeasure, MoveEvents, TypeOK, Phases, clock
  <2>2. DueOK' BY <1>14, <1>m DEF MovedSafe, SaveMeasure, MoveEvents, DueOK, TypeOK, Events
  <2>. QED BY <1>14, <2>1, <2>2 DEF SaveMeasure, SaneOK, SavedOK, SliceEndsByNextEvent, InSlice
<1>15. CASE SaveWrite
  <2>1. TypeOK' BY <1>15, <1>m DEF MovedSafe, SaveWrite, MoveEvents, TypeOK, Phases, clock
  <2>2. DueOK' BY <1>15, <1>m DEF MovedSafe, SaveWrite, MoveEvents, DueOK, TypeOK, Events
  <2>3. SavedOK' BY <1>15, <2>1, <2>2 DEF SaveWrite, MoveEvents, SavedOK, TypeOK, DueOK, clock
  <2>. QED BY <1>15, <2>1, <2>2, <2>3 DEF SaveWrite, SaneOK, SliceEndsByNextEvent, InSlice
<1>16. CASE LoadState
  <2>1. TypeOK' /\ DueOK' BY <1>16, <1>m DEF MovedSafe, LoadState, SavedOK, TypeOK, DueOK, Phases
  <2>. QED BY <1>16, <2>1 DEF LoadState, SaneOK, SavedOK, SliceEndsByNextEvent, InSlice, saves
<1>17. CASE Shutdown
  BY <1>17, <1>m DEF MovedSafe, Shutdown, TypeOK, SaneOK, DueOK, SavedOK, SliceEndsByNextEvent, InSlice, Phases, clock, saves
<1>18. ASSUME NEW oc \in OCFactors, InitCoreTiming(oc) PROVE IndInv'
  <2>1. downcount' \in Int BY <1>18, CyclesInt, BoundsAssumption DEF InitCoreTiming
  <2>. QED BY <1>18, <2>1, BoundsAssumption
       DEF InitCoreTiming, TypeOK, SaneOK, DueOK, SavedOK, SliceEndsByNextEvent, InSlice, Phases, ts, saves
<1>19. CASE UNCHANGED vars
  BY <1>19 DEF vars, clock, queue, ts, place, saves, TypeOK, SaneOK, DueOK, SavedOK, SliceEndsByNextEvent, InSlice
<1>. QED BY <1>1, <1>2, <1>3, <1>4, <1>5, <1>6, <1>7, <1>8, <1>9, <1>10, <1>11, <1>12, <1>13, <1>14, <1>15,
            <1>16, <1>17, <1>18, <1>19 DEF Next

(* In every behaviour of the scheduler the timer is sane exactly inside Advance (and before *)
(* the first one), events are well formed, and a slice ends by the first pending event.     *)
THEOREM Invariance == Spec => []IndInv
BY InitInv, NextInv, PTL DEF Spec

(* The slice Advance declares, and what ScheduleEvent and ForceExceptionCheck leave of it,  *)
(* ends no later than any event scheduled by the CPU thread can be served.                  *)
THEOREM SliceIsShortEnough == Spec => []SliceEndsByNextEvent
<1>1. IndInv => SliceEndsByNextEvent BY DEF IndInv
<1>. QED BY <1>1, Invariance, PTL

-----------------------------------------------------------------------------
(* The order of simultaneous events. *)

(* MoveEvents numbers what it moves on from the events already added. *)
LEMMA MovedFifo ==
  ASSUME TypeOK, Numbered, Placed(s_event_queue, added)
  PROVE  Placed(s_event_queue \cup Moved(s_event_fifo_id), added + Len(s_ts_queue))
<1>. DEFINE Item(i) == Event(s_ts_queue[i].time, s_event_fifo_id + i - 1, s_ts_queue[i].type, added + i - 1,
                             FALSE, s_ts_queue[i].time)
<1>1. /\ Len(s_ts_queue) \in Nat /\ DOMAIN s_ts_queue = 1 .. Len(s_ts_queue)
      /\ added \in Nat /\ s_event_fifo_id = added
  BY DEF TypeOK, Numbered
<1>2. ASSUME NEW i \in DOMAIN s_ts_queue
      PROVE  Item(i).seq = added + i - 1 /\ Item(i).fifo_order = added + i - 1
  BY <1>1 DEF Event
<1>3. \A e \in Moved(s_event_fifo_id) : \E i \in DOMAIN s_ts_queue : e = Item(i) BY DEF Moved
<1>. HIDE DEF Item
<1>4. ASSUME NEW e \in Moved(s_event_fifo_id)
      PROVE  e.fifo_order = e.seq /\ e.seq < added + Len(s_ts_queue) /\ e.seq >= added /\ e.seq \in Int
  <2>1. PICK i \in DOMAIN s_ts_queue : e = Item(i) BY <1>3
  <2>2. i \in 1 .. Len(s_ts_queue) BY <1>1
  <2>. QED BY <2>1, <2>2, <1>1, <1>2
<1>5. ASSUME NEW e \in s_event_queue
      PROVE  e.fifo_order = e.seq /\ e.seq < added /\ e.seq \in Int
  BY DEF TypeOK, Placed, Events
<1>6. ASSUME NEW e \in Moved(s_event_fifo_id), NEW f \in Moved(s_event_fifo_id), e.seq = f.seq PROVE e = f
  <2>1. PICK i \in DOMAIN s_ts_queue : e = Item(i) BY <1>3
  <2>2. PICK j \in DOMAIN s_ts_queue : f = Item(j) BY <1>3
  <2>3. added + i - 1 = added + j - 1 BY <2>1, <2>2, <1>2, <1>6
  <2>4. i = j BY <2>3, <1>1
  <2>. QED BY <2>1, <2>2, <2>4
<1>7. ASSUME NEW e \in s_event_queue, NEW f \in s_event_queue, e.seq = f.seq PROVE e = f
  BY <1>7 DEF Placed
<1>8. ASSUME NEW e \in s_event_queue \cup Moved(s_event_fifo_id)
      PROVE  e.fifo_order = e.seq /\ e.seq < added + Len(s_ts_queue)
  BY <1>1, <1>4, <1>5
<1>9. ASSUME NEW e \in s_event_queue, NEW f \in Moved(s_event_fifo_id) PROVE e.seq # f.seq
  BY <1>1, <1>4, <1>5
<1>. QED BY <1>6, <1>7, <1>8, <1>9 DEF Placed

(* What MoveEvents leaves, and what is left of that when events are removed. *)
LEMMA MoveFifo ==
  ASSUME TypeOK, FifoOK, s_event_queue' \subseteq s_event_queue \cup Moved(s_event_fifo_id),
         s_event_fifo_id' = s_event_fifo_id + Len(s_ts_queue), added' = added + Len(s_ts_queue)
  PROVE  s_event_fifo_id' <= added' /\ (Numbered' => Numbered /\ Placed(s_event_queue', added'))
<1>1. Len(s_ts_queue) \in Nat /\ added \in Nat /\ s_event_fifo_id \in Nat BY DEF TypeOK
<1>2. s_event_fifo_id' <= added' /\ (Numbered' => Numbered) BY <1>1 DEF FifoOK, Numbered
<1>3. Numbered => Placed(s_event_queue', added') BY MovedFifo DEF FifoOK, Placed
<1>. QED BY <1>2, <1>3

(* Steps that keep the queue, or take events from it. *)
LEMMA FifoKept ==
  ASSUME FifoOK, s_event_queue' \subseteq s_event_queue, UNCHANGED <<s_event_fifo_id, added, state>>,
         s_cpu_core_clock' = s_cpu_core_clock, heap_ok => heap_ok', phase' = "off" => phase = "off"
  PROVE  FifoOK'
BY DEF FifoOK, Numbered, Placed

(* Every step keeps the positions. *)
LEMMA FifoStep == ASSUME IndInv, FifoOK, [Next]_vars PROVE FifoOK'
<1>t. TypeOK BY DEF IndInv
<1>1. ASSUME NEW t \in Types, NEW d \in Delays, ScheduleEvent(t, d) PROVE FifoOK'
  <2>. DEFINE new == Event(GetTicks + d, s_event_fifo_id, t, added, TRUE, MaxOf(GetTicks + d, GetTicks))
  <2>1. new.fifo_order = s_event_fifo_id /\ new.seq = added BY DEF Event
  <2>2. s_event_queue' = s_event_queue \cup {new} BY <1>1 DEF ScheduleEvent, Schedule
  <2>. HIDE DEF new
  <2>3. \A e \in s_event_queue : e.seq \in Nat BY <1>t DEF TypeOK, Events
  <2>4. phase' = phase /\ phase # "off" /\ state' = state /\ heap_ok' = heap_ok
        /\ s_cpu_core_clock' = s_cpu_core_clock
        /\ added' = added + 1 /\ s_event_fifo_id' = s_event_fifo_id + 1
    BY <1>1 DEF ScheduleEvent, Schedule, OnCPU, place, saves
  <2>5. Numbered' => Numbered /\ Placed(s_event_queue', added')
    BY <1>t, <2>1, <2>2, <2>3, <2>4 DEF FifoOK, Numbered, Placed, TypeOK
  <2>. QED BY <1>t, <2>4, <2>5 DEF FifoOK, TypeOK
<1>2. ASSUME NEW t \in Types, NEW d \in Delays, OffThreadSample(t, d) PROVE FifoOK'
  BY <1>2, FifoKept DEF OffThreadSample, queue, place, saves
<1>3. CASE OffThreadPush BY <1>3, FifoKept DEF OffThreadPush, queue, place, saves
<1>4. ASSUME NEW t \in Types, RemoveEvent(t) PROVE FifoOK'
  BY <1>4, FifoKept DEF RemoveEvent, Remove, place, saves
<1>5. ASSUME NEW t \in Types, RemoveAllEvents(t) PROVE FifoOK'
  <2>1. s_event_queue' \subseteq s_event_queue \cup Moved(s_event_fifo_id)
    BY <1>5 DEF RemoveAllEvents, Remove
  <2>2. s_event_fifo_id' <= added' /\ (Numbered' => Placed(s_event_queue', added'))
    BY <1>5, <1>t, <2>1, MoveFifo DEF RemoveAllEvents
  <2>. QED BY <1>5, <2>2 DEF RemoveAllEvents, Remove, OnCPU, FifoOK, place, saves
<1>6. ASSUME NEW d \in Delays, ForceExceptionCheck(d) PROVE FifoOK'
  BY <1>6, FifoKept DEF ForceExceptionCheck, queue, place, saves
<1>7. ASSUME NEW dispatcher \in {"Run", "SingleStep"}, NEW oc \in OCFactors, AdvanceBegin(dispatcher, oc)
      PROVE FifoOK'
  <2>1. s_event_fifo_id' <= added' /\ (Numbered' => Placed(s_event_queue', added'))
    BY <1>7, <1>t, MoveFifo DEF AdvanceBegin, MoveEvents
  <2>. QED BY <1>7, <2>1 DEF AdvanceBegin, FifoOK, saves
<1>8. CASE RunCallback BY <1>8, FifoKept DEF RunCallback, saves
<1>9. CASE CallbackReturn BY <1>9, FifoKept DEF CallbackReturn, queue, saves
<1>10. CASE AdvanceEnd BY <1>10, FifoKept DEF AdvanceEnd, queue, saves
<1>11. ASSUME NEW n \in 1 .. MaxBlock, ExecuteBlock(n) \/ IdleBlock(n) PROVE FifoOK'
  BY <1>11, FifoKept DEF ExecuteBlock, IdleBlock, queue, saves
<1>12. CASE SingleStepEnd BY <1>12, FifoKept DEF SingleStepEnd, queue, saves
<1>13. CASE ChangePPCClock
  <2>1. \A e \in s_event_queue : Rescaled(e).seq = e.seq /\ Rescaled(e).fifo_order = e.fifo_order
    BY <1>t DEF Rescaled, TypeOK, Events
  <2>2. Numbered' => Placed(s_event_queue', added')
    BY <1>13, <2>1 DEF ChangePPCClock, FifoOK, Numbered, Placed
  <2>. QED BY <1>13, <2>2 DEF ChangePPCClock, FifoOK, saves
<1>14. CASE SaveMeasure
  <2>1. s_event_fifo_id' <= added' /\ (Numbered' => Placed(s_event_queue', added'))
    BY <1>14, <1>t, MoveFifo DEF SaveMeasure, MoveEvents
  <2>. QED BY <1>14, <2>1 DEF SaveMeasure, FifoOK
<1>15. CASE SaveWrite
  <2>1. s_event_fifo_id' <= added' /\ (Numbered' => Placed(s_event_queue', added'))
    BY <1>15, <1>t, MoveFifo DEF SaveWrite, MoveEvents
  <2>2. state'.fifo_id = s_event_fifo_id /\ state'.added = added' /\ state'.events = s_event_queue'
    BY <1>15 DEF SaveWrite
  <2>3. state'.fifo_id <= state'.added /\ (state'.fifo_id = state'.added => Numbered')
    BY <1>15, <1>t, <2>1, <2>2 DEF SaveWrite, MoveEvents, FifoOK, Numbered, TypeOK
  <2>. QED BY <1>15, <2>1, <2>2, <2>3 DEF SaveWrite, FifoOK
<1>16. CASE LoadState
  <2>1. Len(s_ts_queue) \in Nat /\ state.fifo_id \in Nat /\ state.added \in Nat /\ state.events \subseteq Events
    BY <1>16, <1>t DEF LoadState, IndInv, SavedOK, TypeOK
  <2>2. s_event_fifo_id' <= added' /\ (Numbered' => state.fifo_id = state.added)
    BY <1>16, <2>1 DEF LoadState, FifoOK, Numbered
  <2>3. Numbered' => Placed(s_event_queue', added')
    BY <1>16, <2>1, <2>2 DEF LoadState, FifoOK, Placed, Events
  <2>. QED BY <1>16, <2>2, <2>3 DEF LoadState, FifoOK, saves
<1>17. CASE Shutdown
  BY <1>17, <1>t DEF Shutdown, FifoOK, Numbered, Placed, saves, TypeOK
<1>18. ASSUME NEW oc \in OCFactors, InitCoreTiming(oc) PROVE FifoOK'
  BY <1>18 DEF InitCoreTiming, FifoOK, Numbered, Placed, saves
<1>19. CASE UNCHANGED vars BY <1>19, FifoKept DEF vars, queue, place, saves
<1>. QED BY <1>1, <1>2, <1>3, <1>4, <1>5, <1>6, <1>7, <1>8, <1>9, <1>10, <1>11, <1>12, <1>13, <1>14, <1>15,
            <1>16, <1>17, <1>18, <1>19 DEF Next

(* Simultaneous events are called back in the order in which they were added, those of other *)
(* threads included, until a load gives out ids again or the PPC clock changes.             *)
THEOREM FifoIsKept == Spec => FifoAmongEqualTimes
<1>1. Init => FifoOK BY DEF Init, FifoOK, Numbered, Placed
<1>2. IndInv /\ FifoOK /\ [Next]_vars => FifoOK' BY FifoStep
<1>3. IndInv /\ FifoOK /\ [Next]_vars =>
        [Numbered /\ s_cpu_core_clock = "Wii" /\ phase = "events" /\ phase' = "callback" =>
           \A e \in s_event_queue' : e.time = evt'.time => e.seq > evt'.seq]_vars
  <2>. SUFFICES ASSUME IndInv, FifoOK, Next, Numbered, s_cpu_core_clock = "Wii", phase = "events",
                       phase' = "callback", NEW e \in s_event_queue', e.time = evt'.time
                PROVE  e.seq > evt'.seq
    OBVIOUS
  <2>1. RunCallback
    BY DEF Next, ScheduleEvent, OffThreadSample, OffThreadPush, RemoveEvent, RemoveAllEvents, ForceExceptionCheck,
           AdvanceBegin, CallbackReturn, AdvanceEnd, ExecuteBlock, IdleBlock, SingleStepEnd, ChangePPCClock,
           SaveMeasure, SaveWrite, LoadState, Shutdown, InitCoreTiming, OnCPU, InSlice, Stopped, MayExecute, place
  <2>2. evt' \in Fronts /\ e \in s_event_queue /\ e # evt' BY <2>1 DEF RunCallback
  <2>3. evt' \in s_event_queue /\ ~Before(e, evt') BY <2>2 DEF Fronts, FifoOK
  <2>4. e \in Events /\ evt' \in Events BY <2>2, <2>3 DEF IndInv, TypeOK
  <2>5. e.seq \in Nat /\ evt'.seq \in Nat /\ e.fifo_order = e.seq /\ evt'.fifo_order = evt'.seq
        /\ e.seq # evt'.seq
    BY <2>2, <2>3, <2>4 DEF FifoOK, Placed, Events
  <2>. QED BY <2>3, <2>5 DEF Before
<1>. QED BY <1>1, <1>2, <1>3, Invariance, PTL DEF Spec, FifoAmongEqualTimes
-----------------------------------------------------------------------------
(* Rounding.  The casts of the clock override lose cycles, and the clock   *)
(* is right only because of where they lose them.                          *)

(* What \div returns. *)
LEMMA DivBounds ==
  ASSUME NEW n \in Int, NEW d \in Nat \ {0}
  PROVE  n \div d \in Int /\ d * (n \div d) <= n /\ n < d * (n \div d) + d
BY SMT

(* Integers compare as their multiples do, with a margin of less than one multiple. *)
LEMMA MulLess ==
  ASSUME NEW d \in Nat \ {0}, NEW q \in Int, NEW r \in Int, d * q <= d * r + d - 1
  PROVE  q <= r
<1>. SUFFICES ASSUME q >= r + 1 PROVE FALSE OBVIOUS
<1>1. q - r - 1 \in Nat OBVIOUS
<1>2. d * (q - r - 1) >= 0 BY <1>1
<1>3. d * (q - r - 1) = d * q - d * r - d OBVIOUS
<1>4. d * q \in Int /\ d * r \in Int OBVIOUS
<1>. QED BY <1>2, <1>3, <1>4

(* Division by a positive number is monotone. *)
LEMMA DivMono ==
  ASSUME NEW n \in Int, NEW m \in Int, n <= m, NEW d \in Nat \ {0}
  PROVE  n \div d <= m \div d
<1>. DEFINE q == n \div d
            r == m \div d
<1>1. q \in Int /\ d * q <= n BY DivBounds
<1>2. r \in Int /\ m < d * r + d BY DivBounds
<1>. HIDE DEF q, r
<1>3. d * q \in Int /\ d * r \in Int BY <1>1, <1>2
<1>4. d * q <= d * r + d - 1 BY <1>1, <1>2, <1>3
<1>5. q <= r BY <1>1, <1>2, <1>4, MulLess
<1>. QED BY <1>5 DEF q, r

(* Nothing divided is nothing. *)
LEMMA DivZero == ASSUME NEW d \in Nat \ {0} PROVE 0 \div d = 0
<1>. DEFINE q == 0 \div d
<1>1. q \in Int /\ d * q <= 0 /\ 0 < d * q + d BY DivBounds
<1>. HIDE DEF q
<1>2. d * q \in Int /\ d * 0 = 0 BY <1>1
<1>3. d * q <= d * 0 + d - 1 /\ d * 0 <= d * q + d - 1 BY <1>1, <1>2
<1>4. q <= 0 /\ 0 <= q BY <1>1, <1>3, MulLess
<1>5. q = 0 BY <1>1, <1>4
<1>. QED BY <1>5 DEF q

(* A cast keeps the order, and the sign. *)
LEMMA TruncateMono ==
  ASSUME NEW n \in Int, NEW m \in Int, n <= m, NEW d \in Nat \ {0}
  PROVE  Truncate(n, d) <= Truncate(m, d)
<1>0. 0 \div d = 0 BY DivZero
<1>1. CASE n >= 0
  BY <1>1, DivMono DEF Truncate
<1>2. CASE m < 0
  <2>1. -m \in Int /\ -n \in Int /\ -m <= -n BY <1>2
  <2>2. (-m) \div d <= (-n) \div d BY <2>1, DivMono
  <2>3. (-m) \div d \in Int /\ (-n) \div d \in Int BY <2>1, DivBounds
  <2>4. Truncate(n, d) = -((-n) \div d) /\ Truncate(m, d) = -((-m) \div d) BY <1>2 DEF Truncate
  <2>. QED BY <2>2, <2>3, <2>4
<1>3. CASE n < 0 /\ m >= 0
  <2>1. -n \in Int /\ 0 <= -n BY <1>3
  <2>2. 0 <= (-n) \div d BY <1>0, <2>1, DivMono
  <2>3. 0 <= m \div d BY <1>0, <1>3, DivMono
  <2>4. (-n) \div d \in Int /\ m \div d \in Int BY <2>1, DivBounds
  <2>5. Truncate(n, d) = -((-n) \div d) /\ Truncate(m, d) = m \div d BY <1>3 DEF Truncate
  <2>. QED BY <2>2, <2>3, <2>4, <2>5
<1>. QED BY <1>1, <1>2, <1>3

(* Zero is kept. *)
LEMMA TruncateZero == ASSUME NEW d \in Nat \ {0} PROVE Truncate(0, d) = 0
BY DivZero DEF Truncate

(* More downcount is worth no fewer cycles. *)
LEMMA InvertedMono ==
  ASSUME NEW oc \in OCFactors, NEW n \in Int, NEW m \in Int, n <= m
  PROVE  Inverted(oc, n) <= Inverted(oc, m)
<1>1. oc[1] \in Nat \ {0} /\ oc[2] \in Nat \ {0} BY FactorInt
<1>2. n * oc[2] \in Int /\ m * oc[2] \in Int BY <1>1
<1>3. (m - n) \in Nat OBVIOUS
<1>4. (m - n) * oc[2] >= 0 BY <1>1, <1>3
<1>5. (m - n) * oc[2] = m * oc[2] - n * oc[2] BY <1>1
<1>6. n * oc[2] <= m * oc[2] BY <1>2, <1>4, <1>5
<1>. QED BY <1>1, <1>2, <1>6, TruncateMono DEF Inverted

(* A downcount of nothing is worth nothing. *)
LEMMA InvertedZero == ASSUME NEW oc \in OCFactors PROVE Inverted(oc, 0) = 0
<1>1. oc[1] \in Nat \ {0} /\ oc[2] \in Nat \ {0} BY FactorInt
<1>2. 0 * oc[2] = 0 BY <1>1
<1>. QED BY <1>1, <1>2, TruncateZero DEF Inverted

(* Casts round towards zero on both sides of it. *)
LEMMA InvertedMinus ==
  ASSUME NEW oc \in OCFactors, NEW n \in Nat
  PROVE  Inverted(oc, -n) = -Inverted(oc, n)
<1>1. oc[1] \in Nat \ {0} /\ oc[2] \in Nat \ {0} BY FactorInt
<1>2. CASE n = 0
  <2>1. -n >= 0 /\ -n <= 0 BY <1>2
  <2>2. -n = 0 BY <2>1
  <2>. QED BY <1>2, <2>2, InvertedZero
<1>3. CASE n # 0
  <2>1. n * oc[2] \in Int /\ (-n) * oc[2] = -(n * oc[2]) BY <1>1
  <2>2. n * oc[2] > 0 BY <1>1, <1>3
  <2>3. -(-(n * oc[2])) = n * oc[2] BY <2>1
  <2>4. ~(-(n * oc[2]) >= 0) BY <2>1, <2>2
  <2>5. Inverted(oc, n) = (n * oc[2]) \div oc[1] BY <2>1, <2>2 DEF Inverted, Truncate
  <2>6. Inverted(oc, -n) = -((n * oc[2]) \div oc[1])
    <3>1. Inverted(oc, -n) = Truncate(-(n * oc[2]), oc[1]) BY <2>1 DEF Inverted
    <3>. QED BY <3>1, <2>3, <2>4 DEF Truncate
  <2>. QED BY <2>5, <2>6
<1>. QED BY <1>2, <1>3

(* A slice given in cycles becomes a downcount that is worth no more cycles than it. *)
LEMMA RoundTrip ==
  ASSUME NEW oc \in OCFactors, NEW c \in Nat
  PROVE  CyclesToDowncount(oc, c) >= 0 /\ Inverted(oc, CyclesToDowncount(oc, c)) <= c
<1>. DEFINE a == oc[1]
            b == oc[2]
            q == (c * a) \div b
            r == (q * b) \div a
<1>1. a \in Nat \ {0} /\ b \in Nat \ {0} BY FactorInt
<1>2. c * a \in Int /\ c * a >= 0 BY <1>1
<1>3. CyclesToDowncount(oc, c) = q BY <1>2 DEF CyclesToDowncount, Truncate
<1>4. q \in Int /\ b * q <= c * a BY <1>1, <1>2, DivBounds
<1>5. q >= 0 BY <1>1, <1>2, DivMono, DivZero
<1>. HIDE DEF q
<1>6. q * b \in Int /\ q * b >= 0 /\ b * q = q * b BY <1>1, <1>4, <1>5
<1>7. Inverted(oc, q) = r BY <1>6 DEF Inverted, Truncate
<1>8. r \in Int /\ a * r <= q * b BY <1>1, <1>6, DivBounds
<1>. HIDE DEF r, a, b
<1>9. a * r \in Int /\ a * c \in Int /\ a * c = c * a BY <1>1, <1>8
<1>10. a * r <= a * c + a - 1 BY <1>1, <1>2, <1>4, <1>6, <1>8, <1>9
<1>11. r <= c BY <1>1, <1>8, <1>10, MulLess
<1>. QED BY <1>3, <1>5, <1>7, <1>11

(* A clock raised by a whole factor, or not overridden, loses nothing. *)
LEMMA WholeFactor ==
  ASSUME NEW oc \in OCFactors, oc[2] = 1, NEW c \in Nat
  PROVE  Inverted(oc, CyclesToDowncount(oc, c)) = c
<1>. DEFINE a == oc[1]
            q == (c * a) \div 1
            r == (q * 1) \div a
<1>1. a \in Nat \ {0} BY FactorInt
<1>2. c * a \in Int /\ c * a >= 0 BY <1>1
<1>3. q = c * a BY <1>2
<1>4. CyclesToDowncount(oc, c) = q BY <1>2 DEF CyclesToDowncount, Truncate
<1>5. Inverted(oc, c * a) = (c * a) \div a BY <1>2 DEF Inverted, Truncate
<1>. DEFINE p == (c * a) \div a
<1>6. p \in Int /\ a * p <= c * a /\ c * a < a * p + a BY <1>1, <1>2, DivBounds
<1>. HIDE DEF p, a
<1>7. a * p \in Int /\ a * c \in Int /\ a * c = c * a BY <1>1, <1>6
<1>8. a * p <= a * c + a - 1 /\ a * c <= a * p + a - 1 BY <1>1, <1>2, <1>6, <1>7
<1>9. p <= c /\ c <= p BY <1>1, <1>6, <1>8, MulLess
<1>. QED BY <1>3, <1>4, <1>5, <1>6, <1>9 DEF p, a

-----------------------------------------------------------------------------
(* The clock.  A cut is worth what DowncountToCycles says of the downcount *)
(* at the factor in force; between the change of factor in Advance and the *)
(* end of Advance the two do not belong together, and a check forced from  *)
(* a callback there cuts the slice by an amount that means nothing.  The   *)
(* results below therefore ask that no check is forced from a callback, or *)
(* that the clock factor does not change.                                  *)

\* The clock override does not change.
OneFactor == \A a, b \in OCFactors : a = b

\* The slice is not negative and no longer than the longest.
SliceOK == 0 <= slice_length /\ slice_length <= MAX_SLICE_LENGTH

\* The CPU has not executed a negative number of cycles.  In Advance the number means
\* nothing until the next slice is declared.
ExecutedOK == CyclesExecuted >= 0 \/ (phase \in {"events", "callback"} /\ "CallbackForce" \notin Ops)

\* A slice starts with a downcount that is not negative, and is overrun by a block at most.
DowncountOK ==
  /\ phase = "first" => downcount >= 0
  /\ InSlice => downcount >= -MaxBlock

\* The same of a saved clock.
SavedClockOK ==
  state # NoState =>
    /\ 0 <= state.slice_length /\ state.slice_length <= MAX_SLICE_LENGTH
    /\ state.slice_length - Inverted(state.oc, state.downcount) >= 0

ClockOK == SliceOK /\ ExecutedOK /\ DowncountOK /\ SavedClockOK

(* A cut never takes back cycles that were executed, and leaves a downcount. *)
LEMMA CutClock ==
  ASSUME TypeOK, NEW c \in Int, Cut(c)
  PROVE  /\ slice_length' - Inverted(s_last_OC_factor, downcount') >= CyclesExecuted
         /\ slice_length' <= slice_length
         /\ \/ slice_length' = slice_length /\ downcount' = downcount
            \/ downcount' >= 0 /\ slice_length' >= CyclesExecuted
<1>. DEFINE left == DowncountToCycles(downcount)
            m    == MaxOf(0, c)
<1>1. left \in Int /\ slice_length \in Int /\ downcount \in Int /\ s_last_OC_factor \in OCFactors
  BY Integers DEF TypeOK
<1>2. m \in Nat BY DEF MaxOf
<1>3. CyclesExecuted = slice_length - left /\ left = Inverted(s_last_OC_factor, downcount)
  BY DEF CyclesExecuted, DowncountToCycles
<1>4. CASE left > m
  <2>1. slice_length' = slice_length - (left - m) /\ downcount' = CyclesToDowncount(s_last_OC_factor, m)
    BY <1>4 DEF Cut
  <2>2. downcount' >= 0 /\ Inverted(s_last_OC_factor, downcount') <= m
    BY <2>1, <1>1, <1>2, RoundTrip
  <2>3. Inverted(s_last_OC_factor, downcount') \in Int BY <2>1, <1>1, <1>2, CyclesInt
  <2>. HIDE DEF left, m
  <2>. QED BY <2>1, <2>2, <2>3, <1>1, <1>2, <1>3, <1>4
<1>5. CASE ~(left > m)
  <2>1. slice_length' = slice_length /\ downcount' = downcount BY <1>5 DEF Cut
  <2>. HIDE DEF left, m
  <2>. QED BY <2>1, <1>1, <1>3
<1>. QED BY <1>4, <1>5

(* Steps that leave the clock alone. *)
LEMMA ClockKept ==
  ASSUME ClockOK, UNCHANGED clock, state' = state,
         phase' = phase \/ {phase, phase'} \subseteq {"events", "callback"}
                        \/ (phase \notin {"events", "callback"} /\ phase' \in {"entry", "saving", "off"})
  PROVE  ClockOK'
BY DEF ClockOK, SliceOK, ExecutedOK, DowncountOK, SavedClockOK, InSlice, CyclesExecuted, DowncountToCycles, clock

(* Where the slice and the factor belong together a cut keeps the clock right. *)
LEMMA ClockCut ==
  ASSUME IndInv, ClockOK, "CallbackForce" \notin Ops \/ OneFactor, NEW c \in Int, Cut(c),
         phase \in {"events", "callback"} => "CallbackForce" \in Ops,
         s_last_OC_factor' = s_last_OC_factor, phase' = phase, state' = state
  PROVE  ClockOK'
<1>t. TypeOK BY DEF IndInv
<1>1. CyclesExecuted >= 0 BY DEF ClockOK, ExecutedOK
<1>2. /\ CyclesExecuted \in Int /\ slice_length \in Int /\ slice_length' \in Int /\ downcount' \in Int
      /\ MAX_SLICE_LENGTH \in Int /\ Inverted(s_last_OC_factor, downcount') \in Int
  <2>1. slice_length' \in Int /\ downcount' \in Int BY <1>t, CutType
  <2>2. s_last_OC_factor \in OCFactors BY <1>t DEF TypeOK
  <2>3. Inverted(s_last_OC_factor, downcount') \in Int BY <2>1, <2>2, CyclesInt
  <2>. QED BY <1>t, <2>1, <2>3, Integers, BoundsAssumption DEF TypeOK
<1>3. /\ slice_length' - Inverted(s_last_OC_factor, downcount') >= CyclesExecuted
      /\ slice_length' <= slice_length
      /\ \/ slice_length' = slice_length /\ downcount' = downcount
         \/ downcount' >= 0 /\ slice_length' >= CyclesExecuted
  BY <1>t, CutClock
<1>4. SliceOK' BY <1>1, <1>2, <1>3 DEF ClockOK, SliceOK
<1>5. ExecutedOK'
  <2>1. slice_length' - Inverted(s_last_OC_factor, downcount') >= 0 BY <1>1, <1>2, <1>3
  <2>. QED BY <2>1 DEF ExecutedOK, CyclesExecuted, DowncountToCycles
<1>6. DowncountOK' BY <1>2, <1>3, BoundsAssumption DEF ClockOK, DowncountOK, InSlice
<1>. QED BY <1>4, <1>5, <1>6 DEF ClockOK, SavedClockOK

(* Every step keeps the clock right. *)
LEMMA ClockStep ==
  ASSUME IndInv, ClockOK, "CallbackForce" \notin Ops \/ OneFactor, [Next]_vars
  PROVE  ClockOK'
<1>t. TypeOK /\ SaneOK /\ SavedOK BY DEF IndInv
<1>i. /\ MAX_SLICE_LENGTH \in Int /\ MAX_SLICE_LENGTH >= 1 /\ MaxBlock \in Int /\ MaxBlock >= 1
      /\ slice_length \in Int /\ downcount \in Int /\ CyclesExecuted \in Int
      /\ s_last_OC_factor \in OCFactors
  BY <1>t, Integers, BoundsAssumption DEF TypeOK
<1>1. ASSUME NEW t \in Types, NEW d \in Delays, ScheduleEvent(t, d) PROVE ClockOK'
  <2>1. CASE s_is_global_timer_sane
    BY <1>1, <2>1, ClockKept DEF ScheduleEvent, clock, place, saves
  <2>2. CASE ~s_is_global_timer_sane
    <3>1. phase \notin {"events", "callback"} BY <2>2, <1>t DEF SaneOK
    <3>. QED BY <1>1, <2>2, <3>1, DelaysAssumption, ClockCut DEF ScheduleEvent, place, saves
  <2>. QED BY <2>1, <2>2
<1>2. ASSUME NEW t \in Types, NEW d \in Delays, OffThreadSample(t, d) PROVE ClockOK'
  BY <1>2, ClockKept DEF OffThreadSample, place, saves
<1>3. CASE OffThreadPush BY <1>3, ClockKept DEF OffThreadPush, place, saves
<1>4. ASSUME NEW t \in Types, RemoveEvent(t) \/ RemoveAllEvents(t) PROVE ClockOK'
  BY <1>4, ClockKept DEF RemoveEvent, RemoveAllEvents, place, saves
<1>5. ASSUME NEW d \in Delays, ForceExceptionCheck(d) PROVE ClockOK'
  <2>1. phase \in {"events", "callback"} => "CallbackForce" \in Ops
    BY <1>5 DEF ForceExceptionCheck, OnCPU
  <2>. QED BY <1>5, <2>1, DelaysAssumption, ClockCut DEF ForceExceptionCheck, place, saves
<1>6. ASSUME NEW dispatcher \in {"Run", "SingleStep"}, NEW oc \in OCFactors, AdvanceBegin(dispatcher, oc)
      PROVE ClockOK'
  <2>1. slice_length' = MAX_SLICE_LENGTH /\ downcount' = downcount /\ s_last_OC_factor' = oc
        /\ phase' = "events" /\ state' = state /\ phase \notin {"events", "callback"}
    BY <1>6 DEF AdvanceBegin, saves, InSlice
  <2>2. ExecutedOK'
    <3>1. CASE "CallbackForce" \notin Ops BY <3>1, <2>1 DEF ExecutedOK
    <3>2. CASE OneFactor
      <4>1. oc = s_last_OC_factor BY <3>2, <1>i DEF OneFactor
      <4>2. slice_length <= MAX_SLICE_LENGTH /\ CyclesExecuted >= 0
        BY <2>1 DEF ClockOK, SliceOK, ExecutedOK
      <4>3. Inverted(s_last_OC_factor, downcount) \in Int BY <1>i, CyclesInt
      <4>4. MAX_SLICE_LENGTH - Inverted(s_last_OC_factor, downcount) >= 0
        BY <4>2, <4>3, <1>i DEF CyclesExecuted, DowncountToCycles
      <4>. QED BY <2>1, <4>1, <4>4 DEF ExecutedOK, CyclesExecuted, DowncountToCycles
    <3>. QED BY <3>1, <3>2
  <2>. QED BY <1>i, <2>1, <2>2 DEF ClockOK, SliceOK, DowncountOK, SavedClockOK, InSlice
<1>7. CASE RunCallback BY <1>7, ClockKept DEF RunCallback, saves
<1>8. CASE CallbackReturn BY <1>8, ClockKept DEF CallbackReturn, saves
<1>9. CASE AdvanceEnd
  <2>1. slice_length' \in Int /\ 0 <= slice_length' /\ slice_length' <= MAX_SLICE_LENGTH
    <3>1. CASE slice_length' = slice_length BY <3>1, <1>i DEF ClockOK, SliceOK
    <3>2. ASSUME NEW front \in Fronts, front.time > global_timer,
                 slice_length' = MinOf(front.time - global_timer, MAX_SLICE_LENGTH)
          PROVE  slice_length' \in Int /\ 0 <= slice_length' /\ slice_length' <= MAX_SLICE_LENGTH
      BY <3>2, <1>t, <1>i DEF Fronts, MinOf, TypeOK, Events
    <3>. QED BY <1>9, <3>1, <3>2 DEF AdvanceEnd, NextSlice
  <2>2. downcount' = CyclesToDowncount(s_last_OC_factor, slice_length') /\ phase' = "first" /\ state' = state
        /\ s_last_OC_factor' = s_last_OC_factor
    BY <1>9 DEF AdvanceEnd, saves
  <2>3. downcount' \in Int /\ Inverted(s_last_OC_factor, downcount') \in Int
    BY <1>i, <2>1, <2>2, CyclesInt
  <2>4. downcount' >= 0 /\ Inverted(s_last_OC_factor, downcount') <= slice_length'
    BY <1>i, <2>1, <2>2, RoundTrip
  <2>5. slice_length' - Inverted(s_last_OC_factor, downcount') >= 0 BY <2>1, <2>3, <2>4
  <2>6. ExecutedOK' BY <2>2, <2>5 DEF ExecutedOK, CyclesExecuted, DowncountToCycles
  <2>7. DowncountOK' BY <1>i, <2>3, <2>4 DEF DowncountOK, InSlice
  <2>. QED BY <2>1, <2>2, <2>6, <2>7 DEF ClockOK, SliceOK, SavedClockOK
<1>10. ASSUME NEW n \in 1 .. MaxBlock, ExecuteBlock(n) \/ IdleBlock(n) PROVE ClockOK'
  <2>1. downcount >= 0 /\ CyclesExecuted >= 0 /\ n \in Int
    BY <1>10, <1>i DEF ExecuteBlock, IdleBlock, MayExecute, ClockOK, ExecutedOK, DowncountOK
  <2>2. downcount' \in Int /\ downcount' <= downcount /\ downcount' >= -MaxBlock
    BY <1>10, <2>1, <1>i DEF ExecuteBlock, IdleBlock
  <2>3. slice_length' = slice_length /\ s_last_OC_factor' = s_last_OC_factor /\ phase' = "slice" /\ state' = state
    BY <1>10 DEF ExecuteBlock, IdleBlock, saves
  <2>4. Inverted(s_last_OC_factor, downcount') <= Inverted(s_last_OC_factor, downcount)
    BY <1>i, <2>2, InvertedMono
  <2>5. Inverted(s_last_OC_factor, downcount') \in Int /\ Inverted(s_last_OC_factor, downcount) \in Int
    BY <1>i, <2>2, CyclesInt
  <2>6. slice_length - Inverted(s_last_OC_factor, downcount') >= 0
    BY <1>i, <2>1, <2>4, <2>5 DEF CyclesExecuted, DowncountToCycles
  <2>7. ExecutedOK' BY <2>3, <2>6 DEF ExecutedOK, CyclesExecuted, DowncountToCycles
  <2>. QED BY <2>2, <2>3, <2>7 DEF ClockOK, SliceOK, DowncountOK, SavedClockOK
<1>11. CASE SingleStepEnd
  <2>1. Inverted(s_last_OC_factor, 0) = 0 BY <1>i, InvertedZero
  <2>2. ExecutedOK' BY <1>11, <2>1 DEF SingleStepEnd, ExecutedOK, CyclesExecuted, DowncountToCycles
  <2>. QED BY <1>i, <1>11, <2>2 DEF SingleStepEnd, ClockOK, SliceOK, DowncountOK, SavedClockOK, saves
<1>12. CASE ChangePPCClock BY <1>12, ClockKept DEF ChangePPCClock, saves
<1>13. CASE SaveMeasure BY <1>13, ClockKept DEF SaveMeasure, Stopped, InSlice
<1>14. CASE SaveWrite
  <2>1. state' # NoState => state'.slice_length = slice_length /\ state'.downcount = downcount
                            /\ state'.oc = s_last_OC_factor
    BY <1>14 DEF SaveWrite
  <2>2. UNCHANGED clock /\ phase = "saving" /\ phase' = "entry" BY <1>14 DEF SaveWrite
  <2>3. CyclesExecuted >= 0 BY <2>2 DEF ClockOK, ExecutedOK
  <2>4. SavedClockOK' BY <2>1, <2>3 DEF ClockOK, SliceOK, SavedClockOK, CyclesExecuted, DowncountToCycles
  <2>. QED BY <2>2, <2>4 DEF ClockOK, SliceOK, ExecutedOK, DowncountOK, InSlice, CyclesExecuted, DowncountToCycles, clock
<1>15. CASE LoadState
  BY <1>15 DEF LoadState, saves, ClockOK, SliceOK, ExecutedOK, DowncountOK, SavedClockOK, InSlice, CyclesExecuted,
     DowncountToCycles
<1>16. CASE Shutdown BY <1>16, ClockKept DEF Shutdown, Stopped, InSlice, saves
<1>17. ASSUME NEW oc \in OCFactors, InitCoreTiming(oc) PROVE ClockOK'
  <2>1. downcount' = CyclesToDowncount(oc, MAX_SLICE_LENGTH) /\ slice_length' = MAX_SLICE_LENGTH
        /\ s_last_OC_factor' = oc /\ phase' = "entry" /\ state' = state
    BY <1>17 DEF InitCoreTiming, saves
  <2>2. Inverted(oc, downcount') <= MAX_SLICE_LENGTH BY <1>i, <2>1, RoundTrip
  <2>3. Inverted(oc, downcount') \in Int BY <1>i, <2>1, CyclesInt
  <2>4. ExecutedOK' BY <1>i, <2>1, <2>2, <2>3 DEF ExecutedOK, CyclesExecuted, DowncountToCycles
  <2>. QED BY <1>i, <2>1, <2>4 DEF ClockOK, SliceOK, DowncountOK, SavedClockOK, InSlice
<1>18. CASE UNCHANGED vars BY <1>18, ClockKept DEF vars, place, saves
<1>. QED BY <1>1, <1>2, <1>3, <1>4, <1>5, <1>6, <1>7, <1>8, <1>9, <1>10, <1>11, <1>12, <1>13, <1>14, <1>15,
            <1>16, <1>17, <1>18 DEF Next

(* The slice stays within its limits and the cycles executed are never negative: what        *)
(* Advance adds to the global timer, and what GetTicks reports.                             *)
THEOREM ClockInvariance ==
  ASSUME "CallbackForce" \notin Ops \/ OneFactor
  PROVE  Spec => []ClockOK
<1>1. Init => ClockOK
  <2>. SUFFICES ASSUME Init PROVE ClockOK OBVIOUS
  <2>1. MAX_SLICE_LENGTH \in Nat /\ s_last_OC_factor \in OCFactors BY BoundsAssumption DEF Init
  <2>2. Inverted(s_last_OC_factor, downcount) <= MAX_SLICE_LENGTH BY <2>1, RoundTrip DEF Init
  <2>3. Inverted(s_last_OC_factor, downcount) \in Int BY <2>1, CyclesInt DEF Init
  <2>4. ExecutedOK BY <2>1, <2>2, <2>3 DEF Init, ExecutedOK, CyclesExecuted, DowncountToCycles
  <2>. QED BY <2>1, <2>4 DEF Init, ClockOK, SliceOK, DowncountOK, SavedClockOK, InSlice
<1>2. IndInv /\ ClockOK /\ [Next]_vars => ClockOK' BY ClockStep
<1>. QED BY <1>1, <1>2, Invariance, PTL DEF Spec

(* Every step but a load, a single step or a restart lets GetTicks stay or grow. *)
LEMMA TicksStep ==
  ASSUME IndInv, ClockOK, Next
  PROVE  GetTicks' >= GetTicks \/ LoadState \/ SingleStepEnd \/ \E oc \in OCFactors : InitCoreTiming(oc)
<1>t. TypeOK /\ SaneOK BY DEF IndInv
<1>i. /\ slice_length \in Int /\ downcount \in Int /\ global_timer \in Int /\ CyclesExecuted \in Int
      /\ GetTicks \in Int /\ s_last_OC_factor \in OCFactors
  BY <1>t, Integers DEF TypeOK
<1>k. ASSUME UNCHANGED clock PROVE GetTicks' >= GetTicks
  <2>1. GetTicks' = GetTicks BY <1>k DEF clock, GetTicks, DowncountToCycles
  <2>. QED BY <2>1, <1>i
<1>c. ASSUME NEW c \in Int, Cut(c), UNCHANGED <<global_timer, s_is_global_timer_sane, s_last_OC_factor>>
      PROVE  GetTicks' >= GetTicks
  <2>1. slice_length' - Inverted(s_last_OC_factor, downcount') >= slice_length - Inverted(s_last_OC_factor, downcount)
    BY <1>t, <1>c, CutClock DEF CyclesExecuted, DowncountToCycles
  <2>2. slice_length' \in Int /\ downcount' \in Int BY <1>t, <1>c, CutType
  <2>3. Inverted(s_last_OC_factor, downcount') \in Int /\ Inverted(s_last_OC_factor, downcount) \in Int
    BY <1>i, <2>2, CyclesInt
  <2>. QED BY <1>i, <1>c, <2>1, <2>2, <2>3 DEF GetTicks, DowncountToCycles
<1>1. ASSUME NEW t \in Types, NEW d \in Delays, ScheduleEvent(t, d) PROVE GetTicks' >= GetTicks
  <2>1. CASE s_is_global_timer_sane BY <1>1, <2>1, <1>k DEF ScheduleEvent, clock
  <2>2. CASE ~s_is_global_timer_sane BY <1>1, <2>2, <1>c, DelaysAssumption DEF ScheduleEvent
  <2>. QED BY <2>1, <2>2
<1>2. ASSUME NEW d \in Delays, ForceExceptionCheck(d) PROVE GetTicks' >= GetTicks
  BY <1>2, <1>c, DelaysAssumption DEF ForceExceptionCheck
<1>3. ASSUME NEW dispatcher \in {"Run", "SingleStep"}, NEW oc \in OCFactors, AdvanceBegin(dispatcher, oc)
      PROVE GetTicks' >= GetTicks
  <2>1. CyclesExecuted >= 0 BY <1>3 DEF AdvanceBegin, InSlice, ClockOK, ExecutedOK
  <2>2. GetTicks' = global_timer + CyclesExecuted BY <1>3 DEF AdvanceBegin, GetTicks
  <2>3. GetTicks = global_timer \/ GetTicks = global_timer + CyclesExecuted
    BY <1>i, CyclesInt DEF GetTicks, CyclesExecuted, DowncountToCycles
  <2>. QED BY <1>i, <2>1, <2>2, <2>3
<1>4. CASE AdvanceEnd
  <2>1. global_timer' = global_timer /\ s_is_global_timer_sane /\ ~s_is_global_timer_sane'
        /\ downcount' = CyclesToDowncount(s_last_OC_factor, slice_length') /\ s_last_OC_factor' = s_last_OC_factor
    BY <1>4, <1>t DEF AdvanceEnd, SaneOK
  <2>2. slice_length' \in Nat
    <3>1. CASE slice_length' = slice_length BY <3>1, <1>i DEF ClockOK, SliceOK
    <3>2. ASSUME NEW front \in Fronts, front.time > global_timer,
                 slice_length' = MinOf(front.time - global_timer, MAX_SLICE_LENGTH)
          PROVE  slice_length' \in Nat
      BY <3>2, <1>t, <1>i, BoundsAssumption DEF Fronts, MinOf, TypeOK, Events
    <3>. QED BY <1>4, <3>1, <3>2 DEF AdvanceEnd, NextSlice
  <2>3. Inverted(s_last_OC_factor, downcount') <= slice_length' BY <1>i, <2>1, <2>2, RoundTrip
  <2>4. Inverted(s_last_OC_factor, downcount') \in Int BY <1>i, <2>1, <2>2, CyclesInt
  <2>. QED BY <1>i, <2>1, <2>2, <2>3, <2>4 DEF GetTicks, DowncountToCycles
<1>5. ASSUME NEW n \in 1 .. MaxBlock, ExecuteBlock(n) \/ IdleBlock(n) PROVE GetTicks' >= GetTicks
  <2>1. downcount >= 0 /\ n \in Int /\ n >= 1
    BY <1>5, <1>i, BoundsAssumption DEF ExecuteBlock, IdleBlock, MayExecute, ClockOK, DowncountOK
  <2>2. downcount' \in Int /\ downcount' <= downcount BY <1>5, <2>1, <1>i DEF ExecuteBlock, IdleBlock
  <2>3. slice_length' = slice_length /\ s_last_OC_factor' = s_last_OC_factor /\ global_timer' = global_timer
        /\ s_is_global_timer_sane' = s_is_global_timer_sane
    BY <1>5 DEF ExecuteBlock, IdleBlock
  <2>4. Inverted(s_last_OC_factor, downcount') <= Inverted(s_last_OC_factor, downcount)
    BY <1>i, <2>2, InvertedMono
  <2>5. Inverted(s_last_OC_factor, downcount') \in Int /\ Inverted(s_last_OC_factor, downcount) \in Int
    BY <1>i, <2>2, CyclesInt
  <2>. QED BY <1>i, <2>3, <2>4, <2>5 DEF GetTicks, DowncountToCycles
<1>6. ASSUME \/ \E t \in Types, d \in Delays : OffThreadSample(t, d)
             \/ OffThreadPush \/ RunCallback \/ CallbackReturn \/ ChangePPCClock \/ SaveMeasure \/ SaveWrite
             \/ Shutdown \/ \E t \in Types : RemoveEvent(t) \/ RemoveAllEvents(t)
      PROVE GetTicks' >= GetTicks
  BY <1>6, <1>k DEF OffThreadSample, OffThreadPush, RunCallback, CallbackReturn, ChangePPCClock, SaveMeasure,
     SaveWrite, Shutdown, RemoveEvent, RemoveAllEvents
<1>. QED BY <1>1, <1>2, <1>3, <1>4, <1>5, <1>6 DEF Next

(* GetTicks never goes back, save by loading a state, restarting or a single step, at any    *)
(* clock factor and whatever the casts round away.                                          *)
THEOREM TicksGrow ==
  ASSUME "CallbackForce" \notin Ops \/ OneFactor
  PROVE  Spec => TicksMonotone
<1>1. IndInv /\ ClockOK /\ [Next]_vars =>
        [GetTicks' >= GetTicks \/ LoadState \/ SingleStepEnd \/ \E oc \in OCFactors : InitCoreTiming(oc)]_vars
  BY TicksStep
<1>. QED BY <1>1, Invariance, ClockInvariance, PTL DEF Spec, TicksMonotone

-----------------------------------------------------------------------------
(* Lateness.  SliceEndsByNextEvent allows an event to lie one cycle behind *)
(* the timer, and so does not bound lateness by itself.                    *)

\* Within a slice no event of the CPU thread is overdue, and the slice ends by the first
\* of them, or is a single step that is over.
AheadOK ==
  InSlice => \A e \in s_event_queue : e.cpu =>
    /\ global_timer <= e.due
    /\ \/ global_timer + slice_length <= e.due
       \/ slice_length = 1 /\ downcount = 0 /\ phase = "slice"

(* Nothing is left to cut of a slice whose downcount is used up. *)
LEMMA CutNothing ==
  ASSUME TypeOK, NEW c \in Int, Cut(c), downcount <= 0
  PROVE  slice_length' = slice_length /\ downcount' = downcount
<1>1. downcount \in Int /\ s_last_OC_factor \in OCFactors BY DEF TypeOK
<1>2. DowncountToCycles(downcount) \in Int /\ DowncountToCycles(downcount) <= 0
  BY <1>1, CyclesInt, InvertedMono, InvertedZero DEF DowncountToCycles
<1>3. MaxOf(0, c) \in Int /\ MaxOf(0, c) >= 0 BY DEF MaxOf
<1>4. ~(DowncountToCycles(downcount) > MaxOf(0, c)) BY <1>2, <1>3
<1>. QED BY <1>4 DEF Cut

(* What a cut leaves of the events' margins. *)
LEMMA AheadCut ==
  ASSUME IndInv, AheadOK, InSlice, NEW c \in Int, Cut(c), global_timer' = global_timer, phase' = phase,
         NEW e \in s_event_queue, e.cpu
  PROVE  /\ global_timer' <= e.due
         /\ \/ global_timer' + slice_length' <= e.due
            \/ slice_length' = 1 /\ downcount' = 0 /\ phase' = "slice"
<1>t. TypeOK BY DEF IndInv
<1>1. slice_length \in Int /\ slice_length' \in Int /\ global_timer \in Int /\ e.due \in Int
  BY <1>t, CutType DEF TypeOK, Events
<1>2. slice_length' <= slice_length BY <1>t, CutClock
<1>3. global_timer <= e.due BY DEF AheadOK
<1>4. CASE global_timer + slice_length <= e.due BY <1>1, <1>2, <1>3, <1>4
<1>5. CASE slice_length = 1 /\ downcount = 0 /\ phase = "slice"
  <2>1. slice_length' = slice_length /\ downcount' = downcount BY <1>t, <1>5, CutNothing
  <2>. QED BY <1>3, <1>5, <2>1
<1>. QED BY <1>4, <1>5 DEF AheadOK

(* Every step keeps the events ahead of the slice. *)
LEMMA AheadStep ==
  ASSUME IndInv, ClockOK, AheadOK, [Next]_vars
  PROVE  AheadOK'
<1>t. TypeOK /\ SaneOK /\ DueOK BY DEF IndInv
<1>m. MovedSafe BY <1>t, MovedType DEF MovedSafe
<1>1. ASSUME NEW t \in Types, NEW d \in Delays, ScheduleEvent(t, d) PROVE AheadOK'
  <2>. DEFINE new == Event(GetTicks + d, s_event_fifo_id, t, added, TRUE, MaxOf(GetTicks + d, GetTicks))
  <2>. SUFFICES ASSUME InSlice', NEW e \in s_event_queue', e.cpu
                PROVE  /\ global_timer' <= e.due
                       /\ \/ global_timer' + slice_length' <= e.due
                          \/ slice_length' = 1 /\ downcount' = 0 /\ phase' = "slice"
    BY DEF AheadOK
  <2>1. s_event_queue' = s_event_queue \cup {new} BY <1>1 DEF ScheduleEvent, Schedule
  <2>2. new.due = MaxOf(GetTicks + d, GetTicks) BY DEF Event
  <2>. HIDE DEF new
  <2>3. InSlice /\ global_timer' = global_timer /\ phase' = phase BY <1>1 DEF ScheduleEvent, InSlice, place
  <2>4. ~s_is_global_timer_sane BY <2>3, <1>t DEF SaneOK
  <2>5. Cut(d) /\ d \in Int BY <1>1, <2>4, DelaysAssumption DEF ScheduleEvent
  <2>6. CASE e \in s_event_queue BY <2>3, <2>5, <2>6, AheadCut
  <2>7. CASE e = new
    <3>1. global_timer + slice_length' <= e.due BY <1>t, <2>2, <2>4, <2>5, <2>7, CutShortens
    <3>2. GetTicks \in Int /\ CyclesExecuted \in Int /\ global_timer \in Int BY <1>t, Integers DEF TypeOK
    <3>3. GetTicks = global_timer + CyclesExecuted
      <4>1. DowncountToCycles(downcount) \in Int /\ slice_length \in Int BY <1>t, Integers DEF TypeOK
      <4>. QED BY <4>1, <3>2, <2>4 DEF GetTicks, CyclesExecuted
    <3>4. CyclesExecuted >= 0 BY <2>3 DEF ClockOK, ExecutedOK, InSlice
    <3>5. MaxOf(GetTicks + d, GetTicks) >= GetTicks BY <3>2, <2>5 DEF MaxOf
    <3>6. MaxOf(GetTicks + d, GetTicks) \in Int BY <3>2, <2>5 DEF MaxOf
    <3>. QED BY <2>2, <2>3, <2>7, <3>1, <3>2, <3>3, <3>4, <3>5, <3>6
  <2>. QED BY <2>1, <2>6, <2>7
<1>2. ASSUME NEW t \in Types, NEW d \in Delays, OffThreadSample(t, d) PROVE AheadOK'
  BY <1>2 DEF OffThreadSample, AheadOK, InSlice, clock, queue, place
<1>3. CASE OffThreadPush BY <1>3 DEF OffThreadPush, AheadOK, InSlice, clock, queue, place
<1>4. ASSUME NEW t \in Types, RemoveEvent(t) PROVE AheadOK'
  BY <1>4 DEF RemoveEvent, Remove, AheadOK, InSlice, clock, place
<1>5. ASSUME NEW t \in Types, RemoveAllEvents(t) PROVE AheadOK'
  <2>1. s_event_queue' \subseteq s_event_queue \cup Moved(s_event_fifo_id)
    BY <1>5 DEF RemoveAllEvents, Remove
  <2>. QED BY <1>5, <1>m, <2>1 DEF MovedSafe, RemoveAllEvents, AheadOK, InSlice, clock, place
<1>6. ASSUME NEW d \in Delays, ForceExceptionCheck(d) PROVE AheadOK'
  <2>. SUFFICES ASSUME InSlice', NEW e \in s_event_queue', e.cpu
                PROVE  /\ global_timer' <= e.due
                       /\ \/ global_timer' + slice_length' <= e.due
                          \/ slice_length' = 1 /\ downcount' = 0 /\ phase' = "slice"
    BY DEF AheadOK
  <2>1. InSlice /\ global_timer' = global_timer /\ phase' = phase /\ e \in s_event_queue /\ Cut(d) /\ d \in Int
    BY <1>6, DelaysAssumption DEF ForceExceptionCheck, InSlice, place, queue
  <2>. QED BY <2>1, AheadCut
<1>7. CASE AdvanceEnd
  <2>. SUFFICES ASSUME NEW e \in s_event_queue
                PROVE  global_timer <= e.due /\ global_timer + slice_length' <= e.due
    BY <1>7 DEF AdvanceEnd, AheadOK, queue
  <2>1. PICK front \in Fronts : /\ front.time > global_timer
                                /\ slice_length' = MinOf(front.time - global_timer, MAX_SLICE_LENGTH)
    BY <1>7 DEF AdvanceEnd, NextSlice
  <2>2. front \in Events /\ e \in Events /\ e.due >= e.time BY <1>t DEF TypeOK, DueOK, Fronts
  <2>3. front.time <= e.time BY <2>2 DEF Fronts, Before, Events
  <2>. QED BY <1>t, <2>1, <2>2, <2>3, BoundsAssumption DEF MinOf, Events, TypeOK
<1>8. ASSUME NEW n \in 1 .. MaxBlock, ExecuteBlock(n) \/ IdleBlock(n) PROVE AheadOK'
  BY <1>8 DEF ExecuteBlock, IdleBlock, MayExecute, AheadOK, InSlice, queue
<1>9. CASE SingleStepEnd
  BY <1>9 DEF SingleStepEnd, AheadOK, InSlice, queue
<1>10. ASSUME phase' \notin {"first", "slice"} PROVE AheadOK'
  BY <1>10 DEF AheadOK, InSlice
<1>11. CASE UNCHANGED vars BY <1>11 DEF vars, clock, queue, place, AheadOK, InSlice
<1>12. ASSUME \/ \E dispatcher \in {"Run", "SingleStep"}, oc \in OCFactors : AdvanceBegin(dispatcher, oc)
              \/ RunCallback \/ CallbackReturn \/ ChangePPCClock \/ SaveMeasure \/ SaveWrite \/ LoadState
              \/ Shutdown \/ \E oc \in OCFactors : InitCoreTiming(oc)
       PROVE  phase' \notin {"first", "slice"}
  BY <1>12 DEF AdvanceBegin, RunCallback, CallbackReturn, ChangePPCClock, SaveMeasure, SaveWrite, LoadState,
     Shutdown, InitCoreTiming
<1>. QED BY <1>1, <1>2, <1>3, <1>4, <1>5, <1>6, <1>7, <1>8, <1>9, <1>10, <1>11, <1>12 DEF Next

(* Within a slice no event of the CPU thread is overdue, and the slice does not pass it.     *)
THEOREM AheadInvariance ==
  ASSUME "CallbackForce" \notin Ops \/ OneFactor
  PROVE  Spec => []AheadOK
<1>1. Init => AheadOK BY DEF Init, AheadOK, InSlice
<1>2. IndInv /\ ClockOK /\ AheadOK /\ [Next]_vars => AheadOK' BY AheadStep
<1>. QED BY <1>1, <1>2, Invariance, ClockInvariance, PTL DEF Spec

(* A block overshoots the end of its slice by its own cycles at most. *)
LEMMA Overshoot ==
  ASSUME TypeOK, downcount >= -MaxBlock
  PROVE  -Inverted(s_last_OC_factor, downcount) <= LateBound /\ LateBound \in Int /\ LateBound >= 1
<1>1. downcount \in Int /\ s_last_OC_factor \in OCFactors /\ MaxBlock \in Nat /\ -MaxBlock \in Int
  BY BoundsAssumption DEF TypeOK
<1>2. Inverted(s_last_OC_factor, -MaxBlock) <= Inverted(s_last_OC_factor, downcount) BY <1>1, InvertedMono
<1>3. Inverted(s_last_OC_factor, -MaxBlock) = -Inverted(s_last_OC_factor, MaxBlock) BY <1>1, InvertedMinus
<1>4. Inverted(s_last_OC_factor, MaxBlock) \in Int /\ Inverted(s_last_OC_factor, downcount) \in Int
  BY <1>1, CyclesInt
<1>. QED BY <1>2, <1>3, <1>4 DEF LateBound, MaxOf

(* It is AdvanceBegin that ends a slice. *)
LEMMA BeginOnly ==
  ASSUME Next, phase \in {"entry", "first", "slice"}, phase' = "events"
  PROVE  /\ global_timer' = global_timer + CyclesExecuted
         /\ \E dispatcher \in {"Run", "SingleStep"}, oc \in OCFactors : AdvanceBegin(dispatcher, oc)
<1>1. \E dispatcher \in {"Run", "SingleStep"}, oc \in OCFactors : AdvanceBegin(dispatcher, oc)
  BY DEF Next, ScheduleEvent, OffThreadSample, OffThreadPush, RemoveEvent, RemoveAllEvents, ForceExceptionCheck,
         RunCallback, CallbackReturn, AdvanceEnd, ExecuteBlock, IdleBlock, SingleStepEnd, ChangePPCClock,
         SaveMeasure, SaveWrite, LoadState, Shutdown, InitCoreTiming, place
<1>. QED BY <1>1 DEF AdvanceBegin

\* LateByABlock for the slices: not for the entry to the dispatcher.
LateAtSliceEnd ==
  [][InSlice /\ phase' = "events" =>
       \A e \in s_event_queue : e.cpu => global_timer' <= e.due + LateBound]_vars

(* A slice ends no more than a block after any event of the CPU thread. *)
LEMMA SliceEnd ==
  ASSUME IndInv, ClockOK, AheadOK, Next, InSlice, phase' = "events", NEW e \in s_event_queue, e.cpu
  PROVE  global_timer' <= e.due + LateBound
<1>t. TypeOK BY DEF IndInv
<1>1. global_timer' = global_timer + CyclesExecuted BY BeginOnly DEF InSlice
<1>2. downcount >= -MaxBlock BY DEF ClockOK, DowncountOK
<1>3. -Inverted(s_last_OC_factor, downcount) <= LateBound /\ LateBound \in Int /\ LateBound >= 1
  BY <1>t, <1>2, Overshoot
<1>4. /\ global_timer \in Int /\ slice_length \in Int /\ e.due \in Int /\ s_last_OC_factor \in OCFactors
      /\ Inverted(s_last_OC_factor, downcount) \in Int
  BY <1>t, CyclesInt DEF TypeOK, Events
<1>5. CyclesExecuted = slice_length - Inverted(s_last_OC_factor, downcount)
  BY DEF CyclesExecuted, DowncountToCycles
<1>6. global_timer <= e.due BY DEF AheadOK
<1>7. CASE global_timer + slice_length <= e.due BY <1>1, <1>3, <1>4, <1>5, <1>7
<1>8. CASE slice_length = 1 /\ downcount = 0
  <2>1. Inverted(s_last_OC_factor, downcount) = 0 BY <1>4, <1>8, InvertedZero
  <2>. QED BY <1>1, <1>3, <1>4, <1>5, <1>6, <1>8, <2>1
<1>. QED BY <1>7, <1>8 DEF AheadOK

(* At the end of every slice no event of the CPU thread is late by more than a block, at     *)
(* any clock factors, with saves, loads, restarts and changes of the PPC clock.             *)
THEOREM SliceEndIsOnTime ==
  ASSUME "CallbackForce" \notin Ops \/ OneFactor
  PROVE  Spec => LateAtSliceEnd
<1>1. IndInv /\ ClockOK /\ AheadOK /\ [Next]_vars =>
        [InSlice /\ phase' = "events" =>
           \A e \in s_event_queue : e.cpu => global_timer' <= e.due + LateBound]_vars
  BY SliceEnd
<1>. QED BY <1>1, Invariance, ClockInvariance, AheadInvariance, PTL DEF Spec, LateAtSliceEnd

-----------------------------------------------------------------------------
(* Where the dispatcher is entered: at the start, and after a save or a    *)
(* load.  Before the first Advance the timer is sane although a slice is   *)
(* declared: events are scheduled at the timer's time, and what the casts  *)
(* round away is then added to it.  One check forced after another loses a *)
(* little each time, without a bound that the length of a block gives.     *)

\* The cycles that the scheduler is asked for become downcount and back without loss.
Exact ==
  \A oc \in OCFactors, c \in Delays \cup {MAX_SLICE_LENGTH} :
    c >= 0 => Inverted(oc, CyclesToDowncount(oc, c)) = c

\* The event is not overdue by a clock, and the slice that the clock describes ends by it
\* (to within the block that overran it), or was executed up to one cycle past it at most.
OnTime(e, timer, length, dc, oc) ==
  /\ timer <= e.due
  /\ \/ timer + length <= e.due /\ dc >= -MaxBlock
     \/ timer + length - Inverted(oc, dc) <= e.due + 1

\* The CPU thread is outside its dispatcher.
Outside == phase \in {"entry", "saving"}

\* No event of the CPU thread is late outside the dispatcher, nor in a saved state.
QueueOnTime ==
  Outside => \A e \in s_event_queue :
    e.cpu => OnTime(e, global_timer, slice_length, downcount, s_last_OC_factor)

SavedOnTime ==
  state # NoState =>
    /\ "SaveState" \in Ops
    /\ \A e \in state.events :
         e.cpu => OnTime(e, state.global_timer, state.slice_length, state.downcount, state.oc)

\* Before the first Advance nothing was executed, nor in a state saved then.
NothingExecuted ==
  Outside /\ s_is_global_timer_sane =>
    /\ CyclesExecuted = 0
    /\ state # NoState => state.slice_length - Inverted(state.oc, state.downcount) = 0

PlaceOK ==
  /\ phase = "saving" => "SaveState" \in Ops
  /\ phase = "off" => "Restart" \in Ops /\ s_event_queue = {}

EntryOK == QueueOnTime /\ SavedOnTime /\ NothingExecuted /\ PlaceOK

(* The clock as it is, or raised by whole factors, is exact on every delay. *)
LEMMA WholeFactorsExact == ASSUME \A oc \in OCFactors : oc[2] = 1 PROVE Exact
<1>. SUFFICES ASSUME NEW oc \in OCFactors, NEW c \in Delays \cup {MAX_SLICE_LENGTH}, c >= 0
              PROVE  Inverted(oc, CyclesToDowncount(oc, c)) = c
  BY DEF Exact
<1>1. c \in Nat BY DelaysAssumption, BoundsAssumption
<1>. QED BY <1>1, WholeFactor

(* Without rounding a cut changes nothing but the end of the slice. *)
LEMMA CutExact ==
  ASSUME Exact, TypeOK, NEW c \in Delays, Cut(c)
  PROVE  slice_length' - Inverted(s_last_OC_factor, downcount') = CyclesExecuted
<1>. DEFINE left == DowncountToCycles(downcount)
            m    == MaxOf(0, c)
<1>1. left \in Int /\ slice_length \in Int /\ downcount \in Int /\ s_last_OC_factor \in OCFactors /\ c \in Int
  BY Integers, DelaysAssumption DEF TypeOK
<1>2. m \in Nat BY <1>1 DEF MaxOf
<1>3. CyclesExecuted = slice_length - left /\ left = Inverted(s_last_OC_factor, downcount)
  BY DEF CyclesExecuted, DowncountToCycles
<1>4. Inverted(s_last_OC_factor, CyclesToDowncount(s_last_OC_factor, m)) = m
  <2>1. CASE c >= 0
    <3>1. m = c BY <2>1, <1>1 DEF MaxOf
    <3>. QED BY <3>1, <2>1, <1>1 DEF Exact
  <2>2. CASE c < 0
    <3>1. m = 0 BY <2>2, <1>1 DEF MaxOf
    <3>2. s_last_OC_factor[1] \in Nat \ {0} /\ s_last_OC_factor[2] \in Nat \ {0} BY <1>1, FactorInt
    <3>3. 0 * s_last_OC_factor[1] = 0 BY <3>2
    <3>4. CyclesToDowncount(s_last_OC_factor, 0) = 0 BY <3>2, <3>3, TruncateZero DEF CyclesToDowncount
    <3>. QED BY <3>1, <3>4, <1>1, InvertedZero
  <2>. QED BY <2>1, <2>2, <1>1
<1>5. CASE left > m
  <2>1. slice_length' = slice_length - (left - m) /\ downcount' = CyclesToDowncount(s_last_OC_factor, m)
    BY <1>5 DEF Cut
  <2>2. Inverted(s_last_OC_factor, downcount') = m BY <2>1, <1>4
  <2>. HIDE DEF left, m
  <2>. QED BY <2>1, <2>2, <1>1, <1>2, <1>3
<1>6. CASE ~(left > m)
  <2>1. slice_length' = slice_length /\ downcount' = downcount BY <1>6 DEF Cut
  <2>. HIDE DEF left, m
  <2>. QED BY <2>1, <1>3
<1>. QED BY <1>5, <1>6

(* Nor does it make an event late. *)
LEMMA OnTimeCut ==
  ASSUME Exact, TypeOK, NEW c \in Delays, Cut(c), NEW e \in s_event_queue,
         OnTime(e, global_timer, slice_length, downcount, s_last_OC_factor)
  PROVE  OnTime(e, global_timer, slice_length', downcount', s_last_OC_factor)
<1>1. c \in Int BY DelaysAssumption
<1>2. slice_length' \in Int /\ downcount' \in Int BY <1>1, CutType
<1>3. /\ global_timer \in Int /\ slice_length \in Int /\ e.due \in Int /\ downcount \in Int /\ MaxBlock \in Nat
      /\ s_last_OC_factor \in OCFactors
  BY BoundsAssumption DEF TypeOK, Events
<1>4. Inverted(s_last_OC_factor, downcount') \in Int /\ Inverted(s_last_OC_factor, downcount) \in Int
  BY <1>2, <1>3, CyclesInt
<1>5. slice_length' - Inverted(s_last_OC_factor, downcount') = slice_length - Inverted(s_last_OC_factor, downcount)
  BY CutExact DEF CyclesExecuted, DowncountToCycles
<1>6. slice_length' <= slice_length /\ (downcount' = downcount \/ downcount' >= 0) BY <1>1, CutClock
<1>. QED BY <1>2, <1>3, <1>4, <1>5, <1>6 DEF OnTime

(* ForceExceptionCheck outside the dispatcher. *)
LEMMA EntryCut ==
  ASSUME Exact, IndInv, EntryOK, NEW c \in Delays, Cut(c), s_event_queue' = s_event_queue, state' = state,
         phase' = phase, UNCHANGED <<global_timer, s_is_global_timer_sane, s_last_OC_factor>>
  PROVE  EntryOK'
<1>t. TypeOK BY DEF IndInv
<1>1. QueueOnTime' BY <1>t, OnTimeCut DEF EntryOK, QueueOnTime, Outside
<1>2. NothingExecuted'
  <2>1. slice_length' - Inverted(s_last_OC_factor, downcount') = CyclesExecuted BY <1>t, CutExact
  <2>2. CyclesExecuted' = CyclesExecuted BY <2>1 DEF CyclesExecuted, DowncountToCycles
  <2>. QED BY <2>2 DEF EntryOK, NothingExecuted, Outside
<1>. QED BY <1>1, <1>2 DEF EntryOK, SavedOnTime, PlaceOK

(* Steps that leave the clock alone, and add no event of the CPU thread. *)
LEMMA EntryKept ==
  ASSUME EntryOK, UNCHANGED clock, state' = state,
         \A e \in s_event_queue' : e.cpu => e \in s_event_queue,
         \/ phase' = phase /\ phase # "off"
         \/ Outside /\ Outside' /\ "SaveState" \in Ops
  PROVE  EntryOK'
BY DEF EntryOK, QueueOnTime, SavedOnTime, NothingExecuted, PlaceOK, Outside, CyclesExecuted, DowncountToCycles, clock

(* Every step keeps the events on time outside the dispatcher, where no restart can bring   *)
(* the state before the first Advance back while a state is there to be loaded.             *)
LEMMA EntryStep ==
  ASSUME Exact, ~({"SaveState", "Restart"} \subseteq Ops),
         IndInv, ClockOK, AheadOK, EntryOK, [Next]_vars
  PROVE  EntryOK'
<1>t. TypeOK /\ SaneOK BY DEF IndInv
<1>m. MovedSafe BY <1>t, MovedType DEF MovedSafe
<1>i. /\ slice_length \in Int /\ downcount \in Int /\ global_timer \in Int /\ CyclesExecuted \in Int
      /\ GetTicks \in Int /\ s_last_OC_factor \in OCFactors /\ Inverted(s_last_OC_factor, downcount) \in Int
      /\ CyclesExecuted = slice_length - Inverted(s_last_OC_factor, downcount)
  BY <1>t, Integers, CyclesInt DEF TypeOK, CyclesExecuted, DowncountToCycles
<1>a. ASSUME phase' \in {"events", "callback", "first", "slice"}, state' = state PROVE EntryOK'
  BY <1>a DEF EntryOK, QueueOnTime, SavedOnTime, NothingExecuted, PlaceOK, Outside
<1>1. ASSUME NEW t \in Types, NEW d \in Delays, ScheduleEvent(t, d) PROVE EntryOK'
  <2>. DEFINE new == Event(GetTicks + d, s_event_fifo_id, t, added, TRUE, MaxOf(GetTicks + d, GetTicks))
  <2>1. s_event_queue' = s_event_queue \cup {new} BY <1>1 DEF ScheduleEvent, Schedule
  <2>2. new.due = MaxOf(GetTicks + d, GetTicks) BY DEF Event
  <2>. HIDE DEF new
  <2>3. phase' = phase /\ state' = state /\ phase \in {"entry", "first", "slice", "callback"}
        /\ UNCHANGED <<global_timer, s_is_global_timer_sane, s_last_OC_factor>>
    BY <1>1 DEF ScheduleEvent, place, saves, OnCPU
  <2>4. CASE phase # "entry" BY <2>3, <2>4, <1>a
  <2>5. CASE phase = "entry"
    <3>1. d \in Int BY DelaysAssumption
    <3>2. MaxOf(GetTicks + d, GetTicks) \in Int /\ MaxOf(GetTicks + d, GetTicks) >= GetTicks
      BY <1>i, <3>1 DEF MaxOf
    <3>3. CyclesExecuted >= 0 BY <2>5 DEF ClockOK, ExecutedOK
    <3>4. /\ slice_length' \in Int /\ downcount' \in Int
          /\ slice_length' - Inverted(s_last_OC_factor, downcount') = CyclesExecuted
          /\ \A e \in s_event_queue : e.cpu => OnTime(e, global_timer, slice_length', downcount', s_last_OC_factor)
      <4>1. \A e \in s_event_queue : e.cpu => OnTime(e, global_timer, slice_length, downcount, s_last_OC_factor)
        BY <2>5 DEF EntryOK, QueueOnTime, Outside
      <4>2. CASE s_is_global_timer_sane
        <5>1. slice_length' = slice_length /\ downcount' = downcount BY <1>1, <4>2 DEF ScheduleEvent
        <5>. QED BY <5>1, <4>1, <1>i
      <4>3. CASE ~s_is_global_timer_sane
        <5>1. Cut(d) BY <1>1, <4>3 DEF ScheduleEvent
        <5>2. slice_length' \in Int /\ downcount' \in Int BY <1>t, <3>1, <5>1, CutType
        <5>3. slice_length' - Inverted(s_last_OC_factor, downcount') = CyclesExecuted BY <1>t, <5>1, CutExact
        <5>. QED BY <5>1, <5>2, <5>3, <4>1, <1>t, OnTimeCut
      <4>. QED BY <4>2, <4>3
    <3>5. global_timer + CyclesExecuted <= GetTicks
      <4>1. CASE s_is_global_timer_sane
        <5>1. CyclesExecuted = 0 BY <2>5, <4>1 DEF EntryOK, NothingExecuted, Outside
        <5>. QED BY <5>1, <4>1, <1>i DEF GetTicks
      <4>2. CASE ~s_is_global_timer_sane
        BY <4>2, <1>i DEF GetTicks, DowncountToCycles
      <4>. QED BY <4>1, <4>2
    <3>6. OnTime(new, global_timer, slice_length', downcount', s_last_OC_factor)
      <4>1. Inverted(s_last_OC_factor, downcount') \in Int BY <1>i, <3>4, CyclesInt
      <4>2. global_timer + slice_length' - Inverted(s_last_OC_factor, downcount') <= new.due + 1
        BY <1>i, <2>2, <3>2, <3>4, <3>5, <4>1
      <4>3. global_timer <= new.due BY <1>i, <2>2, <3>2, <3>3, <3>5
      <4>. QED BY <4>2, <4>3 DEF OnTime
    <3>7. QueueOnTime' BY <2>1, <2>3, <3>4, <3>6 DEF QueueOnTime
    <3>8. NothingExecuted'
      <4>1. CyclesExecuted' = CyclesExecuted BY <2>3, <3>4 DEF CyclesExecuted, DowncountToCycles
      <4>. QED BY <4>1, <2>3 DEF EntryOK, NothingExecuted, Outside
    <3>. QED BY <2>3, <2>5, <3>7, <3>8 DEF EntryOK, SavedOnTime, PlaceOK
  <2>. QED BY <2>4, <2>5
<1>2. ASSUME NEW t \in Types, NEW d \in Delays, OffThreadSample(t, d) PROVE EntryOK'
  BY <1>2, EntryKept DEF OffThreadSample, queue, place, saves
<1>3. CASE OffThreadPush
  BY <1>3 DEF OffThreadPush, EntryOK, QueueOnTime, SavedOnTime, NothingExecuted, PlaceOK, Outside, CyclesExecuted,
     DowncountToCycles, clock, queue, place, saves
<1>4. ASSUME NEW t \in Types, RemoveEvent(t) PROVE EntryOK'
  BY <1>4, EntryKept DEF RemoveEvent, Remove, OnCPU, place, saves
<1>5. ASSUME NEW t \in Types, RemoveAllEvents(t) PROVE EntryOK'
  <2>1. \A e \in s_event_queue' : e.cpu => e \in s_event_queue
    BY <1>5, <1>m DEF MovedSafe, RemoveAllEvents, Remove
  <2>2. phase # "off" BY <1>5 DEF RemoveAllEvents, OnCPU
  <2>. QED BY <1>5, <2>1, <2>2, EntryKept DEF RemoveAllEvents, place, saves
<1>6. ASSUME NEW d \in Delays, ForceExceptionCheck(d) PROVE EntryOK'
  BY <1>6, EntryCut DEF ForceExceptionCheck, queue, place, saves
<1>7. ASSUME \/ \E dispatcher \in {"Run", "SingleStep"}, oc \in OCFactors : AdvanceBegin(dispatcher, oc)
             \/ RunCallback \/ CallbackReturn \/ AdvanceEnd \/ ChangePPCClock \/ SingleStepEnd
             \/ \E n \in 1 .. MaxBlock : ExecuteBlock(n) \/ IdleBlock(n)
      PROVE  EntryOK'
  <2>1. phase' \in {"events", "callback", "first", "slice"} /\ state' = state
    BY <1>7 DEF AdvanceBegin, RunCallback, CallbackReturn, AdvanceEnd, ChangePPCClock, SingleStepEnd, ExecuteBlock,
       IdleBlock, saves
  <2>. QED BY <2>1, <1>a
<1>8. CASE SaveMeasure
  <2>1. \A e \in s_event_queue' : e.cpu => e \in s_event_queue
    BY <1>8, <1>m DEF MovedSafe, SaveMeasure, MoveEvents
  <2>2. "SaveState" \in Ops /\ UNCHANGED clock /\ state' = state /\ phase' = "saving"
        /\ (phase = "entry" \/ InSlice)
    BY <1>8 DEF SaveMeasure, Stopped
  <2>3. CASE phase = "entry" BY <2>1, <2>2, <2>3, EntryKept DEF Outside
  <2>4. CASE InSlice
    <3>1. ASSUME NEW e \in s_event_queue, e.cpu
          PROVE  OnTime(e, global_timer, slice_length, downcount, s_last_OC_factor)
      <4>1. global_timer <= e.due /\ e.due \in Int BY <2>4, <3>1, <1>t DEF AheadOK, TypeOK, Events
      <4>2. CASE global_timer + slice_length <= e.due
        BY <2>4, <4>1, <4>2 DEF OnTime, ClockOK, DowncountOK
      <4>3. CASE slice_length = 1 /\ downcount = 0
        <5>1. Inverted(s_last_OC_factor, downcount) = 0 BY <1>i, <4>3, InvertedZero
        <5>2. global_timer + slice_length - Inverted(s_last_OC_factor, downcount) <= e.due + 1
          BY <1>i, <4>1, <4>3, <5>1
        <5>. QED BY <4>1, <5>2 DEF OnTime
      <4>. QED BY <2>4, <3>1, <4>2, <4>3 DEF AheadOK
    <3>2. ~s_is_global_timer_sane BY <2>4, <1>t DEF SaneOK
    <3>. QED BY <2>1, <2>2, <3>1, <3>2
         DEF EntryOK, QueueOnTime, SavedOnTime, NothingExecuted, PlaceOK, Outside, clock
  <2>. QED BY <2>2, <2>3, <2>4
<1>9. CASE SaveWrite
  <2>1. \A e \in s_event_queue' : e.cpu => e \in s_event_queue
    BY <1>9, <1>m DEF MovedSafe, SaveWrite, MoveEvents
  <2>2. "SaveState" \in Ops /\ UNCHANGED clock /\ phase = "saving" /\ phase' = "entry"
    BY <1>9 DEF SaveWrite, EntryOK, PlaceOK
  <2>3. /\ state'.slice_length = slice_length /\ state'.downcount = downcount /\ state'.oc = s_last_OC_factor
        /\ state'.global_timer = global_timer /\ state'.events = s_event_queue'
    BY <1>9 DEF SaveWrite
  <2>4. \A e \in s_event_queue' : e.cpu => OnTime(e, global_timer, slice_length, downcount, s_last_OC_factor)
    BY <2>1, <2>2 DEF EntryOK, QueueOnTime, Outside
  <2>5. QueueOnTime' /\ SavedOnTime' BY <2>2, <2>3, <2>4 DEF QueueOnTime, SavedOnTime, clock
  <2>6. NothingExecuted'
    <3>1. CyclesExecuted' = CyclesExecuted /\ s_is_global_timer_sane' = s_is_global_timer_sane
      BY <2>2 DEF clock, CyclesExecuted, DowncountToCycles
    <3>2. s_is_global_timer_sane => CyclesExecuted = 0 BY <2>2 DEF EntryOK, NothingExecuted, Outside
    <3>. QED BY <2>3, <3>1, <3>2, <1>i DEF NothingExecuted
  <2>. QED BY <2>2, <2>5, <2>6 DEF EntryOK, PlaceOK
<1>10. CASE LoadState
  <2>1. /\ slice_length' = state.slice_length /\ downcount' = state.downcount /\ s_last_OC_factor' = state.oc
        /\ global_timer' = state.global_timer /\ s_event_queue' = state.events /\ state # NoState /\ state' = state
        /\ s_is_global_timer_sane' = s_is_global_timer_sane /\ phase' = "entry"
        /\ (phase = "entry" \/ InSlice)
    BY <1>10 DEF LoadState, Stopped, saves
  <2>2. QueueOnTime' /\ SavedOnTime' BY <2>1 DEF EntryOK, QueueOnTime, SavedOnTime
  <2>3. NothingExecuted' BY <2>1, <1>t DEF EntryOK, NothingExecuted, Outside, SaneOK, CyclesExecuted, DowncountToCycles
  <2>. QED BY <2>1, <2>2, <2>3 DEF EntryOK, PlaceOK
<1>11. CASE Shutdown
  BY <1>11 DEF Shutdown, EntryOK, QueueOnTime, SavedOnTime, NothingExecuted, PlaceOK, Outside, saves
<1>12. ASSUME NEW oc \in OCFactors, InitCoreTiming(oc) PROVE EntryOK'
  <2>1. /\ downcount' = CyclesToDowncount(oc, MAX_SLICE_LENGTH) /\ slice_length' = MAX_SLICE_LENGTH
        /\ s_last_OC_factor' = oc /\ phase' = "entry" /\ state' = state /\ s_event_queue' = s_event_queue
        /\ phase = "off"
    BY <1>12 DEF InitCoreTiming, saves
  <2>2. s_event_queue = {} /\ state = NoState BY <2>1 DEF EntryOK, PlaceOK, SavedOnTime
  <2>3. Inverted(oc, downcount') = MAX_SLICE_LENGTH /\ MAX_SLICE_LENGTH \in Int BY <2>1, BoundsAssumption DEF Exact
  <2>4. CyclesExecuted' = 0 BY <2>1, <2>3 DEF CyclesExecuted, DowncountToCycles
  <2>. QED BY <2>1, <2>2, <2>4 DEF EntryOK, QueueOnTime, SavedOnTime, NothingExecuted, PlaceOK
<1>13. CASE UNCHANGED vars
  BY <1>13 DEF vars, EntryOK, QueueOnTime, SavedOnTime, NothingExecuted, PlaceOK, Outside, CyclesExecuted,
     DowncountToCycles, clock, queue, place, saves
<1>. QED BY <1>1, <1>2, <1>3, <1>4, <1>5, <1>6, <1>7, <1>8, <1>9, <1>10, <1>11, <1>12, <1>13 DEF Next

(* Events are on time outside the dispatcher, and in every saved state. *)
LEMMA EntryInvariance ==
  ASSUME Exact, ~({"SaveState", "Restart"} \subseteq Ops), "CallbackForce" \notin Ops \/ OneFactor
  PROVE  Spec => []EntryOK
<1>1. Init => EntryOK
  <2>. SUFFICES ASSUME Init PROVE EntryOK OBVIOUS
  <2>1. Inverted(s_last_OC_factor, downcount) = MAX_SLICE_LENGTH /\ MAX_SLICE_LENGTH \in Int
    BY BoundsAssumption DEF Init, Exact
  <2>2. CyclesExecuted = 0 BY <2>1 DEF Init, CyclesExecuted, DowncountToCycles
  <2>. QED BY <2>2 DEF Init, EntryOK, QueueOnTime, SavedOnTime, NothingExecuted, PlaceOK
<1>2. IndInv /\ ClockOK /\ AheadOK /\ EntryOK /\ [Next]_vars => EntryOK' BY EntryStep
<1>. QED BY <1>1, <1>2, Invariance, ClockInvariance, AheadInvariance, PTL DEF Spec

(* So the Advance with which a dispatcher starts is not late. *)
LEMMA EntryEnd ==
  ASSUME IndInv, EntryOK, Next, phase = "entry", phase' = "events", NEW e \in s_event_queue, e.cpu
  PROVE  global_timer' <= e.due + LateBound
<1>t. TypeOK BY DEF IndInv
<1>1. global_timer' = global_timer + CyclesExecuted BY BeginOnly
<1>2. /\ global_timer \in Int /\ slice_length \in Int /\ e.due \in Int /\ s_last_OC_factor \in OCFactors
      /\ Inverted(s_last_OC_factor, downcount) \in Int
      /\ CyclesExecuted = slice_length - Inverted(s_last_OC_factor, downcount)
  BY <1>t, CyclesInt DEF TypeOK, Events, CyclesExecuted, DowncountToCycles
<1>3. OnTime(e, global_timer, slice_length, downcount, s_last_OC_factor)
  BY DEF EntryOK, QueueOnTime, Outside
<1>4. LateBound \in Int /\ LateBound >= 1
  <2>1. Inverted(s_last_OC_factor, MaxBlock) \in Int BY <1>2, CyclesInt, BoundsAssumption
  <2>. QED BY <2>1 DEF LateBound, MaxOf
<1>5. CASE global_timer + slice_length <= e.due /\ downcount >= -MaxBlock
  <2>1. -Inverted(s_last_OC_factor, downcount) <= LateBound BY <1>t, <1>5, Overshoot
  <2>. QED BY <1>1, <1>2, <1>4, <1>5, <2>1
<1>6. CASE global_timer + slice_length - Inverted(s_last_OC_factor, downcount) <= e.due + 1
  BY <1>1, <1>2, <1>4, <1>6
<1>. QED BY <1>3, <1>5, <1>6 DEF OnTime

(* One rounding of a slice loses less than two units of downcount, and at most a cycle *)
(* when a unit is no more than a cycle.                                                *)
LEMMA OneRounding ==
  ASSUME NEW oc \in OCFactors, NEW c \in Nat
  PROVE  c - Inverted(oc, CyclesToDowncount(oc, c)) <= MaxOf(1, Inverted(oc, 2))
<1>. DEFINE a == oc[1]
            b == oc[2]
            q == (c * a) \div b
            r == (q * b) \div a
            l == (2 * b) \div a
<1>1. a \in Nat \ {0} /\ b \in Nat \ {0} BY FactorInt
<1>2. c * a \in Int /\ c * a >= 0 BY <1>1
<1>3. CyclesToDowncount(oc, c) = q BY <1>2 DEF CyclesToDowncount, Truncate
<1>4. q \in Int /\ c * a < b * q + b BY <1>1, <1>2, DivBounds
<1>5. q >= 0 BY <1>1, <1>2, DivMono, DivZero
<1>. HIDE DEF q
<1>6. q * b \in Int /\ q * b >= 0 /\ b * q = q * b BY <1>1, <1>4, <1>5
<1>7. Inverted(oc, q) = r BY <1>6 DEF Inverted, Truncate
<1>8. r \in Int /\ q * b < a * r + a BY <1>1, <1>6, DivBounds
<1>b. 2 * b \in Int /\ 2 * b >= 0 BY <1>1
<1>9. l \in Int /\ 2 * b < a * l + a BY <1>1, <1>b, DivBounds
<1>10. Inverted(oc, 2) = l BY <1>b DEF Inverted, Truncate
<1>. HIDE DEF r, l, a, b
<1>11. a * r \in Int /\ a * l \in Int /\ a * c \in Int /\ a * c = c * a /\ c - r \in Int BY <1>1, <1>8, <1>9
<1>12. a * (c - r) = a * c - a * r BY <1>1, <1>8
<1>13. a * (c - r) <= a + b - 2 BY <1>1, <1>2, <1>4, <1>6, <1>8, <1>11, <1>12
<1>14. CASE b <= a
  <2>1. a * 1 = a BY <1>1
  <2>2. a * (c - r) <= a * 1 + a - 1 BY <1>1, <1>13, <1>14, <1>11, <1>12, <2>1
  <2>3. c - r <= 1 BY <1>1, <1>11, <2>2, MulLess
  <2>. QED BY <2>3, <1>3, <1>7, <1>9, <1>10, <1>11 DEF MaxOf
<1>15. CASE b > a
  <2>1. a * (c - r) <= a * l + a - 1 BY <1>1, <1>9, <1>11, <1>12, <1>13, <1>15
  <2>2. c - r <= l BY <1>1, <1>9, <1>11, <2>1, MulLess
  <2>. QED BY <2>2, <1>3, <1>7, <1>9, <1>10, <1>11 DEF MaxOf
<1>. QED BY <1>1, <1>14, <1>15

(* Without save states and forced checks: outside the dispatcher the first slice is *)
(* as Init declared it, and no event is overdue.                                    *)
FirstOK ==
  /\ phase # "saving" /\ state = NoState
  /\ phase = "entry" =>
       /\ s_is_global_timer_sane
       /\ slice_length = MAX_SLICE_LENGTH
       /\ downcount = CyclesToDowncount(s_last_OC_factor, MAX_SLICE_LENGTH)
       /\ \A e \in s_event_queue : e.cpu => global_timer <= e.due
  /\ phase = "off" => s_event_queue = {}

(* Every step keeps the first slice so. *)
LEMMA FirstStep ==
  ASSUME "Force" \notin Ops, "SaveState" \notin Ops, IndInv, FirstOK, [Next]_vars
  PROVE  FirstOK'
<1>t. TypeOK BY DEF IndInv
<1>m. MovedSafe BY <1>t, MovedType DEF MovedSafe
<1>1. ASSUME NEW t \in Types, NEW d \in Delays, ScheduleEvent(t, d) PROVE FirstOK'
  <2>. DEFINE new == Event(GetTicks + d, s_event_fifo_id, t, added, TRUE, MaxOf(GetTicks + d, GetTicks))
  <2>1. s_event_queue' = s_event_queue \cup {new} BY <1>1 DEF ScheduleEvent, Schedule
  <2>2. new.due = MaxOf(GetTicks + d, GetTicks) BY DEF Event
  <2>. HIDE DEF new
  <2>3. phase' = phase /\ state' = state /\ phase \in {"entry", "first", "slice", "callback"}
        /\ UNCHANGED <<global_timer, s_is_global_timer_sane, s_last_OC_factor>>
    BY <1>1 DEF ScheduleEvent, place, saves, OnCPU
  <2>4. CASE phase # "entry" BY <2>3, <2>4 DEF FirstOK
  <2>5. CASE phase = "entry"
    <3>1. slice_length' = slice_length /\ downcount' = downcount /\ GetTicks = global_timer
      BY <1>1, <2>5 DEF ScheduleEvent, FirstOK, GetTicks
    <3>2. global_timer \in Int /\ d \in Int BY <1>t, DelaysAssumption DEF TypeOK
    <3>3. global_timer <= new.due BY <2>2, <3>1, <3>2 DEF MaxOf
    <3>. QED BY <2>1, <2>3, <2>5, <3>1, <3>3 DEF FirstOK
  <2>. QED BY <2>4, <2>5
<1>2. ASSUME NEW t \in Types, NEW d \in Delays, OffThreadSample(t, d) PROVE FirstOK'
  BY <1>2 DEF OffThreadSample, FirstOK, clock, queue, place, saves
<1>3. CASE OffThreadPush BY <1>3 DEF OffThreadPush, FirstOK, clock, queue, place, saves
<1>4. ASSUME NEW t \in Types, RemoveEvent(t) \/ RemoveAllEvents(t) PROVE FirstOK'
  <2>1. \A e \in s_event_queue' : e.cpu => e \in s_event_queue
    BY <1>4, <1>m DEF MovedSafe, RemoveEvent, RemoveAllEvents, Remove
  <2>2. UNCHANGED clock /\ UNCHANGED place /\ UNCHANGED saves /\ OnCPU BY <1>4 DEF RemoveEvent, RemoveAllEvents
  <2>. QED BY <2>1, <2>2 DEF FirstOK, clock, place, saves, OnCPU
<1>5. ASSUME NEW d \in Delays, ForceExceptionCheck(d) PROVE FirstOK' BY <1>5 DEF ForceExceptionCheck
<1>6. ASSUME \/ \E dispatcher \in {"Run", "SingleStep"}, oc \in OCFactors : AdvanceBegin(dispatcher, oc)
             \/ RunCallback \/ CallbackReturn \/ AdvanceEnd \/ ChangePPCClock \/ SingleStepEnd
             \/ \E n \in 1 .. MaxBlock : ExecuteBlock(n) \/ IdleBlock(n)
      PROVE  FirstOK'
  <2>1. phase' \in {"events", "callback", "first", "slice"} /\ state' = state
    BY <1>6 DEF AdvanceBegin, RunCallback, CallbackReturn, AdvanceEnd, ChangePPCClock, SingleStepEnd, ExecuteBlock,
       IdleBlock, saves
  <2>. QED BY <2>1 DEF FirstOK
<1>7. CASE SaveMeasure \/ SaveWrite \/ LoadState BY <1>7 DEF SaveMeasure, SaveWrite, LoadState, FirstOK
<1>8. CASE Shutdown BY <1>8 DEF Shutdown, FirstOK, saves
<1>9. ASSUME NEW oc \in OCFactors, InitCoreTiming(oc) PROVE FirstOK'
  BY <1>9 DEF InitCoreTiming, FirstOK, saves
<1>10. CASE UNCHANGED vars BY <1>10 DEF vars, FirstOK, clock, queue, place, saves
<1>. QED BY <1>1, <1>2, <1>3, <1>4, <1>5, <1>6, <1>7, <1>8, <1>9, <1>10 DEF Next

(* The first Advance adds what one rounding lost. *)
LEMMA FirstEnd ==
  ASSUME MaxBlock >= 2, IndInv, FirstOK, Next, phase = "entry", phase' = "events", NEW e \in s_event_queue, e.cpu
  PROVE  global_timer' <= e.due + LateBound
<1>1. global_timer' = global_timer + CyclesExecuted BY BeginOnly
<1>2. /\ global_timer \in Int /\ e.due \in Int /\ s_last_OC_factor \in OCFactors
      /\ MAX_SLICE_LENGTH \in Nat /\ MaxBlock \in Int
  BY BoundsAssumption DEF IndInv, TypeOK, Events
<1>3. CyclesExecuted <= MaxOf(1, Inverted(s_last_OC_factor, 2))
  BY <1>2, OneRounding DEF FirstOK, CyclesExecuted, DowncountToCycles
<1>4. Inverted(s_last_OC_factor, 2) <= Inverted(s_last_OC_factor, MaxBlock) BY <1>2, InvertedMono
<1>5. Inverted(s_last_OC_factor, 2) \in Int /\ Inverted(s_last_OC_factor, MaxBlock) \in Int BY <1>2, CyclesInt
<1>6. CyclesExecuted \in Int BY Integers DEF IndInv
<1>7. CyclesExecuted <= LateBound /\ LateBound \in Int BY <1>3, <1>4, <1>5, <1>6 DEF LateBound, MaxOf
<1>8. global_timer <= e.due BY DEF FirstOK
<1>. QED BY <1>1, <1>2, <1>6, <1>7, <1>8

(* When Advance is called no event of the CPU thread is late by more than a block: if the clock *)
(* factors are exact on the delays, unless a state can be loaded into a later session; and with  *)
(* any factors if no check is forced, no state saved and a block may take two cycles.           *)
THEOREM EventsAreOnTime ==
  ASSUME "CallbackForce" \notin Ops \/ OneFactor,
         \/ Exact /\ ~({"SaveState", "Restart"} \subseteq Ops)
         \/ {"Force", "SaveState"} \cap Ops = {} /\ MaxBlock >= 2
  PROVE  Spec => LateByABlock
<1>. DEFINE Late == phase \in {"entry", "first", "slice"} /\ phase' = "events" =>
                      \A e \in s_event_queue : (e.cpu => global_timer' <= e.due + LateBound)
<1>1. CASE Exact /\ ~({"SaveState", "Restart"} \subseteq Ops)
  <2>1. IndInv /\ ClockOK /\ AheadOK /\ EntryOK /\ [Next]_vars => [Late]_vars BY SliceEnd, EntryEnd DEF InSlice
  <2>2. Spec => []EntryOK BY <1>1, EntryInvariance
  <2>. QED BY <2>1, <2>2, Invariance, ClockInvariance, AheadInvariance, PTL DEF Spec, LateByABlock
<1>2. CASE {"Force", "SaveState"} \cap Ops = {} /\ MaxBlock >= 2
  <2>1. IndInv /\ ClockOK /\ AheadOK /\ FirstOK /\ [Next]_vars => [Late]_vars
    BY <1>2, SliceEnd, FirstEnd DEF InSlice
  <2>2. Init => FirstOK BY DEF Init, FirstOK
  <2>3. IndInv /\ FirstOK /\ [Next]_vars => FirstOK' BY <1>2, FirstStep
  <2>. QED BY <2>1, <2>2, <2>3, Invariance, ClockInvariance, AheadInvariance, PTL DEF Spec, LateByABlock
<1>. QED BY <1>1, <1>2
=============================================================================

----------------------------- MODULE IPCProofs -------------------------------
(***************************************************************************)
(* Proofs about the mailbox of IPC.tla, for all delays and bounds.         *)
(*                                                                         *)
(* Everything that changes the registers or the queues ends in UpdateIPC,  *)
(* and lemma Updated says what a call of it leaves behind: nothing that    *)
(* could be sent, and an update of the interrupt for what was sent.  The   *)
(* first invariants are inductive together with the types: TypeOK needs    *)
(* that a tick is only taken when nothing is due, and NothingWaits that    *)
(* the flag of the interrupt is never cleared without a call of UpdateIPC. *)
(*                                                                         *)
(* That replies are awaited and in order takes more: where each request is *)
(* (MailInv, in the second half), kept by every way it moves on.           *)
(***************************************************************************)
EXTENDS IPC, TLAPS

\* The inductive invariant: types, nothing that could be sent, and an interrupt for what was.
IndInv == TypeOK /\ NothingWaits /\ InterruptComes

\* What UpdateIPC leaves behind.
Settled ==
  /\ reg' \in Registers /\ ios' \in Kernels /\ events' \in Schedules
  /\ synchronous' \subseteq Nat /\ forgotten' \in Nat
  /\ IsReady(reg') => ios'.requests = <<>> /\ ios'.replies = <<>> /\ ios'.acks = 0

-----------------------------------------------------------------------------
\* The registers as IOS changes them keep their type, and a packet makes the mailbox busy.
LEMMA RegisterSteps ==
  ASSUME NEW r \in Registers, NEW msg \in Nat
  PROVE  /\ ClearX1(r) \in Registers
         /\ GenerateAck(r) \in Registers /\ ~IsReady(GenerateAck(r))
         /\ GenerateReply(r, msg) \in Registers /\ ~IsReady(GenerateReply(r, msg))
<1>1. r.ctrl \subseteq Bits
  BY DEF Registers
<1>2. ClearX1(r) \in Registers
  BY <1>1 DEF ClearX1, Registers
<1>3. GenerateAck(r) \in Registers /\ ~IsReady(GenerateAck(r))
  BY <1>1 DEF GenerateAck, IsReady, Registers, Bits
<1>4. GenerateReply(r, msg) \in Registers /\ ~IsReady(GenerateReply(r, msg))
  BY <1>1 DEF GenerateReply, IsReady, Registers, Bits
<1> QED BY <1>2, <1>3, <1>4

\* Scheduling an update of the interrupt.
LEMMA ScheduleSteps ==
  ASSUME NEW e \in Schedules, NEW ticks \in Nat
  PROVE  /\ ScheduleUpdate(e, ticks) \in Schedules
         /\ ScheduleUpdate(e, ticks).update # {}
         /\ ScheduleUpdate(e, ticks).request = e.request
BY DEF ScheduleUpdate, Schedules

\* However a request is handled, the kernel and its events keep their types and the updates
\* that were scheduled stay.
LEMMA Executed ==
  ASSUME TypeOK, NEW msg \in Nat, NEW i \in Kernels, NEW e \in Schedules,
         ExecuteIPCCommand(msg, i, e)
  PROVE  /\ ios' \in Kernels /\ events' \in Schedules /\ events'.update = e.update
         /\ synchronous' \subseteq Nat /\ forgotten' \in Nat
<1>1. synchronous \subseteq Nat /\ forgotten \in Nat
  BY DEF TypeOK
<1>2. CASE \E delay \in ReplyTicks : ReplyLater(msg, delay, i, e)
  <2>1. PICK delay \in ReplyTicks : ReplyLater(msg, delay, i, e)
    BY <1>2
  <2>2. PICK left : left = ReplyAt(i, delay)
    OBVIOUS
  <2>3. left \in Nat
    BY <2>2, TicksAssumption DEF ReplyAt, Kernels
  <2>4. /\ ios' = [i EXCEPT !.last = left]
        /\ events' = [e EXCEPT !.reply = @ \union {[msg |-> msg, left |-> left]}]
        /\ synchronous' = synchronous \union {msg} /\ forgotten' = forgotten
    BY <2>1, <2>2 DEF ReplyLater
  <2>5. [msg |-> msg, left |-> left] \in Timed
    BY <2>3 DEF Timed
  <2>6. events' \in Schedules /\ events'.update = e.update
    BY <2>4, <2>5 DEF Schedules
  <2> QED BY <1>1, <2>3, <2>4, <2>6 DEF Kernels
<1>3. CASE Keep(msg, i, e)
  BY <1>1, <1>3 DEF Keep, Kernels
<1>4. CASE \E late \in SUBSET i.held : BootIOS(msg, i, e, late)
  <2>1. PICK late \in SUBSET i.held : BootIOS(msg, i, e, late)
    BY <1>4
  <2>2. late \subseteq Nat /\ i.stray \subseteq Nat
    BY DEF Kernels
  <2>3. LateReplies(late) \subseteq Timed
    BY <2>2 DEF LateReplies, Timed
  <2>4. ios' \in Kernels
    <3>1. <<>> \in Seq(Nat)
      OBVIOUS
    <3>2. NewKernel \in Kernels
      BY <3>1 DEF NewKernel, Kernels
    <3>3. i.stray \union late \in SUBSET Nat
      BY <2>2
    <3>4. ios' = [NewKernel EXCEPT !.stray = i.stray \union late]
      BY <2>1 DEF BootIOS
    <3> QED BY <3>2, <3>3, <3>4 DEF Kernels
  <2>5. events' \in Schedules /\ events'.update = e.update
    BY <2>1, <2>3 DEF BootIOS, Schedules
  <2> QED BY <1>1, <2>1, <2>4, <2>5 DEF BootIOS
<1> QED BY <1>2, <1>3, <1>4 DEF ExecuteIPCCommand

\* UpdateIPC leaves nothing that it could send, and schedules an update when it sends.
LEMMA Updated ==
  ASSUME TypeOK, NEW r \in Registers, NEW i \in Kernels, NEW e \in Schedules,
         UpdateIPC(r, i, e)
  PROVE  /\ Settled
         /\ (reg' = r /\ events' = e) \/ events'.update # {}
         /\ e.update # {} => events'.update # {}
<1>1. PICK later : later = ScheduleUpdate(e, InterruptTicks)
  OBVIOUS
<1>2. later \in Schedules /\ later.update # {}
  BY <1>1, ScheduleSteps, TicksAssumption
<1>3. synchronous \subseteq Nat /\ forgotten \in Nat
  BY DEF TypeOK
<1>4. CASE /\ ~IsReady(r) \/ (i.requests = <<>> /\ i.replies = <<>> /\ i.acks = 0)
           /\ reg' = r /\ ios' = i /\ events' = e
           /\ UNCHANGED <<synchronous, forgotten>>
  BY <1>3, <1>4 DEF Settled
<1>5. CASE /\ IsReady(r) /\ i.requests # <<>>
           /\ reg' = GenerateAck(ClearX1(r))
           /\ ExecuteIPCCommand(Head(i.requests), [i EXCEPT !.requests = Tail(@)],
                                ScheduleUpdate(e, InterruptTicks))
  <2>1. PICK j : j = [i EXCEPT !.requests = Tail(@)]
    OBVIOUS
  <2>2. PICK msg : msg = Head(i.requests)
    OBVIOUS
  <2>3. i.requests \in Seq(Nat) /\ i.requests # <<>>
    BY <1>5 DEF Kernels
  <2>4. msg \in Nat /\ Tail(i.requests) \in Seq(Nat)
    BY <2>2, <2>3
  <2>5. j \in Kernels
    BY <2>1, <2>4 DEF Kernels
  <2>6. ExecuteIPCCommand(msg, j, later)
    BY <1>1, <1>5, <2>1, <2>2
  <2>7. /\ ios' \in Kernels /\ events' \in Schedules /\ events'.update = later.update
        /\ synchronous' \subseteq Nat /\ forgotten' \in Nat
    BY <1>2, <2>4, <2>5, <2>6, Executed
  <2>8. reg' \in Registers /\ ~IsReady(reg')
    BY <1>5, RegisterSteps
  <2> QED BY <1>2, <2>7, <2>8 DEF Settled
<1>6. CASE /\ IsReady(r) /\ i.requests = <<>> /\ i.replies # <<>>
           /\ reg' = GenerateReply(r, Head(i.replies))
           /\ ios' = [i EXCEPT !.replies = Tail(@)]
           /\ events' = ScheduleUpdate(e, InterruptTicks)
           /\ UNCHANGED <<synchronous, forgotten>>
  <2>1. i.replies \in Seq(Nat) /\ i.replies # <<>>
    BY <1>6 DEF Kernels
  <2>2. Head(i.replies) \in Nat /\ Tail(i.replies) \in Seq(Nat)
    BY <2>1
  <2>3. ios' \in Kernels
    BY <1>6, <2>2 DEF Kernels
  <2>4. reg' \in Registers /\ ~IsReady(reg')
    BY <1>6, <2>2, RegisterSteps
  <2> QED BY <1>1, <1>2, <1>3, <1>6, <2>3, <2>4 DEF Settled
<1>7. CASE /\ IsReady(r) /\ i.requests = <<>> /\ i.replies = <<>> /\ i.acks > 0
           /\ reg' = GenerateAck(r)
           /\ ios' = [i EXCEPT !.acks = @ - 1]
           /\ events' = ScheduleUpdate(e, InterruptTicks)
           /\ UNCHANGED <<synchronous, forgotten>>
  <2>1. i.acks - 1 \in Nat
    BY <1>7 DEF Kernels
  <2>2. ios' \in Kernels
    BY <1>7, <2>1 DEF Kernels
  <2>3. reg' \in Registers /\ ~IsReady(reg')
    BY <1>7, RegisterSteps
  <2> QED BY <1>1, <1>2, <1>3, <1>7, <2>2, <2>3 DEF Settled
<1> QED BY <1>4, <1>5, <1>6, <1>7 DEF UpdateIPC

\* Time comes nearer only to what is not due.
LEMMA NearerKeeps ==
  ASSUME NEW timed \in SUBSET Timed, \A t \in timed : t.left # 0
  PROVE  Nearer(timed) \in SUBSET Timed
<1> SUFFICES ASSUME NEW t \in timed  PROVE [t EXCEPT !.left = @ - 1] \in Timed
  BY DEF Nearer
<1>1. t \in Timed /\ t.left - 1 \in Nat
  BY DEF Timed
<1> QED BY <1>1 DEF Timed

-----------------------------------------------------------------------------
\* Boot: the new kernel's acknowledgement is scheduled and nothing else.
LEMMA InitIndInv == Init => IndInv
<1> SUFFICES ASSUME Init  PROVE IndInv
  OBVIOUS
<1>1. reg \in Registers /\ ~Asserted(reg)
  BY DEF Init, InitState, Registers, Bits, Asserted
<1>2. ios \in Kernels
  BY DEF Init, NewKernel, Kernels
<1>3. events \in Schedules
  BY DEF Init, Schedules
<1>4. TypeOK
  BY <1>1, <1>2, <1>3 DEF Init, TypeOK
<1>5. NothingWaits
  BY DEF Init, NothingWaits, NewKernel
<1>6. InterruptComes
  BY <1>1 DEF Init, InterruptComes, InitState
<1> QED BY <1>4, <1>5, <1>6 DEF IndInv

\* The events of IOS: each ends in UpdateIPC and leaves the line alone.
LEMMA EventKeeps ==
  ASSUME IndInv, NEW i \in Kernels, NEW e \in Schedules, e.update = events.update,
         UpdateIPC(reg, i, e), UNCHANGED <<line, program, loads>>
  PROVE  IndInv'
<1>1. TypeOK /\ InterruptComes /\ reg \in Registers
  BY DEF IndInv, TypeOK
<1>2. PICK r : r = reg
  OBVIOUS
<1>3. /\ Settled
      /\ (reg' = reg /\ events' = e) \/ events'.update # {}
      /\ e.update # {} => events'.update # {}
  BY <1>1, <1>2, Updated
<1>4. TypeOK'
  BY <1>1, <1>3 DEF TypeOK, Settled, program
<1>5. NothingWaits'
  BY <1>3 DEF NothingWaits, Settled
<1>6. InterruptComes'
  BY <1>1, <1>3 DEF InterruptComes
<1> QED BY <1>4, <1>5, <1>6 DEF IndInv

\* A write of a register: it ends in UpdateIPC and an update at once.
LEMMA WriteKeeps ==
  ASSUME IndInv, NEW r \in Registers, NEW e \in Schedules,
         UpdateIPC(r, ios, ScheduleUpdate(e, 0)), UNCHANGED <<line, loads>>,
         pc' \in {"boot", "enable", "run", "flag"},
         sent' \in Nat, acks' \in Nat, launch' \in Nat, answered' \subseteq Nat
  PROVE  IndInv'
<1>1. TypeOK /\ ios \in Kernels
  BY DEF IndInv, TypeOK
<1>2. PICK i : i = ios
  OBVIOUS
<1>3. PICK d : d = ScheduleUpdate(e, 0)
  OBVIOUS
<1>4. d \in Schedules /\ d.update # {}
  BY <1>3, ScheduleSteps
<1>5. Settled /\ events'.update # {}
  BY <1>1, <1>2, <1>3, <1>4, Updated
<1>6. TypeOK'
  BY <1>1, <1>5 DEF TypeOK, Settled
<1>7. NothingWaits'
  BY <1>5 DEF NothingWaits, Settled
<1>8. InterruptComes'
  BY <1>5 DEF InterruptComes
<1> QED BY <1>6, <1>7, <1>8 DEF IndInv

\* A write of PPCCTRL.
LEMMA WriteCtrlKeeps ==
  ASSUME IndInv, NEW v \in SUBSET Bits, NEW msg \in Nat,
         WriteCtrl(v, msg), UNCHANGED <<line, loads>>,
         pc' \in {"boot", "enable", "run", "flag"},
         sent' \in Nat, acks' \in Nat, launch' \in Nat, answered' \subseteq Nat
  PROVE  IndInv'
<1> DEFINE ctrl == PPC(reg.ctrl, v)
           raised == {"Y1", "IY1"} \subseteq v \/ {"Y2", "IY2"} \subseteq v
           asked == IF "X1" \in ctrl THEN {[msg |-> msg, left |-> RequestTicks]} ELSE {}
<1>1. reg \in Registers /\ events \in Schedules
  BY DEF IndInv, TypeOK
<1>2. PICK r : r = [reg EXCEPT !.ctrl = ctrl, !.flag = @ \/ raised]
  OBVIOUS
<1>3. PICK e : e = [events EXCEPT !.request = @ \union asked]
  OBVIOUS
<1>4. ctrl \subseteq Bits
  BY DEF PPC, Bits
<1>5. r \in Registers
  BY <1>1, <1>2, <1>4 DEF Registers
<1>6. asked \subseteq Timed
  BY TicksAssumption DEF Timed
<1>7. e \in Schedules
  BY <1>1, <1>3, <1>6 DEF Schedules
<1>8. UpdateIPC(r, ios, ScheduleUpdate(e, 0))
  BY <1>2, <1>3 DEF WriteCtrl
<1> QED BY <1>5, <1>7, <1>8, WriteKeeps

-----------------------------------------------------------------------------
\* A step of the emulator keeps the invariant.
LEMMA EmulatorKeeps ==
  ASSUME IndInv, Emulator
  PROVE  IndInv'
<1>1. TypeOK /\ ios \in Kernels /\ events \in Schedules /\ reg \in Registers
  BY DEF IndInv, TypeOK
<1>2. ASSUME NEW t \in events.request, RequestEvent(t)  PROVE IndInv'
  <2>1. PICK i : i = [ios EXCEPT !.requests = Append(@, t.msg)]
    OBVIOUS
  <2>2. PICK e : e = [events EXCEPT !.request = @ \ {t}]
    OBVIOUS
  <2>3. t \in Timed /\ t.msg \in Nat
    BY <1>1 DEF Schedules, Timed
  <2>4. i \in Kernels
    <3>1. ios.requests \in Seq(Nat)
      BY <1>1 DEF Kernels
    <3>2. Append(ios.requests, t.msg) \in Seq(Nat)
      BY <2>3, <3>1
    <3>3. i = [ios EXCEPT !.requests = Append(ios.requests, t.msg)]
      BY <2>1
    <3> QED BY <1>1, <3>2, <3>3 DEF Kernels
  <2>5. e \in Schedules /\ e.update = events.update
    BY <1>1, <2>2 DEF Schedules
  <2> QED BY <1>2, <2>1, <2>2, <2>4, <2>5, EventKeeps DEF RequestEvent
<1>3. ASSUME NEW t \in events.reply, ReplyEvent(t)  PROVE IndInv'
  <2>1. PICK i : i = [ios EXCEPT !.replies = Append(@, t.msg)]
    OBVIOUS
  <2>2. PICK e : e = [events EXCEPT !.reply = @ \ {t}]
    OBVIOUS
  <2>3. t \in Timed /\ t.msg \in Nat
    BY <1>1 DEF Schedules, Timed
  <2>4. i \in Kernels
    <3>1. ios.replies \in Seq(Nat)
      BY <1>1 DEF Kernels
    <3>2. Append(ios.replies, t.msg) \in Seq(Nat)
      BY <2>3, <3>1
    <3>3. i = [ios EXCEPT !.replies = Append(ios.replies, t.msg)]
      BY <2>1
    <3> QED BY <1>1, <3>2, <3>3 DEF Kernels
  <2>5. e \in Schedules /\ e.update = events.update
    BY <1>1, <2>2 DEF Schedules
  <2> QED BY <1>3, <2>1, <2>2, <2>4, <2>5, EventKeeps DEF ReplyEvent
<1>4. CASE AckEvent
  <2>1. PICK i : i = [ios EXCEPT !.acks = @ + 1]
    OBVIOUS
  <2>2. PICK e : e = [events EXCEPT !.ack = FALSE]
    OBVIOUS
  <2>3. i \in Kernels
    <3>1. ios.acks + 1 \in Nat
      BY <1>1 DEF Kernels
    <3> QED BY <1>1, <2>1, <3>1 DEF Kernels
  <2>4. e \in Schedules /\ e.update = events.update
    BY <1>1, <2>2 DEF Schedules
  <2> QED BY <1>4, <2>1, <2>2, <2>3, <2>4, EventKeeps DEF AckEvent
<1>5. CASE UpdateInterrupts
  <2>1. PICK flag : flag = (reg.flag \/ Asserted(reg))
    OBVIOUS
  <2>2. /\ events' = [events EXCEPT !.update = @ \ {0}]
        /\ reg' = [reg EXCEPT !.flag = flag] /\ line' = flag
        /\ UNCHANGED <<kernel, program, loads>>
    BY <1>5, <2>1 DEF UpdateInterrupts
  <2>3. flag \in BOOLEAN
    BY <2>1, <1>1 DEF Registers, Asserted
  <2>4. reg' \in Registers /\ reg'.ctrl = reg.ctrl /\ reg'.flag = flag
    BY <1>1, <2>2, <2>3 DEF Registers
  <2>5. events' \in Schedules
    BY <1>1, <2>2 DEF Schedules
  <2>6. TypeOK'
    BY <1>1, <2>2, <2>3, <2>4, <2>5 DEF TypeOK, kernel, program
  <2>7. IsReady(reg') => IsReady(reg)
    BY <2>1, <2>4 DEF IsReady
  <2>8. NothingWaits'
    BY <2>2, <2>7 DEF NothingWaits, IndInv, kernel
  <2>9. InterruptComes'
    BY <2>1, <2>2, <2>4 DEF InterruptComes, Asserted
  <2> QED BY <2>6, <2>8, <2>9 DEF IndInv
<1>6. CASE Tick
  <2>1. /\ events' = [events EXCEPT !.request = Nearer(@), !.reply = Nearer(@),
                                    !.update = {left - 1 : left \in @}]
        /\ ios' = [ios EXCEPT !.last = LastNearer(@)]
        /\ UNCHANGED <<reg, line, synchronous, forgotten, program, loads>>
    BY <1>6 DEF Tick
  <2>2. /\ events.request \in SUBSET Timed /\ events.reply \in SUBSET Timed
        /\ events.update \subseteq Nat
    BY <1>1 DEF Schedules
  <2>3. /\ \A t \in events.request : t.left # 0
        /\ \A t \in events.reply : t.left # 0
        /\ 0 \notin events.update
    BY <1>6 DEF Tick, Due
  <2>4. Nearer(events.request) \in SUBSET Timed /\ Nearer(events.reply) \in SUBSET Timed
    BY <2>2, <2>3, NearerKeeps
  <2>5. {left - 1 : left \in events.update} \subseteq Nat
    BY <2>2, <2>3
  <2>6. events' \in Schedules
    BY <1>1, <2>1, <2>4, <2>5 DEF Schedules
  <2>7. events'.update = {left - 1 : left \in events.update}
    BY <1>1, <2>1 DEF Schedules
  <2>8. events'.update = {} => events.update = {}
    BY <2>7
  <2>9. LastNearer(ios.last) \in Nat
    BY <1>1 DEF LastNearer, Kernels
  <2>10. ios' \in Kernels /\ ios'.requests = ios.requests /\ ios'.replies = ios.replies
         /\ ios'.acks = ios.acks
    BY <1>1, <2>1, <2>9 DEF Kernels
  <2>11. TypeOK'
    BY <1>1, <2>1, <2>6, <2>10 DEF TypeOK, program
  <2>12. NothingWaits'
    BY <2>1, <2>10 DEF NothingWaits, IndInv
  <2>13. InterruptComes'
    BY <2>1, <2>8 DEF InterruptComes, IndInv
  <2> QED BY <2>11, <2>12, <2>13 DEF IndInv
<1> QED BY <1>2, <1>3, <1>4, <1>5, <1>6 DEF Emulator

\* A step of the program keeps the invariant: each is one write of a register.
LEMMA ProgramKeeps ==
  ASSUME IndInv,
         \/ ResetIPC \/ EnableInterrupts \/ Handler
         \/ \E isLaunch \in BOOLEAN : MakeRequest(isLaunch)
  PROVE  IndInv'
<1>1. /\ TypeOK /\ reg \in Registers /\ events \in Schedules
      /\ sent \in Nat /\ acks \in Nat /\ launch \in Nat /\ answered \subseteq Nat
  BY DEF IndInv, TypeOK
<1>2. PICK e : e = events
  OBVIOUS
<1>3. CASE ResetIPC
  <2>1. InitState \in Registers
    BY DEF InitState, Registers
  <2>2. UpdateIPC(InitState, ios, ScheduleUpdate(e, 0))
    BY <1>2, <1>3 DEF ResetIPC, WriteIrqMask
  <2> QED BY <1>1, <1>2, <1>3, <2>1, <2>2, WriteKeeps DEF ResetIPC
<1>4. CASE EnableInterrupts
  <2>1. {"IY1", "IY2"} \in SUBSET Bits
    BY DEF Bits
  <2> QED BY <1>1, <1>4, <2>1, WriteCtrlKeeps DEF EnableInterrupts
<1>5. ASSUME NEW isLaunch \in BOOLEAN, MakeRequest(isLaunch)  PROVE IndInv'
  <2>1. {"X1", "IY1", "IY2"} \in SUBSET Bits
    BY DEF Bits
  <2>2. PICK msg : msg = sent + 1
    OBVIOUS
  <2>3. msg \in Nat /\ WriteCtrl({"X1", "IY1", "IY2"}, msg)
    BY <1>1, <1>5, <2>2 DEF MakeRequest
  <2>4. /\ sent' \in Nat /\ acks' \in Nat /\ launch' \in Nat
        /\ pc' \in {"boot", "enable", "run", "flag"} /\ answered' \subseteq Nat
        /\ UNCHANGED <<line, loads>>
    BY <1>1, <1>5 DEF MakeRequest
  <2> QED BY <2>1, <2>3, <2>4, WriteCtrlKeeps
<1>6. CASE TakeReply
  <2>1. {"Y1", "IY1", "IY2"} \in SUBSET Bits
    BY DEF Bits
  <2>2. reg.arm_msg \in Nat
    BY <1>1 DEF Registers
  <2>3. /\ sent' \in Nat /\ acks' \in Nat /\ launch' \in Nat
        /\ pc' \in {"boot", "enable", "run", "flag"} /\ answered' \subseteq Nat
        /\ UNCHANGED <<line, loads>>
    <3>1. acks' \in Nat /\ launch' \in Nat
      BY <1>1, <1>6 DEF TakeReply
    <3>2. answered' \subseteq Nat
      BY <1>1, <1>6, <2>2 DEF TakeReply
    <3> QED BY <1>1, <1>6, <3>1, <3>2 DEF TakeReply
  <2>4. WriteCtrl({"Y1", "IY1", "IY2"}, 0)
    BY <1>6 DEF TakeReply
  <2> QED BY <2>1, <2>3, <2>4, WriteCtrlKeeps
<1>7. CASE TakeAck
  <2>1. {"Y2", "IY1", "IY2"} \in SUBSET Bits
    BY DEF Bits
  <2>2. /\ sent' \in Nat /\ acks' \in Nat /\ launch' \in Nat
        /\ pc' \in {"boot", "enable", "run", "flag"} /\ answered' \subseteq Nat
        /\ UNCHANGED <<line, loads>>
    BY <1>1, <1>7 DEF TakeAck
  <2>3. WriteCtrl({"Y2", "IY1", "IY2"}, 0)
    BY <1>7 DEF TakeAck
  <2> QED BY <2>1, <2>2, <2>3, WriteCtrlKeeps
<1>8. CASE ClearFlag
  <2>1. PICK r : r = [reg EXCEPT !.flag = FALSE]
    OBVIOUS
  <2>2. r \in Registers
    BY <1>1, <2>1 DEF Registers
  <2>3. UpdateIPC(r, ios, ScheduleUpdate(e, 0))
    BY <1>2, <1>8, <2>1 DEF ClearFlag, WriteIrqFlag
  <2> QED BY <1>1, <1>2, <1>8, <2>2, <2>3, WriteKeeps DEF ClearFlag
<1> QED BY <1>3, <1>4, <1>5, <1>6, <1>7, <1>8 DEF Handler

\* The inductive step, one case per action.
LEMMA NextIndInv == IndInv /\ [Next]_vars => IndInv'
<1> SUFFICES ASSUME IndInv, [Next]_vars  PROVE IndInv'
  OBVIOUS
<1>1. /\ TypeOK /\ NothingWaits /\ InterruptComes
      /\ reg \in Registers /\ ios \in Kernels /\ events \in Schedules /\ loads \in Nat
  BY DEF IndInv, TypeOK
<1>2. CASE Emulator
  BY <1>2, EmulatorKeeps
<1>3. ASSUME NEW msg \in ios.held, DeviceReply(msg)  PROVE IndInv'
  <2>1. /\ ios' = [ios EXCEPT !.held = @ \ {msg}]
        /\ events' = [events EXCEPT !.reply = @ \union {[msg |-> msg, left |-> 0]}]
        /\ UNCHANGED <<reg, line, synchronous, forgotten, program, loads>>
    BY <1>3 DEF DeviceReply
  <2>2. [msg |-> msg, left |-> 0] \in Timed
    BY <1>1 DEF Kernels, Timed
  <2>3. events' \in Schedules /\ events'.update = events.update
    BY <1>1, <2>1, <2>2 DEF Schedules
  <2>4. ios' \in Kernels /\ ios'.requests = ios.requests /\ ios'.replies = ios.replies
        /\ ios'.acks = ios.acks
    BY <1>1, <2>1 DEF Kernels
  <2>5. TypeOK'
    BY <1>1, <2>1, <2>3, <2>4 DEF TypeOK, program
  <2>6. NothingWaits' /\ InterruptComes'
    BY <1>1, <2>1, <2>3, <2>4 DEF NothingWaits, InterruptComes
  <2> QED BY <2>5, <2>6 DEF IndInv
<1>4. CASE \/ ResetIPC \/ EnableInterrupts \/ Handler
           \/ \E isLaunch \in BOOLEAN : MakeRequest(isLaunch)
  BY <1>4, ProgramKeeps
<1>5. ASSUME NEW queued \in 0..1, LoadState(queued)  PROVE IndInv'
  <2>1. /\ loads' = loads + 1 /\ ios' = [ios EXCEPT !.acks = queued]
        /\ UNCHANGED <<reg, line, events, synchronous, forgotten, program>>
    BY <1>5 DEF LoadState
  <2>2. ios' \in Kernels /\ ios'.requests = ios.requests /\ ios'.replies = ios.replies
    <3>1. queued \in Nat
      OBVIOUS
    <3> QED BY <1>1, <2>1, <3>1 DEF Kernels
  <2>3. loads' \in Nat /\ loads' > 0
    BY <1>1, <2>1
  <2>4. TypeOK'
    BY <1>1, <2>1, <2>2, <2>3 DEF TypeOK, program
  <2>5. NothingWaits' /\ InterruptComes'
    BY <1>1, <2>1, <2>2, <2>3 DEF NothingWaits, InterruptComes
  <2> QED BY <2>4, <2>5 DEF IndInv
<1>6. CASE UNCHANGED vars
  BY <1>1, <1>6 DEF IndInv, TypeOK, NothingWaits, InterruptComes, vars, kernel, program
<1> QED BY <1>2, <1>3, <1>4, <1>5, <1>6 DEF Next

\* The invariant holds in every state the specification reaches.
LEMMA Invariant == Spec => []IndInv
BY InitIndInv, NextIndInv, PTL DEF Spec

-----------------------------------------------------------------------------
\* Registers, queues and schedules keep their types: no event is ever due in the past.
THEOREM TypeCorrect == Spec => []TypeOK
<1>1. IndInv => TypeOK
  BY DEF IndInv
<1> QED BY <1>1, Invariant, PTL

\* The kernel never sits on a packet that it may send.
THEOREM KernelNeverWaits == Spec => []NothingWaits
<1>1. IndInv => NothingWaits
  BY DEF IndInv
<1> QED BY <1>1, Invariant, PTL

\* What the program has enabled an interrupt for raises it, and the line shows the flag, by
\* the time the scheduled updates have been made.
THEOREM InterruptsCome == Spec => []InterruptComes
<1>1. IndInv => InterruptComes
  BY DEF IndInv
<1> QED BY <1>1, Invariant, PTL

-----------------------------------------------------------------------------
(***************************************************************************)
(* Where the requests are.  A request is asked for, queued, kept by a      *)
(* device or due to be replied to, has its reply queued, or is shown to    *)
(* the program.  Mail gathers these places with what the history says, and *)
(* InPlace is what holds of them whenever UpdateIPC is called; each of the *)
(* ways a request goes from one place to the next is a lemma about it.     *)
(***************************************************************************)

Mail ==
  [asked : SUBSET Timed, requests : Seq(Nat), held : SUBSET Nat, last : Nat,
   due : SUBSET Timed, replies : Seq(Nat), shown : SUBSET Nat,
   made : Nat, lost : Nat, answered : SUBSET Nat, sync : SUBSET Nat, stray : SUBSET Nat]

\* The mail in the registers r, the kernel i and the events e, after n requests.
MailOf(r, i, e, n, ans, f, sync) ==
  [asked |-> e.request, requests |-> i.requests, held |-> i.held, last |-> i.last,
   due |-> e.reply, replies |-> i.replies,
   shown |-> IF "Y1" \in r.ctrl THEN {r.arm_msg} ELSE {},
   made |-> n, lost |-> f, answered |-> ans, sync |-> sync, stray |-> i.stray]

\* p is that mail.
IsMail(p, r, i, e, n, ans, f, sync) ==
  /\ p.asked = e.request /\ p.requests = i.requests /\ p.held = i.held /\ p.last = i.last
  /\ p.due = e.reply /\ p.replies = i.replies
  /\ p.shown = IF "Y1" \in r.ctrl THEN {r.arm_msg} ELSE {}
  /\ p.made = n /\ p.lost = f /\ p.answered = ans /\ p.sync = sync /\ p.stray = i.stray

Elements(s) == {s[k] : k \in 1 .. Len(s)}
Increasing(s, set) ==
  \A j, k \in 1 .. Len(s) : j < k /\ s[j] \in set /\ s[k] \in set => s[j] < s[k]
Distinct(s) == \A j, k \in 1 .. Len(s) : s[j] = s[k] => j = k
Msgs(timed) == {t.msg : t \in timed}

Unexecuted(p) == Msgs(p.asked) \union Elements(p.requests)
Replied(p) == Msgs(p.due) \union Elements(p.replies) \union p.shown

\* What is in a place is awaited or comes late, and what is past was made, ...
Awaited(p) ==
  /\ \A m \in Unexecuted(p) \union p.held \union Replied(p) :
       m <= p.made /\ m \notin p.answered
  /\ \A m \in Unexecuted(p) \union p.held : p.lost < m
  /\ \A m \in Replied(p) : p.lost < m \/ m \in p.stray
  /\ \A m \in p.stray : 0 < m /\ m < p.lost
  /\ p.lost <= p.made /\ \A m \in p.answered : m <= p.made

\* ... requests are queued in the order they were made, ...
QueuedAsMade(p) ==
  /\ Increasing(p.requests, Nat)
  /\ \A m \in Elements(p.requests), t \in p.asked : m < t.msg
  /\ \A s, t \in p.asked : s.msg = t.msg => s = t

\* ... and executed in that order.
ExecutedAsMade(p) ==
  \A m \in Unexecuted(p), x \in p.held \union Replied(p) \union p.sync : x < m

\* An executed request is in one place, once.
OnePlace(p) ==
  /\ \A m \in p.held : m \notin Replied(p)
  /\ \A m \in Msgs(p.due) : m \notin Elements(p.replies) /\ m \notin p.shown
  /\ \A m \in Elements(p.replies) : m \notin p.shown
  /\ \A s, t \in p.due : s.msg = t.msg => s = t
  /\ Distinct(p.replies)

\* A synchronous reply is not lost before it is taken, ...
NotLost(p) ==
  \A m \in p.sync :
    /\ m <= p.made /\ m \notin p.held
    /\ m > p.lost /\ m \notin p.answered => m \in Replied(p)

\* ... is due no later than the last one and after those of earlier requests, ...
DueInOrder(p) ==
  /\ \A t \in p.due : t.msg \in p.sync => t.left <= p.last
  /\ \A s, t \in p.due : {s.msg, t.msg} \subseteq p.sync /\ s.msg < t.msg => s.left <= t.left

\* ... follows them from place to place, ...
FollowsEarlier(p) ==
  /\ \A m \in Msgs(p.due) \cap p.sync, x \in (Elements(p.replies) \union p.shown) \cap p.sync :
       x < m
  /\ \A m \in Elements(p.replies) \cap p.sync, x \in p.shown \cap p.sync : x < m
  /\ Increasing(p.replies, p.sync)

\* ... and was taken after them.
TakenInOrder(p) ==
  \A m, n \in p.sync :
    m < n /\ p.lost < m /\ m <= p.made /\ m \notin p.answered => n \notin p.answered

InPlace(p) ==
  /\ Awaited(p) /\ QueuedAsMade(p) /\ ExecutedAsMade(p) /\ OnePlace(p)
  /\ NotLost(p) /\ DueInOrder(p) /\ FollowsEarlier(p) /\ TakenInOrder(p)

\* The first of a sequence is taken.
LEMMA TakeHead ==
  ASSUME NEW s \in Seq(Nat), s # <<>>
  PROVE  /\ Head(s) \in Nat /\ Tail(s) \in Seq(Nat)
         /\ Elements(s) = {Head(s)} \union Elements(Tail(s))
         /\ \A set \in SUBSET Nat :
              Increasing(s, set) =>
                /\ Increasing(Tail(s), set)
                /\ Head(s) \in set => \A m \in Elements(Tail(s)) \cap set : Head(s) < m
         /\ Distinct(s) => Distinct(Tail(s)) /\ Head(s) \notin Elements(Tail(s))
<1>1. /\ Len(s) \in Nat /\ Len(s) > 0 /\ Head(s) = s[1] /\ s[1] \in Nat
      /\ Tail(s) \in Seq(Nat) /\ Len(Tail(s)) = Len(s) - 1
      /\ \A k \in 1 .. Len(s) - 1 : Tail(s)[k] = s[k + 1]
  OBVIOUS
<1>2. Elements(s) = {Head(s)} \union Elements(Tail(s))
  <2>1. ASSUME NEW k \in 1 .. Len(s)  PROVE s[k] \in {Head(s)} \union Elements(Tail(s))
    <3>1. CASE k = 1
      BY <1>1, <3>1
    <3>2. CASE k # 1
      <4>1. k - 1 \in 1 .. Len(Tail(s)) /\ Tail(s)[k - 1] = s[k]
        BY <1>1, <3>2
      <4> QED BY <4>1 DEF Elements
    <3> QED BY <3>1, <3>2
  <2>2. ASSUME NEW k \in 1 .. Len(Tail(s))  PROVE Tail(s)[k] \in Elements(s)
    <3>1. k + 1 \in 1 .. Len(s) /\ Tail(s)[k] = s[k + 1]
      BY <1>1
    <3> QED BY <3>1 DEF Elements
  <2>3. Head(s) \in Elements(s)
    BY <1>1 DEF Elements
  <2> QED BY <2>1, <2>2, <2>3 DEF Elements
<1>3. ASSUME NEW set \in SUBSET Nat, Increasing(s, set)
      PROVE  /\ Increasing(Tail(s), set)
             /\ Head(s) \in set => \A m \in Elements(Tail(s)) \cap set : Head(s) < m
  BY <1>1, <1>3 DEF Increasing, Elements
<1>4. Distinct(s) => Distinct(Tail(s)) /\ Head(s) \notin Elements(Tail(s))
  BY <1>1 DEF Distinct, Elements
<1> QED BY <1>1, <1>2, <1>3, <1>4

\* A sequence gets a new last element.
LEMMA PutLast ==
  ASSUME NEW s \in Seq(Nat), NEW m \in Nat
  PROVE  /\ Append(s, m) \in Seq(Nat)
         /\ Elements(Append(s, m)) = Elements(s) \union {m}
         /\ \A set \in SUBSET Nat :
              Increasing(s, set) /\ (m \in set => \A x \in Elements(s) \cap set : x < m)
                => Increasing(Append(s, m), set)
         /\ Distinct(s) /\ m \notin Elements(s) => Distinct(Append(s, m))
<1>1. /\ Len(s) \in Nat /\ Append(s, m) \in Seq(Nat) /\ Len(Append(s, m)) = Len(s) + 1
      /\ \A k \in 1 .. Len(s) : Append(s, m)[k] = s[k]
      /\ Append(s, m)[Len(s) + 1] = m
  OBVIOUS
<1>2. \A k \in 1 .. Len(s) + 1 : k \in 1 .. Len(s) \/ k = Len(s) + 1
  BY <1>1
<1>3. 1 .. Len(s) \subseteq 1 .. Len(s) + 1 /\ Len(s) + 1 \in 1 .. Len(s) + 1
  BY <1>1
<1>4. Elements(Append(s, m)) = Elements(s) \union {m}
  BY <1>1, <1>2, <1>3 DEF Elements
<1>5. ASSUME NEW set \in SUBSET Nat, Increasing(s, set),
             m \in set => \A x \in Elements(s) \cap set : x < m
      PROVE  Increasing(Append(s, m), set)
  BY <1>1, <1>2, <1>5 DEF Increasing, Elements
<1>6. Distinct(s) /\ m \notin Elements(s) => Distinct(Append(s, m))
  BY <1>1, <1>2 DEF Distinct, Elements
<1> QED BY <1>1, <1>4, <1>5, <1>6

-----------------------------------------------------------------------------
\* The messages in the places are numbers.
LEMMA MailTypes ==
  ASSUME NEW p \in Mail
  PROVE  /\ p.asked \subseteq Timed /\ p.due \subseteq Timed
         /\ p.requests \in Seq(Nat) /\ p.replies \in Seq(Nat)
         /\ Msgs(p.asked) \subseteq Nat /\ Msgs(p.due) \subseteq Nat
         /\ Elements(p.requests) \subseteq Nat /\ Elements(p.replies) \subseteq Nat
         /\ p.held \subseteq Nat /\ p.shown \subseteq Nat
         /\ p.answered \subseteq Nat /\ p.sync \subseteq Nat /\ p.stray \subseteq Nat
         /\ p.last \in Nat /\ p.made \in Nat /\ p.lost \in Nat
         /\ Unexecuted(p) \subseteq Nat /\ Replied(p) \subseteq Nat
<1>1. /\ p.asked \subseteq Timed /\ p.due \subseteq Timed
      /\ p.requests \in Seq(Nat) /\ p.replies \in Seq(Nat)
      /\ p.held \subseteq Nat /\ p.shown \subseteq Nat
      /\ p.answered \subseteq Nat /\ p.sync \subseteq Nat /\ p.stray \subseteq Nat
      /\ p.last \in Nat /\ p.made \in Nat /\ p.lost \in Nat
  BY DEF Mail
<1>2. Msgs(p.asked) \subseteq Nat /\ Msgs(p.due) \subseteq Nat
  BY <1>1 DEF Msgs, Timed
<1>3. Elements(p.requests) \subseteq Nat /\ Elements(p.replies) \subseteq Nat
  BY <1>1 DEF Elements
<1> QED BY <1>1, <1>2, <1>3 DEF Unexecuted, Replied

\* A request arrives: the earliest that is asked for is queued.
LEMMA RequestArrives ==
  ASSUME NEW p \in Mail, InPlace(p), NEW t \in p.asked, \A s \in p.asked : t.msg <= s.msg
  PROVE  InPlace([p EXCEPT !.asked = @ \ {t}, !.requests = Append(@, t.msg)])
<1>1. PICK q : q = [p EXCEPT !.asked = @ \ {t}, !.requests = Append(@, t.msg)]
  OBVIOUS
<1>2. /\ q.asked = p.asked \ {t} /\ q.requests = Append(p.requests, t.msg)
      /\ q.held = p.held /\ q.last = p.last /\ q.due = p.due /\ q.replies = p.replies
      /\ q.shown = p.shown /\ q.made = p.made /\ q.lost = p.lost
      /\ q.answered = p.answered /\ q.sync = p.sync /\ q.stray = p.stray
  BY <1>1 DEF Mail
<1>3. t \in Timed /\ t.msg \in Nat
  BY MailTypes DEF Timed
<1>4. /\ Elements(q.requests) = Elements(p.requests) \union {t.msg}
      /\ Increasing(p.requests, Nat) /\ (\A x \in Elements(p.requests) : x < t.msg)
           => Increasing(q.requests, Nat)
  BY <1>2, <1>3, PutLast, MailTypes
<1>5. /\ Unexecuted(q) = Unexecuted(p) /\ Replied(q) = Replied(p)
  BY <1>2, <1>4 DEF Unexecuted, Replied, Msgs
<1>6. QueuedAsMade(q)
  <2>1. Increasing(q.requests, Nat)
    BY <1>4 DEF InPlace, QueuedAsMade
  <2>2. ASSUME NEW s \in q.asked  PROVE t.msg < s.msg
    <3>1. s \in p.asked /\ s # t /\ s.msg \in Nat
      BY <1>2, <2>2, MailTypes DEF Timed
    <3>2. s.msg # t.msg
      BY <3>1 DEF InPlace, QueuedAsMade
    <3> QED BY <1>3, <3>1, <3>2
  <2> QED BY <1>2, <1>4, <2>1, <2>2 DEF InPlace, QueuedAsMade
<1>7. Awaited(q) /\ ExecutedAsMade(q) /\ OnePlace(q) /\ NotLost(q)
  BY <1>2, <1>5 DEF InPlace, Awaited, ExecutedAsMade, OnePlace, NotLost
<1>8. DueInOrder(q) /\ FollowsEarlier(q) /\ TakenInOrder(q)
  BY <1>2 DEF InPlace, DueInOrder, FollowsEarlier, TakenInOrder
<1> QED BY <1>1, <1>6, <1>7, <1>8 DEF InPlace

\* The first of the queued requests: every other one comes later, and it is in no other place.
LEMMA FirstRequest ==
  ASSUME NEW p \in Mail, InPlace(p), p.requests # <<>>
  PROVE  LET msg == Head(p.requests)
             q == [p EXCEPT !.requests = Tail(@)]
         IN /\ msg \in Nat /\ q \in Mail /\ InPlace(q)
            /\ p.lost < msg /\ msg <= p.made /\ msg \notin p.answered
            /\ \A m \in Unexecuted(q) : msg < m
            /\ \A x \in p.held \union Replied(p) \union p.sync : x < msg
<1>1. PICK msg : msg = Head(p.requests)
  OBVIOUS
<1>2. PICK q : q = [p EXCEPT !.requests = Tail(@)]
  OBVIOUS
<1>3. /\ q.requests = Tail(p.requests) /\ q.asked = p.asked
      /\ q.held = p.held /\ q.last = p.last /\ q.due = p.due /\ q.replies = p.replies
      /\ q.shown = p.shown /\ q.made = p.made /\ q.lost = p.lost
      /\ q.answered = p.answered /\ q.sync = p.sync /\ q.stray = p.stray
  BY <1>2 DEF Mail
<1>4. /\ msg \in Nat /\ q.requests \in Seq(Nat)
      /\ Elements(p.requests) = {msg} \union Elements(q.requests)
      /\ Increasing(q.requests, Nat) /\ \A m \in Elements(q.requests) : msg < m
  <2>1. Increasing(p.requests, Nat) /\ p.requests \in Seq(Nat)
    BY MailTypes DEF InPlace, QueuedAsMade
  <2>2. /\ msg \in Nat /\ q.requests \in Seq(Nat)
        /\ Elements(p.requests) = {msg} \union Elements(q.requests)
        /\ Increasing(q.requests, Nat) /\ \A m \in Elements(q.requests) \cap Nat : msg < m
    BY <1>1, <1>3, <2>1, TakeHead
  <2>3. Elements(q.requests) \subseteq Nat
    BY <2>2 DEF Elements
  <2> QED BY <2>2, <2>3
<1>5. q \in Mail
  BY <1>2, <1>4 DEF Mail
<1>6. /\ Unexecuted(q) \subseteq Unexecuted(p) /\ msg \in Unexecuted(p)
      /\ Replied(q) = Replied(p)
  BY <1>3, <1>4 DEF Unexecuted, Replied
<1>7. \A m \in Unexecuted(q) : msg < m
  <2>1. msg \in Elements(p.requests)
    BY <1>4
  <2>2. \A t \in q.asked : msg < t.msg
    BY <1>3, <2>1 DEF InPlace, QueuedAsMade
  <2> QED BY <1>4, <2>2 DEF Unexecuted, Msgs
<1>8. /\ p.lost < msg /\ msg <= p.made /\ msg \notin p.answered
      /\ \A x \in p.held \union Replied(p) \union p.sync : x < msg
  BY <1>6 DEF InPlace, Awaited, ExecutedAsMade
<1>9. Awaited(q) /\ QueuedAsMade(q) /\ ExecutedAsMade(q)
  BY <1>3, <1>4, <1>6 DEF InPlace, Awaited, QueuedAsMade, ExecutedAsMade
<1>10. OnePlace(q) /\ NotLost(q) /\ DueInOrder(q) /\ FollowsEarlier(q) /\ TakenInOrder(q)
  BY <1>3, <1>6 DEF InPlace, OnePlace, NotLost, DueInOrder, FollowsEarlier, TakenInOrder
<1> QED BY <1>1, <1>2, <1>4, <1>5, <1>7, <1>8, <1>9, <1>10 DEF InPlace

\* A request that is not in a place, and comes after all that were executed, is kept.
LEMMA MailKept ==
  ASSUME NEW p \in Mail, InPlace(p), NEW msg \in Nat,
         p.lost < msg, msg <= p.made, msg \notin p.answered,
         \A m \in Unexecuted(p) : msg < m,
         \A x \in p.held \union Replied(p) \union p.sync : x < msg
  PROVE  InPlace([p EXCEPT !.held = @ \union {msg}])
<1>1. PICK q : q = [p EXCEPT !.held = @ \union {msg}]
  OBVIOUS
<1>2. /\ q.held = p.held \union {msg} /\ q.requests = p.requests /\ q.asked = p.asked
      /\ q.last = p.last /\ q.due = p.due /\ q.replies = p.replies
      /\ q.shown = p.shown /\ q.made = p.made /\ q.lost = p.lost
      /\ q.answered = p.answered /\ q.sync = p.sync /\ q.stray = p.stray
  BY <1>1 DEF Mail
<1>3. Unexecuted(q) = Unexecuted(p) /\ Replied(q) = Replied(p)
  BY <1>2 DEF Unexecuted, Replied
<1>4. msg \notin Replied(p) /\ msg \notin p.sync
  BY MailTypes
<1>5. Awaited(q) /\ QueuedAsMade(q) /\ ExecutedAsMade(q)
  BY <1>2, <1>3 DEF InPlace, Awaited, QueuedAsMade, ExecutedAsMade
<1>6. OnePlace(q) /\ NotLost(q)
  BY <1>2, <1>3, <1>4 DEF InPlace, OnePlace, NotLost
<1>7. DueInOrder(q) /\ FollowsEarlier(q) /\ TakenInOrder(q)
  BY <1>2 DEF InPlace, DueInOrder, FollowsEarlier, TakenInOrder
<1> QED BY <1>1, <1>5, <1>6, <1>7 DEF InPlace

\* Such a request gets a synchronous reply, due after the last one.
LEMMA MailScheduled ==
  ASSUME NEW p \in Mail, InPlace(p), NEW msg \in Nat, NEW left \in Nat, p.last <= left,
         p.lost < msg, msg <= p.made, msg \notin p.answered,
         \A m \in Unexecuted(p) : msg < m,
         \A x \in p.held \union Replied(p) \union p.sync : x < msg
  PROVE  InPlace([p EXCEPT !.last = left, !.sync = @ \union {msg},
                           !.due = @ \union {[msg |-> msg, left |-> left]}])
<1>1. PICK t : t = [msg |-> msg, left |-> left]
  OBVIOUS
<1>2. PICK q : q = [p EXCEPT !.last = left, !.sync = @ \union {msg}, !.due = @ \union {t}]
  OBVIOUS
<1>3. /\ q.held = p.held /\ q.requests = p.requests /\ q.asked = p.asked
      /\ q.last = left /\ q.due = p.due \union {t} /\ q.replies = p.replies
      /\ q.shown = p.shown /\ q.made = p.made /\ q.lost = p.lost
      /\ q.answered = p.answered /\ q.sync = p.sync \union {msg} /\ q.stray = p.stray
  BY <1>2 DEF Mail
<1>4. t.msg = msg /\ t.left = left
  BY <1>1
<1>5. Msgs(q.due) = Msgs(p.due) \union {msg}
  BY <1>3, <1>4 DEF Msgs
<1>6. Unexecuted(q) = Unexecuted(p) /\ Replied(q) = Replied(p) \union {msg}
  BY <1>3, <1>5 DEF Unexecuted, Replied
<1>7. msg \notin Replied(p) /\ msg \notin p.sync /\ msg \notin p.held
  BY MailTypes
<1>8. /\ msg \notin Msgs(p.due) /\ msg \notin Elements(p.replies) /\ msg \notin p.shown
  BY <1>7 DEF Replied
<1>9. Awaited(q) /\ QueuedAsMade(q) /\ ExecutedAsMade(q)
  BY <1>3, <1>6 DEF InPlace, Awaited, QueuedAsMade, ExecutedAsMade
<1>10. OnePlace(q)
  <2>1. \A m \in q.held : m \notin Replied(q)
    BY <1>3, <1>6, <1>7 DEF InPlace, OnePlace
  <2>2. \A m \in Msgs(q.due) : m \notin Elements(q.replies) /\ m \notin q.shown
    BY <1>3, <1>5, <1>8 DEF InPlace, OnePlace
  <2>3. \A s, u \in q.due : s.msg = u.msg => s = u
    BY <1>3, <1>4, <1>8 DEF InPlace, OnePlace, Msgs
  <2> QED BY <1>3, <2>1, <2>2, <2>3 DEF InPlace, OnePlace
<1>11. NotLost(q)
  BY <1>3, <1>6, <1>7 DEF InPlace, NotLost
<1>12. DueInOrder(q)
  <2>1. ASSUME NEW s \in p.due, s.msg \in q.sync  PROVE s.msg \in p.sync /\ s.left <= left
    <3>1. s.msg \in p.sync
      BY <1>3, <1>8, <2>1 DEF Msgs
    <3>2. s.left <= p.last /\ s.left \in Nat /\ p.last \in Nat
      BY <3>1, MailTypes DEF InPlace, DueInOrder, Timed
    <3> QED BY <3>1, <3>2
  <2>2. \A s \in q.due : s.msg \in q.sync => s.left <= q.last
    BY <1>3, <1>4, <2>1
  <2>3. ASSUME NEW s \in q.due, NEW u \in q.due, {s.msg, u.msg} \subseteq q.sync, s.msg < u.msg
        PROVE  s.left <= u.left
    <3>1. CASE u = t
      BY <1>3, <1>4, <2>1, <2>3, <3>1
    <3>2. CASE u # t
      <4>1. u \in p.due /\ u.msg \in p.sync /\ u.msg < msg
        BY <1>3, <2>1, <2>3, <3>2
      <4>2. s \in p.due /\ s.msg \in p.sync
        <5>1. s # t
          BY <1>4, <2>3, <4>1, MailTypes
        <5> QED BY <1>3, <2>1, <2>3, <5>1
      <4> QED BY <2>3, <4>1, <4>2 DEF InPlace, DueInOrder
    <3> QED BY <3>1, <3>2
  <2> QED BY <2>2, <2>3 DEF DueInOrder
<1>13. FollowsEarlier(q)
  <2>1. Elements(q.replies) \cap q.sync = Elements(p.replies) \cap p.sync
        /\ q.shown \cap q.sync = p.shown \cap p.sync
    BY <1>3, <1>8
  <2>2. \A x \in (Elements(q.replies) \union q.shown) \cap q.sync : x < msg
    BY <1>3, <2>1
  <2>3. Increasing(q.replies, q.sync)
    <3>1. \A k \in 1 .. Len(p.replies) : p.replies[k] # msg
      BY <1>8 DEF Elements
    <3> QED BY <1>3, <3>1 DEF InPlace, FollowsEarlier, Increasing
  <2>4. \A m \in Msgs(q.due) \cap q.sync, x \in (Elements(q.replies) \union q.shown) \cap q.sync :
          x < m
    BY <1>3, <1>5, <1>8, <2>1, <2>2 DEF InPlace, FollowsEarlier
  <2> QED BY <2>1, <2>3, <2>4 DEF InPlace, FollowsEarlier
<1>14. TakenInOrder(q)
  BY <1>3, MailTypes DEF InPlace, TakenInOrder
<1> QED BY <1>1, <1>2, <1>9, <1>10, <1>11, <1>12, <1>13, <1>14 DEF InPlace

\* A restart of IOS for the request msg: what came before is lost, and all places are empty
\* but for the late replies to some requests that were kept.
LEMMA MailLost ==
  ASSUME NEW p \in Mail, InPlace(p), NEW msg \in Nat, p.lost < msg, msg <= p.made,
         \A x \in p.held \union p.sync : x < msg, NEW late \in SUBSET p.held
  PROVE  InPlace([p EXCEPT !.asked = {}, !.requests = <<>>, !.held = {}, !.last = 0,
                           !.due = LateReplies(late), !.replies = <<>>, !.shown = {},
                           !.lost = msg, !.stray = @ \union late])
<1>1. PICK q : q = [p EXCEPT !.asked = {}, !.requests = <<>>, !.held = {}, !.last = 0,
                             !.due = LateReplies(late), !.replies = <<>>, !.shown = {},
                             !.lost = msg, !.stray = @ \union late]
  OBVIOUS
<1>2. /\ q.asked = {} /\ q.requests = <<>> /\ q.held = {} /\ q.last = 0
      /\ q.due = LateReplies(late) /\ q.replies = <<>> /\ q.shown = {} /\ q.lost = msg
      /\ q.made = p.made /\ q.answered = p.answered /\ q.sync = p.sync
      /\ q.stray = p.stray \union late
  BY <1>1 DEF Mail
<1>3. Msgs(LateReplies(late)) = late
  <2>1. ASSUME NEW m \in late  PROVE m \in Msgs(LateReplies(late))
    <3>1. [msg |-> m, left |-> 0] \in LateReplies(late) /\ [msg |-> m, left |-> 0].msg = m
      BY DEF LateReplies
    <3> QED BY <3>1 DEF Msgs
  <2>2. \A t \in LateReplies(late) : t.msg \in late
    BY DEF LateReplies
  <2> QED BY <2>1, <2>2 DEF Msgs
<1>4. /\ Unexecuted(q) = {} /\ Replied(q) = late /\ Msgs(q.due) = late
      /\ Elements(q.replies) = {} /\ Elements(q.requests) = {}
  <2>1. Elements(q.replies) = {} /\ Elements(q.requests) = {} /\ Msgs(q.asked) = {}
    BY <1>2 DEF Elements, Msgs
  <2> QED BY <1>2, <1>3, <2>1 DEF Unexecuted, Replied
<1>5. \A s, t \in q.due : s.msg = t.msg => s = t
  BY <1>2 DEF LateReplies
<1>6. late \subseteq Nat /\ p.stray \subseteq Nat /\ p.lost \in Nat /\ p.made \in Nat
  BY MailTypes
<1>7. \A m \in late : 0 < m /\ m < msg /\ m <= p.made /\ m \notin p.answered /\ m \notin p.sync
  <2>1. ASSUME NEW m \in late
        PROVE  p.lost < m /\ m <= p.made /\ m < msg /\ m \notin p.answered /\ m \notin p.sync
    BY DEF InPlace, Awaited, NotLost
  <2> QED BY <1>6, <2>1
<1>8. Awaited(q)
  <2>1. \A m \in q.stray : 0 < m /\ m < q.lost
    <3>1. \A m \in p.stray : 0 < m /\ m < p.lost
      BY DEF InPlace, Awaited
    <3>2. ASSUME NEW m \in p.stray  PROVE 0 < m /\ m < msg
      <4>1. m \in Nat /\ p.lost \in Nat /\ 0 < m /\ m < p.lost /\ p.lost < msg
        BY <1>6, <3>1
      <4> QED BY <4>1
    <3> QED BY <1>2, <1>7, <3>2
  <2> QED BY <1>2, <1>4, <1>7, <2>1 DEF InPlace, Awaited
<1>9. QueuedAsMade(q) /\ ExecutedAsMade(q) /\ OnePlace(q)
  BY <1>2, <1>4, <1>5 DEF QueuedAsMade, ExecutedAsMade, OnePlace, Increasing, Distinct
<1>10. NotLost(q) /\ TakenInOrder(q)
  BY <1>2, MailTypes DEF InPlace, NotLost, TakenInOrder
<1>11. DueInOrder(q) /\ FollowsEarlier(q)
  <2>1. \A t \in q.due : t.msg \in late /\ t.msg \notin q.sync
    BY <1>2, <1>7 DEF LateReplies
  <2> QED BY <1>2, <1>4, <2>1 DEF DueInOrder, FollowsEarlier, Increasing
<1> QED BY <1>1, <1>8, <1>9, <1>10, <1>11 DEF InPlace

\* The first of the queued replies is shown.
LEMMA ReplyShown ==
  ASSUME NEW p \in Mail, InPlace(p), p.replies # <<>>, p.shown = {}
  PROVE  InPlace([p EXCEPT !.replies = Tail(@), !.shown = {Head(p.replies)}])
<1>1. PICK msg : msg = Head(p.replies)
  OBVIOUS
<1>2. PICK q : q = [p EXCEPT !.replies = Tail(@), !.shown = {msg}]
  OBVIOUS
<1>3. /\ q.held = p.held /\ q.requests = p.requests /\ q.asked = p.asked
      /\ q.last = p.last /\ q.due = p.due /\ q.replies = Tail(p.replies)
      /\ q.shown = {msg} /\ q.made = p.made /\ q.lost = p.lost
      /\ q.answered = p.answered /\ q.sync = p.sync /\ q.stray = p.stray
  BY <1>2 DEF Mail
<1>4. /\ Elements(p.replies) = {msg} \union Elements(q.replies)
      /\ Distinct(q.replies) /\ msg \notin Elements(q.replies)
      /\ Increasing(q.replies, p.sync)
      /\ msg \in p.sync => \A m \in Elements(q.replies) \cap p.sync : msg < m
  <2>1. Distinct(p.replies) /\ Increasing(p.replies, p.sync)
    BY DEF InPlace, OnePlace, FollowsEarlier
  <2>2. p.replies \in Seq(Nat) /\ p.sync \in SUBSET Nat
    BY MailTypes
  <2> QED BY <1>1, <1>3, <2>1, <2>2, TakeHead
<1>5. Unexecuted(q) = Unexecuted(p) /\ Replied(q) = Replied(p)
  BY <1>3, <1>4 DEF Unexecuted, Replied
<1>6. Awaited(q) /\ QueuedAsMade(q) /\ ExecutedAsMade(q) /\ NotLost(q)
  BY <1>3, <1>5 DEF InPlace, Awaited, QueuedAsMade, ExecutedAsMade, NotLost
<1>7. OnePlace(q)
  BY <1>3, <1>4, <1>5 DEF InPlace, OnePlace
<1>8. DueInOrder(q) /\ TakenInOrder(q)
  BY <1>3 DEF InPlace, DueInOrder, TakenInOrder
<1>9. FollowsEarlier(q)
  BY <1>3, <1>4 DEF InPlace, FollowsEarlier
<1> QED BY <1>1, <1>2, <1>6, <1>7, <1>8, <1>9 DEF InPlace

\* A reply that is due is queued: of those of synchronous requests, the earliest.
LEMMA ReplyArrives ==
  ASSUME NEW p \in Mail, InPlace(p), NEW t \in p.due, t.left = 0,
         \A s \in p.due : s.left = 0 /\ {s.msg, t.msg} \subseteq p.sync => t.msg <= s.msg
  PROVE  InPlace([p EXCEPT !.due = @ \ {t}, !.replies = Append(@, t.msg)])
<1>1. PICK q : q = [p EXCEPT !.due = @ \ {t}, !.replies = Append(@, t.msg)]
  OBVIOUS
<1>2. /\ q.held = p.held /\ q.requests = p.requests /\ q.asked = p.asked
      /\ q.last = p.last /\ q.due = p.due \ {t} /\ q.replies = Append(p.replies, t.msg)
      /\ q.shown = p.shown /\ q.made = p.made /\ q.lost = p.lost
      /\ q.answered = p.answered /\ q.sync = p.sync /\ q.stray = p.stray
  BY <1>1 DEF Mail
<1>3. /\ t \in Timed /\ t.msg \in Nat /\ t.msg \in Msgs(p.due)
      /\ t.msg \notin Elements(p.replies) /\ t.msg \notin p.shown
  BY MailTypes DEF Timed, Msgs, InPlace, OnePlace
<1>4. /\ Elements(q.replies) = Elements(p.replies) \union {t.msg}
      /\ Distinct(q.replies) /\ Increasing(q.replies, p.sync)
  <2>1. Distinct(p.replies) /\ Increasing(p.replies, p.sync)
    BY DEF InPlace, OnePlace, FollowsEarlier
  <2>2. t.msg \in p.sync => \A x \in Elements(p.replies) \cap p.sync : x < t.msg
    BY <1>3 DEF InPlace, FollowsEarlier
  <2> QED BY <1>2, <1>3, <2>1, <2>2, PutLast, MailTypes
<1>5. Msgs(p.due) = Msgs(q.due) \union {t.msg} /\ t.msg \notin Msgs(q.due)
  BY <1>2 DEF Msgs, InPlace, OnePlace
<1>6. Unexecuted(q) = Unexecuted(p) /\ Replied(q) = Replied(p)
  BY <1>2, <1>4, <1>5 DEF Unexecuted, Replied
<1>7. Awaited(q) /\ QueuedAsMade(q) /\ ExecutedAsMade(q) /\ NotLost(q)
  BY <1>2, <1>6 DEF InPlace, Awaited, QueuedAsMade, ExecutedAsMade, NotLost
<1>8. OnePlace(q)
  <2>1. \A m \in Msgs(q.due) : m \notin Elements(q.replies) /\ m \notin q.shown
    BY <1>2, <1>4, <1>5 DEF InPlace, OnePlace
  <2>2. \A m \in Elements(q.replies) : m \notin q.shown
    BY <1>2, <1>3, <1>4 DEF InPlace, OnePlace
  <2> QED BY <1>2, <1>4, <1>6, <2>1, <2>2 DEF InPlace, OnePlace
<1>9. DueInOrder(q) /\ TakenInOrder(q)
  BY <1>2 DEF InPlace, DueInOrder, TakenInOrder
<1>10. FollowsEarlier(q)
  <2>1. ASSUME NEW s \in q.due, {s.msg, t.msg} \subseteq p.sync  PROVE t.msg < s.msg
    <3>1. s \in p.due /\ s.left \in Nat /\ s.msg \in Nat
      BY <1>2, MailTypes DEF Timed
    <3>2. s.msg # t.msg
      BY <1>5 DEF Msgs
    <3>3. s.msg < t.msg => s.left = 0
      BY <2>1, <3>1 DEF InPlace, DueInOrder
    <3>4. s.left = 0 => t.msg <= s.msg
      BY <2>1, <3>1
    <3> QED BY <1>3, <3>1, <3>2, <3>3, <3>4
  <2>2. \A m \in Msgs(q.due) \cap p.sync : t.msg \in p.sync => t.msg < m
    BY <2>1 DEF Msgs
  <2>3. \A m \in Msgs(q.due) \cap q.sync, x \in (Elements(q.replies) \union q.shown) \cap q.sync :
          x < m
    BY <1>2, <1>4, <1>5, <2>2 DEF InPlace, FollowsEarlier
  <2>4. \A m \in Elements(q.replies) \cap q.sync, x \in q.shown \cap q.sync : x < m
    BY <1>2, <1>3, <1>4 DEF InPlace, FollowsEarlier
  <2> QED BY <1>2, <1>4, <2>3, <2>4 DEF FollowsEarlier
<1> QED BY <1>1, <1>7, <1>8, <1>9, <1>10 DEF InPlace

\* A device replies to a request that it kept.
LEMMA HeldReplied ==
  ASSUME NEW p \in Mail, InPlace(p), NEW msg \in p.held
  PROVE  InPlace([p EXCEPT !.held = @ \ {msg},
                           !.due = @ \union {[msg |-> msg, left |-> 0]}])
<1>1. PICK t : t = [msg |-> msg, left |-> 0]
  OBVIOUS
<1>2. PICK q : q = [p EXCEPT !.held = @ \ {msg}, !.due = @ \union {t}]
  OBVIOUS
<1>3. /\ q.held = p.held \ {msg} /\ q.requests = p.requests /\ q.asked = p.asked
      /\ q.last = p.last /\ q.due = p.due \union {t} /\ q.replies = p.replies
      /\ q.shown = p.shown /\ q.made = p.made /\ q.lost = p.lost
      /\ q.answered = p.answered /\ q.sync = p.sync /\ q.stray = p.stray
  BY <1>2 DEF Mail
<1>4. t.msg = msg /\ msg \notin p.sync /\ msg \notin Replied(p)
  BY <1>1 DEF InPlace, OnePlace, NotLost
<1>5. Msgs(q.due) = Msgs(p.due) \union {msg}
  BY <1>3, <1>4 DEF Msgs
<1>6. Unexecuted(q) = Unexecuted(p) /\ Replied(q) = Replied(p) \union {msg}
  BY <1>3, <1>5 DEF Unexecuted, Replied
<1>7. msg \notin Msgs(p.due) /\ msg \notin Elements(p.replies) /\ msg \notin p.shown
  BY <1>4 DEF Replied
<1>8. Awaited(q) /\ QueuedAsMade(q) /\ ExecutedAsMade(q) /\ NotLost(q)
  BY <1>3, <1>6 DEF InPlace, Awaited, QueuedAsMade, ExecutedAsMade, NotLost
<1>9. OnePlace(q)
  <2>1. \A m \in q.held : m \notin Replied(q)
    BY <1>3, <1>6 DEF InPlace, OnePlace
  <2>2. \A m \in Msgs(q.due) : m \notin Elements(q.replies) /\ m \notin q.shown
    BY <1>3, <1>5, <1>7 DEF InPlace, OnePlace
  <2>3. \A s, u \in q.due : s.msg = u.msg => s = u
    BY <1>3, <1>4, <1>7 DEF InPlace, OnePlace, Msgs
  <2> QED BY <1>3, <2>1, <2>2, <2>3 DEF InPlace, OnePlace
<1>10. DueInOrder(q) /\ TakenInOrder(q)
  BY <1>3, <1>4 DEF InPlace, DueInOrder, TakenInOrder
<1>11. FollowsEarlier(q)
  BY <1>3, <1>4, <1>5 DEF InPlace, FollowsEarlier
<1> QED BY <1>1, <1>2, <1>8, <1>9, <1>10, <1>11 DEF InPlace

\* Time passes: what is due comes nearer in the same order.
LEMMA NearerOrder ==
  ASSUME NEW timed \in SUBSET Timed, \A t \in timed : t.left # 0
  PROVE  /\ Msgs(Nearer(timed)) = Msgs(timed)
         /\ \A u \in Nearer(timed) :
              \E t \in timed : /\ u.msg = t.msg /\ u.left = t.left - 1 /\ t.left - 1 \in Nat
                               /\ u = [t EXCEPT !.left = @ - 1]
<1>1. ASSUME NEW t \in timed, NEW u, u = [t EXCEPT !.left = @ - 1]
      PROVE  u.msg = t.msg /\ u.left = t.left - 1 /\ t.left - 1 \in Nat
  BY <1>1 DEF Timed
<1>2. ASSUME NEW u \in Nearer(timed)
      PROVE  \E t \in timed : /\ u.msg = t.msg /\ u.left = t.left - 1 /\ t.left - 1 \in Nat
                              /\ u = [t EXCEPT !.left = @ - 1]
  <2>1. PICK t \in timed : u = [t EXCEPT !.left = @ - 1]
    BY <1>2 DEF Nearer
  <2>2. u.msg = t.msg /\ u.left = t.left - 1 /\ t.left - 1 \in Nat
    BY <1>1, <2>1
  <2> QED BY <2>1, <2>2
<1>3. ASSUME NEW t \in timed  PROVE \E u \in Nearer(timed) : u.msg = t.msg
  <2>1. PICK u : u = [t EXCEPT !.left = @ - 1]
    OBVIOUS
  <2>2. u \in Nearer(timed)
    BY <2>1 DEF Nearer
  <2>3. u.msg = t.msg
    BY <1>1, <2>1
  <2> QED BY <2>2, <2>3
<1>4. Msgs(Nearer(timed)) = Msgs(timed)
  <2>1. \A u \in Nearer(timed) : \E t \in timed : u.msg = t.msg
    BY <1>2
  <2> QED BY <1>3, <2>1 DEF Msgs
<1> QED BY <1>2, <1>4

\* So a tick keeps what is in its place.
LEMMA MailTick ==
  ASSUME NEW p \in Mail, InPlace(p),
         \A t \in p.asked : t.left # 0, \A t \in p.due : t.left # 0
  PROVE  InPlace([p EXCEPT !.asked = Nearer(@), !.due = Nearer(@), !.last = LastNearer(@)])
<1>1. PICK q : q = [p EXCEPT !.asked = Nearer(@), !.due = Nearer(@), !.last = LastNearer(@)]
  OBVIOUS
<1>2. /\ q.held = p.held /\ q.requests = p.requests /\ q.asked = Nearer(p.asked)
      /\ q.last = LastNearer(p.last) /\ q.due = Nearer(p.due) /\ q.replies = p.replies
      /\ q.shown = p.shown /\ q.made = p.made /\ q.lost = p.lost
      /\ q.answered = p.answered /\ q.sync = p.sync /\ q.stray = p.stray
  BY <1>1 DEF Mail
<1>3. /\ Msgs(q.asked) = Msgs(p.asked)
      /\ \A u \in q.asked : \E t \in p.asked : u.msg = t.msg /\ u = [t EXCEPT !.left = @ - 1]
  BY <1>2, NearerOrder, MailTypes
<1>4. /\ Msgs(q.due) = Msgs(p.due)
      /\ \A u \in q.due : \E t \in p.due : /\ u.msg = t.msg /\ u.left = t.left - 1
                                           /\ t.left - 1 \in Nat
                                           /\ u = [t EXCEPT !.left = @ - 1]
  BY <1>2, NearerOrder, MailTypes
<1>5. Unexecuted(q) = Unexecuted(p) /\ Replied(q) = Replied(p)
  BY <1>2, <1>3, <1>4 DEF Unexecuted, Replied
<1>6. Awaited(q) /\ ExecutedAsMade(q) /\ NotLost(q)
  BY <1>2, <1>5 DEF InPlace, Awaited, ExecutedAsMade, NotLost
<1>7. QueuedAsMade(q)
  <2>1. \A s, t \in q.asked : s.msg = t.msg => s = t
    BY <1>3 DEF InPlace, QueuedAsMade
  <2>2. \A m \in Elements(q.requests), t \in q.asked : m < t.msg
    BY <1>2, <1>3 DEF InPlace, QueuedAsMade
  <2> QED BY <1>2, <2>1, <2>2 DEF InPlace, QueuedAsMade
<1>8. OnePlace(q)
  <2>1. \A s, t \in q.due : s.msg = t.msg => s = t
    BY <1>4 DEF InPlace, OnePlace
  <2> QED BY <1>2, <1>4, <1>5, <2>1 DEF InPlace, OnePlace
<1>9. DueInOrder(q)
  <2>1. ASSUME NEW u \in q.due, u.msg \in q.sync  PROVE u.left <= q.last
    <3>1. PICK t \in p.due : u.msg = t.msg /\ u.left = t.left - 1 /\ t.left - 1 \in Nat
      BY <1>4, <2>1
    <3>2. t.left <= p.last /\ p.last \in Nat /\ t.left \in Nat
      BY <1>2, <2>1, <3>1, MailTypes DEF InPlace, DueInOrder, Timed
    <3> QED BY <1>2, <3>1, <3>2 DEF LastNearer
  <2>2. ASSUME NEW u \in q.due, NEW v \in q.due, {u.msg, v.msg} \subseteq q.sync, u.msg < v.msg
        PROVE  u.left <= v.left
    <3>1. PICK s \in p.due : u.msg = s.msg /\ u.left = s.left - 1
      BY <1>4, <2>2
    <3>2. PICK t \in p.due : v.msg = t.msg /\ v.left = t.left - 1
      BY <1>4, <2>2
    <3>3. s.left <= t.left /\ s.left \in Nat /\ t.left \in Nat
      BY <1>2, <2>2, <3>1, <3>2, MailTypes DEF InPlace, DueInOrder, Timed
    <3> QED BY <3>1, <3>2, <3>3
  <2> QED BY <2>1, <2>2 DEF DueInOrder
<1>10. FollowsEarlier(q) /\ TakenInOrder(q)
  BY <1>2, <1>4 DEF InPlace, FollowsEarlier, TakenInOrder
<1> QED BY <1>1, <1>6, <1>7, <1>8, <1>9, <1>10 DEF InPlace

\* The program makes a request.
LEMMA RequestMade ==
  ASSUME NEW p \in Mail, InPlace(p), NEW left \in Nat
  PROVE  InPlace([p EXCEPT !.made = @ + 1,
                           !.asked = @ \union {[msg |-> p.made + 1, left |-> left]}])
<1>1. PICK t : t = [msg |-> p.made + 1, left |-> left]
  OBVIOUS
<1>2. PICK q : q = [p EXCEPT !.made = @ + 1, !.asked = @ \union {t}]
  OBVIOUS
<1>3. /\ q.held = p.held /\ q.requests = p.requests /\ q.asked = p.asked \union {t}
      /\ q.last = p.last /\ q.due = p.due /\ q.replies = p.replies
      /\ q.shown = p.shown /\ q.made = p.made + 1 /\ q.lost = p.lost
      /\ q.answered = p.answered /\ q.sync = p.sync /\ q.stray = p.stray
  BY <1>2 DEF Mail
<1>4. t.msg = p.made + 1 /\ p.made \in Nat /\ p.lost \in Nat /\ p.answered \subseteq Nat
  BY <1>1, MailTypes
<1>5. Msgs(q.asked) = Msgs(p.asked) \union {p.made + 1}
  BY <1>3, <1>4 DEF Msgs
<1>6. Unexecuted(q) = Unexecuted(p) \union {p.made + 1} /\ Replied(q) = Replied(p)
  BY <1>3, <1>5 DEF Unexecuted, Replied
<1>7. \A m \in Unexecuted(p) \union p.held \union Replied(p) \union p.sync : m < p.made + 1
  <2>1. \A m \in Unexecuted(p) \union p.held \union Replied(p) \union p.sync :
          m \in Nat /\ m <= p.made
    BY MailTypes DEF InPlace, Awaited, NotLost
  <2> QED BY <1>4, <2>1
<1>8. Awaited(q)
  <2>1. p.made + 1 \notin p.answered /\ p.lost < p.made + 1
    BY <1>4 DEF InPlace, Awaited
  <2>2. \A m \in Unexecuted(p) \union p.held \union Replied(p) : m <= p.made + 1
    BY <1>4, <1>7, MailTypes
  <2>3. p.lost <= p.made + 1 /\ \A m \in p.answered : m <= p.made + 1
    BY <1>4 DEF InPlace, Awaited
  <2> QED BY <1>3, <1>4, <1>6, <2>1, <2>2, <2>3 DEF InPlace, Awaited
<1>9. QueuedAsMade(q)
  <2>1. \A m \in Elements(p.requests) : m < t.msg
    BY <1>4, <1>7 DEF Unexecuted
  <2>2. \A s \in p.asked : s.msg # t.msg
    BY <1>4, <1>7 DEF Unexecuted, Msgs
  <2> QED BY <1>3, <2>1, <2>2 DEF InPlace, QueuedAsMade
<1>10. ExecutedAsMade(q)
  BY <1>3, <1>6, <1>7 DEF InPlace, ExecutedAsMade
<1>11. OnePlace(q)
  BY <1>3, <1>6 DEF InPlace, OnePlace
<1>12. NotLost(q)
  <2>1. \A m \in p.sync : m <= p.made + 1
    BY <1>4, <1>7, MailTypes
  <2> QED BY <1>3, <1>6, <2>1 DEF InPlace, NotLost
<1>13. DueInOrder(q) /\ FollowsEarlier(q)
  BY <1>3 DEF InPlace, DueInOrder, FollowsEarlier
<1>14. TakenInOrder(q)
  <2>1. \A m \in p.sync : m <= p.made
    BY DEF InPlace, NotLost
  <2> QED BY <1>3, <2>1 DEF InPlace, TakenInOrder
<1> QED BY <1>1, <1>2, <1>8, <1>9, <1>10, <1>11, <1>12, <1>13, <1>14 DEF InPlace

\* The program takes the reply that it is shown.
LEMMA ReplyTaken ==
  ASSUME NEW p \in Mail, InPlace(p), NEW msg \in Nat, p.shown = {msg}
  PROVE  InPlace([p EXCEPT !.shown = {}, !.answered = @ \union {msg}])
<1>1. PICK q : q = [p EXCEPT !.shown = {}, !.answered = @ \union {msg}]
  OBVIOUS
<1>2. /\ q.held = p.held /\ q.requests = p.requests /\ q.asked = p.asked
      /\ q.last = p.last /\ q.due = p.due /\ q.replies = p.replies
      /\ q.shown = {} /\ q.made = p.made /\ q.lost = p.lost
      /\ q.answered = p.answered \union {msg} /\ q.sync = p.sync /\ q.stray = p.stray
  BY <1>1 DEF Mail
<1>3. /\ msg \in Replied(p) /\ msg \notin p.held /\ msg \notin Msgs(p.due)
      /\ msg \notin Elements(p.replies)
  BY DEF InPlace, OnePlace, Replied
<1>4. msg \notin Unexecuted(p)
  BY <1>3, MailTypes DEF InPlace, ExecutedAsMade
<1>5. Unexecuted(q) = Unexecuted(p) /\ Replied(q) = Replied(p) \ {msg}
  BY <1>2, <1>3 DEF Unexecuted, Replied
<1>6. Awaited(q) /\ QueuedAsMade(q) /\ ExecutedAsMade(q)
  BY <1>2, <1>3, <1>4, <1>5 DEF InPlace, Awaited, QueuedAsMade, ExecutedAsMade
<1>7. OnePlace(q) /\ NotLost(q)
  BY <1>2, <1>5 DEF InPlace, OnePlace, NotLost
<1>8. DueInOrder(q) /\ FollowsEarlier(q)
  BY <1>2 DEF InPlace, DueInOrder, FollowsEarlier
<1>9. TakenInOrder(q)
  <2>1. SUFFICES ASSUME NEW m \in p.sync, NEW n \in p.sync, m < n, p.lost < m, m <= p.made,
                        m \notin p.answered, m # msg, n \in p.answered \union {msg}
                 PROVE  FALSE
    BY <1>2 DEF TakenInOrder
  <2>2. n = msg
    BY <2>1 DEF InPlace, TakenInOrder
  <2>3. m \in Replied(p)
    BY <2>1, MailTypes DEF InPlace, NotLost
  <2>4. m \in Msgs(p.due) \union Elements(p.replies)
    BY <2>1, <2>3 DEF Replied
  <2>5. msg < m
    BY <2>2, <2>4 DEF InPlace, FollowsEarlier
  <2>6. m \in Nat /\ n \in Nat
    BY MailTypes
  <2> QED BY <2>1, <2>2, <2>5, <2>6
<1> QED BY <1>1, <1>6, <1>7, <1>8, <1>9 DEF InPlace

-----------------------------------------------------------------------------
\* The mail of registers, a kernel and events of their types.
LEMMA MailIsMail ==
  ASSUME NEW r \in Registers, NEW i \in Kernels, NEW e \in Schedules, NEW n \in Nat,
         NEW ans \in SUBSET Nat, NEW f \in Nat, NEW sync \in SUBSET Nat
  PROVE  MailOf(r, i, e, n, ans, f, sync) \in Mail
<1>1. (IF "Y1" \in r.ctrl THEN {r.arm_msg} ELSE {}) \in SUBSET Nat
  BY DEF Registers
<1>2. /\ e.request \in SUBSET Timed /\ e.reply \in SUBSET Timed /\ i.requests \in Seq(Nat)
      /\ i.replies \in Seq(Nat) /\ i.held \in SUBSET Nat /\ i.last \in Nat
      /\ i.stray \in SUBSET Nat
  BY DEF Kernels, Schedules
<1> QED BY <1>1, <1>2 DEF Mail, MailOf

\* Only the places matter.
LEMMA SameMail ==
  ASSUME NEW p, NEW q, InPlace(p),
         q.asked = p.asked, q.requests = p.requests, q.held = p.held, q.last = p.last,
         q.due = p.due, q.replies = p.replies, q.shown = p.shown, q.made = p.made,
         q.lost = p.lost, q.answered = p.answered, q.sync = p.sync, q.stray = p.stray
  PROVE  InPlace(q)
<1>1. Unexecuted(q) = Unexecuted(p) /\ Replied(q) = Replied(p)
  BY DEF Unexecuted, Replied
<1>2. Awaited(q) /\ QueuedAsMade(q) /\ ExecutedAsMade(q) /\ OnePlace(q) /\ NotLost(q)
  BY <1>1 DEF InPlace, Awaited, QueuedAsMade, ExecutedAsMade, OnePlace, NotLost
<1>3. DueInOrder(q) /\ FollowsEarlier(q) /\ TakenInOrder(q)
  BY DEF InPlace, DueInOrder, FollowsEarlier, TakenInOrder
<1> QED BY <1>2, <1>3 DEF InPlace

\* The fields of the mail.
LEMMA MailFields ==
  ASSUME NEW r, NEW i, NEW e, NEW n, NEW ans, NEW f, NEW sync,
         NEW p, InPlace(p), IsMail(p, r, i, e, n, ans, f, sync)
  PROVE  InPlace(MailOf(r, i, e, n, ans, f, sync))
<1>1. PICK q : q = MailOf(r, i, e, n, ans, f, sync)
  OBVIOUS
<1>2. /\ q.asked = p.asked /\ q.requests = p.requests /\ q.held = p.held /\ q.last = p.last
      /\ q.due = p.due /\ q.replies = p.replies /\ q.shown = p.shown /\ q.made = p.made
      /\ q.lost = p.lost /\ q.answered = p.answered /\ q.sync = p.sync /\ q.stray = p.stray
  BY <1>1 DEF MailOf, IsMail
<1> QED BY <1>1, <1>2, SameMail

\* Executing a request leaves everything in its place.
LEMMA ExecuteKeepsMail ==
  ASSUME TypeOK, NEW r \in Registers, NEW i \in Kernels, NEW e \in Schedules, NEW n \in Nat,
         NEW ans \in SUBSET Nat, InPlace(MailOf(r, i, e, n, ans, forgotten, synchronous)),
         IsReady(r), i.requests # <<>>, reg' = GenerateAck(ClearX1(r)),
         ExecuteIPCCommand(Head(i.requests), [i EXCEPT !.requests = Tail(@)],
                           ScheduleUpdate(e, InterruptTicks))
  PROVE  InPlace(MailOf(reg', ios', events', n, ans, forgotten', synchronous'))
<1>1. PICK p : p = MailOf(r, i, e, n, ans, forgotten, synchronous)
  OBVIOUS
<1>2. PICK msg : msg = Head(i.requests)
  OBVIOUS
<1>3. PICK q : q = [p EXCEPT !.requests = Tail(@)]
  OBVIOUS
<1>4. forgotten \in Nat /\ synchronous \in SUBSET Nat
  BY DEF TypeOK
<1>5. p \in Mail /\ InPlace(p) /\ p.requests = i.requests /\ p.requests # <<>>
  BY <1>1, <1>4, MailIsMail DEF MailOf
<1>6. /\ msg \in Nat /\ q \in Mail /\ InPlace(q)
      /\ p.lost < msg /\ msg <= p.made /\ msg \notin p.answered
      /\ \A m \in Unexecuted(q) : msg < m
      /\ \A x \in p.held \union Replied(p) \union p.sync : x < msg
  BY <1>2, <1>3, <1>5, FirstRequest
<1>7. /\ q.lost = forgotten /\ q.made = n /\ q.answered = ans /\ q.sync = synchronous
      /\ q.stray = i.stray
      /\ q.held = i.held /\ q.last = i.last /\ q.shown = {} /\ q.asked = e.request
      /\ q.requests = Tail(i.requests) /\ q.due = e.reply /\ q.replies = i.replies
  BY <1>1, <1>3, <1>5 DEF MailOf, IsReady
<1>8. /\ p.lost = q.lost /\ p.made = q.made /\ p.answered = q.answered /\ p.sync = q.sync
      /\ p.stray = q.stray
      /\ p.held = q.held /\ Replied(p) = Replied(q)
  BY <1>3, <1>5 DEF Mail, Replied
<1>9. /\ q.lost < msg /\ msg <= q.made /\ msg \notin q.answered
      /\ \A x \in q.held \union Replied(q) \union q.sync : x < msg
  BY <1>6, <1>8
<1>10. "Y1" \notin reg'.ctrl
  BY DEF GenerateAck, ClearX1, IsReady, Registers
<1>11. PICK j : j = [i EXCEPT !.requests = Tail(@)]
  OBVIOUS
<1>12. /\ j.requests = Tail(i.requests) /\ j.held = i.held /\ j.stray = i.stray /\ j.last = i.last
       /\ j.replies = i.replies /\ j.acks = i.acks /\ j \in Kernels
  <2>1. i.requests \in Seq(Nat) /\ i.requests # <<>>
    BY DEF Kernels
  <2>2. Tail(i.requests) \in Seq(Nat)
    BY <2>1
  <2> QED BY <1>11, <2>2 DEF Kernels
<1>13. PICK d : d = ScheduleUpdate(e, InterruptTicks)
  OBVIOUS
<1>14. d.request = e.request /\ d.reply = e.reply /\ d \in Schedules
  <2>1. d \in Schedules
    BY <1>13, ScheduleSteps, TicksAssumption
  <2> QED BY <1>13, <2>1 DEF ScheduleUpdate, Schedules
<1>15. ExecuteIPCCommand(msg, j, d)
  BY <1>2, <1>11, <1>13
<1>16. CASE \E delay \in ReplyTicks : ReplyLater(msg, delay, j, d)
  <2>1. PICK delay \in ReplyTicks : ReplyLater(msg, delay, j, d)
    BY <1>16
  <2>2. PICK left : left = ReplyAt(j, delay)
    OBVIOUS
  <2>3. left \in Nat /\ q.last <= left
    BY <1>7, <1>12, <2>2, TicksAssumption DEF ReplyAt, Kernels
  <2>4. /\ ios' = [j EXCEPT !.last = left]
        /\ events' = [d EXCEPT !.reply = @ \union {[msg |-> msg, left |-> left]}]
        /\ synchronous' = synchronous \union {msg} /\ forgotten' = forgotten
    BY <2>1, <2>2 DEF ReplyLater
  <2>5. PICK a : a = [q EXCEPT !.last = left, !.sync = @ \union {msg},
                               !.due = @ \union {[msg |-> msg, left |-> left]}]
    OBVIOUS
  <2>6. /\ ios'.requests = Tail(i.requests) /\ ios'.held = i.held /\ ios'.stray = i.stray
        /\ ios'.last = left
        /\ ios'.replies = i.replies
    BY <1>12, <2>4 DEF Kernels
  <2>7. /\ events'.request = e.request
        /\ events'.reply = e.reply \union {[msg |-> msg, left |-> left]}
    BY <1>14, <2>4 DEF Schedules
  <2>8. InPlace(a)
    BY <1>6, <1>9, <2>3, <2>5, MailScheduled
  <2>9. /\ a.asked = q.asked /\ a.requests = q.requests /\ a.held = q.held /\ a.last = left
        /\ a.due = q.due \union {[msg |-> msg, left |-> left]} /\ a.replies = q.replies
        /\ a.shown = q.shown /\ a.made = q.made /\ a.lost = q.lost
        /\ a.answered = q.answered /\ a.sync = q.sync \union {msg} /\ a.stray = q.stray
    BY <1>6, <2>5 DEF Mail
  <2>10. IsMail(a, reg', ios', events', n, ans, forgotten', synchronous')
    BY <1>7, <1>10, <2>4, <2>6, <2>7, <2>9 DEF IsMail
  <2> QED BY <2>8, <2>10, MailFields
<1>17. CASE Keep(msg, j, d)
  <2>1. /\ ios' = [j EXCEPT !.held = @ \union {msg}] /\ events' = d
        /\ synchronous' = synchronous /\ forgotten' = forgotten
    BY <1>17 DEF Keep
  <2>2. PICK a : a = [q EXCEPT !.held = @ \union {msg}]
    OBVIOUS
  <2>3. /\ ios'.requests = Tail(i.requests) /\ ios'.held = i.held \union {msg} /\ ios'.stray = i.stray
        /\ ios'.last = i.last /\ ios'.replies = i.replies
    BY <1>12, <2>1 DEF Kernels
  <2>4. InPlace(a)
    BY <1>6, <1>9, <2>2, MailKept
  <2>5. /\ a.asked = q.asked /\ a.requests = q.requests /\ a.held = q.held \union {msg}
        /\ a.last = q.last /\ a.due = q.due /\ a.replies = q.replies
        /\ a.shown = q.shown /\ a.made = q.made /\ a.lost = q.lost
        /\ a.answered = q.answered /\ a.sync = q.sync /\ a.stray = q.stray
    BY <1>6, <2>2 DEF Mail
  <2>6. IsMail(a, reg', ios', events', n, ans, forgotten', synchronous')
    BY <1>7, <1>10, <1>14, <2>1, <2>3, <2>5 DEF IsMail
  <2> QED BY <2>4, <2>6, MailFields
<1>18. CASE \E late \in SUBSET j.held : BootIOS(msg, j, d, late)
  <2>1. PICK late \in SUBSET j.held : BootIOS(msg, j, d, late)
    BY <1>18
  <2>2. /\ ios' = [NewKernel EXCEPT !.stray = j.stray \union late]
        /\ events' = [d EXCEPT !.request = {}, !.reply = LateReplies(late), !.ack = TRUE]
        /\ synchronous' = synchronous /\ forgotten' = msg
    BY <2>1 DEF BootIOS
  <2>3. PICK a : a = [q EXCEPT !.asked = {}, !.requests = <<>>, !.held = {}, !.last = 0,
                               !.due = LateReplies(late), !.replies = <<>>, !.shown = {},
                               !.lost = msg, !.stray = @ \union late]
    OBVIOUS
  <2>4. InPlace(a)
    BY <1>6, <1>7, <1>9, <1>12, <2>3, MailLost
  <2>5. /\ a.asked = {} /\ a.requests = <<>> /\ a.held = {} /\ a.last = 0
        /\ a.due = LateReplies(late) /\ a.replies = <<>> /\ a.shown = {} /\ a.made = q.made
        /\ a.lost = msg /\ a.answered = q.answered /\ a.sync = q.sync
        /\ a.stray = q.stray \union late
    BY <1>6, <2>3 DEF Mail
  <2>6. events'.request = {} /\ events'.reply = LateReplies(late)
    BY <1>14, <2>2 DEF Schedules
  <2>7. /\ ios'.requests = <<>> /\ ios'.held = {} /\ ios'.last = 0 /\ ios'.replies = <<>>
        /\ ios'.stray = i.stray \union late
    BY <1>12, <2>2 DEF NewKernel
  <2>8. IsMail(a, reg', ios', events', n, ans, forgotten', synchronous')
    BY <1>7, <1>10, <2>2, <2>5, <2>6, <2>7 DEF IsMail
  <2> QED BY <2>4, <2>8, MailFields
<1> QED BY <1>15, <1>16, <1>17, <1>18 DEF ExecuteIPCCommand

\* And so does UpdateIPC.
LEMMA UpdateKeepsMail ==
  ASSUME TypeOK, NEW r \in Registers, NEW i \in Kernels, NEW e \in Schedules, NEW n \in Nat,
         NEW ans \in SUBSET Nat, InPlace(MailOf(r, i, e, n, ans, forgotten, synchronous)),
         UpdateIPC(r, i, e)
  PROVE  InPlace(MailOf(reg', ios', events', n, ans, forgotten', synchronous'))
<1>1. forgotten \in Nat /\ synchronous \in SUBSET Nat
  BY DEF TypeOK
<1>2. PICK p : p = MailOf(r, i, e, n, ans, forgotten, synchronous)
  OBVIOUS
<1>3. p \in Mail /\ InPlace(p) /\ p.replies = i.replies
  BY <1>1, <1>2, MailIsMail DEF MailOf
<1>4. CASE reg' = r /\ ios' = i /\ events' = e /\ UNCHANGED <<synchronous, forgotten>>
  BY <1>4
<1>5. CASE /\ IsReady(r) /\ i.requests # <<>>
           /\ reg' = GenerateAck(ClearX1(r))
           /\ ExecuteIPCCommand(Head(i.requests), [i EXCEPT !.requests = Tail(@)],
                                ScheduleUpdate(e, InterruptTicks))
  BY <1>5, ExecuteKeepsMail
<1>6. /\ ScheduleUpdate(e, InterruptTicks).request = e.request
      /\ ScheduleUpdate(e, InterruptTicks).reply = e.reply
  BY DEF ScheduleUpdate, Schedules
<1>7. CASE /\ IsReady(r) /\ i.requests = <<>> /\ i.replies # <<>>
           /\ reg' = GenerateReply(r, Head(i.replies))
           /\ ios' = [i EXCEPT !.replies = Tail(@)]
           /\ events' = ScheduleUpdate(e, InterruptTicks)
           /\ UNCHANGED <<synchronous, forgotten>>
  <2>1. p.shown = {}
    BY <1>2, <1>7 DEF MailOf, IsReady
  <2>2. PICK a : a = [p EXCEPT !.replies = Tail(@), !.shown = {Head(p.replies)}]
    OBVIOUS
  <2>3. "Y1" \in reg'.ctrl /\ reg'.arm_msg = Head(i.replies)
    BY <1>7 DEF GenerateReply, Registers
  <2>4. /\ ios'.requests = i.requests /\ ios'.held = i.held /\ ios'.stray = i.stray
        /\ ios'.last = i.last /\ ios'.replies = Tail(i.replies)
    BY <1>7 DEF Kernels
  <2>5. InPlace(a)
    BY <1>3, <1>7, <2>1, <2>2, ReplyShown
  <2>6. /\ a.asked = p.asked /\ a.requests = p.requests /\ a.held = p.held /\ a.last = p.last
        /\ a.due = p.due /\ a.replies = Tail(p.replies) /\ a.shown = {Head(p.replies)}
        /\ a.made = p.made /\ a.lost = p.lost /\ a.answered = p.answered /\ a.sync = p.sync
        /\ a.stray = p.stray
    BY <1>3, <2>2 DEF Mail
  <2>7. /\ p.asked = e.request /\ p.requests = i.requests /\ p.held = i.held /\ p.last = i.last
        /\ p.due = e.reply /\ p.made = n /\ p.lost = forgotten /\ p.answered = ans
        /\ p.sync = synchronous /\ p.stray = i.stray
    BY <1>2 DEF MailOf
  <2>8. IsMail(a, reg', ios', events', n, ans, forgotten', synchronous')
    BY <1>3, <1>6, <1>7, <2>3, <2>4, <2>6, <2>7 DEF IsMail
  <2> QED BY <2>5, <2>8, MailFields
<1>8. CASE /\ IsReady(r) /\ i.requests = <<>> /\ i.replies = <<>> /\ i.acks > 0
           /\ reg' = GenerateAck(r)
           /\ ios' = [i EXCEPT !.acks = @ - 1]
           /\ events' = ScheduleUpdate(e, InterruptTicks)
           /\ UNCHANGED <<synchronous, forgotten>>
  <2>1. "Y1" \notin r.ctrl /\ "Y1" \notin reg'.ctrl
    BY <1>8 DEF GenerateAck, Registers, IsReady
  <2>2. /\ ios'.requests = i.requests /\ ios'.held = i.held /\ ios'.stray = i.stray
        /\ ios'.last = i.last /\ ios'.replies = i.replies
    BY <1>8 DEF Kernels
  <2>3. MailOf(reg', ios', events', n, ans, forgotten', synchronous') = p
    BY <1>2, <1>6, <1>8, <2>1, <2>2 DEF MailOf
  <2> QED BY <1>3, <2>3
<1> QED BY <1>4, <1>5, <1>7, <1>8 DEF UpdateIPC

-----------------------------------------------------------------------------
(***************************************************************************)
(* The acknowledgements.  As long as no state is loaded the program knows  *)
(* what it waits for: its last request is still to be executed, or it was  *)
(* and its acknowledgement is in the mailbox, or IOS restarts and all that *)
(* are missing are on the way.                                             *)
(***************************************************************************)

Acked(r) == IF "Y2" \in r.ctrl THEN 1 ELSE 0

Waits(r, i, e, n, a, l) ==
  /\ a = (IF l = 0 THEN 1 ELSE 2)
  /\ Acked(r) = 0 /\ ~e.ack /\ i.acks = 0
  /\ \/ i.requests = <<n>> /\ e.request = {}
     \/ i.requests = <<>> /\ \E t \in e.request : e.request = {t} /\ t.msg = n

Runs(r, i, e, f, a, l) ==
  /\ i.requests = <<>> /\ e.request = {} /\ ~e.ack /\ i.acks = 0
  /\ l = 0 \/ l > f
  /\ a = Acked(r) + (IF l = 0 THEN 0 ELSE 1)

Boots(r, i, e, f, a, l) ==
  /\ i.requests = <<>> /\ e.request = {}
  /\ l # 0 /\ l = f
  /\ a >= 1 /\ a = Acked(r) + i.acks + (IF e.ack THEN 1 ELSE 0)

AcksOK(r, i, e, n, f, a, l) ==
  Waits(r, i, e, n, a, l) \/ Runs(r, i, e, f, a, l) \/ Boots(r, i, e, f, a, l)

\* Before the program runs it has made no request, and the kernel's first acknowledgement
\* is on its way.
NotStarted ==
  /\ pc \in {"boot", "enable"} => sent = 0 /\ acks = 0 /\ launch = 0
  /\ pc = "boot" => reg.ctrl \subseteq {"Y2"} /\ ~reg.flag
  /\ pc = "boot" /\ loads = 0 => ios.acks = 0 /\ (events.ack => reg.ctrl = {})

\* The strengthening of ReplyIsAwaited and RepliesInOrder.
MailInv ==
  /\ InPlace(MailOf(reg, ios, events, sent, answered, forgotten, synchronous))
  /\ ~({"Y1", "Y2"} \subseteq reg.ctrl)
  /\ launch # 0 => launch = sent
  /\ NotStarted
  /\ loads = 0 /\ pc # "boot" => AcksOK(reg, ios, events, sent, forgotten, acks, launch)

\* UpdateIPC keeps the count.
LEMMA UpdateKeepsAcks ==
  ASSUME TypeOK, NEW r \in Registers, NEW i \in Kernels, NEW e \in Schedules, NEW n \in Nat,
         NEW ans \in SUBSET Nat, InPlace(MailOf(r, i, e, n, ans, forgotten, synchronous)),
         NEW a \in Nat, NEW l \in Nat, AcksOK(r, i, e, n, forgotten, a, l),
         l # 0 => l = n, i.requests # <<>> => l = launch, UpdateIPC(r, i, e)
  PROVE  AcksOK(reg', ios', events', n, forgotten', a, l)
<1>1. forgotten \in Nat /\ synchronous \in SUBSET Nat
  BY DEF TypeOK
<1>2. PICK d : d = ScheduleUpdate(e, InterruptTicks)
  OBVIOUS
<1>3. d.request = e.request /\ d.ack = e.ack /\ d \in Schedules
  <2>1. d \in Schedules
    BY <1>2, ScheduleSteps, TicksAssumption
  <2> QED BY <1>2, <2>1 DEF ScheduleUpdate, Schedules
<1>4. CASE reg' = r /\ ios' = i /\ events' = e /\ UNCHANGED <<synchronous, forgotten>>
  BY <1>4
<1>5. CASE /\ IsReady(r) /\ i.requests # <<>>
           /\ reg' = GenerateAck(ClearX1(r))
           /\ ExecuteIPCCommand(Head(i.requests), [i EXCEPT !.requests = Tail(@)],
                                ScheduleUpdate(e, InterruptTicks))
  <2>1. Waits(r, i, e, n, a, l) /\ i.requests = <<n>> /\ e.request = {} /\ l = launch
    BY <1>5 DEF AcksOK, Waits, Runs, Boots
  <2>2. PICK j : j = [i EXCEPT !.requests = Tail(@)]
    OBVIOUS
  <2>3. Head(i.requests) = n /\ Tail(i.requests) = <<>>
    BY <2>1
  <2>4. j.requests = <<>> /\ j.acks = 0 /\ j \in Kernels
    <3>1. <<>> \in Seq(Nat)
      OBVIOUS
    <3>2. j = [i EXCEPT !.requests = <<>>]
      BY <2>2, <2>3
    <3> QED BY <2>1, <3>1, <3>2 DEF Kernels, Waits
  <2>5. ExecuteIPCCommand(n, j, d)
    BY <1>2, <1>5, <2>2, <2>3
  <2>6. Acked(reg') = 1
    BY <1>5 DEF Acked, GenerateAck, ClearX1, Registers
  <2>7. n > forgotten
    <3>1. PICK p : p = MailOf(r, i, e, n, ans, forgotten, synchronous)
      OBVIOUS
    <3>2. p \in Mail /\ InPlace(p) /\ p.requests = i.requests /\ p.lost = forgotten
      BY <1>1, <3>1, MailIsMail DEF MailOf
    <3>3. p.lost < Head(p.requests)
      BY <1>5, <3>2, FirstRequest
    <3> QED BY <1>1, <2>3, <3>2, <3>3
  <2>8. ~d.ack /\ d.request = {} /\ a = (IF l = 0 THEN 1 ELSE 2)
    BY <1>3, <2>1 DEF Waits
  <2>9. ASSUME ios'.requests = <<>>, ios'.acks = 0, events'.request = {}, ~events'.ack,
               forgotten' = forgotten
        PROVE  Runs(reg', ios', events', forgotten', a, l)
    BY <1>1, <2>6, <2>7, <2>8, <2>9 DEF Runs
  <2>10. CASE \E delay \in ReplyTicks : ReplyLater(n, delay, j, d)
    <3>1. PICK delay \in ReplyTicks : ReplyLater(n, delay, j, d)
      BY <2>10
    <3>2. PICK left : left = ReplyAt(j, delay)
      OBVIOUS
    <3>3. /\ ios' = [j EXCEPT !.last = left] /\ forgotten' = forgotten
          /\ events' = [d EXCEPT !.reply = @ \union {[msg |-> n, left |-> left]}]
      BY <3>1, <3>2 DEF ReplyLater
    <3>4. ios'.requests = <<>> /\ ios'.acks = 0
      BY <2>4, <3>3 DEF Kernels
    <3>5. events'.request = {} /\ ~events'.ack
      BY <1>3, <2>8, <3>3 DEF Schedules
    <3> QED BY <2>9, <3>3, <3>4, <3>5 DEF AcksOK
  <2>11. CASE Keep(n, j, d)
    <3>1. ios'.requests = <<>> /\ ios'.acks = 0
      BY <2>4, <2>11 DEF Keep, Kernels
    <3> QED BY <2>8, <2>9, <2>11, <3>1 DEF AcksOK, Keep
  <2>12. CASE n = launch /\ \E late \in SUBSET j.held : BootIOS(n, j, d, late)
    <3>1. ios'.requests = <<>> /\ ios'.acks = 0 /\ forgotten' = n
      BY <2>12 DEF BootIOS, NewKernel
    <3>2. events'.request = {} /\ events'.ack
      BY <1>3, <2>12 DEF BootIOS, Schedules
    <3>3. l = n /\ l # 0
      BY <1>1, <2>1, <2>7, <2>12
    <3>4. Boots(reg', ios', events', forgotten', a, l)
      BY <2>6, <2>8, <3>1, <3>2, <3>3 DEF Boots
    <3> QED BY <3>4 DEF AcksOK
  <2> QED BY <2>5, <2>10, <2>11, <2>12 DEF ExecuteIPCCommand
<1>6. CASE /\ IsReady(r) /\ i.requests = <<>> /\ i.replies # <<>>
           /\ reg' = GenerateReply(r, Head(i.replies))
           /\ ios' = [i EXCEPT !.replies = Tail(@)]
           /\ events' = ScheduleUpdate(e, InterruptTicks)
           /\ UNCHANGED <<synchronous, forgotten>>
  <2>1. Acked(reg') = Acked(r)
    BY <1>6 DEF Acked, GenerateReply, Registers
  <2>2. ios'.requests = i.requests /\ ios'.acks = i.acks
    BY <1>6 DEF Kernels
  <2>3. events'.request = e.request /\ events'.ack = e.ack
    BY <1>2, <1>3, <1>6
  <2> QED BY <1>6, <2>1, <2>2, <2>3 DEF AcksOK, Waits, Runs, Boots
<1>7. CASE /\ IsReady(r) /\ i.requests = <<>> /\ i.replies = <<>> /\ i.acks > 0
           /\ reg' = GenerateAck(r)
           /\ ios' = [i EXCEPT !.acks = @ - 1]
           /\ events' = ScheduleUpdate(e, InterruptTicks)
           /\ UNCHANGED <<synchronous, forgotten>>
  <2>1. Acked(r) = 0 /\ Acked(reg') = 1
    BY <1>7 DEF Acked, GenerateAck, IsReady, Registers
  <2>2. ios'.requests = i.requests /\ ios'.acks = i.acks - 1 /\ i.acks \in Nat
    BY <1>7 DEF Kernels
  <2>3. events'.request = e.request /\ events'.ack = e.ack
    BY <1>2, <1>3, <1>7
  <2>4. Boots(r, i, e, forgotten, a, l)
    BY <1>7 DEF AcksOK, Waits, Runs
  <2>5. a = i.acks + (IF e.ack THEN 1 ELSE 0)
    BY <2>1, <2>2, <2>4 DEF Boots
  <2>6. a = 1 + ios'.acks + (IF events'.ack THEN 1 ELSE 0)
    BY <2>2, <2>3, <2>5
  <2>7. Boots(reg', ios', events', forgotten', a, l)
    BY <1>7, <2>1, <2>2, <2>3, <2>4, <2>6 DEF Boots
  <2> QED BY <2>7 DEF AcksOK
<1> QED BY <1>4, <1>5, <1>6, <1>7 DEF UpdateIPC

\* UpdateIPC never shows an acknowledgement and a reply at once.
LEMMA UpdateShowsOne ==
  ASSUME NEW r \in Registers, NEW i, NEW e, ~({"Y1", "Y2"} \subseteq r.ctrl), UpdateIPC(r, i, e)
  PROVE  ~({"Y1", "Y2"} \subseteq reg'.ctrl)
<1>1. CASE reg' = r
  BY <1>1
<1>2. CASE IsReady(r) /\ reg' = GenerateAck(ClearX1(r))
  BY <1>2 DEF IsReady, GenerateAck, ClearX1, Registers
<1>3. CASE IsReady(r) /\ reg' = GenerateReply(r, Head(i.replies))
  BY <1>3 DEF IsReady, GenerateReply, Registers
<1>4. CASE IsReady(r) /\ reg' = GenerateAck(r)
  BY <1>4 DEF IsReady, GenerateAck, Registers
<1> QED BY <1>1, <1>2, <1>3, <1>4 DEF UpdateIPC

\* So an action that ends in UpdateIPC keeps the invariant when what it passes satisfies it.
LEMMA UpdateKeeps ==
  ASSUME TypeOK, TypeOK', NEW r \in Registers, NEW i \in Kernels, NEW e \in Schedules,
         InPlace(MailOf(r, i, e, sent', answered', forgotten, synchronous)),
         ~({"Y1", "Y2"} \subseteq r.ctrl), launch' # 0 => launch' = sent', NotStarted',
         loads' = 0 /\ pc' # "boot" =>
           /\ AcksOK(r, i, e, sent', forgotten, acks', launch')
           /\ i.requests # <<>> => launch' = launch,
         UpdateIPC(r, i, e)
  PROVE  MailInv'
<1>1. PICK n : n = sent'
  OBVIOUS
<1>2. PICK ans : ans = answered'
  OBVIOUS
<1>3. PICK a : a = acks'
  OBVIOUS
<1>4. PICK l : l = launch'
  OBVIOUS
<1>5. n \in Nat /\ ans \in SUBSET Nat /\ a \in Nat /\ l \in Nat
  BY <1>1, <1>2, <1>3, <1>4 DEF TypeOK
<1>6. InPlace(MailOf(reg', ios', events', n, ans, forgotten', synchronous'))
  BY <1>1, <1>2, <1>5, UpdateKeepsMail
<1>7. loads' = 0 /\ pc' # "boot" => AcksOK(reg', ios', events', n, forgotten', a, l)
  BY <1>1, <1>2, <1>3, <1>4, <1>5, UpdateKeepsAcks
<1>8. ~({"Y1", "Y2"} \subseteq reg'.ctrl)
  BY UpdateShowsOne
<1> QED BY <1>1, <1>2, <1>3, <1>4, <1>6, <1>7, <1>8 DEF MailInv

-----------------------------------------------------------------------------
\* Before the first request every place is empty.
LEMMA NothingMade ==
  ASSUME NEW p \in Mail, InPlace(p), p.made = 0
  PROVE  /\ p.asked = {} /\ p.requests = <<>> /\ p.held = {} /\ p.due = {} /\ p.replies = <<>>
         /\ p.shown = {}
<1>1. Unexecuted(p) \union p.held \union Replied(p) = {}
  BY MailTypes DEF InPlace, Awaited
<1>2. Elements(p.requests) = {} /\ Elements(p.replies) = {}
  BY <1>1 DEF Unexecuted, Replied
<1>3. ASSUME NEW s \in Seq(Nat), Elements(s) = {}  PROVE s = <<>>
  <2>1. s # <<>> => Head(s) \in Elements(s)
    BY TakeHead
  <2> QED BY <1>3, <2>1
<1>4. p.requests = <<>> /\ p.replies = <<>>
  BY <1>2, <1>3, MailTypes
<1> QED BY <1>1, <1>4 DEF Unexecuted, Replied, Msgs

\* The mail of a state of the invariant.
LEMMA MailNow ==
  ASSUME TypeOK, MailInv
  PROVE  \E p \in Mail :
           InPlace(p) /\ IsMail(p, reg, ios, events, sent, answered, forgotten, synchronous)
<1>1. PICK p : p = MailOf(reg, ios, events, sent, answered, forgotten, synchronous)
  OBVIOUS
<1>2. p \in Mail
  BY <1>1, MailIsMail DEF TypeOK
<1>3. InPlace(p)
  BY <1>1 DEF MailInv
<1>4. IsMail(p, reg, ios, events, sent, answered, forgotten, synchronous)
  BY <1>1 DEF MailOf, IsMail
<1> QED BY <1>2, <1>3, <1>4

\* Boot: every place is empty.
LEMMA InitMailInv == Init => MailInv
<1> SUFFICES ASSUME Init  PROVE MailInv
  OBVIOUS
<1>1. TypeOK
  BY InitIndInv DEF IndInv
<1>2. PICK p : p = MailOf(reg, ios, events, sent, answered, forgotten, synchronous)
  OBVIOUS
<1>3. /\ p.asked = {} /\ p.requests = <<>> /\ p.held = {} /\ p.last = 0 /\ p.due = {}
      /\ p.replies = <<>> /\ p.shown = {} /\ p.made = 0 /\ p.lost = 0 /\ p.answered = {}
      /\ p.sync = {} /\ p.stray = {}
  BY <1>2 DEF Init, MailOf, InitState, NewKernel
<1>4. Unexecuted(p) = {} /\ Replied(p) = {} /\ Msgs(p.due) = {} /\ Elements(p.replies) = {}
      /\ Elements(p.requests) = {}
  BY <1>3 DEF Unexecuted, Replied, Msgs, Elements
<1>5. Awaited(p) /\ QueuedAsMade(p) /\ ExecutedAsMade(p) /\ OnePlace(p) /\ NotLost(p)
  BY <1>3, <1>4 DEF Awaited, QueuedAsMade, ExecutedAsMade, OnePlace, NotLost, Increasing, Distinct
<1>6. DueInOrder(p) /\ FollowsEarlier(p) /\ TakenInOrder(p)
  BY <1>3, <1>4 DEF DueInOrder, FollowsEarlier, TakenInOrder, Increasing
<1>7. NotStarted
  BY DEF Init, NotStarted, InitState, NewKernel
<1> QED BY <1>2, <1>5, <1>6, <1>7 DEF MailInv, InPlace, Init, InitState

\* A request arrives.
LEMMA RequestEventKeeps ==
  ASSUME TypeOK, TypeOK', MailInv, NEW t \in events.request, RequestEvent(t)
  PROVE  MailInv'
<1>1. PICK p \in Mail :
           InPlace(p) /\ IsMail(p, reg, ios, events, sent, answered, forgotten, synchronous)
  BY MailNow
<1>2. reg \in Registers /\ ios \in Kernels /\ events \in Schedules
  BY DEF TypeOK
<1>3. PICK i : i = [ios EXCEPT !.requests = Append(@, t.msg)]
  OBVIOUS
<1>4. PICK e : e = [events EXCEPT !.request = @ \ {t}]
  OBVIOUS
<1>5. /\ i.requests = Append(ios.requests, t.msg) /\ i.held = ios.held
      /\ i.stray = ios.stray /\ i.last = ios.last
      /\ i.replies = ios.replies /\ i.acks = ios.acks /\ i \in Kernels
  <2>1. t.msg \in Nat /\ ios.requests \in Seq(Nat)
    BY <1>2 DEF Schedules, Timed, Kernels
  <2>2. Append(ios.requests, t.msg) \in Seq(Nat)
    BY <2>1
  <2>3. i = [ios EXCEPT !.requests = Append(ios.requests, t.msg)]
    BY <1>3
  <2> QED BY <1>2, <2>2, <2>3 DEF Kernels
<1>6. /\ e.request = events.request \ {t} /\ e.reply = events.reply /\ e.ack = events.ack
      /\ e \in Schedules
  BY <1>2, <1>4 DEF Schedules
<1>7. UpdateIPC(reg, i, e) /\ UNCHANGED <<pc, sent, acks, launch, answered, loads>>
  BY <1>3, <1>4 DEF RequestEvent, program
<1>8. InPlace(MailOf(reg, i, e, sent, answered, forgotten, synchronous))
  <2>1. PICK a : a = [p EXCEPT !.asked = @ \ {t}, !.requests = Append(@, t.msg)]
    OBVIOUS
  <2>2. InPlace(a)
    BY <1>1, <2>1, RequestArrives DEF RequestEvent, IsMail
  <2>3. /\ a.asked = p.asked \ {t} /\ a.requests = Append(p.requests, t.msg)
        /\ a.held = p.held /\ a.last = p.last /\ a.due = p.due /\ a.replies = p.replies
        /\ a.shown = p.shown /\ a.made = p.made /\ a.lost = p.lost
        /\ a.answered = p.answered /\ a.sync = p.sync /\ a.stray = p.stray
    BY <2>1 DEF Mail
  <2>4. IsMail(a, reg, i, e, sent, answered, forgotten, synchronous)
    BY <1>1, <1>5, <1>6, <2>3 DEF IsMail
  <2> QED BY <2>2, <2>4, MailFields
<1>9. sent # 0
  BY <1>1, NothingMade DEF IsMail
<1>10. NotStarted'
  BY <1>7, <1>9 DEF NotStarted, MailInv
<1>11. ASSUME loads' = 0, pc' # "boot"
       PROVE  AcksOK(reg, i, e, sent, forgotten, acks, launch)
  <2>1. AcksOK(reg, ios, events, sent, forgotten, acks, launch)
    BY <1>7, <1>11 DEF MailInv
  <2>2. Waits(reg, ios, events, sent, acks, launch)
    BY <2>1 DEF AcksOK, Runs, Boots
  <2>3. ios.requests = <<>> /\ events.request = {t} /\ t.msg = sent
    BY <2>2 DEF Waits
  <2>4. i.requests = <<sent>> /\ e.request = {}
    BY <1>5, <1>6, <2>3
  <2> QED BY <1>5, <1>6, <2>2, <2>4 DEF AcksOK, Waits
<1>12. PICK r \in Registers : r = reg
  BY <1>2
<1> QED BY <1>5, <1>6, <1>7, <1>8, <1>10, <1>11, <1>12, UpdateKeeps DEF MailInv

\* A reply is due.
LEMMA ReplyEventKeeps ==
  ASSUME TypeOK, TypeOK', MailInv, NEW t \in events.reply, ReplyEvent(t)
  PROVE  MailInv'
<1>1. PICK p \in Mail :
           InPlace(p) /\ IsMail(p, reg, ios, events, sent, answered, forgotten, synchronous)
  BY MailNow
<1>2. reg \in Registers /\ ios \in Kernels /\ events \in Schedules
  BY DEF TypeOK
<1>3. PICK i : i = [ios EXCEPT !.replies = Append(@, t.msg)]
  OBVIOUS
<1>4. PICK e : e = [events EXCEPT !.reply = @ \ {t}]
  OBVIOUS
<1>5. /\ i.replies = Append(ios.replies, t.msg) /\ i.held = ios.held
      /\ i.stray = ios.stray /\ i.last = ios.last
      /\ i.requests = ios.requests /\ i.acks = ios.acks /\ i \in Kernels
  <2>1. t.msg \in Nat /\ ios.replies \in Seq(Nat)
    BY <1>2 DEF Schedules, Timed, Kernels
  <2>2. Append(ios.replies, t.msg) \in Seq(Nat)
    BY <2>1
  <2>3. i = [ios EXCEPT !.replies = Append(ios.replies, t.msg)]
    BY <1>3
  <2> QED BY <1>2, <2>2, <2>3 DEF Kernels
<1>6. /\ e.request = events.request /\ e.reply = events.reply \ {t} /\ e.ack = events.ack
      /\ e \in Schedules
  BY <1>2, <1>4 DEF Schedules
<1>7. UpdateIPC(reg, i, e) /\ UNCHANGED <<pc, sent, acks, launch, answered, loads>>
  BY <1>3, <1>4 DEF ReplyEvent, program
<1>8. InPlace(MailOf(reg, i, e, sent, answered, forgotten, synchronous))
  <2>1. PICK a : a = [p EXCEPT !.due = @ \ {t}, !.replies = Append(@, t.msg)]
    OBVIOUS
  <2>2. InPlace(a)
    BY <1>1, <2>1, ReplyArrives DEF ReplyEvent, IsMail
  <2>3. /\ a.asked = p.asked /\ a.requests = p.requests /\ a.held = p.held
        /\ a.last = p.last /\ a.due = p.due \ {t} /\ a.replies = Append(p.replies, t.msg)
        /\ a.shown = p.shown /\ a.made = p.made /\ a.lost = p.lost
        /\ a.answered = p.answered /\ a.sync = p.sync /\ a.stray = p.stray
    BY <2>1 DEF Mail
  <2>4. IsMail(a, reg, i, e, sent, answered, forgotten, synchronous)
    BY <1>1, <1>5, <1>6, <2>3 DEF IsMail
  <2> QED BY <2>2, <2>4, MailFields
<1>9. sent # 0
  BY <1>1, NothingMade DEF IsMail
<1>10. NotStarted'
  BY <1>7, <1>9 DEF NotStarted, MailInv
<1>11. ASSUME loads' = 0, pc' # "boot"
       PROVE  AcksOK(reg, i, e, sent, forgotten, acks, launch)
  <2>1. AcksOK(reg, ios, events, sent, forgotten, acks, launch)
    BY <1>7, <1>11 DEF MailInv
  <2> QED BY <1>5, <1>6, <2>1 DEF AcksOK, Waits, Runs, Boots
<1>12. PICK r \in Registers : r = reg
  BY <1>2
<1> QED BY <1>5, <1>6, <1>7, <1>8, <1>10, <1>11, <1>12, UpdateKeeps DEF MailInv

\* The acknowledgement of a new kernel is due.
LEMMA AckEventKeeps ==
  ASSUME TypeOK, TypeOK', MailInv, AckEvent
  PROVE  MailInv'
<1>1. PICK p \in Mail :
           InPlace(p) /\ IsMail(p, reg, ios, events, sent, answered, forgotten, synchronous)
  BY MailNow
<1>2. reg \in Registers /\ ios \in Kernels /\ events \in Schedules
  BY DEF TypeOK
<1>3. PICK i : i = [ios EXCEPT !.acks = @ + 1]
  OBVIOUS
<1>4. PICK e : e = [events EXCEPT !.ack = FALSE]
  OBVIOUS
<1>5. /\ i.replies = ios.replies /\ i.held = ios.held /\ i.stray = ios.stray /\ i.last = ios.last
      /\ i.requests = ios.requests /\ i.acks = ios.acks + 1 /\ ios.acks \in Nat /\ i \in Kernels
  <2>1. ios.acks \in Nat /\ ios.acks + 1 \in Nat
    BY <1>2 DEF Kernels
  <2> QED BY <1>2, <1>3, <2>1 DEF Kernels
<1>6. /\ e.request = events.request /\ e.reply = events.reply /\ ~e.ack /\ events.ack
      /\ e \in Schedules
  BY <1>2, <1>4 DEF Schedules, AckEvent
<1>7. UpdateIPC(reg, i, e) /\ UNCHANGED <<pc, sent, acks, launch, answered, loads>>
  BY <1>3, <1>4 DEF AckEvent, program
<1>8. InPlace(MailOf(reg, i, e, sent, answered, forgotten, synchronous))
  <2>1. IsMail(p, reg, i, e, sent, answered, forgotten, synchronous)
    BY <1>1, <1>5, <1>6 DEF IsMail
  <2> QED BY <1>1, <2>1, MailFields
<1>9. NotStarted'
  <2>1. CASE pc # "boot"
    BY <1>7, <2>1 DEF NotStarted, MailInv
  <2>2. CASE pc = "boot"
    <3>1. sent = 0 /\ reg.ctrl \subseteq {"Y2"} /\ ~reg.flag
      BY <2>2 DEF NotStarted, MailInv
    <3>2. i.requests = <<>> /\ i.replies = <<>>
      BY <1>1, <1>5, <3>1, NothingMade DEF IsMail
    <3>3. PICK d : d = ScheduleUpdate(e, InterruptTicks)
      OBVIOUS
    <3>4. ~d.ack
      BY <1>6, <3>3 DEF ScheduleUpdate, Schedules
    <3>5. CASE ~IsReady(reg) /\ reg' = reg /\ ios' = i /\ events' = e
      <4>1. reg.ctrl # {}
        BY <3>1, <3>5 DEF IsReady
      <4>2. loads # 0
        BY <1>6, <2>2, <4>1 DEF MailInv, NotStarted
      <4> QED BY <1>6, <1>7, <2>2, <3>1, <3>5, <4>2 DEF MailInv, NotStarted
    <3>6. CASE /\ IsReady(reg) /\ reg' = GenerateAck(reg)
               /\ ios' = [i EXCEPT !.acks = @ - 1] /\ events' = d
      <4>1. reg'.ctrl \subseteq {"Y2"} /\ ~reg'.flag
        BY <1>2, <3>1, <3>6 DEF GenerateAck, Registers
      <4>2. ios'.acks = ios.acks
        BY <1>5, <3>6 DEF Kernels
      <4> QED BY <1>7, <2>2, <3>1, <3>4, <3>6, <4>1, <4>2 DEF MailInv, NotStarted
    <3>7. i.acks # 0
      BY <1>5
    <3> QED BY <1>7, <3>2, <3>3, <3>5, <3>6, <3>7 DEF UpdateIPC
  <2> QED BY <2>1, <2>2
<1>10. ASSUME loads' = 0, pc' # "boot"
       PROVE  AcksOK(reg, i, e, sent, forgotten, acks, launch)
  <2>1. AcksOK(reg, ios, events, sent, forgotten, acks, launch)
    BY <1>7, <1>10 DEF MailInv
  <2>2. Boots(reg, ios, events, forgotten, acks, launch)
    BY <1>6, <2>1 DEF AcksOK, Waits, Runs
  <2>3. acks = Acked(reg) + i.acks
    BY <1>5, <1>6, <2>2 DEF Boots, Acked
  <2>4. acks = Acked(reg) + i.acks + (IF e.ack THEN 1 ELSE 0)
    BY <1>5, <1>6, <2>3 DEF Acked
  <2> QED BY <1>5, <1>6, <2>2, <2>4 DEF AcksOK, Boots
<1>11. PICK r \in Registers : r = reg
  BY <1>2
<1> QED BY <1>5, <1>6, <1>7, <1>8, <1>9, <1>10, <1>11, UpdateKeeps DEF MailInv

\* A device replies, the interrupt is updated, time passes, or a state is loaded: the kernel
\* sends nothing.
LEMMA OthersKeep ==
  ASSUME TypeOK, TypeOK', MailInv,
         \/ \E msg \in ios.held : DeviceReply(msg)
         \/ UpdateInterrupts \/ Tick
         \/ \E queued \in 0..1 : LoadState(queued)
  PROVE  MailInv'
<1>1. PICK p \in Mail :
           InPlace(p) /\ IsMail(p, reg, ios, events, sent, answered, forgotten, synchronous)
  BY MailNow
<1>2. reg \in Registers /\ ios \in Kernels /\ events \in Schedules
  BY DEF TypeOK
<1>3. ASSUME NEW msg \in ios.held, DeviceReply(msg)  PROVE MailInv'
  <2>1. /\ ios' = [ios EXCEPT !.held = @ \ {msg}]
        /\ events' = [events EXCEPT !.reply = @ \union {[msg |-> msg, left |-> 0]}]
        /\ UNCHANGED <<reg, synchronous, forgotten, pc, sent, acks, launch, answered, loads>>
    BY <1>3 DEF DeviceReply, program
  <2>2. /\ ios'.requests = ios.requests /\ ios'.replies = ios.replies /\ ios'.last = ios.last
        /\ ios'.acks = ios.acks /\ ios'.held = ios.held \ {msg} /\ ios'.stray = ios.stray
    BY <1>2, <2>1 DEF Kernels
  <2>3. /\ events'.request = events.request /\ events'.ack = events.ack
        /\ events'.reply = events.reply \union {[msg |-> msg, left |-> 0]}
    BY <1>2, <2>1 DEF Schedules
  <2>4. PICK a : a = [p EXCEPT !.held = @ \ {msg}, !.due = @ \union {[msg |-> msg, left |-> 0]}]
    OBVIOUS
  <2>5. InPlace(a)
    BY <1>1, <1>3, <2>4, HeldReplied DEF IsMail
  <2>6. /\ a.asked = p.asked /\ a.requests = p.requests /\ a.held = p.held \ {msg}
        /\ a.last = p.last /\ a.due = p.due \union {[msg |-> msg, left |-> 0]}
        /\ a.replies = p.replies
        /\ a.shown = p.shown /\ a.made = p.made /\ a.lost = p.lost
        /\ a.answered = p.answered /\ a.sync = p.sync /\ a.stray = p.stray
    BY <2>4 DEF Mail
  <2>7. IsMail(a, reg', ios', events', sent', answered', forgotten', synchronous')
    BY <1>1, <2>1, <2>2, <2>3, <2>6 DEF IsMail
  <2>8. InPlace(MailOf(reg', ios', events', sent', answered', forgotten', synchronous'))
    BY <2>5, <2>7, MailFields
  <2>9. NotStarted'
    BY <2>1, <2>2, <2>3 DEF MailInv, NotStarted
  <2>10. loads' = 0 /\ pc' # "boot" => AcksOK(reg', ios', events', sent', forgotten', acks', launch')
    BY <2>1, <2>2, <2>3 DEF MailInv, AcksOK, Waits, Runs, Boots
  <2> QED BY <2>1, <2>8, <2>9, <2>10 DEF MailInv
<1>4. CASE UpdateInterrupts
  <2>1. PICK flag : flag = (reg.flag \/ Asserted(reg))
    OBVIOUS
  <2>2. /\ events' = [events EXCEPT !.update = @ \ {0}] /\ reg' = [reg EXCEPT !.flag = flag]
        /\ UNCHANGED <<ios, synchronous, forgotten, pc, sent, acks, launch, answered, loads>>
    BY <1>4, <2>1 DEF UpdateInterrupts, kernel, program
  <2>3. /\ reg'.ctrl = reg.ctrl /\ reg'.arm_msg = reg.arm_msg /\ reg'.flag = flag
    BY <1>2, <2>2 DEF Registers
  <2>4. /\ events'.request = events.request /\ events'.ack = events.ack
        /\ events'.reply = events.reply
    BY <1>2, <2>2 DEF Schedules
  <2>5. IsMail(p, reg', ios', events', sent', answered', forgotten', synchronous')
    BY <1>1, <2>2, <2>3, <2>4 DEF IsMail
  <2>6. InPlace(MailOf(reg', ios', events', sent', answered', forgotten', synchronous'))
    BY <1>1, <2>5, MailFields
  <2>7. NotStarted'
    <3>1. pc = "boot" => ~Asserted(reg)
      BY DEF MailInv, NotStarted, Asserted
    <3> QED BY <2>1, <2>2, <2>3, <2>4, <3>1 DEF MailInv, NotStarted
  <2>8. Acked(reg') = Acked(reg)
    BY <2>3 DEF Acked
  <2>9. loads' = 0 /\ pc' # "boot" => AcksOK(reg', ios', events', sent', forgotten', acks', launch')
    BY <2>2, <2>4, <2>8 DEF MailInv, AcksOK, Waits, Runs, Boots
  <2> QED BY <2>2, <2>3, <2>6, <2>7, <2>9 DEF MailInv
<1>5. CASE Tick
  <2>1. /\ events' = [events EXCEPT !.request = Nearer(@), !.reply = Nearer(@),
                                    !.update = {left - 1 : left \in @}]
        /\ ios' = [ios EXCEPT !.last = LastNearer(@)]
        /\ UNCHANGED <<reg, synchronous, forgotten, pc, sent, acks, launch, answered, loads>>
    BY <1>5 DEF Tick, program
  <2>2. /\ \A t \in events.request : t.left # 0
        /\ \A t \in events.reply : t.left # 0
    BY <1>5 DEF Tick, Due
  <2>3. /\ ios'.requests = ios.requests /\ ios'.replies = ios.replies
        /\ ios'.last = LastNearer(ios.last) /\ ios'.acks = ios.acks /\ ios'.held = ios.held
        /\ ios'.stray = ios.stray
    BY <1>2, <2>1 DEF Kernels
  <2>4. /\ events'.request = Nearer(events.request) /\ events'.ack = events.ack
        /\ events'.reply = Nearer(events.reply)
    BY <1>2, <2>1 DEF Schedules
  <2>5. PICK a : a = [p EXCEPT !.asked = Nearer(@), !.due = Nearer(@), !.last = LastNearer(@)]
    OBVIOUS
  <2>6. InPlace(a)
    BY <1>1, <2>2, <2>5, MailTick DEF IsMail
  <2>7. /\ a.asked = Nearer(p.asked) /\ a.requests = p.requests /\ a.held = p.held
        /\ a.last = LastNearer(p.last) /\ a.due = Nearer(p.due) /\ a.replies = p.replies
        /\ a.shown = p.shown /\ a.made = p.made /\ a.lost = p.lost
        /\ a.answered = p.answered /\ a.sync = p.sync /\ a.stray = p.stray
    BY <2>5 DEF Mail
  <2>8. IsMail(a, reg', ios', events', sent', answered', forgotten', synchronous')
    BY <1>1, <2>1, <2>3, <2>4, <2>7 DEF IsMail
  <2>9. InPlace(MailOf(reg', ios', events', sent', answered', forgotten', synchronous'))
    BY <2>6, <2>8, MailFields
  <2>10. NotStarted'
    BY <2>1, <2>3, <2>4 DEF MailInv, NotStarted
  <2>11. events.request = {} => events'.request = {}
    BY <2>4 DEF Nearer
  <2>12. ASSUME NEW t \in events.request, events.request = {t}
         PROVE  \E u \in events'.request : events'.request = {u} /\ u.msg = t.msg
    <3>1. PICK u : u = [t EXCEPT !.left = @ - 1]
      OBVIOUS
    <3>2. events'.request = {u}
      BY <2>4, <2>12, <3>1 DEF Nearer
    <3>3. u.msg = t.msg
      BY <1>2, <3>1 DEF Schedules, Timed
    <3> QED BY <3>2, <3>3
  <2>13. ASSUME loads' = 0, pc' # "boot"
         PROVE  AcksOK(reg', ios', events', sent', forgotten', acks', launch')
    <3>1. CASE Waits(reg, ios, events, sent, acks, launch)
      <4>1. \/ ios.requests = <<sent>> /\ events.request = {}
            \/ ios.requests = <<>> /\ \E t \in events.request : events.request = {t} /\ t.msg = sent
        BY <3>1 DEF Waits
      <4>2. \/ ios'.requests = <<sent>> /\ events'.request = {}
            \/ ios'.requests = <<>> /\ \E t \in events'.request : events'.request = {t} /\ t.msg = sent
        BY <2>3, <2>11, <2>12, <4>1
      <4> QED BY <2>1, <2>3, <2>4, <3>1, <4>2 DEF Waits, AcksOK
    <3>2. CASE Runs(reg, ios, events, forgotten, acks, launch)
      BY <2>1, <2>3, <2>4, <2>11, <3>2 DEF Runs, AcksOK
    <3>3. CASE Boots(reg, ios, events, forgotten, acks, launch)
      BY <2>1, <2>3, <2>4, <2>11, <3>3 DEF Boots, AcksOK
    <3> QED BY <2>1, <2>13, <3>1, <3>2, <3>3 DEF MailInv, AcksOK
  <2> QED BY <2>1, <2>9, <2>10, <2>13 DEF MailInv
<1>6. ASSUME NEW queued \in 0..1, LoadState(queued)  PROVE MailInv'
  <2>1. /\ loads' = loads + 1 /\ ios' = [ios EXCEPT !.acks = queued]
        /\ UNCHANGED <<reg, events, synchronous, forgotten, pc, sent, acks, launch, answered>>
    BY <1>6 DEF LoadState, program
  <2>2. /\ ios'.requests = ios.requests /\ ios'.replies = ios.replies
        /\ ios'.last = ios.last /\ ios'.held = ios.held /\ ios'.stray = ios.stray
    BY <1>2, <2>1 DEF Kernels
  <2>3. loads' # 0
    BY <2>1 DEF TypeOK
  <2>4. IsMail(p, reg', ios', events', sent', answered', forgotten', synchronous')
    BY <1>1, <2>1, <2>2 DEF IsMail
  <2>5. InPlace(MailOf(reg', ios', events', sent', answered', forgotten', synchronous'))
    BY <1>1, <2>4, MailFields
  <2> QED BY <2>1, <2>3, <2>5 DEF MailInv, NotStarted
<1> QED BY <1>3, <1>4, <1>5, <1>6

\* What a write of PPCCTRL passes to UpdateIPC.
LEMMA CtrlWritten ==
  ASSUME reg \in Registers, events \in Schedules, NEW v \in SUBSET Bits, NEW msg \in Nat,
         WriteCtrl(v, msg)
  PROVE  \E r \in Registers, e \in Schedules :
           /\ r.arm_msg = reg.arm_msg
           /\ "Y1" \in r.ctrl <=> "Y1" \in reg.ctrl /\ "Y1" \notin v
           /\ "Y2" \in r.ctrl <=> "Y2" \in reg.ctrl /\ "Y2" \notin v
           /\ "X1" \notin v => e.request = events.request
           /\ "X1" \in v => e.request = events.request \union {[msg |-> msg, left |-> RequestTicks]}
           /\ e.reply = events.reply /\ e.ack = events.ack
           /\ UpdateIPC(r, ios, e)
<1> DEFINE ctrl == PPC(reg.ctrl, v)
           raised == {"Y1", "IY1"} \subseteq v \/ {"Y2", "IY2"} \subseteq v
           asked == IF "X1" \in ctrl THEN {[msg |-> msg, left |-> RequestTicks]} ELSE {}
<1>1. PICK r : r = [reg EXCEPT !.ctrl = ctrl, !.flag = @ \/ raised]
  OBVIOUS
<1>2. PICK e : e = [events EXCEPT !.request = @ \union asked]
  OBVIOUS
<1>3. PICK d : d = ScheduleUpdate(e, 0)
  OBVIOUS
<1>4. ctrl \subseteq Bits
  BY DEF PPC, Bits
<1>5. r \in Registers /\ r.ctrl = ctrl /\ r.arm_msg = reg.arm_msg
  BY <1>1, <1>4 DEF Registers
<1>6. asked \subseteq Timed
  BY TicksAssumption DEF Timed
<1>7. e \in Schedules /\ e.request = events.request \union asked /\ e.reply = events.reply
      /\ e.ack = events.ack
  BY <1>2, <1>6 DEF Schedules
<1>8. d \in Schedules /\ d.request = e.request /\ d.reply = e.reply /\ d.ack = e.ack
  <2>1. d \in Schedules
    BY <1>3, <1>7, ScheduleSteps
  <2> QED BY <1>3, <1>7, <2>1 DEF ScheduleUpdate, Schedules
<1>9. /\ "Y1" \in ctrl <=> "Y1" \in reg.ctrl /\ "Y1" \notin v
      /\ "Y2" \in ctrl <=> "Y2" \in reg.ctrl /\ "Y2" \notin v
      /\ "X1" \in ctrl <=> "X1" \in v
  BY DEF PPC
<1>10. UpdateIPC(r, ios, d)
  BY <1>1, <1>2, <1>3 DEF WriteCtrl
<1> QED BY <1>5, <1>7, <1>8, <1>9, <1>10

\* The program starts: nothing was made, and the first acknowledgement has been and gone.
LEMMA ResetKeeps ==
  ASSUME TypeOK, TypeOK', MailInv, ResetIPC
  PROVE  MailInv'
<1>1. PICK p \in Mail :
           InPlace(p) /\ IsMail(p, reg, ios, events, sent, answered, forgotten, synchronous)
  BY MailNow
<1>2. reg \in Registers /\ ios \in Kernels /\ events \in Schedules
  BY DEF TypeOK
<1>3. PICK e : e = ScheduleUpdate(events, 0)
  OBVIOUS
<1>4. PICK r : r = InitState
  OBVIOUS
<1>5. r \in Registers /\ r.ctrl = {}
  BY <1>4 DEF InitState, Registers
<1>6. /\ e \in Schedules /\ e.request = events.request /\ e.reply = events.reply
      /\ e.ack = events.ack
  <2>1. e \in Schedules
    BY <1>2, <1>3, ScheduleSteps
  <2> QED BY <1>2, <1>3, <2>1 DEF ScheduleUpdate, Schedules
<1>7. UpdateIPC(r, ios, e) /\ pc' = "enable" /\ UNCHANGED <<sent, acks, launch, answered, loads>>
  BY <1>3, <1>4 DEF ResetIPC, WriteIrqMask
<1>8. pc = "boot" /\ ~events.ack /\ sent = 0 /\ acks = 0 /\ launch = 0
  BY DEF ResetIPC, Due, MailInv, NotStarted
<1>9. p.asked = {} /\ p.requests = <<>> /\ p.shown = {}
  BY <1>1, <1>8, NothingMade DEF IsMail
<1>10. InPlace(MailOf(r, ios, e, sent, answered, forgotten, synchronous))
  <2>1. IsMail(p, r, ios, e, sent, answered, forgotten, synchronous)
    BY <1>1, <1>5, <1>6, <1>9 DEF IsMail
  <2> QED BY <1>1, <2>1, MailFields
<1>11. NotStarted'
  BY <1>7, <1>8 DEF NotStarted
<1>12. ASSUME loads' = 0  PROVE AcksOK(r, ios, e, sent, forgotten, acks, launch)
  <2>1. ios.acks = 0
    BY <1>7, <1>8, <1>12 DEF MailInv, NotStarted
  <2>2. ios.requests = <<>> /\ events.request = {}
    BY <1>1, <1>9 DEF IsMail
  <2>3. Acked(r) = 0
    BY <1>5 DEF Acked
  <2> QED BY <1>6, <1>8, <2>1, <2>2, <2>3 DEF AcksOK, Runs
<1>13. PICK i \in Kernels : i = ios
  BY <1>2
<1> QED BY <1>5, <1>6, <1>7, <1>8, <1>10, <1>11, <1>12, <1>13, UpdateKeeps

\* The program enables the interrupts, or clears the flag: no packet is taken.
LEMMA PassKeeps ==
  ASSUME TypeOK, TypeOK', MailInv, NEW r \in Registers, NEW e \in Schedules,
         r.arm_msg = reg.arm_msg, "Y1" \in r.ctrl <=> "Y1" \in reg.ctrl,
         "Y2" \in r.ctrl <=> "Y2" \in reg.ctrl,
         e.request = events.request, e.reply = events.reply, e.ack = events.ack,
         UpdateIPC(r, ios, e), pc # "boot", pc' = "run",
         UNCHANGED <<sent, acks, launch, answered, loads>>
  PROVE  MailInv'
<1>1. PICK p \in Mail :
           InPlace(p) /\ IsMail(p, reg, ios, events, sent, answered, forgotten, synchronous)
  BY MailNow
<1>2. reg \in Registers /\ ios \in Kernels /\ events \in Schedules
  BY DEF TypeOK
<1>3. InPlace(MailOf(r, ios, e, sent, answered, forgotten, synchronous))
  <2>1. IsMail(p, r, ios, e, sent, answered, forgotten, synchronous)
    BY <1>1 DEF IsMail
  <2> QED BY <1>1, <2>1, MailFields
<1>4. NotStarted'
  BY DEF NotStarted
<1>5. Acked(r) = Acked(reg)
  BY DEF Acked
<1>6. loads' = 0 => AcksOK(r, ios, e, sent, forgotten, acks, launch)
  BY <1>5 DEF MailInv, AcksOK, Waits, Runs, Boots
<1>7. ~({"Y1", "Y2"} \subseteq r.ctrl) /\ (launch # 0 => launch = sent)
  BY DEF MailInv
<1>8. PICK i \in Kernels : i = ios
  BY <1>2
<1> QED BY <1>3, <1>4, <1>6, <1>7, <1>8, UpdateKeeps

\* The program makes a request, when it waits for no acknowledgement.
LEMMA MakeRequestKeeps ==
  ASSUME TypeOK, TypeOK', MailInv, NEW isLaunch \in BOOLEAN, MakeRequest(isLaunch)
  PROVE  MailInv'
<1>1. PICK p \in Mail :
           InPlace(p) /\ IsMail(p, reg, ios, events, sent, answered, forgotten, synchronous)
  BY MailNow
<1>2. reg \in Registers /\ ios \in Kernels /\ events \in Schedules
  BY DEF TypeOK
<1>3. PICK msg : msg = sent + 1
  OBVIOUS
<1>4. msg \in Nat /\ msg # 0 /\ WriteCtrl({"X1", "IY1", "IY2"}, msg)
  BY <1>3 DEF MakeRequest, TypeOK
<1>5. PICK r \in Registers, e \in Schedules :
           /\ r.arm_msg = reg.arm_msg
           /\ "Y1" \in r.ctrl <=> "Y1" \in reg.ctrl
           /\ "Y2" \in r.ctrl <=> "Y2" \in reg.ctrl
           /\ e.request = events.request \union {[msg |-> msg, left |-> RequestTicks]}
           /\ e.reply = events.reply /\ e.ack = events.ack
           /\ UpdateIPC(r, ios, e)
  <2>1. {"X1", "IY1", "IY2"} \in SUBSET Bits
    BY DEF Bits
  <2> QED BY <1>2, <1>4, <2>1, CtrlWritten
<1>6. /\ pc = "run" /\ pc' = "run" /\ sent' = msg /\ launch = 0 /\ acks = 0
      /\ acks' = (IF isLaunch THEN 2 ELSE 1) /\ launch' = (IF isLaunch THEN msg ELSE 0)
      /\ answered' = answered /\ loads' = loads
  BY <1>3 DEF MakeRequest
<1>7. InPlace(MailOf(r, ios, e, sent', answered', forgotten, synchronous))
  <2>1. PICK a : a = [p EXCEPT !.made = @ + 1,
                               !.asked = @ \union {[msg |-> p.made + 1, left |-> RequestTicks]}]
    OBVIOUS
  <2>2. InPlace(a)
    BY <1>1, <2>1, RequestMade, TicksAssumption
  <2>3. /\ a.asked = p.asked \union {[msg |-> p.made + 1, left |-> RequestTicks]}
        /\ a.made = p.made + 1
        /\ a.requests = p.requests /\ a.held = p.held
        /\ a.last = p.last /\ a.due = p.due /\ a.replies = p.replies
        /\ a.shown = p.shown /\ a.lost = p.lost
        /\ a.answered = p.answered /\ a.sync = p.sync /\ a.stray = p.stray
    BY <2>1 DEF Mail
  <2>4. p.made + 1 = msg
    BY <1>1, <1>3 DEF IsMail
  <2>5. IsMail(a, r, ios, e, sent', answered', forgotten, synchronous)
    BY <1>1, <1>5, <1>6, <2>3, <2>4 DEF IsMail
  <2> QED BY <2>2, <2>5, MailFields
<1>8. NotStarted'
  BY <1>6 DEF NotStarted
<1>9. ASSUME loads' = 0
      PROVE  AcksOK(r, ios, e, sent', forgotten, acks', launch') /\ ios.requests = <<>>
  <2>1. AcksOK(reg, ios, events, sent, forgotten, acks, launch)
    BY <1>6, <1>9 DEF MailInv
  <2>2. Runs(reg, ios, events, forgotten, acks, launch)
    BY <1>6, <2>1 DEF AcksOK, Waits, Boots
  <2>3. Acked(reg) = 0
    BY <1>6, <2>2 DEF Runs, Acked
  <2>4. Acked(r) = 0
    BY <1>5, <2>3 DEF Acked
  <2>5. PICK t : t = [msg |-> msg, left |-> RequestTicks]
    OBVIOUS
  <2>6. e.request = {t} /\ t.msg = msg
    BY <1>5, <2>2, <2>5 DEF Runs
  <2>7. acks' = (IF launch' = 0 THEN 1 ELSE 2)
    BY <1>4, <1>6
  <2> QED BY <1>5, <1>6, <2>2, <2>4, <2>6, <2>7 DEF AcksOK, Waits, Runs
<1>10. ~({"Y1", "Y2"} \subseteq r.ctrl) /\ (launch' # 0 => launch' = sent')
  BY <1>5, <1>6 DEF MailInv
<1>11. PICK i \in Kernels : i = ios
  BY <1>2
<1> QED BY <1>5, <1>7, <1>8, <1>9, <1>10, <1>11, UpdateKeeps

\* The program takes a reply.
LEMMA TakeReplyKeeps ==
  ASSUME TypeOK, TypeOK', MailInv, TakeReply
  PROVE  MailInv'
<1>1. PICK p \in Mail :
           InPlace(p) /\ IsMail(p, reg, ios, events, sent, answered, forgotten, synchronous)
  BY MailNow
<1>2. reg \in Registers /\ ios \in Kernels /\ events \in Schedules
  BY DEF TypeOK
<1>3. PICK r \in Registers, e \in Schedules :
           /\ r.arm_msg = reg.arm_msg
           /\ "Y1" \in r.ctrl <=> FALSE
           /\ "Y2" \in r.ctrl <=> "Y2" \in reg.ctrl
           /\ e.request = events.request /\ e.reply = events.reply /\ e.ack = events.ack
           /\ UpdateIPC(r, ios, e)
  <2>1. {"Y1", "IY1", "IY2"} \in SUBSET Bits /\ "X1" \notin {"Y1", "IY1", "IY2"}
    BY DEF Bits
  <2>2. WriteCtrl({"Y1", "IY1", "IY2"}, 0)
    BY DEF TakeReply
  <2> QED BY <1>2, <2>1, <2>2, CtrlWritten
<1>4. /\ pc = "run" /\ "Y1" \in reg.ctrl /\ pc' = "flag" /\ sent' = sent /\ loads' = loads
      /\ answered' = answered \union {reg.arm_msg}
      /\ IF reg.arm_msg = launch THEN launch' = 0 /\ acks' = 0
         ELSE launch' = launch /\ acks' = acks
  BY DEF TakeReply
<1>5. p.shown = {reg.arm_msg} /\ reg.arm_msg \in Nat
  BY <1>1, <1>2, <1>4 DEF IsMail, Registers
<1>6. InPlace(MailOf(r, ios, e, sent', answered', forgotten, synchronous))
  <2>1. PICK msg \in Nat : msg = reg.arm_msg
    BY <1>5
  <2>2. PICK a : a = [p EXCEPT !.shown = {}, !.answered = @ \union {msg}]
    OBVIOUS
  <2>3. InPlace(a)
    BY <1>1, <1>5, <2>1, <2>2, ReplyTaken
  <2>4. /\ a.asked = p.asked /\ a.requests = p.requests /\ a.held = p.held
        /\ a.last = p.last /\ a.due = p.due /\ a.replies = p.replies
        /\ a.shown = {} /\ a.made = p.made /\ a.lost = p.lost
        /\ a.answered = p.answered \union {msg} /\ a.sync = p.sync /\ a.stray = p.stray
    BY <2>2 DEF Mail
  <2>5. IsMail(a, r, ios, e, sent', answered', forgotten, synchronous)
    BY <1>1, <1>3, <1>4, <2>1, <2>4 DEF IsMail
  <2> QED BY <2>3, <2>5, MailFields
<1>7. NotStarted'
  BY <1>4 DEF NotStarted
<1>8. /\ reg.arm_msg \notin Msgs(events.request) /\ reg.arm_msg \notin Elements(ios.requests)
      /\ reg.arm_msg # forgotten /\ reg.arm_msg > 0 /\ forgotten \in Nat
  <2>1. reg.arm_msg \in Replied(p)
    BY <1>5 DEF Replied
  <2>2. reg.arm_msg # p.lost /\ reg.arm_msg > 0
    <3>1. p.lost < reg.arm_msg \/ (0 < reg.arm_msg /\ reg.arm_msg < p.lost)
      BY <1>1, <2>1 DEF InPlace, Awaited
    <3> QED BY <1>5, <3>1, MailTypes
  <2>3. reg.arm_msg \notin Unexecuted(p)
    BY <1>1, <1>5, <2>1, MailTypes DEF InPlace, ExecutedAsMade
  <2> QED BY <1>1, <2>2, <2>3, MailTypes DEF Unexecuted, IsMail
<1>9. Acked(reg) = 0 /\ Acked(r) = 0
  BY <1>3, <1>4 DEF Acked, MailInv
<1>10. ASSUME loads' = 0
       PROVE  /\ AcksOK(r, ios, e, sent', forgotten, acks', launch')
              /\ ios.requests # <<>> => launch' = launch
  <2>1. AcksOK(reg, ios, events, sent, forgotten, acks, launch)
    BY <1>4, <1>10 DEF MailInv
  <2>2. CASE reg.arm_msg # launch
    <3>1. launch' = launch /\ acks' = acks
      BY <1>4, <2>2
    <3> QED BY <1>3, <1>4, <1>9, <2>1, <3>1 DEF AcksOK, Waits, Runs, Boots
  <2>3. CASE reg.arm_msg = launch
    <3>1. launch = sent /\ launch' = 0 /\ acks' = 0
      BY <1>4, <1>8, <2>3 DEF MailInv
    <3>2. ~Waits(reg, ios, events, sent, acks, launch)
      <4>1. ios.requests # <<sent>>
        <5>1. sent \in Elements(<<sent>>)
          BY DEF Elements
        <5> QED BY <1>8, <2>3, <3>1, <5>1
      <4>2. \A t \in events.request : t.msg # sent
        BY <1>8, <2>3, <3>1 DEF Msgs
      <4> QED BY <4>1, <4>2 DEF Waits
    <3>3. ~Boots(reg, ios, events, forgotten, acks, launch)
      BY <1>8, <2>3 DEF Boots
    <3>4. Runs(reg, ios, events, forgotten, acks, launch)
      BY <2>1, <3>2, <3>3 DEF AcksOK
    <3> QED BY <1>3, <1>9, <3>1, <3>4 DEF AcksOK, Runs
  <2> QED BY <2>2, <2>3
<1>11. ~({"Y1", "Y2"} \subseteq r.ctrl) /\ (launch' # 0 => launch' = sent')
  BY <1>3, <1>4 DEF MailInv
<1>12. PICK i \in Kernels : i = ios
  BY <1>2
<1> QED BY <1>3, <1>6, <1>7, <1>10, <1>11, <1>12, UpdateKeeps

\* The program takes an acknowledgement.
LEMMA TakeAckKeeps ==
  ASSUME TypeOK, TypeOK', MailInv, TakeAck
  PROVE  MailInv'
<1>1. PICK p \in Mail :
           InPlace(p) /\ IsMail(p, reg, ios, events, sent, answered, forgotten, synchronous)
  BY MailNow
<1>2. reg \in Registers /\ ios \in Kernels /\ events \in Schedules
  BY DEF TypeOK
<1>3. PICK r \in Registers, e \in Schedules :
           /\ r.arm_msg = reg.arm_msg
           /\ "Y1" \in r.ctrl <=> "Y1" \in reg.ctrl
           /\ "Y2" \in r.ctrl <=> FALSE
           /\ e.request = events.request /\ e.reply = events.reply /\ e.ack = events.ack
           /\ UpdateIPC(r, ios, e)
  <2>1. {"Y2", "IY1", "IY2"} \in SUBSET Bits /\ "X1" \notin {"Y2", "IY1", "IY2"}
    BY DEF Bits
  <2>2. WriteCtrl({"Y2", "IY1", "IY2"}, 0)
    BY DEF TakeAck
  <2> QED BY <1>2, <2>1, <2>2, CtrlWritten
<1>4. /\ pc = "run" /\ "Y2" \in reg.ctrl /\ pc' = "flag" /\ sent' = sent /\ loads' = loads
      /\ answered' = answered
      /\ acks' = (IF acks = 0 THEN 0 ELSE acks - 1)
      /\ launch' = (IF acks <= 1 THEN 0 ELSE launch)
  BY DEF TakeAck
<1>5. InPlace(MailOf(r, ios, e, sent', answered', forgotten, synchronous))
  <2>1. IsMail(p, r, ios, e, sent', answered', forgotten, synchronous)
    BY <1>1, <1>3, <1>4 DEF IsMail
  <2> QED BY <1>1, <2>1, MailFields
<1>6. NotStarted'
  BY <1>4 DEF NotStarted
<1>7. Acked(reg) = 1 /\ Acked(r) = 0
  BY <1>3, <1>4 DEF Acked
<1>8. ASSUME loads' = 0
      PROVE  AcksOK(r, ios, e, sent', forgotten, acks', launch') /\ ios.requests = <<>>
  <2>1. AcksOK(reg, ios, events, sent, forgotten, acks, launch) /\ acks \in Nat
    BY <1>4, <1>8 DEF MailInv, TypeOK
  <2>2. ~Waits(reg, ios, events, sent, acks, launch)
    BY <1>7 DEF Waits
  <2>3. CASE Runs(reg, ios, events, forgotten, acks, launch)
    <3>1. acks = (IF launch = 0 THEN 1 ELSE 2)
      BY <1>7, <2>3 DEF Runs
    <3>2. launch' = launch /\ acks' = (IF launch = 0 THEN 0 ELSE 1)
      BY <1>4, <3>1
    <3> QED BY <1>3, <1>7, <2>3, <3>2 DEF Runs, AcksOK
  <2>4. CASE Boots(reg, ios, events, forgotten, acks, launch)
    <3>1. /\ ios.acks \in Nat /\ acks >= 1
          /\ acks = 1 + ios.acks + (IF events.ack THEN 1 ELSE 0)
      BY <1>2, <1>7, <2>4 DEF Boots, Kernels
    <3>2. acks' = ios.acks + (IF events.ack THEN 1 ELSE 0)
      BY <1>4, <2>1, <3>1
    <3>3. CASE acks' = 0
      <4>1. launch' = 0 /\ ios.acks = 0 /\ ~events.ack
        BY <1>4, <2>1, <3>1, <3>2, <3>3
      <4> QED BY <1>3, <1>7, <2>4, <3>3, <4>1 DEF Runs, Boots, AcksOK
    <3>4. CASE acks' # 0
      <4>1. launch' = launch /\ acks' >= 1
        BY <1>4, <2>1, <3>1, <3>4
      <4>2. acks' = Acked(r) + ios.acks + (IF e.ack THEN 1 ELSE 0)
        BY <1>3, <1>7, <3>1, <3>2
      <4> QED BY <1>3, <2>4, <4>1, <4>2 DEF Boots, AcksOK
    <3> QED BY <3>3, <3>4
  <2> QED BY <2>1, <2>2, <2>3, <2>4 DEF AcksOK
<1>9. ~({"Y1", "Y2"} \subseteq r.ctrl) /\ (launch' # 0 => launch' = sent')
  BY <1>3, <1>4 DEF MailInv
<1>10. PICK i \in Kernels : i = ios
  BY <1>2
<1> QED BY <1>3, <1>5, <1>6, <1>8, <1>9, <1>10, UpdateKeeps

\* The inductive step, one case per action.
LEMMA NextMailInv == IndInv /\ IndInv' /\ MailInv /\ [Next]_vars => MailInv'
<1> SUFFICES ASSUME IndInv, IndInv', MailInv, [Next]_vars  PROVE MailInv'
  OBVIOUS
<1>1. TypeOK /\ TypeOK'
  BY DEF IndInv
<1>2. CASE Emulator
  BY <1>1, <1>2, RequestEventKeeps, ReplyEventKeeps, AckEventKeeps, OthersKeep DEF Emulator
<1>3. CASE \/ \E msg \in ios.held : DeviceReply(msg)
           \/ \E queued \in 0..1 : LoadState(queued)
  BY <1>1, <1>3, OthersKeep
<1>4. CASE ResetIPC
  BY <1>1, <1>4, ResetKeeps
<1>5. CASE EnableInterrupts
  <2>1. {"IY1", "IY2"} \in SUBSET Bits
    BY DEF Bits
  <2>2. WriteCtrl({"IY1", "IY2"}, 0) /\ reg \in Registers /\ events \in Schedules
    BY <1>1, <1>5 DEF EnableInterrupts, TypeOK
  <2>3. PICK r \in Registers, e \in Schedules :
           /\ r.arm_msg = reg.arm_msg
           /\ "Y1" \in r.ctrl <=> "Y1" \in reg.ctrl
           /\ "Y2" \in r.ctrl <=> "Y2" \in reg.ctrl
           /\ e.request = events.request /\ e.reply = events.reply /\ e.ack = events.ack
           /\ UpdateIPC(r, ios, e)
    BY <2>1, <2>2, CtrlWritten
  <2> QED BY <1>1, <1>5, <2>3, PassKeeps DEF EnableInterrupts
<1>6. CASE \E isLaunch \in BOOLEAN : MakeRequest(isLaunch)
  BY <1>1, <1>6, MakeRequestKeeps
<1>7. CASE TakeReply \/ TakeAck
  BY <1>1, <1>7, TakeReplyKeeps, TakeAckKeeps
<1>8. CASE ClearFlag
  <2>1. PICK r : r = [reg EXCEPT !.flag = FALSE]
    OBVIOUS
  <2>2. PICK e : e = ScheduleUpdate(events, 0)
    OBVIOUS
  <2>3. r \in Registers /\ r.ctrl = reg.ctrl /\ r.arm_msg = reg.arm_msg
    BY <1>1, <2>1 DEF Registers, TypeOK
  <2>4. e \in Schedules
    BY <1>1, <2>2, ScheduleSteps DEF TypeOK
  <2>5. e.request = events.request /\ e.reply = events.reply /\ e.ack = events.ack
    BY <1>1, <2>2 DEF ScheduleUpdate, Schedules, TypeOK
  <2>6. UpdateIPC(r, ios, e) /\ pc # "boot" /\ pc' = "run"
        /\ UNCHANGED <<sent, acks, launch, answered, loads>>
    BY <1>8, <2>1, <2>2 DEF ClearFlag, WriteIrqFlag
  <2> QED BY <1>1, <2>3, <2>4, <2>5, <2>6, PassKeeps
<1>9. CASE UNCHANGED vars
  BY <1>9 DEF MailInv, NotStarted, vars, kernel, program
<1> QED BY <1>2, <1>3, <1>4, <1>5, <1>6, <1>7, <1>8, <1>9 DEF Next, Handler

\* The strengthening holds in every state the specification reaches.
LEMMA MailInvariant == Spec => []MailInv
<1>1. Init => MailInv
  BY InitMailInv
<1>2. IndInv /\ IndInv' /\ MailInv /\ [Next]_vars => MailInv'
  BY NextMailInv
<1> QED BY <1>1, <1>2, Invariant, PTL DEF Spec

-----------------------------------------------------------------------------
\* A reply that the program can see is to a request it waits for, or a late one of a device of
\* an older kernel that it has not seen before, and the program has seen the acknowledgement
\* of the request if no state was loaded.
THEOREM RepliesAreAwaited == Spec => []ReplyIsAwaited
<1>1. ASSUME IndInv, MailInv, "Y1" \in reg.ctrl
      PROVE  /\ reg.arm_msg \in Outstanding \/ reg.arm_msg \in ios.stray \ answered
             /\ reg.arm_msg # Unacked \/ loads > 0
  <2>1. TypeOK /\ reg.arm_msg \in Nat /\ sent \in Nat /\ forgotten \in Nat /\ loads \in Nat
    BY <1>1 DEF IndInv, TypeOK, Registers
  <2>2. PICK p \in Mail :
             InPlace(p) /\ IsMail(p, reg, ios, events, sent, answered, forgotten, synchronous)
    BY <1>1, <2>1, MailNow
  <2>3. reg.arm_msg \in Replied(p)
    BY <1>1, <2>2 DEF IsMail, Replied
  <2>4. /\ reg.arm_msg <= sent /\ reg.arm_msg \notin answered
        /\ reg.arm_msg > forgotten
           \/ (reg.arm_msg \in ios.stray /\ 0 < reg.arm_msg /\ reg.arm_msg < forgotten)
    BY <2>1, <2>2, <2>3 DEF InPlace, Awaited, IsMail
  <2>5. reg.arm_msg \in Outstanding \/ reg.arm_msg \in ios.stray \ answered
    BY <2>1, <2>4 DEF Outstanding
  <2>6. ASSUME loads = 0, reg.arm_msg = Unacked  PROVE FALSE
    <3>1. pc # "boot"
      BY <1>1 DEF MailInv, NotStarted
    <3>2. AcksOK(reg, ios, events, sent, forgotten, acks, launch)
      BY <1>1, <2>6, <3>1 DEF MailInv
    <3>3. reg.arm_msg = sent /\ acks = (IF launch = 0 THEN 1 ELSE 2)
      BY <2>1, <2>4, <2>6 DEF Unacked
    <3>4. Acked(reg) = 0
      BY <1>1 DEF MailInv, Acked
    <3>5. sent \notin Unexecuted(p)
      BY <2>1, <2>2, <2>3, <3>3, MailTypes DEF InPlace, ExecutedAsMade
    <3>6. CASE Waits(reg, ios, events, sent, acks, launch)
      <4>1. sent \in Elements(<<sent>>)
        BY DEF Elements
      <4>2. ios.requests # <<sent>>
        BY <2>2, <3>5, <4>1 DEF Unexecuted, IsMail
      <4>3. \A t \in events.request : t.msg # sent
        BY <2>2, <3>5 DEF Unexecuted, IsMail, Msgs
      <4> QED BY <3>6, <4>2, <4>3 DEF Waits
    <3>7. CASE Runs(reg, ios, events, forgotten, acks, launch)
      BY <3>3, <3>4, <3>7 DEF Runs
    <3>8. CASE Boots(reg, ios, events, forgotten, acks, launch)
      BY <1>1, <2>1, <2>4, <3>3, <3>8 DEF Boots, MailInv
    <3> QED BY <3>2, <3>6, <3>7, <3>8 DEF AcksOK
  <2> QED BY <2>1, <2>5, <2>6
<1>2. IndInv /\ MailInv => ReplyIsAwaited
  BY <1>1 DEF ReplyIsAwaited
<1> QED BY <1>2, Invariant, MailInvariant, PTL

\* Of two requests with synchronous replies the earlier is answered first.
THEOREM OrderIsKept == Spec => []RepliesInOrder
<1>1. ASSUME IndInv, MailInv  PROVE RepliesInOrder
  <2>1. PICK p \in Mail :
             InPlace(p) /\ IsMail(p, reg, ios, events, sent, answered, forgotten, synchronous)
    BY <1>1, MailNow DEF IndInv
  <2> QED BY <2>1 DEF RepliesInOrder, Outstanding, InPlace, TakenInOrder, IsMail
<1> QED BY <1>1, Invariant, MailInvariant, PTL

\* As long as no state is loaded, a program that launched another IOS has on the way just the
\* acknowledgements it waits for: only a load can lose one or bring one too many.
THEOREM LaunchIsAcked == Spec => [](loads = 0 => LaunchAckedTwice)
<1>1. ASSUME IndInv, MailInv, loads = 0, launch # 0, launch = forgotten
      PROVE  acks = AcksOnTheWay
  <2>1. PICK p \in Mail :
             InPlace(p) /\ IsMail(p, reg, ios, events, sent, answered, forgotten, synchronous)
    BY <1>1, MailNow DEF IndInv
  <2>2. ios \in Kernels /\ ios.acks \in Nat
    BY <1>1 DEF IndInv, TypeOK, Kernels
  <2>3. launch = sent /\ pc # "boot"
    BY <1>1 DEF MailInv, NotStarted
  <2>4. sent \notin Unexecuted(p)
    BY <1>1, <2>1, <2>3, MailTypes DEF InPlace, Awaited, IsMail
  <2>5. ~Waits(reg, ios, events, sent, acks, launch)
    <3>1. sent \in Elements(<<sent>>)
      BY DEF Elements
    <3>2. ios.requests # <<sent>>
      BY <2>1, <2>4, <3>1 DEF Unexecuted, IsMail
    <3>3. \A t \in events.request : t.msg # sent
      BY <2>1, <2>4 DEF Unexecuted, IsMail, Msgs
    <3> QED BY <3>2, <3>3 DEF Waits
  <2>6. ~Runs(reg, ios, events, forgotten, acks, launch)
    BY <1>1 DEF Runs, IndInv, TypeOK
  <2>7. Boots(reg, ios, events, forgotten, acks, launch)
    BY <1>1, <2>3, <2>5, <2>6 DEF MailInv, AcksOK
  <2> QED BY <2>2, <2>7 DEF Boots, Acked, AcksOnTheWay
<1>2. IndInv /\ MailInv => (loads = 0 => LaunchAckedTwice)
  BY <1>1 DEF LaunchAckedTwice
<1> QED BY <1>2, Invariant, MailInvariant, PTL

=============================================================================

-------------------------------- MODULE IPC ----------------------------------
(***************************************************************************)
(* The mailbox between the PowerPC and IOS on an emulated Wii: the         *)
(* registers and their interrupt (Core/HW/WII_IPC.cpp) and the kernel      *)
(* behind them (Core/IOS/IOS.cpp), on the CPU thread.  A program writes a  *)
(* request; IOS acknowledges it (Y2), executes it, and replies (Y1) later, *)
(* when the program has dealt with what came before.  A device may keep a  *)
(* request and reply whenever it likes, and a launch restarts IOS.         *)
(*                                                                         *)
(* Requests are numbers, in the order they are made.  Time is relative: an *)
(* event is so many ticks away, and is handled before the next tick.  Of   *)
(* two events at the same time either may come first, but requests, and    *)
(* synchronous replies, come in the order they were scheduled              *)
(* (FifoAmongEqualTimes in CoreTiming.tla).  The program is not part of    *)
(* the repository: it follows the protocol that the code's comments tell.  *)
(***************************************************************************)
EXTENDS Naturals, Sequences

CONSTANTS
  InterruptTicks,   \* GenerateAck, GenerateReply: 100 * TIMER_RATIO
  RequestTicks,     \* EnqueueIPCRequest: 500 * TIMER_RATIO
  ReplyTicks,       \* the delays of synchronous replies
  MaxRequests,      \* bound: requests of the program
  MaxLoads          \* bound: loads of a state

ASSUME TicksAssumption ==
  InterruptTicks \in Nat /\ RequestTicks \in Nat /\ ReplyTicks \subseteq Nat
ASSUME BoundsAssumption == MaxRequests \in Nat /\ MaxLoads \in Nat

VARIABLES
  reg,          \* WII_IPC.cpp: the registers
  line,         \* INT_CAUSE_WII_IPC in the ProcessorInterface
  ios,          \* the kernel: its queues, the ticks until the last reply, the devices
  events,       \* what is scheduled in CoreTiming
  pc, sent,     \* the program: where it is, and the number of requests it has made,
  acks,         \* of acknowledgements it waits for,
  launch,       \* and its request for a launch, or 0
  answered, synchronous, forgotten, loads    \* history: see below

program == <<pc, sent, acks, launch, answered>>
kernel  == <<ios, synchronous, forgotten>>
vars == <<reg, line, events, kernel, program, loads>>

\* CtrlRegister is the set of its bits that are set; X2, IX1 and IX2 do nothing.  Of
\* ppc_irq_flags only INT_CAUSE_IPC_BROADWAY is ever set, and ppc_irq_masks always has it.
Bits == {"X1", "Y1", "Y2", "IY1", "IY2"}
Registers == [ctrl : SUBSET Bits, flag : BOOLEAN, arm_msg : Nat]
Kernels == [requests : Seq(Nat), replies : Seq(Nat), acks : Nat, last : Nat, held : SUBSET Nat,
            stray : SUBSET Nat]   \* a history: what the devices of older kernels replied to late
Timed == [msg : Nat, left : Nat]
Schedules == [request : SUBSET Timed, reply : SUBSET Timed, ack : BOOLEAN, update : SUBSET Nat]

TypeOK ==
  /\ reg \in Registers /\ line \in BOOLEAN /\ ios \in Kernels /\ events \in Schedules
  /\ sent \in Nat /\ acks \in Nat /\ launch \in Nat
  /\ pc \in {"boot", "enable", "run", "flag"}
  /\ answered \subseteq Nat /\ synchronous \subseteq Nat /\ forgotten \in Nat /\ loads \in Nat

\* The requests that a program waits for: not answered, and not lost with an older kernel.
Outstanding == {msg \in 1..sent : msg > forgotten /\ msg \notin answered}

-----------------------------------------------------------------------------
(* WII_IPC.cpp                                                             *)

InitState == [ctrl |-> {}, flag |-> FALSE, arm_msg |-> 0]

\* ppc(v): Y1 and Y2 are cleared by writing them.
PPC(ctrl, v) == ((ctrl \cap {"Y1", "Y2"}) \ v) \union (v \cap {"X1", "IY1", "IY2"})

\* Mutant: a request of the program that is still to be taken counts as busy.
ReadyWithoutRequest(r) == r.ctrl \cap {"X1", "Y1", "Y2"} = {} /\ ~r.flag

IsReady(r) == "Y1" \notin r.ctrl /\ "Y2" \notin r.ctrl /\ ~r.flag

Asserted(r) == {"Y1", "IY1"} \subseteq r.ctrl \/ {"Y2", "IY2"} \subseteq r.ctrl

ScheduleUpdate(e, ticks) == [e EXCEPT !.update = @ \union {ticks}]

ClearX1(r) == [r EXCEPT !.ctrl = @ \ {"X1"}]
GenerateAck(r) == [r EXCEPT !.ctrl = @ \union {"Y2"}]
GenerateReply(r, msg) == [r EXCEPT !.ctrl = @ \union {"Y1"}, !.arm_msg = msg]

-----------------------------------------------------------------------------
(* The kernel.                                                             *)

NewKernel == [requests |-> <<>>, replies |-> <<>>, acks |-> 0, last |-> 0, held |-> {},
              stray |-> {}]

\* Mutant: the reply does not wait for the last one.
ReplyAtOnce(i, delay) == delay

\* A reply that is due after the replies scheduled before it.
ReplyAt(i, delay) == delay + i.last

\* What HandleIPCCommand comes to: a reply after a delay, ...
ReplyLater(msg, delay, i, e) ==
  LET left == ReplyAt(i, delay)
  IN /\ ios' = [i EXCEPT !.last = left]
     /\ events' = [e EXCEPT !.reply = @ \union {[msg |-> msg, left |-> left]}]
     /\ synchronous' = synchronous \union {msg}
     /\ UNCHANGED forgotten

\* ... no reply until the device has one, ...
Keep(msg, i, e) ==
  /\ ios' = [i EXCEPT !.held = @ \union {msg}]
  /\ events' = e
  /\ UNCHANGED <<synchronous, forgotten>>

\* EnqueueIPCReply without a delay, from the threads of the devices.
LateReplies(late) == {[msg |-> m, left |-> 0] : m \in late}

\* Mutant: the old kernel's events survive it.
BootOverEvents(msg, i, e, late) ==
  /\ ios' = [NewKernel EXCEPT !.stray = i.stray \union late]
  /\ events' = [e EXCEPT !.ack = TRUE, !.reply = @ \union LateReplies(late)]
  /\ forgotten' = msg
  /\ UNCHANGED synchronous

\* Mutant: the new kernel acknowledges nothing.
BootWithoutAck(msg, i, e, late) ==
  /\ ios' = [NewKernel EXCEPT !.stray = i.stray \union late]
  /\ events' = [e EXCEPT !.request = {}, !.reply = LateReplies(late)]
  /\ forgotten' = msg
  /\ UNCHANGED synchronous

\* ... or, for a launch that succeeds, a new kernel.  All events of the old one are removed
\* before its devices and their threads go: what those reply in between, to the requests
\* late, is scheduled as ever and reaches the new kernel, which also sends an
\* acknowledgement of its own.
BootIOS(msg, i, e, late) ==
  /\ ios' = [NewKernel EXCEPT !.stray = i.stray \union late]
  /\ events' = [e EXCEPT !.request = {}, !.reply = LateReplies(late), !.ack = TRUE]
  /\ forgotten' = msg
  /\ UNCHANGED synchronous

ExecuteIPCCommand(msg, i, e) ==
  \/ \E delay \in ReplyTicks : ReplyLater(msg, delay, i, e)
  \/ msg # launch /\ Keep(msg, i, e)
  \/ msg = launch /\ \E late \in SUBSET i.held : BootIOS(msg, i, e, late)

\* The caller passes the registers, the kernel and the events as it left them.
UpdateIPC(r, i, e) ==
  \/ /\ ~IsReady(r) \/ (i.requests = <<>> /\ i.replies = <<>> /\ i.acks = 0)
     /\ reg' = r /\ ios' = i /\ events' = e
     /\ UNCHANGED <<synchronous, forgotten>>
  \/ /\ IsReady(r) /\ i.requests # <<>>
     /\ reg' = GenerateAck(ClearX1(r))
     /\ ExecuteIPCCommand(Head(i.requests), [i EXCEPT !.requests = Tail(@)],
                          ScheduleUpdate(e, InterruptTicks))
  \/ /\ IsReady(r) /\ i.requests = <<>> /\ i.replies # <<>>
     /\ reg' = GenerateReply(r, Head(i.replies))
     /\ ios' = [i EXCEPT !.replies = Tail(@)]
     /\ events' = ScheduleUpdate(e, InterruptTicks)
     /\ UNCHANGED <<synchronous, forgotten>>
  \/ /\ IsReady(r) /\ i.requests = <<>> /\ i.replies = <<>> /\ i.acks > 0
     /\ reg' = GenerateAck(r)
     /\ ios' = [i EXCEPT !.acks = @ - 1]
     /\ events' = ScheduleUpdate(e, InterruptTicks)
     /\ UNCHANGED <<synchronous, forgotten>>

\* HandleIPCEvent for the three kinds of events.
RequestEvent(t) ==
  /\ t \in events.request /\ t.left = 0 /\ \A s \in events.request : t.msg <= s.msg
  /\ UpdateIPC(reg, [ios EXCEPT !.requests = Append(@, t.msg)],
               [events EXCEPT !.request = @ \ {t}])
  /\ UNCHANGED <<line, program, loads>>

ReplyEvent(t) ==
  /\ t \in events.reply /\ t.left = 0
  /\ \A s \in events.reply :
       s.left = 0 /\ {s.msg, t.msg} \subseteq synchronous => t.msg <= s.msg
  /\ UpdateIPC(reg, [ios EXCEPT !.replies = Append(@, t.msg)], [events EXCEPT !.reply = @ \ {t}])
  /\ UNCHANGED <<line, program, loads>>

AckEvent ==
  /\ events.ack
  /\ UpdateIPC(reg, [ios EXCEPT !.acks = @ + 1], [events EXCEPT !.ack = FALSE])
  /\ UNCHANGED <<line, program, loads>>

\* EnqueueIPCReply by a device that kept the request, from an update or another thread.
DeviceReply(msg) ==
  /\ msg \in ios.held
  /\ ios' = [ios EXCEPT !.held = @ \ {msg}]
  /\ events' = [events EXCEPT !.reply = @ \union {[msg |-> msg, left |-> 0]}]
  /\ UNCHANGED <<reg, line, synchronous, forgotten, program, loads>>

UpdateInterrupts ==
  LET flag == reg.flag \/ Asserted(reg)
  IN /\ 0 \in events.update
     /\ events' = [events EXCEPT !.update = @ \ {0}]
     /\ reg' = [reg EXCEPT !.flag = flag]
     /\ line' = flag
     /\ UNCHANGED <<kernel, program, loads>>

\* Time passes when nothing is due.
Due ==
  \/ events.ack \/ 0 \in events.update
  \/ \E t \in events.request \union events.reply : t.left = 0

\* Once the time of the last reply has passed there is nothing to wait for.
LastNearer(last) == IF last = 0 THEN 0 ELSE last - 1

Nearer(timed) == {[t EXCEPT !.left = @ - 1] : t \in timed}

Tick ==
  /\ ~Due
  /\ events' = [events EXCEPT !.request = Nearer(@), !.reply = Nearer(@),
                              !.update = {left - 1 : left \in @}]
  /\ ios' = [ios EXCEPT !.last = LastNearer(@)]
  /\ UNCHANGED <<reg, line, synchronous, forgotten, program, loads>>

-----------------------------------------------------------------------------
(* The registers the program writes.                                       *)

\* Mutant: the interrupt that the write raises is not shown.
WriteCtrlUnscheduled(v, msg) ==
  LET ctrl == PPC(reg.ctrl, v)
      raised == {"Y1", "IY1"} \subseteq v \/ {"Y2", "IY2"} \subseteq v
      asked == IF "X1" \in ctrl THEN {[msg |-> msg, left |-> RequestTicks]} ELSE {}
  IN UpdateIPC([reg EXCEPT !.ctrl = ctrl, !.flag = @ \/ raised], ios,
               [events EXCEPT !.request = @ \union asked])

\* PPCCTRL.  Writing Y1 or Y2 raises the interrupt, even though it clears the bit.
WriteCtrl(v, msg) ==
  LET ctrl == PPC(reg.ctrl, v)
      raised == {"Y1", "IY1"} \subseteq v \/ {"Y2", "IY2"} \subseteq v
      asked == IF "X1" \in ctrl THEN {[msg |-> msg, left |-> RequestTicks]} ELSE {}
  IN UpdateIPC([reg EXCEPT !.ctrl = ctrl, !.flag = @ \/ raised], ios,
               ScheduleUpdate([events EXCEPT !.request = @ \union asked], 0))

\* Mutant: the kernel is not told that it may send again.
WriteIrqFlagOnly ==
  /\ reg' = [reg EXCEPT !.flag = FALSE]
  /\ events' = ScheduleUpdate(events, 0)
  /\ UNCHANGED kernel

\* PPC_IRQFLAG with the IPC bit.
WriteIrqFlag == UpdateIPC([reg EXCEPT !.flag = FALSE], ios, ScheduleUpdate(events, 0))

\* PPC_IRQMASK with the IPC bit resets the registers.
WriteIrqMask == UpdateIPC(InitState, ios, ScheduleUpdate(events, 0))

-----------------------------------------------------------------------------
(* The program.  It starts long after the kernel, enables the interrupts,  *)
(* makes a request when the last one is acknowledged, and in its interrupt *)
(* handler takes a reply or an acknowledgement and clears the flag.  After *)
(* a launch it waits for two acknowledgements, or for the reply that the   *)
(* launch failed.                                                          *)

ResetIPC ==
  /\ pc = "boot" /\ ~Due /\ pc' = "enable"
  /\ WriteIrqMask
  /\ UNCHANGED <<line, sent, acks, launch, answered, loads>>

EnableInterrupts ==
  /\ pc = "enable" /\ pc' = "run"
  /\ WriteCtrl({"IY1", "IY2"}, 0)
  /\ UNCHANGED <<line, sent, acks, launch, answered, loads>>

MakeRequest(isLaunch) ==
  /\ pc = "run" /\ acks = 0 /\ launch = 0 /\ sent < MaxRequests
  /\ sent' = sent + 1
  /\ acks' = IF isLaunch THEN 2 ELSE 1
  /\ launch' = IF isLaunch THEN sent + 1 ELSE 0
  /\ WriteCtrl({"X1", "IY1", "IY2"}, sent + 1)
  /\ UNCHANGED <<line, pc, answered, loads>>

TakeReply ==
  /\ pc = "run" /\ line /\ {"Y1", "IY1"} \subseteq reg.ctrl
  /\ pc' = "flag"
  /\ answered' = answered \union {reg.arm_msg}
  /\ IF reg.arm_msg = launch THEN launch' = 0 /\ acks' = 0 ELSE UNCHANGED <<launch, acks>>
  /\ WriteCtrl({"Y1", "IY1", "IY2"}, 0)
  /\ UNCHANGED <<line, sent, loads>>

TakeAck ==
  /\ pc = "run" /\ line /\ {"Y2", "IY2"} \subseteq reg.ctrl
  /\ pc' = "flag"
  /\ acks' = IF acks = 0 THEN 0 ELSE acks - 1
  /\ launch' = IF acks <= 1 THEN 0 ELSE launch
  /\ WriteCtrl({"Y2", "IY1", "IY2"}, 0)
  /\ UNCHANGED <<line, sent, answered, loads>>

ClearFlag ==
  /\ pc = "flag" /\ pc' = "run"
  /\ WriteIrqFlag
  /\ UNCHANGED <<line, sent, acks, launch, answered, loads>>

\* A state is loaded: all is as it was when the state was saved, except m_ack_queue, which
\* DoState leaves as it is.
LoadState(queued) ==
  /\ loads < MaxLoads /\ loads' = loads + 1
  /\ queued # ios.acks
  /\ ios' = [ios EXCEPT !.acks = queued]
  /\ UNCHANGED <<reg, line, events, synchronous, forgotten, program>>

-----------------------------------------------------------------------------
\* IOS has booted and the program has not started.
Init ==
  /\ reg = InitState /\ line = FALSE /\ ios = NewKernel
  /\ events = [request |-> {}, reply |-> {}, ack |-> TRUE, update |-> {}]
  /\ pc = "boot" /\ sent = 0 /\ acks = 0 /\ launch = 0
  /\ answered = {} /\ synchronous = {} /\ forgotten = 0 /\ loads = 0

Emulator ==
  \/ \E t \in events.request : RequestEvent(t)
  \/ \E t \in events.reply : ReplyEvent(t)
  \/ AckEvent
  \/ UpdateInterrupts
  \/ Tick

Handler == TakeReply \/ TakeAck \/ ClearFlag

Next ==
  \/ Emulator
  \/ \E msg \in ios.held : DeviceReply(msg)
  \/ ResetIPC \/ EnableInterrupts
  \/ \E isLaunch \in BOOLEAN : MakeRequest(isLaunch)
  \/ Handler
  \/ \E queued \in 0..1 : LoadState(queued)

\* Emulation goes on, and the program serves its interrupts.
Fairness == WF_vars(Emulator) /\ WF_vars(Handler)

Spec == Init /\ [][Next]_vars /\ Fairness

-----------------------------------------------------------------------------
(* Properties.                                                             *)

\* The kernel does not sit on a packet that it may send: whatever made it ready, and in
\* whatever order that and the packets came, UpdateIPC was called after it.
NothingWaits ==
  IsReady(reg) => ios.requests = <<>> /\ ios.replies = <<>> /\ (ios.acks = 0 \/ loads > 0)

\* An acknowledgement or a reply that the program has enabled interrupts for raises one, and
\* the line shows the flag, at the latest when the scheduled updates have been made.
InterruptComes ==
  /\ Asserted(reg) => reg.flag \/ events.update # {}
  /\ events.update = {} => line = reg.flag

\* The request whose acknowledgement the program has yet to see.
Unacked == IF acks = (IF launch = 0 THEN 1 ELSE 2) THEN sent ELSE 0

\* A reply that the program can see is to a request it waits for, one that was not answered
\* before and was not lost with an older kernel, or comes late from a device of an older
\* kernel, once; and the program has seen the acknowledgement of the request, unless a load
\* brought an acknowledgement too many.
ReplyIsAwaited ==
  "Y1" \in reg.ctrl =>
    /\ reg.arm_msg \in Outstanding \/ reg.arm_msg \in ios.stray \ answered
    /\ reg.arm_msg # Unacked \/ loads > 0

\* "Shut down the active IOS first before switching to the new one": the program hears
\* nothing more from the old one.  It does not hold, a device's thread may reply while the
\* old kernel goes.
OldKernelIsSilent == "Y1" \in reg.ctrl => reg.arm_msg > forgotten

\* "Ensure replies happen in order": of two requests with synchronous replies the earlier
\* is answered first, whatever their delays.
RepliesInOrder ==
  \A m, n \in synchronous :
    m < n /\ m \in Outstanding => n \notin answered

AcksOnTheWay ==
  (IF "Y2" \in reg.ctrl THEN 1 ELSE 0) + (IF events.ack THEN 1 ELSE 0) + ios.acks

\* "two acknowledgements in a row (one from the previous IOS for this IPC request, and one
\* from the new one as it boots)": those a program waits for after a launch are on the way.
LaunchAckedTwice == launch # 0 /\ launch = forgotten => acks = AcksOnTheWay

\* A request is answered, unless a device keeps it or IOS is restarted.
RequestAnswered ==
  \A msg \in 1..MaxRequests :
    msg \in Outstanding ~> (msg \notin Outstanding \/ msg \in ios.held)

\* A program that waits for acknowledgements gets them, unless a state is loaded.
AcksArrive == acks > 0 ~> (acks = 0 \/ loads > 0)

=============================================================================

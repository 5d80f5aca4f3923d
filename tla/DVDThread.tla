------------------------------ MODULE DVDThread ------------------------------
(***************************************************************************)
(* Reading the disc: Core/HW/DVD/DVDThread.cpp.                            *)
(*                                                                         *)
(* The CPU thread pushes read requests and schedules a FinishRead event for *)
(* each; the DVD thread reads the disc and pushes results; FinishRead, at   *)
(* its emulated time, waits for its own result.  Whatever touches the disc  *)
(* or the saved state first waits until the DVD thread is idle.             *)
(*                                                                         *)
(* Grain of atomicity.  The two threads share the two SPSC queues, the two  *)
(* Common::Event and the exiting flag; an action makes one access to one of *)
(* them.  An Event is the auto-reset event of EventSpec.tla.  Push and Pop  *)
(* are atomic, for SPSCQueue publishes an element with a single store; but  *)
(* the request queue's Empty is called by its producer, and loads           *)
(* m_read_ptr and then that node's next, which a Pop in between clears and  *)
(* deletes: what the second load sees is then undetermined.                 *)
(***************************************************************************)
EXTENDS Integers, Sequences

CONSTANTS
  Discs,       \* the volumes that can be inserted
  NoDisc,      \* s_disc == nullptr
  None,        \* no request, no saved state
  Ops,         \* what the CPU thread does besides reading: a subset of AllOps
  MaxReads     \* bound: reads started

(* "Query" stands for GetTMD, GetTicket and UpdateRunningGameMetadata.      *)
Waits  == {"SetDisc", "Query", "Save", "Load"}
AllOps == Waits \cup {"Stop"}

ASSUME DiscsAssumption == NoDisc \notin Discs
ASSUME OpsAssumption == Ops \subseteq AllOps
ASSUME NoneAssumption == None \notin AllOps
ASSUME BoundsAssumption == MaxReads \in Nat

VARIABLES
  s_next_id,
  s_request_queue, s_request_queue_expanded,
  s_result_queue, s_result_queue_expanded,
  s_result_map,           \* its values; a key is its value's read.id
  s_dvd_thread_exiting,
  s_disc,
  events,                 \* the reads whose FinishRead event CoreTiming still holds
  saved,                  \* the last saved state, or None
  cpu, op,                \* where the CPU thread is, and for which of Ops
  read,                   \* the read FinishRead was called for
  result,                 \* the ReadResult it obtained
  popped,                 \* a Pop came between the two loads of Empty
  dvd, request,           \* where the DVD thread is, and the request it holds
  issued,                 \* history: how many reads were ever started
  mistaken,               \* history: Empty once said TRUE of a queue with requests in it
  leftover                \* history: a game once began with results in s_result_map

queues == <<s_request_queue, s_request_queue_expanded, s_result_queue, s_result_queue_expanded>>
cpuVars == <<s_next_id, s_result_map, s_disc, events, saved, op, read, result, issued>>
dvdVars == <<dvd, request>>
flaws   == <<mistaken, leftover>>
vars == <<queues, cpuVars, dvdVars, s_dvd_thread_exiting, cpu, popped, flaws>>

(* A read and the disc it was asked of; seq tells apart reads of the same   *)
(* id.  A result says which disc the data came from.                        *)
Read(id, seq, disc) == [id |-> id, seq |-> seq, disc |-> disc]
Result(r, disc)     == [read |-> r, from |-> disc]

Elements(s) == {s[i] : i \in 1..Len(s)}

------------------------------------------------------------------------------
(* Starting and finishing a read, on the CPU thread.                        *)

\* ExecuteReadCommand refuses to read without a disc.
StartRead ==
  /\ cpu = "run" /\ s_disc # NoDisc /\ issued < MaxReads
  /\ LET r == Read(s_next_id, issued, s_disc) IN
       /\ s_request_queue' = Append(s_request_queue, r)
       /\ events' = events \cup {r}
  /\ s_next_id' = s_next_id + 1 /\ issued' = issued + 1
  /\ cpu' = "signal"
  /\ UNCHANGED <<s_request_queue_expanded, s_result_queue, s_result_queue_expanded, s_result_map,
                 s_disc, saved, op, read, result, dvdVars, s_dvd_thread_exiting, popped, flaws>>

StartReadSignal ==
  /\ cpu = "signal" /\ cpu' = "run"
  /\ s_request_queue_expanded' = TRUE
  /\ UNCHANGED <<s_request_queue, s_result_queue, s_result_queue_expanded, cpuVars, dvdVars,
                 s_dvd_thread_exiting, popped, flaws>>

\* CoreTiming calls back in the order of the times, which need not be that of the reads.
FinishRead ==
  /\ cpu = "run"
  /\ \E r \in events :
       /\ events' = events \ {r} /\ read' = r
       /\ LET found == {m \in s_result_map : m.read.id = r.id} IN
            \/ /\ found = {} /\ cpu' = "pop"
               /\ UNCHANGED <<s_result_map, result>>
            \/ \E m \in found :
                 cpu' = "deliver" /\ result' = m /\ s_result_map' = s_result_map \ {m}
  /\ UNCHANGED <<queues, s_next_id, s_disc, saved, op, issued, dvdVars, s_dvd_thread_exiting, popped, flaws>>

\* std::map::emplace keeps the value that is there.
Emplace(m) ==
  IF \E n \in s_result_map : n.read.id = m.read.id THEN s_result_map ELSE s_result_map \cup {m}

\* The next result is taken for the wanted one.
IsWanted_Any(m) == m.read.id \in Nat

IsWanted(m) == m.read.id = read.id

PopResult ==
  /\ cpu = "pop" /\ s_result_queue # <<>>
  /\ s_result_queue' = Tail(s_result_queue)
  /\ LET m == Head(s_result_queue) IN
       \/ IsWanted(m) /\ cpu' = "deliver" /\ result' = m /\ UNCHANGED s_result_map
       \/ ~IsWanted(m) /\ s_result_map' = Emplace(m) /\ UNCHANGED <<cpu, result>>
  /\ UNCHANGED <<s_request_queue, s_request_queue_expanded, s_result_queue_expanded, s_next_id,
                 s_disc, events, saved, op, read, issued, dvdVars, s_dvd_thread_exiting, popped, flaws>>

PopNothing ==
  /\ cpu = "pop" /\ s_result_queue = <<>> /\ cpu' = "await"
  /\ UNCHANGED <<queues, cpuVars, dvdVars, s_dvd_thread_exiting, popped, flaws>>

\* s_result_queue_expanded.Wait(), in FinishRead and in WaitUntilIdle.
ResultWait ==
  /\ s_result_queue_expanded /\ s_result_queue_expanded' = FALSE
  /\ \/ cpu = "await" /\ cpu' = "pop"
     \/ cpu = "idleWait" /\ cpu' = "idle"
  /\ UNCHANGED <<s_request_queue, s_request_queue_expanded, s_result_queue, cpuVars, dvdVars,
                 s_dvd_thread_exiting, popped, flaws>>

\* CopyToEmu and FinishExecutingCommand.
Deliver ==
  /\ cpu = "deliver" /\ cpu' = "run"
  /\ read' = None /\ result' = None
  /\ UNCHANGED <<queues, s_next_id, s_result_map, s_disc, events, saved, op, issued, dvdVars,
                 s_dvd_thread_exiting, popped, flaws>>

------------------------------------------------------------------------------
(* Waiting until the DVD thread is idle, and what is done then.             *)

WaitUntilIdle(o) ==
  /\ cpu = "run" /\ o \in Ops
  /\ o = "Load" => saved # None
  /\ cpu' = "idle" /\ op' = o
  /\ UNCHANGED <<queues, s_next_id, s_result_map, s_disc, events, saved, read, result, issued,
                 dvdVars, s_dvd_thread_exiting, popped, flaws>>

EmptyReadPtr ==
  /\ cpu = "idle" /\ cpu' = "next"
  /\ UNCHANGED <<queues, cpuVars, dvdVars, s_dvd_thread_exiting, popped, flaws>>

\* One request may still be in the queue.
EmptyNext_One ==
  /\ cpu = "next" /\ popped' = FALSE
  /\ cpu' = IF Len(s_request_queue) <= 1 THEN "stop" ELSE "idleWait"
  /\ UNCHANGED <<queues, cpuVars, dvdVars, s_dvd_thread_exiting, flaws>>

EmptyNext ==
  /\ cpu = "next" /\ popped' = FALSE
  /\ \/ (s_request_queue = <<>> \/ popped) /\ cpu' = "stop"
     \/ (s_request_queue # <<>> \/ popped) /\ cpu' = "idleWait"
  /\ mistaken' = (mistaken \/ (cpu' = "stop" /\ s_request_queue # <<>>))
  /\ UNCHANGED <<queues, cpuVars, dvdVars, s_dvd_thread_exiting, leftover>>

\* StopDVDThread sets the flag and then the event, and joins.
StopExiting ==
  /\ cpu = "stop" /\ cpu' = "stopSignal"
  /\ s_dvd_thread_exiting' = TRUE
  /\ UNCHANGED <<queues, cpuVars, dvdVars, popped, flaws>>

\* The sleeping DVD thread is not woken.
StopSignal_Silent ==
  /\ cpu = "stopSignal" /\ cpu' = "join"
  /\ UNCHANGED <<queues, cpuVars, dvdVars, s_dvd_thread_exiting, popped, flaws>>

StopSignal ==
  /\ cpu = "stopSignal" /\ cpu' = "join"
  /\ s_request_queue_expanded' = TRUE
  /\ UNCHANGED <<s_request_queue, s_result_queue, s_result_queue_expanded, cpuVars, dvdVars,
                 s_dvd_thread_exiting, popped, flaws>>

\* With no DVD thread left, StartDVDThread follows, except in Stop.
Join ==
  /\ cpu = "join" /\ dvd = "exited" /\ op # "Stop"
  /\ s_dvd_thread_exiting' = FALSE /\ dvd' = "wait" /\ cpu' = "body"
  /\ UNCHANGED <<queues, cpuVars, request, popped, flaws>>

SetDisc ==
  /\ cpu = "body" /\ op = "SetDisc" /\ cpu' = "run" /\ op' = None
  /\ s_disc' \in Discs \cup {NoDisc}
  /\ UNCHANGED <<queues, s_next_id, s_result_map, events, saved, read, result, issued, dvdVars,
                 s_dvd_thread_exiting, popped, flaws>>

Query ==
  /\ cpu = "body" /\ op = "Query" /\ cpu' = "run" /\ op' = None
  /\ UNCHANGED <<queues, s_next_id, s_result_map, s_disc, events, saved, read, result, issued, dvdVars, s_dvd_thread_exiting, popped, flaws>>

\* DoState moves the results from the queue to the map, which it can save.
DrainResults ==
  /\ cpu = "body" /\ op \in {"Save", "Load"} /\ s_result_queue # <<>>
  /\ s_result_queue' = Tail(s_result_queue)
  /\ s_result_map' = Emplace(Head(s_result_queue))
  /\ UNCHANGED <<s_request_queue, s_request_queue_expanded, s_result_queue_expanded, s_next_id,
                 s_disc, events, saved, op, read, result, issued, dvdVars, s_dvd_thread_exiting,
                 cpu, popped, flaws>>

SaveState ==
  /\ cpu = "body" /\ op = "Save" /\ s_result_queue = <<>> /\ cpu' = "run" /\ op' = None
  /\ saved' = [map |-> s_result_map, next_id |-> s_next_id, events |-> events,
               had_disc |-> s_disc # NoDisc]
  /\ UNCHANGED <<queues, s_next_id, s_result_map, s_disc, events, read, result, issued, dvdVars,
                 s_dvd_thread_exiting, popped, flaws>>

\* CoreTiming::DoState has brought back the saved events already.
LoadState ==
  /\ cpu = "body" /\ op = "Load" /\ s_result_queue = <<>> /\ cpu' = "run" /\ op' = None
  /\ s_result_map' = saved.map /\ s_next_id' = saved.next_id /\ events' = saved.events
  /\ s_disc' = IF saved.had_disc THEN s_disc ELSE NoDisc
  /\ UNCHANGED <<queues, saved, read, result, issued, dvdVars, s_dvd_thread_exiting, popped, flaws>>

------------------------------------------------------------------------------
(* Emulation stops and another game starts.                                 *)

Stop ==
  /\ cpu = "run" /\ "Stop" \in Ops
  /\ cpu' = "stop" /\ op' = "Stop"
  /\ UNCHANGED <<queues, s_next_id, s_result_map, s_disc, events, saved, read, result, issued,
                 dvdVars, s_dvd_thread_exiting, popped, flaws>>

\* CoreTiming::Shutdown clears the events.
Stopped ==
  /\ cpu = "join" /\ dvd = "exited" /\ op = "Stop" /\ cpu' = "off" /\ op' = None
  /\ s_disc' = NoDisc /\ events' = {}
  /\ UNCHANGED <<queues, s_next_id, s_result_map, saved, read, result, issued, dvdVars,
                 s_dvd_thread_exiting, popped, flaws>>

\* Start leaves s_result_map alone.
Start ==
  /\ cpu = "off" /\ cpu' = "run"
  /\ s_request_queue_expanded' = FALSE /\ s_result_queue_expanded' = FALSE
  /\ s_request_queue' = <<>> /\ s_result_queue' = <<>>
  /\ s_next_id' = 0
  /\ s_dvd_thread_exiting' = FALSE /\ dvd' = "wait"
  /\ leftover' = (leftover \/ s_result_map # {})
  /\ UNCHANGED <<s_result_map, s_disc, events, saved, op, read, result, issued, request, popped,
                 mistaken>>

------------------------------------------------------------------------------
(* The DVD thread.                                                          *)

RequestWait ==
  /\ dvd = "wait" /\ dvd' = "woken"
  /\ s_request_queue_expanded /\ s_request_queue_expanded' = FALSE
  /\ UNCHANGED <<s_request_queue, s_result_queue, s_result_queue_expanded, cpuVars, request,
                 s_dvd_thread_exiting, cpu, popped, flaws>>

\* The flag is tested after each wait and after each request.
ExitTest ==
  /\ dvd \in {"woken", "answered"}
  /\ dvd' = IF s_dvd_thread_exiting THEN "exited" ELSE "pop"
  /\ UNCHANGED <<queues, cpuVars, request, s_dvd_thread_exiting, cpu, popped, flaws>>

PopRequest ==
  /\ dvd = "pop" /\ s_request_queue # <<>> /\ dvd' = "read"
  /\ request' = Head(s_request_queue) /\ s_request_queue' = Tail(s_request_queue)
  /\ popped' = (popped \/ cpu = "next")
  /\ UNCHANGED <<s_request_queue_expanded, s_result_queue, s_result_queue_expanded, cpuVars,
                 s_dvd_thread_exiting, cpu, flaws>>

PopNoRequest ==
  /\ dvd = "pop" /\ s_request_queue = <<>> /\ dvd' = "wait"
  /\ UNCHANGED <<queues, cpuVars, request, s_dvd_thread_exiting, cpu, popped, flaws>>

ReadDisc ==
  /\ dvd = "read" /\ dvd' = "notify"
  /\ s_result_queue' = Append(s_result_queue, Result(request, s_disc))
  /\ request' = None
  /\ UNCHANGED <<s_request_queue, s_request_queue_expanded, s_result_queue_expanded, cpuVars,
                 s_dvd_thread_exiting, cpu, popped, flaws>>

\* The waiting CPU thread is not woken.
ResultSignal_Silent ==
  /\ dvd = "notify" /\ dvd' = "answered"
  /\ UNCHANGED <<queues, cpuVars, request, s_dvd_thread_exiting, cpu, popped, flaws>>

ResultSignal ==
  /\ dvd = "notify" /\ dvd' = "answered"
  /\ s_result_queue_expanded' = TRUE
  /\ UNCHANGED <<s_request_queue, s_request_queue_expanded, s_result_queue, cpuVars, request,
                 s_dvd_thread_exiting, cpu, popped, flaws>>

------------------------------------------------------------------------------
Init ==
  /\ s_next_id = 0 /\ s_result_map = {} /\ s_disc = NoDisc /\ events = {} /\ saved = None
  /\ s_request_queue = <<>> /\ s_result_queue = <<>>
  /\ s_request_queue_expanded = FALSE /\ s_result_queue_expanded = FALSE
  /\ s_dvd_thread_exiting = FALSE
  /\ cpu = "run" /\ op = None /\ read = None /\ result = None /\ popped = FALSE
  /\ dvd = "wait" /\ request = None /\ issued = 0 /\ mistaken = FALSE /\ leftover = FALSE

(* The steps of a call under way.  Those that begin one are the game's and  *)
(* the user's choice, except that a FinishRead event does fall due.         *)
CallStep ==
  \/ StartReadSignal \/ PopResult \/ PopNothing \/ ResultWait \/ Deliver
  \/ EmptyReadPtr \/ EmptyNext \/ StopExiting \/ StopSignal \/ Join
  \/ SetDisc \/ Query \/ DrainResults \/ SaveState \/ LoadState \/ Stopped

DVDStep == RequestWait \/ ExitTest \/ PopRequest \/ PopNoRequest \/ ReadDisc \/ ResultSignal

Next ==
  \/ StartRead \/ FinishRead \/ Stop \/ Start \/ \E o \in Waits : WaitUntilIdle(o)
  \/ CallStep
  \/ DVDStep

Spec == Init /\ [][Next]_vars

FairSpec == Spec /\ WF_vars(CallStep) /\ WF_vars(DVDStep)

------------------------------------------------------------------------------
(* What FinishRead still has to be answered, and where the answers are.     *)
Expected == events \cup IF cpu \in {"pop", "await"} THEN {read} ELSE {}

Requested == Elements(s_request_queue) \cup IF dvd = "read" THEN {request} ELSE {}
Answered  == Elements(s_result_queue) \cup s_result_map
InFlight  == Requested \cup {m.read : m \in Answered}

Reads   == [id : Nat, seq : Nat, disc : Discs]
Results == [read : Reads, from : Discs \cup {NoDisc}]

SavedStates ==
  [map : SUBSET Results, next_id : Nat, events : SUBSET Reads, had_disc : BOOLEAN]

FlagsOK ==
  /\ s_request_queue_expanded \in BOOLEAN /\ s_result_queue_expanded \in BOOLEAN
  /\ s_dvd_thread_exiting \in BOOLEAN /\ popped \in BOOLEAN
  /\ mistaken \in BOOLEAN /\ leftover \in BOOLEAN

TypeOK ==
  /\ FlagsOK
  /\ s_next_id \in Nat /\ issued \in Nat /\ s_disc \in Discs \cup {NoDisc}
  /\ s_request_queue \in Seq(Reads) /\ s_result_queue \in Seq(Results)
  /\ s_result_map \subseteq Results /\ events \subseteq Reads
  /\ saved = None \/ saved \in SavedStates
  /\ cpu \in {"run", "signal", "pop", "await", "deliver", "idle", "next", "idleWait", "stop",
              "stopSignal", "join", "body", "off"}
  /\ op \in Waits \cup {"Stop", None}
  /\ cpu \in {"pop", "await", "deliver"} => read \in Reads
  /\ cpu = "deliver" => result \in Results
  /\ dvd \in {"wait", "woken", "pop", "read", "notify", "answered", "exited"}
  /\ dvd = "read" => request \in Reads

\* DoState: "we ensure that s_request_queue will be empty and that the DVD thread won't be
\* touching anything while this function runs".  The code does not keep it: a Pop between the
\* two loads of Empty makes it say that a queue which still holds requests is empty.
IdleInBody == cpu = "body" => s_request_queue = <<>> /\ dvd \in {"wait", "woken", "pop"}

\* That answer of Empty is the only way to break DoState's promise.
IdleUnlessMistaken == ~mistaken => IdleInBody

\* Neither of the two things has happened that the code does not guard against.
Undisturbed == ~mistaken /\ ~leftover

\* FinishRead hands the emulated software the result of its own request, read from the
\* disc that was in the drive when it was asked for.
OwnResult == cpu = "deliver" => result = Result(read, read.disc)

\* FinishRead hands over the right result, whatever was stopped, saved, loaded or inserted in
\* between, as long as Empty has not been mistaken and no game began with another's results.
RightResult == Undisturbed => OwnResult

\* No read is lost: whatever FinishRead will be called for, or waits for, is a request in
\* the queue or in the DVD thread's hands, or a result in the queue or in the map, across
\* restarts of the DVD thread, saves, loads and disc changes.
NoReadLost == Expected \subseteq InFlight

\* Ids do what the code wants of them: among the reads still known they tell one from another.
IdsOK ==
  /\ \A r \in InFlight \cup Expected : r.id < s_next_id
  /\ \A r \in InFlight \cup Expected, q \in InFlight : r.id = q.id => r = q

DiscOK ==
  /\ \A m \in Answered : m.from = m.read.disc
  /\ cpu # "off" => \A r \in Requested : r.disc = s_disc

\* A saved state holds the result of every read it will finish.
SavedOK ==
  saved # None =>
    /\ \A m \in saved.map : m.from = m.read.disc
    /\ \A m \in saved.map : m.read.id < saved.next_id
    /\ \A r \in saved.events : \E m \in saved.map : m.read = r
    /\ \A m, n \in saved.map : m.read.id = n.read.id => m = n

\* On the way to the body nothing is queued any more, unless Empty was mistaken.
Stopping == {"stop", "stopSignal", "join"}
PlacesOK ==
  /\ popped => cpu = "next"
  /\ ~mistaken /\ cpu \in Stopping /\ op # "Stop" => s_request_queue = <<>>
  /\ cpu = "off" => dvd = "exited" /\ events = {}
  /\ cpu \in {"idle", "next", "idleWait", "body"} => op \in Waits
  /\ cpu \in Stopping => op \in Waits \cup {"Stop"}
  /\ s_dvd_thread_exiting => cpu \in {"stopSignal", "join", "off"}
  /\ op = "Load" => saved # None
  /\ cpu \in {"pop", "await"} => read \notin events

ReadsOK == IdsOK /\ DiscOK /\ SavedOK /\ NoReadLost /\ OwnResult

\* The invariant that carries RightResult and IdleUnlessMistaken.
IndInv ==
  /\ TypeOK /\ PlacesOK /\ IdleUnlessMistaken
  /\ Undisturbed => ReadsOK

\* FinishRead never waits for ever, whenever the DVD thread was restarted, unless a request
\* was left behind by a mistaken Empty.
FinishReturns == cpu \in {"pop", "await"} ~> cpu = "deliver" \/ mistaken

\* WaitUntilIdle and Stop return, with the same exception: the DVD thread sees that it has to
\* exit.
WaitReturns == cpu \in {"idle", "stop"} ~> cpu \in {"run", "off"} \/ mistaken
=============================================================================

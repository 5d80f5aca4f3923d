--------------------------- MODULE DVDThreadProofs ---------------------------
(***************************************************************************)
(* Proofs about DVDThread.tla, for any discs, any number of reads and any  *)
(* number of requests queued: FinishRead gets its own result, and no read  *)
(* is lost, and the two threads never wait for each other, until Empty is  *)
(* mistaken or a game begins with another's results.                       *)
(***************************************************************************)
EXTENDS DVDThread, TLAPS

\* What a queue holds after Push, and before and after Pop.
LEMMA ElementsAppend ==
  ASSUME NEW S, NEW s \in Seq(S), NEW e \in S
  PROVE  Append(s, e) \in Seq(S) /\ Elements(Append(s, e)) = Elements(s) \cup {e}
<1>1. Append(s, e) \in Seq(S) /\ Len(Append(s, e)) = Len(s) + 1
  OBVIOUS
<1>2. \A i \in 1..Len(s) : Append(s, e)[i] = s[i]
  OBVIOUS
<1>3. Append(s, e)[Len(s) + 1] = e
  OBVIOUS
<1>4. 1..(Len(s) + 1) = (1..Len(s)) \cup {Len(s) + 1}
  OBVIOUS
<1> QED BY <1>1, <1>2, <1>3, <1>4 DEF Elements

LEMMA ElementsPop ==
  ASSUME NEW S, NEW s \in Seq(S), s # <<>>
  PROVE  /\ Head(s) \in S /\ Tail(s) \in Seq(S)
         /\ Elements(s) = {Head(s)} \cup Elements(Tail(s))
<1>1. Head(s) \in S /\ Tail(s) \in Seq(S) /\ Len(Tail(s)) = Len(s) - 1 /\ Len(s) >= 1
  OBVIOUS
<1>2. \A i \in 1..Len(Tail(s)) : Tail(s)[i] = s[i + 1]
  OBVIOUS
<1>3. Head(s) = s[1]
  OBVIOUS
<1>4. Elements(s) \subseteq {Head(s)} \cup Elements(Tail(s))
  <2> SUFFICES ASSUME NEW i \in 1..Len(s), i # 1 PROVE s[i] \in Elements(Tail(s))
    BY <1>3 DEF Elements
  <2>1. i - 1 \in 1..Len(Tail(s)) /\ s[i] = Tail(s)[i - 1]
    BY <1>1, <1>2
  <2> QED BY <2>1 DEF Elements
<1>5. Elements(Tail(s)) \subseteq Elements(s)
  <2> SUFFICES ASSUME NEW i \in 1..Len(Tail(s)) PROVE Tail(s)[i] \in Elements(s)
    BY DEF Elements
  <2>1. i + 1 \in 1..Len(s) /\ Tail(s)[i] = s[i + 1]
    BY <1>1, <1>2
  <2> QED BY <2>1 DEF Elements
<1> QED BY <1>1, <1>3, <1>4, <1>5 DEF Elements

LEMMA ElementsEmpty == Elements(<<>>) = {}
BY DEF Elements

LEMMA ElementsTyped == ASSUME NEW S, NEW s \in Seq(S) PROVE Elements(s) \subseteq S
BY DEF Elements

------------------------------------------------------------------------------
(* Where the threads are, and what they hold, whatever Empty answered.      *)
Base == TypeOK /\ PlacesOK /\ IdleUnlessMistaken

\* The events and the flags stay Boolean.
LEMMA FlagsStep == ASSUME FlagsOK, Next PROVE FlagsOK'
<1> USE DEF FlagsOK, queues, flaws
<1>1. CASE StartRead
  BY <1>1, Zenon DEF StartRead
<1>2. CASE FinishRead
  BY <1>2, Zenon DEF FinishRead
<1>3. CASE Stop
  BY <1>3, Zenon DEF Stop
<1>4. CASE Start
  BY <1>4, Zenon DEF Start
<1>5. CASE StartReadSignal
  BY <1>5, Zenon DEF StartReadSignal
<1>6. CASE PopResult
  BY <1>6, Zenon DEF PopResult
<1>7. CASE PopNothing
  BY <1>7, Zenon DEF PopNothing
<1>8. CASE ResultWait
  BY <1>8, Zenon DEF ResultWait
<1>9. CASE Deliver
  BY <1>9, Zenon DEF Deliver
<1>10. CASE EmptyReadPtr
  BY <1>10, Zenon DEF EmptyReadPtr
<1>11. CASE EmptyNext
  BY <1>11, Zenon DEF EmptyNext
<1>12. CASE StopExiting
  BY <1>12, Zenon DEF StopExiting
<1>13. CASE StopSignal
  BY <1>13, Zenon DEF StopSignal
<1>14. CASE Join
  BY <1>14, Zenon DEF Join
<1>15. CASE SetDisc
  BY <1>15, Zenon DEF SetDisc
<1>16. CASE Query
  BY <1>16, Zenon DEF Query
<1>17. CASE DrainResults
  BY <1>17, Zenon DEF DrainResults
<1>18. CASE SaveState
  BY <1>18, Zenon DEF SaveState
<1>19. CASE LoadState
  BY <1>19, Zenon DEF LoadState
<1>20. CASE Stopped
  BY <1>20, Zenon DEF Stopped
<1>21. CASE RequestWait
  BY <1>21, Zenon DEF RequestWait
<1>22. CASE ExitTest
  BY <1>22, Zenon DEF ExitTest
<1>23. CASE PopRequest
  BY <1>23, Zenon DEF PopRequest
<1>24. CASE PopNoRequest
  BY <1>24, Zenon DEF PopNoRequest
<1>25. CASE ReadDisc
  BY <1>25, Zenon DEF ReadDisc
<1>26. CASE ResultSignal
  BY <1>26, Zenon DEF ResultSignal
<1>27. ASSUME NEW o \in Waits, WaitUntilIdle(o) PROVE FlagsOK'
  BY <1>27, Zenon DEF WaitUntilIdle
<1> QED BY <1>1, <1>2, <1>3, <1>4, <1>5, <1>6, <1>7, <1>8, <1>9, <1>10, <1>11, <1>12, <1>13, <1>14,
           <1>15, <1>16, <1>17, <1>18, <1>19, <1>20, <1>21, <1>22, <1>23, <1>24, <1>25, <1>26, <1>27
           DEF Next, CallStep, DVDStep

\* Every step keeps the types, the places, and DoState's promise unless Empty is mistaken.
LEMMA BaseStep == ASSUME Base, Next PROVE Base'
<1>f. FlagsOK /\ FlagsOK'
  BY FlagsStep DEF Base, TypeOK
<1> USE NoneAssumption, DiscsAssumption, <1>f
    DEF Base, TypeOK, FlagsOK, PlacesOK, IdleUnlessMistaken, IdleInBody, Stopping, AllOps, Waits,
        queues, cpuVars, dvdVars, flaws
<1>1. CASE Stop
  BY <1>1 DEF Stop
<1>2. CASE Start
  BY <1>2 DEF Start
<1>3. CASE StartReadSignal
  BY <1>3 DEF StartReadSignal
<1>4. CASE PopNothing
  BY <1>4 DEF PopNothing
<1>5. CASE ResultWait
  BY <1>5 DEF ResultWait
<1>6. CASE Deliver
  BY <1>6 DEF Deliver
<1>7. CASE EmptyReadPtr
  BY <1>7 DEF EmptyReadPtr
<1>8. CASE EmptyNext
  BY <1>8 DEF EmptyNext
<1>9. CASE StopExiting
  BY <1>9 DEF StopExiting
<1>10. CASE StopSignal
  BY <1>10 DEF StopSignal
<1>11. CASE Join
  BY <1>11 DEF Join
<1>12. CASE SetDisc
  BY <1>12 DEF SetDisc
<1>13. CASE Query
  BY <1>13 DEF Query
<1>14. CASE Stopped
  BY <1>14 DEF Stopped
<1>15. CASE RequestWait
  BY <1>15 DEF RequestWait
<1>16. CASE ExitTest
  BY <1>16 DEF ExitTest
<1>17. CASE PopNoRequest
  BY <1>17 DEF PopNoRequest
<1>18. CASE ResultSignal
  BY <1>18 DEF ResultSignal
<1>19. ASSUME NEW o \in Waits, WaitUntilIdle(o) PROVE Base'
  BY <1>19 DEF WaitUntilIdle
<1>20. CASE StartRead
  <2>1. Read(s_next_id, issued, s_disc) \in Reads
    BY <1>20 DEF StartRead, Read, Reads
  <2>2. s_request_queue' \in Seq(Reads)
    BY <1>20, <2>1, ElementsAppend DEF StartRead
  <2> QED BY <1>20, <2>1, <2>2 DEF StartRead
<1>21. CASE FinishRead
  <2>1. PICK r \in events :
          /\ events' = events \ {r} /\ read' = r
          /\ \/ cpu' = "pop" /\ UNCHANGED <<s_result_map, result>>
             \/ \E m \in s_result_map :
                  cpu' = "deliver" /\ result' = m /\ s_result_map' = s_result_map \ {m}
    BY <1>21 DEF FinishRead
  <2>2. \/ cpu' = "pop"
        \/ cpu' = "deliver" /\ result' \in Results
    BY <2>1
  <2>3. s_result_map' \subseteq Results
    BY <2>1
  <2> QED BY <1>21, <2>1, <2>2, <2>3 DEF FinishRead
<1>22. CASE PopResult
  <2>1. Head(s_result_queue) \in Results /\ s_result_queue' \in Seq(Results)
    BY <1>22, ElementsPop DEF PopResult
  <2>2. s_result_map' \subseteq Results
    BY <1>22, <2>1 DEF PopResult, Emplace
  <2> QED BY <1>22, <2>1, <2>2 DEF PopResult
<1>23. CASE DrainResults
  <2>1. Head(s_result_queue) \in Results /\ s_result_queue' \in Seq(Results)
    BY <1>23, ElementsPop DEF DrainResults
  <2>2. s_result_map' \subseteq Results
    BY <1>23, <2>1 DEF DrainResults, Emplace
  <2> QED BY <1>23, <2>1, <2>2 DEF DrainResults
<1>24. CASE PopRequest
  <2>1. request' \in Reads /\ s_request_queue' \in Seq(Reads)
    BY <1>24, ElementsPop DEF PopRequest
  <2>2. popped' => cpu = "next"
    BY <1>24, Zenon DEF PopRequest
  <2> QED BY <1>24, <2>1, <2>2 DEF PopRequest
<1>25. CASE ReadDisc
  <2>1. Result(request, s_disc) \in Results
    BY <1>25 DEF ReadDisc, Result, Results
  <2>2. s_result_queue' \in Seq(Results)
    BY <1>25, <2>1, ElementsAppend DEF ReadDisc
  <2> QED BY <1>25, <2>2 DEF ReadDisc
<1>26. CASE SaveState
  <2>1. saved' \in SavedStates
    BY <1>26 DEF SaveState, SavedStates
  <2> QED BY <1>26, <2>1 DEF SaveState
<1>27. CASE LoadState
  <2>1. saved \in SavedStates
    BY <1>27 DEF LoadState
  <2> QED BY <1>27, <2>1 DEF LoadState, SavedStates
<1> QED BY <1>1, <1>2, <1>3, <1>4, <1>5, <1>6, <1>7, <1>8, <1>9, <1>10, <1>11, <1>12, <1>13, <1>14, <1>15, <1>16, <1>17, <1>18, <1>19, <1>20, <1>21, <1>22, <1>23, <1>24, <1>25, <1>26, <1>27
           DEF Next, CallStep, DVDStep

\* Nothing that has gone wrong is forgotten.
LEMMA FlawsStay == ASSUME Base, [Next]_vars PROVE Undisturbed' => Undisturbed
<1> USE DEF Undisturbed, flaws
<1>1. CASE Next
  BY <1>1, Zenon DEF Next, CallStep, DVDStep, StartRead, FinishRead, Stop, Start, StartReadSignal, PopResult, PopNothing, ResultWait, Deliver, EmptyReadPtr, EmptyNext, StopExiting, StopSignal, Join, SetDisc, Query, DrainResults, SaveState, LoadState, Stopped, RequestWait, ExitTest, PopRequest, PopNoRequest, ReadDisc, ResultSignal, WaitUntilIdle
<1>2. CASE UNCHANGED vars
  BY <1>2, Zenon DEF vars
<1> QED BY <1>1, <1>2

------------------------------------------------------------------------------
(* The reads, as long as nothing has gone wrong.                            *)
Sound == TypeOK /\ PlacesOK /\ IdleInBody /\ IdsOK /\ DiscOK /\ SavedOK /\ NoReadLost /\ OwnResult

\* The state of Start with nothing requested.
LEMMA InitIndInv == Init => IndInv
<1> SUFFICES ASSUME Init PROVE IndInv
  OBVIOUS
<1>1. InFlight = {} /\ Expected = {} /\ Requested = {} /\ Answered = {}
  BY ElementsEmpty DEF Init, InFlight, Expected, Requested, Answered
<1>2. FlagsOK
  BY Zenon DEF Init, FlagsOK
<1>3. TypeOK
  BY <1>2 DEF Init, TypeOK
<1>4. PlacesOK
  BY NoneAssumption, <1>2 DEF Init, PlacesOK, Stopping, AllOps, Waits, FlagsOK
<1>5. ReadsOK
  BY <1>1 DEF Init, ReadsOK, IdsOK, DiscOK, SavedOK, NoReadLost, OwnResult
<1> QED BY <1>3, <1>4, <1>5 DEF Init, IndInv, IdleUnlessMistaken, IdleInBody

\* A step that moves no read keeps what is said of the reads.
Frame ==
  /\ UNCHANGED <<s_request_queue, s_result_queue, s_result_map, events, s_next_id, s_disc, saved>>
  /\ dvd' = "read" <=> dvd = "read"
  /\ request' = request
  /\ cpu' \in {"pop", "await"} <=> cpu \in {"pop", "await"}
  /\ cpu' \in {"pop", "await"} => read' = read
  /\ cpu' = "deliver" => cpu = "deliver" /\ read' = read /\ result' = result
  /\ cpu # "off" /\ cpu' # "off"

LEMMA Framed == ASSUME Sound, Frame PROVE ReadsOK'
<1>1. Requested' = Requested /\ Answered' = Answered /\ Expected' = Expected
  BY DEF Frame, Requested, Answered, Expected
<1>2. InFlight' = InFlight
  BY <1>1 DEF InFlight
<1>3. IdsOK' /\ NoReadLost'
  BY <1>1, <1>2 DEF Sound, IdsOK, NoReadLost, Frame
<1>4. DiscOK' /\ OwnResult'
  BY <1>1 DEF Sound, DiscOK, OwnResult, Frame
<1>5. SavedOK'
  BY DEF Sound, SavedOK, Frame
<1> QED BY <1>3, <1>4, <1>5 DEF ReadsOK

\* The steps that only move a thread, or set or clear an event or the flag.
LEMMA FrameSteps ==
  ASSUME Sound,
         \/ StartReadSignal \/ PopNothing \/ ResultWait \/ Deliver \/ EmptyReadPtr \/ EmptyNext
         \/ StopExiting \/ StopSignal \/ Join \/ Query \/ Stop \/ \E o \in Waits : WaitUntilIdle(o)
         \/ RequestWait \/ ExitTest \/ PopNoRequest \/ ResultSignal
  PROVE  ReadsOK'
<1> USE DEF Frame, Sound, TypeOK, PlacesOK, queues, cpuVars, dvdVars
<1>1. CASE StartReadSignal
  <2>1. Frame
    BY <1>1 DEF StartReadSignal
  <2> QED BY <2>1, Framed
<1>2. CASE PopNothing
  <2>1. Frame
    BY <1>2 DEF PopNothing
  <2> QED BY <2>1, Framed
<1>3. CASE ResultWait
  <2>1. Frame
    BY <1>3 DEF ResultWait
  <2> QED BY <2>1, Framed
<1>4. CASE Deliver
  <2>1. Frame
    BY <1>4 DEF Deliver
  <2> QED BY <2>1, Framed
<1>5. CASE EmptyReadPtr
  <2>1. Frame
    BY <1>5 DEF EmptyReadPtr
  <2> QED BY <2>1, Framed
<1>6. CASE EmptyNext
  <2>1. Frame
    BY <1>6 DEF EmptyNext
  <2> QED BY <2>1, Framed
<1>7. CASE StopExiting
  <2>1. Frame
    BY <1>7 DEF StopExiting
  <2> QED BY <2>1, Framed
<1>8. CASE StopSignal
  <2>1. Frame
    BY <1>8 DEF StopSignal
  <2> QED BY <2>1, Framed
<1>9. CASE Join
  <2>1. Frame
    BY <1>9 DEF Join
  <2> QED BY <2>1, Framed
<1>10. CASE Query
  <2>1. Frame
    BY <1>10 DEF Query
  <2> QED BY <2>1, Framed
<1>11. CASE Stop
  <2>1. Frame
    BY <1>11 DEF Stop
  <2> QED BY <2>1, Framed
<1>12. CASE RequestWait
  <2>1. Frame
    BY <1>12 DEF RequestWait
  <2> QED BY <2>1, Framed
<1>13. CASE ExitTest
  <2>1. Frame
    BY <1>13 DEF ExitTest
  <2> QED BY <2>1, Framed
<1>14. CASE PopNoRequest
  <2>1. Frame
    BY <1>14 DEF PopNoRequest
  <2> QED BY <2>1, Framed
<1>15. CASE ResultSignal
  <2>1. Frame
    BY <1>15 DEF ResultSignal
  <2> QED BY <2>1, Framed
<1>16. ASSUME NEW o \in Waits, WaitUntilIdle(o) PROVE ReadsOK'
  <2>1. Frame
    BY <1>16 DEF WaitUntilIdle
  <2> QED BY <2>1, Framed
<1> QED BY <1>1, <1>2, <1>3, <1>4, <1>5, <1>6, <1>7, <1>8, <1>9, <1>10, <1>11, <1>12, <1>13, <1>14, <1>15, <1>16

------------------------------------------------------------------------------
(* The steps that move reads.  Each first says what becomes of Requested,   *)
(* Answered and Expected.                                                   *)

\* Everything known of a read is a read.
LEMMA KnownTyped == ASSUME Sound PROVE InFlight \subseteq Reads /\ Expected \subseteq Reads
<1>1. Requested \subseteq Reads
  BY ElementsTyped DEF Sound, TypeOK, Requested
<1>2. Answered \subseteq Results
  BY ElementsTyped DEF Sound, TypeOK, Answered
<1>3. Expected \subseteq Reads
  BY DEF Sound, TypeOK, Expected
<1> QED BY <1>1, <1>2, <1>3 DEF InFlight, Results

\* A new read has an id of its own.
LEMMA StartReadStep == ASSUME Sound, StartRead PROVE ReadsOK'
<1> DEFINE r == Read(s_next_id, issued, s_disc)
<1>1. r \in Reads /\ r.id = s_next_id /\ r.disc = s_disc
  BY DiscsAssumption DEF StartRead, Sound, TypeOK, Read, Reads
<1>2. /\ s_request_queue' \in Seq(Reads)
      /\ Elements(s_request_queue') = Elements(s_request_queue) \cup {r}
  BY <1>1, ElementsAppend DEF StartRead, Sound, TypeOK
<1>3. /\ Requested' = Requested \cup {r} /\ Answered' = Answered
      /\ Expected' = Expected \cup {r}
  BY <1>2 DEF StartRead, Requested, Answered, Expected, dvdVars
<1>4. InFlight' = InFlight \cup {r}
  BY <1>3 DEF InFlight
<1>5. OwnResult' /\ SavedOK'
  BY DEF StartRead, Sound, TypeOK, FlagsOK, PlacesOK, Stopping, IdleInBody, OwnResult, SavedOK, dvdVars
<1>6. IdsOK'
  <2>1. \A q \in InFlight \cup Expected : q.id \in Nat /\ q.id < s_next_id
    BY KnownTyped DEF Sound, IdsOK, Reads
  <2>2. s_next_id' = s_next_id + 1 /\ s_next_id \in Nat
    BY DEF StartRead, Sound, TypeOK
  <2>3. \A q \in InFlight \cup Expected : q.id # r.id
    BY <1>1, <2>1, <2>2
  <2> HIDE DEF r
  <2> QED BY <1>1, <1>3, <1>4, <2>1, <2>2, <2>3 DEF Sound, IdsOK
<1>7. DiscOK' /\ NoReadLost'
  BY <1>1, <1>3, <1>4 DEF StartRead, Sound, DiscOK, NoReadLost
<1> QED BY <1>5, <1>6, <1>7 DEF ReadsOK

\* The DVD thread takes a request from the queue into its hands.
LEMMA PopRequestStep == ASSUME Sound, PopRequest PROVE ReadsOK'
<1>1. /\ request' \in Reads /\ s_request_queue' \in Seq(Reads)
      /\ Elements(s_request_queue) = {request'} \cup Elements(s_request_queue')
  BY ElementsPop DEF PopRequest, Sound, TypeOK
<1>2. Requested' = Requested /\ Answered' = Answered /\ Expected' = Expected
  BY <1>1 DEF PopRequest, Requested, Answered, Expected, cpuVars
<1>3. InFlight' = InFlight
  BY <1>2 DEF InFlight
<1>4. SavedOK' /\ OwnResult'
  BY <1>1 DEF PopRequest, Sound, TypeOK, SavedOK, IdleInBody, OwnResult, cpuVars
<1>5. IdsOK' /\ DiscOK' /\ NoReadLost'
  BY <1>2, <1>3 DEF PopRequest, Sound, IdsOK, DiscOK, NoReadLost, cpuVars
<1> QED BY <1>4, <1>5 DEF ReadsOK

\* What the DVD thread reads comes from the disc the request was made of.
LEMMA ReadDiscStep == ASSUME Sound, ReadDisc PROVE ReadsOK'
<1> DEFINE m == Result(request, s_disc)
<1>1. m \in Results /\ m.read = request /\ m.from = s_disc /\ request \in Requested
  BY DEF ReadDisc, Sound, TypeOK, Result, Results, Requested
<1>2. /\ s_result_queue' \in Seq(Results)
      /\ Elements(s_result_queue') = Elements(s_result_queue) \cup {m}
  BY <1>1, ElementsAppend DEF ReadDisc, Sound, TypeOK
<1>3. /\ Requested = Requested' \cup {request} /\ Answered' = Answered \cup {m}
      /\ Expected' = Expected
  BY <1>2 DEF ReadDisc, Requested, Answered, Expected, cpuVars
<1>4. InFlight' = InFlight
  <2> HIDE DEF m
  <2> QED BY <1>1, <1>3 DEF InFlight
<1>5. SavedOK' /\ OwnResult'
  BY <1>2 DEF ReadDisc, Sound, TypeOK, SavedOK, IdleInBody, OwnResult, cpuVars
<1>6. IdsOK' /\ NoReadLost'
  BY <1>3, <1>4 DEF ReadDisc, Sound, IdsOK, NoReadLost, cpuVars
<1>7. DiscOK'
  <2>1. cpu # "off" /\ cpu' = cpu /\ s_disc' = s_disc
    BY DEF ReadDisc, Sound, PlacesOK, cpuVars
  <2> HIDE DEF m
  <2> QED BY <1>1, <1>3, <2>1 DEF Sound, DiscOK
<1> QED BY <1>5, <1>6, <1>7 DEF ReadsOK

\* A result is moved from the queue to the map, unless the map has it.
LEMMA Moved ==
  ASSUME Sound, s_result_queue # <<>>, s_result_queue' = Tail(s_result_queue),
         s_result_map' = Emplace(Head(s_result_queue)),
         UNCHANGED <<s_request_queue, dvd, request>>
  PROVE  /\ s_result_queue' \in Seq(Results) /\ s_result_map' \subseteq Results
         /\ Requested' = Requested /\ Answered' \subseteq Answered /\ InFlight' = InFlight
<1> DEFINE m == Head(s_result_queue)
<1>1. /\ m \in Results /\ s_result_queue' \in Seq(Results)
      /\ Elements(s_result_queue) = {m} \cup Elements(s_result_queue')
  BY ElementsPop DEF Sound, TypeOK
<1>2. Requested' = Requested
  BY DEF Requested
<1>3. Answered = Answered' \cup {m} \/ Answered = Answered'
  BY <1>1 DEF Answered, Emplace
<1>4. m.read \in {n.read : n \in Answered'}
  <2>1. CASE \E n \in s_result_map : n.read.id = m.read.id
    <3>1. PICK n \in s_result_map : n.read.id = m.read.id
      BY <2>1
    <3>2. n.read \in InFlight /\ m.read \in InFlight
      BY <1>1 DEF InFlight, Answered
    <3>3. n.read = m.read
      BY <3>1, <3>2 DEF Sound, IdsOK
    <3>4. n \in Answered'
      BY <2>1 DEF Answered, Emplace
    <3> QED BY <3>3, <3>4
  <2>2. CASE ~ \E n \in s_result_map : n.read.id = m.read.id
    BY <2>2 DEF Answered, Emplace
  <2> QED BY <2>1, <2>2
<1>5. InFlight' = InFlight
  <2> HIDE DEF m
  <2> QED BY <1>2, <1>3, <1>4 DEF InFlight
<1>6. s_result_map' \subseteq Results
  BY <1>1 DEF Emplace, Sound, TypeOK
<1> QED BY <1>1, <1>2, <1>3, <1>5, <1>6

\* DoState moves one result.
LEMMA DrainResultsStep == ASSUME Sound, DrainResults PROVE ReadsOK'
<1>1. /\ s_result_queue' \in Seq(Results) /\ s_result_map' \subseteq Results
      /\ Requested' = Requested /\ Answered' \subseteq Answered /\ InFlight' = InFlight
  BY Moved DEF DrainResults, dvdVars
<1>2. Expected' = Expected
  BY DEF DrainResults, Expected
<1>3. SavedOK' /\ OwnResult'
  BY <1>1 DEF DrainResults, Sound, TypeOK, SavedOK, IdleInBody, OwnResult, dvdVars
<1>4. IdsOK' /\ DiscOK' /\ NoReadLost'
  BY <1>1, <1>2 DEF DrainResults, Sound, IdsOK, DiscOK, NoReadLost
<1> QED BY <1>3, <1>4 DEF ReadsOK

\* FinishRead takes its own result from the queue, and others to the map.
LEMMA PopResultStep == ASSUME Sound, PopResult PROVE ReadsOK'
<1> DEFINE m == Head(s_result_queue)
<1>1. /\ m \in Results /\ s_result_queue' \in Seq(Results)
      /\ Elements(s_result_queue) = {m} \cup Elements(s_result_queue')
  BY ElementsPop DEF PopResult, Sound, TypeOK
<1>2. CASE ~IsWanted(m)
  <2>1. /\ s_result_map' = Emplace(m) /\ UNCHANGED <<cpu, result>>
    BY <1>2 DEF PopResult
  <2>2. /\ s_result_queue' \in Seq(Results) /\ s_result_map' \subseteq Results
        /\ Requested' = Requested /\ Answered' \subseteq Answered /\ InFlight' = InFlight
    BY <2>1, Moved DEF PopResult, dvdVars
  <2>3. Expected' = Expected
    BY <2>1 DEF PopResult, Expected
  <2>4. SavedOK' /\ OwnResult'
    BY <2>1, <2>2 DEF PopResult, Sound, TypeOK, SavedOK, IdleInBody, OwnResult, dvdVars
  <2>5. IdsOK' /\ DiscOK' /\ NoReadLost'
    BY <2>1, <2>2, <2>3 DEF PopResult, Sound, IdsOK, DiscOK, NoReadLost
  <2> QED BY <2>4, <2>5 DEF ReadsOK
<1>3. CASE IsWanted(m)
  <2>1. /\ cpu' = "deliver" /\ result' = m /\ s_result_map' = s_result_map
    BY <1>3 DEF PopResult
  <2>2. m \in Answered /\ m.read \in InFlight /\ read \in Expected /\ m.read = read
    <3>1. m \in Answered /\ m.read \in InFlight /\ read \in Expected
      BY <1>1 DEF PopResult, Answered, InFlight, Expected
    <3> QED BY <3>1, <1>3 DEF IsWanted, Sound, IdsOK
  <2>3. Requested' = Requested /\ Answered = Answered' \cup {m} /\ Expected' = events
    BY <1>1, <2>1 DEF PopResult, Requested, Answered, Expected, dvdVars
  <2>4. InFlight = InFlight' \cup {read}
    <3> HIDE DEF m
    <3> QED BY <2>2, <2>3 DEF InFlight
  <2>5. NoReadLost'
    <3>1. read \notin events /\ events \subseteq InFlight
      BY DEF PopResult, Sound, PlacesOK, NoReadLost, Expected
    <3> QED BY <2>3, <2>4, <3>1 DEF NoReadLost
  <2>6. IdsOK'
    <3>1. Expected' \subseteq Expected /\ s_next_id' = s_next_id
      BY <2>3 DEF Expected, PopResult
    <3> QED BY <2>4, <3>1 DEF Sound, IdsOK
  <2>7. DiscOK'
    BY <2>1, <2>3 DEF PopResult, Sound, DiscOK
  <2>8. OwnResult'
    <3>1. m.from = read.disc
      BY <2>2 DEF Sound, DiscOK
    <3>2. m = Result(read, read.disc)
      BY <1>1, <2>2, <3>1 DEF Results, Result
    <3> QED BY <2>1, <3>2 DEF OwnResult, PopResult
  <2>9. SavedOK'
    BY <1>1, <2>1 DEF PopResult, Sound, TypeOK, SavedOK, IdleInBody, dvdVars
  <2> QED BY <2>5, <2>6, <2>7, <2>8, <2>9 DEF ReadsOK
<1> QED BY <1>2, <1>3

\* FinishRead finds its result in the map, or goes on to the queue.
LEMMA FinishReadStep == ASSUME Sound, FinishRead PROVE ReadsOK'
<1> DEFINE found(r) == {m \in s_result_map : m.read.id = r.id}
<1>1. PICK r \in events :
        /\ events' = events \ {r} /\ read' = r
        /\ \/ /\ found(r) = {} /\ cpu' = "pop"
              /\ UNCHANGED <<s_result_map, result>>
           \/ \E m \in found(r) :
                cpu' = "deliver" /\ result' = m /\ s_result_map' = s_result_map \ {m}
  BY DEF FinishRead
<1>2. r \in Reads /\ Expected = events /\ r \in InFlight
  BY DEF FinishRead, Sound, TypeOK, Expected, NoReadLost
<1>3. CASE found(r) = {}
  <2>1. cpu' = "pop" /\ UNCHANGED <<s_result_map, result>>
    BY <1>1, <1>3
  <2>2. Requested' = Requested /\ Answered' = Answered /\ Expected' = Expected
    BY <1>1, <1>2, <2>1 DEF FinishRead, Requested, Answered, Expected, queues, dvdVars
  <2>3. InFlight' = InFlight
    BY <2>2 DEF InFlight
  <2>4. SavedOK' /\ OwnResult'
    BY <1>1, <1>2, <2>1 DEF FinishRead, Sound, TypeOK, SavedOK, IdleInBody, OwnResult, queues, dvdVars
  <2>5. IdsOK' /\ DiscOK' /\ NoReadLost'
    BY <2>1, <2>2, <2>3 DEF FinishRead, Sound, IdsOK, DiscOK, NoReadLost
  <2> QED BY <2>4, <2>5 DEF ReadsOK
<1>4. ASSUME NEW m \in found(r),
             cpu' = "deliver", result' = m, s_result_map' = s_result_map \ {m}
      PROVE  ReadsOK'
  <2>1. m \in Results /\ m \in Answered /\ m.read = r /\ m.from = r.disc
    <3>1. m \in Results /\ m \in Answered /\ m.read \in InFlight /\ m.read.id = r.id
      BY DEF Sound, TypeOK, Answered, InFlight
    <3> QED BY <3>1, <1>2 DEF Sound, IdsOK, DiscOK
  <2>2. /\ Requested' = Requested /\ Expected' = events \ {r}
        /\ Answered = Answered' \cup {m}
    BY <1>1, <1>4, <2>1 DEF FinishRead, Requested, Answered, Expected, queues, dvdVars
  <2>3. InFlight = InFlight' \cup {r}
    BY <2>1, <2>2 DEF InFlight
  <2>4. NoReadLost' /\ IdsOK'
    BY <1>2, <2>2, <2>3 DEF FinishRead, Sound, NoReadLost, IdsOK
  <2>5. DiscOK'
    BY <1>4, <2>2 DEF FinishRead, Sound, DiscOK
  <2>6. OwnResult'
    BY <1>1, <1>4, <2>1 DEF OwnResult, Results, Result
  <2>7. SavedOK'
    BY <1>1, <1>2, <1>4, <2>1 DEF FinishRead, Sound, TypeOK, SavedOK, IdleInBody, queues, dvdVars
  <2> QED BY <2>4, <2>5, <2>6, <2>7 DEF ReadsOK
<1> QED BY <1>1, <1>3, <1>4

------------------------------------------------------------------------------
(* What is done with the DVD thread idle, and the end of a game.            *)

\* In the body nothing is requested.
LEMMA BodyIdle == ASSUME Sound, cpu = "body" PROVE Requested = {}
BY ElementsEmpty DEF Sound, IdleInBody, Requested

\* Another disc, when nothing is to be read from this one any more.
LEMMA SetDiscStep == ASSUME Sound, SetDisc PROVE ReadsOK'
<1>1. Requested = {}
  BY BodyIdle DEF SetDisc
<1>2. Requested' = Requested /\ Answered' = Answered /\ Expected' = Expected
  BY DEF SetDisc, Requested, Answered, Expected, queues, dvdVars
<1>3. InFlight' = InFlight
  BY <1>2 DEF InFlight
<1>4. SavedOK' /\ OwnResult'
  BY DEF SetDisc, Sound, TypeOK, SavedOK, IdleInBody, OwnResult, queues, dvdVars
<1>5. IdsOK' /\ DiscOK' /\ NoReadLost'
  BY <1>1, <1>2, <1>3 DEF SetDisc, Sound, IdsOK, DiscOK, NoReadLost
<1> QED BY <1>4, <1>5 DEF ReadsOK

\* A saved state holds the result of every read whose FinishRead it holds.
LEMMA SaveStateStep == ASSUME Sound, SaveState PROVE ReadsOK'
<1>1. /\ Requested = {} /\ Answered = s_result_map /\ Expected = events
      /\ InFlight = {m.read : m \in s_result_map}
  BY BodyIdle, ElementsEmpty DEF SaveState, Answered, Expected, InFlight
<1>2. Requested' = Requested /\ Answered' = Answered /\ Expected' = Expected
  BY DEF SaveState, Requested, Answered, Expected, queues, dvdVars
<1>3. InFlight' = InFlight
  BY <1>2 DEF InFlight
<1>4. OwnResult'
  BY DEF SaveState, Sound, TypeOK, IdleInBody, OwnResult, queues, dvdVars
<1>5. IdsOK' /\ DiscOK' /\ NoReadLost'
  BY <1>2, <1>3 DEF SaveState, Sound, IdsOK, DiscOK, NoReadLost
<1>6. SavedOK'
  <2>1. saved' \in SavedStates
    BY DEF SaveState, Sound, TypeOK, SavedStates
  <2>2. \A m \in s_result_map : m.from = m.read.disc /\ m.read.id < s_next_id
    BY <1>1 DEF Sound, DiscOK, IdsOK
  <2>3. \A r \in events : \E m \in s_result_map : m.read = r
    BY <1>1 DEF Sound, NoReadLost
  <2>4. \A m, n \in s_result_map : m.read.id = n.read.id => m = n
    <3> SUFFICES ASSUME NEW m \in s_result_map, NEW n \in s_result_map, m.read.id = n.read.id
                 PROVE  m = n
      OBVIOUS
    <3>1. m.read = n.read
      BY <1>1 DEF Sound, IdsOK
    <3> QED BY <2>2, <3>1 DEF Sound, TypeOK, Results
  <2> QED BY <2>1, <2>2, <2>3, <2>4 DEF SavedOK, SaveState
<1> QED BY <1>4, <1>5, <1>6 DEF ReadsOK

\* Loading forgets the reads of now and brings back those of then.
LEMMA LoadStateStep == ASSUME Sound, LoadState PROVE ReadsOK'
<1>1. saved # None
  BY DEF LoadState, Sound, PlacesOK
<1>2. /\ saved \in SavedStates
      /\ \A m \in saved.map : m.from = m.read.disc
      /\ \A m \in saved.map : m.read.id < saved.next_id
      /\ \A r \in saved.events : \E m \in saved.map : m.read = r
      /\ \A m, n \in saved.map : m.read.id = n.read.id => m = n
  BY <1>1 DEF Sound, TypeOK, SavedOK
<1>3. Requested' = {} /\ Answered' = saved.map /\ Expected' = saved.events
  BY BodyIdle, ElementsEmpty DEF LoadState, Requested, Answered, Expected, queues, dvdVars
<1>4. InFlight' = {m.read : m \in saved.map}
  BY <1>3 DEF InFlight
<1>5. SavedOK' /\ OwnResult'
  BY <1>2 DEF LoadState, Sound, TypeOK, SavedOK, IdleInBody, OwnResult, queues, dvdVars
<1>6. IdsOK' /\ DiscOK' /\ NoReadLost'
  BY <1>2, <1>3, <1>4 DEF LoadState, SavedStates, IdsOK, DiscOK, NoReadLost
<1> QED BY <1>5, <1>6 DEF ReadsOK

\* Stop forgets what CoreTiming had scheduled.
LEMMA StoppedStep == ASSUME Sound, Stopped PROVE ReadsOK'
<1>1. Requested' = Requested /\ Answered' = Answered /\ Expected' = {}
  BY DEF Stopped, Requested, Answered, Expected, queues, dvdVars
<1>2. InFlight' = InFlight
  BY <1>1 DEF InFlight
<1>3. SavedOK' /\ OwnResult'
  BY DEF Stopped, Sound, TypeOK, SavedOK, IdleInBody, OwnResult, queues, dvdVars
<1>4. IdsOK' /\ DiscOK' /\ NoReadLost'
  BY <1>1, <1>2 DEF Stopped, Sound, IdsOK, DiscOK, NoReadLost
<1> QED BY <1>3, <1>4 DEF ReadsOK

\* Start begins with nothing known, if the map was left empty.
LEMMA StartStep == ASSUME Sound, Start, ~leftover' PROVE ReadsOK'
<1>1. s_result_map = {} /\ events = {}
  BY DEF Start, Sound, PlacesOK, TypeOK, FlagsOK
<1>2. Requested' = {} /\ Answered' = {} /\ Expected' = {}
  BY <1>1, ElementsEmpty DEF Start, Requested, Answered, Expected
<1>3. InFlight' = {}
  BY <1>2 DEF InFlight
<1>4. SavedOK' /\ OwnResult'
  BY DEF Start, Sound, TypeOK, SavedOK, IdleInBody, OwnResult
<1>5. IdsOK' /\ DiscOK' /\ NoReadLost'
  BY <1>2, <1>3 DEF IdsOK, DiscOK, NoReadLost
<1> QED BY <1>4, <1>5 DEF ReadsOK

\* Every step keeps the invariant.
LEMMA NextIndInv == ASSUME IndInv, [Next]_vars PROVE IndInv'
<1>1. CASE UNCHANGED vars
  <2> USE DEF vars, queues, cpuVars, dvdVars, flaws
  <2>1. Requested' = Requested /\ Answered' = Answered /\ Expected' = Expected
    BY <1>1 DEF Requested, Answered, Expected
  <2>2. InFlight' = InFlight
    BY <2>1 DEF InFlight
  <2>3. IdsOK => IdsOK'
    BY <1>1, <2>1, <2>2 DEF IdsOK
  <2>4. DiscOK => DiscOK'
    BY <1>1, <2>1 DEF DiscOK
  <2>5. NoReadLost => NoReadLost'
    BY <2>1, <2>2 DEF NoReadLost
  <2>6. SavedOK => SavedOK'
    BY <1>1 DEF SavedOK
  <2>7. OwnResult => OwnResult'
    BY <1>1 DEF OwnResult
  <2>8. TypeOK' /\ PlacesOK' /\ IdleUnlessMistaken'
    BY <1>1 DEF IndInv, TypeOK, FlagsOK, PlacesOK, IdleUnlessMistaken, IdleInBody
  <2>9. Undisturbed' => Undisturbed
    BY <1>1 DEF Undisturbed
  <2> QED BY <2>3, <2>4, <2>5, <2>6, <2>7, <2>8, <2>9 DEF IndInv, ReadsOK
<1>2. CASE Next
  <2>1. Base /\ Base'
    BY <1>2, BaseStep DEF IndInv, Base
  <2> SUFFICES ASSUME Undisturbed' PROVE ReadsOK'
    BY <2>1 DEF IndInv, Base
  <2>2. Undisturbed
    BY <2>1, FlawsStay
  <2>3. Sound
    BY <2>1, <2>2 DEF IndInv, Base, Sound, ReadsOK, Undisturbed, IdleUnlessMistaken
  <2>4. ~leftover'
    BY DEF Undisturbed
  <2> QED BY <1>2, <2>3, <2>4, FrameSteps, StartReadStep, PopRequestStep, ReadDiscStep,
             DrainResultsStep, PopResultStep, FinishReadStep, SetDiscStep, SaveStateStep,
             LoadStateStep, StoppedStep, StartStep DEF Next, CallStep, DVDStep
<1> QED BY <1>1, <1>2

\* The inductive invariant holds for any discs, reads and operations, and any number of
\* requests queued.
THEOREM Invariance == Spec => []IndInv
<1>1. Init => IndInv
  BY InitIndInv
<1>2. IndInv /\ [Next]_vars => IndInv'
  BY NextIndInv
<1> QED BY <1>1, <1>2, PTL DEF Spec

\* FinishRead delivers the result of its own request, read from the disc it was made of, until
\* Empty is mistaken or a game begins with another's results.
THEOREM ResultsAreRight == Spec => []RightResult
<1>1. IndInv => RightResult
  BY DEF IndInv, ReadsOK, RightResult
<1> QED BY <1>1, Invariance, PTL

\* Until then, whatever FinishRead will be called for is requested or answered.
THEOREM ReadsAreKept == Spec => [](Undisturbed => NoReadLost)
<1>1. IndInv => (Undisturbed => NoReadLost)
  BY DEF IndInv, ReadsOK
<1> QED BY <1>1, Invariance, PTL

\* DoState and SetDisc run with an empty request queue and an idle DVD thread, unless Empty has
\* called a queue with requests in it empty.
THEOREM IdleWhenTouched == Spec => []IdleUnlessMistaken
<1>1. IndInv => IdleUnlessMistaken
  BY DEF IndInv
<1> QED BY <1>1, Invariance, PTL

------------------------------------------------------------------------------
(* Waiting.  FinishReturns and WaitReturns are liveness, and checked on an  *)
(* instance; that no thread sleeps while the other sleeps, or is about to   *)
(* without having seen it, is what can be proved of them.                   *)

\* The DVD thread sleeps with nothing to wake it, or is gone.
Asleep == (dvd = "wait" /\ ~s_request_queue_expanded) \/ dvd = "exited"

\* It will push a result, or is about to announce one.
Answering == s_request_queue # <<>> \/ dvd \in {"read", "notify"}

\* It does not go to sleep on a request, and is there unless it is being stopped.
RequestSeen ==
  /\ ~mistaken /\ s_request_queue # <<>> /\ dvd = "wait" => s_request_queue_expanded \/ cpu = "signal"
  /\ dvd = "exited" => cpu \in {"stopSignal", "join", "off"}

\* Nor does the CPU thread on a result, and what it waits for it has not put aside itself.
ResultSeen ==
  /\ cpu = "await" /\ s_result_queue # <<>> => s_result_queue_expanded \/ dvd = "notify"
  /\ cpu = "idleWait" \/ popped => s_result_queue_expanded \/ Answering
  /\ cpu \in {"pop", "await"} => \A m \in s_result_map : m.read # read

\* A DVD thread that tested the flag before it was set finds the event set.
ExitSeen ==
  /\ cpu \in {"stopSignal", "join"} => s_dvd_thread_exiting
  /\ cpu = "join" /\ dvd \in {"wait", "pop"} => s_request_queue_expanded

WaitInv == RequestSeen /\ ResultSeen /\ ExitSeen

\* Whenever the CPU thread waits with no event set, for a result in FinishRead or
\* WaitUntilIdle or for the DVD thread to exit, the DVD thread is awake, and has what
\* the CPU thread waits for in its queue or in its hands.  Only a mistaken Empty can make
\* WaitUntilIdle wait in vain, and nothing StopDVDThread.
NobodyWaitsInVain ==
  /\ Undisturbed /\ cpu = "await" /\ ~s_result_queue_expanded => (read \in Requested \/ dvd = "notify") /\ ~Asleep
  /\ ~mistaken /\ cpu = "idleWait" /\ ~s_result_queue_expanded => Answering /\ ~Asleep
  /\ cpu = "join" => dvd = "exited" \/ ~Asleep

\* Every step keeps the threads aware of each other.
LEMMA WaitStep == ASSUME IndInv, WaitInv, Next PROVE WaitInv'
<1>t. TypeOK /\ PlacesOK /\ FlagsOK BY DEF IndInv, TypeOK
<1>f. FlagsOK' BY <1>t, FlagsStep
<1> USE DEF WaitInv, RequestSeen, ResultSeen, ExitSeen, Answering, queues, cpuVars, dvdVars, flaws
<1>1. CASE StartRead
  BY <1>1, <1>t, <1>f DEF StartRead, PlacesOK, FlagsOK
<1>2. CASE FinishRead
  <2>1. cpu' = "pop" => \A m \in s_result_map' : m.read # read'
    BY <1>2 DEF FinishRead
  <2> QED BY <1>2, <1>t, <1>f, <2>1 DEF FinishRead, PlacesOK, FlagsOK
<1>3. CASE PopResult
  <2>1. cpu' = "pop" => \A m \in s_result_map' : m.read # read'
    BY <1>3 DEF PopResult, IsWanted, Emplace
  <2> QED BY <1>3, <1>t, <1>f, <2>1 DEF PopResult, PlacesOK, FlagsOK
<1>4. CASE PopRequest
  BY <1>4, <1>t, <1>f DEF PopRequest, PlacesOK, FlagsOK
<1>5. CASE Join
  BY <1>5, <1>t, <1>f DEF Join, PlacesOK, Stopping, FlagsOK
<1>6. CASE EmptyNext
  BY <1>6, <1>t, <1>f DEF EmptyNext, PlacesOK, FlagsOK
<1>7. CASE StartReadSignal
  BY <1>7, <1>t, <1>f DEF StartReadSignal, PlacesOK, FlagsOK
<1>8. CASE PopNothing
  BY <1>8, <1>t, <1>f DEF PopNothing, PlacesOK, FlagsOK
<1>9. CASE ResultWait
  BY <1>9, <1>t, <1>f DEF ResultWait, PlacesOK, FlagsOK
<1>10. CASE Deliver \/ EmptyReadPtr \/ StopExiting \/ StopSignal
  BY <1>10, <1>t, <1>f DEF Deliver, EmptyReadPtr, StopExiting, StopSignal, PlacesOK, FlagsOK
<1>11. CASE SetDisc \/ Query \/ DrainResults \/ SaveState \/ LoadState
  BY <1>11, <1>t, <1>f DEF SetDisc, Query, DrainResults, SaveState, LoadState, PlacesOK, FlagsOK
<1>12. CASE Stop \/ Stopped \/ Start \/ \E o \in Waits : WaitUntilIdle(o)
  BY <1>12, <1>t, <1>f DEF Stop, Stopped, Start, WaitUntilIdle, PlacesOK, FlagsOK
<1>13. CASE RequestWait
  BY <1>13, <1>t, <1>f DEF RequestWait, PlacesOK, FlagsOK
<1>14. CASE ExitTest
  BY <1>14, <1>t, <1>f DEF ExitTest, PlacesOK, FlagsOK
<1>15. CASE PopNoRequest
  BY <1>15, <1>t, <1>f DEF PopNoRequest, PlacesOK, FlagsOK
<1>16. CASE ReadDisc
  BY <1>16, <1>t, <1>f DEF ReadDisc, PlacesOK, FlagsOK
<1>17. CASE ResultSignal
  BY <1>17, <1>t, <1>f DEF ResultSignal, PlacesOK, FlagsOK
<1> QED BY <1>1, <1>2, <1>3, <1>4, <1>5, <1>6, <1>7, <1>8, <1>9, <1>10, <1>11, <1>12, <1>13, <1>14, <1>15,
           <1>16, <1>17 DEF Next, CallStep, DVDStep

\* A read is in one of the places where FinishRead looks for it, or on its way there.
LEMMA WaitsEnd == IndInv /\ WaitInv => NobodyWaitsInVain
<1> SUFFICES ASSUME IndInv, WaitInv PROVE NobodyWaitsInVain
  OBVIOUS
<1> USE DEF WaitInv, RequestSeen, ResultSeen, ExitSeen, Answering
<1>t. FlagsOK
  BY DEF IndInv, TypeOK
<1>1. ASSUME Undisturbed, cpu = "await", ~s_result_queue_expanded
      PROVE  (read \in Requested \/ dvd = "notify") /\ ~Asleep
  <2>1. read \in InFlight
    BY <1>1 DEF IndInv, ReadsOK, NoReadLost, Expected
  <2>2. CASE read \in Requested
    <3>1. s_request_queue # <<>> \/ dvd = "read"
      BY <2>2, ElementsEmpty DEF Requested
    <3> QED BY <1>1, <1>t, <2>2, <3>1 DEF Asleep, FlagsOK, Undisturbed
  <2>3. CASE read \notin Requested
    <3>1. PICK m \in Answered : m.read = read
      BY <2>1, <2>3 DEF InFlight
    <3>2. m \in Elements(s_result_queue)
      BY <1>1, <3>1 DEF Answered
    <3>3. s_result_queue # <<>>
      BY <3>2, ElementsEmpty
    <3> QED BY <1>1, <1>t, <3>3 DEF Asleep, FlagsOK
  <2> QED BY <2>2, <2>3
<1>2. ASSUME ~mistaken, cpu = "idleWait", ~s_result_queue_expanded PROVE Answering /\ ~Asleep
  BY <1>2, <1>t DEF Asleep, FlagsOK
<1>3. ASSUME cpu = "join" PROVE dvd = "exited" \/ ~Asleep
  BY <1>3, <1>t DEF Asleep, FlagsOK
<1> QED BY <1>1, <1>2, <1>3 DEF NobodyWaitsInVain

\* The CPU thread and the DVD thread never wait for each other: neither in FinishRead, nor in
\* WaitUntilIdle, nor in StopDVDThread.
THEOREM WaitsAreServed == Spec => []NobodyWaitsInVain
<1>1. Init => WaitInv
  BY DEF Init, WaitInv, RequestSeen, ResultSeen, ExitSeen, Answering
<1>2. IndInv /\ WaitInv /\ [Next]_vars => WaitInv'
  <2> SUFFICES ASSUME IndInv, WaitInv, UNCHANGED vars PROVE WaitInv'
    BY WaitStep
  <2> QED BY DEF vars, queues, cpuVars, dvdVars, flaws, WaitInv, RequestSeen, ResultSeen, ExitSeen, Answering
<1> QED BY <1>1, <1>2, Invariance, WaitsEnd, PTL DEF Spec
==============================================================================

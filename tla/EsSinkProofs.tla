---------------------------- MODULE EsSinkProofs ----------------------------
(* Theorems about EsSink, for every number of threads, every history, every *)
(* set of events and every configuration.                                   *)
EXTENDS EsSink, EsQueueOpsProofs

\* What the assumptions say of the constants, in the form the proofs use.
LEMMA Constants ==
    /\ TimeMod \in Nat /\ TimeMod > 0
    /\ StreamLen \in Nat /\ StreamLen < TimeMod
    /\ History \in Nat /\ History > 0
    /\ MaxIn \in Nat
    /\ NThreads \in Nat /\ NThreads > 0
    /\ IntMod \in Nat /\ 2 * (History + MaxIn) <= IntMod
    /\ EventTimes \subseteq TimeRange
    /\ EventLens \subseteq TimeRange
  BY TimeModAssumption, SinkAssumption

\* The first sample of the buffer is a time.
LEMMA MinTimeType ==
    ASSUME NEW d \in 0 .. StreamLen
    PROVE  MinTime(d) \in 0 .. d
  BY Constants DEF MinTime

\* Samples to consume: never more than the call was given.
LEMMA ConsumableType ==
    ASSUME TypeOK
    PROVE  Consumable \in 0 .. NOutput
<1> DEFINE room(ts) == IF ts = <<>> THEN NOutput ELSE Since(ts[1], MinTime(d_time))
<1>1. NOutput \in Nat /\ MinTime(d_time) \in 0 .. StreamLen
  BY Constants, MinTimeType DEF TypeOK, NOutput
<1>2. ASSUME NEW t \in TimeRange PROVE Since(t, MinTime(d_time)) \in Nat
  BY <1>1, Constants DEF Since, TimeRange
<1>3. room(live) \in Nat
  <2>1. CASE live # <<>>
    <3>1. live[1] \in TimeRange
      BY <2>1 DEF TypeOK
    <3> QED
      BY <1>2, <2>1, <3>1
  <2> QED
    BY <1>1, <2>1
<1>4. room(Times(queue)) \in Nat
  <2>1. CASE Times(queue) # <<>>
    <3>1. \A p \in Pair : p.time \in Int
      BY DEF Pair, TimeRange
    <3>2. /\ Times(queue) \in Seq(Int) /\ Len(Times(queue)) = Len(queue)
          /\ \A j \in 1 .. Len(queue) : Times(queue)[j] = queue[j].time
      BY <3>1, TimesOfPairs DEF TypeOK
    <3>3. Len(queue) \in Nat /\ Len(Times(queue)) # 0
      BY <2>1, <3>2, EmptySeq, LenProperties DEF TypeOK
    <3>4. Times(queue)[1] = queue[1].time /\ queue[1] \in Pair
      BY <3>2, <3>3, ElementOfSeq DEF TypeOK
    <3>5. Times(queue)[1] \in TimeRange
      BY <3>4 DEF Pair
    <3> QED
      BY <1>2, <2>1, <3>5
  <2> QED
    BY <1>1, <2>1
<1> HIDE DEF room
<1>5. Consumable = Least(NOutput, Least(room(live), room(Times(queue))))
  BY DEF Consumable, room
<1> QED
  BY <1>1, <1>3, <1>4, <1>5 DEF Least

\* What work() captures for a pair has the type of a captured pair.
LEMMA CaptureType ==
    ASSUME TypeOK, NEW p \in Pair
    PROVE  Capture(p) \in Captured
<1>1. p.evt \in Events /\ p.hnd \in Handlers /\ p.time \in TimeRange /\ p.len \in TimeRange
  BY DEF Pair
<1>2. \A v \in Int : AsInt(v) \in Int
  BY Constants DEF AsInt
<1>3. BufferOffset(p.time) \in Int
  <2>1. ((p.time - d_time) + History) - 1 \in Int
    BY <1>1, Constants DEF TypeOK, TimeRange
  <2>2. AsInt(((p.time - d_time) + History) - 1) \in Int
    BY <1>2, <2>1
  <2> QED
    BY <2>2 DEF BufferOffset
<1>4. ((d_time - History) + 1) + BufferOffset(p.time) \in Int
  BY <1>3, Constants DEF TypeOK
<1> QED
  BY <1>1, <1>4 DEF Capture, Captured

\* The pairs made for an event are pairs, all at the event's time.
LEMMA NewPairsType ==
    ASSUME NEW e \in Events, NEW t \in TimeRange, NEW n \in TimeRange
    PROVE  /\ NewPairs(e, t, n) \in Seq(Pair)
           /\ \A k \in 1 .. Len(NewPairs(e, t, n)) : NewPairs(e, t, n)[k].time = t
<1> DEFINE hs == HandlersOf[e]
           f(k) == [evt |-> e, hnd |-> hs[(Len(hs) + 1) - k], time |-> t, len |-> n]
<1>1. hs \in Seq(Handlers)
  BY SinkAssumption
<1> HIDE DEF hs
<1>2. Len(hs) \in Nat /\ \A k \in 1 .. Len(hs) : hs[(Len(hs) + 1) - k] \in Handlers
  BY <1>1, LenProperties, ElementOfSeq
<1>3. \A k \in 1 .. Len(hs) : f(k) \in Pair
  BY <1>2 DEF Pair
<1>4. \A k \in 1 .. Len(hs) : f(k).time = t
  OBVIOUS
<1> HIDE DEF f
<1>5. [k \in 1 .. Len(hs) |-> f(k)] \in Seq(Pair)
  BY <1>2, <1>3, IsASeq
<1>6. NewPairs(e, t, n) = [k \in 1 .. Len(hs) |-> f(k)]
  BY DEF NewPairs, hs, f
<1>7. Len(NewPairs(e, t, n)) = Len(hs)
  BY <1>2, <1>5, <1>6, LenProperties
<1> QED
  BY <1>4, <1>5, <1>6, <1>7

\* The pairs made for an event belong to it.
LEMMA NewPairsEvent ==
    ASSUME NEW e \in Events, NEW t \in TimeRange, NEW n \in TimeRange
    PROVE  \A k \in 1 .. Len(NewPairs(e, t, n)) : NewPairs(e, t, n)[k].evt = e
<1> DEFINE hs == HandlersOf[e]
           f(k) == [evt |-> e, hnd |-> hs[(Len(hs) + 1) - k], time |-> t, len |-> n]
<1>1. \A k \in 1 .. Len(hs) : f(k).evt = e
  OBVIOUS
<1>2. Len(hs) \in Nat
  BY SinkAssumption, LenProperties
<1> HIDE DEF hs, f
<1>3. NewPairs(e, t, n) = [k \in 1 .. Len(hs) |-> f(k)]
  BY DEF NewPairs, hs, f
<1>4. Len(NewPairs(e, t, n)) = Len(hs)
  <2>1. NewPairs(e, t, n) \in Seq(Pair)
    BY NewPairsType
  <2> QED
    BY <1>2, <1>3, <2>1, LenProperties
<1> QED
  BY <1>1, <1>3, <1>4

\* What an insertion does to the queue.
LEMMA InsertType ==
    ASSUME TypeOK, NEW e \in Events, NEW t \in EventTimes, NEW n \in EventLens,
           Insert(e, t, n)
    PROVE  queue' \in Seq(Pair)
<1>1. PICK i \in FindIndex(opt.search, Times(queue), t) :
         queue' = Splice(queue, i, NewPairs(e, t, n))
  BY DEF Insert
<1>2. \A p \in Pair : p.time \in Int
  BY DEF Pair, TimeRange
<1>3. Len(Times(queue)) = Len(queue)
  BY <1>2, TimesOfPairs DEF TypeOK
<1>4. i \in 0 .. Len(queue)
  BY <1>1, <1>3, FoundIndexInRange
<1>5. NewPairs(e, t, n) \in Seq(Pair)
  BY Constants, NewPairsType
<1> QED
  BY <1>1, <1>4, <1>5, SpliceElements DEF TypeOK

\* Retiring a time leaves a sequence of times.
LEMMA RetireType ==
    ASSUME NEW s \in Seq(TimeRange), NEW t
    PROVE  Retire(s, t) \in Seq(TimeRange)
<1> DEFINE at == {i \in 1 .. Len(s) : s[i] = t /\ \A j \in 1 .. (i - 1) : s[j] # t}
<1>1. CASE at = {}
  BY <1>1 DEF Retire
<1>2. CASE at # {}
  <2>1. PICK i \in 1 .. Len(s) : Retire(s, t) = RemoveAt(s, i)
    BY <1>2 DEF Retire
  <2> QED
    BY <2>1, RemoveAtElements
<1> QED
  BY <1>1, <1>2

\* What the handler threads' part of TypeOK says of program counters p.
WorkersType(p) ==
    p \in [Workers -> {"check", "enter", "waiting", "pop", "run", "post",
                      "decrement", "exited"}]

ThreadsHold(p, h) ==
    \A w \in Workers : p[w] \in {"run", "post", "decrement"} <=> h[w] # NoPair

\* A notification wakes threads and does nothing else to them.
LEMMA NotifyOneType ==
    ASSUME TypeOK, NotifyOne
    PROVE  WorkersType(wpc') /\ ThreadsHold(wpc', eh)
<1>1. CASE Waiting = {}
  BY <1>1 DEF NotifyOne, TypeOK, WorkersType, ThreadsHold
<1>2. CASE Waiting # {}
  <2>1. PICK w \in Waiting : wpc' = [wpc EXCEPT ![w] = "pop"]
    BY <1>2 DEF NotifyOne
  <2> QED
    BY <2>1 DEF Waiting, TypeOK, WorkersType, ThreadsHold
<1> QED
  BY <1>1, <1>2

\* So does waking them all.
LEMMA NotifyAllType ==
    ASSUME TypeOK, NotifyAll
    PROVE  WorkersType(wpc') /\ ThreadsHold(wpc', eh)
  BY DEF NotifyAll, Waiting, TypeOK, WorkersType, ThreadsHold

\* NoPair, the empty hand, is not a captured pair.
LEMMA NoPairIsNone == \A c \in Captured : c # NoPair
  BY NamesAssumption DEF Captured

\* The queue that fetch_next_event searches, a head moved by ASAP or not.
LEMMA SearchedType ==
    ASSUME TypeOK
    PROVE  Searched \in Seq(Pair)
<1>1. CASE HeadIsEarly(queue, MinTime(d_time)) /\ opt.early = "ASAP"
  <2>1. Len(queue) \in Nat /\ queue # <<>> /\ queue[1] \in Pair /\ 1 \in 1 .. Len(queue)
    BY <1>1, EmptySeq, LenProperties, ElementOfSeq DEF TypeOK, HeadIsEarly
  <2>2. MinTime(d_time) \in TimeRange
    BY Constants, MinTimeType DEF TypeOK, TimeRange
  <2>3. [queue[1] EXCEPT !.time = MinTime(d_time)] \in Pair
    BY <2>1, <2>2 DEF Pair
  <2>4. [queue EXCEPT ![1] = [queue[1] EXCEPT !.time = MinTime(d_time)]] \in Seq(Pair)
    BY <2>1, <2>3, ExceptSeq DEF TypeOK
  <2>5. Searched = [queue EXCEPT ![1] = [queue[1] EXCEPT !.time = MinTime(d_time)]]
    BY <1>1 DEF Searched, AsSoonAsPossible
  <2> QED
    BY <2>4, <2>5
<1>2. CASE ~(HeadIsEarly(queue, MinTime(d_time)) /\ opt.early = "ASAP")
  BY <1>2 DEF Searched, TypeOK
<1> QED
  BY <1>1, <1>2

\* A new sink is well typed.
LEMMA TypeInit == Init => TypeOK
  BY Constants, SinkAssumption, NamesAssumption, EmptySeq
     DEF Init, TypeOK, NOutput, Workers

\* Every step keeps the state well typed.
LEMMA TypeStep == TypeOK /\ [Next]_vars => TypeOK'
<1> SUFFICES ASSUME TypeOK, [Next]_vars PROVE TypeOK'
  OBVIOUS
<1> USE DEF vars, streamVars, blockVars, queueVars, poolVars
<1>1. ASSUME NEW n \in 1 .. MaxIn, Produce(n) PROVE TypeOK'
  BY <1>1, Constants DEF TypeOK, Produce, NOutput
<1>2. ASSUME NEW e \in Events, NEW t \in EventTimes, NEW n \in EventLens,
             AddByMessage(e, t, n)
      PROVE  TypeOK'
  <2>1. queue' \in Seq(Pair)
    BY <1>2, InsertType DEF AddByMessage
  <2> QED
    BY <1>2, <2>1 DEF TypeOK, AddByMessage, Insert, NOutput
<1>3. ASSUME NEW e \in Events, CallerLocks(e) PROVE TypeOK'
  BY <1>3 DEF TypeOK, CallerLocks, NOutput
<1>4. ASSUME NEW e \in Events, NEW t \in EventTimes, NEW n \in EventLens,
             CallerAdds(e, t, n)
      PROVE  TypeOK'
  <2>1. queue' \in Seq(Pair)
    BY <1>4, InsertType DEF CallerAdds
  <2> QED
    BY <1>4, <2>1 DEF TypeOK, CallerAdds, Insert, NOutput
<1>5. CASE WorkBegin
  BY <1>5 DEF TypeOK, WorkBegin, NOutput
<1>6. CASE RetireOne
  <2>1. live' \in Seq(TimeRange)
    BY <1>6, RetireType DEF TypeOK, RetireOne
  <2>2. dq' \in Seq(TimeRange)
    BY <1>6, HeadTailProperties DEF TypeOK, RetireOne
  <2> QED
    BY <1>6, <2>1, <2>2 DEF TypeOK, RetireOne, NOutput
<1>7. CASE RetireNone
  BY <1>7 DEF TypeOK, RetireNone, NOutput
<1>8. CASE FetchDiscard
  <2>1. queue # <<>> /\ queue' \in Seq(Pair)
    BY <1>8, HeadTailProperties DEF TypeOK, FetchDiscard, HeadIsEarly
  <2>2. queue[1] \in Pair
    BY <2>1, HeadTailProperties, ElementOfSeq, EmptySeq, LenProperties DEF TypeOK
  <2>3. discarded' \subseteq PairIds
    BY <1>8, <2>2 DEF TypeOK, FetchDiscard, IdOf, Pair, PairIds
  <2> QED
    BY <1>8, <2>1, <2>3 DEF TypeOK, FetchDiscard, NOutput
<1>9. CASE FetchBalk
  BY <1>9 DEF TypeOK, FetchBalk, NOutput
<1>10. CASE FetchTake
  <2>1. PICK i \in FirstFit(Searched, produced) :
           hold' = Capture(Searched[i]) /\ queue' = RemoveAt(Searched, i)
    BY <1>10 DEF FetchTake
  <2>2. Searched \in Seq(Pair) /\ i \in 1 .. Len(Searched)
    BY <2>1, SearchedType DEF FirstFit
  <2>3. hold' \in Captured
    BY <2>1, <2>2, CaptureType, ElementOfSeq
  <2>4. queue' \in Seq(Pair)
    BY <2>1, <2>2, RemoveAtElements
  <2>5. /\ d_nevents' = d_nevents + 1 /\ pc' = "push"
        /\ UNCHANGED <<opt, streamVars, live, joining, lock, added, late, discarded,
                       qq, dq, wpc, eh, finished, handled, dropped>>
    BY <1>10 DEF FetchTake
  <2>6. pc # "stopped"
    BY <1>10 DEF FetchTake, SearchAllowed
  <2> QED
    BY <2>3, <2>4, <2>5, <2>6, NoPairIsNone DEF TypeOK, NOutput
<1>11. CASE FetchNone
  <2>1. queue' \in Seq(Pair)
    BY <1>11, SearchedType DEF FetchNone
  <2>2. /\ pc = "fetch" /\ pc' = "consume"
        /\ UNCHANGED <<opt, streamVars, hold, live, joining, lock, added, late,
                       discarded, poolVars>>
    BY <1>11 DEF FetchNone, SearchAllowed
  <2> QED
    BY <2>1, <2>2 DEF TypeOK, NOutput
<1>12. CASE Push
  <2>1. qq' \in Seq(Captured)
    BY <1>12, AppendProperties DEF TypeOK, Push
  <2> QED
    BY <1>12, <2>1 DEF TypeOK, Push, NOutput
<1>13. CASE Drop
  <2>1. dropped' \subseteq PairIds
    BY <1>13 DEF TypeOK, Drop, IdOf, Captured, PairIds
  <2> QED
    BY <1>13, <2>1 DEF TypeOK, Drop, NOutput
<1>14. CASE Record
  <2>1. PICK i \in FindIndex(opt.search, live, hold.time) :
           live' = Splice(live, i, <<hold.time>>)
    BY <1>14 DEF Record, LiveIndex
  <2>2. hold.time \in TimeRange
    BY <1>14 DEF TypeOK, Record, Captured
  <2>3. live' \in Seq(TimeRange)
    <3>1. i \in 0 .. Len(live)
      BY <2>1, FoundIndexInRange
    <3>2. <<hold.time>> \in Seq(TimeRange)
      BY <2>2
    <3> QED
      BY <2>1, <3>1, <3>2, SpliceElements DEF TypeOK
  <2>4. WorkersType(wpc') /\ ThreadsHold(wpc', eh)
    BY <1>14, NotifyOneType DEF Record
  <2> QED
    BY <1>14, <2>3, <2>4 DEF TypeOK, Record, NOutput, WorkersType, ThreadsHold
<1>15. CASE Consume
  <2>1. nconsume' \in 0 .. NOutput
    BY <1>15, ConsumableType DEF Consume, ConsumeChoices
  <2>2. WorkersType(wpc') /\ ThreadsHold(wpc', eh)
    BY <1>15, NotifyOneType DEF Consume, TypeOK, WorkersType, ThreadsHold
  <2> QED
    BY <1>15, <2>1, <2>2 DEF TypeOK, Consume, NOutput, WorkersType, ThreadsHold
<1>16. CASE WaitNotify
  <2>1. WorkersType(wpc') /\ ThreadsHold(wpc', eh)
    BY <1>16, NotifyAllType DEF WaitNotify
  <2> QED
    BY <1>16, <2>1 DEF TypeOK, WaitNotify, NOutput, WorkersType, ThreadsHold
<1>17. CASE WaitDone
  BY <1>17 DEF TypeOK, WaitDone, NOutput
<1>18. CASE Return
  BY <1>18, Constants DEF TypeOK, Return, NOutput
<1>19. CASE BeginStop
  BY <1>19 DEF TypeOK, BeginStop, NOutput
<1>20. CASE StopThread
  <2>1. WorkersType(wpc') /\ ThreadsHold(wpc', eh)
    BY <1>20, NotifyAllType DEF StopThread
  <2>2. joining \in Workers
    BY <1>20, Constants DEF TypeOK, StopThread, Workers
  <2> QED
    BY <1>20, <2>1, <2>2 DEF TypeOK, StopThread, NOutput, WorkersType, ThreadsHold
<1>21. CASE Joined
  BY <1>21, Constants DEF TypeOK, Joined, NOutput
<1>22. ASSUME NEW w \in Workers, WorkerStep(w) \/ SpuriousWake(w) PROVE TypeOK'
  <2>1. CASE Check(w)
    BY <2>1 DEF TypeOK, Check, Goto, NOutput
  <2>2. CASE EnterWait(w)
    BY <2>2 DEF TypeOK, EnterWait, Goto, NOutput
  <2>3. CASE SpuriousWake(w)
    BY <2>3 DEF TypeOK, SpuriousWake, Goto, NOutput
  <2>4. CASE Pop(w)
    <3>1. Head(qq) \in Captured /\ qq' \in Seq(Captured)
      BY <2>4, HeadTailProperties DEF TypeOK, Pop
    <3> QED
      BY <2>4, <3>1, NoPairIsNone DEF TypeOK, Pop, Goto, NOutput
  <2>5. CASE PopNothing(w)
    BY <2>5 DEF TypeOK, PopNothing, Goto, NOutput
  <2>6. CASE Run(w)
    <3>1. eh[w] \in Captured
      BY <2>6 DEF TypeOK, Run, Goto
    <3>2. handled' \subseteq PairIds
      BY <2>6, <3>1 DEF TypeOK, Run, IdOf, Captured, PairIds
    <3> QED
      BY <2>6, <3>2 DEF TypeOK, Run, Goto, NOutput
  <2>7. CASE PostTime(w)
    <3>1. eh[w] \in Captured
      BY <2>7 DEF TypeOK, PostTime, Goto
    <3>2. dq' \in Seq(TimeRange)
      BY <2>7, <3>1, AppendProperties DEF TypeOK, PostTime, Captured
    <3> QED
      BY <2>7, <3>2 DEF TypeOK, PostTime, Goto, NOutput
  <2>8. CASE Decrement(w)
    BY <2>8 DEF TypeOK, Decrement, Goto, NOutput
  <2> QED
    BY <1>22, <2>1, <2>2, <2>3, <2>4, <2>5, <2>6, <2>7, <2>8 DEF WorkerStep
<1>23. CASE UNCHANGED vars
  BY <1>23 DEF TypeOK, NOutput
<1> QED
  BY <1>1, <1>2, <1>3, <1>4, <1>5, <1>6, <1>7, <1>8, <1>9, <1>10, <1>11, <1>12,
     <1>13, <1>14, <1>15, <1>16, <1>17, <1>18, <1>19, <1>20, <1>21, <1>22, <1>23
     DEF Next, AddEvent, WorkStep, StreamEnds, UserStops

\* Every reachable state is well typed, whatever the configuration.
THEOREM TypeCorrect == Spec => []TypeOK
  BY TypeInit, TypeStep, PTL DEF Spec
-----------------------------------------------------------------------------
(* Order of the queue and of the live times.                               *)

\* The times of pairs are integers.
LEMMA PairTimes ==
    /\ \A p \in Pair : p.time \in TimeRange
    /\ \A p \in Pair : p.time \in Int
    /\ TimeRange \subseteq Int
  BY Constants DEF Pair, TimeRange

\* Retiring a time keeps the live times in order.
LEMMA RetireKeepsOrder ==
    ASSUME NEW s \in Seq(TimeRange), NEW t, IsAscending(s)
    PROVE  IsAscending(Retire(s, t))
<1> DEFINE at == {i \in 1 .. Len(s) : s[i] = t /\ \A j \in 1 .. (i - 1) : s[j] # t}
<1>1. CASE at = {}
  BY <1>1 DEF Retire
<1>2. CASE at # {}
  <2>1. PICK i \in 1 .. Len(s) : Retire(s, t) = RemoveAt(s, i)
    BY <1>2 DEF Retire
  <2>2. s \in Seq(Int)
    BY PairTimes, SeqMonotonic
  <2> QED
    BY <2>1, <2>2, RemoveKeepsOrder
<1> QED
  BY <1>1, <1>2

\* add_event keeps an ordered queue in order.
LEMMA InsertKeepsSorted ==
    ASSUME TypeOK, NEW e \in Events, NEW t \in EventTimes, NEW n \in EventLens,
           Insert(e, t, n), IsAscending(Times(queue))
    PROVE  IsAscending(Times(queue'))
<1>1. PICK i \in FindIndex(opt.search, Times(queue), t) :
         queue' = Splice(queue, i, NewPairs(e, t, n))
  BY DEF Insert
<1>2. t \in TimeRange /\ n \in TimeRange
  BY Constants
<1>3. /\ NewPairs(e, t, n) \in Seq(Pair)
      /\ \A k \in 1 .. Len(NewPairs(e, t, n)) : NewPairs(e, t, n)[k].time = t
  BY <1>2, NewPairsType
<1>4. t \in Int
  BY <1>2, PairTimes
<1> QED
  BY <1>1, <1>3, <1>4, PairTimes, InsertPairsKeepsOrder DEF TypeOK

\* Every step keeps the queue and the live times in order.
LEMMA SortedStep == TypeOK /\ Sorted /\ [Next]_vars => Sorted'
<1> SUFFICES ASSUME TypeOK, Sorted, [Next]_vars PROVE Sorted'
  OBVIOUS
<1> USE DEF vars, streamVars, blockVars, queueVars, poolVars
<1>1. CASE UNCHANGED <<opt, queue, live>>
  BY <1>1 DEF Sorted
<1>2. ASSUME NEW e \in Events, NEW t \in EventTimes, NEW n \in EventLens,
             AddByMessage(e, t, n) \/ CallerAdds(e, t, n)
      PROVE  Sorted'
  <2>1. Insert(e, t, n) /\ UNCHANGED <<opt, live>>
    BY <1>2 DEF AddByMessage, CallerAdds
  <2> QED
    BY <2>1, InsertKeepsSorted DEF Sorted
<1>3. CASE RetireOne
  <2>1. UNCHANGED <<opt, queue>> /\ live' = Retire(live, Head(dq))
    BY <1>3 DEF RetireOne
  <2> QED
    BY <2>1, RetireKeepsOrder DEF Sorted, TypeOK
<1>4. CASE FetchDiscard
  <2>1. queue # <<>> /\ queue' = Tail(queue) /\ UNCHANGED <<opt, live>>
    BY <1>4 DEF FetchDiscard, HeadIsEarly
  <2> QED
    BY <2>1, TailKeepsOrder, PairTimes DEF Sorted, TypeOK
<1>5. CASE FetchTake
  <2>1. PICK i \in 1 .. Len(Searched) :
           queue' = RemoveAt(Searched, i) /\ UNCHANGED <<opt, live>>
    BY <1>5 DEF FetchTake, FirstFit
  <2>2. opt.early # "ASAP" => Searched = queue
    BY DEF Searched
  <2> QED
    BY <2>1, <2>2, RemovePairKeepsOrder, PairTimes DEF Sorted, TypeOK
<1>6. CASE FetchNone
  <2>1. queue' = Searched /\ UNCHANGED <<opt, live>>
    BY <1>6 DEF FetchNone
  <2>2. opt.early # "ASAP" => Searched = queue
    BY DEF Searched
  <2> QED
    BY <2>1, <2>2 DEF Sorted
<1>7. CASE Record
  <2>1. PICK i \in FindIndex(opt.search, live, hold.time) :
           live' = Splice(live, i, <<hold.time>>) /\ UNCHANGED <<opt, queue>>
    BY <1>7 DEF Record, LiveIndex
  <2>2. hold.time \in Int /\ <<hold.time>> \in Seq(Int)
    <3>1. hold.time \in TimeRange
      BY <1>7 DEF TypeOK, Record, Captured
    <3>2. hold.time \in Int
      BY <3>1, Constants DEF TimeRange
    <3> QED
      BY <3>2
  <2>3. Len(<<hold.time>>) = 1 /\ <<hold.time>>[1] = hold.time
    OBVIOUS
  <2>4. live \in Seq(Int)
    BY PairTimes, SeqMonotonic DEF TypeOK
  <2>5. \A k \in 1 .. Len(<<hold.time>>) : <<hold.time>>[k] = hold.time
    BY <2>3
  <2>6. IsAscending(live')
    BY <2>1, <2>2, <2>4, <2>5, InsertKeepsOrder DEF Sorted
  <2> QED
    BY <2>1, <2>6 DEF Sorted
<1>8. ASSUME ~UNCHANGED <<opt, queue, live>>
      PROVE  \/ \E e \in Events, t \in EventTimes, n \in EventLens :
                  AddByMessage(e, t, n) \/ CallerAdds(e, t, n)
             \/ RetireOne \/ FetchDiscard \/ FetchTake \/ FetchNone \/ Record
  BY <1>8 DEF Next, AddEvent, WorkStep, WorkerStep, Produce, CallerLocks,
     WorkBegin, RetireNone, FetchBalk, Push, Drop, Consume, WaitNotify, WaitDone,
     Return, BeginStop, StreamEnds, UserStops, StopThread, Joined, Check, EnterWait,
     SpuriousWake, Pop, PopNothing, Run, PostTime, Decrement
<1> QED
  BY <1>1, <1>2, <1>3, <1>4, <1>5, <1>6, <1>7, <1>8

\* The queue stays in time order whichever search inserts into it, as long as
\* ASAP rewrites no time; the live times stay in order always.
THEOREM SortedAlways == Spec => []Sorted
<1>1. Init => Sorted
  BY TimesOfPairs, PairTimes, EmptySeq DEF Init, Sorted, IsAscending, Times
<1> QED
  BY <1>1, SortedStep, TypeCorrect, PTL DEF Spec

\* The configuration of an instance never changes.
LEMMA OptStays ==
    ASSUME [Next]_vars
    PROVE  opt' = opt
  BY DEF vars, streamVars, blockVars, queueVars, poolVars,
     Next, AddEvent, AddByMessage, CallerAdds, WorkStep, WorkerStep, Produce,
     CallerLocks, RetireOne, FetchDiscard, FetchTake, FetchNone, Record,
     WorkBegin, RetireNone, FetchBalk, Push, Drop, Consume, WaitNotify, WaitDone,
     Return, BeginStop, StreamEnds, UserStops, StopThread, Joined, Check, EnterWait,
     SpuriousWake, Pop, PopNothing, Run, PostTime, Decrement

-----------------------------------------------------------------------------
(* The samples given to handlers.                                          *)

\* In an ordered queue no pair is earlier than the head.
LEMMA HeadIsEarliest ==
    ASSUME TypeOK, IsAscending(Times(queue)), NEW i \in 1 .. Len(queue)
    PROVE  /\ queue # <<>> /\ queue[1] \in Pair /\ queue[i] \in Pair
           /\ queue[1].time <= queue[i].time
<1>1. Len(queue) \in Nat /\ 1 \in 1 .. Len(queue)
  BY LenProperties DEF TypeOK
<1>2. /\ Len(Times(queue)) = Len(queue)
      /\ \A j \in 1 .. Len(queue) : Times(queue)[j] = queue[j].time
  BY PairTimes, TimesOfPairs DEF TypeOK
<1>3. queue[1] \in Pair /\ queue[i] \in Pair
  BY <1>1, ElementOfSeq DEF TypeOK
<1>4. Times(queue)[1] = queue[1].time /\ Times(queue)[i] = queue[i].time
  BY <1>1, <1>2
<1>5. 1 < i => Times(queue)[1] <= Times(queue)[i]
  BY <1>1, <1>2 DEF IsAscending
<1>6. queue[1].time \in Int
  BY <1>3, PairTimes
<1>7. queue[1].time <= queue[i].time
  <2>1. CASE i = 1
    BY <1>6, <2>1
  <2>2. CASE 1 < i
    BY <1>4, <1>5, <2>2
  <2> QED
    BY <1>1, <2>1, <2>2
<1> QED
  BY <1>1, <1>3, <1>7, EmptySeq

\* A pair that starts and ends inside the buffer gets the samples it asks for:
\* its offset is neither clamped nor truncated.
LEMMA CaptureIsRight ==
    ASSUME TypeOK, NEW p \in Pair, p.time >= MinTime(d_time), EndTime(p) < produced
    PROVE  RightSamples(Capture(p))
<1> DEFINE o == ((p.time - d_time) + History) - 1
<1>1. p.time \in TimeRange /\ p.len \in TimeRange
  BY DEF Pair
<1>2. Capture(p).time = p.time /\ Capture(p).len = p.len
      /\ Capture(p).from = ((d_time - History) + 1) + BufferOffset(p.time)
  BY DEF Capture
<1>3. SUFFICES ASSUME p.time + p.len < TimeMod
               PROVE  /\ BufferOffset(p.time) = o
                      /\ p.time + p.len < produced
  BY <1>1, <1>2, Constants, SMTT(30) DEF RightSamples, TypeOK, TimeRange
<1>4. p.time + p.len < produced
  BY <1>3 DEF EndTime, Wrapped
<1>5. /\ produced \in Nat /\ d_time \in Nat /\ produced - d_time <= MaxIn
      /\ p.time \in Nat /\ p.len \in Nat
  BY <1>1, Constants DEF TypeOK, NOutput, TimeRange
<1>6. o \in Int /\ 0 <= o /\ o < History + MaxIn
  <2>1. 0 <= o
    BY <1>5, Constants DEF MinTime
  <2>2. o < History + MaxIn
    BY <1>4, <1>5, Constants
  <2> QED
    BY <1>5, <2>1, <2>2, Constants
<1>7. AsInt(o) = o
  <2>1. o \in 0 .. ((IntMod \div 2) - 1)
    BY <1>6, Constants
  <2> HIDE DEF o
  <2> QED
    BY <2>1 DEF AsInt
<1>8. BufferOffset(p.time) = IF AsInt(o) < 0 THEN 0 ELSE AsInt(o)
  BY DEF BufferOffset
<1> HIDE DEF o
<1>9. BufferOffset(p.time) = o
  BY <1>6, <1>7, <1>8
<1> QED
  BY <1>4, <1>9

\* Every pair in flight has the samples it asks for.
WindowInv ==
    opt.early = "DISCARD" =>
        /\ pc = "push" => RightSamples(hold)
        /\ \A i \in 1 .. Len(qq) : RightSamples(qq[i])
        /\ \A w \in Workers : eh[w] # NoPair => RightSamples(eh[w])

\* More production does no harm to samples already copied.
LEMMA RightSamplesStay ==
    ASSUME NEW p \in Captured, RightSamples(p), produced \in Int, produced' \in Int,
           produced <= produced'
    PROVE  RightSamples(p)'
<1>1. p.from \in Int /\ p.len \in Int
  BY Constants DEF Captured, TimeRange
<1> QED
  BY <1>1 DEF RightSamples

\* Every step keeps the captured samples right.
LEMMA WindowStep ==
    TypeOK /\ TypeOK' /\ Sorted /\ WindowInv /\ [Next]_vars => WindowInv'
<1> SUFFICES ASSUME TypeOK, TypeOK', Sorted, WindowInv, [Next]_vars,
                    opt'.early = "DISCARD"
             PROVE  /\ pc' = "push" => RightSamples(hold)'
                    /\ \A i \in 1 .. Len(qq') : RightSamples(qq[i])'
                    /\ \A w \in Workers : (eh[w] # NoPair)' => RightSamples(eh[w])'
  BY DEF WindowInv
<1> USE DEF vars, streamVars, blockVars, queueVars, poolVars
<1>0. /\ opt' = opt /\ opt.early = "DISCARD"
      /\ pc = "push" => RightSamples(hold)
      /\ \A i \in 1 .. Len(qq) : RightSamples(qq[i])
      /\ \A w \in Workers : eh[w] # NoPair => RightSamples(eh[w])
  <2>1. opt' = opt
    BY OptStays
  <2> QED
    BY <2>1 DEF WindowInv
<1>1. CASE UNCHANGED <<pc, hold, qq, eh, produced>>
  BY <1>0, <1>1 DEF RightSamples
<1>2. CASE UNCHANGED <<hold, qq, eh, produced>> /\ pc' # "push"
  BY <1>0, <1>2 DEF RightSamples
<1>3. ASSUME NEW n \in 1 .. MaxIn, Produce(n)
      PROVE  /\ pc' = "push" => RightSamples(hold)'
             /\ \A i \in 1 .. Len(qq') : RightSamples(qq[i])'
             /\ \A w \in Workers : (eh[w] # NoPair)' => RightSamples(eh[w])'
  <2>1. /\ UNCHANGED <<pc, hold, qq, eh>> /\ pc # "push"
        /\ produced \in Int /\ produced' \in Int /\ produced <= produced'
    BY <1>3, Constants DEF Produce, TypeOK
  <2>2. \A i \in 1 .. Len(qq) : qq[i] \in Captured
    BY ElementOfSeq DEF TypeOK
  <2>3. \A w \in Workers : eh[w] # NoPair => eh[w] \in Captured
    BY DEF TypeOK
  <2>4. ASSUME NEW i \in 1 .. Len(qq') PROVE RightSamples(qq[i])'
    BY <1>0, <2>1, <2>2, RightSamplesStay DEF RightSamples, Captured
  <2>5. ASSUME NEW w \in Workers, (eh[w] # NoPair)' PROVE RightSamples(eh[w])'
    BY <1>0, <2>1, <2>3, <2>5, RightSamplesStay DEF RightSamples, Captured
  <2> QED
    BY <2>1, <2>4, <2>5
<1>4. CASE FetchTake
  <2>1. PICK i \in FirstFit(Searched, produced) : hold' = Capture(Searched[i])
    BY <1>4 DEF FetchTake
  <2>2. UNCHANGED <<d_time, produced, qq, eh>>
    BY <1>4 DEF FetchTake
  <2>3. Searched = queue /\ ~HeadIsEarly(queue, MinTime(d_time))
    BY <1>0, <1>4 DEF FetchTake, SearchAllowed, Searched
  <2>4. i \in 1 .. Len(queue) /\ EndTime(queue[i]) < produced
    BY <2>1, <2>3 DEF FirstFit
  <2>5. /\ queue # <<>> /\ queue[1] \in Pair /\ queue[i] \in Pair
        /\ queue[1].time <= queue[i].time
    BY <1>0, <2>4, HeadIsEarliest DEF Sorted
  <2>6. queue[i].time >= MinTime(d_time)
    <3>1. ~(queue[1].time < MinTime(d_time))
      BY <2>3, <2>5 DEF HeadIsEarly
    <3>2. MinTime(d_time) \in Int
      BY Constants, MinTimeType DEF TypeOK
    <3> QED
      BY <2>5, <3>1, <3>2, PairTimes
  <2>7. RightSamples(Capture(queue[i]))
    BY <2>4, <2>5, <2>6, CaptureIsRight
  <2>8. RightSamples(hold)'
    BY <2>1, <2>2, <2>3, <2>7 DEF RightSamples
  <2> QED
    BY <1>0, <2>2, <2>8 DEF RightSamples
<1>5. CASE Push
  <2>1. /\ qq' = Append(qq, hold) /\ pc = "push" /\ pc' = "record"
        /\ UNCHANGED <<eh, produced>>
    BY <1>5 DEF Push
  <2>2. /\ Len(qq) \in Nat /\ Len(qq') = Len(qq) + 1
        /\ \A i \in 1 .. Len(qq) : qq'[i] = qq[i]
        /\ qq'[Len(qq) + 1] = hold
    BY <2>1, AppendProperties, LenProperties DEF TypeOK
  <2>3. ASSUME NEW i \in 1 .. Len(qq') PROVE RightSamples(qq[i])'
    BY <1>0, <2>1, <2>2 DEF RightSamples
  <2> QED
    BY <1>0, <2>1, <2>3 DEF RightSamples
<1>6. ASSUME NEW w \in Workers, Pop(w)
      PROVE  /\ pc' = "push" => RightSamples(hold)'
             /\ \A i \in 1 .. Len(qq') : RightSamples(qq[i])'
             /\ \A v \in Workers : (eh[v] # NoPair)' => RightSamples(eh[v])'
  <2>1. /\ qq # <<>> /\ qq' = Tail(qq) /\ eh' = [eh EXCEPT ![w] = Head(qq)]
        /\ UNCHANGED <<pc, hold, produced>>
    BY <1>6 DEF Pop
  <2>2. /\ Len(qq) \in Nat /\ Len(qq) > 0 /\ Len(qq') = Len(qq) - 1
        /\ \A i \in 1 .. Len(qq') : qq'[i] = qq[i + 1]
        /\ Head(qq) = qq[1]
    <3>1. qq \in Seq(Captured) /\ Len(qq) \in Nat
      BY LenProperties DEF TypeOK
    <3>2. Len(qq) > 0
      BY <2>1, <3>1, EmptySeq
    <3>3. /\ Tail(qq) \in Seq(Captured) /\ Len(Tail(qq)) = Len(qq) - 1
          /\ \A i \in 1 .. Len(Tail(qq)) : Tail(qq)[i] = qq[i + 1]
      BY <2>1, <3>1, HeadTailProperties
    <3>4. Head(qq) = qq[1]
      BY <3>1, <3>2
    <3>5. Len(qq') = Len(qq) - 1 /\ \A i \in 1 .. Len(qq') : qq'[i] = qq[i + 1]
      BY ONLY <2>1, <3>3, Zenon
    <3> QED
      BY ONLY <3>1, <3>2, <3>4, <3>5, Zenon
  <2>3. RightSamples(Head(qq))
    BY <1>0, <2>2
  <2>4. ASSUME NEW i \in 1 .. Len(qq') PROVE RightSamples(qq[i])'
    <3>1. i + 1 \in 1 .. Len(qq) /\ qq'[i] = qq[i + 1]
      BY <2>2
    <3>2. RightSamples(qq[i + 1])
      BY <1>0, <3>1
    <3> QED
      BY <2>1, <3>1, <3>2 DEF RightSamples
  <2>5. ASSUME NEW v \in Workers, (eh[v] # NoPair)' PROVE RightSamples(eh[v])'
    <3>1. CASE v = w
      BY <2>1, <2>3, <3>1 DEF RightSamples, TypeOK
    <3>2. CASE v # w
      BY <1>0, <2>1, <2>5, <3>2 DEF RightSamples, TypeOK
    <3> QED
      BY <3>1, <3>2
  <2> QED
    BY <1>0, <2>1, <2>4, <2>5 DEF RightSamples
<1>7. ASSUME NEW w \in Workers, Decrement(w)
      PROVE  /\ pc' = "push" => RightSamples(hold)'
             /\ \A i \in 1 .. Len(qq') : RightSamples(qq[i])'
             /\ \A v \in Workers : (eh[v] # NoPair)' => RightSamples(eh[v])'
  <2>1. eh' = [eh EXCEPT ![w] = NoPair] /\ UNCHANGED <<pc, hold, qq, produced>>
    BY <1>7 DEF Decrement
  <2>2. ASSUME NEW v \in Workers, (eh[v] # NoPair)' PROVE RightSamples(eh[v])'
    BY <1>0, <2>1, <2>2 DEF RightSamples, TypeOK
  <2> QED
    BY <1>0, <2>1, <2>2 DEF RightSamples
<1>8. \/ UNCHANGED <<pc, hold, qq, eh, produced>>
      \/ UNCHANGED <<qq, eh, produced, hold>> /\ pc' # "push"
      \/ Record \/ FetchTake \/ Push
      \/ \E n \in 1 .. MaxIn : Produce(n)
      \/ \E w \in Workers : Pop(w) \/ Decrement(w)
  BY DEF Next, AddEvent, AddByMessage, CallerAdds, WorkStep, WorkerStep,
     CallerLocks, RetireOne, FetchDiscard, FetchNone,
     WorkBegin, RetireNone, FetchBalk, Drop, Consume, WaitNotify, WaitDone,
     Return, BeginStop, StreamEnds, UserStops, StopThread, Joined, Check, EnterWait,
     SpuriousWake, PopNothing, Run, PostTime
<1>9. CASE Record
  <2>1. pc' # "push" /\ UNCHANGED <<qq, eh, produced>>
    BY <1>9 DEF Record
  <2> QED
    BY <1>0, <2>1 DEF RightSamples
<1> QED
  BY <1>1, <1>2, <1>3, <1>4, <1>5, <1>6, <1>7, <1>8, <1>9

\* Where early events are discarded, no handler is ever given samples other than
\* those its event asks for, nor samples that have not been produced.
THEOREM WindowAlwaysCorrect == Spec => []WindowCorrect
<1>1. Init => WindowInv
  BY DEF Init, WindowInv
<1>2. TypeOK /\ WindowInv => WindowCorrect
  BY DEF WindowInv, WindowCorrect, InFlight, At, TypeOK
<1> QED
  BY <1>1, <1>2, WindowStep, SortedAlways, TypeCorrect, PTL DEF Spec
-----------------------------------------------------------------------------
(* What is discarded.                                                      *)

\* An event queued in time starts at or after the first sample the buffer will
\* hold at the next fetch.
HoldBackInv ==
    ~opt.direct /\ opt.early = "DISCARD" =>
        /\ lock \notin Events
        /\ \A i \in 1 .. Len(queue) :
              queue[i].evt \in late \/ queue[i].time >= WindowStart
        /\ pc = "consume" => ~HeadIsEarly(queue, MinTime(d_time))

DiscardInv ==
    /\ opt.early # "DISCARD" => discarded = {}
    /\ DiscardedWereLate

\* Consuming what work() finds consumable keeps the first sample of every pair
\* that has not come too late.
LEMMA ConsumableHoldsBack ==
    ASSUME TypeOK, IsAscending(Times(queue)), ~HeadIsEarly(queue, MinTime(d_time)),
           NEW i \in 1 .. Len(queue)
    PROVE  queue[i].time >= MinTime(d_time + Consumable)
<1>1. /\ queue # <<>> /\ queue[1] \in Pair /\ queue[i] \in Pair
      /\ queue[1].time <= queue[i].time
  BY HeadIsEarliest
<1>2. /\ queue[1].time \in Nat /\ queue[i].time \in Nat
      /\ MinTime(d_time) \in Nat /\ d_time \in Nat /\ NOutput \in Nat
  BY <1>1, PairTimes, Constants, MinTimeType DEF TypeOK, NOutput, TimeRange
<1>3. queue[1].time >= MinTime(d_time)
  BY <1>1, <1>2 DEF HeadIsEarly
<1> DEFINE room == Since(queue[1].time, MinTime(d_time))
           other == IF live = <<>> THEN NOutput ELSE Since(live[1], MinTime(d_time))
<1>4. room = queue[1].time - MinTime(d_time)
  BY <1>3 DEF Since
<1>5. Len(Times(queue)) = Len(queue) /\ Times(queue)[1] = queue[1].time
  <2>1. 1 \in 1 .. Len(queue)
    BY LenProperties DEF TypeOK
  <2> QED
    BY <2>1, PairTimes, TimesOfPairs DEF TypeOK
<1>6. Times(queue) # <<>>
  BY <1>5, LenProperties, EmptySeq DEF TypeOK
<1>7. Consumable = Least(NOutput, Least(other, room))
  BY <1>5, <1>6 DEF Consumable
<1> HIDE DEF room, other
<1>8. other \in Int
  <2>1. CASE live # <<>>
    <3>1. live[1] \in TimeRange
      BY <2>1 DEF TypeOK
    <3> QED
      BY <1>2, <2>1, <3>1, Constants DEF other, Since, TimeRange
  <2> QED
    BY <1>2, <2>1 DEF other
<1>9. room \in Int
  BY <1>2, <1>4
<1>10. Consumable \in Nat /\ Consumable <= room
  <2>1. Consumable \in 0 .. NOutput
    BY ConsumableType
  <2> QED
    BY <1>2, <1>7, <1>8, <1>9, <2>1 DEF Least
<1>11. MinTime(d_time + Consumable) <= MinTime(d_time) + Consumable
  BY <1>2, <1>10, Constants DEF MinTime
<1>12. MinTime(d_time + Consumable) \in Int
  BY <1>2, <1>10, Constants DEF MinTime
<1> QED
  BY <1>1, <1>2, <1>4, <1>9, <1>10, <1>11, <1>12, SMTT(30)

\* An event added is late, or its pairs start inside the buffer.
LEMMA InsertHoldsBack ==
    ASSUME TypeOK, NEW e \in Events, NEW t \in EventTimes, NEW n \in EventLens,
           Insert(e, t, n), WindowStart \in Int,
           \A i \in 1 .. Len(queue) :
              queue[i].evt \in late \/ queue[i].time >= WindowStart
    PROVE  \A i \in 1 .. Len(queue') :
              queue'[i].evt \in late' \/ queue'[i].time >= WindowStart
<1>1. PICK k \in FindIndex(opt.search, Times(queue), t) :
         queue' = Splice(queue, k, NewPairs(e, t, n))
  BY DEF Insert
<1>2. late \subseteq late' /\ (e \in late' \/ t >= WindowStart)
  <2>1. t \in Int
    BY Constants DEF TimeRange
  <2> QED
    BY <2>1 DEF Insert
<1> DEFINE s == NewPairs(e, t, n)
           m == Len(queue)
           b == Len(s)
<1>3. s \in Seq(Pair) /\ \A j \in 1 .. b : s[j].time = t /\ s[j].evt = e
  <2>1. s \in Seq(Pair) /\ \A j \in 1 .. b : s[j].time = t
    BY Constants, NewPairsType
  <2>2. t \in TimeRange /\ n \in TimeRange
    BY Constants
  <2>3. \A j \in 1 .. b : s[j].evt = e
    BY <2>2, NewPairsEvent
  <2> QED
    BY <2>1, <2>3
<1>4. k \in 0 .. m
  BY <1>1, FoundIndexInRange, PairTimes, TimesOfPairs DEF TypeOK
<1> HIDE DEF s, m, b
<1>5. m \in Nat /\ b \in Nat
  BY <1>3, LenProperties DEF TypeOK, m, b
<1>6. /\ Len(queue') = m + b
      /\ \A j \in 1 .. m + b :
            queue'[j] = IF j <= k THEN queue[j]
                        ELSE IF j <= k + b THEN s[j - k] ELSE queue[j - b]
  <2>1. queue \in Seq(Pair) /\ s \in Seq(Pair) /\ k \in 0 .. Len(queue)
    BY <1>3, <1>4 DEF TypeOK, m
  <2>2. queue' = Splice(queue, k, s)
    BY <1>1 DEF s
  <2>3. /\ Len(Splice(queue, k, s)) = Len(queue) + Len(s)
        /\ \A j \in 1 .. Len(queue) + Len(s) :
              Splice(queue, k, s)[j] = IF j <= k THEN queue[j]
                                       ELSE IF j <= k + Len(s) THEN s[j - k]
                                       ELSE queue[j - Len(s)]
    BY ONLY <2>1, SpliceElements
  <2> QED
    BY ONLY <2>2, <2>3, Zenon DEF m, b
<1>7. ASSUME NEW i \in 1 .. m + b
      PROVE  queue'[i].evt \in late' \/ queue'[i].time >= WindowStart
  <2>1. CASE i <= k
    <3>1. i \in 1 .. m /\ queue'[i] = queue[i]
      BY <1>4, <1>5, <1>6, <2>1
    <3> QED
      BY <1>2, <3>1 DEF m
  <2>2. CASE k < i /\ i <= k + b
    <3>1. i - k \in 1 .. b /\ queue'[i] = s[i - k]
      BY <1>4, <1>5, <1>6, <2>2
    <3> QED
      BY <1>2, <1>3, <3>1
  <2>3. CASE k + b < i
    <3>1. i - b \in 1 .. m /\ queue'[i] = queue[i - b]
      BY <1>4, <1>5, <1>6, <2>3
    <3> QED
      BY <1>2, <3>1 DEF m
  <2> QED
    BY <1>4, <1>5, <2>1, <2>2, <2>3
<1> QED
  BY <1>6, <1>7

\* The first sample of the next fetch is a number.
LEMMA WindowStartType ==
    ASSUME TypeOK
    PROVE  WindowStart \in Int
  BY Constants DEF WindowStart, MinTime, TypeOK, NOutput

\* Every step keeps the first samples of queued events in the buffer.
LEMMA HoldBackStep ==
    TypeOK /\ Sorted /\ HoldBackInv /\ [Next]_vars => HoldBackInv'
<1> SUFFICES ASSUME TypeOK, Sorted, HoldBackInv, [Next]_vars,
                    ~opt'.direct, opt'.early = "DISCARD"
             PROVE  /\ lock' \notin Events
                    /\ \A i \in 1 .. Len(queue') :
                          queue'[i].evt \in late' \/ queue'[i].time >= WindowStart'
                    /\ pc' = "consume" => ~HeadIsEarly(queue', MinTime(d_time'))
  BY DEF HoldBackInv, HeadIsEarly, MinTime
<1> USE DEF vars, streamVars, blockVars, queueVars, poolVars
<1>0. /\ opt' = opt /\ ~opt.direct /\ opt.early = "DISCARD"
      /\ lock \notin Events
      /\ \A i \in 1 .. Len(queue) :
            queue[i].evt \in late \/ queue[i].time >= WindowStart
      /\ pc = "consume" => ~HeadIsEarly(queue, MinTime(d_time))
  <2>1. opt' = opt
    BY OptStays
  <2> QED
    BY <2>1 DEF HoldBackInv
<1>1. WindowStart \in Int
  BY WindowStartType
<1>2. CASE /\ UNCHANGED <<lock, queue, late>>
           /\ WindowStart' = WindowStart /\ pc' # "consume"
  BY <1>0, <1>2
<1>3. ASSUME NEW e \in Events, NEW t \in EventTimes, NEW n \in EventLens,
             AddByMessage(e, t, n)
      PROVE  /\ lock' \notin Events
             /\ \A i \in 1 .. Len(queue') :
                   queue'[i].evt \in late' \/ queue'[i].time >= WindowStart'
             /\ pc' = "consume" => ~HeadIsEarly(queue', MinTime(d_time'))
  <2>1. Insert(e, t, n) /\ pc = "idle" /\ UNCHANGED <<pc, lock, d_time, nconsume>>
    BY <1>3 DEF AddByMessage
  <2>2. WindowStart' = WindowStart
    BY <2>1 DEF WindowStart, MinTime
  <2> QED
    BY <1>0, <1>1, <2>1, <2>2, InsertHoldsBack
<1>4. CASE FetchDiscard
  <2>1. /\ queue # <<>> /\ queue' = Tail(queue) /\ pc = "fetch"
        /\ UNCHANGED <<lock, late, pc, d_time, nconsume>>
    BY <1>4 DEF FetchDiscard, HeadIsEarly
  <2>2. WindowStart' = WindowStart
    BY <2>1 DEF WindowStart, MinTime
  <2>3. /\ Len(queue) \in Nat /\ Len(Tail(queue)) = Len(queue) - 1
        /\ \A i \in 1 .. Len(Tail(queue)) : Tail(queue)[i] = queue[i + 1]
    BY <2>1, HeadTailProperties, LenProperties DEF TypeOK
  <2>4. ASSUME NEW i \in 1 .. Len(queue')
        PROVE  queue'[i].evt \in late' \/ queue'[i].time >= WindowStart'
    <3>1. i \in 1 .. Len(Tail(queue)) /\ queue'[i] = Tail(queue)[i]
      BY <2>1, Zenon
    <3>2. i + 1 \in 1 .. Len(queue)
      BY <2>3, <3>1
    <3>3. queue'[i] = queue[i + 1]
      BY <2>3, <3>1, Zenon
    <3> QED
      BY <1>0, <2>1, <2>2, <3>2, <3>3
  <2> QED
    BY <1>0, <2>1, <2>4
<1>5. CASE FetchTake
  <2>1. PICK k \in 1 .. Len(Searched) : queue' = RemoveAt(Searched, k)
    BY <1>5 DEF FetchTake, FirstFit
  <2>2. /\ pc = "fetch" /\ pc' = "push"
        /\ UNCHANGED <<lock, late, d_time, nconsume>>
    BY <1>5 DEF FetchTake, SearchAllowed
  <2>3. Searched = queue
    BY <1>0 DEF Searched
  <2>4. WindowStart' = WindowStart
    BY <2>2 DEF WindowStart, MinTime
  <2>5. /\ Len(queue) \in Nat /\ Len(queue') = Len(queue) - 1
        /\ \A j \in 1 .. Len(queue) - 1 :
              queue'[j] = IF j < k THEN queue[j] ELSE queue[j + 1]
    <3>1. queue \in Seq(Pair) /\ k \in 1 .. Len(queue) /\ Len(queue) \in Nat
      BY <2>3, LenProperties DEF TypeOK
    <3>2. /\ Len(RemoveAt(queue, k)) = Len(queue) - 1
          /\ \A j \in 1 .. Len(queue) - 1 :
                RemoveAt(queue, k)[j] = IF j < k THEN queue[j] ELSE queue[j + 1]
      BY <3>1, RemoveAtElements
    <3>3. queue' = RemoveAt(queue, k)
      BY <2>1, <2>3
    <3> QED
      BY ONLY <3>1, <3>2, <3>3, Zenon
  <2>6. ASSUME NEW i \in 1 .. Len(queue')
        PROVE  queue'[i].evt \in late' \/ queue'[i].time >= WindowStart'
    <3>1. PICK j \in 1 .. Len(queue) : queue'[i] = queue[j]
      <4>1. i \in 1 .. Len(queue) /\ i + 1 \in 1 .. Len(queue)
        BY <2>5
      <4>2. queue'[i] = queue[i] \/ queue'[i] = queue[i + 1]
        BY <2>5
      <4> QED
        BY <4>1, <4>2
    <3> QED
      BY <1>0, <2>2, <2>4, <3>1
  <2> QED
    BY <1>0, <2>2, <2>6
<1>6. CASE FetchNone
  <2>1. /\ pc = "fetch" /\ pc' = "consume" /\ queue' = Searched
        /\ UNCHANGED <<lock, late, d_time, nconsume>>
        /\ HeadIsEarly(queue, MinTime(d_time)) => opt.early \in {"ASAP", "RNDF"}
    BY <1>6 DEF FetchNone, SearchAllowed
  <2>2. queue' = queue /\ ~HeadIsEarly(queue, MinTime(d_time))
    BY <1>0, <2>1 DEF Searched
  <2>3. WindowStart' = WindowStart
    BY <2>1 DEF WindowStart, MinTime
  <2> QED
    BY <1>0, <2>1, <2>2, <2>3
<1>7. CASE Consume
  <2>1. /\ pc = "consume" /\ pc' \in {"wait", "return"}
        /\ UNCHANGED <<lock, queue, late, d_time>>
    BY <1>7 DEF Consume
  <2>2. nconsume' = Consumable
    BY <1>0, <1>7 DEF Consume, ConsumeChoices
  <2>3. WindowStart' = MinTime(d_time + Consumable)
    BY <2>1, <2>2 DEF WindowStart, MinTime
  <2>4. IsAscending(Times(queue)) /\ ~HeadIsEarly(queue, MinTime(d_time))
    BY <1>0, <2>1 DEF Sorted
  <2>5. ASSUME NEW i \in 1 .. Len(queue)
        PROVE  queue[i].time >= MinTime(d_time + Consumable)
    BY <2>4, ConsumableHoldsBack
  <2> QED
    BY <1>0, <2>1, <2>3, <2>5
<1>8. CASE Return
  <2>1. /\ pc = "return" /\ pc' = "idle" /\ d_time' = d_time + nconsume
        /\ UNCHANGED <<lock, queue, late>>
    BY <1>8 DEF Return
  <2>2. WindowStart' = WindowStart
    BY <2>1 DEF WindowStart, MinTime
  <2> QED
    BY <1>2, <2>1, <2>2
<1>9. CASE FetchBalk \/ \E e \in Events : CallerLocks(e)
  BY <1>0, <1>9 DEF FetchBalk, CallerLocks
<1>10. ASSUME NEW e \in Events, NEW t \in EventTimes, NEW n \in EventLens,
              CallerAdds(e, t, n)
       PROVE  FALSE
  BY <1>0, <1>10 DEF CallerAdds
<1>11. CASE UNCHANGED vars
  BY <1>0, <1>11 DEF WindowStart, MinTime
<1>12. CASE /\ UNCHANGED <<lock, queue, late, d_time, nconsume>>
            /\ pc' = pc \/ (pc' # "consume" /\ (pc' \in {"wait", "return"}
                                                <=> pc \in {"wait", "return"}))
  <2>1. WindowStart' = WindowStart
    BY <1>12 DEF WindowStart, MinTime
  <2> QED
    BY <1>0, <1>12, <2>1
<1>13. \/ \E e \in Events, t \in EventTimes, n \in EventLens :
             AddByMessage(e, t, n) \/ CallerAdds(e, t, n)
       \/ \E e \in Events : CallerLocks(e)
       \/ FetchDiscard \/ FetchTake \/ FetchNone \/ Consume \/ Return \/ FetchBalk
       \/ /\ UNCHANGED <<lock, queue, late, d_time, nconsume>>
          /\ pc' = pc \/ (pc' # "consume" /\ (pc' \in {"wait", "return"}
                                              <=> pc \in {"wait", "return"}))
  BY DEF Next, AddEvent, WorkStep, WorkerStep, Produce, RetireOne, Record,
     WorkBegin, RetireNone, Push, Drop, WaitNotify, WaitDone,
     BeginStop, StreamEnds, UserStops, StopThread, Joined, Check, EnterWait,
     SpuriousWake, Pop, PopNothing, Run, PostTime, Decrement
<1> QED
  BY <1>3, <1>4, <1>5, <1>6, <1>7, <1>8, <1>9, <1>10, <1>12, <1>13

\* Only an event that came too late is discarded by a step.
LEMMA DiscardStep ==
    TypeOK /\ HoldBackInv /\ DiscardInv /\ [Next]_vars => DiscardInv'
<1> SUFFICES ASSUME TypeOK, HoldBackInv, DiscardInv, [Next]_vars PROVE DiscardInv'
  OBVIOUS
<1> USE DEF vars, streamVars, blockVars, queueVars, poolVars
<1>1. opt' = opt
  BY OptStays
<1>2. late \subseteq late'
  BY DEF Next, AddEvent, AddByMessage, CallerAdds, Insert, WorkStep, WorkerStep, Produce,
     CallerLocks, RetireOne, FetchDiscard, FetchTake, FetchNone, Record,
     WorkBegin, RetireNone, FetchBalk, Push, Drop, Consume, WaitNotify, WaitDone,
     Return, BeginStop, StreamEnds, UserStops, StopThread, Joined, Check, EnterWait,
     SpuriousWake, Pop, PopNothing, Run, PostTime, Decrement
<1>3. CASE UNCHANGED discarded
  BY <1>1, <1>2, <1>3 DEF DiscardInv, DiscardedWereLate
<1>4. CASE FetchDiscard
  <2>1. /\ opt.early = "DISCARD" /\ pc = "fetch" /\ queue # <<>>
        /\ queue[1].time < MinTime(d_time)
        /\ discarded' = discarded \cup {IdOf(queue[1])}
    BY <1>4 DEF FetchDiscard, HeadIsEarly
  <2>2. 1 \in 1 .. Len(queue) /\ queue[1].time \in Int /\ MinTime(d_time) \in Int
    <3>1. 1 \in 1 .. Len(queue)
      BY <2>1, EmptySeq, LenProperties DEF TypeOK
    <3>2. queue[1] \in Pair
      BY <3>1, ElementOfSeq DEF TypeOK
    <3> QED
      BY <3>1, <3>2, PairTimes, Constants, MinTimeType DEF TypeOK
  <2>3. ~opt.direct => queue[1].evt \in late
    BY <2>1, <2>2 DEF HoldBackInv, WindowStart
  <2>4. IdOf(queue[1])[1] = queue[1].evt
    BY DEF IdOf
  <2> QED
    BY <1>1, <1>2, <2>1, <2>3, <2>4 DEF DiscardInv, DiscardedWereLate
<1>5. UNCHANGED discarded \/ FetchDiscard
  BY DEF Next, AddEvent, AddByMessage, CallerAdds, Insert, WorkStep, WorkerStep, Produce,
     CallerLocks, RetireOne, FetchTake, FetchNone, Record,
     WorkBegin, RetireNone, FetchBalk, Push, Drop, Consume, WaitNotify, WaitDone,
     Return, BeginStop, StreamEnds, UserStops, StopThread, Joined, Check, EnterWait,
     SpuriousWake, Pop, PopNothing, Run, PostTime, Decrement
<1> QED
  BY <1>3, <1>4, <1>5

\* When every event comes as a message, only events that came too late are
\* discarded: work() never consumes the first sample of a queued event.
THEOREM DiscardedAreLate == Spec => []DiscardedWereLate
<1>1. Init => HoldBackInv /\ DiscardInv
  BY NamesAssumption, EmptySeq
     DEF Init, HoldBackInv, DiscardInv, DiscardedWereLate
<1>2. DiscardInv => DiscardedWereLate
  BY DEF DiscardInv
<1> QED
  BY <1>1, <1>2, HoldBackStep, DiscardStep, SortedAlways, TypeCorrect, PTL DEF Spec
=============================================================================

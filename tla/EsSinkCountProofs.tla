-------------------------- MODULE EsSinkCountProofs --------------------------
(* Theorems about how many pairs EsSink has, and where: the counter of the   *)
(* pairs in flight, the drain of the pool, the live times, and the places of *)
(* a pair.  For every number of threads and every configuration.             *)
EXTENDS EsSinkProofs

-----------------------------------------------------------------------------
(* Counting.                                                               *)

\* One thread more than W: V has it, if it has changed.
LEMMA OneMoreThread ==
    ASSUME NEW W \in SUBSET Workers, NEW V \in SUBSET Workers, NEW w \in Workers,
           w \notin W, \A v \in Workers \ {w} : v \in V <=> v \in W
    PROVE  /\ Cardinality(V) = Cardinality(W) + One(w \in V)
           /\ IsFiniteSet(W) /\ Cardinality(W) \in Nat
<1>1. IsFiniteSet(W) /\ Cardinality(W) \in Nat
  <2>1. NThreads \in Nat /\ W \in SUBSET (1 .. NThreads)
    BY Constants DEF Workers
  <2> QED
    BY <2>1, PositionsFinite
<1>2. CASE w \in V
  <2>1. V = W \cup {w}
    BY <1>2
  <2> QED
    BY <1>1, <1>2, <2>1, FS_AddElement DEF One
<1>3. CASE w \notin V
  <2>1. V = W
    BY <1>3
  <2> QED
    BY <1>1, <1>3, <2>1 DEF One
<1> QED
  BY <1>1, <1>2, <1>3

\* A set with a given first component has as many elements as without it.
LEMMA Labelled ==
    ASSUME NEW S, IsFiniteSet(S), NEW a
    PROVE  IsFiniteSet({a} \X S) /\ Cardinality({a} \X S) = Cardinality(S)
<1> DEFINE f == [s \in S |-> <<a, s>>]
<1>1. f \in [S -> {a} \X S] /\ \A s \in S : f[s] = <<a, s>>
  OBVIOUS
<1>2. \A s, t \in S : f[s] = f[t] => s = t
  BY <1>1
<1>3. \A t \in {a} \X S : \E s \in S : f[s] = t
  BY <1>1
<1> QED
  BY <1>1, <1>2, <1>3, OneToOne

\* The hand, if h, positions Q of qq and the threads W.
Places(h, Q, W) ==
    (IF h THEN {<<"hand", 0>>} ELSE {}) \cup ({"qq"} \X Q) \cup ({"thread"} \X W)

\* A pair is in the hand, in qq or with a thread: the numbers add up.
LEMMA PlacesCount ==
    ASSUME NEW h \in BOOLEAN, NEW m \in Nat, NEW Q \in SUBSET (1 .. m),
           NEW W \in SUBSET Workers
    PROVE  /\ IsFiniteSet(Places(h, Q, W)) /\ Cardinality(Q) \in Nat /\ Cardinality(W) \in Nat
           /\ Cardinality(Places(h, Q, W)) = (One(h) + Cardinality(Q)) + Cardinality(W)
<1> DEFINE hand == IF h THEN {<<"hand", 0>>} ELSE {}
           inqq == {"qq"} \X Q
           with == {"thread"} \X W
<1>1. NThreads \in Nat
  BY Constants
<1>2. /\ IsFiniteSet(Q) /\ Cardinality(Q) \in Nat
      /\ IsFiniteSet(W) /\ Cardinality(W) \in Nat
  BY <1>1, PositionsFinite DEF Workers
<1>3. IsFiniteSet(hand) /\ Cardinality(hand) = One(h)
  BY FS_EmptySet, FS_Singleton DEF One
<1>4. IsFiniteSet(inqq) /\ Cardinality(inqq) = Cardinality(Q)
  BY <1>2, Labelled
<1>5. IsFiniteSet(with) /\ Cardinality(with) = Cardinality(W)
  BY <1>2, Labelled
<1>6. (\A x \in hand : x \notin inqq) /\ (\A x \in hand \cup inqq : x \notin with)
  OBVIOUS
<1>7. Places(h, Q, W) = (hand \cup inqq) \cup with
  BY DEF Places
<1> HIDE DEF hand, inqq, with
<1>8. /\ IsFiniteSet(hand \cup inqq)
      /\ Cardinality(hand \cup inqq) = One(h) + Cardinality(Q)
  BY <1>3, <1>4, <1>6, Disjoint
<1> QED
  BY <1>2, <1>5, <1>6, <1>7, <1>8, Disjoint

-----------------------------------------------------------------------------
(* The counter d_nevents.                                                  *)

Held == {w \in Workers : eh[w] # NoPair}

\* The pairs in flight: in hand, in qq, at the threads.
LEMMA InFlightIs ==
    InFlight = Places(pc = "push", 1 .. Len(qq), Held)
  BY DEF InFlight, Places, Held

\* How many pairs are in flight ...
LEMMA InFlightCount ==
    ASSUME TypeOK
    PROVE  /\ IsFiniteSet(InFlight) /\ Len(qq) \in Nat /\ Cardinality(Held) \in Nat
           /\ Cardinality(InFlight) = (One(pc = "push") + Len(qq)) + Cardinality(Held)
<1>1. Len(qq) \in Nat
  BY LenProperties DEF TypeOK
<1>2. Cardinality(1 .. Len(qq)) = Len(qq)
  <2>1. ASSUME NEW m \in Nat PROVE Cardinality(1 .. m) = m
    <3>1. Cardinality(1 .. m) = IF 1 > m THEN 0 ELSE m - 1 + 1
      BY FS_Interval
    <3> QED
      BY <3>1
  <2> QED
    BY <1>1, <2>1
<1>3. Held \in SUBSET Workers /\ (pc = "push") \in BOOLEAN
  BY DEF Held
<1>4. /\ IsFiniteSet(Places(pc = "push", 1 .. Len(qq), Held))
      /\ Cardinality(Held) \in Nat
      /\ Cardinality(Places(pc = "push", 1 .. Len(qq), Held))
            = (One(pc = "push") + Cardinality(1 .. Len(qq))) + Cardinality(Held)
  BY <1>1, <1>3, PlacesCount, ZenonT(30)
<1> QED
  BY <1>1, <1>2, <1>4, InFlightIs

Counted ==
    /\ Len(qq) \in Nat /\ Cardinality(Held) \in Nat
    /\ Cardinality(InFlight) = (One(pc = "push") + Len(qq)) + Cardinality(Held)

\* The same of the next state.
LEMMA CountedHere == TypeOK => Counted
  BY InFlightCount DEF Counted

\* ... also after a step.
LEMMA InFlightCountNext == TypeOK' => Counted'
  BY CountedHere, PTL

\* A step that moves the hand only, and the counter with it.
LEMMA HandCounts ==
    ASSUME TypeOK, TypeOK', NEventsExact, UNCHANGED <<qq, eh>>,
           d_nevents' = (d_nevents + One(pc' = "push")) - One(pc = "push")
    PROVE  NEventsExact'
<1>1. d_nevents = (One(pc = "push") + Len(qq)) + Cardinality(Held)
  BY InFlightCount DEF NEventsExact
<1>2. Held' = Held
  BY DEF Held
<1>3. Cardinality(InFlight)' = (One(pc' = "push") + Len(qq')) + Cardinality(Held')
  BY InFlightCountNext DEF Counted
<1>4. Len(qq) \in Nat /\ Cardinality(Held) \in Nat
  BY InFlightCount
<1> QED
  BY <1>1, <1>2, <1>3, <1>4 DEF NEventsExact, One

\* A thread takes a pair, or is done with one.
LEMMA HeldBy ==
    ASSUME TypeOK, NEW w \in Workers, NEW x,
           eh' = [eh EXCEPT ![w] = x], (eh[w] = NoPair) <=> (x # NoPair)
    PROVE  Cardinality(Held') = IF x = NoPair THEN Cardinality(Held) - 1
                                ELSE Cardinality(Held) + 1
<1>1. IsFiniteSet(Held) /\ Cardinality(Held) \in Nat
  <2>1. NThreads \in Nat /\ Held \in SUBSET (1 .. NThreads)
    BY Constants DEF Held, Workers
  <2> QED
    BY <2>1, PositionsFinite
<1>2. \A v \in Workers : eh'[v] = IF v = w THEN x ELSE eh[v]
  BY DEF TypeOK
<1>3. CASE x = NoPair
  <2>1. Held' = Held \ {w} /\ w \in Held
    BY <1>2, <1>3 DEF Held
  <2> QED
    BY <1>1, <1>3, <2>1, FS_RemoveElement
<1>4. CASE x # NoPair
  <2>1. Held' = Held \cup {w} /\ w \notin Held
    BY <1>2, <1>4 DEF Held
  <2> QED
    BY <1>1, <1>4, <2>1, FS_AddElement
<1> QED
  BY <1>3, <1>4

\* Every step keeps the counter exact.
LEMMA CountStep == TypeOK /\ TypeOK' /\ NEventsExact /\ [Next]_vars => NEventsExact'
<1> SUFFICES ASSUME TypeOK, TypeOK', NEventsExact, [Next]_vars PROVE NEventsExact'
  OBVIOUS
<1> USE DEF vars, streamVars, blockVars, queueVars, poolVars
<1>1. /\ d_nevents = (One(pc = "push") + Len(qq)) + Cardinality(Held)
      /\ Cardinality(InFlight)' = (One(pc' = "push") + Len(qq')) + Cardinality(Held')
      /\ Len(qq) \in Nat /\ Cardinality(Held) \in Nat
  BY InFlightCount, InFlightCountNext DEF NEventsExact, Counted
<1>2. ASSUME UNCHANGED <<qq, eh, d_nevents>>, (pc = "push") <=> (pc' = "push")
      PROVE  NEventsExact'
  <2>1. One(pc' = "push") = One(pc = "push")
    BY <1>2 DEF One
  <2>2. d_nevents' = (d_nevents + One(pc' = "push")) - One(pc = "push")
    BY <1>2, <2>1 DEF One, TypeOK
  <2> QED
    BY <1>2, <2>2, HandCounts
<1>3. CASE FetchTake
  <2>1. UNCHANGED <<qq, eh>> /\ d_nevents' = (d_nevents + One(pc' = "push")) - One(pc = "push")
    BY <1>3 DEF FetchTake, SearchAllowed, One, TypeOK
  <2> QED
    BY <2>1, HandCounts
<1>4. CASE Drop
  <2>1. UNCHANGED <<qq, eh>> /\ d_nevents' = (d_nevents + One(pc' = "push")) - One(pc = "push")
    BY <1>4 DEF Drop, One, TypeOK
  <2> QED
    BY <2>1, HandCounts
<1>5. CASE Push
  <2>1. Len(qq') = Len(qq) + 1
    BY <1>5, AppendProperties DEF Push, TypeOK
  <2>2. Held' = Held /\ One(pc = "push") = 1 /\ One(pc' = "push") = 0
    BY <1>5 DEF Push, Held, One
  <2>3. d_nevents' = d_nevents
    BY <1>5 DEF Push
  <2> QED
    BY <1>1, <2>1, <2>2, <2>3 DEF NEventsExact
<1>6. ASSUME NEW w \in Workers, Pop(w) PROVE NEventsExact'
  <2>1. qq # <<>> /\ Len(qq') = Len(qq) - 1 /\ Head(qq) \in Captured
    BY <1>6, HeadTailProperties DEF Pop, TypeOK
  <2>2. eh[w] = NoPair /\ Head(qq) # NoPair /\ eh' = [eh EXCEPT ![w] = Head(qq)]
    BY <1>6, <2>1, NoPairIsNone DEF Pop, Goto, TypeOK
  <2>3. Cardinality(Held') = Cardinality(Held) + 1
    BY <2>2, HeldBy
  <2>4. d_nevents' = d_nevents /\ One(pc' = "push") = One(pc = "push")
        /\ One(pc = "push") \in Nat
    BY <1>6 DEF Pop, One
  <2> QED
    BY <1>1, <2>1, <2>3, <2>4 DEF NEventsExact
<1>7. ASSUME NEW w \in Workers, Decrement(w) PROVE NEventsExact'
  <2>1. eh[w] # NoPair /\ eh' = [eh EXCEPT ![w] = NoPair]
    BY <1>7 DEF Decrement, Goto, TypeOK
  <2>2. Cardinality(Held') = Cardinality(Held) - 1
    BY <2>1, HeldBy
  <2>3. d_nevents' = d_nevents - 1 /\ qq' = qq /\ One(pc' = "push") = One(pc = "push")
        /\ One(pc = "push") \in Nat
    BY <1>7 DEF Decrement, One
  <2> QED
    BY <1>1, <2>2, <2>3 DEF NEventsExact
<1>8. ASSUME NEW w \in Workers, WorkerStep(w) \/ SpuriousWake(w) PROVE NEventsExact'
  BY <1>2, <1>6, <1>7, <1>8
     DEF WorkerStep, Check, EnterWait, SpuriousWake, PopNothing, Run, PostTime
<1>9. ASSUME NEW n \in 1 .. MaxIn, Produce(n) PROVE NEventsExact'
  BY <1>2, <1>9 DEF Produce
<1>10. CASE AddEvent
  BY <1>2, <1>10 DEF AddEvent, AddByMessage, CallerAdds
<1>11. ASSUME NEW e \in Events, CallerLocks(e) PROVE NEventsExact'
  BY <1>2, <1>11 DEF CallerLocks
<1>12. CASE \/ WorkBegin \/ RetireOne \/ RetireNone \/ FetchDiscard \/ FetchBalk
            \/ FetchNone \/ Record \/ Consume \/ WaitNotify \/ WaitDone \/ Return
            \/ BeginStop \/ StopThread \/ Joined \/ UNCHANGED vars
  BY <1>2, <1>12
     DEF WorkBegin, RetireOne, RetireNone, FetchDiscard, FetchBalk, FetchNone,
         SearchAllowed, Record, Consume, WaitNotify, WaitDone, Return, BeginStop,
         StopThread, Joined
<1> QED
  BY <1>3, <1>4, <1>5, <1>8, <1>9, <1>10, <1>11, <1>12
     DEF Next, WorkStep, StreamEnds, UserStops

\* d_nevents, which the block's thread and all the handler threads change, is
\* at any moment the number of pairs taken from the queue and not yet finished.
THEOREM NEventsAlwaysExact == Spec => []NEventsExact
<1>1. Init => NEventsExact
  <2> SUFFICES ASSUME Init PROVE NEventsExact
    OBVIOUS
  <2>1. InFlight = {} /\ d_nevents = 0
    BY DEF Init, InFlight
  <2> QED
    BY <2>1, FS_EmptySet DEF NEventsExact
<1>2. TypeOK /\ TypeOK' /\ NEventsExact /\ [Next]_vars => NEventsExact'
  BY CountStep
<1> QED
  BY <1>1, <1>2, TypeCorrect, PTL DEF Spec

\* Nothing in flight: nothing in hand, in qq or at a thread.
LEMMA NothingInFlight ==
    ASSUME TypeOK
    PROVE  InFlight = {} <=> pc # "push" /\ qq = <<>> /\ \A w \in Workers : eh[w] = NoPair
<1>1. Len(qq) \in Nat /\ (qq = <<>> <=> Len(qq) = 0)
  BY LenProperties, EmptySeq DEF TypeOK
<1>2. ASSUME pc # "push", qq = <<>>, \A w \in Workers : eh[w] = NoPair
      PROVE  InFlight = {}
  BY <1>1, <1>2 DEF InFlight
<1>3. ASSUME InFlight = {}
      PROVE  pc # "push" /\ qq = <<>> /\ \A w \in Workers : eh[w] = NoPair
  <2>1. <<"hand", 0>> \notin InFlight /\ <<"qq", 1>> \notin InFlight
        /\ \A w \in Workers : <<"thread", w>> \notin InFlight
    BY <1>3
  <2>2. pc # "push"
    BY <2>1 DEF InFlight
  <2>3. ~(1 \in 1 .. Len(qq))
    BY <2>1 DEF InFlight
  <2>4. \A w \in Workers : eh[w] = NoPair
    BY <2>1 DEF InFlight
  <2> QED
    BY <1>1, <2>2, <2>3, <2>4
<1> QED
  BY <1>2, <1>3

\* Nothing is in flight when the three places are empty.
LEMMA NothingInFlightNext ==
    ASSUME TypeOK', pc' # "push", qq' = <<>>, \A w \in Workers : eh'[w] = NoPair
    PROVE  InFlight' = {}
  BY EmptySeq DEF InFlight

\* Once the drain is over, the threads find nothing more to do.
LEMMA DrainedStep ==
    TypeOK /\ TypeOK' /\ NEventsExact /\ StopDrained /\ [Next]_vars => StopDrained'
<1> SUFFICES ASSUME TypeOK, TypeOK', NEventsExact, StopDrained, [Next]_vars,
                    pc' \in {"stop", "join", "stopped"}
             PROVE  InFlight' = {}
  BY DEF StopDrained
<1> USE DEF vars, streamVars, blockVars, queueVars, poolVars
<1>1. ASSUME InFlight = {}, UNCHANGED <<qq, eh>> PROVE InFlight' = {}
  <2>1. pc' # "push" /\ qq' = <<>> /\ \A w \in Workers : eh'[w] = NoPair
    BY <1>1, NothingInFlight
  <2> QED
    BY <2>1, NothingInFlightNext
<1>2. CASE WaitDone
  <2>1. Cardinality(InFlight) <= 0 /\ IsFiniteSet(InFlight) /\ Cardinality(InFlight) \in Nat
    BY <1>2, InFlightCount, FS_CardinalityType DEF WaitDone, NEventsExact
  <2>2. InFlight = {}
    BY <2>1, FS_EmptySet
  <2> QED
    BY <1>1, <1>2, <2>2 DEF WaitDone
<1>3. CASE ~WaitDone
  <2>1. pc \in {"stop", "join", "stopped"}
    BY <1>3 DEF Next, AddEvent, AddByMessage, CallerAdds, WorkStep, WorkerStep, Produce,
       CallerLocks, RetireOne, FetchDiscard, FetchTake, FetchNone, SearchAllowed, Record,
       WorkBegin, RetireNone, FetchBalk, Push, Drop, Consume, WaitNotify,
       Return, BeginStop, StreamEnds, UserStops, StopThread, Joined, Check, EnterWait,
       SpuriousWake, Pop, PopNothing, Run, PostTime, Decrement
  <2>2. InFlight = {} /\ qq = <<>> /\ \A w \in Workers : eh[w] = NoPair
    BY <2>1, NothingInFlight DEF StopDrained
  <2>3. UNCHANGED <<qq, eh>>
    BY <2>1, <2>2 DEF Next, AddEvent, AddByMessage, CallerAdds, WorkStep, WorkerStep, Produce,
       CallerLocks, RetireOne, FetchDiscard, FetchTake, FetchNone, SearchAllowed, Record,
       WorkBegin, RetireNone, FetchBalk, Push, Drop, Consume, WaitNotify, WaitDone,
       Return, BeginStop, StreamEnds, UserStops, StopThread, Joined, Check, EnterWait,
       SpuriousWake, Pop, PopNothing, Run, PostTime, Decrement, Goto, TypeOK
  <2> QED
    BY <1>1, <2>2, <2>3
<1> QED
  BY <1>2, <1>3

\* stop() stops the handler threads only when every pair taken from the queue
\* has been run and deleted: none is lost in qq or in the hands of a thread.
THEOREM AlwaysStopsDrained == Spec => []StopDrained
<1>1. Init => StopDrained
  BY DEF Init, StopDrained
<1> QED
  BY <1>1, DrainedStep, TypeCorrect, NEventsAlwaysExact, PTL DEF Spec

-----------------------------------------------------------------------------
(* The live times.                                                         *)

AtTime(t) == {c \in Captured : c.time = t}

LiveAt(t) == PositionsOf(live, {t})
DqAt(t)   == PositionsOf(dq, {t})
QqAt(t)   == PositionsOf(qq, AtTime(t))
BusyAt(t) == {w \in Workers : eh[w] # NoPair /\ eh[w].time = t /\ wpc[w] # "decrement"}

\* The pair was pushed, and its time is still to be recorded.
Unrecorded(t) == pc = "record" /\ hold.time = t

LiveEqual(t) ==
    Cardinality(LiveAt(t)) + One(Unrecorded(t))
      = Cardinality(DqAt(t)) + (Cardinality(QqAt(t)) + Cardinality(BusyAt(t)))

\* All times are as LiveTimesExact says, those too that no event was given.
LiveInv == opt.congestion = "BLOCK" => \A t \in TimeRange : LiveEqual(t)

NumbersOK(t) ==
    /\ IsFiniteSet(LiveAt(t)) /\ Cardinality(LiveAt(t)) \in Nat
    /\ IsFiniteSet(DqAt(t)) /\ Cardinality(DqAt(t)) \in Nat
    /\ Len(qq) \in Nat /\ QqAt(t) \in SUBSET (1 .. Len(qq)) /\ Cardinality(QqAt(t)) \in Nat
    /\ BusyAt(t) \in SUBSET Workers /\ Cardinality(BusyAt(t)) \in Nat

\* The numbers of a time in the four places are numbers ...
LEMMA NumbersHere == ASSUME NEW t PROVE TypeOK => NumbersOK(t)
<1> SUFFICES ASSUME TypeOK PROVE NumbersOK(t)
  OBVIOUS
<1>1. live \in Seq(TimeRange) /\ dq \in Seq(TimeRange) /\ qq \in Seq(Captured)
  BY DEF TypeOK
<1>2. NThreads \in Nat /\ BusyAt(t) \in SUBSET (1 .. NThreads)
  BY Constants DEF BusyAt, Workers
<1>3. Cardinality(BusyAt(t)) \in Nat
  BY <1>2, PositionsFinite
<1> QED
  BY <1>1, <1>2, <1>3, PositionsType DEF NumbersOK, LiveAt, DqAt, QqAt, BusyAt

\* ... also after a step.
LEMMA NumbersNext == ASSUME NEW CONSTANT t PROVE TypeOK' => NumbersOK(t)'
<1>1. TypeOK => NumbersOK(t)
  BY NumbersHere
<1> QED
  BY <1>1, PTL

\* LiveInv says it of the sets that LiveTimesExact counts.
LEMMA LiveEqualIs ==
    ASSUME TypeOK, NEW t, LiveEqual(t)
    PROVE  Occurrences(live, t) + (IF pc = "record" /\ hold.time = t THEN 1 ELSE 0)
             = Occurrences(dq, t)
               + Cardinality({x \in InFlight : /\ x[1] # "hand"
                                               /\ At(x).time = t
                                               /\ x[1] = "thread" =>
                                                    wpc[x[2]] # "decrement"})
<1> DEFINE out == {x \in InFlight : /\ x[1] # "hand"
                                    /\ At(x).time = t
                                    /\ x[1] = "thread" => wpc[x[2]] # "decrement"}
<1>1. out = Places(FALSE, QqAt(t), BusyAt(t))
  <2>0. QqAt(t) = {i \in 1 .. Len(qq) : qq[i].time = t}
    BY ElementOfSeq DEF QqAt, PositionsOf, AtTime, TypeOK
  <2>1. ASSUME NEW x \in out PROVE x \in Places(FALSE, QqAt(t), BusyAt(t))
    BY <2>0 DEF InFlight, Places, BusyAt, At
  <2>2. ASSUME NEW x \in Places(FALSE, QqAt(t), BusyAt(t)) PROVE x \in out
    BY <2>0 DEF InFlight, Places, BusyAt, At
  <2> QED
    BY <2>1, <2>2
<1>2. NumbersOK(t)
  BY NumbersHere
<1>3. Cardinality(Places(FALSE, QqAt(t), BusyAt(t)))
        = (One(FALSE) + Cardinality(QqAt(t))) + Cardinality(BusyAt(t))
  BY <1>2, PlacesCount DEF NumbersOK
<1> HIDE DEF out
<1>4. Cardinality(out) = Cardinality(QqAt(t)) + Cardinality(BusyAt(t))
  <2>1. One(FALSE) = 0
    BY DEF One
  <2>2. Cardinality(QqAt(t)) \in Nat
    BY <1>2 DEF NumbersOK
  <2>3. Cardinality(out) = (0 + Cardinality(QqAt(t))) + Cardinality(BusyAt(t))
    BY <1>1, <1>3, <2>1
  <2> QED
    BY <2>2, <2>3
<1>5. Occurrences(live, t) = Cardinality(LiveAt(t)) /\ Occurrences(dq, t) = Cardinality(DqAt(t))
  <2>1. LiveAt(t) = {i \in 1 .. Len(live) : live[i] = t} /\ DqAt(t) = {i \in 1 .. Len(dq) : dq[i] = t}
    BY DEF LiveAt, DqAt, PositionsOf
  <2> QED
    BY <2>1 DEF Occurrences
<1>6. One(Unrecorded(t)) = IF pc = "record" /\ hold.time = t THEN 1 ELSE 0
  BY DEF One, Unrecorded
<1>7. Occurrences(live, t) + (IF pc = "record" /\ hold.time = t THEN 1 ELSE 0)
        = Occurrences(dq, t) + Cardinality(out)
  BY <1>4, <1>5, <1>6 DEF LiveEqual
<1> QED
  BY <1>7 DEF out

\* A time inserted among the live times, or retired from them.
LEMMA LiveGains ==
    ASSUME TypeOK, NEW v \in TimeRange, NEW i \in LiveIndex(v), NEW t,
           live' = Splice(live, i, <<v>>)
    PROVE  Cardinality(LiveAt(t)') = Cardinality(LiveAt(t)) + One(v = t)
<1>1. i \in 0 .. Len(live) /\ live \in Seq(TimeRange)
  BY FoundIndexInRange DEF LiveIndex, TypeOK
<1>2. PICK s \in Seq(TimeRange) : s = <<v>>
  <2>1. <<v>> \in Seq(TimeRange)
    OBVIOUS
  <2> QED
    BY <2>1
<1>3. Cardinality(PositionsOf(Splice(live, i, s), {t}))
        = Cardinality(PositionsOf(live, {t})) + Cardinality(PositionsOf(s, {t}))
  BY <1>1, CountSpliced
<1>4. Cardinality(PositionsOf(<<v>>, {t})) = One(v = t)
  BY CountSingle DEF One
<1> QED
  BY <1>2, <1>3, <1>4 DEF LiveAt

\* Retiring a time takes one of its live times away.
LEMMA LiveLoses ==
    ASSUME TypeOK, NEW v, NEW t, live' = Retire(live, v), LiveAt(v) # {}
    PROVE  Cardinality(LiveAt(t)) = Cardinality(LiveAt(t)') + One(v = t)
<1> DEFINE m == Len(live)
           at == {i \in 1 .. m : live[i] = v /\ \A j \in 1 .. (i - 1) : live[j] # v}
<1>1. m \in Nat /\ live \in Seq(TimeRange)
  BY LenProperties DEF TypeOK
<1>2. LiveAt(v) # {} /\ LiveAt(v) = {i \in 1 .. m : live[i] = v}
  BY DEF LiveAt, PositionsOf
<1>3. at # {}
  <2>1. PICK i \in LiveAt(v) : \A j \in LiveAt(v) : i <= j
    <3>1. LiveAt(v) \in SUBSET Nat
      BY <1>2
    <3> QED
      BY <1>2, <3>1, LeastOfSet
  <2>2. i \in 1 .. m /\ live[i] = v
    BY <1>2, <2>1
  <2>3. \A j \in 1 .. (i - 1) : live[j] # v
    BY <1>1, <1>2, <2>1, <2>2
  <2> QED
    BY <2>2, <2>3
<1>4. PICK k \in 1 .. m : live[k] = v /\ live' = RemoveAt(live, k)
  BY <1>3 DEF Retire
<1>5. Cardinality(PositionsOf(live, {t}))
        = Cardinality(PositionsOf(RemoveAt(live, k), {t})) + One(live[k] \in {t})
  BY <1>1, <1>4, CountErased
<1> QED
  BY <1>4, <1>5 DEF LiveAt, One

\* What is put at the end of a lock-free queue, and what is taken from its head.
LEMMA DqGains ==
    ASSUME TypeOK, NEW v \in TimeRange, NEW t, dq' = Append(dq, v)
    PROVE  Cardinality(DqAt(t)') = Cardinality(DqAt(t)) + One(v = t)
<1>1. Cardinality(PositionsOf(Append(dq, v), {t}))
        = Cardinality(PositionsOf(dq, {t})) + One(v \in {t})
  BY CountAppended DEF TypeOK
<1> QED
  BY <1>1 DEF DqAt, One

\* What leaves dq is its head,
LEMMA DqLoses ==
    ASSUME TypeOK, dq # <<>>, NEW t, dq' = Tail(dq)
    PROVE  Cardinality(DqAt(t)) = Cardinality(DqAt(t)') + One(Head(dq) = t)
<1>1. Cardinality(PositionsOf(dq, {t}))
        = Cardinality(PositionsOf(Tail(dq), {t})) + One(dq[1] \in {t})
      /\ Head(dq) = dq[1]
  BY CountTail DEF TypeOK
<1> QED
  BY <1>1 DEF DqAt, One

\* what is pushed is one more of its time in qq,
LEMMA QqGains ==
    ASSUME TypeOK, NEW v \in Captured, NEW t, qq' = Append(qq, v)
    PROVE  Cardinality(QqAt(t)') = Cardinality(QqAt(t)) + One(v.time = t)
<1>1. Cardinality(PositionsOf(Append(qq, v), AtTime(t)))
        = Cardinality(PositionsOf(qq, AtTime(t))) + One(v \in AtTime(t))
  BY CountAppended DEF TypeOK
<1>2. v \in AtTime(t) <=> v.time = t
  BY DEF AtTime
<1> QED
  BY <1>1, <1>2 DEF QqAt, One

\* and what is popped is one less.
LEMMA QqLoses ==
    ASSUME TypeOK, qq # <<>>, NEW t, qq' = Tail(qq)
    PROVE  Cardinality(QqAt(t)) = Cardinality(QqAt(t)') + One(Head(qq).time = t)
<1>1. Cardinality(PositionsOf(qq, AtTime(t)))
        = Cardinality(PositionsOf(Tail(qq), AtTime(t))) + One(qq[1] \in AtTime(t))
      /\ Head(qq) = qq[1] /\ qq[1] \in Captured
  BY CountTail DEF TypeOK
<1>2. qq[1] \in AtTime(t) <=> Head(qq).time = t
  BY <1>1 DEF AtTime
<1> QED
  BY <1>1, <1>2 DEF QqAt, One

\* A step that moves no time.
LEMMA LiveQuiet ==
    ASSUME NEW t, LiveEqual(t), UNCHANGED <<qq, dq, live, eh>>,
           Unrecorded(t)' <=> Unrecorded(t),
           \A w \in Workers : eh[w] # NoPair =>
               (wpc'[w] = "decrement" <=> wpc[w] = "decrement")
    PROVE  LiveEqual(t)'
<1>1. BusyAt(t)' = BusyAt(t)
  BY DEF BusyAt
<1>2. LiveAt(t)' = LiveAt(t) /\ DqAt(t)' = DqAt(t) /\ QqAt(t)' = QqAt(t)
  BY DEF LiveAt, DqAt, QqAt
<1>3. One(Unrecorded(t)') = One(Unrecorded(t))
  BY DEF One
<1> QED
  BY <1>1, <1>2, <1>3 DEF LiveEqual

\* Waking a thread moves no pair.
LEMMA NotifyKeepsBusy ==
    ASSUME TypeOK, NotifyOne \/ NotifyAll
    PROVE  \A w \in Workers : wpc'[w] = "decrement" <=> wpc[w] = "decrement"
<1>1. CASE NotifyAll
  BY <1>1 DEF NotifyAll, Waiting
<1>2. CASE NotifyOne
  BY <1>2 DEF NotifyOne, Waiting, TypeOK
<1> QED
  BY <1>1, <1>2

\* Every step of the block's thread keeps the account of the live times, when a
\* full qq makes it wait.
LEMMA LiveWorkStep ==
    ASSUME TypeOK, TypeOK', opt.congestion = "BLOCK",
           \A u \in TimeRange : LiveEqual(u), WorkStep \/ UserStops, NEW t \in TimeRange
    PROVE  LiveEqual(t)'
<1> USE DEF vars, streamVars, blockVars, queueVars, poolVars
<1>1. LiveEqual(t) /\ NumbersOK(t) /\ NumbersOK(t)'
  BY NumbersHere, NumbersNext
<1>0. /\ Cardinality(LiveAt(t)) \in Nat /\ Cardinality(LiveAt(t)') \in Nat
      /\ Cardinality(DqAt(t)) \in Nat /\ Cardinality(DqAt(t)') \in Nat
      /\ Cardinality(QqAt(t)) \in Nat /\ Cardinality(QqAt(t)') \in Nat
      /\ Cardinality(BusyAt(t)) \in Nat /\ Cardinality(BusyAt(t)') \in Nat
  BY <1>1 DEF NumbersOK
<1>2. CASE Push
  <2>1. /\ hold \in Captured /\ qq' = Append(qq, hold) /\ pc = "push" /\ pc' = "record"
        /\ UNCHANGED <<dq, live, eh, wpc, hold>>
    BY <1>2 DEF Push, TypeOK
  <2>2. Cardinality(QqAt(t)') = Cardinality(QqAt(t)) + One(hold.time = t)
    BY <2>1, QqGains
  <2>3. One(Unrecorded(t)) = 0 /\ One(Unrecorded(t)') = One(hold.time = t)
        /\ One(hold.time = t) \in Nat
    BY <2>1 DEF One, Unrecorded
  <2>4. LiveAt(t)' = LiveAt(t) /\ DqAt(t)' = DqAt(t) /\ BusyAt(t)' = BusyAt(t)
    BY <2>1 DEF LiveAt, DqAt, BusyAt
  <2> QED
    BY <1>0, <1>1, <2>2, <2>3, <2>4 DEF LiveEqual
<1>3. CASE Record
  <2>1. /\ hold \in Captured /\ hold.time \in TimeRange /\ pc = "record" /\ pc' = "fetch"
        /\ NotifyOne /\ UNCHANGED <<qq, dq, eh>>
    BY <1>3 DEF Record, TypeOK, Captured
  <2>2. PICK i \in LiveIndex(hold.time) : live' = Splice(live, i, <<hold.time>>)
    BY <1>3 DEF Record
  <2>3. Cardinality(LiveAt(t)') = Cardinality(LiveAt(t)) + One(hold.time = t)
    BY <2>1, <2>2, LiveGains
  <2>4. One(Unrecorded(t)') = 0 /\ One(Unrecorded(t)) = One(hold.time = t)
        /\ One(hold.time = t) \in Nat
    BY <2>1 DEF One, Unrecorded
  <2>5. QqAt(t)' = QqAt(t) /\ DqAt(t)' = DqAt(t)
    BY <2>1 DEF QqAt, DqAt
  <2>6. BusyAt(t)' = BusyAt(t)
    BY <2>1, NotifyKeepsBusy DEF BusyAt
  <2> QED
    BY <1>0, <1>1, <2>3, <2>4, <2>5, <2>6 DEF LiveEqual
<1>4. CASE RetireOne
  <2>1. /\ dq # <<>> /\ dq' = Tail(dq) /\ live' = Retire(live, Head(dq)) /\ pc = "retire"
        /\ pc' = pc /\ UNCHANGED <<hold, qq, eh, wpc>>
    BY <1>4 DEF RetireOne
  <2> DEFINE h == Head(dq)
  <2>2. h \in TimeRange
    BY <2>1, HeadTailProperties DEF TypeOK
  <2>3. Cardinality(DqAt(t)) = Cardinality(DqAt(t)') + One(h = t)
    BY <2>1, DqLoses
  <2>4. LiveAt(h) # {}
    <3>1. LiveEqual(h) /\ NumbersOK(h)
      BY <2>2, NumbersHere
    <3>2. 1 \in DqAt(h)
      <4>1. dq[1] = h /\ 1 \in 1 .. Len(dq)
        BY <2>1, CountTail DEF TypeOK
      <4> QED
        BY <4>1 DEF DqAt, PositionsOf
    <3>3. Cardinality(DqAt(h)) # 0
      BY <3>1, <3>2, FS_EmptySet DEF NumbersOK
    <3>4. One(Unrecorded(h)) = 0
      BY <2>1 DEF One, Unrecorded
    <3>5. Cardinality(LiveAt(h)) # 0
      BY <3>1, <3>3, <3>4 DEF LiveEqual, NumbersOK
    <3> QED
      BY <3>5, FS_EmptySet
  <2> HIDE DEF h
  <2>5. Cardinality(LiveAt(t)) = Cardinality(LiveAt(t)') + One(h = t)
    BY <2>1, <2>4, LiveLoses DEF h
  <2>6. One(Unrecorded(t)') = 0 /\ One(Unrecorded(t)) = 0 /\ One(h = t) \in Nat
    BY <2>1 DEF One, Unrecorded
  <2>7. QqAt(t)' = QqAt(t) /\ BusyAt(t)' = BusyAt(t)
    BY <2>1 DEF QqAt, BusyAt
  <2> QED
    BY <1>0, <1>1, <2>3, <2>5, <2>6, <2>7 DEF LiveEqual
<1>5. CASE Consume \/ WaitNotify \/ StopThread
  <2>1. UNCHANGED <<qq, dq, live, eh>> /\ pc # "record" /\ pc' # "record"
    BY <1>5 DEF Consume, WaitNotify, StopThread
  <2>2. \A w \in Workers : wpc'[w] = "decrement" <=> wpc[w] = "decrement"
    BY <1>5, NotifyKeepsBusy DEF Consume, WaitNotify, StopThread
  <2> QED
    BY <1>1, <2>1, <2>2, LiveQuiet DEF Unrecorded
<1>6. CASE \/ WorkBegin \/ RetireNone \/ FetchDiscard \/ FetchBalk \/ FetchTake \/ FetchNone
           \/ WaitDone \/ Return \/ BeginStop \/ Joined
  <2>1. UNCHANGED <<qq, dq, live, eh, wpc>> /\ pc # "record" /\ pc' # "record"
    BY <1>6 DEF WorkBegin, RetireNone, FetchDiscard, FetchBalk, FetchTake, FetchNone,
                SearchAllowed, WaitDone, Return, BeginStop, Joined
  <2> QED
    BY <1>1, <2>1, LiveQuiet DEF Unrecorded
<1>7. ~Drop
  BY DEF Drop
<1> QED
  BY <1>2, <1>3, <1>4, <1>5, <1>6, <1>7 DEF WorkStep, StreamEnds, UserStops

\* Every step of a handler thread keeps it.
LEMMA LiveWorkerStep ==
    ASSUME TypeOK, TypeOK', NEW t \in TimeRange, LiveEqual(t), NEW w \in Workers,
           WorkerStep(w) \/ SpuriousWake(w)
    PROVE  LiveEqual(t)'
<1> USE DEF vars, streamVars, blockVars, queueVars, poolVars
<1>1. NumbersOK(t) /\ NumbersOK(t)'
  BY NumbersHere, NumbersNext
<1>0. /\ Cardinality(LiveAt(t)) \in Nat /\ Cardinality(LiveAt(t)') \in Nat
      /\ Cardinality(DqAt(t)) \in Nat /\ Cardinality(DqAt(t)') \in Nat
      /\ Cardinality(QqAt(t)) \in Nat /\ Cardinality(QqAt(t)') \in Nat
      /\ Cardinality(BusyAt(t)) \in Nat /\ Cardinality(BusyAt(t)') \in Nat
  BY <1>1 DEF NumbersOK
<1>2. CASE Pop(w)
  <2>1. /\ qq # <<>> /\ qq' = Tail(qq) /\ Head(qq) \in Captured /\ Head(qq) # NoPair
        /\ eh[w] = NoPair /\ \A v \in Workers : /\ eh'[v] = IF v = w THEN Head(qq) ELSE eh[v]
                                              /\ wpc'[v] = IF v = w THEN "run" ELSE wpc[v]
        /\ UNCHANGED <<dq, live, hold, pc>>
    BY <1>2, HeadTailProperties, NoPairIsNone, SMTT(30) DEF Pop, Goto, TypeOK
  <2>2. Cardinality(QqAt(t)) = Cardinality(QqAt(t)') + One(Head(qq).time = t)
    BY <2>1, QqLoses
  <2>3. /\ w \notin BusyAt(t) /\ (w \in BusyAt(t)' <=> Head(qq).time = t)
        /\ \A v \in Workers \ {w} : v \in BusyAt(t)' <=> v \in BusyAt(t)
    BY <2>1 DEF BusyAt
  <2>4. Cardinality(BusyAt(t)') = Cardinality(BusyAt(t)) + One(w \in BusyAt(t)')
    BY <2>3, OneMoreThread DEF BusyAt
  <2>5. One(w \in BusyAt(t)') = One(Head(qq).time = t) /\ One(Head(qq).time = t) \in Nat
    BY <2>3 DEF One
  <2>6. LiveAt(t)' = LiveAt(t) /\ DqAt(t)' = DqAt(t)
        /\ One(Unrecorded(t)') = One(Unrecorded(t))
    BY <2>1 DEF LiveAt, DqAt, Unrecorded
  <2> QED
    BY <1>0, <1>1, <2>2, <2>4, <2>5, <2>6 DEF LiveEqual
<1>3. CASE PostTime(w)
  <2>1. /\ eh[w] \in Captured /\ eh[w] # NoPair /\ dq' = Append(dq, eh[w].time)
        /\ wpc[w] = "post" /\ \A v \in Workers : wpc'[v] = IF v = w THEN "decrement" ELSE wpc[v]
        /\ UNCHANGED <<qq, live, hold, pc, eh>>
    BY <1>3 DEF PostTime, Goto, TypeOK
  <2>2. Cardinality(DqAt(t)') = Cardinality(DqAt(t)) + One(eh[w].time = t)
    <3>1. eh[w].time \in TimeRange
      BY <2>1 DEF Captured
    <3> QED
      BY <2>1, <3>1, DqGains
  <2>3. /\ w \notin BusyAt(t)' /\ (w \in BusyAt(t) <=> eh[w].time = t)
        /\ \A v \in Workers \ {w} : v \in BusyAt(t)' <=> v \in BusyAt(t)
    BY <2>1 DEF BusyAt
  <2>4. Cardinality(BusyAt(t)) = Cardinality(BusyAt(t)') + One(w \in BusyAt(t))
    BY <2>3, OneMoreThread DEF BusyAt
  <2>5. One(w \in BusyAt(t)) = One(eh[w].time = t) /\ One(eh[w].time = t) \in Nat
    BY <2>3 DEF One
  <2>6. LiveAt(t)' = LiveAt(t) /\ QqAt(t)' = QqAt(t)
        /\ One(Unrecorded(t)') = One(Unrecorded(t))
    BY <2>1 DEF LiveAt, QqAt, Unrecorded
  <2> QED
    BY <1>0, <1>1, <2>2, <2>4, <2>5, <2>6 DEF LiveEqual
<1>4. CASE Decrement(w)
  <2>1. /\ \A v \in Workers : /\ eh'[v] = IF v = w THEN NoPair ELSE eh[v]
                              /\ wpc'[v] = IF v = w THEN "pop" ELSE wpc[v]
        /\ wpc[w] = "decrement" /\ UNCHANGED <<qq, dq, live, hold, pc>>
    BY <1>4 DEF Decrement, Goto, TypeOK
  <2>2. BusyAt(t)' = BusyAt(t)
    BY <2>1 DEF BusyAt
  <2>3. LiveAt(t)' = LiveAt(t) /\ QqAt(t)' = QqAt(t) /\ DqAt(t)' = DqAt(t)
        /\ One(Unrecorded(t)') = One(Unrecorded(t))
    BY <2>1 DEF LiveAt, QqAt, DqAt, Unrecorded
  <2> QED
    BY <2>2, <2>3 DEF LiveEqual
<1>5. CASE Check(w) \/ EnterWait(w) \/ SpuriousWake(w) \/ PopNothing(w) \/ Run(w)
  <2>1. /\ UNCHANGED <<qq, dq, live, eh, hold, pc>>
        /\ \A v \in Workers : wpc'[v] = "decrement" <=> wpc[v] = "decrement"
    BY <1>5, SMTT(30) DEF Check, EnterWait, SpuriousWake, PopNothing, Run, Goto, TypeOK
  <2> QED
    BY <2>1, LiveQuiet DEF Unrecorded
<1> QED
  BY <1>2, <1>3, <1>4, <1>5 DEF WorkerStep

\* Every step keeps the live times in balance.
LEMMA LiveStep == TypeOK /\ TypeOK' /\ LiveInv /\ [Next]_vars => LiveInv'
<1> SUFFICES ASSUME TypeOK, TypeOK', LiveInv, [Next]_vars, opt'.congestion = "BLOCK",
                    NEW t \in TimeRange
             PROVE  LiveEqual(t)'
  BY DEF LiveInv
<1>1. opt.congestion = "BLOCK" /\ \A u \in TimeRange : LiveEqual(u)
  BY OptStays DEF LiveInv
<1>2. CASE WorkStep \/ UserStops
  BY <1>1, <1>2, LiveWorkStep
<1>3. ASSUME NEW w \in Workers, WorkerStep(w) \/ SpuriousWake(w) PROVE LiveEqual(t)'
  BY <1>1, <1>3, LiveWorkerStep
<1>4. CASE UNCHANGED <<qq, dq, live, eh, wpc, hold, pc>>
  BY <1>1, <1>4, LiveQuiet DEF Unrecorded
<1>5. ASSUME NEW n \in 1 .. MaxIn, Produce(n) PROVE LiveEqual(t)'
  BY <1>4, <1>5 DEF Produce, blockVars, poolVars
<1>6. CASE AddEvent
  BY <1>4, <1>6 DEF AddEvent, AddByMessage, CallerAdds, blockVars, poolVars
<1>7. ASSUME NEW e \in Events, CallerLocks(e) PROVE LiveEqual(t)'
  BY <1>4, <1>7 DEF CallerLocks, blockVars, poolVars
<1>8. CASE UNCHANGED vars
  BY <1>4, <1>8 DEF vars, blockVars, poolVars
<1> QED
  BY <1>2, <1>3, <1>5, <1>6, <1>7, <1>8 DEF Next

\* When a full qq makes work() wait, it holds samples back for exactly the pairs
\* that are in qq or being run: a time is posted for every live time, and a live
\* time is there for every time that is posted.
THEOREM LiveTimesAlwaysExact == Spec => []LiveTimesBlock
<1>1. Init => LiveInv
  <2> SUFFICES ASSUME Init, NEW t \in TimeRange PROVE LiveEqual(t)
    BY DEF LiveInv
  <2>1. LiveAt(t) = {} /\ DqAt(t) = {} /\ QqAt(t) = {} /\ BusyAt(t) = {} /\ ~Unrecorded(t)
    BY DEF Init, LiveAt, DqAt, QqAt, PositionsOf, BusyAt, Unrecorded
  <2> QED
    BY <2>1, FS_EmptySet DEF LiveEqual, One
<1>2. TypeOK /\ LiveInv => LiveTimesBlock
  <2> SUFFICES ASSUME TypeOK, LiveInv, opt.congestion = "BLOCK", NEW t \in EventTimes
               PROVE  Occurrences(live, t) + (IF pc = "record" /\ hold.time = t THEN 1 ELSE 0)
                        = Occurrences(dq, t)
                          + Cardinality({x \in InFlight : /\ x[1] # "hand"
                                                          /\ At(x).time = t
                                                          /\ x[1] = "thread" =>
                                                               wpc[x[2]] # "decrement"})
    BY DEF LiveTimesBlock, LiveTimesExact
  <2>1. LiveEqual(t)
    BY Constants DEF LiveInv
  <2> QED
    BY <2>1, LiveEqualIs
<1>3. TypeOK /\ TypeOK' /\ LiveInv /\ [Next]_vars => LiveInv'
  BY LiveStep
<1> QED
  BY <1>1, <1>2, <1>3, TypeCorrect, PTL DEF Spec

-----------------------------------------------------------------------------
(* Every pair in exactly one place.                                        *)

PairOf(id)   == {p \in Pair : IdOf(p) = id}
CaughtOf(id) == {c \in Captured : IdOf(c) = id}

QueueOf(id) == PositionsOf(queue, PairOf(id))
InHand(id)  == pc = "push" /\ IdOf(hold) = id
QqOf(id)    == PositionsOf(qq, CaughtOf(id))
RunOf(id)   == {w \in Workers : eh[w] # NoPair /\ IdOf(eh[w]) = id /\ wpc[w] = "run"}
Ended(id)   == One(id \in discarded) + (One(id \in dropped) + One(id \in handled))

Total(id) ==
    Cardinality(QueueOf(id))
      + ((One(InHand(id)) + Cardinality(QqOf(id))) + Cardinality(RunOf(id)))
      + Ended(id)

Binds(e, h) == \E k \in 1 .. Len(HandlersOf[e]) : HandlersOf[e][k] = h

Due(id) == id[1] \in added /\ Binds(id[1], id[2])

\* A pair is in one place once its event is added, and in none before; the event
\* a caller is about to add was not added before.
OnceInv ==
    /\ lock \in Events => lock \notin added
    /\ \A id \in PairIds : Total(id) = One(Due(id))

PlacesOK(id) ==
    /\ IsFiniteSet(QueueOf(id)) /\ Cardinality(QueueOf(id)) \in Nat
    /\ QqOf(id) \in SUBSET (1 .. Len(qq)) /\ Len(qq) \in Nat
    /\ IsFiniteSet(QqOf(id)) /\ Cardinality(QqOf(id)) \in Nat
    /\ RunOf(id) \in SUBSET Workers
    /\ IsFiniteSet(RunOf(id)) /\ Cardinality(RunOf(id)) \in Nat

\* The numbers of a pair in its places are numbers ...
LEMMA PlacesHere == ASSUME NEW id PROVE TypeOK => PlacesOK(id)
<1> SUFFICES ASSUME TypeOK PROVE PlacesOK(id)
  OBVIOUS
<1>1. queue \in Seq(Pair) /\ qq \in Seq(Captured)
  BY DEF TypeOK
<1>2. NThreads \in Nat /\ RunOf(id) \in SUBSET (1 .. NThreads)
  BY Constants DEF RunOf, Workers
<1>3. IsFiniteSet(RunOf(id)) /\ Cardinality(RunOf(id)) \in Nat
  BY <1>2, PositionsFinite
<1> QED
  BY <1>1, <1>2, <1>3, PositionsType DEF PlacesOK, QueueOf, QqOf, RunOf

\* ... also after a step.
LEMMA PlacesNext == ASSUME NEW CONSTANT id PROVE TypeOK' => PlacesOK(id)'
<1>1. TypeOK => PlacesOK(id)
  BY PlacesHere
<1> QED
  BY <1>1, PTL

\* OnceInv counts what ExactlyOnce does.
LEMMA TotalIs ==
    ASSUME TypeOK, NEW id
    PROVE  Cardinality({i \in 1 .. Len(queue) : IdOf(queue[i]) = id})
             + Cardinality({x \in InFlight : /\ IdOf(At(x)) = id
                                             /\ x[1] = "thread" => wpc[x[2]] = "run"})
             + Cardinality({S \in {<<"a", discarded>>, <<"b", dropped>>,
                                   <<"c", handled>>} : id \in S[2]})
             = Total(id)
<1> DEFINE fly == {x \in InFlight : /\ IdOf(At(x)) = id
                                    /\ x[1] = "thread" => wpc[x[2]] = "run"}
           wait == {i \in 1 .. Len(queue) : IdOf(queue[i]) = id}
           ends == {S \in {<<"a", discarded>>, <<"b", dropped>>, <<"c", handled>>} :
                       id \in S[2]}
<1>1. wait = QueueOf(id)
  BY ElementOfSeq DEF QueueOf, PositionsOf, PairOf, TypeOK
<1>2. fly = Places(InHand(id), QqOf(id), RunOf(id))
  <2>1. QqOf(id) = {i \in 1 .. Len(qq) : IdOf(qq[i]) = id}
    BY ElementOfSeq DEF QqOf, PositionsOf, CaughtOf, TypeOK
  <2>2. ASSUME NEW x \in fly PROVE x \in Places(InHand(id), QqOf(id), RunOf(id))
    BY <2>1 DEF InFlight, Places, InHand, RunOf, At
  <2>3. ASSUME NEW x \in Places(InHand(id), QqOf(id), RunOf(id)) PROVE x \in fly
    BY <2>1 DEF InFlight, Places, InHand, RunOf, At
  <2> QED
    BY <2>2, <2>3
<1>3. Cardinality(fly) = (One(InHand(id)) + Cardinality(QqOf(id))) + Cardinality(RunOf(id))
  <2>1. PlacesOK(id) /\ InHand(id) \in BOOLEAN
    BY PlacesHere DEF InHand
  <2> HIDE DEF fly
  <2> QED
    BY <1>2, <2>1, PlacesCount DEF PlacesOK
<1>4. Cardinality(ends) = Ended(id)
  <2> DEFINE a == IF id \in discarded THEN {<<"a", discarded>>} ELSE {}
             b == IF id \in dropped THEN {<<"b", dropped>>} ELSE {}
             c == IF id \in handled THEN {<<"c", handled>>} ELSE {}
  <2>1. ends = a \cup (b \cup c)
    OBVIOUS
  <2>2. (\A x \in a : x \notin b \cup c) /\ (\A x \in b : x \notin c)
    OBVIOUS
  <2>3. IsFiniteSet(a) /\ Cardinality(a) = One(id \in discarded)
    BY FS_Singleton, FS_EmptySet DEF One
  <2>4. IsFiniteSet(b) /\ Cardinality(b) = One(id \in dropped)
    BY FS_Singleton, FS_EmptySet DEF One
  <2>5. IsFiniteSet(c) /\ Cardinality(c) = One(id \in handled)
    BY FS_Singleton, FS_EmptySet DEF One
  <2> HIDE DEF a, b, c, ends
  <2>6. IsFiniteSet(b \cup c) /\ Cardinality(b \cup c) = One(id \in dropped) + One(id \in handled)
    BY <2>2, <2>4, <2>5, Disjoint
  <2>7. Cardinality(a \cup (b \cup c)) = Cardinality(a) + Cardinality(b \cup c)
    BY <2>2, <2>3, <2>6, Disjoint
  <2> QED
    BY <2>1, <2>3, <2>6, <2>7 DEF Ended
<1> HIDE DEF wait, fly, ends
<1>5. (Cardinality(wait) + Cardinality(fly)) + Cardinality(ends) = Total(id)
  BY <1>1, <1>3, <1>4 DEF Total
<1> QED
  BY <1>5 DEF wait, fly, ends

\* An event added has one new pair for each handler bound to it.
LEMMA NewPairsOnce ==
    ASSUME NEW e \in Events, NEW t \in TimeRange, NEW n \in TimeRange, NEW id \in PairIds
    PROVE  Cardinality(PositionsOf(NewPairs(e, t, n), PairOf(id)))
             = One(id[1] = e /\ Binds(e, id[2]))
<1> DEFINE hs == HandlersOf[e]
           m == Len(hs)
           s == NewPairs(e, t, n)
<1>1. hs \in Seq(Handlers) /\ m \in Nat /\ \A j, k \in 1 .. m : hs[j] = hs[k] => j = k
  BY SinkAssumption, LenProperties DEF IsInjective
<1>2. /\ s \in Seq(Pair) /\ Len(s) = m
      /\ \A k \in 1 .. m : /\ s[k] \in Pair
                           /\ s[k].evt = e /\ s[k].hnd = hs[(m + 1) - k]
  <2>1. s \in Seq(Pair) /\ s = [k \in 1 .. m |-> [evt |-> e, hnd |-> hs[(m + 1) - k],
                                                  time |-> t, len |-> n]]
    BY NewPairsType DEF NewPairs
  <2>2. Len(s) = m
    BY <1>1, <2>1, LenProperties
  <2> QED
    BY <2>1, <2>2, ElementOfSeq
<1> HIDE DEF s
<1>3. PositionsOf(s, PairOf(id)) = {k \in 1 .. m : id[1] = e /\ id[2] = hs[(m + 1) - k]}
  <2>1. \A k \in 1 .. m : s[k] \in PairOf(id) <=> id[1] = e /\ id[2] = hs[(m + 1) - k]
    BY <1>2 DEF PairOf, IdOf, PairIds
  <2> QED
    BY <1>2, <2>1 DEF PositionsOf
<1>4. CASE id[1] = e /\ Binds(e, id[2])
  <2>1. PICK k \in 1 .. m : hs[k] = id[2]
    BY <1>4 DEF Binds
  <2>2. (m + 1) - k \in 1 .. m /\ (m + 1) - ((m + 1) - k) = k
    BY <1>1
  <2>3. \A j \in 1 .. m : (m + 1) - j \in 1 .. m /\ ((m + 1) - j = k => j = (m + 1) - k)
    BY <1>1
  <2> HIDE DEF hs, m
  <2>4. PositionsOf(s, PairOf(id)) = {(m + 1) - k}
    BY <1>1, <1>3, <1>4, <2>1, <2>2, <2>3
  <2> QED
    BY <1>4, <2>4, FS_Singleton DEF One, s
<1>5. CASE ~(id[1] = e /\ Binds(e, id[2]))
  <2>1. \A k \in 1 .. m : (m + 1) - k \in 1 .. m
    BY <1>1
  <2>2. PositionsOf(s, PairOf(id)) = {}
    BY <1>3, <1>5, <2>1 DEF Binds
  <2> QED
    BY <1>5, <2>2, FS_EmptySet DEF One, s
<1> QED
  BY <1>4, <1>5

\* ASAP gives the head another time and leaves it the pair it is.
LEMMA SearchedSame ==
    ASSUME TypeOK, NEW id
    PROVE  PositionsOf(Searched, PairOf(id)) = QueueOf(id)
<1>1. CASE HeadIsEarly(queue, MinTime(d_time)) /\ opt.early = "ASAP"
  <2> DEFINE s == [queue EXCEPT ![1].time = MinTime(d_time)]
  <2>1. Searched = s
    BY <1>1 DEF Searched, AsSoonAsPossible
  <2>2. Len(queue) \in Nat /\ queue # <<>> /\ 1 \in 1 .. Len(queue)
    BY <1>1, EmptySeq, LenProperties DEF TypeOK, HeadIsEarly
  <2>3. s \in Seq(Pair)
    BY <2>1, SearchedType
  <2>4. Len(s) = Len(queue)
    BY <2>2, <2>3, LenProperties DEF TypeOK
  <2>5. \A j \in 1 .. Len(queue) : /\ s[j] \in Pair /\ queue[j] \in Pair
                                   /\ s[j].evt = queue[j].evt /\ s[j].hnd = queue[j].hnd
    <3>1. \A j \in 1 .. Len(queue) : s[j] \in Pair /\ queue[j] \in Pair
      BY <2>3, <2>4, ElementOfSeq DEF TypeOK
    <3>2. s[1] = [queue[1] EXCEPT !.time = MinTime(d_time)]
      <4>1. DOMAIN queue = 1 .. Len(queue)
        BY LenProperties DEF TypeOK
      <4> QED
        BY <2>2, <4>1
    <3>3. s[1].evt = queue[1].evt /\ s[1].hnd = queue[1].hnd
      <4>1. queue[1] \in Pair
        BY <2>2, <3>1
      <4> HIDE DEF s
      <4> QED
        BY <3>2, <4>1 DEF Pair
    <3>4. \A j \in 1 .. Len(queue) : j # 1 => s[j] = queue[j]
      BY DEF TypeOK
    <3> QED
      BY <3>1, <3>3, <3>4
  <2> HIDE DEF s
  <2> QED
    BY <2>1, <2>4, <2>5 DEF QueueOf, PositionsOf, PairOf, IdOf
<1>2. CASE ~(HeadIsEarly(queue, MinTime(d_time)) /\ opt.early = "ASAP")
  BY <1>2 DEF Searched, QueueOf
<1> QED
  BY <1>1, <1>2

\* A step that moves no pair.
LEMMA OnceQuiet ==
    ASSUME NEW id, Total(id) = One(Due(id)),
           UNCHANGED <<queue, qq, eh, discarded, dropped, handled, added>>,
           InHand(id)' <=> InHand(id),
           \A w \in Workers : wpc'[w] = "run" <=> wpc[w] = "run"
    PROVE  Total(id)' = One(Due(id)')
<1>1. QueueOf(id)' = QueueOf(id) /\ QqOf(id)' = QqOf(id) /\ RunOf(id)' = RunOf(id)
  BY DEF QueueOf, QqOf, RunOf
<1>2. One(InHand(id)') = One(InHand(id)) /\ Ended(id)' = Ended(id) /\ Due(id)' = Due(id)
  BY DEF One, Ended, Due
<1> QED
  BY <1>1, <1>2 DEF Total

\* An event that is added gets its pairs, and had none before.
LEMMA OnceInsert ==
    ASSUME TypeOK, TypeOK', NEW e \in Events, NEW t \in EventTimes, NEW n \in EventLens,
           Insert(e, t, n), e \notin added,
           UNCHANGED <<pc, hold, qq, eh, wpc, discarded, dropped, handled>>,
           NEW id \in PairIds, Total(id) = One(Due(id))
    PROVE  Total(id)' = One(Due(id)')
<1>1. PlacesOK(id) /\ PlacesOK(id)'
  BY PlacesHere, PlacesNext
<1>2. PICK i \in FindIndex(opt.search, Times(queue), t) :
         queue' = Splice(queue, i, NewPairs(e, t, n))
  BY DEF Insert
<1>3. i \in 0 .. Len(queue)
  <2>1. \A p \in Pair : p.time \in Int
    BY PairTimes
  <2>2. Len(Times(queue)) = Len(queue)
    BY <2>1, TimesOfPairs DEF TypeOK
  <2> QED
    BY <1>2, <2>2, FoundIndexInRange
<1>4. t \in TimeRange /\ n \in TimeRange
  BY Constants
<1>5. NewPairs(e, t, n) \in Seq(Pair)
  BY <1>4, NewPairsType
<1>6. Cardinality(QueueOf(id)')
        = Cardinality(QueueOf(id)) + Cardinality(PositionsOf(NewPairs(e, t, n), PairOf(id)))
  <2>1. Cardinality(PositionsOf(Splice(queue, i, NewPairs(e, t, n)), PairOf(id)))
          = Cardinality(PositionsOf(queue, PairOf(id)))
            + Cardinality(PositionsOf(NewPairs(e, t, n), PairOf(id)))
    BY <1>3, <1>5, CountSpliced, SMTT(30) DEF TypeOK
  <2> QED
    BY <1>2, <2>1 DEF QueueOf
<1>7. Cardinality(PositionsOf(NewPairs(e, t, n), PairOf(id)))
        = One(id[1] = e /\ Binds(e, id[2]))
  BY <1>4, NewPairsOnce
<1>8. One(Due(id)') = One(Due(id)) + One(id[1] = e /\ Binds(e, id[2]))
  <2>1. added' = added \cup {e}
    BY DEF Insert
  <2> QED
    BY <2>1 DEF Due, One
<1>9. QqOf(id)' = QqOf(id) /\ RunOf(id)' = RunOf(id) /\ One(InHand(id)') = One(InHand(id))
      /\ Ended(id)' = Ended(id)
  BY DEF QqOf, RunOf, InHand, Ended, One
<1>0. /\ Cardinality(QueueOf(id)) \in Nat /\ Cardinality(QqOf(id)) \in Nat
      /\ Cardinality(RunOf(id)) \in Nat /\ One(InHand(id)) \in Nat /\ Ended(id) \in Nat
      /\ One(id[1] = e /\ Binds(e, id[2])) \in Nat
  BY <1>1 DEF PlacesOK, One, Ended
<1> QED
  BY <1>0, <1>6, <1>7, <1>8, <1>9 DEF Total

\* A pair that DISCARD drops was not dropped before, nor run.
LEMMA OnceDiscard ==
    ASSUME TypeOK, TypeOK', FetchDiscard, NEW id \in PairIds, Total(id) = One(Due(id))
    PROVE  Total(id)' = One(Due(id)')
<1> DEFINE x == IdOf(queue[1])
<1>1. /\ queue # <<>> /\ queue' = Tail(queue) /\ discarded' = discarded \cup {x}
      /\ UNCHANGED <<pc, hold, qq, eh, wpc, dropped, handled, added>>
  BY DEF FetchDiscard, HeadIsEarly, blockVars, poolVars
<1>2. Cardinality(QueueOf(id)) = Cardinality(QueueOf(id)') + One(x = id)
  <2>1. /\ Cardinality(QueueOf(id)) = Cardinality(QueueOf(id)') + One(queue[1] \in PairOf(id))
        /\ queue[1] \in Pair
    BY <1>1, CountTail, SMTT(30) DEF QueueOf, TypeOK
  <2>2. queue[1] \in PairOf(id) <=> x = id
    BY <2>1 DEF PairOf
  <2> QED
    BY <2>1, <2>2 DEF One
<1> HIDE DEF x
<1>3. QqOf(id)' = QqOf(id) /\ RunOf(id)' = RunOf(id) /\ One(InHand(id)') = One(InHand(id))
      /\ One(Due(id)') = One(Due(id))
  BY <1>1 DEF QqOf, RunOf, InHand, Due, One
<1>4. One(id \in dropped') = One(id \in dropped) /\ One(id \in handled') = One(id \in handled)
  BY <1>1
<1>0. /\ Cardinality(QueueOf(id)) \in Nat /\ Cardinality(QueueOf(id)') \in Nat
      /\ Cardinality(QqOf(id)) \in Nat
      /\ Cardinality(RunOf(id)) \in Nat /\ One(InHand(id)) \in Nat
      /\ One(id \in discarded) \in Nat /\ One(id \in dropped) \in Nat /\ One(id \in handled) \in Nat
      /\ One(Due(id)) <= 1
  BY PlacesHere, PlacesNext DEF PlacesOK, One
<1>5. CASE x = id
  <2>1. id \in discarded'
    BY <1>1, <1>5
  <2>2. One(id \in discarded') = 1 /\ One(x = id) = 1
    BY <1>5, <2>1 DEF One
  <2> QED
    BY <1>0, <1>2, <1>3, <1>4, <2>2 DEF Total, Ended
<1>6. CASE x # id
  <2>1. id \in discarded' <=> id \in discarded
    BY <1>1, <1>6
  <2>2. One(id \in discarded') = One(id \in discarded) /\ One(x = id) = 0
    BY <1>6, <2>1 DEF One
  <2> QED
    BY <1>0, <1>2, <1>3, <1>4, <2>2 DEF Total, Ended
<1> QED
  BY <1>5, <1>6

\* The search takes a pair from the queue into the hand, or nothing.
LEMMA OnceFetch ==
    ASSUME TypeOK, TypeOK', FetchTake \/ FetchNone, NEW id \in PairIds,
           Total(id) = One(Due(id))
    PROVE  Total(id)' = One(Due(id)')
<1>1. /\ pc = "fetch" /\ UNCHANGED <<qq, eh, wpc, discarded, dropped, handled, added>>
  BY DEF FetchTake, FetchNone, SearchAllowed, blockVars, poolVars
<1>2. PositionsOf(Searched, PairOf(id)) = QueueOf(id) /\ Searched \in Seq(Pair)
  BY SearchedSame, SearchedType
<1>3. Cardinality(QueueOf(id)) = Cardinality(QueueOf(id)') + One(InHand(id)')
  <2>1. CASE FetchTake
    <3>1. PICK i \in FirstFit(Searched, produced) :
             hold' = Capture(Searched[i]) /\ queue' = RemoveAt(Searched, i)
      BY <2>1 DEF FetchTake
    <3>2. i \in 1 .. Len(Searched)
      BY DEF FirstFit
    <3>3. Cardinality(PositionsOf(Searched, PairOf(id)))
            = Cardinality(PositionsOf(RemoveAt(Searched, i), PairOf(id)))
              + One(Searched[i] \in PairOf(id))
      BY <1>2, <3>2, CountErased
    <3>4. Searched[i] \in PairOf(id) <=> InHand(id)'
      <4>1. Searched[i] \in Pair
        BY <1>2, <3>2, ElementOfSeq
      <4>2. IdOf(hold') = IdOf(Searched[i]) /\ pc' = "push"
        BY <2>1, <3>1 DEF FetchTake, Capture, IdOf
      <4> QED
        BY <4>1, <4>2 DEF PairOf, InHand
    <3> QED
      BY <1>2, <3>1, <3>3, <3>4 DEF QueueOf, One
  <2>2. CASE FetchNone
    <3>1. queue' = Searched /\ pc' = "consume"
      BY <2>2 DEF FetchNone
    <3>2. Cardinality(QueueOf(id)) = Cardinality(QueueOf(id)') /\ One(InHand(id)') = 0
      BY <1>2, <3>1 DEF QueueOf, InHand, One
    <3>3. Cardinality(QueueOf(id)) \in Nat
      BY PlacesHere DEF PlacesOK
    <3> QED
      BY <3>2, <3>3
  <2> QED
    BY <2>1, <2>2
<1>4. QqOf(id)' = QqOf(id) /\ RunOf(id)' = RunOf(id) /\ One(InHand(id)) = 0
      /\ One(Due(id)') = One(Due(id)) /\ Ended(id)' = Ended(id)
  BY <1>1 DEF QqOf, RunOf, InHand, Due, Ended, One
<1>0. /\ Cardinality(QueueOf(id)) \in Nat /\ Cardinality(QueueOf(id)') \in Nat
      /\ Cardinality(QqOf(id)) \in Nat
      /\ Cardinality(RunOf(id)) \in Nat /\ One(InHand(id)') \in Nat /\ Ended(id) \in Nat
  BY PlacesHere, PlacesNext DEF PlacesOK, Ended, One
<1> QED
  BY <1>0, <1>3, <1>4 DEF Total

\* The pair in hand goes to qq, or is dropped.
LEMMA OncePush ==
    ASSUME TypeOK, TypeOK', Push \/ Drop, NEW id \in PairIds, Total(id) = One(Due(id))
    PROVE  Total(id)' = One(Due(id)')
<1>1. /\ pc = "push" /\ pc' = "record" /\ hold \in Captured
      /\ UNCHANGED <<queue, eh, wpc, discarded, handled, added>>
  BY DEF Push, Drop, TypeOK, queueVars
<1>2. QueueOf(id)' = QueueOf(id) /\ RunOf(id)' = RunOf(id) /\ One(Due(id)') = One(Due(id))
      /\ One(InHand(id)') = 0 /\ One(InHand(id)) = One(IdOf(hold) = id)
      /\ One(id \in discarded') = One(id \in discarded)
      /\ One(id \in handled') = One(id \in handled)
  BY <1>1 DEF QueueOf, RunOf, Due, InHand, One
<1>0. /\ Cardinality(QueueOf(id)) \in Nat
      /\ Cardinality(QqOf(id)) \in Nat /\ Cardinality(QqOf(id)') \in Nat
      /\ Cardinality(RunOf(id)) \in Nat /\ One(IdOf(hold) = id) \in Nat
      /\ One(id \in discarded) \in Nat /\ One(id \in dropped) \in Nat /\ One(id \in handled) \in Nat
      /\ One(Due(id)) <= 1
  BY PlacesHere, PlacesNext DEF PlacesOK, One
<1>3. CASE Push
  <2>1. qq' = Append(qq, hold) /\ dropped' = dropped
    BY <1>3 DEF Push
  <2>2. Cardinality(QqOf(id)') = Cardinality(QqOf(id)) + One(hold \in CaughtOf(id))
    BY <1>1, <2>1, CountAppended, SMTT(30) DEF QqOf, TypeOK
  <2>3. One(hold \in CaughtOf(id)) = One(IdOf(hold) = id)
    BY <1>1 DEF CaughtOf, One
  <2>4. One(id \in dropped') = One(id \in dropped)
    BY <2>1
  <2> QED
    BY <1>0, <1>2, <2>2, <2>3, <2>4 DEF Total, Ended
<1>4. CASE Drop
  <2>1. QqOf(id)' = QqOf(id)
    BY <1>4 DEF Drop, QqOf
  <2>2. One(id \in dropped') = IF IdOf(hold) = id THEN 1 ELSE One(id \in dropped)
    BY <1>4 DEF Drop, One
  <2>3. One(IdOf(hold) = id) = IF IdOf(hold) = id THEN 1 ELSE 0
    BY DEF One
  <2> QED
    BY <1>0, <1>2, <2>1, <2>2, <2>3 DEF Total, Ended
<1> QED
  BY <1>3, <1>4

\* A thread takes the pair at the head of qq.
LEMMA OncePop ==
    ASSUME TypeOK, TypeOK', NEW w \in Workers, Pop(w), NEW id \in PairIds,
           Total(id) = One(Due(id))
    PROVE  Total(id)' = One(Due(id)')
<1>1. /\ qq # <<>> /\ qq' = Tail(qq) /\ Head(qq) # NoPair
      /\ eh[w] = NoPair /\ \A v \in Workers : /\ eh'[v] = IF v = w THEN Head(qq) ELSE eh[v]
                                            /\ wpc'[v] = IF v = w THEN "run" ELSE wpc[v]
      /\ UNCHANGED <<queue, pc, hold, discarded, dropped, handled, added>>
  <2>1. UNCHANGED <<queue, pc, hold, discarded, dropped, handled, added>>
    BY DEF Pop, blockVars, queueVars
  <2>2. qq # <<>> /\ Head(qq) \in Captured
    BY HeadTailProperties DEF Pop, TypeOK
  <2>3. /\ qq' = Tail(qq) /\ eh[w] = NoPair
        /\ \A v \in Workers : /\ eh'[v] = IF v = w THEN Head(qq) ELSE eh[v]
                              /\ wpc'[v] = IF v = w THEN "run" ELSE wpc[v]
    BY DEF Pop, Goto, TypeOK
  <2> QED
    BY <2>1, <2>2, <2>3, NoPairIsNone
<1>2. Cardinality(QqOf(id)) = Cardinality(QqOf(id)') + One(IdOf(Head(qq)) = id)
  <2>1. /\ Cardinality(QqOf(id)) = Cardinality(QqOf(id)') + One(qq[1] \in CaughtOf(id))
        /\ Head(qq) = qq[1] /\ qq[1] \in Captured
    BY <1>1, CountTail, SMTT(30) DEF QqOf, TypeOK
  <2>2. qq[1] \in CaughtOf(id) <=> IdOf(Head(qq)) = id
    BY <2>1 DEF CaughtOf
  <2> QED
    BY <2>1, <2>2 DEF One
<1>3. Cardinality(RunOf(id)') = Cardinality(RunOf(id)) + One(IdOf(Head(qq)) = id)
  <2>1. /\ w \notin RunOf(id) /\ (w \in RunOf(id)' <=> IdOf(Head(qq)) = id)
        /\ \A v \in Workers \ {w} : v \in RunOf(id)' <=> v \in RunOf(id)
    BY <1>1 DEF RunOf
  <2>2. Cardinality(RunOf(id)') = Cardinality(RunOf(id)) + One(w \in RunOf(id)')
    BY <2>1, OneMoreThread DEF RunOf
  <2> QED
    BY <2>1, <2>2 DEF One
<1>4. QueueOf(id)' = QueueOf(id) /\ One(InHand(id)') = One(InHand(id))
      /\ One(Due(id)') = One(Due(id)) /\ Ended(id)' = Ended(id)
  BY <1>1 DEF QueueOf, InHand, Due, Ended, One
<1>0. /\ Cardinality(QueueOf(id)) \in Nat
      /\ Cardinality(QqOf(id)) \in Nat /\ Cardinality(QqOf(id)') \in Nat
      /\ Cardinality(RunOf(id)) \in Nat /\ Cardinality(RunOf(id)') \in Nat
      /\ One(InHand(id)) \in Nat /\ Ended(id) \in Nat /\ One(IdOf(Head(qq)) = id) \in Nat
  BY PlacesHere, PlacesNext DEF PlacesOK, Ended, One
<1> QED
  BY <1>0, <1>2, <1>3, <1>4 DEF Total

\* A pair that a thread runs was not run before.
LEMMA OnceRun ==
    ASSUME TypeOK, TypeOK', NEW w \in Workers, Run(w), NEW id \in PairIds,
           Total(id) = One(Due(id))
    PROVE  Total(id)' = One(Due(id)')
<1> DEFINE x == IdOf(eh[w])
<1>1. /\ eh[w] # NoPair /\ wpc[w] = "run" /\ handled' = handled \cup {x}
      /\ \A v \in Workers : wpc'[v] = IF v = w THEN "post" ELSE wpc[v]
      /\ UNCHANGED <<queue, pc, hold, qq, eh, discarded, dropped, added>>
  BY DEF Run, Goto, TypeOK, blockVars, queueVars
<1>2. Cardinality(RunOf(id)) = Cardinality(RunOf(id)') + One(x = id)
  <2>1. /\ w \notin RunOf(id)' /\ (w \in RunOf(id) <=> x = id)
        /\ \A v \in Workers \ {w} : v \in RunOf(id)' <=> v \in RunOf(id)
    BY <1>1 DEF RunOf
  <2>2. Cardinality(RunOf(id)) = Cardinality(RunOf(id)') + One(w \in RunOf(id))
    BY <2>1, OneMoreThread DEF RunOf
  <2> QED
    BY <2>1, <2>2 DEF One
<1> HIDE DEF x
<1>3. QueueOf(id)' = QueueOf(id) /\ QqOf(id)' = QqOf(id)
      /\ One(InHand(id)') = One(InHand(id)) /\ One(Due(id)') = One(Due(id))
  BY <1>1 DEF QueueOf, QqOf, InHand, Due, One
<1>4. One(id \in discarded') = One(id \in discarded) /\ One(id \in dropped') = One(id \in dropped)
  BY <1>1
<1>0. /\ Cardinality(QueueOf(id)) \in Nat /\ Cardinality(QqOf(id)) \in Nat
      /\ Cardinality(RunOf(id)) \in Nat /\ Cardinality(RunOf(id)') \in Nat
      /\ One(InHand(id)) \in Nat
      /\ One(id \in discarded) \in Nat /\ One(id \in dropped) \in Nat /\ One(id \in handled) \in Nat
      /\ One(Due(id)) <= 1
  BY PlacesHere, PlacesNext DEF PlacesOK, One
<1>5. CASE x = id
  <2>1. id \in handled'
    BY <1>1, <1>5
  <2>2. One(id \in handled') = 1 /\ One(x = id) = 1
    BY <1>5, <2>1 DEF One
  <2> QED
    BY <1>0, <1>2, <1>3, <1>4, <2>2 DEF Total, Ended
<1>6. CASE x # id
  <2>1. id \in handled' <=> id \in handled
    BY <1>1, <1>6
  <2>2. One(id \in handled') = One(id \in handled) /\ One(x = id) = 0
    BY <1>6, <2>1 DEF One
  <2> QED
    BY <1>0, <1>2, <1>3, <1>4, <2>2 DEF Total, Ended
<1> QED
  BY <1>5, <1>6

\* Waking a thread runs nothing.
LEMMA NotifyRunsNothing ==
    ASSUME TypeOK, NotifyOne \/ NotifyAll
    PROVE  \A w \in Workers : wpc'[w] = "run" <=> wpc[w] = "run"
<1>1. CASE NotifyAll
  BY <1>1 DEF NotifyAll, Waiting
<1>2. CASE NotifyOne
  BY <1>2 DEF NotifyOne, Waiting, TypeOK
<1> QED
  BY <1>1, <1>2

\* Every step of the block's thread keeps every pair in one place.
LEMMA OnceWorkStep ==
    ASSUME TypeOK, TypeOK', WorkStep \/ UserStops, NEW id \in PairIds,
           Total(id) = One(Due(id))
    PROVE  Total(id)' = One(Due(id)')
<1>1. CASE FetchDiscard
  BY <1>1, OnceDiscard
<1>2. CASE FetchTake \/ FetchNone
  BY <1>2, OnceFetch
<1>3. CASE Push \/ Drop
  BY <1>3, OncePush
<1>4. CASE Record \/ Consume \/ WaitNotify \/ StopThread
  <2>1. /\ UNCHANGED <<queue, qq, eh, discarded, dropped, handled, added>>
        /\ pc # "push" /\ pc' # "push"
    BY <1>4 DEF Record, Consume, WaitNotify, StopThread, blockVars, queueVars
  <2>2. \A w \in Workers : wpc'[w] = "run" <=> wpc[w] = "run"
    BY <1>4, NotifyRunsNothing DEF Record, Consume, WaitNotify, StopThread
  <2> QED
    BY <2>1, <2>2, OnceQuiet DEF InHand
<1>5. CASE \/ WorkBegin \/ RetireOne \/ RetireNone \/ FetchBalk \/ WaitDone \/ Return
           \/ BeginStop \/ Joined
  <2>1. /\ UNCHANGED <<queue, qq, eh, wpc, discarded, dropped, handled, added>>
        /\ pc # "push" /\ pc' # "push"
    BY <1>5 DEF WorkBegin, RetireOne, RetireNone, FetchBalk, WaitDone, Return, BeginStop,
                Joined, queueVars, poolVars
  <2> QED
    BY <2>1, OnceQuiet DEF InHand
<1> QED
  BY <1>1, <1>2, <1>3, <1>4, <1>5 DEF WorkStep, StreamEnds, UserStops

\* Every step of a handler thread keeps every pair in one place.
LEMMA OnceWorkerStep ==
    ASSUME TypeOK, TypeOK', NEW w \in Workers, WorkerStep(w) \/ SpuriousWake(w),
           NEW id \in PairIds, Total(id) = One(Due(id))
    PROVE  Total(id)' = One(Due(id)')
<1>1. CASE Pop(w)
  BY <1>1, OncePop
<1>2. CASE Run(w)
  BY <1>2, OnceRun
<1>3. CASE Check(w) \/ EnterWait(w) \/ SpuriousWake(w) \/ PopNothing(w) \/ PostTime(w)
  <2>1. UNCHANGED <<queue, qq, eh, discarded, dropped, handled, added, pc, hold>>
    BY <1>3 DEF Check, EnterWait, SpuriousWake, PopNothing, PostTime, blockVars, queueVars
  <2>2. \A v \in Workers : wpc'[v] = "run" <=> wpc[v] = "run"
    BY <1>3 DEF Check, EnterWait, SpuriousWake, PopNothing, PostTime, Goto, TypeOK
  <2> QED
    BY <2>1, <2>2, OnceQuiet DEF InHand
<1>4. CASE Decrement(w)
  <2>1. /\ UNCHANGED <<queue, qq, discarded, dropped, handled, added, pc, hold>>
        /\ wpc[w] = "decrement"
        /\ \A v \in Workers : /\ wpc'[v] = IF v = w THEN "pop" ELSE wpc[v]
                              /\ eh'[v] = IF v = w THEN NoPair ELSE eh[v]
    BY <1>4 DEF Decrement, Goto, TypeOK, blockVars, queueVars
  <2>2. RunOf(id)' = RunOf(id)
    BY <2>1 DEF RunOf
  <2>3. QueueOf(id)' = QueueOf(id) /\ QqOf(id)' = QqOf(id)
        /\ One(InHand(id)') = One(InHand(id)) /\ Ended(id)' = Ended(id) /\ Due(id)' = Due(id)
    BY <2>1 DEF QueueOf, QqOf, InHand, Ended, Due, One
  <2> QED
    BY <2>2, <2>3 DEF Total
<1> QED
  BY <1>1, <1>2, <1>3, <1>4 DEF WorkerStep

\* Every step keeps each pair in one place.
LEMMA OnceStep == TypeOK /\ TypeOK' /\ OnceInv /\ [Next]_vars => OnceInv'
<1> SUFFICES ASSUME TypeOK, TypeOK', OnceInv, [Next]_vars PROVE OnceInv'
  OBVIOUS
<1>1. (lock \in Events => lock \notin added)'
  <2>1. ASSUME UNCHANGED <<lock, added>> PROVE lock' \in Events => lock' \notin added'
    BY <2>1 DEF OnceInv
  <2>2. CASE AddEvent
    BY <2>2, NamesAssumption DEF AddEvent, AddByMessage, CallerAdds
  <2>3. ASSUME NEW e \in Events, CallerLocks(e) PROVE lock' \in Events => lock' \notin added'
    BY <2>3 DEF CallerLocks
  <2>4. ASSUME NEW n \in 1 .. MaxIn, Produce(n) PROVE lock' \in Events => lock' \notin added'
    BY <2>1, <2>4 DEF Produce, queueVars
  <2>5. ASSUME NEW w \in Workers, WorkerStep(w) \/ SpuriousWake(w)
        PROVE  lock' \in Events => lock' \notin added'
    BY <2>1, <2>5 DEF WorkerStep, Check, EnterWait, SpuriousWake, Pop, PopNothing, Run,
                      PostTime, Decrement, queueVars
  <2>6. CASE FetchBalk
    BY <2>6, NamesAssumption DEF FetchBalk
  <2>7. CASE \/ WorkBegin \/ RetireOne \/ RetireNone \/ FetchDiscard \/ FetchTake \/ FetchNone
             \/ Push \/ Drop \/ Record \/ Consume \/ WaitNotify \/ WaitDone \/ Return
             \/ BeginStop \/ StopThread \/ Joined
    BY <2>1, <2>7 DEF WorkBegin, RetireOne, RetireNone, FetchDiscard, FetchTake, FetchNone,
       Push, Drop, Record, Consume, WaitNotify, WaitDone, Return, BeginStop, StopThread,
       Joined, queueVars
  <2>8. CASE UNCHANGED vars
    BY <2>1, <2>8 DEF vars, queueVars
  <2> QED
    BY <2>2, <2>3, <2>4, <2>5, <2>6, <2>7, <2>8 DEF Next, WorkStep, StreamEnds, UserStops
<1>2. ASSUME NEW id \in PairIds PROVE Total(id)' = One(Due(id)')
  <2>1. Total(id) = One(Due(id))
    BY DEF OnceInv
  <2>2. CASE AddEvent
    <3>1. PICK e \in Events, t \in EventTimes, n \in EventLens :
             AddByMessage(e, t, n) \/ CallerAdds(e, t, n)
      BY <2>2 DEF AddEvent
    <3>2. /\ Insert(e, t, n) /\ e \notin added
          /\ UNCHANGED <<pc, hold, qq, eh, wpc, discarded, dropped, handled>>
      BY <3>1 DEF AddByMessage, CallerAdds, OnceInv, blockVars, poolVars
    <3> QED
      BY <2>1, <3>2, OnceInsert
  <2>3. CASE WorkStep \/ UserStops
    BY <2>1, <2>3, OnceWorkStep
  <2>4. ASSUME NEW w \in Workers, WorkerStep(w) \/ SpuriousWake(w)
        PROVE  Total(id)' = One(Due(id)')
    BY <2>1, <2>4, OnceWorkerStep
  <2>5. CASE UNCHANGED <<queue, qq, eh, wpc, discarded, dropped, handled, added, pc, hold>>
    BY <2>1, <2>5, OnceQuiet DEF InHand
  <2>6. ASSUME NEW n \in 1 .. MaxIn, Produce(n) PROVE Total(id)' = One(Due(id)')
    BY <2>5, <2>6 DEF Produce, blockVars, queueVars, poolVars
  <2>7. ASSUME NEW e \in Events, CallerLocks(e) PROVE Total(id)' = One(Due(id)')
    BY <2>5, <2>7 DEF CallerLocks, blockVars, poolVars
  <2>8. CASE UNCHANGED vars
    BY <2>5, <2>8 DEF vars, blockVars, queueVars, poolVars
  <2> QED
    BY <2>2, <2>3, <2>4, <2>6, <2>7, <2>8 DEF Next
<1> QED
  BY <1>1, <1>2 DEF OnceInv

\* Every handler of every event added has its pair in exactly one place, whatever
\* the threads do: it waits in the queue, is in flight, or was discarded, dropped
\* or run, once.  No pair is lost and none runs twice.
THEOREM AlwaysExactlyOnce == Spec => []ExactlyOnce
<1>1. Init => OnceInv
  <2> SUFFICES ASSUME Init PROVE OnceInv
    OBVIOUS
  <2>1. lock \notin Events
    BY NamesAssumption DEF Init
  <2>2. ASSUME NEW id \in PairIds PROVE Total(id) = One(Due(id))
    <3>1. QueueOf(id) = {} /\ QqOf(id) = {} /\ RunOf(id) = {}
      BY DEF Init, QueueOf, QqOf, PositionsOf, RunOf
    <3>2. One(InHand(id)) = 0 /\ One(Due(id)) = 0 /\ Ended(id) = 0
      BY DEF Init, InHand, Due, Ended, One
    <3> QED
      BY <3>1, <3>2, FS_EmptySet DEF Total
  <2> QED
    BY <2>1, <2>2 DEF OnceInv
<1>2. TypeOK /\ OnceInv => ExactlyOnce
  <2> SUFFICES ASSUME TypeOK, OnceInv, NEW e \in added, NEW k \in 1 .. Len(HandlersOf[e])
               PROVE  LET id == <<e, HandlersOf[e][k]>>
                      IN  Cardinality({i \in 1 .. Len(queue) : IdOf(queue[i]) = id})
                            + Cardinality({x \in InFlight : /\ IdOf(At(x)) = id
                                                            /\ x[1] = "thread" =>
                                                                 wpc[x[2]] = "run"})
                            + Cardinality({S \in {<<"a", discarded>>, <<"b", dropped>>,
                                                  <<"c", handled>>} : id \in S[2]}) = 1
    BY DEF ExactlyOnce
  <2> DEFINE id == <<e, HandlersOf[e][k]>>
  <2>1. e \in Events /\ HandlersOf[e] \in Seq(Handlers)
    BY SinkAssumption DEF TypeOK
  <2>2. id \in PairIds
    BY <2>1, ElementOfSeq DEF PairIds
  <2>3. Due(id)
    BY DEF Due, Binds
  <2>4. Total(id) = 1
    BY <2>2, <2>3 DEF OnceInv, One
  <2> HIDE DEF id
  <2>5. Cardinality({i \in 1 .. Len(queue) : IdOf(queue[i]) = id})
          + Cardinality({x \in InFlight : /\ IdOf(At(x)) = id
                                          /\ x[1] = "thread" => wpc[x[2]] = "run"})
          + Cardinality({S \in {<<"a", discarded>>, <<"b", dropped>>,
                                <<"c", handled>>} : id \in S[2]})
          = Total(id)
    BY TotalIs
  <2> QED
    BY <2>4, <2>5 DEF id
<1>3. TypeOK /\ TypeOK' /\ OnceInv /\ [Next]_vars => OnceInv'
  BY OnceStep
<1> QED
  BY <1>1, <1>2, <1>3, TypeCorrect, PTL DEF Spec
=============================================================================

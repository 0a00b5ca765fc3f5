--------------------------- MODULE EsSourceProofs ---------------------------
(* Theorems about es_source, for every number of threads, events and        *)
(* handlers: its invariants, and that it plays out what Playout promises.   *)
EXTENDS EsSource, EsQueueOpsProofs

-----------------------------------------------------------------------------
(* The inductive invariant.                                                *)

\* A chunk is a whole event that waits to be placed, or what is left of one
\* that has been: then it carries on where its last sample was written.
Fresh(c) ==
    /\ c.from = 0
    /\ sched[c.id] = [time |-> c.time, len |-> c.len]
    /\ start[c.id] = None /\ c.id \notin gone

Rest(c) ==
    /\ c.from > 0
    /\ sched[c.id] # None /\ c.from + c.len = sched[c.id].len
    /\ start[c.id] = c.time - c.from /\ start[c.id] \in Nat
    /\ c.id \notin gone
    /\ c.time >= d_time

Contents ==
    /\ \A i \in 1 .. Len(qq) : Fresh(qq[i])
    /\ \A w \in Workers : eh[w] # None => Fresh(eh[w])
    /\ \A i \in 1 .. Len(readylist) : Fresh(readylist[i]) \/ Rest(readylist[i])

\* No pair is in two places ...
Apart ==
    /\ \A i, j \in 1 .. Len(qq) : qq[i].id = qq[j].id => i = j
    /\ \A v, w \in Workers :
          eh[v] # None /\ eh[w] # None /\ eh[v].id = eh[w].id => v = w
    /\ \A i, j \in 1 .. Len(readylist) : readylist[i].id = readylist[j].id => i = j
    /\ \A i \in 1 .. Len(qq), w \in Workers : eh[w] # None => eh[w].id # qq[i].id
    /\ \A i \in 1 .. Len(qq), j \in 1 .. Len(readylist) : readylist[j].id # qq[i].id
    /\ \A w \in Workers, j \in 1 .. Len(readylist) :
          eh[w] # None => readylist[j].id # eh[w].id

\* ... and one that has neither been placed nor given up is somewhere.
Pending(x) == sched[x] # None /\ start[x] = None /\ x \notin gone

NoneLost ==
    \A x \in PairIds : Pending(x) =>
        \/ \E i \in 1 .. Len(qq) : qq[i].id = x
        \/ \E w \in Workers : eh[w] # None /\ eh[w].id = x
        \/ \E i \in 1 .. Len(readylist) : readylist[i].id = x

Histories ==
    \A x \in PairIds : /\ sched[x] = None => start[x] = None /\ x \notin gone
                       /\ x \in gone => start[x] = None

\* The pairs of the event add_event is at, and of events to come, are new.
AddingNew ==
    /\ adding # None =>
          /\ adding.time \in EventTimes /\ adding.len \in EventLens
          /\ adding.evt \in added /\ adding.next >= 1
          /\ \A k \in 1 .. Len(HandlersOf[adding.evt]) :
                k >= adding.next => sched[<<adding.evt, HandlersOf[adding.evt][k]>>] = None
    /\ \A e \in Events \ added, h \in Handlers : sched[<<e, h>>] = None

\* The output buffer is there while work() runs, with readylist locked.
Locking ==
    /\ pc = "play" => lin_mut = "work" /\ Len(buf) >= 1
    /\ pc = "idle" => lin_mut = "free"
    /\ lin_mut = "free" => buf = <<>>

\* The destructor joins the threads there are, one by one.
Joining == pc # "stopped" => joining \in 1 .. opt.threads

OutEnd == d_time + Len(buf)

\* What is left of an event has everything ahead of it in readylist due before
\* it, and is due by the end of the buffer.
RestsWait ==
    \A i \in 1 .. Len(readylist) : readylist[i].from > 0 =>
        /\ \A j \in 1 .. (i - 1) : readylist[j].time <= readylist[i].time
        /\ d_time < MaxLen => readylist[i].time <= OutEnd

\* An event that reaches past the end of the buffer has its rest in readylist.
Continued ==
    d_time < MaxLen =>
        \A x \in PairIds : start[x] # None /\ start[x] + sched[x].len > OutEnd
            => \E i \in 1 .. Len(readylist) : readylist[i].id = x /\ readylist[i].from > 0

\* The buffer is the merge of the samples copied to it so far.
Copied(x, j) ==
    /\ start[x] # None /\ start[x] <= j /\ j < start[x] + sched[x].len
    /\ \A i \in 1 .. Len(readylist) : readylist[i].id = x => j < readylist[i].time

CopiedTo(j) == {<<x, j - start[x]>> : x \in {y \in PairIds : Copied(y, j)}}

Buffered ==
    pc = "play" /\ d_time < MaxLen =>
        \A i \in 1 .. Len(buf) : Abstract!Merged(CopiedTo(d_time + i - 1), buf[i])

SourceInv == /\ TypeOK /\ Contents /\ Apart /\ NoneLost /\ Histories /\ AddingNew
             /\ Locking /\ Joining /\ RestsWait /\ Continued /\ Buffered

-----------------------------------------------------------------------------
(* Types.                                                                  *)

\* What the assumptions say of the constants, in the form the proofs use.
LEMMA Constants ==
    /\ TimeMod \in Nat /\ TimeMod > 0
    /\ NThreads \in Nat /\ NThreads > 0
    /\ MaxOut \in Nat /\ MaxOut > 0
    /\ MaxLen \in Nat /\ MaxLen + MaxOut < TimeMod
    /\ EventTimes \subseteq TimeRange
    /\ EventLens \subseteq TimeRange
    /\ TimeRange \subseteq Nat
  BY TimeModAssumption, SourceAssumption DEF TimeRange

\* There is a place for a continuation: the elements before it are due no later,
\* the next one is due after it.
LEMMA ContinuationPlace ==
    ASSUME NEW s \in Seq(Chunk), NEW c \in Chunk
    PROVE  \E i \in 0 .. Len(s) :
              /\ InsertContinuation(s, c) = Splice(s, i, <<c>>)
              /\ \A j \in 1 .. i : s[j].time <= c.time
              /\ i < Len(s) => c.time < s[i + 1].time
<1> DEFINE m == Len(s)
           P(i) == /\ \A j \in 1 .. i : s[j].time <= c.time
                   /\ i < Len(s) => c.time < s[i + 1].time
           T == {i \in 0 .. m : i < m => c.time < s[i + 1].time}
<1>1. m \in Nat /\ \A j \in 1 .. m : s[j] \in Chunk
  BY LenProperties, ElementOfSeq
<1>2. c.time \in Nat /\ \A j \in 1 .. m : s[j].time \in Nat
  BY <1>1, Constants DEF Chunk
<1>3. T \subseteq Nat /\ m \in T
  BY <1>1
<1>4. PICK x \in T : \A y \in T : x <= y
  BY <1>3, LeastOfSet
<1>5. x \in 0 .. m /\ (x < m => c.time < s[x + 1].time)
  BY <1>4
<1>6. ASSUME NEW j \in 1 .. x PROVE s[j].time <= c.time
  <2>1. j - 1 \in 0 .. m /\ j - 1 < x /\ j - 1 < m /\ (j - 1) + 1 = j /\ j \in 1 .. m
    BY <1>1, <1>5
  <2>2. j - 1 \notin T
    BY <1>3, <1>4, <2>1
  <2>3. ~(c.time < s[j].time)
    BY <2>1, <2>2
  <2> QED
    BY <1>2, <2>1, <2>3
<1>7. \E i \in 0 .. m : P(i)
  BY <1>5, <1>6
<1>8. P(CHOOSE i \in 0 .. m : P(i)) /\ (CHOOSE i \in 0 .. m : P(i)) \in 0 .. m
  BY <1>7
<1>9. InsertContinuation(s, c) = Splice(s, CHOOSE i \in 0 .. m : P(i), <<c>>)
  BY DEF InsertContinuation
<1> QED
  BY <1>8, <1>9

\* What each element of readylist is known to be.
LEMMA ChunkTypes ==
    ASSUME TypeOK
    PROVE  /\ Len(readylist) \in Nat /\ Len(qq) \in Nat /\ Len(buf) \in Nat
           /\ \A i \in 1 .. Len(readylist) : readylist[i] \in Chunk
           /\ \A i \in 1 .. Len(qq) : qq[i] \in Chunk
           /\ \A c \in Chunk : /\ c.id \in PairIds /\ c.time \in Nat /\ c.len \in Nat
                               /\ c.from \in Nat /\ c # None
           /\ \A x \in PairIds : /\ start[x] # None => start[x] \in Nat
                                 /\ sched[x] # None => /\ sched[x].time \in Nat
                                                       /\ sched[x].len \in Nat
           /\ d_time \in Nat /\ MaxLen \in Nat
           /\ \A n \in Nat : n # None
<1>1. /\ Len(readylist) \in Nat /\ Len(qq) \in Nat /\ Len(buf) \in Nat
      /\ \A i \in 1 .. Len(readylist) : readylist[i] \in Chunk
      /\ \A i \in 1 .. Len(qq) : qq[i] \in Chunk
  BY LenProperties, ElementOfSeq DEF TypeOK
<1>2. \A c \in Chunk : /\ c.id \in PairIds /\ c.time \in Nat /\ c.len \in Nat
                       /\ c.from \in Nat /\ c # None
  BY Constants, NoneAssumption DEF Chunk
<1>3. \A x \in PairIds : /\ start[x] # None => start[x] \in Nat
                         /\ sched[x] # None => sched[x].time \in Nat /\ sched[x].len \in Nat
  BY Constants, NoneAssumption DEF TypeOK
<1>4. d_time \in Nat /\ MaxLen \in Nat /\ \A n \in Nat : n # None
  BY Constants, NoneAssumption DEF TypeOK
<1> QED
  BY <1>1, <1>2, <1>3, <1>4

\* What is left of chunk c when its first n samples are written from t on.
RestOf(c, t, n) == [id |-> c.id, time |-> t + n, len |-> c.len - n, from |-> c.from + n]

\* What taking the head out of readylist leaves.
HeadRemoved ==
    /\ Len(readylist') = Len(readylist) - 1
    /\ \A j \in 1 .. Len(readylist') : readylist'[j] = readylist[j + 1]

\* What the head's continuation d in place i of the others leaves.
HeadReplaced(d, i) ==
    /\ Len(readylist') = Len(readylist)
    /\ \A j \in 1 .. Len(readylist) :
          readylist'[j] = IF j <= i THEN readylist[j + 1]
                          ELSE IF j = i + 1 THEN d ELSE readylist[j]
    /\ \A j \in 1 .. i : readylist[j + 1].time <= d.time
    /\ i + 1 < Len(readylist) => d.time < readylist[i + 2].time

\* What Play does with the head c: its first n samples are written from t on.
Plays(c, t, n) ==
    /\ c = readylist[1] /\ c \in Chunk /\ 1 \in 1 .. Len(readylist)
    /\ t \in Nat /\ t >= d_time /\ t < OutEnd
    /\ t = c.time \/ (opt.early \in {"ASAP", "RNDF"} /\ c.time < d_time)
    /\ c.from > 0 => t = c.time
    /\ n \in Nat /\ n <= c.len /\ (n < c.len => t + n = OutEnd) /\ t + n <= OutEnd
    /\ buf' = Written(c, t, n)
    /\ start' = [start EXCEPT ![c.id] = t - c.from]
    /\ readylist' \in Seq(Chunk)
    /\ IF n < c.len THEN \E i \in 0 .. Len(readylist) - 1 : HeadReplaced(RestOf(c, t, n), i)
       ELSE HeadRemoved

\* Taking the head of readylist off leaves the rest as it was.
LEMMA HeadOfReady ==
    ASSUME TypeOK, HeadIsDue
    PROVE  /\ 1 \in 1 .. Len(readylist) /\ readylist[1] \in Chunk
           /\ Tail(readylist) \in Seq(Chunk)
           /\ Len(Tail(readylist)) = Len(readylist) - 1
           /\ \A j \in 1 .. Len(readylist) - 1 : Tail(readylist)[j] = readylist[j + 1]
<1>1. readylist \in Seq(Chunk) /\ readylist # <<>>
  BY DEF TypeOK, HeadIsDue
<1>2. Len(readylist) \in Nat \ {0}
  BY <1>1, EmptySeq
<1> QED
  BY <1>1, <1>2, HeadTailProperties, ElementOfSeq

\* What a step of Play does, in the terms of the proof.
LEMMA PlayDoes ==
    ASSUME SourceInv, Play
    PROVE  \E t, n \in Nat : Plays(readylist[1], t, n)
<1> DEFINE c == readylist[1]
<1>1. PICK t \in StartTimes :
         LET copy == Least((d_time + Len(buf)) - t, c.len)
         IN  /\ buf' = Written(c, t, copy)
             /\ readylist' = IF c.len > copy
                             THEN InsertContinuation(Tail(readylist), RestOf(c, t, copy))
                             ELSE Tail(readylist)
             /\ start' = [start EXCEPT ![c.id] = t - c.from]
  BY DEF Play, RestOf
<1>2. /\ TypeOK /\ HeadIsDue /\ pc = "play"
  BY DEF Play, SourceInv
<1>3. /\ 1 \in 1 .. Len(readylist) /\ c \in Chunk
      /\ Tail(readylist) \in Seq(Chunk)
      /\ Len(Tail(readylist)) = Len(readylist) - 1
      /\ \A j \in 1 .. Len(readylist) - 1 : Tail(readylist)[j] = readylist[j + 1]
  BY <1>2, HeadOfReady
<1>4. /\ c.time \in Nat /\ c.len \in Nat /\ c.from \in Nat /\ c.id \in PairIds
      /\ c.len \in TimeRange
      /\ d_time \in 0 .. MaxLen /\ Len(buf) \in 1 .. MaxOut
      /\ c.time < OutEnd /\ OutEnd \in Nat /\ OutEnd \in TimeRange
  <2>1. c.time \in Nat /\ c.len \in Nat /\ c.from \in Nat /\ c.id \in PairIds
    BY <1>2, <1>3, ChunkTypes
  <2>2. d_time \in 0 .. MaxLen /\ Len(buf) \in Nat /\ Len(buf) <= MaxOut /\ Len(buf) >= 1
    <3>1. d_time \in 0 .. MaxLen /\ Len(buf) \in Nat /\ Len(buf) <= MaxOut
      BY <1>2, ChunkTypes DEF TypeOK
    <3>2. Len(buf) >= 1
      BY <1>2 DEF SourceInv, Locking
    <3> QED
      BY <3>1, <3>2
  <2>3. c.time < OutEnd
    BY <1>2 DEF HeadIsDue, OutEnd
  <2> QED
    BY <1>3, <2>1, <2>2, <2>3, Constants DEF OutEnd, TimeRange, Chunk
<1>5. Fresh(c) \/ Rest(c)
  BY <1>3 DEF SourceInv, Contents
<1>6. /\ t \in Nat /\ t >= d_time /\ t < OutEnd
      /\ t = c.time \/ (opt.early \in {"ASAP", "RNDF"} /\ c.time < d_time)
      /\ c.from > 0 => t = c.time
  <2>1. CASE ~HeadIsLate
    BY <1>1, <1>2, <1>4, <2>1 DEF StartTimes, HeadIsLate
  <2>2. CASE HeadIsLate
    <3>1. c.time < d_time /\ t \in d_time .. (d_time + Len(buf) - 1)
          /\ opt.early \in {"ASAP", "RNDF"}
      BY <1>1, <1>4, <2>2 DEF StartTimes, HeadIsLate
    <3>2. c.from = 0
      BY <1>4, <1>5, <3>1 DEF Fresh, Rest
    <3> QED
      BY <1>4, <3>1, <3>2 DEF OutEnd
  <2> QED
    BY <2>1, <2>2
<1> DEFINE n == Least((d_time + Len(buf)) - t, c.len)
<1>7. /\ n \in Nat /\ n <= c.len /\ (n < c.len => t + n = OutEnd) /\ t + n <= OutEnd
      /\ (n < c.len => n > 0)
  BY <1>4, <1>6 DEF Least, OutEnd
<1>8. /\ buf' = Written(c, t, n) /\ start' = [start EXCEPT ![c.id] = t - c.from]
      /\ readylist' = IF c.len > n
                      THEN InsertContinuation(Tail(readylist), RestOf(c, t, n))
                      ELSE Tail(readylist)
  BY <1>1
<1> HIDE DEF n
<1>9. CASE n < c.len
  <2> DEFINE d == RestOf(c, t, n)
             tl == Tail(readylist)
             m == Len(readylist)
  <2>1. d \in Chunk
    <3>1. t + n \in TimeRange
      BY <1>4, <1>7, <1>9
    <3>2. c.len - n \in TimeRange /\ c.from + n \in Nat
      <4> DEFINE l == c.len
                 f == c.from
      <4>1. l \in TimeRange /\ l \in Nat /\ f \in Nat
        BY <1>4
      <4> HIDE DEF l, f
      <4>2. n \in Nat /\ n <= l
        BY <1>7 DEF l
      <4>3. l - n \in TimeRange /\ f + n \in Nat
        BY <4>1, <4>2, Constants DEF TimeRange
      <4> QED
        BY <4>3 DEF l, f
    <3> QED
      BY <1>4, <3>1, <3>2 DEF RestOf, Chunk
  <2>2. PICK i \in 0 .. Len(tl) : /\ readylist' = Splice(tl, i, <<d>>)
                                  /\ \A j \in 1 .. i : tl[j].time <= d.time
                                  /\ i < Len(tl) => d.time < tl[i + 1].time
    BY <1>3, <1>8, <1>9, <2>1, <1>4, <1>7, ContinuationPlace
  <2> HIDE DEF d, m
  <2>3. m \in Nat /\ Len(tl) = m - 1 /\ i \in 0 .. m - 1 /\ m > 0
    BY <1>3, <2>2, <1>2, ChunkTypes DEF m
  <2>4. <<d>> \in Seq(Chunk) /\ Len(<<d>>) = 1 /\ <<d>>[1] = d
    BY <2>1
  <2>5. /\ readylist' \in Seq(Chunk)
        /\ Len(readylist') = m
        /\ \A j \in 1 .. m :
              readylist'[j] = IF j <= i THEN tl[j]
                              ELSE IF j <= i + 1 THEN <<d>>[j - i] ELSE tl[j - 1]
    <3> DEFINE r == <<d>>
    <3>1. Len(tl) + Len(r) = m /\ i + Len(r) = i + 1 /\ Len(r) = 1
      BY <2>3, <2>4
    <3> HIDE DEF tl, r
    <3>2. tl \in Seq(Chunk) /\ r \in Seq(Chunk) /\ i \in 0 .. Len(tl)
      BY <1>3, <2>2, <2>4 DEF tl, r
    <3>3. /\ Splice(tl, i, r) \in Seq(Chunk)
          /\ Len(Splice(tl, i, r)) = Len(tl) + Len(r)
          /\ \A j \in 1 .. Len(tl) + Len(r) :
                Splice(tl, i, r)[j] = IF j <= i THEN tl[j]
                                     ELSE IF j <= i + Len(r) THEN r[j - i]
                                     ELSE tl[j - Len(r)]
      BY <3>2, SpliceElements
    <3>4. readylist' = Splice(tl, i, r)
      BY <2>2 DEF tl, r
    <3>5. /\ readylist' \in Seq(Chunk)
          /\ Len(readylist') = m
          /\ \A j \in 1 .. m :
                readylist'[j] = IF j <= i THEN tl[j]
                                ELSE IF j <= i + 1 THEN r[j - i] ELSE tl[j - 1]
      BY <3>1, <3>3, <3>4
    <3> QED
      BY <3>5 DEF tl, r
  <2>6. \A j \in 1 .. m :
           readylist'[j] = IF j <= i THEN readylist[j + 1]
                           ELSE IF j = i + 1 THEN d ELSE readylist[j]
    <3> SUFFICES ASSUME NEW j \in 1 .. m
                 PROVE  readylist'[j] = IF j <= i THEN readylist[j + 1]
                                        ELSE IF j = i + 1 THEN d ELSE readylist[j]
      OBVIOUS
    <3>1. CASE j <= i
      BY <1>3, <2>3, <2>5, <3>1 DEF m
    <3>2. CASE j = i + 1
      BY <2>3, <2>4, <2>5, <3>2
    <3>3. CASE j > i + 1
      <4>1. readylist'[j] = tl[j - 1] /\ j - 1 \in 1 .. m - 1
        BY <2>3, <2>5, <3>3
      <4>2. tl[j - 1] = readylist[(j - 1) + 1] /\ (j - 1) + 1 = j
        BY <1>3, <4>1 DEF m
      <4> QED
        BY <2>3, <3>3, <4>1, <4>2
    <3> QED
      BY <2>3, <3>1, <3>2, <3>3
  <2>7. \A j \in 1 .. i : readylist[j + 1].time <= d.time
    BY <1>3, <2>2, <2>3 DEF m
  <2>8. i + 1 < m => d.time < readylist[i + 2].time
    <3> SUFFICES ASSUME i + 1 < m PROVE d.time < readylist[i + 2].time
      OBVIOUS
    <3>1. i + 1 \in 1 .. m - 1 /\ i < Len(tl) /\ (i + 1) + 1 = i + 2
      BY <2>3
    <3>2. tl[i + 1] = readylist[(i + 1) + 1]
      BY <1>3, <3>1 DEF m
    <3> QED
      BY <2>2, <3>1, <3>2
  <2>9. HeadReplaced(d, i)
    BY <2>5, <2>6, <2>7, <2>8 DEF HeadReplaced, m
  <2> QED
    BY <1>3, <1>6, <1>7, <1>8, <1>9, <2>3, <2>5, <2>9 DEF Plays, d, m
<1>10. CASE ~(n < c.len)
  <2>1. readylist' = Tail(readylist)
    BY <1>4, <1>7, <1>8, <1>10
  <2>2. HeadRemoved /\ readylist' \in Seq(Chunk)
    BY <1>3, <2>1 DEF HeadRemoved
  <2> QED
    BY <1>3, <1>6, <1>7, <1>8, <1>10, <2>2 DEF Plays
<1> QED
  BY <1>6, <1>7, <1>9, <1>10

Cells == SUBSET (PairIds \X Nat)

\* The buffer after a copy, cell by cell.
LEMMA WrittenCells ==
    ASSUME TypeOK, NEW c \in Chunk, NEW t \in Nat, NEW n \in Nat
    PROVE  /\ Written(c, t, n) \in Seq(Cells) /\ Len(Written(c, t, n)) = Len(buf)
           /\ \A i \in 1 .. Len(buf) :
                 LET k == (d_time + i - 1) - t
                 IN  Written(c, t, n)[i] =
                        IF k \notin 0 .. (n - 1) THEN buf[i]
                        ELSE IF opt.merge = "ADD" THEN buf[i] \cup {<<c.id, c.from + k>>}
                        ELSE {<<c.id, c.from + k>>}
<1> DEFINE m == Len(buf)
           cell(i) == LET k == (d_time + i - 1) - t
                      IN  IF k \notin 0 .. (n - 1) THEN buf[i]
                          ELSE IF opt.merge = "ADD" THEN buf[i] \cup {<<c.id, c.from + k>>}
                          ELSE {<<c.id, c.from + k>>}
           f == [i \in 1 .. m |-> cell(i)]
<1>1. m \in Nat /\ \A i \in 1 .. m : buf[i] \in Cells
  BY ChunkTypes, ElementOfSeq DEF TypeOK, Cells
<1>2. c.id \in PairIds /\ c.from \in Nat /\ d_time \in Nat
  BY ChunkTypes
<1>3. ASSUME NEW i \in 1 .. m PROVE cell(i) \in Cells
  <2> DEFINE k == (d_time + i - 1) - t
  <2>1. CASE k \notin 0 .. (n - 1)
    BY <1>1, <2>1
  <2>2. CASE k \in 0 .. (n - 1)
    <3>1. c.from + k \in Nat
      BY <1>2, <2>2
    <3>2. <<c.id, c.from + k>> \in PairIds \X Nat
      BY <1>2, <3>1
    <3>3. {<<c.id, c.from + k>>} \in Cells /\ buf[i] \cup {<<c.id, c.from + k>>} \in Cells
      BY <1>1, <3>2 DEF Cells
    <3> QED
      BY <2>2, <3>3
  <2> QED
    BY <2>1, <2>2
<1>4. Written(c, t, n) = f
  BY DEF Written
<1> HIDE DEF cell
<1>5. f \in Seq(Cells) /\ Len(f) = m /\ \A i \in 1 .. m : f[i] = cell(i)
  BY <1>1, <1>3
<1> QED
  BY <1>4, <1>5 DEF cell

\* What WorkEnd appends to the stream.
LEMMA Produces ==
    ASSUME TypeOK, d_time # MaxLen
    PROVE  /\ Produced(Len(buf)) \in 0 .. Len(buf)
           /\ d_time + Produced(Len(buf)) \in 0 .. MaxLen
           /\ d_time + Produced(Len(buf)) # MaxLen => Produced(Len(buf)) = Len(buf)
           /\ SubSeq(buf, 1, Produced(Len(buf))) \in Seq(Cells)
           /\ Len(SubSeq(buf, 1, Produced(Len(buf)))) = Produced(Len(buf))
           /\ \A i \in 1 .. Produced(Len(buf)) :
                 SubSeq(buf, 1, Produced(Len(buf)))[i] = buf[i]
<1>1. d_time \in 0 .. MaxLen /\ MaxLen \in Nat /\ Len(buf) \in Nat /\ buf \in Seq(Cells)
  BY Constants, ChunkTypes DEF TypeOK, Cells
<1>2. /\ Produced(Len(buf)) \in 0 .. Len(buf)
      /\ d_time + Produced(Len(buf)) \in 0 .. MaxLen
      /\ d_time + Produced(Len(buf)) # MaxLen => Produced(Len(buf)) = Len(buf)
  BY <1>1 DEF Produced
<1> QED
  BY <1>1, <1>2, PrefixElements

WorkersType(f) == f \in [Workers -> {"check", "enter", "waiting", "pop", "run", "publish",
                                     "exited"}]

ThreadsHold(f, g) == \A w \in Workers : f[w] \in {"run", "publish"} <=> g[w] # None

\* Waking threads changes where they are and nothing that they hold.
LEMMA NotifyOneType ==
    ASSUME TypeOK, NotifyOne
    PROVE  WorkersType(wpc') /\ ThreadsHold(wpc', eh)
<1>1. CASE Waiting = {}
  BY <1>1 DEF NotifyOne, TypeOK, WorkersType, ThreadsHold
<1>2. CASE Waiting # {}
  <2>1. PICK w \in Waiting : wpc' = [wpc EXCEPT ![w] = "pop"]
    BY <1>2 DEF NotifyOne
  <2> QED
    BY <2>1 DEF Waiting, TypeOK, WorkersType, ThreadsHold
<1> QED
  BY <1>1, <1>2

LEMMA NotifyAllType ==
    ASSUME TypeOK, NotifyAll
    PROVE  WorkersType(wpc') /\ ThreadsHold(wpc', eh)
  BY DEF NotifyAll, Waiting, TypeOK, WorkersType, ThreadsHold

\* The threads of an instance are among the workers.
LEMMA ThreadsRange ==
    ASSUME TypeOK
    PROVE  opt.threads \in Workers /\ \A w \in 1 .. opt.threads : w \in Workers
<1>1. opt.threads \in Workers
  BY SourceAssumption DEF TypeOK, OptionSpace
<1> QED
  BY <1>1, Constants DEF Workers

\* A new source is well typed.
LEMMA TypeInit == Init => TypeOK
<1> SUFFICES ASSUME Init PROVE TypeOK
  OBVIOUS
<1>1. opt \in OptionSpace /\ opt.threads \in Workers
  BY SourceAssumption DEF Init, OptionSpace
<1>2. /\ wpc \in [Workers -> {"check", "enter", "waiting", "pop", "run", "publish", "exited"}]
      /\ eh \in [Workers -> Chunk \cup {None}]
      /\ \A w \in Workers : wpc[w] \in {"run", "publish"} <=> eh[w] # None
  BY DEF Init
<1>3. joining \in 1 .. (NThreads + 1) /\ d_time \in 0 .. MaxLen
  BY Constants DEF Init
<1>4. \A S : <<>> \in Seq(S) /\ Len(<<>>) = 0
  BY EmptySeq
<1>5. buf \in Seq(SUBSET (PairIds \X Nat)) /\ Len(buf) <= MaxOut
  BY <1>4, Constants DEF Init
<1>6. /\ sched \in [PairIds -> [time : TimeRange, len : TimeRange] \cup {None}]
      /\ start \in [PairIds -> Nat \cup {None}]
  BY DEF Init
<1> QED
  BY <1>2, <1>3, <1>4, <1>5, <1>6 DEF Init, TypeOK

\* Every step keeps the state well typed.
LEMMA TypeStep == SourceInv /\ [Next]_vars => TypeOK'
<1> SUFFICES ASSUME SourceInv, [Next]_vars PROVE TypeOK'
  OBVIOUS
<1>0. TypeOK
  BY DEF SourceInv
<1> USE DEF vars, addVars, poolVars, playVars, blockVars
<1>1. ASSUME NEW e \in Events, NEW t \in EventTimes, NEW n \in EventLens, BeginAdd(e, t, n)
      PROVE  TypeOK'
  <2>1. [evt |-> e, time |-> t, len |-> n, next |-> 1] \in Adding
    BY Constants DEF Adding
  <2> QED
    BY <1>0, <1>1, <2>1 DEF TypeOK, BeginAdd
<1>2. CASE AddPair
  <2> DEFINE h == HandlersOf[adding.evt][adding.next]
             id == <<adding.evt, h>>
             c == [id |-> id, time |-> adding.time, len |-> adding.len, from |-> 0]
  <2>1. adding \in Adding /\ adding.evt \in Events /\ adding.next \in Nat
        /\ adding.time \in TimeRange /\ adding.len \in TimeRange
    BY <1>0, <1>2 DEF TypeOK, AddPair, Adding
  <2>2. adding.next \in 1 .. Len(HandlersOf[adding.evt])
    BY <1>2, <2>1, SourceAssumption DEF AddPair, SourceInv, AddingNew
  <2>3. h \in Handlers /\ id \in PairIds
    BY <2>1, <2>2, SourceAssumption, ElementOfSeq DEF PairIds
  <2>4. c \in Chunk
    BY <2>1, <2>3 DEF Chunk
  <2>5. /\ qq' = Append(qq, c) /\ queued' = queued \cup {id}
        /\ sched' = [sched EXCEPT ![id] = [time |-> adding.time, len |-> adding.len]]
        /\ adding' = [adding EXCEPT !.next = @ + 1]
        /\ UNCHANGED <<opt, added, eh, finished, readylist, blockVars, playVars>>
    BY <1>2 DEF AddPair
  <2>6. WorkersType(wpc') /\ ThreadsHold(wpc', eh)
    BY <1>0, <1>2, NotifyOneType DEF AddPair
  <2>7. adding' \in Adding
    <3>1. adding' = [evt |-> adding.evt, time |-> adding.time, len |-> adding.len,
                     next |-> adding.next + 1]
      BY <2>1, <2>5 DEF Adding
    <3> QED
      BY <2>1, <3>1 DEF Adding
  <2>8. qq' \in Seq(Chunk)
    BY <1>0, <2>4, <2>5, AppendProperties DEF TypeOK
  <2>9. sched' \in [PairIds -> [time : TimeRange, len : TimeRange] \cup {None}]
    BY <1>0, <2>1, <2>3, <2>5 DEF TypeOK
  <2>10. queued' \subseteq PairIds
    BY <1>0, <2>3, <2>5 DEF TypeOK
  <2> HIDE DEF id, c, h
  <2> QED
    BY <1>0, <2>5, <2>6, <2>7, <2>8, <2>9, <2>10 DEF TypeOK, WorkersType, ThreadsHold
<1>3. CASE EndAdd
  BY <1>0, <1>3 DEF TypeOK, EndAdd
<1>4. ASSUME NEW w \in Workers, WorkerStep(w) \/ SpuriousWake(w) PROVE TypeOK'
  <2>1. CASE Check(w) \/ EnterWait(w) \/ SpuriousWake(w) \/ PopNothing(w) \/ Run(w)
    BY <1>0, <2>1 DEF TypeOK, Check, EnterWait, SpuriousWake, PopNothing, Run, Goto
  <2>2. CASE Pop(w)
    <3>1. Head(qq) \in Chunk /\ qq' \in Seq(Chunk) /\ Head(qq) # None
      BY <1>0, <2>2, HeadTailProperties, ChunkTypes DEF TypeOK, Pop
    <3> QED
      BY <1>0, <2>2, <3>1 DEF TypeOK, Pop, Goto
  <2>3. CASE Publish(w)
    <3>1. eh[w] \in Chunk
      BY <1>0, <2>3 DEF TypeOK, Publish, Goto
    <3>2. readylist' \in Seq(Chunk)
      BY <1>0, <2>3, <3>1, AppendProperties DEF TypeOK, Publish
    <3> QED
      BY <1>0, <2>3, <3>2 DEF TypeOK, Publish, Goto
  <2> QED
    BY <1>4, <2>1, <2>2, <2>3 DEF WorkerStep
<1>5. ASSUME NEW n \in 1 .. MaxOut, WorkBegin(n) PROVE TypeOK'
  <2>1. {} \in SUBSET (PairIds \X Nat) /\ n \in Nat /\ n <= MaxOut
    BY Constants
  <2>2. buf' \in Seq(SUBSET (PairIds \X Nat)) /\ Len(buf') = n
    BY <1>5, <2>1 DEF WorkBegin
  <2> QED
    BY <1>0, <1>5, <2>1, <2>2 DEF TypeOK, WorkBegin
<1>6. CASE DiscardLate \/ BalkLate
  <2>1. /\ HeadIsDue /\ readylist' = Tail(readylist) /\ gone' = gone \cup {readylist[1].id}
        /\ pc' \in {pc, "thrown"}
        /\ UNCHANGED <<opt, addVars, qq, poolVars, lin_mut, joining, d_time, buf, start, out>>
    BY <1>6 DEF DiscardLate, BalkLate, HeadIsLate
  <2>2. readylist' \in Seq(Chunk) /\ readylist[1] \in Chunk
    BY <1>0, <2>1, HeadOfReady
  <2>3. gone' \subseteq PairIds
    BY <1>0, <2>1, <2>2, ChunkTypes DEF TypeOK
  <2> QED
    BY <1>0, <2>1, <2>2, <2>3 DEF TypeOK
<1>7. CASE Play
  <2>1. PICK t \in Nat, n \in Nat : Plays(readylist[1], t, n)
    BY <1>7, PlayDoes
  <2> DEFINE c == readylist[1]
  <2>2. /\ c \in Chunk /\ readylist' \in Seq(Chunk) /\ buf' = Written(c, t, n)
        /\ start' = [start EXCEPT ![c.id] = t - c.from]
        /\ c.from > 0 => t = c.time
        /\ Fresh(c) \/ Rest(c)
    BY <2>1 DEF Plays, SourceInv, Contents
  <2>3. c.id \in PairIds /\ c.from \in Nat
    BY <1>0, <2>2, ChunkTypes
  <2>4. t - c.from \in Nat
    BY <2>2, <2>3 DEF Fresh, Rest
  <2>5. start' \in [PairIds -> Nat \cup {None}]
    BY <1>0, <2>2, <2>3, <2>4 DEF TypeOK
  <2>6. buf' \in Seq(SUBSET (PairIds \X Nat)) /\ Len(buf') = Len(buf)
    BY <1>0, <2>2, WrittenCells DEF Cells
  <2>7. UNCHANGED <<opt, addVars, qq, poolVars, blockVars, d_time, gone, out>>
    BY <1>7 DEF Play
  <2> QED
    BY <1>0, <2>2, <2>5, <2>6, <2>7 DEF TypeOK
<1>8. CASE WorkEnd
  <2>1. \A S : <<>> \in Seq(S) /\ Len(<<>>) = 0
    BY EmptySeq
  <2>2. CASE d_time = MaxLen
    BY <1>0, <1>8, <2>1, <2>2, Constants DEF TypeOK, WorkEnd
  <2>3. CASE d_time # MaxLen
    <3> DEFINE k == Produced(Len(buf))
               b == SubSeq(buf, 1, k)
    <3>1. /\ k \in 0 .. Len(buf) /\ d_time + k \in 0 .. MaxLen
          /\ b \in Seq(Cells) /\ Len(b) = k
      BY <1>0, <2>3, Produces
    <3> HIDE DEF k, b
    <3>2. d_time' = d_time + k /\ out' = out \o b /\ pc' = "idle"
      BY <1>8, <2>3 DEF WorkEnd, b, k
    <3>3. out' \in Seq(Cells) /\ Len(out') = Len(out) + k /\ Len(out) = d_time
      <4>1. out \in Seq(Cells) /\ Len(out) = d_time
        BY <1>0 DEF TypeOK, Cells
      <4>2. out \o b \in Seq(Cells) /\ Len(out \o b) = Len(out) + Len(b)
        BY <3>1, <4>1, ConcatProperties
      <4> QED
        BY <3>1, <3>2, <4>1, <4>2
    <3> QED
      <4>1. /\ d_time' \in 0 .. MaxLen /\ out' \in Seq(Cells) /\ Len(out') = d_time'
            /\ pc' = "idle" /\ buf' = <<>>
        BY <1>0, <1>8, <2>3, <3>1, <3>2, <3>3 DEF WorkEnd, TypeOK
      <4> QED
        BY <1>0, <1>8, <2>1, <4>1, Constants DEF TypeOK, WorkEnd, Cells
  <2> QED
    BY <2>2, <2>3
<1>9. CASE Destroy
  BY <1>0, <1>9 DEF TypeOK, Destroy
<1>10. CASE StopThread
  <2>1. joining \in Workers
    BY <1>0, <1>10, ThreadsRange DEF SourceInv, Joining, StopThread
  <2> QED
    BY <1>0, <1>10, <2>1, NotifyAllType DEF TypeOK, StopThread, WorkersType, ThreadsHold
<1>11. CASE Joined
  <2>1. joining \in Workers /\ joining' = joining + 1
    BY <1>0, <1>11, ThreadsRange DEF SourceInv, Joining, Joined
  <2>2. joining' \in 1 .. (NThreads + 1)
    BY <2>1, Constants DEF Workers
  <2> QED
    BY <1>0, <1>11, <2>2 DEF TypeOK, Joined
<1>12. CASE UNCHANGED vars
  BY <1>0, <1>12 DEF TypeOK
<1> QED
  BY <1>1, <1>2, <1>3, <1>4, <1>5, <1>6, <1>7, <1>8, <1>9, <1>10, <1>11, <1>12
     DEF Next, AddStep, WorkStep

-----------------------------------------------------------------------------
(* The invariant is kept, step by step.                                    *)

\* The conjuncts about where pairs are and what has been copied of them.
Playing == /\ Contents /\ Apart /\ NoneLost /\ Histories
           /\ RestsWait /\ Continued /\ Buffered

\* The buffer stays the merge of what was copied.
LEMMA BufferedStays ==
    ASSUME Buffered, UNCHANGED <<opt, d_time, buf, start>>, pc' = "play" => pc = "play",
           d_time \in Nat, Len(buf) \in Nat,
           \A x \in PairIds : \A j \in Nat : Copied(x, j)' <=> Copied(x, j)
    PROVE  Buffered'
<1>1. ASSUME NEW j \in Nat PROVE CopiedTo(j)' = CopiedTo(j)
  BY DEF CopiedTo
<1>2. ASSUME NEW i \in 1 .. Len(buf), pc' = "play", d_time' < MaxLen
      PROVE  Abstract!Merged(CopiedTo(d_time + i - 1), buf[i])'
  <2>1. d_time + i - 1 \in Nat
    OBVIOUS
  <2>2. CopiedTo(d_time + i - 1)' = CopiedTo(d_time + i - 1)
    BY <1>1, <2>1
  <2>3. Abstract!Merged(CopiedTo(d_time + i - 1), buf[i])
    BY <1>2 DEF Buffered
  <2> QED
    BY <2>2, <2>3 DEF Abstract!Merged
<1> QED
  BY <1>2 DEF Buffered

\* Steps that touch neither pairs nor samples.
LEMMA QuietKeeps ==
    ASSUME SourceInv,
           UNCHANGED <<opt, qq, eh, readylist, lin_mut, playVars, sched>>,
           pc' \in {pc, "stop", "join", "stopped"}
    PROVE  Playing' /\ Locking'
<1>1. UNCHANGED <<opt, qq, eh, readylist, lin_mut, d_time, buf, start, gone, sched>>
  BY DEF playVars
<1>2. Contents' /\ Apart' /\ NoneLost' /\ Histories'
  <2>1. Contents'
    <3>1. \A c : Fresh(c)' <=> Fresh(c)
      BY <1>1 DEF Fresh
    <3>2. \A c : Rest(c)' <=> Rest(c)
      BY <1>1 DEF Rest
    <3>3. Contents
      BY DEF SourceInv
    <3> QED
      BY <1>1, <3>1, <3>2, <3>3 DEF Contents, Fresh, Rest
  <2>2. Apart'
    BY <1>1 DEF SourceInv, Apart
  <2>3. NoneLost' /\ Histories'
    BY <1>1 DEF SourceInv, NoneLost, Pending, Histories
  <2> QED
    BY <2>1, <2>2, <2>3
<1>3. RestsWait' /\ Continued'
  BY <1>1 DEF SourceInv, RestsWait, Continued, OutEnd
<1>6. Locking'
  BY <1>1 DEF SourceInv, Locking
<1>4. \A x \in PairIds : \A j \in Nat : Copied(x, j)' <=> Copied(x, j)
  BY <1>1 DEF Copied
<1>5. Buffered'
  BY <1>1, <1>4, BufferedStays, ChunkTypes DEF SourceInv
<1> QED
  BY <1>2, <1>3, <1>5, <1>6 DEF Playing

\* The next pair of the event add_event is at.
NextId == <<adding.evt, HandlersOf[adding.evt][adding.next]>>

\* The pair that add_event makes next has not been scheduled before.
LEMMA NextIdIsNew ==
    ASSUME SourceInv, adding # None, adding.next <= Len(HandlersOf[adding.evt])
    PROVE  /\ NextId \in PairIds /\ sched[NextId] = None
           /\ adding.evt \in Events /\ adding.next \in 1 .. Len(HandlersOf[adding.evt])
           /\ adding.time \in TimeRange /\ adding.len \in TimeRange
           /\ HandlersOf[adding.evt] \in Seq(Handlers)
<1>1. adding \in Adding /\ adding.evt \in Events /\ adding.next \in Nat
      /\ adding.time \in TimeRange /\ adding.len \in TimeRange
  BY DEF SourceInv, TypeOK, Adding
<1>2. HandlersOf[adding.evt] \in Seq(Handlers)
  BY <1>1, SourceAssumption
<1>3. adding.next \in 1 .. Len(HandlersOf[adding.evt])
  BY <1>1, <1>2, LenProperties DEF SourceInv, AddingNew
<1>4. HandlersOf[adding.evt][adding.next] \in Handlers
  BY <1>2, <1>3, ElementOfSeq
<1>5. sched[NextId] = None
  BY <1>1, <1>3 DEF SourceInv, AddingNew, NextId
<1> QED
  BY <1>1, <1>2, <1>3, <1>4, <1>5 DEF NextId, PairIds

\* add_event, one handler: a new pair in qq, its thread perhaps woken.
LEMMA AddPairKeeps ==
    ASSUME SourceInv, AddPair
    PROVE  Playing' /\ Locking' /\ AddingNew'
<1>1. /\ TypeOK /\ Contents /\ Apart /\ NoneLost /\ Histories /\ AddingNew
      /\ Locking /\ RestsWait /\ Continued /\ Buffered
  BY DEF SourceInv
<1>0. /\ NextId \in PairIds
      /\ [id |-> NextId, time |-> adding.time, len |-> adding.len, from |-> 0] \in Chunk
  BY NextIdIsNew DEF AddPair, Chunk
<1> PICK id \in PairIds : id = NextId
  BY <1>0
<1> PICK c \in Chunk :
        c = [id |-> NextId, time |-> adding.time, len |-> adding.len, from |-> 0]
  BY <1>0
<1> DEFINE m == Len(qq)
<1>2. /\ qq' = Append(qq, c)
      /\ sched' = [sched EXCEPT ![id] = [time |-> adding.time, len |-> adding.len]]
      /\ adding' = [adding EXCEPT !.next = @ + 1]
      /\ UNCHANGED <<opt, added, eh, readylist, lin_mut, pc, d_time, buf, start, gone>>
      /\ adding # None /\ adding.next <= Len(HandlersOf[adding.evt])
  BY DEF AddPair, NextId, blockVars, playVars
<1>3. /\ id \in PairIds /\ sched[id] = None
      /\ adding.evt \in Events /\ adding.next \in 1 .. Len(HandlersOf[adding.evt])
      /\ adding.time \in TimeRange /\ adding.len \in TimeRange
      /\ HandlersOf[adding.evt] \in Seq(Handlers)
  BY <1>2, NextIdIsNew
<1>4. start[id] = None /\ id \notin gone
  BY <1>1, <1>3 DEF Histories
<1>5. \A x \in PairIds : sched'[x] = IF x = id THEN [time |-> adding.time, len |-> adding.len]
                                     ELSE sched[x]
  BY <1>1, <1>2 DEF TypeOK
<1>6. c \in Chunk /\ c.id = id /\ c # None
  BY <1>1, ChunkTypes
<1>7. \A d \in Chunk : d # None /\ d.id \in PairIds
  BY <1>1, ChunkTypes
<1>8. ASSUME NEW d \in Chunk, Fresh(d) PROVE d.id # id /\ Fresh(d)'
  <2>1. sched[d.id] # None
    BY <1>8, NoneAssumption, <1>1, <1>7 DEF Fresh, Chunk
  <2> QED
    BY <1>2, <1>3, <1>5, <1>7, <1>8, <2>1 DEF Fresh
<1>9. ASSUME NEW d \in Chunk, Rest(d) PROVE d.id # id /\ Rest(d)'
  BY <1>2, <1>3, <1>5, <1>7, <1>9 DEF Rest
<1>10. Fresh(c)'
  BY <1>2, <1>3, <1>4, <1>5, <1>6 DEF Fresh
<1>11. /\ m \in Nat /\ Len(qq') = m + 1 /\ qq'[m + 1] = c
       /\ \A i \in 1 .. m : qq'[i] = qq[i] /\ qq[i] \in Chunk
       /\ \A i \in 1 .. Len(readylist) : readylist[i] \in Chunk
       /\ \A w \in Workers : eh[w] # None => eh[w] \in Chunk
  <2>1. qq \in Seq(Chunk)
    BY <1>1 DEF TypeOK
  <2> QED
    BY <1>1, <1>2, <1>6, <2>1, AppendProperties, ChunkTypes DEF TypeOK
<1> HIDE DEF m
<1>12. /\ \A i \in 1 .. m : qq[i].id # id
       /\ \A i \in 1 .. Len(readylist) : readylist[i].id # id
       /\ \A w \in Workers : eh[w] # None => eh[w].id # id
  BY <1>1, <1>8, <1>9, <1>11 DEF Contents, m
<1>13. Contents'
  <2>1. ASSUME NEW i \in 1 .. m + 1 PROVE Fresh(qq[i])'
    <3>1. CASE i = m + 1
      BY <1>10, <1>11, <3>1 DEF Fresh
    <3>2. CASE i # m + 1
      <4>1. i \in 1 .. m /\ qq'[i] = qq[i] /\ Fresh(qq[i])
        BY <1>1, <1>11, <3>2 DEF Contents, m
      <4> QED
        BY <1>8, <1>11, <4>1 DEF Fresh
    <3> QED
      BY <3>1, <3>2
  <2>2. \A w \in Workers : eh'[w] # None => Fresh(eh[w])'
    BY <1>1, <1>2, <1>8, <1>11 DEF Contents, Fresh
  <2>3. \A i \in 1 .. Len(readylist) : Fresh(readylist[i])' \/ Rest(readylist[i])'
    BY <1>1, <1>2, <1>8, <1>9, <1>11 DEF Contents, Fresh, Rest
  <2> QED
    BY <1>2, <1>11, <2>1, <2>2, <2>3 DEF Contents
<1>14. Apart'
  BY <1>1, <1>2, <1>6, <1>11, <1>12 DEF Apart, m
<1>15. NoneLost'
  <2> SUFFICES ASSUME NEW x \in PairIds, Pending(x)'
               PROVE  \/ \E i \in 1 .. m + 1 : qq'[i].id = x
                      \/ \E w \in Workers : eh[w] # None /\ eh[w].id = x
                      \/ \E i \in 1 .. Len(readylist) : readylist[i].id = x
    BY <1>2, <1>11 DEF NoneLost
  <2>1. CASE x = id
    BY <1>6, <1>11, <2>1
  <2>2. CASE x # id
    BY <1>1, <1>2, <1>5, <1>11, <2>2 DEF Pending, NoneLost, m
  <2> QED
    BY <2>1, <2>2
<1>16. Histories'
  BY <1>1, <1>2, <1>4, <1>5 DEF Histories
<1>17. RestsWait' /\ Locking'
  BY <1>1, <1>2 DEF RestsWait, Locking, OutEnd
<1>18. Continued'
  BY <1>1, <1>2, <1>4, <1>5 DEF Continued, OutEnd
<1>19. \A x \in PairIds : \A j \in Nat : Copied(x, j)' <=> Copied(x, j)
  BY <1>2, <1>4, <1>5 DEF Copied
<1>20. Buffered'
  BY <1>1, <1>2, <1>19, BufferedStays, ChunkTypes
<1>21. AddingNew'
  <2>1. /\ adding'.evt = adding.evt /\ adding'.time = adding.time
        /\ adding'.len = adding.len /\ adding'.next = adding.next + 1
    BY <1>1, <1>2 DEF TypeOK, Adding
  <2>2. ASSUME NEW k \in 1 .. Len(HandlersOf[adding.evt]), k >= adding.next + 1
        PROVE  sched'[<<adding.evt, HandlersOf[adding.evt][k]>>] = None
    <3> DEFINE H == HandlersOf[adding.evt]
    <3>1. H[k] # H[adding.next]
      <4>1. IsInjective(H) /\ DOMAIN H = 1 .. Len(H)
        BY <1>3, SourceAssumption, LenProperties
      <4>2. k # adding.next
        BY <1>3, <2>2
      <4> QED
        BY <1>3, <4>1, <4>2 DEF IsInjective
    <3>2. H[k] \in Handlers /\ <<adding.evt, H[k]>> \in PairIds
      BY <1>3, ElementOfSeq DEF PairIds
    <3>3. <<adding.evt, H[k]>> # id
      BY <3>1 DEF NextId
    <3>4. sched[<<adding.evt, H[k]>>] = None
      BY <1>1, <1>2, <1>3, <2>2 DEF AddingNew
    <3> QED
      BY <1>5, <3>2, <3>3, <3>4
  <2>3. ASSUME NEW e \in Events \ added', NEW h \in Handlers
        PROVE  sched'[<<e, h>>] = None
    <3>1. e # adding.evt /\ <<e, h>> \in PairIds
      BY <1>1, <1>2 DEF AddingNew, PairIds
    <3> QED
      BY <1>1, <1>2, <1>5, <3>1 DEF AddingNew, NextId
  <2>4. adding.time \in EventTimes /\ adding.len \in EventLens /\ adding.evt \in added
        /\ adding.next \in Nat
    BY <1>1, <1>2, <1>3 DEF AddingNew
  <2> QED
    BY <1>2, <2>1, <2>2, <2>3, <2>4 DEF AddingNew
<1> QED
  BY <1>13, <1>14, <1>15, <1>16, <1>17, <1>18, <1>20, <1>21 DEF Playing

\* A thread takes a pair from qq ...
LEMMA PopKeeps ==
    ASSUME SourceInv, NEW w \in Workers, Pop(w)
    PROVE  Playing' /\ Locking'
<1>1. /\ TypeOK /\ Contents /\ Apart /\ NoneLost /\ Histories
      /\ Locking /\ RestsWait /\ Continued /\ Buffered
  BY DEF SourceInv
<1>2. /\ qq # <<>> /\ qq' = Tail(qq) /\ eh' = [eh EXCEPT ![w] = Head(qq)]
      /\ UNCHANGED <<opt, readylist, lin_mut, pc, d_time, buf, sched, start, gone>>
      /\ eh[w] = None
  BY <1>1 DEF Pop, Goto, TypeOK, addVars, blockVars, playVars
<1> DEFINE m == Len(qq)
<1>3. /\ m \in Nat /\ m > 0 /\ Len(qq') = m - 1 /\ \A i \in 1 .. m - 1 : qq'[i] = qq[i + 1]
      /\ \A v \in Workers : eh'[v] = IF v = w THEN qq[1] ELSE eh[v]
      /\ qq[1] \in Chunk /\ qq[1] # None
  <2>1. qq \in Seq(Chunk)
    BY <1>1 DEF TypeOK
  <2>2. /\ Len(qq') = m - 1 /\ m \in Nat /\ m # 0
        /\ \A i \in 1 .. Len(Tail(qq)) : Tail(qq)[i] = qq[i + 1]
    BY <1>2, <2>1, HeadTailProperties, EmptySeq
  <2>3. Head(qq) = qq[1] /\ qq[1] \in Chunk /\ qq[1] # None
    BY <1>1, <2>1, <2>2, ElementOfSeq, ChunkTypes
  <2> QED
    BY <1>1, <1>2, <2>2, <2>3 DEF TypeOK
<1> HIDE DEF m
<1>4. Contents'
  <2>1. \A i \in 1 .. m - 1 : Fresh(qq[i])'
    BY <1>1, <1>2, <1>3 DEF Contents, Fresh, m
  <2>2. ASSUME NEW v \in Workers, eh'[v] # None PROVE Fresh(eh[v])'
    <3>1. CASE v = w
      <4>1. Fresh(qq[1]) /\ eh'[v] = qq[1]
        BY <1>1, <1>3, <3>1 DEF Contents, m
      <4> QED
        BY <1>2, <4>1 DEF Fresh
    <3>2. CASE v # w
      <4>1. Fresh(eh[v]) /\ eh'[v] = eh[v]
        BY <1>1, <1>3, <2>2, <3>2 DEF Contents
      <4> QED
        BY <1>2, <4>1 DEF Fresh
    <3> QED
      BY <3>1, <3>2
  <2>3. \A i \in 1 .. Len(readylist) : Fresh(readylist[i])' \/ Rest(readylist[i])'
    BY <1>1, <1>2 DEF Contents, Fresh, Rest
  <2> QED
    BY <1>2, <1>3, <2>1, <2>2, <2>3 DEF Contents
<1>5. Apart'
  <2>1. \A i, j \in 1 .. m - 1 : qq'[i].id = qq'[j].id => i = j
    BY <1>1, <1>3 DEF Apart, m
  <2>2. \A v \in Workers : eh'[v] # None =>
           IF v = w THEN eh'[v] = qq[1] ELSE eh'[v] = eh[v] /\ eh[v] # None
    BY <1>3
  <2>3. \A v, u \in Workers :
           eh'[v] # None /\ eh'[u] # None /\ eh'[v].id = eh'[u].id => v = u
    BY <1>1, <1>3, <2>2 DEF Apart, m
  <2>4. \A i \in 1 .. m - 1, v \in Workers : eh'[v] # None => eh'[v].id # qq'[i].id
    <3> SUFFICES ASSUME NEW i \in 1 .. m - 1, NEW v \in Workers, eh'[v] # None
                 PROVE  eh'[v].id # qq'[i].id
      OBVIOUS
    <3>1. 1 \in 1 .. m /\ i + 1 \in 1 .. m /\ i + 1 # 1 /\ qq'[i] = qq[i + 1]
      BY <1>3
    <3> QED
      BY <1>1, <2>2, <3>1 DEF Apart, m
  <2>5. \A i \in 1 .. m - 1, j \in 1 .. Len(readylist) : readylist[j].id # qq'[i].id
    BY <1>1, <1>3 DEF Apart, m
  <2>6. \A v \in Workers, j \in 1 .. Len(readylist) :
           eh'[v] # None => readylist[j].id # eh'[v].id
    BY <1>1, <1>3, <2>2 DEF Apart, m
  <2> QED
    BY <1>1, <1>2, <1>3, <2>1, <2>3, <2>4, <2>5, <2>6 DEF Apart
<1>6. NoneLost'
  <2> SUFFICES ASSUME NEW x \in PairIds, Pending(x)
               PROVE  \/ \E i \in 1 .. m - 1 : qq'[i].id = x
                      \/ \E v \in Workers : eh'[v] # None /\ eh'[v].id = x
                      \/ \E i \in 1 .. Len(readylist) : readylist[i].id = x
    BY <1>2, <1>3 DEF NoneLost, Pending
  <2>1. ASSUME NEW i \in 1 .. m, qq[i].id = x
        PROVE  \/ \E k \in 1 .. m - 1 : qq'[k].id = x
               \/ \E v \in Workers : eh'[v] # None /\ eh'[v].id = x
    <3>1. CASE i = 1
      BY <1>3, <2>1, <3>1
    <3>2. CASE i # 1
      <4>1. i - 1 \in 1 .. m - 1 /\ (i - 1) + 1 = i
        BY <1>3, <3>2
      <4> QED
        BY <1>3, <2>1, <4>1
    <3> QED
      BY <3>1, <3>2
  <2>2. ASSUME NEW v \in Workers, eh[v] # None, eh[v].id = x
        PROVE  eh'[v] # None /\ eh'[v].id = x
    BY <1>2, <1>3, <2>2
  <2> QED
    BY <1>1, <2>1, <2>2 DEF NoneLost, m
<1>7. Histories' /\ RestsWait' /\ Locking' /\ Continued'
  BY <1>1, <1>2 DEF Histories, RestsWait, Locking, Continued, OutEnd
<1>8. \A x \in PairIds : \A j \in Nat : Copied(x, j)' <=> Copied(x, j)
  BY <1>2 DEF Copied
<1>9. Buffered'
  BY <1>1, <1>2, <1>8, BufferedStays, ChunkTypes
<1> QED
  BY <1>4, <1>5, <1>6, <1>7, <1>9 DEF Playing

\* ... and has it in readylist when the handler has run.
LEMMA PublishKeeps ==
    ASSUME SourceInv, NEW w \in Workers, Publish(w)
    PROVE  Playing' /\ Locking'
<1>1. /\ TypeOK /\ Contents /\ Apart /\ NoneLost /\ Histories
      /\ Locking /\ RestsWait /\ Continued /\ Buffered
  BY DEF SourceInv
<1>2. /\ readylist' = Append(readylist, eh[w]) /\ eh' = [eh EXCEPT ![w] = None]
      /\ UNCHANGED <<opt, qq, lin_mut, pc, d_time, buf, sched, start, gone>>
      /\ eh[w] # None
  BY <1>1 DEF Publish, Goto, TypeOK, addVars, blockVars, playVars
<1>3. PICK c \in Chunk : c = eh[w]
  BY <1>1, <1>2 DEF TypeOK
<1> DEFINE m == Len(readylist)
<1>4. /\ m \in Nat /\ Len(readylist') = m + 1 /\ readylist'[m + 1] = c
      /\ \A i \in 1 .. m : readylist'[i] = readylist[i] /\ readylist[i] \in Chunk
      /\ \A v \in Workers : eh'[v] = IF v = w THEN None ELSE eh[v]
      /\ Fresh(c) /\ c # None /\ c.id \in PairIds /\ c.time \in Nat
  <2>1. readylist \in Seq(Chunk)
    BY <1>1 DEF TypeOK
  <2>2. Fresh(c)
    BY <1>1, <1>2, <1>3 DEF Contents
  <2> QED
    BY <1>1, <1>2, <1>3, <2>1, <2>2, AppendProperties, ChunkTypes DEF TypeOK
<1> HIDE DEF m
<1>5. Contents'
  <2>1. ASSUME NEW i \in 1 .. m + 1 PROVE Fresh(readylist[i])' \/ Rest(readylist[i])'
    <3>1. CASE i = m + 1
      BY <1>2, <1>4, <3>1 DEF Fresh
    <3>2. CASE i # m + 1
      <4>1. i \in 1 .. m /\ readylist'[i] = readylist[i]
            /\ (Fresh(readylist[i]) \/ Rest(readylist[i]))
        BY <1>1, <1>4, <3>2 DEF Contents, m
      <4> QED
        BY <1>2, <4>1 DEF Fresh, Rest
    <3> QED
      BY <3>1, <3>2
  <2>2. \A v \in Workers : eh'[v] # None => Fresh(eh[v])'
    BY <1>1, <1>2, <1>4 DEF Contents, Fresh
  <2>3. \A i \in 1 .. Len(qq) : Fresh(qq[i])'
    BY <1>1, <1>2 DEF Contents, Fresh
  <2> QED
    BY <1>2, <1>4, <2>1, <2>2, <2>3 DEF Contents
<1>6. Apart'
  BY <1>1, <1>2, <1>3, <1>4 DEF Apart, m
<1>7. NoneLost'
  <2> SUFFICES ASSUME NEW x \in PairIds, Pending(x)
               PROVE  \/ \E i \in 1 .. Len(qq) : qq[i].id = x
                      \/ \E v \in Workers : eh'[v] # None /\ eh'[v].id = x
                      \/ \E i \in 1 .. m + 1 : readylist'[i].id = x
    BY <1>2, <1>4 DEF NoneLost, Pending
  <2>1. ASSUME NEW v \in Workers, eh[v] # None, eh[v].id = x
        PROVE  \/ eh'[v] # None /\ eh'[v].id = x
               \/ \E i \in 1 .. m + 1 : readylist'[i].id = x
    BY <1>3, <1>4, <2>1
  <2>2. ASSUME NEW i \in 1 .. m, readylist[i].id = x
        PROVE  i \in 1 .. m + 1 /\ readylist'[i].id = x
    BY <1>4, <2>2
  <2> QED
    BY <1>1, <2>1, <2>2 DEF NoneLost, m
<1>8. Histories' /\ Locking'
  BY <1>1, <1>2 DEF Histories, Locking
<1>9. RestsWait'
  BY <1>1, <1>2, <1>4 DEF RestsWait, OutEnd, Fresh, m
<1>10. Continued'
  <2> SUFFICES ASSUME d_time < MaxLen, NEW x \in PairIds, start[x] # None,
                      start[x] + sched[x].len > OutEnd
               PROVE  \E i \in 1 .. m + 1 : readylist'[i].id = x /\ readylist'[i].from > 0
    BY <1>2, <1>4 DEF Continued, OutEnd
  <2>1. PICK i \in 1 .. m : readylist[i].id = x /\ readylist[i].from > 0
    BY <1>1 DEF Continued, m
  <2> QED
    BY <1>4, <2>1
<1>11. ASSUME NEW x \in PairIds, NEW j \in Nat PROVE Copied(x, j)' <=> Copied(x, j)
  <2>1. CASE x = c.id
    BY <1>2, <1>4, <2>1 DEF Copied, Fresh
  <2>2. CASE x # c.id
    <3>1. (\A i \in 1 .. m + 1 : readylist'[i].id = x => j < readylist'[i].time)
          <=> (\A i \in 1 .. m : readylist[i].id = x => j < readylist[i].time)
      BY <1>4, <2>2
    <3> QED
      BY <1>2, <1>4, <3>1 DEF Copied, m
  <2> QED
    BY <2>1, <2>2
<1>12. Buffered'
  BY <1>1, <1>2, <1>11, BufferedStays, ChunkTypes
<1> QED
  BY <1>5, <1>6, <1>7, <1>8, <1>9, <1>10, <1>12 DEF Playing

\* A late event given up: it is a whole one, for what is left of an event is
\* never late.
LEMMA GiveUpKeeps ==
    ASSUME SourceInv, DiscardLate \/ BalkLate
    PROVE  Playing' /\ Locking' /\ Fresh(readylist[1])
<1>1. /\ TypeOK /\ Contents /\ Apart /\ NoneLost /\ Histories
      /\ Locking /\ RestsWait /\ Continued /\ Buffered
  BY DEF SourceInv
<1>2. /\ HeadIsDue /\ readylist' = Tail(readylist) /\ gone' = gone \cup {readylist[1].id}
      /\ pc' \in {pc, "thrown"} /\ readylist[1].time < d_time
      /\ UNCHANGED <<opt, qq, eh, lin_mut, d_time, buf, sched, start>>
  BY DEF DiscardLate, BalkLate, HeadIsLate, addVars, poolVars, blockVars, playVars
<1> DEFINE m == Len(readylist)
<1>3. /\ m \in Nat /\ 1 \in 1 .. m /\ Len(readylist') = m - 1
      /\ \A i \in 1 .. m - 1 : readylist'[i] = readylist[i + 1]
      /\ \A i \in 1 .. m : readylist[i] \in Chunk
  BY <1>1, <1>2, HeadOfReady, ChunkTypes
<1>4. PICK c \in Chunk : c = readylist[1]
  BY <1>3
<1> HIDE DEF m
<1>5. Fresh(c) /\ c.id \in PairIds /\ c.time \in Nat
  BY <1>1, <1>2, <1>3, <1>4, ChunkTypes DEF Contents, Rest, m
<1>6. /\ \A i \in 2 .. m : readylist[i].id # c.id
      /\ \A i \in 1 .. Len(qq) : qq[i].id # c.id
      /\ \A w \in Workers : eh[w] # None => eh[w].id # c.id
  BY <1>1, <1>3, <1>4 DEF Apart, m
<1>7. Contents'
  <2>1. ASSUME NEW i \in 1 .. m - 1 PROVE Fresh(readylist[i])' \/ Rest(readylist[i])'
    <3>1. /\ i + 1 \in 2 .. m /\ i + 1 \in 1 .. m /\ readylist'[i] = readylist[i + 1]
          /\ Fresh(readylist[i + 1]) \/ Rest(readylist[i + 1])
      BY <1>1, <1>3 DEF Contents, m
    <3> QED
      BY <1>2, <1>4, <1>6, <3>1 DEF Fresh, Rest
  <2>2. \A w \in Workers : eh'[w] # None => Fresh(eh[w])'
    BY <1>1, <1>2, <1>4, <1>6 DEF Contents, Fresh
  <2>3. \A i \in 1 .. Len(qq) : Fresh(qq[i])'
    BY <1>1, <1>2, <1>4, <1>6 DEF Contents, Fresh
  <2> QED
    BY <1>2, <1>3, <2>1, <2>2, <2>3 DEF Contents
<1>8. Apart'
  <2>1. \A i \in 1 .. m - 1 : i + 1 \in 1 .. m /\ readylist'[i] = readylist[i + 1]
    BY <1>3
  <2>2. ASSUME NEW i \in 1 .. m - 1, NEW j \in 1 .. m - 1,
               readylist'[i].id = readylist'[j].id
        PROVE  i = j
    <3>1. i + 1 = j + 1
      BY <1>1, <2>1, <2>2 DEF Apart, m
    <3> QED
      BY <1>3, <3>1
  <2>3. /\ \A i \in 1 .. Len(qq), j \in 1 .. m - 1 : readylist'[j].id # qq[i].id
        /\ \A w \in Workers, j \in 1 .. m - 1 : eh[w] # None => readylist'[j].id # eh[w].id
    BY <1>1, <2>1 DEF Apart, m
  <2> QED
    BY <1>1, <1>2, <1>3, <2>2, <2>3 DEF Apart
<1>9. ASSUME NEW x \in PairIds, NEW i \in 1 .. m, readylist[i].id = x, x # c.id
      PROVE  i - 1 \in 1 .. m - 1 /\ readylist'[i - 1] = readylist[i]
  <2>1. i # 1
    BY <1>4, <1>9
  <2>2. i - 1 \in 1 .. m - 1 /\ (i - 1) + 1 = i
    BY <1>3, <2>1
  <2> QED
    BY <1>3, <2>2
<1>10. NoneLost'
  <2> SUFFICES ASSUME NEW x \in PairIds, Pending(x), x # c.id
               PROVE  \/ \E i \in 1 .. Len(qq) : qq[i].id = x
                      \/ \E v \in Workers : eh[v] # None /\ eh[v].id = x
                      \/ \E i \in 1 .. m - 1 : readylist'[i].id = x
    BY <1>2, <1>3, <1>4 DEF NoneLost, Pending
  <2> QED
    BY <1>1, <1>9 DEF NoneLost, m
<1>11. Histories'
  BY <1>1, <1>2, <1>4, <1>5, <1>3, NoneAssumption DEF Histories, Fresh, Chunk
<1>12. Locking'
  BY <1>1, <1>2 DEF Locking
<1>13. RestsWait'
  <2> SUFFICES ASSUME NEW i \in 1 .. m - 1, readylist'[i].from > 0
               PROVE  /\ \A j \in 1 .. (i - 1) : readylist'[j].time <= readylist'[i].time
                      /\ d_time < MaxLen => readylist'[i].time <= OutEnd
    BY <1>2, <1>3 DEF RestsWait, OutEnd
  <2>1. i + 1 \in 1 .. m /\ readylist'[i] = readylist[i + 1]
    BY <1>3
  <2>2. ASSUME NEW j \in 1 .. (i - 1) PROVE readylist'[j].time <= readylist'[i].time
    <3>1. j + 1 \in 1 .. ((i + 1) - 1) /\ readylist'[j] = readylist[j + 1]
      BY <1>3
    <3> QED
      BY <1>1, <2>1, <3>1 DEF RestsWait, m
  <2> QED
    BY <1>1, <2>1, <2>2 DEF RestsWait, m
<1>14. Continued'
  <2> SUFFICES ASSUME d_time < MaxLen, NEW x \in PairIds, start[x] # None,
                      start[x] + sched[x].len > OutEnd
               PROVE  \E i \in 1 .. m - 1 : readylist'[i].id = x /\ readylist'[i].from > 0
    BY <1>2, <1>3 DEF Continued, OutEnd
  <2>1. PICK i \in 1 .. m : readylist[i].id = x /\ readylist[i].from > 0
    BY <1>1 DEF Continued, m
  <2>2. x # c.id
    BY <1>5 DEF Fresh
  <2> QED
    BY <1>9, <2>1, <2>2
<1>15. ASSUME NEW x \in PairIds, NEW j \in Nat PROVE Copied(x, j)' <=> Copied(x, j)
  <2>1. CASE x = c.id
    BY <1>2, <1>5, <2>1 DEF Copied, Fresh
  <2>2. CASE x # c.id
    <3>1. ASSUME \A i \in 1 .. m - 1 : readylist'[i].id = x => j < readylist'[i].time
          PROVE  \A i \in 1 .. m : readylist[i].id = x => j < readylist[i].time
      BY <1>9, <2>2, <3>1
    <3>2. ASSUME \A i \in 1 .. m : readylist[i].id = x => j < readylist[i].time,
                 NEW i \in 1 .. m - 1
          PROVE  readylist'[i].id = x => j < readylist'[i].time
      <4>1. i + 1 \in 1 .. m /\ readylist'[i] = readylist[i + 1]
        BY <1>3
      <4> QED
        BY <3>2, <4>1
    <3> QED
      BY <1>2, <1>3, <3>1, <3>2 DEF Copied, m
  <2> QED
    BY <2>1, <2>2
<1>16. Buffered'
  BY <1>1, <1>2, <1>15, BufferedStays, ChunkTypes
<1> QED
  BY <1>4, <1>5, <1>7, <1>8, <1>10, <1>11, <1>12, <1>13, <1>14, <1>16 DEF Playing

\* Steps that leave readylist and the histories alone.
LEMMA PairsStay ==
    ASSUME SourceInv, UNCHANGED <<qq, eh, readylist, sched, start, gone>>,
           d_time' \in Nat,
           \A i \in 1 .. Len(readylist) : Rest(readylist[i]) => d_time' <= readylist[i].time
    PROVE  Contents' /\ Apart' /\ NoneLost' /\ Histories'
<1>1. Contents /\ Apart /\ NoneLost /\ Histories
  BY DEF SourceInv
<1>2. Contents'
  <2>1. \A i \in 1 .. Len(readylist) : Fresh(readylist[i])' \/ Rest(readylist[i])'
    BY <1>1 DEF Contents, Fresh, Rest
  <2> QED
    BY <1>1, <2>1 DEF Contents, Fresh
<1>3. Apart'
  BY <1>1 DEF Apart
<1>4. NoneLost' /\ Histories'
  BY <1>1 DEF NoneLost, Histories, Pending
<1> QED
  BY <1>2, <1>3, <1>4

\* work() begins with an empty buffer ...
LEMMA WorkBeginKeeps ==
    ASSUME SourceInv, NEW n \in 1 .. MaxOut, WorkBegin(n)
    PROVE  Playing' /\ Locking'
<1>1. /\ TypeOK /\ Contents /\ Locking /\ RestsWait /\ Continued
  BY DEF SourceInv
<1>2. /\ buf' = [i \in 1 .. n |-> {}] /\ lin_mut' = "work" /\ pc' = "play"
      /\ buf = <<>>
      /\ UNCHANGED <<opt, qq, eh, readylist, d_time, sched, start, gone>>
  BY <1>1 DEF WorkBegin, Locking, addVars, poolVars
<1>3. /\ n \in Nat /\ n > 0 /\ Len(buf') = n /\ \A i \in 1 .. n : buf'[i] = {}
      /\ Len(buf) = 0 /\ d_time \in Nat /\ MaxLen \in Nat
      /\ \A i \in 1 .. Len(readylist) : readylist[i].time \in Nat
  BY <1>1, <1>2, Constants, ChunkTypes, EmptySeq
<1>4. Contents' /\ Apart' /\ NoneLost' /\ Histories'
  BY <1>2, <1>3, PairsStay DEF Rest
<1>5. Locking'
  BY <1>2, <1>3 DEF Locking
<1>6. RestsWait'
  BY <1>1, <1>2, <1>3 DEF RestsWait, OutEnd
<1>7. \A x \in PairIds : start[x] # None => start[x] \in Nat /\ sched[x].len \in Nat
  BY <1>1, ChunkTypes DEF SourceInv, Histories
<1>8. Continued'
  BY <1>1, <1>2, <1>3, <1>7 DEF Continued, OutEnd
<1>9. ASSUME NEW i \in 1 .. n, d_time < MaxLen
      PROVE  Abstract!Merged(CopiedTo(d_time + i - 1), buf[i])'
  <2>1. d_time + i - 1 \in Nat /\ d_time + i - 1 >= d_time
    BY <1>3
  <2>2. ASSUME NEW x \in PairIds, NEW j \in Nat, j >= d_time PROVE ~Copied(x, j)'
    <3> SUFFICES ASSUME start[x] # None, j < start[x] + sched[x].len
                 PROVE  \E k \in 1 .. Len(readylist) :
                           readylist[k].id = x /\ ~(j < readylist[k].time)
      BY <1>2 DEF Copied
    <3>1. start[x] + sched[x].len > OutEnd
      BY <1>3, <1>7, <2>2 DEF OutEnd
    <3>2. PICK k \in 1 .. Len(readylist) : readylist[k].id = x /\ readylist[k].from > 0
      BY <1>1, <1>9, <3>1 DEF Continued
    <3>3. readylist[k].time <= d_time
      BY <1>1, <1>3, <1>9, <3>2 DEF RestsWait, OutEnd
    <3> QED
      BY <1>3, <2>2, <3>2, <3>3
  <2>3. CopiedTo(d_time + i - 1)' = {}
    BY <1>2, <2>1, <2>2 DEF CopiedTo
  <2>4. opt'.merge \in {"MEMCPY", "ADD"}
    BY <1>1, <1>2, SourceAssumption DEF TypeOK, OptionSpace
  <2> QED
    BY <1>3, <2>3, <2>4 DEF Abstract!Merged
<1>10. Buffered'
  BY <1>2, <1>3, <1>9 DEF Buffered
<1> QED
  BY <1>4, <1>5, <1>6, <1>8, <1>10 DEF Playing

\* When work() leaves its loop, nothing left of an event is due before the end
\* of the buffer.
LEMMA NoRestIsDue ==
    ASSUME SourceInv, ~HeadIsDue, NEW i \in 1 .. Len(readylist), readylist[i].from > 0
    PROVE  readylist[i].time >= OutEnd
<1>1. TypeOK /\ RestsWait
  BY DEF SourceInv
<1>2. /\ Len(readylist) \in Nat /\ d_time \in Nat /\ Len(buf) \in Nat
      /\ \A j \in 1 .. Len(readylist) : readylist[j].time \in Nat
  BY <1>1, ChunkTypes
<1>3. readylist # <<>>
  BY EmptySeq
<1>4. readylist[1].time >= OutEnd
  BY <1>2, <1>3 DEF HeadIsDue, OutEnd
<1>5. CASE i = 1
  BY <1>4, <1>5
<1>6. CASE i # 1
  <2>1. readylist[1].time <= readylist[i].time
    BY <1>1, <1>2, <1>6 DEF RestsWait
  <2> QED
    BY <1>2, <1>4, <2>1 DEF OutEnd
<1> QED
  BY <1>5, <1>6

\* ... and ends with one filled up to what the next pair allows.
LEMMA WorkEndKeeps ==
    ASSUME SourceInv, WorkEnd
    PROVE  Playing' /\ Locking'
<1>1. /\ TypeOK /\ Contents /\ Locking /\ RestsWait /\ Continued
  BY DEF SourceInv
<1>2. /\ ~HeadIsDue /\ lin_mut' = "free" /\ buf' = <<>> /\ pc' \in {"idle", "done"}
      /\ IF d_time = MaxLen THEN d_time' = d_time
         ELSE d_time' = d_time + Produced(Len(buf))
      /\ UNCHANGED <<opt, qq, eh, readylist, sched, start, gone>>
  BY DEF WorkEnd, addVars, poolVars
<1>3. /\ Len(buf) \in Nat /\ Len(buf') = 0 /\ d_time \in Nat /\ MaxLen \in Nat
      /\ \A i \in 1 .. Len(readylist) : readylist[i].time \in Nat
  BY <1>1, <1>2, ChunkTypes, EmptySeq
<1>4. d_time' \in Nat /\ d_time' <= OutEnd /\ (d_time' < MaxLen => d_time' = OutEnd)
  BY <1>1, <1>2, <1>3, Produces DEF OutEnd
<1>5. \A i \in 1 .. Len(readylist) : readylist[i].from > 0 => readylist[i].time >= OutEnd
  BY <1>2, NoRestIsDue
<1>6. Contents' /\ Apart' /\ NoneLost' /\ Histories'
  <2>1. \A i \in 1 .. Len(readylist) : Rest(readylist[i]) => d_time' <= readylist[i].time
    BY <1>3, <1>4, <1>5 DEF Rest, OutEnd
  <2> QED
    BY <1>2, <1>4, <2>1, PairsStay
<1>7. Locking'
  BY <1>2 DEF Locking
<1>8. d_time' < MaxLen => d_time < MaxLen /\ OutEnd' = OutEnd
  BY <1>3, <1>4, <1>2, <1>1, Produces DEF OutEnd
<1>9. RestsWait'
  BY <1>1, <1>2, <1>8 DEF RestsWait
<1>10. Continued'
  BY <1>1, <1>2, <1>8 DEF Continued
<1>11. Buffered'
  BY <1>2 DEF Buffered
<1> QED
  BY <1>6, <1>7, <1>9, <1>10, <1>11 DEF Playing

\* Where each element of readylist comes from when its head c is played: from a
\* place behind the head, or, for number 0, it is what is left of the head.
ComesFrom(src, c, t, n) ==
    /\ src \in [1 .. Len(readylist') -> 0 .. Len(readylist)]
    /\ \A j \in 1 .. Len(readylist') :
          IF src[j] = 0 THEN n < c.len /\ readylist'[j] = RestOf(c, t, n)
          ELSE src[j] >= 2 /\ readylist'[j] = readylist[src[j]]
    /\ \A j, k \in 1 .. Len(readylist') :
          /\ src[j] = src[k] => j = k
          /\ j < k /\ src[j] # 0 /\ src[k] # 0 => src[j] < src[k]
          /\ j < k /\ src[k] = 0 => readylist'[j].time <= t + n
          /\ k = j + 1 /\ src[j] = 0 => t + n < readylist'[k].time
    /\ \A k \in 2 .. Len(readylist) : \E j \in 1 .. Len(readylist') : src[j] = k
    /\ n < c.len => \E j \in 1 .. Len(readylist') : src[j] = 0

\* Where each element of readylist comes from after a step of Play.
LEMMA PlayMoves ==
    ASSUME TypeOK, NEW c, NEW t, NEW n, Plays(c, t, n)
    PROVE  \E src : ComesFrom(src, c, t, n)
<1> DEFINE m == Len(readylist)
<1>1. m \in Nat /\ 1 \in 1 .. m
  BY ChunkTypes DEF Plays
<1>2. CASE n < c.len
  <2> DEFINE d == RestOf(c, t, n)
  <2>1. PICK i \in 0 .. m - 1 : HeadReplaced(d, i)
    BY <1>2 DEF Plays
  <2>2. d.time = t + n
    BY DEF RestOf
  <2> HIDE DEF d, m
  <2>3. /\ Len(readylist') = m
        /\ \A j \in 1 .. m : readylist'[j] = IF j <= i THEN readylist[j + 1]
                                             ELSE IF j = i + 1 THEN d ELSE readylist[j]
        /\ \A j \in 1 .. i : readylist[j + 1].time <= d.time
        /\ i + 1 < m => d.time < readylist[i + 2].time
    BY <2>1 DEF HeadReplaced, m
  <2> DEFINE src == [j \in 1 .. m |-> IF j <= i THEN j + 1 ELSE IF j = i + 1 THEN 0 ELSE j]
  <2>4. \A j \in 1 .. m : src[j] = IF j <= i THEN j + 1 ELSE IF j = i + 1 THEN 0 ELSE j
    OBVIOUS
  <2>5. src \in [1 .. m -> 0 .. m]
    BY <1>1
  <2> HIDE DEF src
  <2>6. \A j \in 1 .. m : IF src[j] = 0 THEN readylist'[j] = d
                          ELSE src[j] >= 2 /\ readylist'[j] = readylist[src[j]]
    BY <1>1, <2>3, <2>4
  <2>7. \A j, k \in 1 .. m : /\ src[j] = src[k] => j = k
                             /\ j < k /\ src[j] # 0 /\ src[k] # 0 => src[j] < src[k]
    BY <1>1, <2>4
  <2>8. ASSUME NEW j \in 1 .. m, NEW k \in 1 .. m
        PROVE  /\ j < k /\ src[k] = 0 => readylist'[j].time <= d.time
               /\ k = j + 1 /\ src[j] = 0 => d.time < readylist'[k].time
    <3>1. src[k] = 0 => k = i + 1
      BY <1>1, <2>4
    <3>2. src[j] = 0 => j = i + 1
      BY <1>1, <2>4
    <3>3. j < k /\ src[k] = 0 => readylist'[j].time <= d.time
      BY <1>1, <2>3, <3>1
    <3>4. k = j + 1 /\ src[j] = 0 => d.time < readylist'[k].time
      BY <1>1, <2>3, <3>2
    <3> QED
      BY <3>3, <3>4
  <2>9. ASSUME NEW k \in 2 .. m PROVE \E j \in 1 .. m : src[j] = k
    <3>1. CASE k <= i + 1
      <4>1. k - 1 \in 1 .. m /\ k - 1 <= i /\ (k - 1) + 1 = k
        BY <1>1, <3>1
      <4> QED
        BY <2>4, <4>1
    <3>2. CASE k > i + 1
      BY <1>1, <2>4, <3>2
    <3> QED
      BY <3>1, <3>2
  <2>10. \E j \in 1 .. m : src[j] = 0
    <3>1. i + 1 \in 1 .. m
      BY <1>1
    <3> QED
      BY <2>4, <3>1
  <2>11. ComesFrom(src, c, t, n)
    BY <1>2, <2>2, <2>3, <2>5, <2>6, <2>7, <2>8, <2>9, <2>10 DEF ComesFrom, d, m
  <2> QED
    BY <2>11
<1>3. CASE ~(n < c.len)
  <2>1. HeadRemoved
    BY <1>3 DEF Plays
  <2> DEFINE src == [j \in 1 .. m - 1 |-> j + 1]
  <2> HIDE DEF m
  <2>2. Len(readylist') = m - 1 /\ \A j \in 1 .. m - 1 : readylist'[j] = readylist[j + 1]
    BY <2>1 DEF HeadRemoved, m
  <2>3. src \in [1 .. m - 1 -> 0 .. m] /\ \A j \in 1 .. m - 1 : src[j] = j + 1
    BY <1>1
  <2> HIDE DEF src
  <2>4. ASSUME NEW k \in 2 .. m PROVE \E j \in 1 .. m - 1 : src[j] = k
    <3>1. k - 1 \in 1 .. m - 1 /\ (k - 1) + 1 = k
      BY <1>1
    <3> QED
      BY <2>3, <3>1
  <2>5. \A j, k \in 1 .. m - 1 : /\ src[j] = src[k] => j = k
                                 /\ src[j] # 0 /\ src[j] >= 2
                                 /\ j < k => src[j] < src[k]
    BY <1>1, <2>3
  <2>6. ComesFrom(src, c, t, n)
    BY <1>3, <2>2, <2>3, <2>4, <2>5 DEF ComesFrom, m
  <2> QED
    BY <2>6
<1> QED
  BY <1>2, <1>3

\* What a play does to the histories and to what has been copied.
LEMMA PlayedHead ==
    ASSUME SourceInv, Play, NEW c \in Chunk, NEW t \in Nat, NEW n \in Nat, Plays(c, t, n)
    PROVE  /\ c.id \in PairIds /\ c.time \in Nat /\ c.len \in Nat /\ c.from \in Nat
           /\ Fresh(c) \/ (Rest(c) /\ t = c.time)
           /\ t - c.from \in Nat
           /\ \A x \in PairIds : start'[x] = IF x = c.id THEN t - c.from ELSE start[x]
           /\ sched[c.id] # None /\ sched[c.id].len = c.from + c.len /\ c.id \notin gone
           /\ \A i \in 2 .. Len(readylist) : readylist[i].id # c.id
           /\ \A i \in 1 .. Len(qq) : qq[i].id # c.id
           /\ \A w \in Workers : eh[w] # None => eh[w].id # c.id
<1>1. TypeOK /\ Contents /\ Apart /\ c = readylist[1] /\ 1 \in 1 .. Len(readylist)
  BY DEF SourceInv, Plays
<1>2. c.id \in PairIds /\ c.time \in Nat /\ c.len \in Nat /\ c.from \in Nat
  BY <1>1, ChunkTypes
<1>3. Fresh(c) \/ (Rest(c) /\ t = c.time)
  BY <1>1 DEF Contents, Plays, Rest
<1>4. t - c.from \in Nat
  BY <1>2, <1>3 DEF Fresh, Rest
<1>5. \A x \in PairIds : start'[x] = IF x = c.id THEN t - c.from ELSE start[x]
  BY <1>1 DEF Plays, TypeOK
<1>6. sched[c.id] # None /\ sched[c.id].len = c.from + c.len /\ c.id \notin gone
  <2>1. CASE Fresh(c)
    <3>1. [time |-> c.time, len |-> c.len] # None
      BY NoneAssumption DEF Chunk
    <3> QED
      BY <1>2, <2>1, <3>1 DEF Fresh
  <2>2. CASE Rest(c)
    BY <2>2 DEF Rest
  <2> QED
    BY <1>3, <2>1, <2>2
<1>7. /\ \A i \in 2 .. Len(readylist) : readylist[i].id # c.id
      /\ \A i \in 1 .. Len(qq) : qq[i].id # c.id
      /\ \A w \in Workers : eh[w] # None => eh[w].id # c.id
  <2>1. Len(readylist) \in Nat
    BY <1>1, ChunkTypes
  <2> QED
    BY <1>1, <2>1 DEF Apart
<1> QED
  BY <1>2, <1>3, <1>4, <1>5, <1>6, <1>7

\* Playing the head moves its pair, or puts the rest of it back, and touches no other.
LEMMA PlayKeepsPairs ==
    ASSUME SourceInv, Play
    PROVE  /\ Contents' /\ Apart' /\ NoneLost' /\ Histories'
           /\ RestsWait' /\ Continued' /\ Locking'
<1>1. /\ TypeOK /\ Contents /\ Apart /\ NoneLost /\ Histories
      /\ Locking /\ RestsWait /\ Continued
  BY DEF SourceInv
<1>2. PICK t \in Nat, n \in Nat : Plays(readylist[1], t, n)
  BY PlayDoes
<1>3. PICK c \in Chunk : c = readylist[1]
  BY <1>2 DEF Plays
<1>4. Plays(c, t, n)
  BY <1>2, <1>3
<1>5. /\ c.id \in PairIds /\ c.time \in Nat /\ c.len \in Nat /\ c.from \in Nat
      /\ Fresh(c) \/ (Rest(c) /\ t = c.time)
      /\ t - c.from \in Nat
      /\ \A x \in PairIds : start'[x] = IF x = c.id THEN t - c.from ELSE start[x]
      /\ sched[c.id] # None /\ sched[c.id].len = c.from + c.len /\ c.id \notin gone
      /\ \A i \in 2 .. Len(readylist) : readylist[i].id # c.id
      /\ \A i \in 1 .. Len(qq) : qq[i].id # c.id
      /\ \A w \in Workers : eh[w] # None => eh[w].id # c.id
  BY <1>4, PlayedHead
<1>6. /\ t >= d_time /\ t < OutEnd /\ n <= c.len /\ (n < c.len => t + n = OutEnd)
      /\ t + n <= OutEnd
  BY <1>4 DEF Plays
<1>7. PICK src : ComesFrom(src, c, t, n)
  BY <1>1, <1>4, PlayMoves
<1> DEFINE m == Len(readylist)
           mm == Len(readylist')
<1>8. /\ UNCHANGED <<opt, qq, eh, lin_mut, pc, d_time, sched, gone>>
      /\ Len(buf') = Len(buf) /\ OutEnd' = OutEnd
      /\ m \in Nat /\ OutEnd \in Nat /\ d_time \in Nat /\ MaxLen \in Nat
      /\ \A i \in 1 .. m : readylist[i] \in Chunk
      /\ \A e \in Chunk : e.time \in Nat /\ e.id \in PairIds
  <2>1. Len(buf') = Len(buf)
    BY <1>1, <1>4, WrittenCells DEF Plays
  <2> QED
    BY <1>1, <2>1, ChunkTypes DEF Play, addVars, poolVars, blockVars, OutEnd
<1>9. PICK d : d = RestOf(c, t, n)
  OBVIOUS
<1>10. d.id = c.id /\ d.time = t + n /\ d.len = c.len - n /\ d.from = c.from + n
  BY <1>9 DEF RestOf
<1> HIDE DEF m, mm
<1>11. /\ \A j \in 1 .. mm : src[j] \in 0 .. m
       /\ \A j \in 1 .. mm : src[j] = 0 => n < c.len /\ readylist'[j] = d
       /\ \A j \in 1 .. mm : src[j] # 0 => src[j] \in 2 .. m /\ readylist'[j] = readylist[src[j]]
       /\ \A j, k \in 1 .. mm : src[j] = src[k] => j = k
       /\ \A j, k \in 1 .. mm : j < k /\ src[j] # 0 /\ src[k] # 0 => src[j] < src[k]
       /\ \A j, k \in 1 .. mm : j < k /\ src[k] = 0 => readylist'[j].time <= t + n
       /\ \A j, k \in 1 .. mm : k = j + 1 /\ src[j] = 0 => t + n < readylist'[k].time
       /\ \A k \in 2 .. m : \E j \in 1 .. mm : src[j] = k
       /\ n < c.len => \E j \in 1 .. mm : src[j] = 0
  <2>1. \A j \in 1 .. mm : src[j] \in 0 .. m
    BY <1>7 DEF ComesFrom, m, mm
  <2>2. /\ \A j \in 1 .. mm : src[j] = 0 => n < c.len /\ readylist'[j] = d
        /\ \A j \in 1 .. mm : src[j] # 0 => src[j] >= 2 /\ readylist'[j] = readylist[src[j]]
    BY <1>7, <1>9 DEF ComesFrom, mm
  <2>3. ASSUME NEW j \in 1 .. mm, src[j] # 0
        PROVE  src[j] \in 2 .. m /\ readylist'[j] = readylist[src[j]]
    <3>1. m \in Nat /\ src[j] \in 0 .. m /\ src[j] >= 2
      BY <1>8, <2>1, <2>2, <2>3
    <3>2. src[j] \in 2 .. m
      BY <3>1
    <3> QED
      BY <2>2, <2>3, <3>2
  <2>4. /\ \A j, k \in 1 .. mm : src[j] = src[k] => j = k
        /\ \A j, k \in 1 .. mm : j < k /\ src[j] # 0 /\ src[k] # 0 => src[j] < src[k]
        /\ \A j, k \in 1 .. mm : j < k /\ src[k] = 0 => readylist'[j].time <= t + n
        /\ \A j, k \in 1 .. mm : k = j + 1 /\ src[j] = 0 => t + n < readylist'[k].time
    BY <1>7 DEF ComesFrom, mm
  <2>5. /\ \A k \in 2 .. m : \E j \in 1 .. mm : src[j] = k
        /\ n < c.len => \E j \in 1 .. mm : src[j] = 0
    BY <1>7 DEF ComesFrom, m, mm
  <2> QED
    BY <2>1, <2>2, <2>3, <2>4, <2>5
<1>12. n < c.len => Rest(d)'
  <2> SUFFICES ASSUME n < c.len PROVE Rest(d)'
    OBVIOUS
  <2>1. n > 0 /\ d.time = OutEnd
    BY <1>6, <1>8, <1>10
  <2>2. d.from > 0 /\ d.from + d.len = sched[c.id].len /\ d.time - d.from = t - c.from
    BY <1>5, <1>10, <2>1
  <2>3. d.time >= d_time
    BY <1>6, <1>8, <2>1
  <2> QED
    BY <1>5, <1>8, <1>10, <2>2, <2>3 DEF Rest
<1>13. ASSUME NEW e \in Chunk, e.id # c.id
       PROVE  (Fresh(e) => Fresh(e)') /\ (Rest(e) => Rest(e)')
  BY <1>5, <1>8, <1>13 DEF Fresh, Rest
<1>14. Contents'
  <2>1. ASSUME NEW j \in 1 .. mm PROVE Fresh(readylist[j])' \/ Rest(readylist[j])'
    <3>1. CASE src[j] = 0
      BY <1>11, <1>12, <3>1 DEF Rest
    <3>2. CASE src[j] # 0
      <4>1. PICK k \in 2 .. m : readylist'[j] = readylist[k]
        BY <1>11, <3>2
      <4>2. k \in 1 .. m /\ readylist[k] \in Chunk /\ readylist[k].id # c.id
        BY <1>5, <1>8, <4>1 DEF m
      <4>3. PICK e \in Chunk : e = readylist[k]
        BY <4>2
      <4>4. (Fresh(e) \/ Rest(e)) /\ e.id # c.id
        BY <1>1, <4>2, <4>3 DEF Contents, m
      <4>5. Fresh(e)' \/ Rest(e)'
        BY <1>13, <4>4
      <4> QED
        BY <4>1, <4>3, <4>5 DEF Fresh, Rest
    <3> QED
      BY <3>1, <3>2
  <2>2. \A w \in Workers : eh'[w] # None => Fresh(eh[w])'
    <3> SUFFICES ASSUME NEW w \in Workers, eh'[w] # None PROVE Fresh(eh[w])'
      OBVIOUS
    <3>1. eh' = eh /\ eh[w] \in Chunk /\ eh[w].id # c.id
      BY <1>1, <1>5, <1>8 DEF TypeOK
    <3>2. PICK e \in Chunk : e = eh[w]
      BY <3>1
    <3>3. Fresh(e) /\ e.id # c.id
      BY <1>1, <3>1, <3>2 DEF Contents
    <3>4. Fresh(e)'
      BY <1>13, <3>3
    <3> QED
      BY <3>1, <3>2, <3>4 DEF Fresh
  <2>3. \A i \in 1 .. Len(qq) : Fresh(qq[i])'
    <3>1. \A i \in 1 .. Len(qq) : qq[i].id \in PairIds
      BY <1>1, ChunkTypes
    <3> QED
      BY <1>1, <1>5, <1>8, <3>1 DEF Contents, Fresh
  <2> QED
    BY <1>8, <2>1, <2>2, <2>3 DEF Contents, mm
<1>15. ASSUME NEW j \in 1 .. mm
       PROVE  \/ readylist'[j].id = c.id /\ src[j] = 0
              \/ src[j] \in 2 .. m /\ readylist'[j].id = readylist[src[j]].id
                 /\ readylist'[j].id # c.id
  <2>1. \A k \in 2 .. m : readylist[k].id # c.id
    BY <1>5 DEF m
  <2> QED
    BY <1>10, <1>11, <2>1
<1>16. Apart'
  <2>1. ASSUME NEW i \in 1 .. mm, NEW j \in 1 .. mm, readylist'[i].id = readylist'[j].id
        PROVE  i = j
    <3>1. CASE src[i] = 0
      <4>1. src[j] = 0
        BY <1>8, <1>15, <2>1, <3>1
      <4> QED
        BY <1>11, <3>1, <4>1
    <3>2. CASE src[i] # 0
      <4>1. src[i] \in 1 .. m /\ src[j] \in 1 .. m /\ readylist[src[i]].id = readylist[src[j]].id
        BY <1>8, <1>15, <2>1, <3>2
      <4>2. src[i] = src[j]
        BY <1>1, <4>1 DEF Apart, m
      <4> QED
        BY <1>11, <4>2
    <3> QED
      BY <3>1, <3>2
  <2>2. ASSUME NEW i \in 1 .. Len(qq), NEW j \in 1 .. mm PROVE readylist'[j].id # qq[i].id
    <3>1. \A k \in 1 .. m : readylist[k].id # qq[i].id
      BY <1>1 DEF Apart, m
    <3>2. qq[i].id # c.id
      BY <1>5
    <3> QED
      BY <1>8, <1>15, <3>1, <3>2
  <2>3. ASSUME NEW w \in Workers, NEW j \in 1 .. mm, eh[w] # None
        PROVE  readylist'[j].id # eh[w].id
    <3>1. \A k \in 1 .. m : readylist[k].id # eh[w].id
      BY <1>1, <2>3 DEF Apart, m
    <3>2. eh[w].id # c.id
      BY <1>5, <2>3
    <3> QED
      BY <1>8, <1>15, <3>1, <3>2
  <2> QED
    BY <1>1, <1>8, <2>1, <2>2, <2>3 DEF Apart, mm
<1>17. ASSUME NEW x \in PairIds, x # c.id, NEW k \in 1 .. m, readylist[k].id = x
       PROVE  \E j \in 1 .. mm : readylist'[j] = readylist[k]
  <2>1. k \in 2 .. m
    BY <1>3, <1>8, <1>17
  <2>2. PICK j \in 1 .. mm : src[j] = k
    BY <1>11, <2>1
  <2> QED
    BY <1>11, <2>1, <2>2
<1>18. NoneLost'
  <2> SUFFICES ASSUME NEW x \in PairIds, Pending(x)'
               PROVE  \/ \E i \in 1 .. Len(qq) : qq[i].id = x
                      \/ \E v \in Workers : eh[v] # None /\ eh[v].id = x
                      \/ \E i \in 1 .. mm : readylist'[i].id = x
    BY <1>8 DEF NoneLost, mm
  <2>1. x # c.id
    BY <1>5, NoneAssumption DEF Pending
  <2>2. Pending(x)
    BY <1>5, <1>8, <2>1 DEF Pending
  <2> QED
    BY <1>1, <1>17, <2>1, <2>2 DEF NoneLost, m
<1>19. Histories'
  BY <1>1, <1>5, <1>8 DEF Histories
<1>20. Locking'
  BY <1>1, <1>8 DEF Locking, Play
<1>21. RestsWait'
  <2> SUFFICES ASSUME NEW k \in 1 .. mm, readylist'[k].from > 0
               PROVE  /\ \A j \in 1 .. (k - 1) : readylist'[j].time <= readylist'[k].time
                      /\ d_time < MaxLen => readylist'[k].time <= OutEnd
    BY <1>8 DEF RestsWait, mm
  <2>0. mm \in Nat
    BY <1>4, LenProperties DEF Plays, mm
  <2>1. CASE src[k] = 0
    <3>1. readylist'[k].time = t + n
      BY <1>10, <1>11, <2>1
    <3> QED
      BY <1>6, <1>11, <2>0, <2>1, <3>1
  <2>2. CASE src[k] # 0
    <3>1. src[k] \in 2 .. m /\ src[k] \in 1 .. m /\ readylist'[k] = readylist[src[k]]
      BY <1>8, <1>11, <2>2
    <3>2. /\ \A i \in 1 .. (src[k] - 1) : readylist[i].time <= readylist'[k].time
          /\ d_time < MaxLen => readylist'[k].time <= OutEnd
      BY <1>1, <2>2, <3>1 DEF RestsWait, m
    <3>3. ASSUME NEW j \in 1 .. (k - 1), src[j] # 0
          PROVE  readylist'[j].time <= readylist'[k].time
      <4>1. j \in 1 .. mm /\ j < k
        BY <2>0
      <4>2. src[j] < src[k] /\ src[j] \in 2 .. m /\ readylist'[j] = readylist[src[j]]
        BY <1>11, <2>2, <3>3, <4>1
      <4>3. src[j] \in 1 .. (src[k] - 1)
        BY <1>8, <3>1, <4>2
      <4> QED
        BY <3>2, <4>2, <4>3
    <3>4. ASSUME NEW j \in 1 .. (k - 1), src[j] = 0
          PROVE  readylist'[j].time <= readylist'[k].time
      <4>1. j \in 1 .. mm /\ j + 1 \in 1 .. mm
        BY <2>0
      <4>2. readylist'[j].time = t + n /\ t + n < readylist'[j + 1].time
        BY <1>10, <1>11, <3>4, <4>1
      <4>3. src[j + 1] # 0 /\ readylist'[j + 1].time \in Nat
        <5>1. src[j + 1] # src[j]
          BY <1>11, <4>1
        <5>2. src[j + 1] \in 2 .. m /\ readylist'[j + 1] = readylist[src[j + 1]]
          BY <1>11, <3>4, <4>1, <5>1
        <5> QED
          BY <1>8, <3>4, <5>1, <5>2 DEF m
      <4>4. readylist'[j + 1].time <= readylist'[k].time
        <5>1. CASE j + 1 = k
          BY <4>3, <5>1
        <5>2. CASE j + 1 # k
          <6>1. j + 1 \in 1 .. (k - 1)
            BY <2>0, <5>2
          <6> QED
            BY <3>3, <4>3, <6>1
        <5> QED
          BY <5>1, <5>2
      <4>5. readylist'[k].time \in Nat
        BY <1>8, <3>1
      <4> QED
        BY <4>2, <4>3, <4>4, <4>5
    <3> QED
      BY <3>2, <3>3, <3>4
  <2> QED
    BY <2>1, <2>2
<1>22. Continued'
  <2> SUFFICES ASSUME d_time < MaxLen, NEW x \in PairIds, start'[x] # None,
                      start'[x] + sched[x].len > OutEnd
               PROVE  \E i \in 1 .. mm : readylist'[i].id = x /\ readylist'[i].from > 0
    BY <1>8 DEF Continued, mm
  <2>1. CASE x = c.id
    <3>1. t + c.len > OutEnd
      BY <1>5, <1>8, <2>1
    <3>2. n < c.len
      BY <1>5, <1>6, <1>8, <3>1
    <3>3. d.from > 0
      BY <1>12, <3>2 DEF Rest
    <3> QED
      BY <1>10, <1>11, <2>1, <3>2, <3>3
  <2>2. CASE x # c.id
    <3>1. start[x] # None /\ start[x] + sched[x].len > OutEnd
      BY <1>5, <2>2
    <3>2. PICK k \in 1 .. m : readylist[k].id = x /\ readylist[k].from > 0
      BY <1>1, <3>1 DEF Continued, m
    <3> QED
      BY <1>17, <2>2, <3>2
  <2> QED
    BY <2>1, <2>2
<1> QED
  BY <1>14, <1>16, <1>18, <1>19, <1>20, <1>21, <1>22

\* A play copies the samples of its event that belong at the places it writes,
\* and only those.
LEMMA PlayCopies ==
    ASSUME SourceInv, Play, NEW c \in Chunk, NEW t \in Nat, NEW n \in Nat, Plays(c, t, n),
           NEW j \in Nat, j >= d_time, j < OutEnd, NEW x \in PairIds
    PROVE  /\ x # c.id => (Copied(x, j)' <=> Copied(x, j)) /\ start'[x] = start[x]
           /\ j - t \in 0 .. (n - 1) => Copied(c.id, j)' /\ ~Copied(c.id, j)
           /\ j - t \notin 0 .. (n - 1) => (Copied(c.id, j)' <=> Copied(c.id, j))
           /\ Copied(c.id, j) => start'[c.id] = start[c.id]
           /\ start'[c.id] = t - c.from
<1>1. TypeOK
  BY DEF SourceInv
<1>2. /\ c.id \in PairIds /\ c.time \in Nat /\ c.len \in Nat /\ c.from \in Nat
      /\ Fresh(c) \/ (Rest(c) /\ t = c.time)
      /\ t - c.from \in Nat
      /\ \A y \in PairIds : start'[y] = IF y = c.id THEN t - c.from ELSE start[y]
      /\ sched[c.id] # None /\ sched[c.id].len = c.from + c.len
      /\ \A i \in 2 .. Len(readylist) : readylist[i].id # c.id
  BY PlayedHead
<1>3. /\ t >= d_time /\ t < OutEnd /\ n <= c.len /\ (n < c.len => t + n = OutEnd)
      /\ t + n <= OutEnd /\ c = readylist[1] /\ 1 \in 1 .. Len(readylist)
  BY DEF Plays
<1>4. PICK src : ComesFrom(src, c, t, n)
  BY <1>1, PlayMoves
<1> DEFINE m == Len(readylist)
           mm == Len(readylist')
<1>5. /\ UNCHANGED <<d_time, sched>> /\ m \in Nat /\ OutEnd \in Nat /\ d_time \in Nat
      /\ \A k \in Nat : k # None
  BY <1>1, ChunkTypes DEF Play, addVars, OutEnd
<1> HIDE DEF m, mm
<1>6. ASSUME NEW i \in 1 .. mm, src[i] # 0
      PROVE  src[i] \in 2 .. m /\ readylist'[i] = readylist[src[i]]
  <2>1. src[i] \in 0 .. m /\ src[i] >= 2 /\ readylist'[i] = readylist[src[i]]
    BY <1>4, <1>6 DEF ComesFrom, m, mm
  <2> QED
    BY <1>5, <2>1
<1>7. ASSUME NEW i \in 1 .. mm, src[i] = 0
      PROVE  readylist'[i].id = c.id /\ readylist'[i].time = t + n /\ n < c.len
  BY <1>4, <1>7 DEF ComesFrom, RestOf, mm
<1>8. \A k \in 2 .. m : \E i \in 1 .. mm : src[i] = k
  BY <1>4 DEF ComesFrom, m, mm
<1>9. ASSUME NEW k \in 2 .. m
      PROVE  \E i \in 1 .. mm : readylist'[i] = readylist[k]
  <2>1. PICK i \in 1 .. mm : src[i] = k
    BY <1>8
  <2> QED
    BY <1>6, <2>1
<1>10. ASSUME x # c.id PROVE (Copied(x, j)' <=> Copied(x, j)) /\ start'[x] = start[x]
  <2>1. start'[x] = start[x]
    BY <1>2, <1>10
  <2>2. ASSUME \A i \in 1 .. m : readylist[i].id = x => j < readylist[i].time,
               NEW i \in 1 .. mm, readylist'[i].id = x
        PROVE  j < readylist'[i].time
    <3>1. src[i] # 0
      BY <1>7, <1>10, <2>2
    <3>2. src[i] \in 1 .. m /\ readylist'[i] = readylist[src[i]]
      BY <1>5, <1>6, <3>1
    <3> QED
      BY <2>2, <3>2
  <2>3. ASSUME \A i \in 1 .. mm : readylist'[i].id = x => j < readylist'[i].time,
               NEW k \in 1 .. m, readylist[k].id = x
        PROVE  j < readylist[k].time
    <3>1. k \in 2 .. m
      BY <1>3, <1>5, <1>10, <2>3
    <3> QED
      BY <1>9, <2>3, <3>1
  <2> QED
    BY <1>5, <2>1, <2>2, <2>3 DEF Copied, m, mm
<1>11. start'[c.id] = t - c.from /\ start'[c.id] # None
  BY <1>2, <1>5
<1>12. \A i \in 1 .. mm : readylist'[i].id = c.id => j < readylist'[i].time
  <2> SUFFICES ASSUME NEW i \in 1 .. mm, readylist'[i].id = c.id
               PROVE  j < readylist'[i].time
    OBVIOUS
  <2>1. CASE src[i] = 0
    <3>1. readylist'[i].time = t + n /\ t + n = OutEnd
      BY <1>3, <1>7, <2>1
    <3> QED
      BY <3>1
  <2>2. CASE src[i] # 0
    <3>1. src[i] \in 2 .. m /\ readylist'[i] = readylist[src[i]]
      BY <1>6, <2>2
    <3>2. readylist[src[i]].id # c.id
      BY <1>2, <3>1 DEF m
    <3> QED
      BY <3>1, <3>2
  <2> QED
    BY <2>1, <2>2
<1>13. Copied(c.id, j)' <=> t - c.from <= j /\ j < t + c.len
  <2>1. Copied(c.id, j)' <=> t - c.from <= j /\ j < (t - c.from) + (c.from + c.len)
    BY <1>2, <1>5, <1>11, <1>12 DEF Copied, mm
  <2> QED
    BY <1>2, <2>1
<1>14. CASE Fresh(c)
  <2>1. ~Copied(c.id, j) /\ c.from = 0
    BY <1>14 DEF Copied, Fresh
  <2>2. Copied(c.id, j)' <=> j - t \in 0 .. (n - 1)
    <3>1. c.len \in Nat /\ c.from = 0 /\ t \in Nat /\ n \in Nat /\ j \in Nat /\ j < OutEnd
      BY <1>2, <1>3, <1>5, <2>1
    <3>2. Copied(c.id, j)' <=> t <= j /\ j < t + c.len
      BY <1>13, <3>1
    <3>3. n = c.len \/ (n < c.len /\ t + n = OutEnd)
      BY <1>3, <3>1
    <3> QED
      BY <3>1, <3>2, <3>3
  <2> QED
    BY <1>10, <1>11, <2>1, <2>2
<1>15. CASE Rest(c) /\ t = c.time
  <2>1. start[c.id] = t - c.from
    BY <1>15 DEF Rest
  <2>2. (\A i \in 1 .. m : readylist[i].id = c.id => j < readylist[i].time) <=> j < t
    <3>1. \A i \in 1 .. m : i # 1 => i \in 2 .. m
      BY <1>5
    <3> QED
      BY <1>2, <1>3, <1>15, <3>1 DEF m
  <2>3. Copied(c.id, j) <=> t - c.from <= j /\ j < (t - c.from) + (c.from + c.len) /\ j < t
    BY <1>2, <1>5, <2>1, <2>2 DEF Copied, m
  <2>4. Copied(c.id, j) <=> t - c.from <= j /\ j < t
    BY <1>2, <2>3
  <2>5. j - t \in 0 .. (n - 1) => Copied(c.id, j)' /\ ~Copied(c.id, j)
    BY <1>2, <1>3, <1>13, <2>4
  <2>6. ASSUME j - t \notin 0 .. (n - 1) PROVE Copied(c.id, j)' <=> Copied(c.id, j)
    <3>1. CASE j < t
      <4>1. j < t + c.len
        BY <1>2, <3>1
      <4> QED
        BY <1>13, <2>4, <3>1, <4>1
    <3>2. CASE t <= j
      <4>1. j >= t + n
        BY <2>6, <3>2
      <4>2. ~(n < c.len)
        BY <1>3, <1>5, <4>1
      <4>3. ~(j < t + c.len)
        BY <1>2, <1>3, <4>1, <4>2
      <4> QED
        BY <1>13, <2>4, <3>2, <4>3
    <3> QED
      BY <3>1, <3>2
  <2> QED
    BY <1>10, <1>11, <2>1, <2>5, <2>6
<1> QED
  BY <1>2, <1>14, <1>15

\* What is in the buffer is the sum of what was placed, the piece just played included.
LEMMA PlayKeepsBuffer ==
    ASSUME SourceInv, Play
    PROVE  Buffered'
<1>1. TypeOK /\ Buffered /\ pc = "play"
  BY DEF SourceInv, Play
<1>2. PICK t \in Nat, n \in Nat : Plays(readylist[1], t, n)
  BY PlayDoes
<1>3. PICK c \in Chunk : c = readylist[1]
  BY <1>2 DEF Plays
<1>4. Plays(c, t, n)
  BY <1>2, <1>3
<1>5. /\ UNCHANGED <<opt, d_time>> /\ buf' = Written(c, t, n)
      /\ d_time \in Nat /\ Len(buf) \in Nat /\ Len(buf') = Len(buf)
      /\ c.id \in PairIds /\ c.from \in Nat
      /\ opt.merge \in {"MEMCPY", "ADD"}
  <2>1. opt.merge \in {"MEMCPY", "ADD"}
    BY <1>1, SourceAssumption DEF TypeOK, OptionSpace
  <2> QED
    <3>1. UNCHANGED <<opt, d_time>> /\ buf' = Written(c, t, n)
      BY <1>4 DEF Play, Plays
    <3>2. Len(Written(c, t, n)) = Len(buf)
      BY <1>1, WrittenCells
    <3>3. d_time \in Nat /\ Len(buf) \in Nat
      BY <1>1, LenProperties DEF TypeOK
    <3>4. c.id \in PairIds /\ c.from \in Nat
      BY <1>1, ChunkTypes
    <3> QED
      BY <2>1, <3>1, <3>2, <3>3, <3>4
<1>6. ASSUME NEW i \in 1 .. Len(buf), d_time < MaxLen
      PROVE  Abstract!Merged(CopiedTo(d_time + i - 1), buf[i])'
  <2>1. PICK j \in Nat : j = d_time + i - 1
    BY <1>5
  <2>2. j >= d_time /\ j < OutEnd
    BY <1>5, <2>1 DEF OutEnd
  <2>3. /\ \A x \in PairIds : x # c.id => (Copied(x, j)' <=> Copied(x, j)) /\ start'[x] = start[x]
        /\ j - t \in 0 .. (n - 1) => Copied(c.id, j)' /\ ~Copied(c.id, j)
        /\ j - t \notin 0 .. (n - 1) => (Copied(c.id, j)' <=> Copied(c.id, j))
        /\ Copied(c.id, j) => start'[c.id] = start[c.id]
        /\ start'[c.id] = t - c.from
    <3>1. ASSUME NEW x \in PairIds
          PROVE  /\ x # c.id => (Copied(x, j)' <=> Copied(x, j)) /\ start'[x] = start[x]
                 /\ j - t \in 0 .. (n - 1) => Copied(c.id, j)' /\ ~Copied(c.id, j)
                 /\ j - t \notin 0 .. (n - 1) => (Copied(c.id, j)' <=> Copied(c.id, j))
                 /\ Copied(c.id, j) => start'[c.id] = start[c.id]
                 /\ start'[c.id] = t - c.from
      BY <1>4, <2>2, PlayCopies
    <3> QED
      BY <1>5, <3>1
  <2>4. Abstract!Merged(CopiedTo(j), buf[i])
    BY <1>1, <1>6, <2>1 DEF Buffered
  <2>5. buf'[i] = IF j - t \notin 0 .. (n - 1) THEN buf[i]
                  ELSE IF opt.merge = "ADD" THEN buf[i] \cup {<<c.id, c.from + (j - t)>>}
                  ELSE {<<c.id, c.from + (j - t)>>}
    <3>1. TypeOK /\ c \in Chunk /\ t \in Nat /\ n \in Nat
      BY <1>1
    <3>2. \A h \in 1 .. Len(buf) :
             LET k == (d_time + h - 1) - t
             IN  Written(c, t, n)[h] =
                    IF k \notin 0 .. (n - 1) THEN buf[h]
                    ELSE IF opt.merge = "ADD" THEN buf[h] \cup {<<c.id, c.from + k>>}
                    ELSE {<<c.id, c.from + k>>}
      BY <3>1, WrittenCells
    <3>3. LET k == (d_time + i - 1) - t
          IN  Written(c, t, n)[i] =
                 IF k \notin 0 .. (n - 1) THEN buf[i]
                 ELSE IF opt.merge = "ADD" THEN buf[i] \cup {<<c.id, c.from + k>>}
                 ELSE {<<c.id, c.from + k>>}
      BY <1>6, <3>2
    <3>4. (d_time + i - 1) - t = j - t
      BY <2>1
    <3> QED
      BY <1>5, <3>3, <3>4
  <2>6. CASE j - t \notin 0 .. (n - 1)
    <3>1. \A x \in PairIds : /\ Copied(x, j)' <=> Copied(x, j)
                             /\ Copied(x, j) => start'[x] = start[x]
      BY <2>3, <2>6
    <3>2. CopiedTo(j)' = CopiedTo(j)
      BY <3>1 DEF CopiedTo
    <3> QED
      BY <1>5, <2>1, <2>4, <2>5, <2>6, <3>2 DEF Abstract!Merged
  <2>7. CASE j - t \in 0 .. (n - 1)
    <3> DEFINE y == <<c.id, c.from + (j - t)>>
    <3>1. j - start'[c.id] = c.from + (j - t)
      BY <1>5, <2>3
    <3>2. \A x \in PairIds : /\ Copied(x, j)' <=> x = c.id \/ Copied(x, j)
                             /\ Copied(x, j) => start'[x] = start[x]
      BY <1>5, <2>3, <2>7
    <3>3. y \in CopiedTo(j)'
      BY <1>5, <3>1, <3>2 DEF CopiedTo
    <3>4. CopiedTo(j) \subseteq CopiedTo(j)'
      BY <3>2 DEF CopiedTo
    <3>5. CopiedTo(j)' \subseteq CopiedTo(j) \cup {y}
      BY <3>1, <3>2 DEF CopiedTo
    <3> HIDE DEF y
    <3>6. CopiedTo(j)' = CopiedTo(j) \cup {y}
      BY <3>3, <3>4, <3>5
    <3>7. buf'[i] = IF opt.merge = "ADD" THEN buf[i] \cup {y} ELSE {y}
      BY <2>5, <2>7 DEF y
    <3>8. CASE opt.merge = "ADD"
      BY <1>5, <2>1, <2>4, <3>6, <3>7, <3>8 DEF Abstract!Merged
    <3>9. CASE opt.merge = "MEMCPY"
      BY <1>5, <2>1, <3>3, <3>7, <3>9 DEF Abstract!Merged
    <3> QED
      BY <1>5, <3>8, <3>9
  <2> QED
    BY <2>6, <2>7
<1> QED
  BY <1>5, <1>6 DEF Buffered

\* add_event begins with an event whose pairs are all new.
LEMMA BeginAddNew ==
    ASSUME SourceInv, NEW e \in Events, NEW t \in EventTimes, NEW n \in EventLens,
           BeginAdd(e, t, n)
    PROVE  AddingNew'
<1>1. AddingNew
  BY DEF SourceInv
<1>2. /\ adding' = [evt |-> e, time |-> t, len |-> n, next |-> 1]
      /\ added' = added \cup {e} /\ e \notin added /\ sched' = sched
  BY DEF BeginAdd
<1>3. /\ adding'.evt = e /\ adding'.time = t /\ adding'.len = n /\ adding'.next = 1
  BY <1>2
<1>4. ASSUME NEW k \in 1 .. Len(HandlersOf[e]) PROVE sched[<<e, HandlersOf[e][k]>>] = None
  <2>1. HandlersOf[e][k] \in Handlers
    BY SourceAssumption, ElementOfSeq
  <2> QED
    BY <1>1, <1>2, <2>1 DEF AddingNew
<1>5. \A d \in Events \ added', h \in Handlers : sched'[<<d, h>>] = None
  BY <1>1, <1>2 DEF AddingNew
<1>6. \A k \in 1 .. Len(HandlersOf[adding'.evt]) :
         sched'[<<adding'.evt, HandlersOf[adding'.evt][k]>>] = None
  BY <1>2, <1>3, <1>4
<1>7. adding'.evt \in added' /\ adding'.next >= 1
  BY <1>2, <1>3
<1> QED
  BY <1>3, <1>5, <1>6, <1>7 DEF AddingNew

\* The invariant holds at first ...
LEMMA InvInit == Init => SourceInv
<1> SUFFICES ASSUME Init PROVE SourceInv
  OBVIOUS
<1>1. TypeOK
  BY TypeInit
<1>2. /\ opt.threads \in Workers /\ adding = None /\ qq = <<>> /\ readylist = <<>>
      /\ buf = <<>> /\ lin_mut = "free" /\ pc = "idle" /\ joining = 1 /\ gone = {}
      /\ \A w \in Workers : eh[w] = None
      /\ \A x \in PairIds : sched[x] = None /\ start[x] = None
  BY <1>1, ThreadsRange DEF Init
<1>3. Len(qq) = 0 /\ Len(readylist) = 0
  BY <1>2, EmptySeq
<1>4. Contents /\ Apart /\ NoneLost /\ Histories
  BY <1>2, <1>3 DEF Contents, Apart, NoneLost, Histories, Pending
<1>5. AddingNew
  BY <1>2 DEF AddingNew, PairIds
<1>6. Locking
  BY <1>2 DEF Locking
<1>7. Joining
  BY <1>2, Constants DEF Joining, Workers
<1>8. RestsWait /\ Continued /\ Buffered
  BY <1>2, <1>3 DEF RestsWait, Continued, Buffered
<1> QED
  BY <1>1, <1>4, <1>5, <1>6, <1>7, <1>8 DEF SourceInv

\* ... and every step keeps it.
LEMMA InvStep == SourceInv /\ [Next]_vars => SourceInv'
<1> SUFFICES ASSUME SourceInv, [Next]_vars PROVE SourceInv'
  OBVIOUS
<1>0. TypeOK' /\ AddingNew /\ Joining /\ TypeOK
  BY TypeStep DEF SourceInv
<1> SUFFICES Playing' /\ Locking' /\ AddingNew' /\ Joining'
  BY <1>0 DEF SourceInv, Playing
<1> USE DEF vars, addVars, poolVars, playVars, blockVars
<1>1. ASSUME NEW e \in Events, NEW t \in EventTimes, NEW n \in EventLens, BeginAdd(e, t, n)
      PROVE  Playing' /\ Locking' /\ AddingNew' /\ Joining'
  BY <1>0, <1>1, QuietKeeps, BeginAddNew DEF BeginAdd, Joining
<1>2. CASE AddPair
  BY <1>0, <1>2, AddPairKeeps DEF AddPair, Joining
<1>3. CASE EndAdd
  <2>1. AddingNew'
    BY <1>0, <1>3 DEF EndAdd, AddingNew
  <2> QED
    BY <1>0, <1>3, <2>1, QuietKeeps DEF EndAdd, Joining
<1>4. ASSUME NEW w \in Workers, WorkerStep(w) \/ SpuriousWake(w)
      PROVE  Playing' /\ Locking' /\ AddingNew' /\ Joining'
  <2>1. UNCHANGED <<opt, adding, added, sched, pc, joining>>
    BY <1>4 DEF WorkerStep, Check, EnterWait, SpuriousWake, Pop, PopNothing, Run, Publish
  <2>2. AddingNew' /\ Joining'
    BY <1>0, <2>1 DEF AddingNew, Joining
  <2>3. CASE Check(w) \/ EnterWait(w) \/ SpuriousWake(w) \/ PopNothing(w) \/ Run(w)
    BY <2>2, <2>3, QuietKeeps DEF Check, EnterWait, SpuriousWake, PopNothing, Run
  <2> QED
    BY <1>4, <2>2, <2>3, PopKeeps, PublishKeeps DEF WorkerStep
<1>5. ASSUME NEW n \in 1 .. MaxOut, WorkBegin(n)
      PROVE  Playing' /\ Locking' /\ AddingNew' /\ Joining'
  BY <1>0, <1>5, WorkBeginKeeps DEF WorkBegin, AddingNew, Joining
<1>6. CASE DiscardLate \/ BalkLate
  BY <1>0, <1>6, GiveUpKeeps DEF DiscardLate, BalkLate, AddingNew, Joining
<1>7. CASE Play
  <2>1. Playing' /\ Locking'
    BY <1>7, PlayKeepsPairs, PlayKeepsBuffer DEF Playing
  <2> QED
    BY <1>0, <1>7, <2>1 DEF Play, AddingNew, Joining
<1>8. CASE WorkEnd
  BY <1>0, <1>8, WorkEndKeeps DEF WorkEnd, AddingNew, Joining
<1>9. CASE Destroy
  BY <1>0, <1>9, QuietKeeps DEF Destroy, AddingNew, Joining
<1>10. CASE StopThread
  BY <1>0, <1>10, QuietKeeps DEF StopThread, AddingNew, Joining
<1>11. CASE Joined
  <2>1. opt.threads \in Nat /\ joining \in 1 .. opt.threads
    BY <1>0, <1>11, ThreadsRange, Constants DEF Joining, Joined, Workers
  <2>2. Joining'
    BY <1>11, <2>1 DEF Joined, Joining
  <2> QED
    BY <1>0, <1>11, <2>2, QuietKeeps DEF Joined, AddingNew
<1>12. CASE UNCHANGED vars
  BY <1>0, <1>12, QuietKeeps DEF AddingNew, Joining
<1> QED
  BY <1>1, <1>2, <1>3, <1>4, <1>5, <1>6, <1>7, <1>8, <1>9, <1>10, <1>11, <1>12
     DEF Next, AddStep, WorkStep

-----------------------------------------------------------------------------
(* Theorems.                                                               *)

\* The invariant of es_source: every part of it in every reachable state.
THEOREM InvAlways == Spec => []SourceInv
<1>1. SourceInv /\ [Next]_vars => SourceInv'
  BY InvStep
<1> QED
  BY InvInit, <1>1, PTL DEF Spec

\* Every variable of es_source has its type in every state, and work() never
\* produces more than d_maxlen samples.
THEOREM TypeCorrect == Spec => []TypeOK
<1>1. SourceInv => TypeOK
  BY DEF SourceInv
<1> QED
  BY InvAlways, <1>1, PTL

\* Where a pair is, by the three ways it can be there.
LEMMA PlacesAre ==
    ASSUME NEW x, NEW p
    PROVE  p \in Places(x) <=>
              \/ \E i \in 1 .. Len(qq) : qq[i].id = x /\ p = <<"qq", i>>
              \/ \E w \in Workers : eh[w] # None /\ eh[w].id = x /\ p = <<"thread", w>>
              \/ \E i \in 1 .. Len(readylist) : readylist[i].id = x /\ p = <<"ready", i>>
  BY DEF Places

\* It says where every pair is.
LEMMA InvAccounted == SourceInv => Accounted
<1> SUFFICES ASSUME SourceInv, NEW x \in PairIds
             PROVE  IF sched[x] = None THEN Places(x) = {}
                    ELSE \/ /\ Cardinality(Places(x)) = 1 /\ x \notin gone
                            /\ start[x] # None => \E p \in Places(x) : p[1] = "ready"
                         \/ /\ Places(x) = {}
                            /\ (x \in gone) # (start[x] # None)
  BY DEF Accounted
<1>1. TypeOK /\ Contents /\ Apart /\ NoneLost /\ Histories
  BY DEF SourceInv
<1>2. ASSUME NEW c \in Chunk, c.id = x
      PROVE  /\ Fresh(c) => sched[x] # None /\ start[x] = None /\ x \notin gone
             /\ Rest(c) => sched[x] # None /\ start[x] # None /\ x \notin gone
  <2>1. [time |-> c.time, len |-> c.len] # None
    BY NoneAssumption DEF Chunk
  <2> QED
    BY <1>1, <1>2, <2>1, ChunkTypes DEF Fresh, Rest
<1>3. /\ \A i \in 1 .. Len(qq) : qq[i] \in Chunk /\ Fresh(qq[i])
      /\ \A w \in Workers : eh[w] # None => eh[w] \in Chunk /\ Fresh(eh[w])
      /\ \A i \in 1 .. Len(readylist) : /\ readylist[i] \in Chunk
                                        /\ Fresh(readylist[i]) \/ Rest(readylist[i])
  BY <1>1, ChunkTypes DEF Contents, TypeOK
<1>4. Places(x) # {} => sched[x] # None /\ x \notin gone
  BY <1>2, <1>3, PlacesAre
<1>5. ASSUME NEW p \in Places(x), start[x] # None PROVE p[1] = "ready"
  BY <1>2, <1>3, <1>5, PlacesAre
<1>6. ASSUME NEW p \in Places(x), NEW q \in Places(x) PROVE p = q
  <2>1. \A i \in 1 .. Len(qq), j \in 1 .. Len(qq) : qq[i].id = qq[j].id => i = j
    BY <1>1 DEF Apart
  <2>2. \A v, w \in Workers :
           eh[v] # None /\ eh[w] # None /\ eh[v].id = eh[w].id => v = w
    BY <1>1 DEF Apart
  <2>3. \A i, j \in 1 .. Len(readylist) : readylist[i].id = readylist[j].id => i = j
    BY <1>1 DEF Apart
  <2>4. /\ \A i \in 1 .. Len(qq), w \in Workers : eh[w] # None => eh[w].id # qq[i].id
        /\ \A i \in 1 .. Len(qq), j \in 1 .. Len(readylist) : readylist[j].id # qq[i].id
        /\ \A w \in Workers, j \in 1 .. Len(readylist) :
              eh[w] # None => readylist[j].id # eh[w].id
    BY <1>1 DEF Apart
  <2>5. CASE \E i \in 1 .. Len(qq) : qq[i].id = x /\ p = <<"qq", i>>
    BY <2>1, <2>4, <2>5, <1>6, PlacesAre
  <2>6. CASE \E w \in Workers : eh[w] # None /\ eh[w].id = x /\ p = <<"thread", w>>
    BY <2>2, <2>4, <2>6, <1>6, PlacesAre
  <2>7. CASE \E i \in 1 .. Len(readylist) : readylist[i].id = x /\ p = <<"ready", i>>
    BY <2>3, <2>4, <2>7, <1>6, PlacesAre
  <2> QED
    BY <1>6, <2>5, <2>6, <2>7, PlacesAre
<1>7. CASE Places(x) # {}
  <2>1. PICK p \in Places(x) : TRUE
    BY <1>7
  <2>2. Places(x) = {p}
    BY <1>6, <2>1
  <2>3. Cardinality(Places(x)) = 1
    BY <2>2, FS_Singleton
  <2> QED
    BY <1>4, <1>5, <1>7, <2>1, <2>3
<1>8. CASE Places(x) = {}
  <2>1. \/ sched[x] = None \/ start[x] # None \/ x \in gone
    BY <1>1, <1>8, PlacesAre DEF NoneLost, Pending
  <2>2. x \in gone => start[x] = None
    BY <1>1 DEF Histories
  <2> QED
    BY <1>8, <2>1, <2>2
<1> QED
  BY <1>7, <1>8

\* No handler thread loses a pair that was pushed to it, or serves one twice.
THEOREM AccountedAlways == Spec => []Accounted
  BY InvAlways, InvAccounted, PTL

\* The invariant is the refinement's: a step of the block is a step of the
\* promised playout, or none.
LEMMA ImplementsInit == Init => Abstract!Init
<1> SUFFICES ASSUME Init PROVE Abstract!Init
  OBVIOUS
<1>1. opt.merge \in {"MEMCPY", "ADD"}
  BY SourceAssumption DEF Init, OptionSpace
<1> QED
  BY <1>1 DEF Init, Abstract!Init

\* add_event schedules an event of Playout.
LEMMA ImplementsSchedule ==
    ASSUME SourceInv, AddPair
    PROVE  Abstract!Next
<1>1. /\ NextId \in PairIds /\ sched[NextId] = None
      /\ sched' = [sched EXCEPT ![NextId] = [time |-> adding.time, len |-> adding.len]]
      /\ UNCHANGED <<opt, start, gone, out>>
  BY NextIdIsNew DEF AddPair, NextId, playVars
<1>2. adding.time \in EventTimes /\ adding.len \in EventLens
  BY DEF AddPair, SourceInv, AddingNew
<1>3. Abstract!Schedule(NextId, adding.time, adding.len)
  BY <1>1 DEF Abstract!Schedule
<1> QED
  BY <1>1, <1>2, <1>3 DEF Abstract!Next

\* A late event that is discarded or balked at is one given up.
LEMMA ImplementsGiveUp ==
    ASSUME SourceInv, DiscardLate \/ BalkLate
    PROVE  Abstract!Next
<1>1. Fresh(readylist[1]) /\ readylist[1] \in Chunk /\ TypeOK
  BY GiveUpKeeps, HeadOfReady DEF SourceInv, DiscardLate, BalkLate, HeadIsLate
<1>2. PICK c \in Chunk : c = readylist[1]
  BY <1>1
<1>3. /\ c.time < d_time /\ gone' = gone \cup {c.id} /\ opt.early \in {"DISCARD", "BALK"}
      /\ UNCHANGED <<opt, sched, start, out>>
  BY <1>2 DEF DiscardLate, BalkLate, HeadIsLate, addVars
<1>4. c.id \in PairIds /\ Len(out) = d_time
  BY <1>1, ChunkTypes DEF TypeOK
<1>5. [time |-> c.time, len |-> c.len] # None
  BY NoneAssumption DEF Chunk
<1>6. Abstract!GiveUp(c.id)
  BY <1>1, <1>2, <1>3, <1>4, <1>5
     DEF Abstract!GiveUp, Abstract!Waits, Abstract!Now, Fresh
<1> QED
  BY <1>4, <1>6 DEF Abstract!Next

\* The first piece of an event places it; the others change nothing in Playout.
LEMMA ImplementsPlace ==
    ASSUME SourceInv, Play
    PROVE  Abstract!Next \/ UNCHANGED Abstract!vars
<1>1. TypeOK
  BY DEF SourceInv
<1>2. PICK t \in Nat, n \in Nat : Plays(readylist[1], t, n)
  BY PlayDoes
<1>3. PICK c \in Chunk : c = readylist[1]
  BY <1>2 DEF Plays
<1>4. Plays(c, t, n)
  BY <1>2, <1>3
<1>5. /\ c.id \in PairIds /\ c.time \in Nat /\ c.from \in Nat
      /\ Fresh(c) \/ (Rest(c) /\ t = c.time)
      /\ t - c.from \in Nat
      /\ \A x \in PairIds : start'[x] = IF x = c.id THEN t - c.from ELSE start[x]
      /\ sched[c.id] # None /\ c.id \notin gone
  BY <1>4, PlayedHead
<1>6. /\ UNCHANGED <<opt, sched, gone, out>> /\ Len(out) = d_time /\ t - c.from # None
      /\ start' = [start EXCEPT ![c.id] = t - c.from]
      /\ t = c.time \/ (opt.early \in {"ASAP", "RNDF"} /\ c.time < d_time)
      /\ t >= d_time
  BY <1>1, <1>4, <1>5, ChunkTypes DEF Play, Plays, TypeOK, addVars
<1>7. CASE Fresh(c)
  <2>1. /\ c.from = 0 /\ t - c.from = t /\ start[c.id] = None
        /\ sched[c.id].time = c.time
    BY <1>5, <1>7 DEF Fresh
  <2>2. start'[c.id] = t
    BY <1>5, <2>1
  <2>3. Abstract!Place(c.id)
    BY <1>5, <1>6, <2>1, <2>2 DEF Abstract!Place, Abstract!Waits, Abstract!Now
  <2> QED
    BY <1>5, <2>3 DEF Abstract!Next
<1>8. CASE Rest(c) /\ t = c.time
  <2>1. start[c.id] = t - c.from
    BY <1>8 DEF Rest
  <2>2. start' = start
    BY <1>1, <1>6, <2>1 DEF TypeOK
  <2> QED
    BY <1>6, <2>2 DEF Abstract!vars
<1> QED
  BY <1>5, <1>7, <1>8

\* A call of work() that returns emits the samples it has filled in.
LEMMA ImplementsEmit ==
    ASSUME SourceInv, WorkEnd
    PROVE  Abstract!Next \/ UNCHANGED Abstract!vars
<1>1. TypeOK /\ Buffered /\ pc = "play" /\ ~HeadIsDue
  BY DEF SourceInv, WorkEnd
<1>2. CASE d_time = MaxLen
  BY <1>2 DEF WorkEnd, Abstract!vars, addVars
<1>3. CASE d_time # MaxLen
  <2> DEFINE k == Produced(Len(buf))
             b == SubSeq(buf, 1, k)
  <2>1. /\ k \in 0 .. Len(buf) /\ b \in Seq(Cells) /\ Len(b) = k
        /\ \A i \in 1 .. k : b[i] = buf[i]
    BY <1>1, <1>3, Produces
  <2>2. out' = out \o b /\ UNCHANGED <<opt, sched, start, gone>>
    BY <1>3 DEF WorkEnd, addVars
  <2> HIDE DEF k, b
  <2>3. /\ out \in Seq(Cells) /\ Len(out) = d_time /\ d_time \in Nat /\ Len(buf) \in Nat
        /\ d_time < MaxLen
    BY <1>1, <1>3, ChunkTypes DEF TypeOK, Cells
  <2>4. /\ Len(out') = d_time + k
        /\ \A j \in 1 .. d_time + k : out'[j] = IF j <= d_time THEN out[j] ELSE b[j - d_time]
    BY <2>1, <2>2, <2>3, ConcatProperties
  <2>5. ASSUME NEW j \in Nat, j < OutEnd PROVE CopiedTo(j) = Abstract!Due(j)
    <3>1. ASSUME NEW i \in 1 .. Len(readylist), start[readylist[i].id] # None
          PROVE  j < readylist[i].time
      <4>1. /\ readylist[i] \in Chunk /\ readylist[i].time \in Nat
            /\ readylist[i].from \in Nat /\ OutEnd \in Nat
        BY <1>1, <2>3, ChunkTypes DEF OutEnd
      <4>2. Fresh(readylist[i]) \/ Rest(readylist[i])
        BY DEF SourceInv, Contents
      <4>3. readylist[i].from > 0
        BY <3>1, <4>2 DEF Fresh, Rest
      <4>4. readylist[i].time >= OutEnd
        BY <1>1, <4>3, NoRestIsDue
      <4> QED
        BY <2>5, <4>1, <4>4
    <3>2. ASSUME NEW x \in PairIds
          PROVE  Copied(x, j) <=> start[x] # None /\ start[x] <= j /\ j < start[x] + sched[x].len
      BY <3>1 DEF Copied
    <3> QED
      BY <3>2 DEF CopiedTo, Abstract!Due
  <2>6. ASSUME NEW j \in 1 .. d_time + k, ~(j <= d_time)
        PROVE  Abstract!Merged(Abstract!Due(j - 1), out'[j])
    <3>1. PICK i \in 1 .. k : i = j - d_time
      BY <2>1, <2>3, <2>6
    <3>2. /\ i \in 1 .. Len(buf) /\ out'[j] = buf[i] /\ j - 1 = d_time + i - 1
          /\ j - 1 \in Nat /\ j - 1 < OutEnd
      BY <2>1, <2>3, <2>4, <2>6, <3>1 DEF OutEnd
    <3>3. Abstract!Merged(CopiedTo(j - 1), out'[j])
      BY <1>1, <2>3, <3>2 DEF Buffered
    <3> QED
      BY <2>5, <3>2, <3>3
  <2>7. Abstract!Emit
    <3>1. Len(out') >= Len(out)
      BY <2>1, <2>3, <2>4
    <3>2. \A j \in 1 .. Len(out') :
             IF j <= Len(out) THEN out'[j] = out[j]
             ELSE Abstract!Merged(Abstract!Due(j - 1), out'[j])
      BY <2>3, <2>4, <2>6
    <3> QED
      BY <2>2, <3>1, <3>2 DEF Abstract!Emit
  <2> QED
    BY <2>7 DEF Abstract!Next
<1> QED
  BY <1>2, <1>3

\* Every step of es_source is a step of Playout or leaves its variables alone.
LEMMA ImplementsStep ==
    SourceInv /\ [Next]_vars => [Abstract!Next]_(Abstract!vars)
<1> SUFFICES ASSUME SourceInv, [Next]_vars
             PROVE  Abstract!Next \/ UNCHANGED Abstract!vars
  OBVIOUS
<1>1. CASE AddPair
  BY <1>1, ImplementsSchedule
<1>2. CASE DiscardLate \/ BalkLate
  BY <1>2, ImplementsGiveUp
<1>3. CASE Play
  BY <1>3, ImplementsPlace
<1>4. CASE WorkEnd
  BY <1>4, ImplementsEmit
<1>5. ASSUME UNCHANGED <<opt, sched, start, gone, out>> PROVE UNCHANGED Abstract!vars
  BY <1>5 DEF Abstract!vars
<1>6. ASSUME NEW e \in Events, NEW t \in EventTimes, NEW n \in EventLens, BeginAdd(e, t, n)
      PROVE  UNCHANGED <<opt, sched, start, gone, out>>
  BY <1>6 DEF BeginAdd, playVars
<1>7. ASSUME NEW w \in Workers, WorkerStep(w) \/ SpuriousWake(w)
      PROVE  UNCHANGED <<opt, sched, start, gone, out>>
  BY <1>7 DEF WorkerStep, Check, EnterWait, SpuriousWake, Pop, PopNothing, Run, Publish,
              addVars, playVars
<1>8. ASSUME NEW n \in 1 .. MaxOut, WorkBegin(n)
      PROVE  UNCHANGED <<opt, sched, start, gone, out>>
  BY <1>8 DEF WorkBegin, addVars
<1>9. ASSUME EndAdd \/ Destroy \/ StopThread \/ Joined \/ UNCHANGED vars
      PROVE  UNCHANGED <<opt, sched, start, gone, out>>
  BY <1>9 DEF EndAdd, Destroy, StopThread, Joined, vars, addVars, playVars
<1> QED
  BY <1>1, <1>2, <1>3, <1>4, <1>5, <1>6, <1>7, <1>8, <1>9 DEF Next, AddStep, WorkStep

\* es_source plays out what Playout promises: every step of its threads and of
\* work() is a step of the promised playout or leaves it alone.
THEOREM SourcePlaysOut == Spec => PlaysOut
<1>1. SourceInv /\ [Next]_vars => [Abstract!Next]_(Abstract!vars)
  BY ImplementsStep
<1> QED
  BY ImplementsInit, InvAlways, <1>1, PTL DEF Spec, PlaysOut, Abstract!Spec

-----------------------------------------------------------------------------
(* One thread, and events in the order of their times.                     *)

\* Then pairs go through qq and the thread in that order, and readylist is in
\* order except for what is due already.
InOrder ==
    /\ \A w \in Workers : w # 1 => wpc[w] = "exited"
    /\ adding # None => \A x \in PairIds : sched[x] # None => sched[x].time <= adding.time
    /\ \A i, j \in 1 .. Len(qq) : i < j => qq[i].time <= qq[j].time
    /\ \A w \in Workers, i \in 1 .. Len(qq) : eh[w] # None => eh[w].time <= qq[i].time
    /\ \A j \in 1 .. Len(readylist) : readylist[j].from = 0 =>
          /\ \A w \in Workers : eh[w] # None => readylist[j].time <= eh[w].time
          /\ \A i \in 1 .. Len(qq) : readylist[j].time <= qq[i].time
    /\ d_time < MaxLen =>
          \A i, j \in 1 .. Len(readylist) : i < j =>
             readylist[i].time <= readylist[j].time \/ readylist[i].time <= d_time

OrderInv == opt.ordered /\ opt.threads = 1 => InOrder

\* With one thread and events in order: at first,
LEMMA OrderInit == Init => OrderInv
<1> SUFFICES ASSUME Init, opt.threads = 1 PROVE InOrder
  BY DEF OrderInv
<1>1. \A w \in Workers : w # 1 => wpc[w] = "exited"
  BY Constants DEF Init, Workers
<1>2. Len(qq) = 0 /\ Len(readylist) = 0 /\ adding = None
  BY EmptySeq DEF Init
<1> QED
  BY <1>1, <1>2 DEF InOrder

\* Steps that touch neither pairs nor times.
LEMMA OrderStays ==
    ASSUME InOrder, UNCHANGED <<qq, eh, readylist, sched>>,
           adding' = None \/ adding' = adding,
           \A w \in Workers : wpc[w] = "exited" => wpc'[w] = "exited",
           d_time \in Nat, d_time' \in Nat, d_time <= d_time', MaxLen \in Nat,
           \A i \in 1 .. Len(readylist) : readylist[i].time \in Nat
    PROVE  InOrder'
<1>1. \A w \in Workers : w # 1 => wpc'[w] = "exited"
  BY DEF InOrder
<1>2. adding' # None => \A x \in PairIds : sched[x] # None => sched[x].time <= adding'.time
  BY DEF InOrder
<1>3. d_time' < MaxLen =>
          \A i, j \in 1 .. Len(readylist) : i < j =>
             readylist[i].time <= readylist[j].time \/ readylist[i].time <= d_time'
  BY DEF InOrder
<1> QED
  BY <1>1, <1>2, <1>3 DEF InOrder

\* ... when an event is added behind those before it,
LEMMA OrderAddPair ==
    ASSUME SourceInv, InOrder, AddPair
    PROVE  InOrder'
<1>1. TypeOK /\ Contents
  BY DEF SourceInv
<1>2. /\ NextId \in PairIds
      /\ [id |-> NextId, time |-> adding.time, len |-> adding.len, from |-> 0] \in Chunk
      /\ adding.time \in Nat
  BY NextIdIsNew, Constants DEF AddPair, Chunk
<1>3. PICK c \in Chunk :
          c = [id |-> NextId, time |-> adding.time, len |-> adding.len, from |-> 0]
  BY <1>2
<1>4. /\ qq' = Append(qq, c) /\ NotifyOne
      /\ sched' = [sched EXCEPT ![NextId] = [time |-> adding.time, len |-> adding.len]]
      /\ adding' = [adding EXCEPT !.next = @ + 1] /\ adding # None
      /\ UNCHANGED <<eh, readylist, d_time>>
  BY <1>3 DEF AddPair, NextId, playVars
<1>5. PICK t \in Nat : t = adding.time
  BY <1>2
<1>6. adding'.time = t /\ c.time = t
  BY <1>1, <1>3, <1>4, <1>5 DEF TypeOK, Adding
<1>7. ASSUME NEW d \in Chunk, Fresh(d) PROVE d.time <= t
  <2>1. d.id \in PairIds /\ sched[d.id] # None /\ sched[d.id].time = d.time
    BY <1>7, NoneAssumption DEF Fresh, Chunk
  <2> QED
    BY <1>4, <1>5, <2>1 DEF InOrder
<1> DEFINE m == Len(qq)
<1>8. /\ m \in Nat /\ Len(qq') = m + 1 /\ qq'[m + 1] = c
      /\ \A i \in 1 .. m : qq'[i] = qq[i] /\ qq[i].time <= t
      /\ \A w \in Workers : eh[w] # None => eh[w].time <= t
      /\ \A j \in 1 .. Len(readylist) : readylist[j].from = 0 => readylist[j].time <= t
  <2>1. /\ m \in Nat /\ Len(qq') = m + 1 /\ qq'[m + 1] = c
        /\ \A i \in 1 .. m : qq'[i] = qq[i] /\ qq[i] \in Chunk /\ Fresh(qq[i])
    BY <1>1, <1>4, AppendProperties, ChunkTypes DEF TypeOK, Contents
  <2>2. \A w \in Workers : eh[w] # None => eh[w] \in Chunk /\ Fresh(eh[w])
    BY <1>1 DEF TypeOK, Contents
  <2>3. \A j \in 1 .. Len(readylist) : readylist[j].from = 0 =>
            readylist[j] \in Chunk /\ Fresh(readylist[j])
    BY <1>1, ChunkTypes DEF Contents, Rest
  <2> QED
    BY <1>7, <2>1, <2>2, <2>3
<1> HIDE DEF m
<1>9. \A w \in Workers : w # 1 => wpc'[w] = "exited"
  BY <1>1, <1>4 DEF InOrder, NotifyOne, Waiting, TypeOK
<1>10. \A x \in PairIds : sched'[x] # None => sched'[x].time <= t
  BY <1>1, <1>2, <1>4, <1>5 DEF InOrder, TypeOK
<1>11. \A i, j \in 1 .. m + 1 : i < j => qq'[i].time <= qq'[j].time
  BY <1>6, <1>8 DEF InOrder, m
<1>12. \A w \in Workers, i \in 1 .. m + 1 : eh[w] # None => eh[w].time <= qq'[i].time
  BY <1>6, <1>8 DEF InOrder, m
<1>13. \A j \in 1 .. Len(readylist) : readylist[j].from = 0 =>
           /\ \A w \in Workers : eh[w] # None => readylist[j].time <= eh[w].time
           /\ \A i \in 1 .. m + 1 : readylist[j].time <= qq'[i].time
  BY <1>6, <1>8 DEF InOrder, m
<1> QED
  BY <1>4, <1>6, <1>8, <1>9, <1>10, <1>11, <1>12, <1>13 DEF InOrder

\* ... when the thread takes the oldest,
LEMMA OrderPop ==
    ASSUME SourceInv, InOrder, NEW w \in Workers, Pop(w)
    PROVE  InOrder'
<1>1. TypeOK
  BY DEF SourceInv
<1>2. /\ qq # <<>> /\ qq' = Tail(qq) /\ eh' = [eh EXCEPT ![w] = Head(qq)]
      /\ UNCHANGED <<adding, readylist, d_time, sched>>
      /\ wpc[w] = "pop" /\ wpc' = [wpc EXCEPT ![w] = "run"]
  BY DEF Pop, Goto, addVars, playVars
<1> DEFINE m == Len(qq)
<1>3. /\ m \in Nat /\ 1 \in 1 .. m /\ Len(qq') = m - 1
      /\ \A i \in 1 .. m - 1 : qq'[i] = qq[i + 1] /\ i + 1 \in 1 .. m /\ 1 < i + 1
      /\ \A v \in Workers : eh'[v] = IF v = w THEN qq[1] ELSE eh[v]
      /\ \A i \in 1 .. m : qq[i].time \in Nat
  <2>1. qq \in Seq(Chunk)
    BY <1>1 DEF TypeOK
  <2>2. /\ Len(qq') = m - 1 /\ m \in Nat /\ m # 0
        /\ \A i \in 1 .. Len(Tail(qq)) : Tail(qq)[i] = qq[i + 1]
    BY <1>2, <2>1, HeadTailProperties, EmptySeq
  <2> QED
    BY <1>1, <1>2, <2>1, <2>2, ChunkTypes DEF TypeOK
<1> HIDE DEF m
<1>4. w = 1 /\ \A v \in Workers : v # 1 => wpc'[v] = "exited" /\ eh[v] = None
  BY <1>1, <1>2 DEF InOrder, TypeOK
<1>5. \A i, j \in 1 .. m - 1 : i < j => qq'[i].time <= qq'[j].time
  <2> SUFFICES ASSUME NEW i \in 1 .. m - 1, NEW j \in 1 .. m - 1, i < j
               PROVE  qq[i + 1].time <= qq[j + 1].time
    BY <1>3
  <2>1. i + 1 \in 1 .. m /\ j + 1 \in 1 .. m /\ i + 1 < j + 1
    BY <1>3
  <2> QED
    BY <2>1 DEF InOrder, m
<1>6. \A v \in Workers, i \in 1 .. m - 1 : eh'[v] # None => eh'[v].time <= qq'[i].time
  <2>1. \A i \in 1 .. m - 1 : qq[1].time <= qq'[i].time
    BY <1>3 DEF InOrder, m
  <2> QED
    BY <1>3, <1>4, <2>1
<1>7. \A j \in 1 .. Len(readylist) : readylist[j].from = 0 =>
          /\ \A v \in Workers : eh'[v] # None => readylist[j].time <= eh'[v].time
          /\ \A i \in 1 .. m - 1 : readylist[j].time <= qq'[i].time
  BY <1>3, <1>4 DEF InOrder, m
<1> QED
  BY <1>2, <1>3, <1>4, <1>5, <1>6, <1>7 DEF InOrder

\* ... when it puts it behind those it has finished,
LEMMA OrderPublish ==
    ASSUME SourceInv, InOrder, NEW w \in Workers, Publish(w)
    PROVE  InOrder'
<1>1. TypeOK /\ Contents /\ Locking /\ RestsWait
  BY DEF SourceInv
<1>2. /\ readylist' = Append(readylist, eh[w]) /\ eh' = [eh EXCEPT ![w] = None]
      /\ UNCHANGED <<adding, qq, d_time, sched>>
      /\ wpc[w] = "publish" /\ wpc' = [wpc EXCEPT ![w] = "pop"]
      /\ buf = <<>> /\ eh[w] # None
  BY <1>1 DEF Publish, Goto, addVars, playVars, Locking, TypeOK
<1>3. w = 1 /\ \A v \in Workers : v # 1 => wpc'[v] = "exited" /\ eh[v] = None
  BY <1>1, <1>2 DEF InOrder, TypeOK
<1>4. PICK c \in Chunk : c = eh[w]
  BY <1>1, <1>2 DEF TypeOK
<1> DEFINE m == Len(readylist)
<1>5. /\ m \in Nat /\ Len(readylist') = m + 1 /\ readylist'[m + 1] = c
      /\ \A i \in 1 .. m : readylist'[i] = readylist[i] /\ readylist[i].time \in Nat
      /\ \A v \in Workers : eh'[v] = None
      /\ d_time \in Nat /\ OutEnd = d_time /\ c.time \in Nat
  <2>1. readylist \in Seq(Chunk)
    BY <1>1 DEF TypeOK
  <2>2. OutEnd = d_time /\ d_time \in Nat
    BY <1>1, <1>2, EmptySeq, ChunkTypes DEF OutEnd
  <2> QED
    BY <1>1, <1>2, <1>3, <1>4, <2>1, <2>2, AppendProperties, ChunkTypes DEF TypeOK
<1> HIDE DEF m
<1>6. \A j \in 1 .. m + 1 : readylist'[j].from = 0 =>
          \A i \in 1 .. Len(qq) : readylist'[j].time <= qq[i].time
  BY <1>2, <1>4, <1>5 DEF InOrder, m
<1>7. ASSUME d_time < MaxLen, NEW i \in 1 .. m
      PROVE  readylist[i].time <= c.time \/ readylist[i].time <= d_time
  <2>1. CASE readylist[i].from = 0
    BY <1>2, <1>4, <2>1 DEF InOrder, m
  <2>2. CASE readylist[i].from > 0
    BY <1>1, <1>5, <1>7, <2>2 DEF RestsWait, m
  <2>3. readylist[i].from = 0 \/ readylist[i].from > 0
    BY <1>1 DEF Contents, Fresh, Rest, m
  <2> QED
    BY <2>1, <2>2, <2>3
<1>8. d_time < MaxLen =>
          \A i, j \in 1 .. m + 1 : i < j =>
             readylist'[i].time <= readylist'[j].time \/ readylist'[i].time <= d_time
  <2> SUFFICES ASSUME d_time < MaxLen, NEW i \in 1 .. m + 1, NEW j \in 1 .. m + 1, i < j
               PROVE  readylist'[i].time <= readylist'[j].time \/ readylist'[i].time <= d_time
    OBVIOUS
  <2>1. i \in 1 .. m
    BY <1>5
  <2>2. CASE j = m + 1
    BY <1>5, <1>7, <2>1, <2>2
  <2>3. CASE j # m + 1
    <3>1. j \in 1 .. m
      BY <1>5, <2>3
    <3> QED
      BY <1>5, <2>1, <3>1 DEF InOrder, m
  <2> QED
    BY <2>2, <2>3
<1> QED
  BY <1>2, <1>3, <1>5, <1>6, <1>8 DEF InOrder

\* ... when the head is given up,
LEMMA OrderGiveUp ==
    ASSUME SourceInv, InOrder, DiscardLate \/ BalkLate
    PROVE  InOrder'
<1>1. TypeOK
  BY DEF SourceInv
<1>2. /\ HeadIsDue /\ readylist' = Tail(readylist)
      /\ UNCHANGED <<adding, qq, eh, wpc, d_time, sched>>
  BY DEF DiscardLate, BalkLate, HeadIsLate, addVars, poolVars
<1> DEFINE m == Len(readylist)
<1>3. /\ m \in Nat /\ Len(readylist') = m - 1
      /\ \A i \in 1 .. m - 1 : readylist'[i] = readylist[i + 1] /\ i + 1 \in 1 .. m
  BY <1>1, <1>2, HeadOfReady, ChunkTypes
<1> HIDE DEF m
<1>4. ASSUME NEW i \in 1 .. m - 1, NEW j \in 1 .. m - 1, i < j, d_time < MaxLen
      PROVE  readylist'[i].time <= readylist'[j].time \/ readylist'[i].time <= d_time
  <2>1. i + 1 \in 1 .. m /\ j + 1 \in 1 .. m /\ i + 1 < j + 1
    BY <1>3, <1>4
  <2> QED
    BY <1>3, <1>4, <2>1 DEF InOrder, m
<1>5. \A j \in 1 .. m - 1 : readylist'[j].from = 0 =>
          /\ \A w \in Workers : eh[w] # None => readylist'[j].time <= eh[w].time
          /\ \A i \in 1 .. Len(qq) : readylist'[j].time <= qq[i].time
  BY <1>3 DEF InOrder, m
<1> QED
  BY <1>2, <1>3, <1>4, <1>5 DEF InOrder

\* ... and when it is played, its rest staying the first.
LEMMA OrderPlay ==
    ASSUME SourceInv, InOrder, Play
    PROVE  InOrder'
<1>1. TypeOK
  BY DEF SourceInv
<1>2. PICK t \in Nat, n \in Nat : Plays(readylist[1], t, n)
  BY PlayDoes
<1>3. PICK c \in Chunk : c = readylist[1]
  BY <1>2 DEF Plays
<1>4. Plays(c, t, n)
  BY <1>2, <1>3
<1>5. PICK src : ComesFrom(src, c, t, n)
  BY <1>1, <1>4, PlayMoves
<1> DEFINE m == Len(readylist)
           mm == Len(readylist')
<1>6. /\ UNCHANGED <<adding, qq, eh, wpc, d_time, sched>>
      /\ m \in Nat /\ mm \in Nat /\ d_time \in Nat /\ OutEnd \in Nat
      /\ c.from \in Nat /\ t >= d_time /\ t < OutEnd
      /\ n < c.len => t + n = OutEnd
      /\ \A i \in 1 .. m : readylist[i].time \in Nat
  <2>1. mm \in Nat
    BY <1>4, LenProperties DEF Plays
  <2>2. UNCHANGED <<adding, qq, eh, wpc, d_time, sched>>
    BY DEF Play, addVars, poolVars
  <2>3. /\ t >= d_time /\ t < OutEnd /\ c \in Chunk
        /\ n < c.len => t + n = OutEnd
    BY <1>4 DEF Plays
  <2>4. /\ m \in Nat /\ d_time \in Nat /\ OutEnd \in Nat /\ c.from \in Nat
        /\ \A i \in 1 .. m : readylist[i].time \in Nat
    BY <1>1, ChunkTypes DEF OutEnd
  <2> QED
    BY <2>1, <2>2, <2>3, <2>4
<1> HIDE DEF m, mm
<1>7. ASSUME NEW j \in 1 .. mm, src[j] = 0
      PROVE  readylist'[j].time = OutEnd /\ readylist'[j].from > 0 /\ t + n = OutEnd
  <2>1. n < c.len /\ readylist'[j].time = t + n /\ readylist'[j].from = c.from + n
    BY <1>5, <1>7 DEF ComesFrom, RestOf, mm
  <2> QED
    BY <1>6, <2>1
<1>8. ASSUME NEW j \in 1 .. mm, src[j] # 0
      PROVE  src[j] \in 1 .. m /\ readylist'[j] = readylist[src[j]]
  <2>1. src[j] \in 0 .. m /\ src[j] >= 2 /\ readylist'[j] = readylist[src[j]]
    BY <1>5, <1>8 DEF ComesFrom, m, mm
  <2> QED
    BY <1>6, <2>1
<1>9. /\ \A j, k \in 1 .. mm : src[j] = src[k] => j = k
      /\ \A j, k \in 1 .. mm : j < k /\ src[j] # 0 /\ src[k] # 0 => src[j] < src[k]
      /\ \A j, k \in 1 .. mm : j < k /\ src[k] = 0 => readylist'[j].time <= t + n
      /\ \A j, k \in 1 .. mm : k = j + 1 /\ src[j] = 0 => t + n < readylist'[k].time
  BY <1>5 DEF ComesFrom, mm
<1>10. ASSUME d_time < MaxLen, NEW j \in 1 .. mm, NEW k \in 1 .. mm, j < k,
              src[j] # 0, src[k] # 0
       PROVE  readylist'[j].time <= readylist'[k].time \/ readylist'[j].time <= d_time
  <2>1. src[j] \in 1 .. m /\ src[k] \in 1 .. m /\ src[j] < src[k]
    BY <1>8, <1>9, <1>10
  <2> QED
    BY <1>8, <1>10, <2>1 DEF InOrder, m
<1>11. ASSUME d_time < MaxLen, NEW j \in 1 .. mm, NEW k \in 1 .. mm, j < k
       PROVE  readylist'[j].time <= readylist'[k].time \/ readylist'[j].time <= d_time
  <2>1. CASE src[k] = 0
    BY <1>7, <1>9, <1>11, <2>1
  <2>2. CASE src[j] # 0 /\ src[k] # 0
    BY <1>10, <1>11, <2>2
  <2>3. CASE src[j] = 0 /\ src[k] # 0
    <3>1. j + 1 \in 1 .. mm /\ readylist'[j].time = OutEnd
          /\ OutEnd < readylist'[j + 1].time
      BY <1>6, <1>7, <1>9, <1>11, <2>3
    <3>2. src[j + 1] # 0
      BY <1>9, <2>3, <3>1
    <3>3. readylist'[j + 1].time \in Nat /\ readylist'[k].time \in Nat
      BY <1>6, <1>8, <2>3, <3>1, <3>2
    <3>4. k = j + 1 \/ j + 1 < k
      BY <1>11
    <3>5. \/ readylist'[j + 1].time <= readylist'[k].time
          \/ readylist'[j + 1].time <= d_time
      BY <1>10, <1>11, <2>3, <3>1, <3>2, <3>3, <3>4
    <3>6. d_time < OutEnd
      BY <1>6
    <3> QED
      BY <1>6, <3>1, <3>3, <3>5, <3>6
  <2> QED
    BY <2>1, <2>2, <2>3
<1>12. ASSUME NEW j \in 1 .. mm, readylist'[j].from = 0
       PROVE  /\ \A w \in Workers : eh[w] # None => readylist'[j].time <= eh[w].time
              /\ \A i \in 1 .. Len(qq) : readylist'[j].time <= qq[i].time
  <2>1. src[j] # 0
    BY <1>7, <1>12
  <2> QED
    BY <1>8, <1>12, <2>1 DEF InOrder, m
<1> QED
  BY <1>6, <1>11, <1>12 DEF InOrder, mm

\* Every step keeps the order.
LEMMA OrderStep == SourceInv /\ OrderInv /\ [Next]_vars => OrderInv'
<1> SUFFICES ASSUME SourceInv, OrderInv, [Next]_vars, opt'.ordered /\ opt'.threads = 1
             PROVE  InOrder'
  BY DEF OrderInv
<1> USE DEF vars, addVars, poolVars, playVars, blockVars
<1>0. opt' = opt
  BY DEF Next, AddStep, WorkStep, WorkerStep, BeginAdd, AddPair, EndAdd, Check, EnterWait,
         SpuriousWake, Pop, PopNothing, Run, Publish, WorkBegin, DiscardLate, BalkLate,
         Play, WorkEnd, Destroy, StopThread, Joined
<1>1. InOrder /\ TypeOK /\ opt.ordered
  BY <1>0 DEF OrderInv, SourceInv
<1>2. /\ d_time \in Nat /\ MaxLen \in Nat
      /\ \A i \in 1 .. Len(readylist) : readylist[i].time \in Nat
  BY <1>1, ChunkTypes
<1>3. ASSUME NEW e \in Events, NEW t \in EventTimes, NEW n \in EventLens, BeginAdd(e, t, n)
      PROVE  InOrder'
  <2>1. adding'.time = t /\ \A x \in PairIds : sched[x] # None => sched[x].time <= t
    BY <1>1, <1>3 DEF BeginAdd
  <2>2. UNCHANGED <<wpc, qq, eh, readylist, sched, d_time>>
    BY <1>3 DEF BeginAdd
  <2> QED
    BY <1>1, <2>1, <2>2 DEF InOrder
<1>4. CASE AddPair
  BY <1>1, <1>4, OrderAddPair
<1>5. ASSUME EndAdd \/ Destroy \/ Joined \/ UNCHANGED vars PROVE InOrder'
  <2>1. /\ UNCHANGED <<wpc, qq, eh, readylist, sched, d_time>>
        /\ adding' = None \/ adding' = adding
    BY <1>5 DEF EndAdd, Destroy, Joined
  <2> QED
    BY <1>1, <1>2, <2>1, OrderStays
<1>6. CASE StopThread
  <2>1. /\ UNCHANGED <<qq, eh, readylist, sched, adding, d_time>> /\ NotifyAll
    BY <1>6 DEF StopThread
  <2>2. \A w \in Workers : wpc[w] = "exited" => wpc'[w] = "exited"
    BY <2>1 DEF NotifyAll, Waiting
  <2> QED
    BY <1>1, <1>2, <2>1, <2>2, OrderStays
<1>7. ASSUME NEW w \in Workers, WorkerStep(w) \/ SpuriousWake(w) PROVE InOrder'
  <2>1. CASE Check(w) \/ EnterWait(w) \/ SpuriousWake(w) \/ PopNothing(w) \/ Run(w)
    <3>1. /\ UNCHANGED <<qq, eh, readylist, sched, adding, d_time>>
          /\ wpc[w] # "exited" /\ \E to : wpc' = [wpc EXCEPT ![w] = to]
      BY <2>1 DEF Check, EnterWait, SpuriousWake, PopNothing, Run, Goto
    <3>2. \A v \in Workers : wpc[v] = "exited" => wpc'[v] = "exited"
      BY <1>1, <3>1 DEF TypeOK
    <3> QED
      BY <1>1, <1>2, <3>1, <3>2, OrderStays
  <2> QED
    BY <1>1, <1>7, <2>1, OrderPop, OrderPublish DEF WorkerStep
<1>8. ASSUME NEW n \in 1 .. MaxOut, WorkBegin(n) PROVE InOrder'
  <2>1. UNCHANGED <<wpc, qq, eh, readylist, sched, adding, d_time>>
    BY <1>8 DEF WorkBegin
  <2> QED
    BY <1>1, <1>2, <2>1, OrderStays
<1>9. CASE DiscardLate \/ BalkLate
  BY <1>1, <1>9, OrderGiveUp
<1>10. CASE Play
  BY <1>1, <1>10, OrderPlay
<1>11. CASE WorkEnd
  <2>1. UNCHANGED <<wpc, qq, eh, readylist, sched, adding>>
    BY <1>11 DEF WorkEnd
  <2>2. d_time' \in Nat /\ d_time <= d_time'
    <3>1. CASE d_time = MaxLen
      BY <1>2, <1>11, <3>1 DEF WorkEnd
    <3>2. CASE d_time # MaxLen
      <4>1. Produced(Len(buf)) \in Nat
        BY <1>1, <3>2, Produces, ChunkTypes
      <4> QED
        BY <1>2, <1>11, <3>2, <4>1 DEF WorkEnd
    <3> QED
      BY <3>1, <3>2
  <2> QED
    BY <1>1, <1>2, <2>1, <2>2, OrderStays
<1> QED
  BY <1>3, <1>4, <1>5, <1>6, <1>7, <1>8, <1>9, <1>10, <1>11 DEF Next, AddStep, WorkStep

\* In such an order readylist has nothing due behind a head that is not.
LEMMA OrderedLeavesNothing ==
    ASSUME SourceInv, OrderInv, WorkEnd, opt.ordered, opt.threads = 1, d_time < MaxLen
    PROVE  LeavesNothingDue
<1> SUFFICES ASSUME NEW i \in 1 .. Len(readylist) PROVE readylist[i].time >= OutEnd
  BY DEF LeavesNothingDue, OutEnd
<1>1. TypeOK /\ InOrder /\ ~HeadIsDue /\ Len(buf) >= 1
  BY DEF SourceInv, OrderInv, WorkEnd, Locking
<1>2. /\ Len(readylist) \in Nat /\ d_time \in Nat /\ Len(buf) \in Nat
      /\ \A j \in 1 .. Len(readylist) : readylist[j].time \in Nat
  BY <1>1, ChunkTypes
<1>3. readylist # <<>>
  BY EmptySeq
<1>4. 1 \in 1 .. Len(readylist) /\ readylist[1].time >= OutEnd
  BY <1>1, <1>2, <1>3 DEF HeadIsDue, OutEnd
<1>5. CASE i = 1
  BY <1>4, <1>5
<1>6. CASE i # 1
  <2>1. 1 < i
    BY <1>2, <1>6
  <2>2. readylist[1].time <= readylist[i].time \/ readylist[1].time <= d_time
    BY <1>1, <1>4, <2>1 DEF InOrder
  <2> QED
    BY <1>1, <1>2, <1>4, <2>2 DEF OutEnd
<1> QED
  BY <1>5, <1>6

\* With one handler thread and events added in the order of their times, work()
\* never leaves an event behind in readylist that is due in the buffer it returns.
THEOREM InOrderLeavesNothing == Spec => InOrderNothingDue
<1>1. SourceInv /\ OrderInv /\ [Next]_vars => OrderInv'
  BY OrderStep
<1>2. SourceInv /\ OrderInv =>
         [WorkEnd /\ opt.ordered /\ opt.threads = 1 /\ d_time < MaxLen
             => LeavesNothingDue]_vars
  BY OrderedLeavesNothing
<1> QED
  BY OrderInit, InvAlways, <1>1, <1>2, PTL DEF Spec, InOrderNothingDue
=============================================================================

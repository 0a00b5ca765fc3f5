---------------------- MODULE EsHandlerFlowgraphProofs ----------------------
(* Theorems about the pool of flowgraphs and about what a run leaves in the *)
(* event's buffer, for every number of threads and flowgraphs and however   *)
(* the items are cut into calls.                                            *)
EXTENDS EsHandlerFlowgraph, FiniteSetTheorems, SequenceTheorems, TLAPS

\* Where a thread has a flowgraph.
Holding == {"prepare", "prehook", "inpre", "run", "posthook", "inpost", "copy",
            "release", "thrown"}

PoolTypes ==
    /\ opt.pool \in Nat
    /\ free \in Seq(Pool)
    /\ fg \in [Threads -> Pool \cup {None}]
    /\ pc \in [Threads -> Holding \cup {"idle", "wild"}]
    /\ \A t \in Threads : fg[t] # None <=> pc[t] \in Holding

\* No flowgraph is in two places ...
PoolApart ==
    /\ \A j, k \in 1 .. Len(free) : free[j] = free[k] => j = k
    /\ \A k \in 1 .. Len(free), t \in Threads : free[k] # fg[t]
    /\ \A t, u \in Threads : fg[t] = fg[u] => t = u \/ fg[t] = None

\* ... and none is lost.
PoolCovered ==
    \A f \in Pool : \/ \E k \in 1 .. Len(free) : free[k] = f
                    \/ \E t \in Threads : fg[t] = f

PoolSuffices ==
    opt.pool >= Cardinality(Threads) => \A t \in Threads : pc[t] # "wild"

PoolInv == PoolTypes /\ PoolApart /\ PoolCovered /\ PoolSuffices

\* At first all flowgraphs are in the pool.
LEMMA PoolInvInitially == Init => PoolInv
<1> SUFFICES ASSUME Init PROVE PoolInv
  OBVIOUS
<1>1. opt.pool \in Nat
  BY FlowgraphAssumption DEF Init, OptionSpace
<1>2. /\ free = [k \in Pool |-> k]
      /\ pc = [t \in Threads |-> "idle"] /\ fg = [t \in Threads |-> None]
  BY DEF Init
<1>3. free \in Seq(Pool) /\ Len(free) = opt.pool
  BY <1>1, <1>2 DEF Pool
<1>4. None \notin Pool
  BY FlowgraphAssumption DEF Pool
<1>5. PoolTypes
  BY <1>1, <1>2, <1>3 DEF PoolTypes, Holding
<1>6. PoolApart
  BY <1>2, <1>3, <1>4 DEF PoolApart, Pool
<1>7. PoolCovered
  BY <1>2, <1>3 DEF PoolCovered, Pool
<1> QED
  BY <1>2, <1>5, <1>6, <1>7 DEF PoolInv, PoolSuffices

\* With as many flowgraphs as threads, a thread that has none finds one.
LEMMA SomeFree ==
    ASSUME PoolTypes, PoolApart, PoolCovered, opt.pool >= Cardinality(Threads),
           NEW t \in Threads, fg[t] = None
    PROVE  free # <<>>
<1> SUFFICES ASSUME free = <<>> PROVE FALSE
  OBVIOUS
<1> DEFINE Others  == Threads \ {t}
           holder  == [f \in Pool |-> CHOOSE u \in Threads : fg[u] = f]
<1>1. IsFiniteSet(Pool) /\ Cardinality(Pool) = opt.pool /\ None \notin Pool
  <2>1. opt.pool \in Nat
    BY DEF PoolTypes
  <2>2. IsFiniteSet(1 .. opt.pool)
        /\ Cardinality(1 .. opt.pool) = IF 1 > opt.pool THEN 0 ELSE (opt.pool - 1) + 1
    BY <2>1, FS_Interval, SMTT(30)
  <2>3. Cardinality(1 .. opt.pool) = opt.pool
    BY <2>1, <2>2
  <2> QED
    BY <2>2, <2>3, FlowgraphAssumption DEF Pool
<1>2. IsFiniteSet(Others) /\ Cardinality(Others) = Cardinality(Threads) - 1
  BY FS_RemoveElement, FlowgraphAssumption
<1>3. Cardinality(Threads) \in Nat
  BY FS_CardinalityType, FlowgraphAssumption
<1>4. Cardinality(Others) < Cardinality(Pool)
  BY <1>1, <1>2, <1>3 DEF PoolTypes
<1>5. ASSUME NEW f \in Pool PROVE holder[f] \in Others /\ fg[holder[f]] = f
  <2>1. \E u \in Threads : fg[u] = f
    BY DEF PoolCovered
  <2>2. holder[f] \in Threads /\ fg[holder[f]] = f
    BY <2>1
  <2> QED
    BY <1>1, <2>2
<1>6. holder \in [Pool -> Others]
  BY <1>5
<1> HIDE DEF holder, Others
<1>7. PICK f, g \in Pool : f # g /\ holder[f] = holder[g]
  BY <1>1, <1>2, <1>4, <1>6, FS_PigeonHole
<1> QED
  BY <1>5, <1>7

\* A thread that takes a flowgraph takes it out of the pool ...
LEMMA GrabKeeps ==
    ASSUME PoolInv, NEW t \in Threads, NEW e, Grab(t, e)
    PROVE  PoolInv'
<1>1. /\ pc[t] = "idle" /\ pc' = [pc EXCEPT ![t] = "prepare"]
      /\ fg' = [fg EXCEPT ![t] = Head(free)] /\ free # <<>> /\ free' = Tail(free)
      /\ opt' = opt
  BY DEF Grab, Goto
<1>2. free \in Seq(Pool) /\ Pool' = Pool /\ None \notin Pool
  BY <1>1, FlowgraphAssumption DEF PoolInv, PoolTypes, Pool
<1>3. /\ Head(free) = free[1] /\ Head(free) \in Pool
      /\ Len(free) \in Nat /\ Len(free) > 0
      /\ Tail(free) \in Seq(Pool) /\ Len(Tail(free)) = Len(free) - 1
      /\ \A k \in 1 .. (Len(free) - 1) : Tail(free)[k] = free[k + 1]
  BY <1>1, <1>2
<1>4. fg[t] = None
  BY <1>1 DEF PoolInv, PoolTypes, Holding
<1>5. PoolTypes'
  BY <1>1, <1>2, <1>3 DEF PoolInv, PoolTypes, Holding
<1>6. PoolApart'
  <2>1. \A j, k \in 1 .. Len(free') : free'[j] = free'[k] => j = k
    BY <1>1, <1>3 DEF PoolInv, PoolApart
  <2>2. ASSUME NEW k \in 1 .. Len(free'), NEW u \in Threads PROVE free'[k] # fg'[u]
    <3>1. free'[k] = free[k + 1] /\ k + 1 \in 1 .. Len(free) /\ 1 \in 1 .. Len(free) /\ k + 1 # 1
      BY <1>1, <1>3
    <3>2. fg'[u] = IF u = t THEN free[1] ELSE fg[u]
      BY <1>1, <1>3 DEF PoolInv, PoolTypes
    <3> QED
      BY <3>1, <3>2 DEF PoolInv, PoolApart
  <2>3. ASSUME NEW u \in Threads, NEW w \in Threads, fg'[u] = fg'[w]
        PROVE  u = w \/ fg'[u] = None
    <3>1. \A x \in Threads : fg'[x] = IF x = t THEN free[1] ELSE fg[x]
      BY <1>1, <1>3 DEF PoolInv, PoolTypes
    <3>2. 1 \in 1 .. Len(free)
      BY <1>3
    <3> QED
      BY <2>3, <3>1, <3>2 DEF PoolInv, PoolApart
  <2> QED
    BY <2>1, <2>2, <2>3 DEF PoolApart
<1>7. PoolCovered'
  <2> SUFFICES ASSUME NEW f \in Pool
               PROVE  \/ \E k \in 1 .. Len(free') : free'[k] = f
                      \/ \E u \in Threads : fg'[u] = f
    BY <1>2 DEF PoolCovered
  <2>1. CASE \E u \in Threads : fg[u] = f
    <3>1. PICK u \in Threads : fg[u] = f
      BY <2>1
    <3>2. u # t
      BY <1>2, <1>4, <3>1
    <3> QED
      BY <1>1, <3>1, <3>2 DEF PoolInv, PoolTypes
  <2>2. CASE \E k \in 1 .. Len(free) : free[k] = f
    <3>1. PICK k \in 1 .. Len(free) : free[k] = f
      BY <2>2
    <3>2. CASE k = 1
      BY <1>1, <1>3, <3>1, <3>2 DEF PoolInv, PoolTypes
    <3>3. CASE k # 1
      <4>1. k - 1 \in 1 .. Len(free') /\ (k - 1) + 1 = k /\ k - 1 \in 1 .. (Len(free) - 1)
        BY <1>1, <1>3, <3>3
      <4>2. free'[k - 1] = f
        BY <1>1, <1>3, <3>1, <4>1
      <4> QED
        BY <4>1, <4>2
    <3> QED
      BY <3>2, <3>3
  <2> QED
    BY <2>1, <2>2 DEF PoolInv, PoolCovered
<1>8. PoolSuffices'
  BY <1>1 DEF PoolInv, PoolTypes, PoolSuffices
<1> QED
  BY <1>5, <1>6, <1>7, <1>8 DEF PoolInv

\* ... and puts it back where no other is.
LEMMA ReleaseKeeps ==
    ASSUME PoolInv, NEW t \in Threads, Release(t)
    PROVE  PoolInv'
<1>1. /\ pc[t] = "release" /\ pc' = [pc EXCEPT ![t] = "idle"]
      /\ fg' = [fg EXCEPT ![t] = None] /\ free' = Append(free, fg[t])
      /\ opt' = opt
  BY DEF Release, Goto
<1>2. free \in Seq(Pool) /\ Pool' = Pool /\ None \notin Pool
  BY <1>1, FlowgraphAssumption DEF PoolInv, PoolTypes, Pool
<1>3. fg[t] \in Pool
  BY <1>1 DEF PoolInv, PoolTypes, Holding
<1>4. /\ Len(free) \in Nat /\ free' \in Seq(Pool) /\ Len(free') = Len(free) + 1
      /\ free'[Len(free) + 1] = fg[t]
      /\ \A k \in 1 .. Len(free) : free'[k] = free[k]
  BY <1>1, <1>2, <1>3
<1>5. \A u \in Threads : fg'[u] = IF u = t THEN None ELSE fg[u]
  BY <1>1 DEF PoolInv, PoolTypes
<1>6. PoolTypes'
  BY <1>1, <1>2, <1>4 DEF PoolInv, PoolTypes, Holding
<1>7. PoolApart'
  <2>1. ASSUME NEW j \in 1 .. Len(free'), NEW k \in 1 .. Len(free'), free'[j] = free'[k]
        PROVE  j = k
    <3>1. ASSUME NEW i \in 1 .. Len(free) PROVE free'[i] # fg[t]
      BY <1>4 DEF PoolInv, PoolApart
    <3>2. \A i \in 1 .. Len(free') : i \in 1 .. Len(free) \/ i = Len(free) + 1
      BY <1>4
    <3> QED
      BY <1>4, <2>1, <3>1, <3>2 DEF PoolInv, PoolApart
  <2>2. ASSUME NEW k \in 1 .. Len(free'), NEW u \in Threads PROVE free'[k] # fg'[u]
    <3>1. free'[k] \in Pool
      BY <1>4, ElementOfSeq
    <3>2. k \in 1 .. Len(free) \/ k = Len(free) + 1
      BY <1>4
    <3>3. fg[t] = fg[u] => u = t
      BY <1>2, <1>3 DEF PoolInv, PoolApart
    <3> QED
      BY <1>2, <1>4, <1>5, <3>1, <3>2, <3>3 DEF PoolInv, PoolApart
  <2>3. \A u, w \in Threads : fg'[u] = fg'[w] => u = w \/ fg'[u] = None
    BY <1>5 DEF PoolInv, PoolApart
  <2> QED
    BY <2>1, <2>2, <2>3 DEF PoolApart
<1>8. PoolCovered'
  <2> SUFFICES ASSUME NEW f \in Pool
               PROVE  \/ \E k \in 1 .. Len(free') : free'[k] = f
                      \/ \E u \in Threads : fg'[u] = f
    BY <1>2 DEF PoolCovered
  <2>1. CASE \E k \in 1 .. Len(free) : free[k] = f
    <3>1. PICK k \in 1 .. Len(free) : free[k] = f
      BY <2>1
    <3> QED
      BY <1>4, <3>1
  <2>2. CASE fg[t] = f
    BY <1>4, <2>2
  <2>3. CASE \E u \in Threads \ {t} : fg[u] = f
    BY <1>5, <2>3
  <2> QED
    BY <2>1, <2>2, <2>3 DEF PoolInv, PoolCovered
<1>9. PoolSuffices'
  BY <1>1 DEF PoolInv, PoolTypes, PoolSuffices
<1> QED
  BY <1>6, <1>7, <1>8, <1>9 DEF PoolInv

\* Every step keeps flowgraphs apart.
LEMMA PoolInvKept == PoolInv /\ [Next]_vars => PoolInv'
<1> SUFFICES ASSUME PoolInv, [Next]_vars PROVE PoolInv'
  OBVIOUS
<1>1. ASSUME NEW t \in Threads, NEW e, GrabNothing(t, e) PROVE PoolInv'
  <2>1. /\ pc[t] = "idle" /\ pc' = [pc EXCEPT ![t] = "wild"] /\ free = <<>>
        /\ opt' = opt /\ free' = free /\ fg' = fg
    BY <1>1 DEF GrabNothing, Goto
  <2>2. fg[t] = None
    BY <2>1 DEF PoolInv, PoolTypes, Holding
  <2>3. ~(opt.pool >= Cardinality(Threads))
    BY <2>1, <2>2, SomeFree DEF PoolInv
  <2>4. PoolTypes' /\ PoolApart' /\ PoolCovered'
    BY <2>1 DEF PoolInv, PoolTypes, PoolApart, PoolCovered, Pool, Holding
  <2> QED
    BY <2>1, <2>3, <2>4 DEF PoolInv, PoolSuffices
<1>2. ASSUME NEW t \in Threads, NEW to \in Holding, pc[t] \in Holding,
             pc' = [pc EXCEPT ![t] = to], opt' = opt, free' = free, fg' = fg
      PROVE  PoolInv'
  <2>1. PoolTypes' /\ PoolApart' /\ PoolCovered'
    BY <1>2 DEF PoolInv, PoolTypes, PoolApart, PoolCovered, Pool
  <2>2. PoolSuffices'
    BY <1>2 DEF PoolInv, PoolTypes, PoolSuffices, Holding
  <2> QED
    BY <2>1, <2>2 DEF PoolInv
<1>3. CASE UNCHANGED <<opt, free, pc, fg>>
  BY <1>3 DEF PoolInv, PoolTypes, PoolApart, PoolCovered, PoolSuffices, Pool
<1>4. ASSUME NEW t \in Threads, Step(t) PROVE PoolInv'
  <2>1. CASE \/ Prepare(t) \/ RunReturns(t) \/ CopyOut(t) \/ CopyNothing(t) \/ Throw(t)
             \/ SkipHook(t) \/ HookIsNone(t)
             \/ EnterHook(t) \/ LeaveHook(t) \/ HookThrows(t)
    <3> DEFINE Moves == \E to \in Holding :
                            /\ pc[t] \in Holding /\ pc' = [pc EXCEPT ![t] = to]
                            /\ opt' = opt /\ free' = free /\ fg' = fg
    <3>1. ASSUME Prepare(t) \/ RunReturns(t) \/ CopyOut(t) \/ CopyNothing(t) \/ Throw(t)
          PROVE  Moves
      BY <3>1 DEF Prepare, RunReturns, CopyOut, CopyNothing, Throw, Goto, Holding
    <3>2. ASSUME SkipHook(t) \/ HookIsNone(t) \/ EnterHook(t) PROVE Moves
      <4>1. PICK to \in {After(pc[t]), Inside(pc[t])} :
                /\ pc[t] \in {"prehook", "posthook"} /\ pc' = [pc EXCEPT ![t] = to]
                /\ opt' = opt /\ free' = free /\ fg' = fg
        BY <3>2 DEF SkipHook, HookIsNone, EnterHook, AtHook
      <4>2. to \in Holding /\ pc[t] \in Holding
        BY <4>1 DEF After, Inside, Holding
      <4> QED
        BY <4>1, <4>2
    <3>3. ASSUME LeaveHook(t) \/ HookThrows(t) PROVE Moves
      BY <3>3 DEF LeaveHook, HookThrows, InHook, After, Holding
    <3>4. Moves
      BY <2>1, <3>1, <3>2, <3>3
    <3> QED
      BY <1>2, <3>4
  <2>2. CASE Release(t)
    BY <2>2, ReleaseKeeps
  <2>3. CASE \/ \E n \in 1 .. MaxWork : SourceWork(t, n) \/ SinkWork(t, n)
             \/ \E n \in 0 .. MaxMade : Make(t, n)
    BY <1>3, <2>3 DEF SourceWork, SinkWork, Make
  <2> QED
    BY <1>4, <2>1, <2>2, <2>3 DEF Step
<1>5. CASE UNCHANGED vars
  BY <1>3, <1>5 DEF vars
<1> QED
  BY <1>1, <1>4, <1>5, GrabKeeps DEF Next

\* For any number of threads and flowgraphs: each flowgraph is in the pool once or with
\* one thread, and with as many flowgraphs as threads no call goes without.
THEOREM PoolAlwaysExclusive == Spec => []PoolExclusive
<1>1. PoolInv => PoolExclusive
  <2> SUFFICES ASSUME PoolInv PROVE PoolExclusive
    OBVIOUS
  <2> DEFINE Slots(f)   == {k \in 1 .. Len(free) : free[k] = f}
             Holders(f) == {t \in Threads : fg[t] = f}
  <2>1. ASSUME NEW f \in Pool PROVE Cardinality(Slots(f)) + Cardinality(Holders(f)) = 1
    <3>1. f # None
      BY FlowgraphAssumption DEF Pool
    <3>2. CASE \E k \in 1 .. Len(free) : free[k] = f
      <4>1. PICK k \in 1 .. Len(free) : free[k] = f
        BY <3>2
      <4>2. Slots(f) = {k} /\ Holders(f) = {}
        BY <4>1 DEF PoolInv, PoolApart
      <4>3. Cardinality(Slots(f)) = 1 /\ Cardinality(Holders(f)) = 0
        BY <4>2, FS_Singleton, FS_EmptySet
      <4> QED
        BY <4>3
    <3>3. CASE \E t \in Threads : fg[t] = f
      <4>1. PICK t \in Threads : fg[t] = f
        BY <3>3
      <4>2. Slots(f) = {} /\ Holders(f) = {t}
        BY <3>1, <4>1 DEF PoolInv, PoolApart
      <4>3. Cardinality(Slots(f)) = 0 /\ Cardinality(Holders(f)) = 1
        BY <4>2, FS_Singleton, FS_EmptySet
      <4> QED
        BY <4>3
    <3> QED
      BY <3>2, <3>3 DEF PoolInv, PoolCovered
  <2> QED
    BY <2>1 DEF PoolExclusive, PoolInv, PoolSuffices
<1> QED
  BY <1>1, PoolInvInitially, PoolInvKept, PTL DEF Spec

-----------------------------------------------------------------------------
(* What comes out of a flowgraph.                                          *)

\* Division of the numbers of items.
LEMMA DivBounds ==
    ASSUME NEW g \in Nat, g > 0, NEW x \in Nat
    PROVE  x \div g \in Nat /\ (x \div g) * g <= x /\ x < ((x \div g) + 1) * g
  OBVIOUS

LEMMA DivIs ==
    ASSUME NEW g \in Nat, g > 0, NEW x \in Int, NEW q \in Int,
           q * g <= x, x < (q + 1) * g
    PROVE  x \div g = q
  OBVIOUS

\* The user's blocks make g items of each: item x of those made after a items is
\* made of item x \div g after them.
LEMMA DivShift ==
    ASSUME NEW g \in Nat, g > 0, NEW a \in Nat, NEW x \in Nat
    PROVE  (g * a + x) \div g = a + (x \div g)
<1> DEFINE q == x \div g
<1>1. q \in Nat /\ q * g <= x /\ x < (q + 1) * g
  BY DivBounds
<1> HIDE DEF q
<1>2. (a + q) * g = g * a + q * g /\ ((a + q) + 1) * g = g * a + (q + 1) * g
  BY <1>1
<1>3. PICK y \in Nat : y = g * a + x
  OBVIOUS
<1>4. PICK r \in Nat : r = a + q
  BY <1>1
<1>5. r * g <= y /\ y < (r + 1) * g
  <2>1. g * a \in Nat /\ q * g \in Nat /\ (q + 1) * g \in Nat
    BY <1>1
  <2> QED
    BY <1>1, <1>2, <1>3, <1>4, <2>1
<1>6. y \div g = r
  BY <1>5, DivIs
<1> QED
  BY <1>3, <1>4, <1>6 DEF q

\* The item that item x is made of is among those there were.
LEMMA DivBelow ==
    ASSUME NEW g \in Nat, NEW m \in Nat, NEW x \in Nat, x < g * m
    PROVE  g > 0 /\ (x \div g) \in 0 .. (m - 1)
<1>1. g > 0
  <2>1. g # 0
    OBVIOUS
  <2> QED
    BY <2>1
<1>2. x \div g \in Nat /\ (x \div g) * g <= x
  BY <1>1, DivBounds
<1>3. ASSUME x \div g >= m PROVE FALSE
  <2>1. PICK q \in Nat : q = x \div g
    BY <1>2
  <2>2. q * g >= m * g
    BY <1>1, <1>3, <2>1
  <2>3. m * g = g * m /\ m * g \in Nat /\ q * g \in Nat
    BY <2>1
  <2> QED
    BY <1>2, <2>1, <2>2, <2>3
<1> QED
  BY <1>1, <1>2, <1>3

Items == (Events \cup {None}) \X Nat

\* o is what the user's blocks make of the first m samples of e.
Turned(o, e, m) ==
    /\ Len(o) = opt.gain * m
    /\ \A k \in 1 .. Len(o) : o[k] = <<e, ((k - 1) \div opt.gain) + 1>>

\* What the blocks make of some items in a row of the samples of e.
LEMMA ThroughIs ==
    ASSUME opt.gain \in Nat, NEW e \in Events, NEW m \in Nat, NEW r \in Seq(Items),
           \A j \in 1 .. Len(r) : r[j] = <<e, m + j>>
    PROVE  /\ Through(r) \in Seq(Items) /\ Len(Through(r)) = opt.gain * Len(r)
           /\ \A k \in 1 .. (opt.gain * Len(r)) :
                 Through(r)[k] = <<e, m + (((k - 1) \div opt.gain) + 1)>>
<1> DEFINE g == opt.gain
           c == Len(r)
           n == g * c
<1>1. g \in Nat /\ c \in Nat /\ n \in Nat
  BY LenProperties
<1>2. ASSUME NEW k \in 1 .. n PROVE ((k - 1) \div g) + 1 \in 1 .. c
  <2>1. k - 1 \in Nat /\ k - 1 < g * c
    BY <1>1
  <2>2. (k - 1) \div g \in 0 .. (c - 1)
    BY <1>1, <2>1, DivBelow
  <2> QED
    BY <1>1, <2>2
<1>3. Through(r) = [k \in 1 .. n |-> r[((k - 1) \div g) + 1]]
  BY DEF Through
<1> HIDE DEF g, c, n
<1>4. \A k \in 1 .. n : r[((k - 1) \div g) + 1] = <<e, m + (((k - 1) \div g) + 1)>>
  BY <1>2 DEF c
<1>5. \A k \in 1 .. n : r[((k - 1) \div g) + 1] \in Items
  BY <1>2, ElementOfSeq DEF c
<1>6. Through(r) \in Seq(Items) /\ Len(Through(r)) = n
  BY <1>1, <1>3, <1>5
<1> QED
  BY <1>3, <1>4, <1>6 DEF g, c, n

\* The next items of the samples, sent through the user's blocks.
LEMMA TurnedFurther ==
    ASSUME opt.gain \in Nat, NEW e \in Events, NEW m \in Nat, NEW o \in Seq(Items),
           NEW r \in Seq(Items), Turned(o, e, m), \A j \in 1 .. Len(r) : r[j] = <<e, m + j>>
    PROVE  Turned(o \o Through(r), e, m + Len(r))
<1> DEFINE g == opt.gain
           c == Len(r)
           u == Through(r)
           w == o \o u
<1>1. g \in Nat /\ c \in Nat /\ g * m \in Nat /\ g * c \in Nat
  BY LenProperties
<1>2. /\ u \in Seq(Items) /\ Len(u) = g * c
      /\ \A k \in 1 .. (g * c) : u[k] = <<e, m + (((k - 1) \div g) + 1)>>
  BY ThroughIs
<1>3. Len(o) = g * m /\ \A k \in 1 .. (g * m) : o[k] = <<e, ((k - 1) \div g) + 1>>
  BY DEF Turned
<1> HIDE DEF g, c, u
<1>4. /\ Len(w) = (g * m) + (g * c)
      /\ \A k \in 1 .. ((g * m) + (g * c)) : w[k] = IF k <= g * m THEN o[k] ELSE u[k - (g * m)]
  <2>1. /\ Len(w) = Len(o) + Len(u)
        /\ \A k \in 1 .. Len(o) + Len(u) : w[k] = IF k <= Len(o) THEN o[k] ELSE u[k - Len(o)]
    BY <1>2, ConcatProperties
  <2> HIDE DEF w
  <2> QED
    BY <1>2, <1>3, <2>1
<1> HIDE DEF w
<1>5. (g * m) + (g * c) = g * (m + c)
  BY <1>1
<1>6. ASSUME NEW k \in 1 .. ((g * m) + (g * c)) PROVE w[k] = <<e, ((k - 1) \div g) + 1>>
  <2>1. CASE k <= g * m
    BY <1>1, <1>3, <1>4, <2>1, SMTT(30)
  <2>2. CASE k > g * m
    <3>0. PICK j \in 1 .. (g * c) : j = k - (g * m)
      BY <1>1, <2>2
    <3>1. PICK x \in Nat : x = j - 1
      BY <1>1, <3>0
    <3>2. k - 1 = g * m + x /\ x < g * c
      BY <1>1, <2>2, <3>0, <3>1
    <3>3. g > 0 /\ x \div g \in 0 .. (c - 1)
      BY <1>1, <3>1, <3>2, DivBelow
    <3>4. (g * m + x) \div g = m + (x \div g)
      BY <1>1, <3>1, <3>3, DivShift
    <3>5. ((k - 1) \div g) + 1 = m + ((x \div g) + 1)
      BY <3>2, <3>3, <3>4
    <3>6. w[k] = <<e, m + ((x \div g) + 1)>>
      <4>1. w[k] = u[j]
        BY <1>1, <1>4, <2>2, <3>0
      <4>2. u[j] = <<e, m + (((j - 1) \div g) + 1)>>
        BY <1>2, <3>0
      <4> QED
        BY <3>1, <4>1, <4>2
    <3> QED
      BY <3>5, <3>6
  <2>3. k <= g * m \/ k > g * m
    BY <1>1
  <2> QED
    BY <2>1, <2>2, <2>3
<1> QED
  BY <1>4, <1>5, <1>6 DEF Turned, g, c, u, w

\* Samples all sent through the user's blocks.
LEMMA TurnedWhole ==
    ASSUME opt.gain \in Nat, NEW e \in Events, NEW o \in Seq(Items), Turned(o, e, LengthOf[e])
    PROVE  o = Through(Samples(e))
<1> DEFINE n == LengthOf[e]
           s == Samples(e)
<1>1. n \in Nat
  BY FlowgraphAssumption
<1>2. \A j \in 1 .. n : <<e, j>> \in Items
  BY <1>1 DEF Items
<1>3. s \in Seq(Items) /\ Len(s) = n /\ \A j \in 1 .. n : s[j] = <<e, j>>
  BY <1>1, <1>2 DEF Samples
<1> HIDE DEF s, n
<1>0. PICK z \in Nat : z = 0
  OBVIOUS
<1>4. /\ Through(s) \in Seq(Items) /\ Len(Through(s)) = opt.gain * n
      /\ \A k \in 1 .. (opt.gain * n) : Through(s)[k] = <<e, z + (((k - 1) \div opt.gain) + 1)>>
  <2>1. \A j \in 1 .. Len(s) : s[j] = <<e, z + j>>
    BY <1>0, <1>1, <1>3
  <2> QED
    BY <1>3, <2>1, ThroughIs
<1>5. Len(o) = opt.gain * n /\ \A k \in 1 .. Len(o) : o[k] = <<e, ((k - 1) \div opt.gain) + 1>>
  BY DEF Turned, n
<1>6. ASSUME NEW k \in 1 .. Len(o) PROVE o[k] = Through(s)[k]
  <2>1. PICK g \in Nat : g = opt.gain
    OBVIOUS
  <2>2. PICK x \in Nat : x = k - 1 /\ x < g * n
    BY <1>1, <1>5, <2>1
  <2>3. x \div g \in 0 .. (n - 1)
    BY <1>1, <2>1, <2>2, DivBelow
  <2>4. Through(s)[k] = <<e, z + ((x \div g) + 1)>> /\ o[k] = <<e, (x \div g) + 1>>
    BY <1>4, <1>5, <2>1, <2>2
  <2> QED
    BY <1>0, <2>3, <2>4
<1> QED
  BY <1>4, <1>5, <1>6, SeqEqual DEF s

-----------------------------------------------------------------------------
(* What is written to the event's buffer.                                  *)

\* What has left the source of a flowgraph since it was prepared, collected or not.
Out(f) == snk[f] \o pipe[f]

\* The event that a pre-hook tells a flowgraph.
Known(e) == IF opt.pre = "python" THEN e ELSE None

Made(o, x, n) == Len(o) = n /\ \A k \in 1 .. n : o[k] = <<x, k>>

\* How far flowgraph f is with event e.
Handled(f, e) ==
    /\ opt.source =>
          /\ src[f].data = Samples(e) /\ src[f].offset \in 0 .. LengthOf[e]
          /\ opt.sink => Turned(Out(f), e, src[f].offset)
          /\ f \in ended => src[f].offset = LengthOf[e]
    /\ ~opt.source /\ opt.sink =>
          IF f \in ended THEN \E n \in Nat : Made(Out(f), Known(e), n)
          ELSE Out(f) = <<>>

Working == {"prehook", "inpre", "run", "posthook", "inpost", "copy"}

\* Where thread t is, its flowgraph is as far as it should be, and nothing is left in
\* it outside the run.
ThreadFlow(t) ==
    /\ pc[t] \in Holding \ {"run"} => pipe[fg[t]] = <<>>
    /\ pc[t] = "inpre" => opt.pre = "python"
    /\ pc[t] = "run" => told[fg[t]] = Known(evt[t])
    /\ pc[t] \in {"posthook", "inpost", "copy"} => fg[t] \in ended
    /\ pc[t] \in Working => Handled(fg[t], evt[t])

FlowTypes ==
    /\ opt \in OptionSpace /\ todo \subseteq Events
    /\ evt \in [Threads -> Events \cup {None}]
    /\ \A t \in Threads : pc[t] \in Holding => evt[t] \in Events
    /\ src \in [Pool -> [data : Seq(Items), offset : Nat]]
    /\ snk \in [Pool -> Seq(Items)] /\ pipe \in [Pool -> Seq(Items)]
    /\ told \in [Pool -> Events \cup {None}]
    /\ buf = [e \in Events |-> buf[e]]

FreeEmpty == \A k \in 1 .. Len(free) : pipe[free[k]] = <<>>

\* Without a function for pre-hook no flowgraph is ever told.
Untold == opt.pre # "python" => \A f \in Pool : told[f] = None

Written(e) ==
    buf[e] # None =>
        \E n \in 0 .. LengthOf[e] :
            LET items == IF opt.source THEN Through(Samples(e))
                         ELSE [k \in 1 .. n |-> <<Known(e), k>>]
            IN  buf[e] = items \o Zeros(LengthOf[e] - Len(items))

FlowInv ==
    /\ PoolInv /\ FlowTypes /\ FreeEmpty /\ Untold
    /\ \A t \in Threads : ThreadFlow(t)
    /\ \A e \in Events : Written(e)

\* At first nothing runs and nothing is written.
LEMMA FlowInvInitially == Init => FlowInv
<1> SUFFICES ASSUME Init PROVE FlowInv
  OBVIOUS
<1>1. PoolInv
  BY PoolInvInitially
<1>2. /\ opt \in OptionSpace /\ todo = Events /\ free = [k \in Pool |-> k]
      /\ pc = [t \in Threads |-> "idle"] /\ evt = [t \in Threads |-> None]
      /\ src = [f \in Pool |-> Cleared] /\ snk = [f \in Pool |-> EmptySink]
      /\ pipe = [f \in Pool |-> <<>>] /\ told = [f \in Pool |-> None]
      /\ buf = [e \in Events |-> None]
  BY FlowgraphAssumption DEF Init
<1>3. <<>> \in Seq(Items)
  OBVIOUS
<1>4. FlowTypes
  <2>1. Cleared \in [data : Seq(Items), offset : Nat]
    BY <1>3 DEF Cleared
  <2>2. \A t \in Threads : pc[t] \notin Holding
    BY <1>2 DEF Holding
  <2> QED
    BY <1>2, <1>3, <2>1, <2>2 DEF FlowTypes, EmptySink
<1>5. FreeEmpty
  <2>1. \A k \in 1 .. Len(free) : free[k] \in Pool
    BY <1>1, ElementOfSeq DEF PoolInv, PoolTypes
  <2> QED
    BY <1>2, <2>1 DEF FreeEmpty
<1>6. \A t \in Threads : ThreadFlow(t)
  BY <1>2 DEF ThreadFlow, Holding, Working
<1> QED
  BY <1>1, <1>2, <1>4, <1>5, <1>6 DEF FlowInv, Untold, Written

\* A flowgraph left alone.
Same(f) ==
    /\ src'[f] = src[f] /\ snk'[f] = snk[f] /\ pipe'[f] = pipe[f] /\ told'[f] = told[f]
    /\ f \in ended' <=> f \in ended

\* Where a thread is with its event depends on its flowgraph and on nothing else ...
LEMMA HandledKept ==
    ASSUME NEW u \in Threads, Handled(fg[u], evt[u]), opt' = opt, evt'[u] = evt[u],
           fg'[u] = fg[u], src'[fg[u]] = src[fg[u]], snk'[fg[u]] = snk[fg[u]],
           pipe'[fg[u]] = pipe[fg[u]], fg[u] \in ended' <=> fg[u] \in ended
    PROVE  Handled(fg[u], evt[u])'
<1>1. Out(fg[u])' = Out(fg[u]) /\ Known(evt[u])' = Known(evt[u])
  BY DEF Out, Known
<1>2. Samples(evt[u])' = Samples(evt[u])
  BY DEF Samples
<1>3. opt.source /\ opt.sink => Turned(Out(fg[u]), evt[u], src[fg[u]].offset)'
  BY <1>1 DEF Handled, Turned
<1>4. \A n \in Nat : Made(Out(fg[u]), Known(evt[u]), n) => Made(Out(fg[u]), Known(evt[u]), n)'
  BY <1>1 DEF Made
<1> QED
  BY <1>1, <1>2, <1>3, <1>4 DEF Handled

\* A thread left alone, with its flowgraph, is where it was.
LEMMA ThreadFlowKept ==
    ASSUME NEW u \in Threads, ThreadFlow(u), opt' = opt, pc'[u] = pc[u],
           evt'[u] = evt[u], fg'[u] = fg[u], pc[u] \in Holding => Same(fg[u])
    PROVE  ThreadFlow(u)'
<1>1. ASSUME pc[u] \in Working, Handled(fg[u], evt[u]) PROVE Handled(fg[u], evt[u])'
  <2>1. Same(fg[u])
    BY <1>1 DEF Working, Holding
  <2> QED
    BY <1>1, <2>1, HandledKept DEF Same
<1>2. pc[u] \in Working \cup {"inpre", "run", "posthook", "inpost", "copy"} => pc[u] \in Holding
  BY DEF Working, Holding
<1> QED
  BY <1>1, <1>2 DEF ThreadFlow, Known, Same

\* ... and what is written on the buffer alone.
LEMMA WrittenKept ==
    ASSUME NEW e \in Events, Written(e), opt' = opt, buf'[e] = buf[e]
    PROVE  Written(e)'
  BY DEF Written, Known, Through

\* A step inside the call of thread t: what the other threads have is left alone.
StepOf(t) ==
    /\ opt' = opt /\ free' = free /\ fg' = fg /\ evt' = evt /\ todo' = todo
    /\ pc[t] \in Holding
    /\ \A u \in Threads \ {t} : pc'[u] = pc[u]
    /\ \A f \in Pool \ {fg[t]} : Same(f)

\* It is enough to look at the thread that takes the step.
LEMMA StepOfKeeps ==
    ASSUME FlowInv, PoolInv', NEW t \in Threads, StepOf(t), FlowTypes', Untold',
           ThreadFlow(t)', \A e \in Events : Written(e)'
    PROVE  FlowInv'
<1>1. FreeEmpty'
  <2>1. ASSUME NEW k \in 1 .. Len(free) PROVE pipe'[free[k]] = <<>>
    <3>1. free[k] \in Pool
      BY ElementOfSeq DEF FlowInv, PoolInv, PoolTypes
    <3>2. free[k] # fg[t]
      BY DEF FlowInv, PoolInv, PoolApart
    <3>3. Same(free[k])
      BY <3>1, <3>2 DEF StepOf
    <3> QED
      BY <3>3 DEF FlowInv, FreeEmpty, Same
  <2> QED
    BY <2>1 DEF FreeEmpty, StepOf
<1>2. ASSUME NEW u \in Threads, u # t PROVE ThreadFlow(u)'
  <2>1. ASSUME pc[u] \in Holding PROVE Same(fg[u])
    <3>1. fg[u] \in Pool /\ fg[u] # fg[t]
      BY <1>2, <2>1 DEF FlowInv, PoolInv, PoolTypes, PoolApart
    <3> QED
      BY <3>1 DEF StepOf
  <2>2. ThreadFlow(u) /\ opt' = opt /\ pc'[u] = pc[u] /\ evt'[u] = evt[u] /\ fg'[u] = fg[u]
    BY <1>2 DEF FlowInv, StepOf
  <2> QED
    BY <2>1, <2>2, ThreadFlowKept
<1> QED
  BY <1>1, <1>2 DEF FlowInv

\* What holds of a thread that has a flowgraph.
LEMMA Has ==
    ASSUME FlowInv, NEW t \in Threads, pc[t] \in Holding
    PROVE  /\ fg[t] \in Pool /\ evt[t] \in Events
           /\ src[fg[t]] \in [data : Seq(Items), offset : Nat]
           /\ snk[fg[t]] \in Seq(Items) /\ pipe[fg[t]] \in Seq(Items)
           /\ opt.gain \in Nat /\ LengthOf[evt[t]] \in Nat
           /\ Samples(evt[t]) \in Seq(Items) /\ Len(Samples(evt[t])) = LengthOf[evt[t]]
           /\ ThreadFlow(t)
<1>1. fg[t] \in Pool /\ evt[t] \in Events
  BY DEF FlowInv, FlowTypes, PoolInv, PoolTypes
<1>2. opt.gain \in Nat /\ LengthOf[evt[t]] \in Nat
  BY <1>1, FlowgraphAssumption DEF FlowInv, FlowTypes, OptionSpace
<1>3. \A k \in 1 .. LengthOf[evt[t]] : <<evt[t], k>> \in Items
  BY <1>1, <1>2 DEF Items
<1>4. Samples(evt[t]) \in Seq(Items) /\ Len(Samples(evt[t])) = LengthOf[evt[t]]
  BY <1>2, <1>3 DEF Samples
<1> QED
  BY <1>1, <1>2, <1>4 DEF FlowInv, FlowTypes

\* The steps of handler(), one lemma each: before the run,
LEMMA PrepareFlow ==
    ASSUME FlowInv, PoolInv', NEW t \in Threads, Prepare(t)
    PROVE  FlowInv'
<1> DEFINE f == fg[t]
           e == evt[t]
<1>1. /\ pc[t] = "prepare" /\ pc' = [pc EXCEPT ![t] = "prehook"]
      /\ src' = IF opt.source THEN [src EXCEPT ![f] = SetData(Samples(e))] ELSE src
      /\ snk' = [snk EXCEPT ![f] = <<>>] /\ ended' = ended \ {f}
      /\ UNCHANGED <<opt, todo, free, evt, fg, pipe, told, buf>>
  BY DEF Prepare, Goto, EmptySink, hookVars
<1>2. pc[t] \in Holding
  BY <1>1 DEF Holding
<1>3. /\ f \in Pool /\ e \in Events /\ Samples(e) \in Seq(Items)
      /\ opt.gain \in Nat /\ LengthOf[e] \in Nat /\ ThreadFlow(t)
  BY <1>2, Has
<1>4. SetData(Samples(e)) = [data |-> Samples(e), offset |-> 0]
  BY DEF SetData, Cleared
<1>5. FlowTypes'
  <2>1. Pool' = Pool
    BY <1>1 DEF Pool
  <2>2. src' \in [Pool -> [data : Seq(Items), offset : Nat]]
    BY <1>1, <1>3, <1>4 DEF FlowInv, FlowTypes
  <2>3. snk' \in [Pool -> Seq(Items)]
    BY <1>1, <1>3 DEF FlowInv, FlowTypes
  <2>4. \A u \in Threads : pc'[u] \in Holding => evt'[u] \in Events
    BY <1>1, <1>3 DEF FlowInv, FlowTypes, PoolInv, PoolTypes
  <2> QED
    BY <1>1, <2>1, <2>2, <2>3, <2>4 DEF FlowInv, FlowTypes
<1>6. StepOf(t)
  BY <1>1, <1>2 DEF StepOf, Same, FlowInv, FlowTypes, PoolInv, PoolTypes
<1>7. ThreadFlow(t)'
  <2>1. pc'[t] = "prehook"
    BY <1>1 DEF FlowInv, PoolInv, PoolTypes
  <2>2. pipe[f] = <<>>
    BY <1>1, <1>2, <1>3 DEF ThreadFlow
  <2>3. Handled(f, e)'
    <3>1. snk'[f] = <<>> /\ pipe'[f] = <<>> /\ f \notin ended'
      BY <1>1, <1>3, <2>2 DEF FlowInv, FlowTypes
    <3>2. Out(f)' = <<>>
      <4>1. <<>> \o <<>> = <<>>
        OBVIOUS
      <4> QED
        BY <3>1, <4>1, <1>1 DEF Out
    <3>3. ASSUME opt.source PROVE src'[f].data = Samples(e) /\ src'[f].offset = 0
      BY <1>1, <1>3, <1>4, <3>3 DEF FlowInv, FlowTypes
    <3>4. Turned(<<>>, e, 0)'
      <4>1. Len(<<>>) = 0 /\ opt'.gain * 0 = 0
        BY <1>1, <1>3
      <4> QED
        BY <4>1 DEF Turned
    <3>5. fg'[t] = f /\ evt'[t] = e
      BY <1>1
    <3>6. opt' = opt /\ 0 \in 0 .. LengthOf[e]
      BY <1>1, <1>3
    <3>7. Samples(e)' = Samples(e)
      BY <3>5 DEF Samples
    <3> QED
      BY <3>1, <3>2, <3>3, <3>4, <3>5, <3>6, <3>7 DEF Handled
  <2> QED
    BY <1>1, <2>1, <2>2, <2>3 DEF ThreadFlow
<1>8. Untold' /\ \A d \in Events : Written(d)'
  <2>1. Untold'
    BY <1>1 DEF FlowInv, Untold, Pool
  <2> QED
    BY <1>1, <2>1, WrittenKept DEF FlowInv
<1> QED
  BY <1>5, <1>6, <1>7, <1>8, StepOfKeeps

\* A step that moves thread t on, and no items.
Moves(t, to) ==
    /\ pc[t] \in Holding /\ pc' = [pc EXCEPT ![t] = to]
    /\ UNCHANGED <<opt, todo, free, evt, fg, src, snk, pipe, ended, buf>>
    /\ \/ told' = told
       \/ opt.pre = "python" /\ told' = [told EXCEPT ![fg[t]] = evt[t]]
    /\ to # "run" => pipe[fg[t]] = <<>>
    /\ to = "inpre" => opt.pre = "python"
    /\ to = "run" => told'[fg[t]] = Known(evt[t])
    /\ to \in {"posthook", "inpost", "copy"} => fg[t] \in ended
    /\ to \in Working => pc[t] \in Working

\* steps that only go on,
LEMMA MoveFlow ==
    ASSUME FlowInv, PoolInv', NEW t \in Threads, NEW to \in Holding, Moves(t, to)
    PROVE  FlowInv'
<1> USE DEF Moves
<1>1. fg[t] \in Pool /\ evt[t] \in Events /\ ThreadFlow(t)
  BY Has
<1>2. pc'[t] = to
  BY DEF FlowInv, PoolInv, PoolTypes
<1>3. FlowTypes'
  <2>1. Pool' = Pool
    BY DEF Pool
  <2>2. told' \in [Pool -> Events \cup {None}]
    BY <1>1 DEF FlowInv, FlowTypes
  <2>3. \A u \in Threads : pc'[u] \in Holding => evt'[u] \in Events
    BY <1>1 DEF FlowInv, FlowTypes, PoolInv, PoolTypes
  <2> QED
    BY <2>1, <2>2, <2>3 DEF FlowInv, FlowTypes
<1>4. StepOf(t)
  BY DEF StepOf, Same, FlowInv, FlowTypes, PoolInv, PoolTypes
<1>5. ThreadFlow(t)'
  <2>1. to \in Working => Handled(fg[t], evt[t])'
    <3>1. to \in Working => Handled(fg[t], evt[t])
      BY <1>1 DEF ThreadFlow
    <3> QED
      BY <3>1, HandledKept
  <2> QED
    BY <1>2, <2>1 DEF ThreadFlow, Known
<1>6. Untold' /\ \A d \in Events : Written(d)'
  <2>1. Untold'
    BY <1>1 DEF FlowInv, Untold, Pool
  <2> QED
    BY <2>1, WrittenKept DEF FlowInv
<1> QED
  BY <1>3, <1>4, <1>5, <1>6, StepOfKeeps

\* the hook,
LEMMA HookFlow ==
    ASSUME FlowInv, PoolInv', NEW t \in Threads,
           \/ SkipHook(t) \/ HookIsNone(t) \/ EnterHook(t) \/ LeaveHook(t)
           \/ HookThrows(t)
    PROVE  FlowInv'
<1>1. CASE SkipHook(t) \/ HookIsNone(t) \/ EnterHook(t)
  <2>1. PICK hook \in Hooks, to \in {After(pc[t]), Inside(pc[t])} :
            /\ pc[t] \in {"prehook", "posthook"} /\ HookAt(pc[t]) = hook
            /\ to = IF hook = "python" THEN Inside(pc[t]) ELSE After(pc[t])
            /\ pc' = [pc EXCEPT ![t] = to] /\ told' = told
            /\ UNCHANGED <<opt, todo, free, evt, fg, src, snk, pipe, ended, buf>>
    BY <1>1 DEF SkipHook, HookIsNone, EnterHook, AtHook, Hooks, hookVars, flowVars
  <2>2. pc[t] \in Holding /\ pc[t] \in Working
    BY <2>1 DEF Holding, Working
  <2>3. fg[t] \in Pool /\ ThreadFlow(t)
    BY <2>2, Has
  <2>4. CASE pc[t] = "prehook"
    <3>1. to = IF opt.pre = "python" THEN "inpre" ELSE "run"
      BY <2>1, <2>4 DEF After, Inside, HookAt
    <3>2. to = "run" => told'[fg[t]] = Known(evt[t])
      BY <2>1, <2>3, <3>1 DEF FlowInv, Untold, Known
    <3>3. pipe[fg[t]] = <<>>
      BY <2>2, <2>3, <2>4 DEF ThreadFlow
    <3>4. /\ to \in Holding /\ to \notin {"posthook", "inpost", "copy"}
          /\ to = "inpre" => opt.pre = "python"
      BY <3>1 DEF Holding
    <3> QED
      BY <2>1, <2>2, <3>2, <3>3, <3>4, MoveFlow DEF Moves
  <2>5. CASE pc[t] = "posthook"
    <3>1. to \in {"inpost", "copy"}
      BY <2>1, <2>5 DEF After, Inside
    <3>2. pipe[fg[t]] = <<>> /\ fg[t] \in ended
      BY <2>2, <2>3, <2>5 DEF ThreadFlow
    <3>3. to \in Holding /\ to # "run" /\ to # "inpre"
      BY <3>1 DEF Holding
    <3> QED
      BY <2>1, <2>2, <3>2, <3>3, MoveFlow DEF Moves
  <2> QED
    BY <2>1, <2>4, <2>5
<1>2. CASE LeaveHook(t)
  <2>1. /\ pc[t] \in {"inpre", "inpost"}
        /\ pc' = [pc EXCEPT ![t] = After(pc[t])]
        /\ told' = IF pc[t] = "inpre" THEN [told EXCEPT ![fg[t]] = evt[t]] ELSE told
        /\ UNCHANGED <<opt, todo, free, evt, fg, src, snk, pipe, ended, buf>>
    BY <1>2 DEF LeaveHook, InHook, flowVars
  <2>2. pc[t] \in Holding /\ pc[t] \in Working /\ pc[t] # "run"
    BY <2>1 DEF Holding, Working
  <2>3. fg[t] \in Pool /\ ThreadFlow(t)
    BY <2>2, Has
  <2>4. CASE pc[t] = "inpre"
    <3>1. After(pc[t]) = "run" /\ opt.pre = "python"
      BY <2>3, <2>4 DEF After, ThreadFlow
    <3>2. told' = [told EXCEPT ![fg[t]] = evt[t]] /\ told'[fg[t]] = Known(evt[t])
      BY <2>1, <2>3, <2>4, <3>1 DEF FlowInv, FlowTypes, Known
    <3>3. "run" \in Holding /\ pc' = [pc EXCEPT ![t] = "run"]
      BY <2>1, <3>1 DEF Holding
    <3> QED
      BY <2>1, <2>2, <3>1, <3>2, <3>3, MoveFlow DEF Moves
  <2>5. CASE pc[t] = "inpost"
    <3>1. pc' = [pc EXCEPT ![t] = "copy"] /\ "copy" \in Holding /\ told' = told
      BY <2>1, <2>5 DEF After, Holding
    <3>2. pipe[fg[t]] = <<>> /\ fg[t] \in ended
      BY <2>2, <2>3, <2>5 DEF ThreadFlow
    <3> QED
      BY <2>1, <2>2, <3>1, <3>2, MoveFlow DEF Moves
  <2> QED
    BY <2>1, <2>4, <2>5
<1>3. CASE HookThrows(t)
  <2>1. /\ pc[t] \in {"inpre", "inpost"} /\ pc' = [pc EXCEPT ![t] = "thrown"] /\ told' = told
        /\ UNCHANGED <<opt, todo, free, evt, fg, src, snk, pipe, ended, buf>>
    BY <1>3 DEF HookThrows, InHook, flowVars, hookVars
  <2>2. pc[t] \in Holding /\ pc[t] # "run" /\ "thrown" \in Holding /\ "thrown" \notin Working
    BY <2>1 DEF Holding, Working
  <2>3. pipe[fg[t]] = <<>>
    BY <2>2, Has DEF ThreadFlow
  <2> QED
    BY <2>1, <2>2, <2>3, MoveFlow DEF Moves
<1> QED
  BY <1>1, <1>2, <1>3

\* Pieces of a sequence, and how they are put together again.
LEMMA Joined ==
    ASSUME NEW s \in Seq(Items), NEW t \in Seq(Items), NEW u \in Seq(Items)
    PROVE  s \o t \in Seq(Items) /\ (s \o t) \o u = s \o (t \o u)
<1>1. s \o t \in Seq(Items)
  BY ConcatProperties
<1>2. (s \o t) \o u = s \o (t \o u)
  BY ConcatAssociative
<1> QED
  BY <1>1, <1>2

LEMMA Slice ==
    ASSUME NEW q \in Seq(Items), NEW a \in Nat, NEW c \in Nat, a + c <= Len(q)
    PROVE  /\ SubSeq(q, a + 1, a + c) \in Seq(Items)
           /\ Len(SubSeq(q, a + 1, a + c)) = c
           /\ \A j \in 1 .. c : SubSeq(q, a + 1, a + c)[j] = q[a + j]
<1>1. PICK i \in Int, k \in Int : i = a + 1 /\ k = a + c
  OBVIOUS
<1>2. \A j \in i .. k : q[j] \in Items
  <2>1. \A j \in i .. k : j \in 1 .. Len(q)
    BY <1>1
  <2> QED
    BY <2>1, ElementOfSeq
<1>3. /\ SubSeq(q, i, k) \in Seq(Items)
      /\ Len(SubSeq(q, i, k)) = IF i <= k THEN k - i + 1 ELSE 0
      /\ \A j \in 1 .. k - i + 1 : SubSeq(q, i, k)[j] = q[i + j - 1]
  BY <1>2, SubSeqProperties
<1>4. k - i + 1 = c /\ (IF i <= k THEN k - i + 1 ELSE 0) = c
      /\ \A j \in 1 .. c : i + j - 1 = a + j
  BY <1>1
<1> HIDE DEF Items
<1> QED
  BY <1>1, <1>3, <1>4

LEMMA Halves ==
    ASSUME NEW q \in Seq(Items), NEW n \in Nat, n <= Len(q)
    PROVE  /\ SubSeq(q, 1, n) \in Seq(Items) /\ SubSeq(q, n + 1, Len(q)) \in Seq(Items)
           /\ SubSeq(q, 1, n) \o SubSeq(q, n + 1, Len(q)) = q
<1>1. Len(q) \in Nat
  BY LenProperties
<1>2. PICK u \in Nat : u = 1
  OBVIOUS
<1>3. PICK w \in Nat : w = Len(q)
  BY <1>1
<1>4. SubSeq(q, u, n) \o SubSeq(q, n + 1, w) = SubSeq(q, u, w)
  <2>1. u \in 1 .. (Len(q) + 1) /\ n \in (u - 1) .. Len(q) /\ w \in n .. Len(q)
    BY <1>1, <1>2, <1>3
  <2> QED
    BY <2>1, ConcatAdjacentSubSeq
<1>5. SubSeq(q, 1, Len(q)) = q
  BY SubSeqFull
<1>6. SubSeq(q, 1, n) \in Seq(Items)
  <2>1. PICK z \in Nat : z = 0
    OBVIOUS
  <2>2. SubSeq(q, z + 1, z + n) \in Seq(Items)
    <3>1. z + n <= Len(q)
      BY <1>1, <2>1
    <3> QED
      BY <3>1, Slice
  <2>3. z + 1 = 1 /\ z + n = n
    BY <2>1
  <2> QED
    BY <2>2, <2>3
<1>7. SubSeq(q, n + 1, Len(q)) \in Seq(Items)
  <2>1. PICK c \in Nat : c = Len(q) - n
    BY <1>1
  <2>2. n + c = Len(q)
    BY <1>1, <2>1
  <2>3. SubSeq(q, n + 1, n + c) \in Seq(Items)
    <3>1. n + c <= Len(q)
      BY <1>1, <2>2
    <3> QED
      BY <3>1, Slice
  <2> QED
    BY <2>2, <2>3
<1> QED
  BY <1>2, <1>3, <1>4, <1>5, <1>6, <1>7

\* the source of the flowgraph,
LEMMA SourceWorkFlow ==
    ASSUME FlowInv, PoolInv', NEW t \in Threads, NEW n \in 1 .. MaxWork, SourceWork(t, n)
    PROVE  FlowInv'
<1> DEFINE f == fg[t]
           e == evt[t]
           r == Played(src[f], n)
           m == src[f].offset
<1>1. /\ opt.source /\ pc[t] = "run" /\ f \notin ended
      /\ src' = [src EXCEPT ![f] = Advanced(src[f], n)]
      /\ pipe' = [pipe EXCEPT ![f] = pipe[f] \o Through(r)]
      /\ ended' = IF SaysDone(src[f], n) THEN ended \cup {f} ELSE ended
      /\ UNCHANGED <<opt, todo, free, pc, evt, fg, snk, told, buf>>
  BY DEF SourceWork, Running, hookVars
<1>2. pc[t] \in Holding /\ pc[t] \in Working
  BY <1>1 DEF Holding, Working
<1>3. /\ f \in Pool /\ e \in Events /\ src[f] \in [data : Seq(Items), offset : Nat]
      /\ snk[f] \in Seq(Items) /\ pipe[f] \in Seq(Items)
      /\ opt.gain \in Nat /\ LengthOf[e] \in Nat /\ ThreadFlow(t)
      /\ Samples(e) \in Seq(Items) /\ Len(Samples(e)) = LengthOf[e]
  BY <1>2, Has
<1>4. Handled(f, e)
  BY <1>2, <1>3 DEF ThreadFlow
<1>5. src[f].data = Samples(e) /\ m \in 0 .. LengthOf[e]
  BY <1>1, <1>4 DEF Handled
<1>6. PICK c \in Nat : /\ c = Least(n, ItemsRemain(src[f])) /\ m + c <= LengthOf[e]
                       /\ SaysDone(src[f], n) => m + c = LengthOf[e]
  <2>1. ItemsRemain(src[f]) = LengthOf[e] - m
    BY <1>3, <1>5 DEF ItemsRemain
  <2>2. n \in Nat /\ LengthOf[e] - m \in Nat
    BY <1>3, <1>5, FlowgraphAssumption
  <2>3. /\ Least(n, LengthOf[e] - m) \in Nat /\ m + Least(n, LengthOf[e] - m) <= LengthOf[e]
    BY <1>3, <1>5, <2>2 DEF Least
  <2>4. SaysDone(src[f], n) => LengthOf[e] - m = 0 /\ Least(n, LengthOf[e] - m) = 0
    BY <2>1 DEF SaysDone
  <2>5. LengthOf[e] - m = 0 => m + 0 = LengthOf[e]
    BY <1>3, <1>5
  <2> HIDE DEF m
  <2> QED
    BY <2>1, <2>3, <2>4, <2>5
<1>7. /\ r \in Seq(Items) /\ Len(r) = c /\ \A j \in 1 .. Len(r) : r[j] = <<e, m + j>>
  <2>1. r = SubSeq(Samples(e), m + 1, m + c)
    BY <1>5, <1>6 DEF Played
  <2>2. PICK a \in Nat : a = m
    BY <1>3
  <2>3. a + c <= Len(Samples(e))
    BY <1>3, <1>6, <2>2
  <2>4. PICK q \in Seq(Items) : q = Samples(e)
    BY <1>3
  <2>5. r \in Seq(Items) /\ Len(r) = c /\ \A j \in 1 .. c : r[j] = Samples(e)[m + j]
    <3>1. /\ SubSeq(q, a + 1, a + c) \in Seq(Items)
          /\ Len(SubSeq(q, a + 1, a + c)) = c
          /\ \A j \in 1 .. c : SubSeq(q, a + 1, a + c)[j] = q[a + j]
      BY <2>3, <2>4, Slice
    <3>2. r = SubSeq(q, a + 1, a + c)
      BY <2>1, <2>2, <2>4
    <3> HIDE DEF r, m
    <3> QED
      BY <2>2, <2>4, <3>1, <3>2
  <2>6. \A j \in 1 .. c : m + j \in 1 .. LengthOf[e]
    <3>1. PICK l \in Nat : l = LengthOf[e]
      BY <1>3
    <3>2. a + c <= l
      BY <1>6, <2>2, <3>1
    <3>3. \A j \in 1 .. c : a + j \in 1 .. l
      BY <3>2
    <3> QED
      BY <2>2, <3>1, <3>3
  <2>7. \A j \in 1 .. LengthOf[e] : Samples(e)[j] = <<e, j>>
    BY <1>3 DEF Samples
  <2> HIDE DEF m, r
  <2> QED
    BY <2>5, <2>6, <2>7
<1>8. Through(r) \in Seq(Items) /\ pipe[f] \o Through(r) \in Seq(Items)
  <2>1. PICK d \in Events, q \in Nat : d = e /\ q = m
    BY <1>3
  <2>2. Through(r) \in Seq(Items)
    BY <1>3, <1>7, <2>1, ThroughIs
  <2> QED
    BY <1>3, <2>2, ConcatProperties
<1>9. Advanced(src[f], n) = [data |-> Samples(e), offset |-> m + c]
  BY <1>3, <1>5, <1>6 DEF Advanced
<1>10. StepOf(t)
  BY <1>1, <1>2 DEF StepOf, Same, FlowInv, FlowTypes, PoolInv, PoolTypes
<1>11. src'[f] = [data |-> Samples(e), offset |-> m + c] /\ pipe'[f] = pipe[f] \o Through(r)
  BY <1>1, <1>3, <1>9 DEF FlowInv, FlowTypes
<1>12. FlowTypes'
  <2>1. Pool' = Pool
    BY <1>1 DEF Pool
  <2>2. src' \in [Pool -> [data : Seq(Items), offset : Nat]]
    <3>1. [data |-> Samples(e), offset |-> m + c] \in [data : Seq(Items), offset : Nat]
      BY <1>3, <1>5, <1>6
    <3> QED
      BY <1>1, <1>3, <1>9, <3>1 DEF FlowInv, FlowTypes
  <2>3. pipe' \in [Pool -> Seq(Items)]
    BY <1>1, <1>3, <1>8 DEF FlowInv, FlowTypes
  <2> QED
    BY <1>1, <2>1, <2>2, <2>3 DEF FlowInv, FlowTypes
<1>13. ThreadFlow(t)'
  <2>1. Handled(f, e)'
    <3>1. fg'[t] = f /\ evt'[t] = e /\ opt' = opt /\ Samples(e)' = Samples(e)
      BY <1>1 DEF Samples
    <3>2. src'[f].data = Samples(e) /\ src'[f].offset = m + c /\ m + c \in 0 .. LengthOf[e]
      BY <1>3, <1>5, <1>6, <1>11
    <3>3. f \in ended' => m + c = LengthOf[e]
      BY <1>1, <1>6
    <3>4. opt.sink => Turned(Out(f), e, src[f].offset)'
      <4> SUFFICES ASSUME opt.sink PROVE Turned(Out(f), e, src[f].offset)'
        OBVIOUS
      <4>1. Turned(Out(f), e, m)
        BY <1>1, <1>4 DEF Handled
      <4>2. Out(f) \in Seq(Items)
        BY <1>3, Joined DEF Out
      <4>3. Turned(Out(f) \o Through(r), e, m + Len(r))
        <5>1. PICK d \in Events, q \in Nat : d = e /\ q = m
          BY <1>3
        <5> QED
          BY <1>3, <1>7, <4>1, <4>2, <5>1, TurnedFurther
      <4>4. Out(f)' = Out(f) \o Through(r)
        <5>1. Out(f)' = snk[f] \o (pipe[f] \o Through(r))
          BY <1>1, <1>11 DEF Out
        <5> QED
          <6>1. PICK x \in Seq(Items) : x = snk[f]
            BY <1>3
          <6>2. PICK y \in Seq(Items) : y = pipe[f]
            BY <1>3
          <6>3. PICK z \in Seq(Items) : z = Through(r)
            BY <1>8
          <6>4. (x \o y) \o z = x \o (y \o z)
            BY Joined, SMTT(30)
          <6> QED
            BY <5>1, <6>1, <6>2, <6>3, <6>4 DEF Out
      <4>5. src'[f].offset = m + Len(r)
        BY <1>7, <3>2
      <4> QED
        BY <3>1, <4>3, <4>4, <4>5 DEF Turned
    <3> QED
      BY <1>1, <3>1, <3>2, <3>3, <3>4 DEF Handled
  <2> QED
    BY <1>1, <1>3, <2>1 DEF ThreadFlow, Known
<1>14. Untold' /\ \A d \in Events : Written(d)'
  <2>1. Untold'
    BY <1>1 DEF FlowInv, Untold, Pool
  <2> QED
    BY <1>1, <2>1, WrittenKept DEF FlowInv
<1> QED
  BY <1>10, <1>12, <1>13, <1>14, StepOfKeeps

\* the user's blocks,
LEMMA MakeFlow ==
    ASSUME FlowInv, PoolInv', NEW t \in Threads, NEW n \in 0 .. MaxMade, Make(t, n)
    PROVE  FlowInv'
<1> DEFINE f == fg[t]
           e == evt[t]
           r == [k \in 1 .. n |-> <<told[f], k>>]
<1>1. /\ ~opt.source /\ pc[t] = "run" /\ f \notin ended
      /\ pipe' = [pipe EXCEPT ![f] = pipe[f] \o r]
      /\ ended' = ended \cup {f}
      /\ UNCHANGED <<opt, todo, free, pc, evt, fg, src, snk, told, buf>>
  BY DEF Make, Running, hookVars
<1>2. pc[t] \in Holding /\ pc[t] \in Working
  BY <1>1 DEF Holding, Working
<1>3. /\ f \in Pool /\ e \in Events /\ snk[f] \in Seq(Items) /\ pipe[f] \in Seq(Items)
      /\ ThreadFlow(t)
  BY <1>2, Has
<1>4. n \in Nat /\ told[f] = Known(e) /\ Known(e) \in Events \cup {None}
  BY <1>1, <1>3, FlowgraphAssumption DEF ThreadFlow, Known
<1>5. r \in Seq(Items) /\ Len(r) = n /\ \A k \in 1 .. n : r[k] = <<Known(e), k>>
  <2>1. \A k \in 1 .. n : <<told[f], k>> \in Items
    BY <1>4 DEF Items
  <2> QED
    BY <1>4, <2>1
<1>6. pipe[f] \o r \in Seq(Items)
  BY <1>3, <1>5, ConcatProperties
<1> HIDE DEF r
<1>7. StepOf(t)
  BY <1>1, <1>2 DEF StepOf, Same, FlowInv, FlowTypes, PoolInv, PoolTypes
<1>8. FlowTypes'
  <2>1. Pool' = Pool
    BY <1>1 DEF Pool
  <2>2. pipe' \in [Pool -> Seq(Items)]
    BY <1>1, <1>3, <1>6 DEF FlowInv, FlowTypes
  <2> QED
    BY <1>1, <2>1, <2>2 DEF FlowInv, FlowTypes
<1>9. ThreadFlow(t)'
  <2>1. Handled(f, e)'
    <3>1. fg'[t] = f /\ evt'[t] = e /\ opt' = opt /\ f \in ended'
      BY <1>1
    <3>2. opt.sink => Made(Out(f), Known(e), n)'
      <4> SUFFICES ASSUME opt.sink PROVE Made(Out(f), Known(e), n)'
        OBVIOUS
      <4>1. Out(f) = <<>>
        BY <1>1, <1>2, <1>3 DEF ThreadFlow, Handled
      <4>2. Out(f)' = snk[f] \o (pipe[f] \o r)
        BY <1>1, <1>3 DEF Out, FlowInv, FlowTypes
      <4>3. Out(f)' = Out(f) \o r
        BY <1>3, <1>5, <4>2, Joined DEF Out
      <4>4. Out(f)' = r
        BY <1>5, <4>1, <4>3, ConcatEmptySeq
      <4>5. Known(e)' = Known(e)
        BY <1>1 DEF Known
      <4> QED
        BY <1>5, <4>4, <4>5 DEF Made
    <3> QED
      BY <1>1, <1>4, <3>1, <3>2 DEF Handled
  <2> QED
    BY <1>1, <1>3, <2>1 DEF ThreadFlow, Known
<1>10. Untold' /\ \A d \in Events : Written(d)'
  <2>1. Untold'
    BY <1>1 DEF FlowInv, Untold, Pool
  <2> QED
    BY <1>1, <2>1, WrittenKept DEF FlowInv
<1> QED
  BY <1>7, <1>8, <1>9, <1>10, StepOfKeeps

\* the sink of the flowgraph,
LEMMA SinkWorkFlow ==
    ASSUME FlowInv, PoolInv', NEW t \in Threads, NEW n \in 1 .. MaxWork, SinkWork(t, n)
    PROVE  FlowInv'
<1> DEFINE f == fg[t]
           e == evt[t]
           p == pipe[f]
           a == SubSeq(p, 1, n)
           b == SubSeq(p, n + 1, Len(p))
<1>1. /\ pc[t] = "run" /\ n <= Len(p)
      /\ snk' = IF opt.sink THEN [snk EXCEPT ![f] = snk[f] \o a] ELSE snk
      /\ pipe' = [pipe EXCEPT ![f] = b]
      /\ UNCHANGED <<opt, todo, free, pc, evt, fg, src, ended, told, buf>>
  BY DEF SinkWork, Collected, hookVars
<1>2. pc[t] \in Holding /\ pc[t] \in Working
  BY <1>1 DEF Holding, Working
<1>3. f \in Pool /\ snk[f] \in Seq(Items) /\ p \in Seq(Items) /\ ThreadFlow(t)
  BY <1>2, Has
<1>4. a \in Seq(Items) /\ b \in Seq(Items) /\ a \o b = p
  <2>1. n \in Nat
    BY FlowgraphAssumption
  <2> HIDE DEF p
  <2> QED
    BY <1>1, <1>3, <2>1, Halves
<1> HIDE DEF a, b
<1>5. snk[f] \o a \in Seq(Items)
  BY <1>3, <1>4, ConcatProperties
<1>6. StepOf(t)
  BY <1>1, <1>2 DEF StepOf, Same, FlowInv, FlowTypes, PoolInv, PoolTypes
<1>7. FlowTypes'
  <2>1. Pool' = Pool
    BY <1>1 DEF Pool
  <2>2. pipe' \in [Pool -> Seq(Items)]
    BY <1>1, <1>3, <1>4 DEF FlowInv, FlowTypes
  <2>3. snk' \in [Pool -> Seq(Items)]
    BY <1>1, <1>3, <1>5 DEF FlowInv, FlowTypes
  <2> QED
    BY <1>1, <2>1, <2>2, <2>3 DEF FlowInv, FlowTypes
<1>8. ThreadFlow(t)'
  <2>1. opt.sink => Out(f)' = Out(f)
    <3> SUFFICES ASSUME opt.sink PROVE Out(f)' = Out(f)
      OBVIOUS
    <3>1. snk'[f] = snk[f] \o a /\ pipe'[f] = b /\ fg' = fg
      BY <1>1, <1>3 DEF FlowInv, FlowTypes
    <3>2. (snk[f] \o a) \o b = snk[f] \o (a \o b)
      <4>1. PICK x \in Seq(Items) : x = snk[f]
        BY <1>3
      <4>2. PICK y \in Seq(Items) : y = a
        BY <1>4
      <4>3. PICK z \in Seq(Items) : z = b
        BY <1>4
      <4>4. (x \o y) \o z = x \o (y \o z)
        BY Joined
      <4> QED
        BY <4>1, <4>2, <4>3, <4>4
    <3> QED
      BY <1>4, <3>1, <3>2 DEF Out
  <2>2. Handled(f, e)
    BY <1>2, <1>3 DEF ThreadFlow
  <2>3. Handled(f, e)'
    <3>1. fg' = fg /\ evt' = evt /\ opt' = opt /\ src' = src /\ ended' = ended
      BY <1>1
    <3>2. Samples(e)' = Samples(e) /\ Known(e)' = Known(e)
      BY <3>1 DEF Samples, Known
    <3>3. opt.source /\ opt.sink => Turned(Out(f), e, src[f].offset)'
      BY <2>1, <2>2, <3>1 DEF Handled, Turned
    <3>4. opt.sink => \A i \in Nat : Made(Out(f), Known(e), i) => Made(Out(f), Known(e), i)'
      BY <2>1, <3>2 DEF Made
    <3> QED
      BY <2>1, <2>2, <3>1, <3>2, <3>3, <3>4 DEF Handled
  <2> QED
    BY <1>1, <1>3, <2>3 DEF ThreadFlow, Known
<1>9. Untold' /\ \A d \in Events : Written(d)'
  <2>1. Untold'
    BY <1>1 DEF FlowInv, Untold, Pool
  <2> QED
    BY <1>1, <2>1, WrittenKept DEF FlowInv
<1> QED
  BY <1>6, <1>7, <1>8, <1>9, StepOfKeeps

\* the end of the run,
LEMMA RunFlow ==
    ASSUME FlowInv, PoolInv', NEW t \in Threads, RunReturns(t)
    PROVE  FlowInv'
<1>1. /\ pc[t] = "run" /\ fg[t] \in ended /\ pipe[fg[t]] = <<>>
      /\ pc' = [pc EXCEPT ![t] = "posthook"] /\ told' = told
      /\ UNCHANGED <<opt, todo, free, evt, fg, src, snk, pipe, ended, buf>>
  BY DEF RunReturns, Goto, flowVars, hookVars
<1>2. pc[t] \in Holding /\ pc[t] \in Working /\ "posthook" \in Holding
  BY <1>1 DEF Holding, Working
<1> QED
  BY <1>1, <1>2, MoveFlow DEF Moves

\* The items collected are what belongs into the event's buffer.
LEMMA Whole ==
    ASSUME FlowInv, NEW t \in Threads, pc[t] = "copy", opt.sink,
           Len(snk[fg[t]]) <= LengthOf[evt[t]]
    PROVE  \E n \in 0 .. LengthOf[evt[t]] :
              snk[fg[t]] = IF opt.source THEN Through(Samples(evt[t]))
                           ELSE [k \in 1 .. n |-> <<Known(evt[t]), k>>]
<1> DEFINE f == fg[t]
           e == evt[t]
<1>1. pc[t] \in Holding \ {"run"} /\ pc[t] \in Working
  BY DEF Holding, Working
<1>2. /\ f \in Pool /\ e \in Events /\ snk[f] \in Seq(Items)
      /\ opt.gain \in Nat /\ LengthOf[e] \in Nat /\ ThreadFlow(t)
  BY <1>1, Has
<1>3. pipe[f] = <<>> /\ f \in ended /\ Handled(f, e)
  BY <1>1, <1>2 DEF ThreadFlow
<1>4. Out(f) = snk[f]
  BY <1>2, <1>3, ConcatEmptySeq DEF Out
<1>5. CASE opt.source
  <2>1. Turned(snk[f], e, LengthOf[e])
    BY <1>3, <1>4, <1>5 DEF Handled
  <2>2. snk[f] = Through(Samples(e))
    <3>1. PICK d \in Events : d = e
      BY <1>2
    <3>2. PICK o \in Seq(Items) : o = snk[f]
      BY <1>2
    <3>3. Turned(o, d, LengthOf[d])
      BY <2>1, <3>1, <3>2
    <3> QED
      BY <1>2, <3>1, <3>2, <3>3, TurnedWhole
  <2> QED
    BY <1>2, <1>5, <2>2
<1>6. CASE ~opt.source
  <2>1. PICK n \in Nat : Made(snk[f], Known(e), n)
    BY <1>3, <1>4, <1>6 DEF Handled
  <2>2. n \in 0 .. LengthOf[e] /\ Len(snk[f]) = n
    BY <1>2, <2>1 DEF Made
  <2>3. snk[f] = [k \in 1 .. n |-> <<Known(e), k>>]
    <3> DEFINE w == [k \in 1 .. n |-> <<Known(e), k>>]
    <3>1. \A k \in 1 .. n : snk[f][k] = <<Known(e), k>>
      BY <2>1 DEF Made
    <3>2. \A k \in 1 .. n : snk[f][k] \in Items
      BY <1>2, <2>2, ElementOfSeq
    <3>3. w \in Seq(Items) /\ Len(w) = n
      BY <3>1, <3>2
    <3>4. \A k \in 1 .. n : w[k] = snk[f][k]
      BY <3>1
    <3> HIDE DEF w
    <3>5. snk[f] = w
      BY <1>2, <2>2, <3>3, <3>4, SeqEqual
    <3> QED
      BY <3>5 DEF w
  <2> QED
    BY <1>6, <2>2, <2>3
<1> QED
  BY <1>5, <1>6

\* the copy into the buffer,
LEMMA CopyFlow ==
    ASSUME FlowInv, PoolInv', NEW t \in Threads, CopyOut(t) \/ CopyNothing(t) \/ Throw(t)
    PROVE  FlowInv'
<1> DEFINE f == fg[t]
           e == evt[t]
<1>1. PICK to \in {"release", "thrown"} :
          /\ pc[t] = "copy" /\ pc' = [pc EXCEPT ![t] = to]
          /\ UNCHANGED <<opt, todo, free, evt, fg, src, snk, pipe, ended, told>>
  BY DEF CopyOut, CopyNothing, Throw, Goto, flowVars, hookVars
<1>2. pc[t] \in Holding \ {"run"} /\ to \in Holding /\ to \notin Working
      /\ to \notin {"run", "inpre", "posthook", "inpost", "copy"}
  BY <1>1 DEF Holding, Working
<1>3. f \in Pool /\ e \in Events /\ LengthOf[e] \in Nat /\ ThreadFlow(t)
  BY <1>2, Has
<1>4. \/ buf' = buf
      \/ /\ opt.sink /\ Len(snk[f]) <= LengthOf[e]
         /\ buf' = [buf EXCEPT ![e] = snk[f] \o Zeros(LengthOf[e] - Len(snk[f]))]
  BY DEF CopyOut, CopyNothing, Throw
<1>5. buf' = [d \in Events |-> buf'[d]]
  BY <1>4 DEF FlowInv, FlowTypes
<1>6. FlowTypes'
  <2>1. Pool' = Pool
    BY <1>1 DEF Pool
  <2>2. \A u \in Threads : pc'[u] \in Holding => evt'[u] \in Events
    BY <1>1, <1>3 DEF FlowInv, FlowTypes, PoolInv, PoolTypes
  <2> QED
    BY <1>1, <1>5, <2>1, <2>2 DEF FlowInv, FlowTypes
<1>7. StepOf(t)
  BY <1>1, <1>2 DEF StepOf, Same, FlowInv, FlowTypes, PoolInv, PoolTypes
<1>8. ThreadFlow(t)'
  <2>1. pc'[t] = to /\ pipe'[fg'[t]] = <<>>
    BY <1>1, <1>2, <1>3 DEF ThreadFlow, FlowInv, PoolInv, PoolTypes
  <2> QED
    BY <1>2, <2>1 DEF ThreadFlow
<1>9. Untold'
  BY <1>1 DEF FlowInv, Untold, Pool
<1>10. ASSUME NEW d \in Events PROVE Written(d)'
  <2>1. CASE buf'[d] = buf[d]
    BY <1>1, <2>1, WrittenKept DEF FlowInv
  <2>2. CASE buf'[d] # buf[d]
    <3>1. /\ d = e /\ opt.sink /\ Len(snk[f]) <= LengthOf[e]
          /\ buf'[d] = snk[f] \o Zeros(LengthOf[e] - Len(snk[f]))
      BY <1>3, <1>4, <2>2 DEF FlowInv, FlowTypes
    <3>2. PICK n \in 0 .. LengthOf[e] :
              snk[f] = IF opt.source THEN Through(Samples(e))
                       ELSE [k \in 1 .. n |-> <<Known(e), k>>]
      BY <1>1, <3>1, Whole
    <3>3. /\ Through(Samples(d))' = Through(Samples(d)) /\ Known(d)' = Known(d)
          /\ opt' = opt
      BY <1>1 DEF Through, Samples, Known
    <3> HIDE DEF f, e
    <3> QED
      BY <3>1, <3>2, <3>3 DEF Written
  <2> QED
    BY <2>1, <2>2
<1> QED
  BY <1>6, <1>7, <1>8, <1>9, <1>10, StepOfKeeps

\* the way back into the pool,
LEMMA ReleaseFlow ==
    ASSUME FlowInv, PoolInv', NEW t \in Threads, Release(t)
    PROVE  FlowInv'
<1>1. /\ pc[t] = "release" /\ pc' = [pc EXCEPT ![t] = "idle"]
      /\ free' = Append(free, fg[t])
      /\ evt' = [evt EXCEPT ![t] = None] /\ fg' = [fg EXCEPT ![t] = None]
      /\ UNCHANGED <<opt, todo, src, snk, pipe, ended, told, buf>>
  BY DEF Release, Goto, flowVars, hookVars
<1>2. pc[t] \in Holding \ {"run"}
  BY <1>1 DEF Holding
<1>3. fg[t] \in Pool /\ pipe[fg[t]] = <<>>
  BY <1>2, Has DEF ThreadFlow
<1>4. FreeEmpty'
  <2>1. free \in Seq(Pool)
    BY DEF FlowInv, PoolInv, PoolTypes
  <2>2. /\ Len(free') = Len(free) + 1 /\ free'[Len(free) + 1] = fg[t] /\ Len(free) \in Nat
        /\ \A k \in 1 .. Len(free) : free'[k] = free[k]
    BY <1>1, <1>3, <2>1
  <2> QED
    BY <1>1, <1>3, <2>2 DEF FlowInv, FreeEmpty
<1>5. FlowTypes'
  <2>1. Pool' = Pool
    BY <1>1 DEF Pool
  <2>2. \A u \in Threads : pc'[u] \in Holding => u # t
    BY <1>1 DEF FlowInv, PoolInv, PoolTypes, Holding
  <2>3. \A u \in Threads : pc'[u] \in Holding => evt'[u] \in Events
    BY <1>1, <2>2 DEF FlowInv, FlowTypes, PoolInv, PoolTypes
  <2> QED
    BY <1>1, <2>1, <2>3 DEF FlowInv, FlowTypes
<1>6. ASSUME NEW u \in Threads PROVE ThreadFlow(u)'
  <2>1. CASE u = t
    <3>1. pc'[u] = "idle"
      BY <1>1, <2>1 DEF FlowInv, PoolInv, PoolTypes
    <3> QED
      BY <3>1 DEF ThreadFlow, Holding, Working
  <2>2. CASE u # t
    <3>1. pc'[u] = pc[u] /\ evt'[u] = evt[u] /\ fg'[u] = fg[u] /\ Same(fg[u])
      BY <1>1, <2>2 DEF FlowInv, FlowTypes, PoolInv, PoolTypes, Same
    <3> QED
      BY <1>1, <3>1, ThreadFlowKept DEF FlowInv
  <2> QED
    BY <2>1, <2>2
<1>7. Untold' /\ \A d \in Events : Written(d)'
  <2>1. Untold'
    BY <1>1 DEF FlowInv, Untold, Pool
  <2> QED
    BY <1>1, <2>1, WrittenKept DEF FlowInv
<1> QED
  BY <1>4, <1>5, <1>6, <1>7 DEF FlowInv

\* and the next event.
LEMMA GrabFlow ==
    ASSUME FlowInv, PoolInv', NEW t \in Threads, NEW e \in todo,
           Grab(t, e) \/ GrabNothing(t, e)
    PROVE  FlowInv'
<1>1. /\ pc[t] = "idle" /\ todo' = todo \ {e} /\ evt' = [evt EXCEPT ![t] = e]
      /\ UNCHANGED <<opt, src, snk, pipe, ended, told, buf>>
      /\ \/ /\ pc' = [pc EXCEPT ![t] = "prepare"] /\ free # <<>>
            /\ free' = Tail(free) /\ fg' = [fg EXCEPT ![t] = Head(free)]
         \/ pc' = [pc EXCEPT ![t] = "wild"] /\ free' = free /\ fg' = fg
  BY DEF Grab, GrabNothing, Goto, flowVars, hookVars
<1>2. e \in Events /\ free \in Seq(Pool)
  BY DEF FlowInv, FlowTypes, PoolInv, PoolTypes
<1>3. free # <<>> => /\ Head(free) = free[1] /\ 1 \in 1 .. Len(free)
                     /\ Len(Tail(free)) = Len(free) - 1
                     /\ \A k \in 1 .. (Len(free) - 1) :
                           Tail(free)[k] = free[k + 1] /\ k + 1 \in 1 .. Len(free)
  BY <1>2
<1>4. FreeEmpty'
  BY <1>1, <1>3, SMTT(30) DEF FlowInv, FreeEmpty
<1>5. FlowTypes'
  <2>1. Pool' = Pool
    BY <1>1 DEF Pool
  <2>2. \A u \in Threads : pc'[u] \in Holding => evt'[u] \in Events
    BY <1>1, <1>2 DEF FlowInv, FlowTypes, PoolInv, PoolTypes
  <2> QED
    BY <1>1, <1>2, <2>1, <2>2 DEF FlowInv, FlowTypes
<1>6. ASSUME NEW u \in Threads PROVE ThreadFlow(u)'
  <2>1. CASE u = t /\ pc' = [pc EXCEPT ![t] = "prepare"]
    <3>1. pc'[u] = "prepare" /\ pipe'[fg'[u]] = <<>>
      BY <1>1, <1>3, <2>1 DEF FlowInv, FreeEmpty, PoolInv, PoolTypes
    <3> QED
      BY <3>1 DEF ThreadFlow, Working
  <2>2. CASE u = t /\ pc' = [pc EXCEPT ![t] = "wild"]
    <3>1. pc'[u] = "wild"
      BY <2>2 DEF FlowInv, PoolInv, PoolTypes
    <3> QED
      BY <3>1 DEF ThreadFlow, Holding, Working
  <2>3. CASE u # t
    <3>1. pc'[u] = pc[u] /\ evt'[u] = evt[u] /\ fg'[u] = fg[u] /\ Same(fg[u])
      BY <1>1, <2>3 DEF FlowInv, FlowTypes, PoolInv, PoolTypes, Same
    <3> QED
      BY <1>1, <3>1, ThreadFlowKept DEF FlowInv
  <2> QED
    BY <1>1, <2>1, <2>2, <2>3
<1>7. Untold' /\ \A d \in Events : Written(d)'
  <2>1. Untold'
    BY <1>1 DEF FlowInv, Untold, Pool
  <2> QED
    BY <1>1, <2>1, WrittenKept DEF FlowInv
<1> QED
  BY <1>4, <1>5, <1>6, <1>7 DEF FlowInv

\* Every step keeps what a flowgraph has put out in step with its source.
LEMMA FlowInvKept == FlowInv /\ [Next]_vars => FlowInv'
<1> SUFFICES ASSUME FlowInv, [Next]_vars PROVE FlowInv'
  OBVIOUS
<1>1. PoolInv'
  BY PoolInvKept DEF FlowInv
<1>2. ASSUME NEW t \in Threads, NEW e \in todo, Grab(t, e) \/ GrabNothing(t, e)
      PROVE  FlowInv'
  BY <1>1, <1>2, GrabFlow
<1>3. ASSUME NEW t \in Threads, Step(t) PROVE FlowInv'
  <2>1. CASE Prepare(t)
    BY <1>1, <2>1, PrepareFlow
  <2>2. CASE RunReturns(t)
    BY <1>1, <2>2, RunFlow
  <2>3. CASE SkipHook(t) \/ HookIsNone(t) \/ EnterHook(t) \/ LeaveHook(t) \/ HookThrows(t)
    BY <1>1, <2>3, HookFlow
  <2>4. CASE CopyOut(t) \/ CopyNothing(t) \/ Throw(t)
    BY <1>1, <2>4, CopyFlow
  <2>5. CASE Release(t)
    BY <1>1, <2>5, ReleaseFlow
  <2>6. CASE \E n \in 1 .. MaxWork : SourceWork(t, n)
    BY <1>1, <2>6, SourceWorkFlow
  <2>7. CASE \E n \in 1 .. MaxWork : SinkWork(t, n)
    BY <1>1, <2>7, SinkWorkFlow
  <2>8. CASE \E n \in 0 .. MaxMade : Make(t, n)
    BY <1>1, <2>8, MakeFlow
  <2> QED
    BY <1>3, <2>1, <2>2, <2>3, <2>4, <2>5, <2>6, <2>7, <2>8 DEF Step
<1>4. CASE UNCHANGED vars
  <2>1. UNCHANGED <<opt, todo, free, pc, evt, fg, src, snk, pipe, ended, told, buf>>
    BY <1>4 DEF vars, flowVars, hookVars
  <2>2. \A u \in Threads : Same(fg[u])
    BY <2>1 DEF Same
  <2>3. \A u \in Threads : ThreadFlow(u)'
    BY <2>1, <2>2, ThreadFlowKept DEF FlowInv
  <2>4. \A e \in Events : Written(e)'
    BY <2>1, WrittenKept DEF FlowInv
  <2> QED
    BY <1>1, <2>1, <2>3, <2>4 DEF FlowInv, FlowTypes, FreeEmpty, Untold, Pool
<1> QED
  BY <1>2, <1>3, <1>4 DEF Next

\* For any number of threads, flowgraphs and events, and however the items of a run are cut
\* into calls: an event's buffer, once written, holds what the flowgraph makes of this event,
\* whole, in order and padded, or what a flowgraph told of this event and no other made.
THEOREM AlwaysOwnResult == Spec => []OwnResult
<1>1. FlowInv => OwnResult
  BY DEF FlowInv, Written, Known, OwnResult
<1> QED
  BY <1>1, FlowInvInitially, FlowInvKept, PTL DEF Spec
=============================================================================

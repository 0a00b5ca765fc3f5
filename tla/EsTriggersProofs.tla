-------------------------- MODULE EsTriggersProofs --------------------------
(***************************************************************************)
(* Theorems about the triggers, for every input, every cutting of it into  *)
(* calls of work(), and every value of the parameters; and about what the  *)
(* acceptor makes of their messages, for every order of the steps.         *)
(***************************************************************************)
EXTENDS EsTriggers, EsQueueOpsProofs

-----------------------------------------------------------------------------
(* The edge trigger.                                                       *)

\* Where the trigger is in its input: underAt has an entry per sample done, overAt one
\* more when the sample before the next one is still to be compared.
EdgePlace ==
    /\ signal \in Seq(Int) /\ d_thresh \in Int
    /\ e_time \in Nat /\ call \in [i : Nat, n : Nat, over : BOOLEAN]
    /\ call.i <= call.n /\ (call.over => call.i < call.n)
    /\ e_time + call.n <= Len(signal)
    /\ overAt \in Seq(Int) /\ underAt \in Seq(Int)
    /\ Len(underAt) = e_time + call.i
    /\ Len(overAt) = Len(underAt) + IF call.over THEN 1 ELSE 0
    /\ call.over => overAt[Len(overAt)] < signal[Len(overAt)]

\* d_lastval is the sample before, also from one call to the next.
LastSample ==
    /\ Len(underAt) > 0 => d_lastval = signal[Len(underAt)]
    /\ Len(underAt) = 0 /\ call.i < call.n => d_lastval = signal[1]

\* d_lasttrigger is the time of the last event, 0 if there is none.
LastTrigger ==
    \/ fired = {} /\ d_lasttrigger = 0
    \/ \E f \in fired : /\ \A g \in fired : g <= f
                        /\ d_lasttrigger = EdgeTime(f)

EdgeInv == EdgePlace /\ LastSample /\ LastTrigger /\ RisesTrigger /\ TriggersApart

\* The sample before the one at n.
Prior(n) == signal[IF n = 0 THEN 1 ELSE n]

\* One more sample done adds at most its own position to the rises.
LEMMA NewRise ==
    ASSUME EdgePlace, signal' = signal, underAt' = Append(underAt, d_thresh),
           NEW n, n = Len(underAt), NEW over,
           overAt'[n + 1] = over, \A k \in 1 .. n : overAt'[k] = overAt[k]
    PROVE  Rises' = Rises \cup
               IF over < signal[n + 1] /\ Prior(n) < d_thresh THEN {n} ELSE {}
<1>1. n \in Nat /\ Len(underAt') = n + 1
  BY DEF EdgePlace
<1>2. underAt'[n + 1] = d_thresh /\ \A k \in 1 .. n : underAt'[k] = underAt[k]
  BY DEF EdgePlace
<1>3. Rises' = {m \in 0 .. n : overAt'[m + 1] < signal[m + 1] /\ Prior(m) < underAt'[m + 1]}
  BY <1>1 DEF Rises, Prior
<1>4. Rises = {m \in 0 .. (n - 1) : overAt[m + 1] < signal[m + 1] /\ Prior(m) < underAt[m + 1]}
  BY DEF Rises, Prior
<1>5. ASSUME NEW m \in 0 .. (n - 1)
      PROVE  overAt'[m + 1] = overAt[m + 1] /\ underAt'[m + 1] = underAt[m + 1]
  BY <1>1, <1>2
<1> QED
  BY <1>1, <1>2, <1>3, <1>4, <1>5

\* What is known of the events while the next sample is still to be done.
LEMMA FiredBefore ==
    ASSUME EdgeInv
    PROVE  /\ Len(underAt) \in Nat
           /\ Rises \subseteq 0 .. (Len(underAt) - 1)
           /\ fired \subseteq 0 .. (Len(underAt) - 1)
<1> QED
  BY DEF EdgeInv, EdgePlace, RisesTrigger, Rises

\* A sample that does not rise leaves the events as they are.
LEMMA NoRise ==
    ASSUME EdgeInv, Rises' = Rises, fired' = fired
    PROVE  RisesTrigger' /\ TriggersApart'
<1> QED
  BY DEF EdgeInv, RisesTrigger, TriggersApart

\* The first comparison of a sample.
LEMMA EdgeSampleKeeps ==
    ASSUME EdgeInv, EdgeSample
    PROVE  EdgeInv'
<1> DEFINE n == Len(underAt)
<1>1. /\ n \in Nat /\ n = e_time + call.i /\ n + 1 \in 1 .. Len(signal)
      /\ call.i \in Nat /\ call.n \in Nat /\ call.i < call.n /\ call.over = FALSE
      /\ Len(overAt) = n
  <2>1. /\ call.i \in Nat /\ call.n \in Nat /\ call.i < call.n
        /\ call.over \in BOOLEAN /\ ~call.over
    BY DEF EdgeSample, EdgeInv, EdgePlace
  <2>2. /\ e_time \in Nat /\ n = e_time + call.i /\ Len(overAt) = n
        /\ Len(signal) \in Nat /\ e_time + call.n <= Len(signal)
    BY <2>1 DEF EdgeInv, EdgePlace
  <2> QED
    BY <2>1, <2>2
<1>2. /\ signal' = signal /\ d_thresh' = d_thresh /\ e_time' = e_time
      /\ overAt' = Append(overAt, d_thresh)
      /\ fired' = fired /\ d_lasttrigger' = d_lasttrigger
  BY DEF EdgeSample
<1>3. /\ overAt' \in Seq(Int) /\ Len(overAt') = n + 1 /\ overAt'[n + 1] = d_thresh
      /\ \A k \in 1 .. n : overAt'[k] = overAt[k]
  BY <1>1, <1>2 DEF EdgeInv, EdgePlace
<1>4. LastTrigger'
  BY <1>2 DEF EdgeInv, LastTrigger, EdgeTime
<1>5. CASE d_thresh < signal[n + 1]
  <2>1. /\ call' = [call EXCEPT !.over = TRUE]
        /\ d_lastval' = d_lastval /\ underAt' = underAt
    <3>1. signal[n + 1] \in Int /\ d_thresh \in Int
      BY <1>1 DEF EdgeInv, EdgePlace
    <3> QED
      BY <1>1, <1>5, <3>1 DEF EdgeSample
  <2>2. /\ call' \in [i : Nat, n : Nat, over : BOOLEAN]
        /\ call'.i = call.i /\ call'.n = call.n /\ call'.over = TRUE
    BY <2>1 DEF EdgeInv, EdgePlace
  <2>3. EdgePlace'
    BY <1>1, <1>2, <1>3, <1>5, <2>1, <2>2 DEF EdgeInv, EdgePlace
  <2>4. LastSample'
    BY <1>2, <2>1, <2>2 DEF EdgeInv, LastSample
  <2>5. Rises' = Rises
    <3>1. ASSUME NEW m \in 0 .. (n - 1) PROVE overAt'[m + 1] = overAt[m + 1]
      BY <1>1, <1>3
    <3> QED
      BY <1>2, <2>1, <3>1 DEF Rises
  <2> QED
    BY <1>2, <1>4, <2>3, <2>4, <2>5, NoRise DEF EdgeInv
<1>6. CASE ~(d_thresh < signal[n + 1])
  <2>1. /\ call' = [call EXCEPT !.i = @ + 1]
        /\ d_lastval' = signal[n + 1] /\ underAt' = Append(underAt, d_thresh)
    <3>1. signal[n + 1] \in Int /\ d_thresh \in Int
      BY <1>1 DEF EdgeInv, EdgePlace
    <3> QED
      BY <1>1, <1>6, <3>1 DEF EdgeSample
  <2>2. /\ call' \in [i : Nat, n : Nat, over : BOOLEAN]
        /\ call'.i = call.i + 1 /\ call'.n = call.n /\ call'.over = FALSE
    <3>1. /\ call' = [call EXCEPT !.i = @ + 1] /\ call \in [i : Nat, n : Nat, over : BOOLEAN]
          /\ call.over = FALSE
      BY <1>1, <2>1 DEF EdgeInv, EdgePlace
    <3> QED
      BY <3>1
  <2>3. underAt' \in Seq(Int) /\ Len(underAt') = n + 1
    BY <2>1 DEF EdgeInv, EdgePlace
  <2>4. EdgePlace'
    BY <1>1, <1>2, <1>3, <2>2, <2>3 DEF EdgeInv, EdgePlace
  <2>5. LastSample'
    BY <1>1, <1>2, <2>1, <2>3 DEF LastSample
  <2>6. Rises' = Rises
    BY <1>1, <1>2, <1>3, <1>6, <2>1, NewRise DEF EdgeInv
  <2> QED
    BY <1>2, <1>4, <2>4, <2>5, <2>6, NoRise DEF EdgeInv
<1> QED
  BY <1>5, <1>6

\* The second comparison, of a sample over the threshold.
LEMMA EdgeTriggerKeeps ==
    ASSUME EdgeInv, EdgeTrigger
    PROVE  EdgeInv'
<1> DEFINE n == Len(underAt)
           over == overAt[n + 1]
           fires == d_lastval < d_thresh /\ Spaced(n)
<1>1. /\ n \in Nat /\ n = e_time + call.i /\ n + 1 \in 1 .. Len(signal)
      /\ call.i \in Nat /\ call.n \in Nat /\ call.i < call.n
      /\ Len(overAt) = n + 1 /\ over < signal[n + 1]
  <2>1. /\ call.i \in Nat /\ call.n \in Nat /\ call.i < call.n /\ call.over
    BY DEF EdgeTrigger, EdgeInv, EdgePlace
  <2>2. /\ e_time \in Nat /\ n = e_time + call.i
        /\ Len(signal) \in Nat /\ e_time + call.n <= Len(signal)
    BY DEF EdgeInv, EdgePlace
  <2>3. Len(overAt) = n + 1 /\ overAt[Len(overAt)] < signal[Len(overAt)]
    BY <2>1 DEF EdgeInv, EdgePlace
  <2> QED
    BY <2>1, <2>2, <2>3
<1>2. /\ signal' = signal /\ d_thresh' = d_thresh /\ e_time' = e_time
      /\ overAt' = overAt /\ underAt' = Append(underAt, d_thresh)
      /\ call' = Call(call.i + 1, call.n, FALSE)
      /\ d_lastval' = signal[n + 1]
      /\ fired' = IF fires THEN fired \cup {n} ELSE fired
      /\ d_lasttrigger' = IF fires THEN EdgeTime(n) ELSE d_lasttrigger
  BY <1>1 DEF EdgeTrigger
<1>3. d_lastval = Prior(n)
  BY <1>1 DEF EdgeInv, LastSample, Prior
<1>4. Rises' = Rises \cup IF d_lastval < d_thresh THEN {n} ELSE {}
  BY <1>1, <1>2, <1>3, NewRise DEF EdgeInv
<1>5. /\ fired \subseteq Nat /\ \A f \in fired : f < n
      /\ Rises \subseteq Nat /\ \A m \in Rises : m < n
  BY <1>1, FiredBefore
<1>6. Lookback \in Nat /\ Guard \in Nat
  BY EdgeAssumption
<1>7. underAt' \in Seq(Int) /\ Len(underAt') = n + 1
  BY <1>2 DEF EdgeInv, EdgePlace
<1>8. EdgePlace'
  <2>1. /\ call' \in [i : Nat, n : Nat, over : BOOLEAN]
        /\ call'.i = call.i + 1 /\ call'.n = call.n /\ call'.over = FALSE
    BY <1>1, <1>2 DEF Call
  <2> QED
    <3>1. /\ signal' \in Seq(Int) /\ d_thresh' \in Int /\ e_time' \in Nat
          /\ e_time' + call'.n <= Len(signal') /\ overAt' \in Seq(Int)
      BY <1>2, <2>1 DEF EdgeInv, EdgePlace
    <3>2. /\ call'.i <= call'.n /\ Len(underAt') = e_time' + call'.i
          /\ Len(overAt') = Len(underAt')
      <4>1. e_time' = e_time /\ overAt' = overAt /\ Len(underAt') = n + 1 /\ e_time \in Nat
        BY <1>2, <1>7 DEF EdgeInv, EdgePlace
      <4> QED
        BY <1>1, <2>1, <4>1
    <3> QED
      BY <1>7, <2>1, <3>1, <3>2 DEF EdgePlace
<1>9. LastSample'
  <2>1. signal' = signal /\ d_lastval' = signal[n + 1] /\ Len(underAt') = n + 1
    BY <1>2, <1>7
  <2> QED
    BY <1>1, <2>1 DEF LastSample
<1>10. LastTrigger'
  <2>1. CASE fires
    <3>1. n \in fired' /\ d_lasttrigger' = EdgeTime(n) /\ \A g \in fired' : g <= n
      BY <1>1, <1>2, <1>5, <2>1
    <3> QED
      BY <3>1 DEF LastTrigger, EdgeTime
  <2>2. CASE ~fires
    BY <1>2, <2>2 DEF EdgeInv, LastTrigger, EdgeTime
  <2> QED
    BY <2>1, <2>2
<1>11. RisesTrigger'
  <2>1. fired' \subseteq Rises'
    BY <1>2, <1>4 DEF EdgeInv, RisesTrigger
  <2>2. ASSUME NEW m \in Rises', \A f \in fired' : f < m => m - f >= Guard
        PROVE  m \in fired'
    <3>1. CASE m \in Rises
      BY <1>2, <2>2, <3>1 DEF EdgeInv, RisesTrigger
    <3>2. CASE d_lastval < d_thresh /\ m = n
      <4>1. \A f \in fired : n - f >= Guard
        BY <1>2, <1>5, <2>2, <3>2
      <4>2. ASSUME NEW f \in fired, d_lasttrigger = EdgeTime(f) PROVE Spaced(n)
        <5>1. f \in Nat /\ n - f >= Guard
          BY <1>5, <4>1
        <5> QED
          BY <1>1, <1>6, <4>2, <5>1 DEF Spaced, EdgeTime
      <4>3. Spaced(n)
        BY <4>2 DEF EdgeInv, LastTrigger, Spaced
      <4> QED
        BY <1>2, <3>2, <4>3
    <3> QED
      BY <1>4, <2>2, <3>1, <3>2
  <2> QED
    BY <2>1, <2>2 DEF RisesTrigger
<1>12. TriggersApart'
  <2>1. ASSUME NEW f \in fired, f > Lookback, fires PROVE n - f >= Guard - Lookback
    <3>1. PICK g \in fired : f <= g /\ d_lasttrigger = EdgeTime(g)
      BY <2>1 DEF EdgeInv, LastTrigger
    <3>2. f \in Nat /\ g \in Nat
      BY <1>5
    <3>3. d_lasttrigger = g - Lookback /\ d_lasttrigger # 0
      BY <1>6, <2>1, <3>1, <3>2 DEF EdgeTime
    <3>4. g - Lookback + Guard <= n
      BY <2>1, <3>3 DEF Spaced
    <3> QED
      BY <1>1, <1>6, <3>1, <3>2, <3>4
  <2>2. ASSUME NEW f \in fired', NEW g \in fired', f < g, f > Lookback
        PROVE  g - f >= Guard - Lookback
    <3>1. CASE g \in fired
      <4>1. f \in fired
        BY <1>1, <1>2, <1>5, <2>2, <3>1
      <4> QED
        BY <2>2, <3>1, <4>1 DEF EdgeInv, TriggersApart
    <3>2. CASE g \notin fired
      <4>1. fires /\ g = n
        BY <1>2, <2>2, <3>2
      <4>2. f \in fired
        BY <1>1, <1>2, <2>2, <4>1
      <4> QED
        BY <2>1, <2>2, <4>1, <4>2
    <3> QED
      BY <3>1, <3>2
  <2> QED
    BY <2>2 DEF TriggersApart
<1> QED
  BY <1>8, <1>9, <1>10, <1>11, <1>12 DEF EdgeInv

\* The other steps of the trigger begin or end a call, or change the threshold.
LEMMA EdgeOthersKeep ==
    ASSUME EdgeInv,
           \/ EdgeStart \/ EdgeReturn
           \/ \E t \in Thresholds : SetThresh(t)
           \/ \E k \in 1 .. Len(signal) : EdgeWork(k)
    PROVE  EdgeInv'
<1>1. /\ signal' = signal /\ overAt' = overAt /\ underAt' = underAt /\ fired' = fired
      /\ d_lasttrigger' = d_lasttrigger
  BY DEF EdgeStart, EdgeReturn, SetThresh, EdgeWork, edgeHistory
<1>2. LastTrigger' /\ RisesTrigger' /\ TriggersApart'
  <2>1. Rises' = Rises
    BY <1>1 DEF Rises
  <2>2. LastTrigger'
    BY <1>1 DEF EdgeInv, LastTrigger, EdgeTime
  <2> QED
    BY <1>1, <2>1, <2>2, NoRise
<1>3. EdgePlace' /\ LastSample'
  <2>1. CASE EdgeStart
    BY <1>1, <2>1 DEF EdgeStart, EdgeInv, EdgePlace, LastSample
  <2>2. CASE EdgeReturn
    <3>1. /\ e_time' = e_time + call.n /\ call.i = call.n /\ call.over = FALSE
          /\ call' = NoCall /\ d_lastval' = d_lastval /\ d_thresh' = d_thresh
      BY <2>2 DEF EdgeReturn, EdgeInv, EdgePlace
    <3>2. /\ call'.i = 0 /\ call'.n = 0 /\ call'.over = FALSE
          /\ call' \in [i : Nat, n : Nat, over : BOOLEAN]
      BY <3>1 DEF NoCall, Call
    <3> QED
      BY <1>1, <3>1, <3>2 DEF EdgeInv, EdgePlace, LastSample
  <2>3. ASSUME NEW t \in Thresholds, SetThresh(t) PROVE EdgePlace' /\ LastSample'
    BY <1>1, <2>3, EdgeAssumption DEF SetThresh, EdgeInv, EdgePlace, LastSample
  <2>4. ASSUME NEW k \in 1 .. Len(signal), EdgeWork(k) PROVE EdgePlace' /\ LastSample'
    <3>1. /\ call = NoCall /\ call' = Call(0, k, FALSE)
          /\ e_time + k <= Len(signal)
          /\ d_lastval' = IF e_time = 0 THEN signal[1] ELSE d_lastval
          /\ e_time' = e_time /\ d_thresh' = d_thresh
      BY <2>4 DEF EdgeWork
    <3>2. /\ e_time \in Nat /\ Len(underAt) = e_time
          /\ call'.i = 0 /\ call'.n = k /\ call'.over = FALSE
          /\ call' \in [i : Nat, n : Nat, over : BOOLEAN]
      BY <3>1 DEF EdgeInv, EdgePlace, NoCall, Call
    <3>3. call.over = FALSE
      BY <3>1 DEF NoCall, Call
    <3>4. EdgePlace'
      <4>1. /\ signal' \in Seq(Int) /\ d_thresh' \in Int /\ e_time' \in Nat
            /\ overAt' \in Seq(Int) /\ underAt' \in Seq(Int)
        BY <1>1, <3>1 DEF EdgeInv, EdgePlace
      <4>2. /\ call'.i <= call'.n /\ e_time' + call'.n <= Len(signal')
            /\ Len(underAt') = e_time' + call'.i
        <5>1. Len(signal) \in Nat /\ k \in Nat
          BY DEF EdgeInv, EdgePlace
        <5>2. e_time' = e_time /\ signal' = signal /\ underAt' = underAt /\ e_time + k <= Len(signal)
          BY <1>1, <3>1
        <5> QED
          BY <3>2, <5>1, <5>2
      <4>3. Len(overAt') = Len(underAt') + IF call'.over THEN 1 ELSE 0
        <5>1. Len(overAt) = Len(underAt) /\ Len(underAt) \in Nat
          BY <3>2, <3>3 DEF EdgeInv, EdgePlace
        <5>2. Len(overAt') = Len(underAt') /\ Len(underAt') \in Nat
          BY <1>1, <5>1
        <5> QED
          BY <3>2, <5>2
      <4>4. /\ call'.over => call'.i < call'.n
            /\ call'.over => overAt'[Len(overAt')] < signal'[Len(overAt')]
        BY <3>2
      <4> QED
        BY <3>2, <4>1, <4>2, <4>3, <4>4 DEF EdgePlace
    <3>5. LastSample'
      <4>1. CASE e_time = 0
        BY <1>1, <3>1, <3>2, <4>1 DEF LastSample
      <4>2. CASE e_time # 0
        BY <1>1, <3>1, <3>2, <4>2 DEF EdgeInv, LastSample
      <4> QED
        BY <4>1, <4>2
    <3> QED
      BY <3>4, <3>5
  <2> QED
    BY <2>1, <2>2, <2>3, <2>4
<1> QED
  BY <1>2, <1>3 DEF EdgeInv

\* Before the first sample.
LEMMA EdgeInvInitially == Init => EdgeInv
<1> SUFFICES ASSUME Init PROVE EdgeInv
  OBVIOUS
<1>1. /\ signal \in Seq(Int) /\ d_thresh \in Int /\ e_time = 0 /\ call = NoCall
      /\ overAt = <<>> /\ underAt = <<>> /\ fired = {} /\ d_lasttrigger = 0
  BY EdgeAssumption DEF Init, EdgeInit
<1>2. /\ Len(overAt) = 0 /\ Len(underAt) = 0 /\ Len(signal) \in Nat
      /\ overAt \in Seq(Int) /\ underAt \in Seq(Int)
  BY <1>1
<1>3. Rises = {}
  BY <1>2 DEF Rises
<1>4. EdgePlace /\ LastSample
  BY <1>1, <1>2 DEF EdgePlace, LastSample, NoCall, Call
<1> QED
  BY <1>1, <1>3, <1>4 DEF EdgeInv, LastTrigger, RisesTrigger, TriggersApart

\* Every step keeps what is known of the edge trigger.
LEMMA EdgeInvKept == EdgeInv /\ [Next]_vars => EdgeInv'
<1> SUFFICES ASSUME EdgeInv, [Next]_vars PROVE EdgeInv'
  OBVIOUS
<1>1. CASE EdgeStep
  BY <1>1, EdgeSampleKeeps, EdgeTriggerKeeps, EdgeOthersKeep DEF EdgeStep
<1>2. CASE UNCHANGED edgeVars
  <2>1. EdgePlace' /\ LastSample' /\ LastTrigger'
    BY <1>2 DEF EdgeInv, EdgePlace, LastSample, LastTrigger, EdgeTime, edgeVars, edgeHistory
  <2>2. Rises' = Rises /\ fired' = fired
    BY <1>2 DEF Rises, edgeVars, edgeHistory
  <2> QED
    BY <2>1, <2>2, NoRise DEF EdgeInv
<1> QED
  BY <1>1, <1>2 DEF Next, vars

\* For every input, lookback and guard, every cutting into calls of work(), and
\* whenever set_thresh() comes, also between the two reads of the threshold: only
\* rises trigger, and a rise Guard samples after every trigger before it does.
THEOREM AlwaysRisesTrigger == Spec => []RisesTrigger
<1>1. EdgeInv => RisesTrigger
  BY DEF EdgeInv
<1> QED
  BY <1>1, EdgeInvInitially, EdgeInvKept, PTL DEF Spec

\* And for any number of events: no trigger comes less than Guard samples after the
\* beginning of an event before it that is not cut off at the stream's beginning.
THEOREM AlwaysTriggersApart == Spec => []TriggersApart
<1>1. EdgeInv => TriggersApart
  BY DEF EdgeInv
<1> QED
  BY <1>1, EdgeInvInitially, EdgeInvKept, PTL DEF Spec

-----------------------------------------------------------------------------
(* The sample timer.                                                       *)

\* d_evt_time is the time of the last event, which was published while the one
\* before lay before the horizon.
SampleInv ==
    /\ s_time \in Nat /\ s_n \in Nat
    /\ ticks \in Seq(Nat)
    /\ d_evt_time = Shift + Len(ticks) * Period
    /\ \A k \in 1 .. Len(ticks) : ticks[k] = Shift + k * Period
    /\ Len(ticks) > 0 => Shift + (Len(ticks) - 1) * Period < Horizon
    /\ s_n = 0 /\ s_time > 0 => d_evt_time >= s_time + SchedDist

\* One more event of the sample timer is one period later.
LEMMA TickKeeps ==
    ASSUME SampleInv, Tick
    PROVE  SampleInv'
<1> DEFINE L == Len(ticks)
<1>1. /\ L \in Nat /\ Period \in Nat /\ Shift \in Nat /\ SchedDist \in Nat
      /\ ticks \in Seq(Nat)
  BY TimersAssumption DEF SampleInv
<1>2. /\ d_evt_time < Horizon /\ s_n > 0
      /\ d_evt_time' = d_evt_time + Period
      /\ ticks' = Append(ticks, d_evt_time')
      /\ s_time' = s_time /\ s_n' = s_n
  BY DEF Tick
<1>3. L * Period \in Nat /\ (L + 1) * Period = L * Period + Period
  BY <1>1
<1>4. d_evt_time' = Shift + (L + 1) * Period /\ d_evt_time' \in Nat
  BY <1>1, <1>2, <1>3 DEF SampleInv
<1>5. /\ ticks' \in Seq(Nat) /\ Len(ticks') = L + 1
      /\ ticks'[L + 1] = d_evt_time' /\ \A k \in 1 .. L : ticks'[k] = ticks[k]
  BY <1>1, <1>2, <1>4
<1>6. \A k \in 1 .. Len(ticks') : ticks'[k] = Shift + k * Period
  <2>1. \A k \in 1 .. L : ticks'[k] = Shift + k * Period
    BY <1>5 DEF SampleInv
  <2>2. ticks'[L + 1] = Shift + (L + 1) * Period
    BY <1>4, <1>5
  <2>3. 1 .. Len(ticks') = (1 .. L) \cup {L + 1}
    BY <1>1, <1>5
  <2> QED
    BY <2>1, <2>2, <2>3
<1>7. Shift + (Len(ticks') - 1) * Period < Horizon'
  <2>1. Len(ticks') - 1 = L /\ Horizon' = Horizon
    BY <1>1, <1>2, <1>5 DEF Horizon
  <2> QED
    BY <1>2, <2>1 DEF SampleInv
<1>8. s_time' \in Nat /\ s_n' \in Nat /\ s_n' # 0
  BY <1>2 DEF SampleInv
<1> QED
  BY <1>4, <1>5, <1>6, <1>7, <1>8 DEF SampleInv

\* Before the first call of work().
LEMMA SampleInvInitially == Init => SampleInv
<1> SUFFICES ASSUME Init PROVE SampleInv
  OBVIOUS
<1>1. s_time = 0 /\ s_n = 0 /\ ticks = <<>> /\ d_evt_time = Shift
  BY DEF Init, TimersInit
<1>2. Len(ticks) = 0 /\ ticks \in Seq(Nat) /\ 0 * Period = 0 /\ Shift \in Nat
  BY <1>1, TimersAssumption
<1> QED
  BY <1>1, <1>2 DEF SampleInv

\* Every step keeps what is known of the sample timer.
LEMMA SampleInvKept == SampleInv /\ [Next]_vars => SampleInv'
<1> SUFFICES ASSUME SampleInv, [Next]_vars PROVE SampleInv'
  OBVIOUS
<1>1. /\ s_time \in Nat /\ s_n \in Nat /\ SchedDist \in Nat /\ Period \in Nat
      /\ Shift \in Nat /\ Len(ticks) \in Nat
  BY TimersAssumption DEF SampleInv
<1> DEFINE last == Shift + (Len(ticks) - 1) * Period
<1>2. last \in Int
  <2>1. (Len(ticks) - 1) * Period \in Int
    BY <1>1
  <2> QED
    BY <1>1, <2>1
<1>3. ASSUME NEW n \in 1 .. MaxSamples, SampleTimerWork(n) PROVE SampleInv'
  <2>1. /\ s_n = 0 /\ s_n' = n /\ s_time' = s_time /\ ticks' = ticks
        /\ d_evt_time' = d_evt_time
    BY <1>3 DEF SampleTimerWork
  <2>2. n \in Nat /\ n > 0
    BY TimersAssumption
  <2>3. Horizon < Horizon' /\ Horizon \in Nat /\ Horizon' \in Nat
    BY <1>1, <2>1, <2>2 DEF Horizon
  <2>4. Len(ticks) > 0 => last < Horizon'
    BY <1>2, <2>3 DEF SampleInv
  <2> QED
    BY <1>1, <2>1, <2>2, <2>4 DEF SampleInv
<1>4. CASE SampleTimerReturn
  <2>1. /\ s_n > 0 /\ s_n' = 0 /\ s_time' = s_time + s_n /\ ticks' = ticks
        /\ d_evt_time' = d_evt_time /\ d_evt_time >= Horizon
    BY <1>4 DEF SampleTimerReturn
  <2>2. Horizon' = Horizon /\ Horizon = s_time' + SchedDist /\ s_time' \in Nat
    BY <1>1, <2>1 DEF Horizon
  <2> QED
    BY <1>1, <2>1, <2>2 DEF SampleInv
<1>5. CASE Tick
  BY <1>5, TickKeeps
<1>6. CASE UNCHANGED <<s_time, d_evt_time, s_n, ticks>>
  BY <1>6 DEF SampleInv, Horizon
<1> QED
  BY <1>3, <1>4, <1>5, <1>6 DEF Next, SampleTimerStep, SampleTimerStart, vars, sampleVars

\* For every period, shift and distance, and every cutting into calls of work(): the
\* sample timer publishes one event per period, in time and not earlier than needed.
THEOREM SampleTimerAlwaysExact == Spec => []SampleTimerExact
<1>1. SampleInv => SampleTimerExact
  <2> SUFFICES ASSUME SampleInv PROVE SampleTimerExact
    OBVIOUS
  <2>1. Len(ticks) \in Nat /\ (ticks # <<>> => Len(ticks) > 0)
    BY DEF SampleInv
  <2>2. s_n = 0 => Horizon = s_time + SchedDist
    BY TimersAssumption DEF Horizon, SampleInv
  <2> QED
    BY <2>1, <2>2 DEF SampleInv, SampleTimerExact
<1> QED
  BY <1>1, SampleInvInitially, SampleInvKept, PTL DEF Spec

-----------------------------------------------------------------------------
(* The Python timer.                                                       *)

\* As long as nobody stops the timer, what is published and what is left to publish
\* make up the initial count, with one in between from the publication to the
\* decrement; a count of -1 stays.
TimerInv ==
    /\ count_init \in Nat \cup {-1} /\ count \in Int /\ t_read \in Int
    /\ published \in Nat
    /\ t_main = "new" => t_thread = "none" /\ published = 0
    /\ t_main \in {"register", "started"} =>
         \/ count_init = -1 /\ count = -1 /\ t_thread \in {"test", "publish", "check", "failed"}
         \/ /\ count_init >= 0
            /\ \/ /\ t_thread = "test"
                  /\ published + count = count_init /\ count >= 0
               \/ /\ t_thread = "publish"
                  /\ published + count = count_init /\ count > 0
               \/ /\ t_thread \in {"check", "read"}
                  /\ published + count = count_init + 1 /\ count > 0
               \/ /\ t_thread = "write" /\ t_read = count
                  /\ published + count = count_init + 1 /\ count > 0
               \/ t_thread = "exited" /\ published = count_init
               \/ /\ t_thread = "failed"
                  /\ published + count = count_init /\ count > 0

\* Every step keeps the count of the Python timer.
LEMMA TimerInvKept == TimerInv /\ [Next]_vars => TimerInv'
<1> SUFFICES ASSUME TimerInv, [Next]_vars PROVE TimerInv'
  OBVIOUS
<1> USE DEF TimerInv
<1>1. CASE TimerStart
  BY <1>1 DEF TimerStart
<1>2. CASE TimerRegister
  BY <1>2 DEF TimerRegister
<1>3. CASE TimerStop
  BY <1>3 DEF TimerStop
<1>4. CASE TimerJoined
  BY <1>4 DEF TimerJoined
<1>5. CASE TimerTest
  BY <1>5 DEF TimerTest, ThreadGoes
<1>6. CASE TimerPublish
  BY <1>6 DEF TimerPublish, ThreadGoes
<1>7. CASE TimerCheck
  BY <1>7 DEF TimerCheck, ThreadGoes
<1>8. CASE TimerRead
  BY <1>8 DEF TimerRead, ThreadGoes
<1>9. CASE TimerWrite
  BY <1>9 DEF TimerWrite, ThreadGoes
<1>10. CASE TimerPublishFails
  BY <1>10 DEF TimerPublishFails, ThreadGoes
<1>11. CASE UNCHANGED timerVars
  BY <1>11 DEF timerVars
<1> HIDE DEF TimerInv
<1> QED
  BY <1>1, <1>2, <1>3, <1>4, <1>5, <1>6, <1>7, <1>8, <1>9, <1>10, <1>11
     DEF Next, TimerStep, vars

\* For every initial count, and wherever a publication raises: a timer that ends
\* without being stopped has published exactly that many events, or keeps in count
\* how many it did not publish.
THEOREM AlwaysRunsItsCount == Spec => []RunsItsCount
<1>1. Init => TimerInv
  BY TimersAssumption DEF Init, TimersInit, TimerInv
<1>2. TimerInv => RunsItsCount
  BY DEF TimerInv, RunsItsCount
<1> QED
  BY <1>1, <1>2, TimerInvKept, PTL DEF Spec

-----------------------------------------------------------------------------
(* What the acceptor makes of the triggers' messages.                      *)

\* A sequence of whatever its elements are: a message may be of any kind.
IsSeq(q) == q \in Seq(Range(q))

\* The types of the triggers' events; a PDU may be of any type, also one of these.
Types == {"edge_event", "sample_timer_event", "timer_event"}

Targets(type) == IF type = "edge_event" THEN EdgeTargets
                 ELSE IF type = "sample_timer_event" THEN SampleTargets ELSE TimerTargets

Reg(type) == Registration(type, Targets(type))

\* How often a trigger has published its registration.
Starts(type) == IF type = "edge_event" THEN e_starts
                ELSE IF type = "sample_timer_event" THEN One(s_started)
                ELSE One(t_main \notin {"new", "register"})

\* How many of them are among the first k messages, and how many have been handled.
Queued(type, k) == Cardinality({j \in 1 .. k : inbox[j] = Reg(type)})
HandledRegs(type) == Starts(type) - Queued(type, Len(inbox))

\* The events published so far, their types, and the starts before each of them.
Known ==
    {<<"edge", n, s>> : n \in fired, s \in 1 .. e_starts}
    \cup {<<"sample", ticks[k], 1>> : k \in 1 .. Len(ticks)}
    \cup {<<"timer", n, 1>> : n \in 1 .. published}

TypeOf(id) == IF id[1] = "edge" THEN "edge_event"
              ELSE IF id[1] = "sample" THEN "sample_timer_event" ELSE "timer_event"

\* The events that the Python timer publishes before it registers.
Early == {<<"timer", n, 1>> : n \in 1 .. unannounced}

\* How many registrations of its type are published before an event.
Before(id) == IF id \in Early THEN 0 ELSE id[3]

\* Nothing is published before the start() that registers, but by the Python timer.
Starting ==
    /\ e_starts \in Nat /\ (call # NoCall => e_starts > 0)
    /\ s_started \in BOOLEAN /\ (s_n # 0 => s_started)
    /\ unannounced \in 0 .. published
    /\ (t_main = "register" => unannounced = published)

\* What is in the inbox: registrations, events that were published, PDUs.
Messages ==
    /\ IsSeq(inbox)
    /\ \A k \in 1 .. Len(inbox) :
          \/ \E type \in Types : inbox[k] = Reg(type)
          \/ /\ inbox[k].kind = "event" /\ inbox[k].id \in Known
             /\ inbox[k].type = TypeOf(inbox[k].id)
          \/ inbox[k] \in Pdus

\* The pairs queued are of events that were published or of PDUs.
Pairs ==
    /\ IsSeq(queue)
    /\ \A i \in 1 .. Len(queue) : queue[i].id \in Known \/ \E m \in Pdus : queue[i].id = m.id

\* An event is in the inbox once, and not in the queue as well.
OnlyOnce ==
    \A k \in 1 .. Len(inbox) : inbox[k].kind = "event" =>
        /\ \A j \in 1 .. Len(inbox) :
              inbox[j].kind = "event" /\ inbox[j].id = inbox[k].id => j = k
        /\ \A i \in 1 .. Len(queue) : queue[i].id # inbox[k].id

\* A type has each of its subscribers once for every registration handled.
Bound ==
    /\ Registered \subseteq Types
    /\ \A type \in Types :
          /\ HandledRegs(type) \in Nat
          /\ (type \in Registered <=> HandledRegs(type) > 0)
          /\ IsSeq(HandlersBefore(type))
          /\ \A t \in Range(Targets(type)) :
                Cardinality(PositionsOf(HandlersBefore(type), {t})) = HandledRegs(type)

\* The registrations published before an event are handled before it, no others.
InOrder ==
    \A k \in 1 .. Len(inbox), type \in Types :
        inbox[k].kind = "event" /\ inbox[k].type = type =>
            HandledRegs(type) + Queued(type, k) = Before(inbox[k].id)

\* An event is waiting, or its handlers have it, or it is refused if it came first.
Dealt(id) ==
    \/ InInbox(id)
    \/ IF Before(id) > 0 THEN Served(id, Targets(TypeOf(id))) ELSE id \in refused

AllDealt ==
    /\ \A n \in fired : \E s \in 1 .. e_starts : Dealt(<<"edge", n, s>>)
    /\ \A k \in 1 .. Len(ticks) : Dealt(<<"sample", ticks[k], 1>>)
    /\ \A n \in 1 .. published : Dealt(<<"timer", n, 1>>)

\* The inductive invariant.
ServedInv == /\ Starting /\ Messages /\ Pairs /\ OnlyOnce /\ Bound /\ InOrder /\ AllDealt

\* A sequence of anything is a sequence of its elements.
LEMMA SeqIsSeq ==
    ASSUME NEW S, NEW q \in Seq(S)
    PROVE  /\ IsSeq(q) /\ Len(q) \in Nat /\ DOMAIN q = 1 .. Len(q)
           /\ \A k \in 1 .. Len(q) : q[k] \in Range(q)
<1>1. Len(q) \in Nat /\ DOMAIN q = 1 .. Len(q) /\ q = [k \in 1 .. Len(q) |-> q[k]]
  BY LenProperties
<1>2. \A k \in 1 .. Len(q) : q[k] \in Range(q)
  BY <1>1 DEF Range
<1>3. q \in [1 .. Len(q) -> Range(q)]
  BY <1>1, <1>2
<1>4. q \in Seq(Range(q))
  BY <1>1, <1>3
<1> QED
  BY <1>1, <1>2, <1>4 DEF IsSeq

\* A function on the numbers up to n is a sequence.
LEMMA FunctionIsSeq ==
    ASSUME NEW n \in Nat, NEW q, q = [k \in 1 .. n |-> q[k]]
    PROVE  IsSeq(q) /\ Len(q) = n
<1> DEFINE S == {q[k] : k \in 1 .. n}
<1>1. q \in [1 .. n -> S]
  OBVIOUS
<1>2. q \in Seq(S) /\ Len(q) = n
  BY <1>1
<1> QED
  BY <1>2, SeqIsSeq

\* Each subscriber is among the targets once.
LEMMA TargetsOnce ==
    ASSUME NEW type \in Types, NEW t \in Range(Targets(type))
    PROVE  /\ IsSeq(Targets(type)) /\ Len(Targets(type)) \in Nat
           /\ Cardinality(PositionsOf(Targets(type), {t})) = 1
<1> DEFINE q == Targets(type)
<1>1. q \in Seq(Range(q)) /\ IsInjective(q)
  BY TriggersAssumption DEF Types, Targets
<1> HIDE DEF q
<1>2. IsSeq(q) /\ Len(q) \in Nat /\ DOMAIN q = 1 .. Len(q)
  BY <1>1, SeqIsSeq
<1>3. PICK k \in 1 .. Len(q) : q[k] = t
  BY <1>2 DEF Range, q
<1>4. PositionsOf(q, {t}) = {k}
  BY <1>1, <1>2, <1>3 DEF PositionsOf, IsInjective
<1>5. Cardinality(PositionsOf(q, {t})) = 1
  BY <1>4, FS_Singleton
<1> QED
  BY <1>2, <1>5 DEF q

\* The subscribers of a port are a sequence.
LEMMA TargetsAre ==
    ASSUME NEW type \in Types
    PROVE  IsSeq(Targets(type)) /\ Len(Targets(type)) \in Nat
<1>1. Targets(type) \in Seq(Range(Targets(type)))
  BY TriggersAssumption DEF Types, Targets
<1> QED
  BY <1>1, SeqIsSeq

\* Concatenation adds up what is in both.
LEMMA CountConcat ==
    ASSUME NEW r, NEW s, IsSeq(r), IsSeq(s), NEW X
    PROVE  /\ IsSeq(r \o s)
           /\ Cardinality(PositionsOf(r \o s, X))
                = Cardinality(PositionsOf(r, X)) + Cardinality(PositionsOf(s, X))
<1> DEFINE S == Range(r) \cup Range(s)
           m == Len(r)
           n == Len(s)
           u == r \o s
           A == PositionsOf(r, X)
           C == PositionsOf(s, X)
<1>1. r \in Seq(S) /\ s \in Seq(S)
  BY SeqMonotonic DEF IsSeq
<1>2. /\ m \in Nat /\ n \in Nat /\ u \in Seq(S) /\ Len(u) = m + n
      /\ \A j \in 1 .. m + n : u[j] = IF j <= m THEN r[j] ELSE s[j - m]
  BY <1>1, ConcatProperties, LenProperties
<1>3. A \in SUBSET (1 .. m) /\ C \in SUBSET (1 .. n)
      /\ (\A j \in 1 .. m : j \in A <=> r[j] \in X) /\ (\A j \in 1 .. n : j \in C <=> s[j] \in X)
  BY DEF PositionsOf
<1> HIDE DEF S, m, n, u, A, C
<1>4. PositionsOf(u, X) = {j \in 1 .. m + n : u[j] \in X}
  BY <1>2 DEF PositionsOf
<1>5. ASSUME NEW j \in 1 .. m + n
      PROVE  u[j] \in X <=> IF j <= m THEN j \in A
                            ELSE IF j <= m + n THEN j - m \in C ELSE j - n \in A
  <2>1. CASE j <= m
    BY <1>2, <1>3, <2>1
  <2>2. CASE j > m
    <3>1. j - m \in 1 .. n /\ ~(j <= m) /\ j <= m + n
      BY <1>2, <2>2
    <3>2. u[j] = s[j - m]
      BY <1>2, <3>1
    <3> QED
      BY <1>3, <3>1, <3>2
  <2> QED
    BY <1>2, <2>1, <2>2
<1>6. PositionsOf(u, X) = Inserted(m, n, m, A, C)
  BY <1>4, <1>5 DEF Inserted
<1>7. Cardinality(Inserted(m, n, m, A, C)) = Cardinality(A) + Cardinality(C)
  <2>1. m \in 0 .. m
    BY <1>2
  <2> QED
    BY <1>2, <1>3, <2>1, InsertedPositions
<1> QED
  BY <1>2, <1>6, <1>7, SeqIsSeq DEF u, A, C

-----------------------------------------------------------------------------
(* What is known of the messages.                                          *)

\* A registration tells its type and its targets.
LEMMA RegsDiffer ==
    ASSUME NEW T \in Types, NEW U \in Types
    PROVE  Reg(T).kind = "register" /\ Reg(T).type = T /\ Reg(T).targets = Targets(T)
           /\ (Reg(T) = Reg(U) <=> T = U)
  BY DEF Reg, Registration

\* An event has its trigger's type, and no PDU has its identity.
LEMMA KnownIs ==
    ASSUME NEW id, id \in Known
    PROVE  id[1] \in {"edge", "sample", "timer"} /\ TypeOf(id) \in Types
           /\ \A m \in Pdus : m.id # id
  BY TriggersAssumption DEF Known, TypeOf, Types

\* A message is of one of three kinds.
LEMMA MessageIs ==
    ASSUME Messages, NEW k \in 1 .. Len(inbox)
    PROVE  /\ inbox[k].kind = "register" =>
                 inbox[k].type \in Types /\ inbox[k] = Reg(inbox[k].type)
           /\ inbox[k].kind = "event" => inbox[k].id \in Known
                 /\ inbox[k].type = TypeOf(inbox[k].id) /\ inbox[k].type \in Types
           /\ inbox[k].kind = "pdu" => inbox[k] \in Pdus /\ inbox[k].id \notin Known
           /\ inbox[k].kind \in {"register", "event", "pdu"}
<1>1. CASE \E type \in Types : inbox[k] = Reg(type)
  <2>1. PICK type \in Types : inbox[k] = Reg(type)
    BY <1>1
  <2> QED
    BY <2>1, RegsDiffer
<1>2. CASE inbox[k].kind = "event" /\ inbox[k].id \in Known /\ inbox[k].type = TypeOf(inbox[k].id)
  BY <1>2, KnownIs
<1>3. CASE inbox[k] \in Pdus
  <2>1. inbox[k].kind = "pdu"
    BY <1>3, TriggersAssumption
  <2> QED
    BY <1>3, <2>1, KnownIs
<1> QED
  BY <1>1, <1>2, <1>3 DEF Messages

\* The number of registrations waiting is a number.
LEMMA QueuedIs ==
    ASSUME IsSeq(inbox), NEW type \in Types, NEW k \in 0 .. Len(inbox)
    PROVE  Queued(type, k) \in Nat /\ Len(inbox) \in Nat
<1>1. Len(inbox) \in Nat
  BY LenProperties DEF IsSeq
<1>2. k \in Nat /\ {j \in 1 .. k : inbox[j] = Reg(type)} \in SUBSET (1 .. k)
  BY <1>1
<1> QED
  BY <1>1, <1>2, PositionsFinite DEF Queued

-----------------------------------------------------------------------------
(* A message is published.                                                 *)

Publishes(m) == Publish(m) /\ UNCHANGED acceptorVars

\* The events of the triggers stay what they are.
Stays ==
    /\ Starting'
    /\ Known \subseteq Known' /\ Known \cap Early' = Known \cap Early

StartsSame == \A type \in Types : Starts(type)' = Starts(type)

\* A registration counts as a start; an event is new, and its starts are those so far.
Announces(m) ==
    \/ \E type \in Types : /\ m = Reg(type)
                           /\ \A T \in Types : Starts(T)' = Starts(T) + One(T = type)
    \/ /\ m.kind = "event" /\ StartsSame
       /\ m.id \in Known' /\ m.id \notin Known /\ m.type = TypeOf(m.id)
       /\ m.id[1] \in {"edge", "sample", "timer"}
       /\ Before(m.id)' = Starts(m.type)
    \/ m \in Pdus /\ StartsSame

\* Behind the messages there are, and after the registrations of its type.
LEMMA PublishedQueued ==
    ASSUME Messages, NEW m, Publish(m), NEW type \in Types, NEW n, n = Len(inbox)
    PROVE  /\ n \in Nat /\ Len(inbox') = n + 1 /\ inbox'[n + 1] = m
           /\ IsSeq(inbox') /\ \A k \in 1 .. n : inbox'[k] = inbox[k]
           /\ \A k \in 0 .. n : Queued(type, k)' = Queued(type, k)
           /\ Queued(type, n + 1)' = Queued(type, n) + One(m = Reg(type))
<1> DEFINE S == Range(inbox) \cup {m}
<1>1. inbox \in Seq(S) /\ m \in S /\ inbox' = Append(inbox, m)
  BY SeqMonotonic DEF Messages, IsSeq, Publish
<1>2. /\ n \in Nat /\ inbox' \in Seq(S) /\ Len(inbox') = n + 1 /\ inbox'[n + 1] = m
      /\ \A k \in 1 .. n : inbox'[k] = inbox[k]
  BY <1>1, AppendProperties, LenProperties
<1>3. IsSeq(inbox')
  BY <1>2, SeqIsSeq
<1> HIDE DEF S
<1>4. ASSUME NEW k \in 0 .. n PROVE Queued(type, k)' = Queued(type, k)
  <2>1. {j \in 1 .. k : inbox'[j] = Reg(type)} = {j \in 1 .. k : inbox[j] = Reg(type)}
    BY <1>2
  <2> QED
    BY <2>1 DEF Queued, Reg, Targets, Registration
<1>5. Queued(type, n + 1)' = Queued(type, n) + One(m = Reg(type))
  <2>1. PICK A \in SUBSET (1 .. n), B \in SUBSET (1 .. n + 1) :
           /\ A = {j \in 1 .. n : inbox[j] = Reg(type)}
           /\ B = {j \in 1 .. n + 1 : inbox'[j] = Reg(type)}
    BY <1>2
  <2>2. (\A j \in 1 .. n : j \in B <=> j \in A) /\ (n + 1 \in B <=> m = Reg(type))
    BY <1>2, <2>1
  <2>3. Cardinality(B) = Cardinality(A) + One(n + 1 \in B)
    BY <1>2, <2>2, AppendedPosition
  <2>4. Queued(type, n) = Cardinality(A) /\ Queued(type, n + 1)' = Cardinality(B)
    BY <2>1 DEF Queued, Reg, Targets, Registration
  <2> QED
    BY <2>2, <2>3, <2>4 DEF One
<1> QED
  BY <1>2, <1>3, <1>4, <1>5

\* What is known of the messages and the pairs stays true when one more is published.
LEMMA PublishingKeeps ==
    ASSUME ServedInv, NEW m, Publishes(m), Stays, Announces(m)
    PROVE  /\ Messages' /\ Pairs' /\ OnlyOnce' /\ Bound' /\ InOrder'
           /\ \A id : id \in Known /\ Dealt(id) => Dealt(id)'
           /\ m.kind = "event" => Dealt(m.id)'
<1>0. PICK n : n = Len(inbox)
  OBVIOUS
<1>1. /\ Starting /\ Messages /\ Pairs /\ OnlyOnce /\ Bound /\ InOrder
      /\ Publish(m) /\ bindings' = bindings /\ queue' = queue /\ refused' = refused
  BY DEF ServedInv, Publishes, acceptorVars
<1>2. /\ n \in Nat /\ Len(inbox') = n + 1 /\ inbox'[n + 1] = m /\ IsSeq(inbox')
      /\ \A k \in 1 .. n : inbox'[k] = inbox[k]
  BY <1>0, <1>1, PublishedQueued DEF Types
<1>3. ASSUME NEW type \in Types
      PROVE  /\ \A k \in 0 .. n : Queued(type, k)' = Queued(type, k) /\ Queued(type, k) \in Nat
             /\ Queued(type, n + 1)' = Queued(type, n) + One(m = Reg(type))
  BY <1>0, <1>1, PublishedQueued, QueuedIs DEF Messages
<1>4. 1 .. n + 1 = (1 .. n) \cup {n + 1}
  BY <1>2
<1>5. \/ \E type \in Types : m = Reg(type)
      \/ m.kind = "event" /\ m.id \in Known' /\ m.id \notin Known /\ m.type = TypeOf(m.id)
      \/ m \in Pdus
  BY DEF Announces
<1>6. Messages'
  <2>1. ASSUME NEW k \in 1 .. n + 1
        PROVE  \/ \E type \in Types : inbox'[k] = Reg(type)
               \/ /\ inbox'[k].kind = "event" /\ inbox'[k].id \in Known'
                  /\ inbox'[k].type = TypeOf(inbox'[k].id)
               \/ inbox'[k] \in Pdus
    <3>1. CASE k = n + 1
      BY <1>2, <1>5, <3>1
    <3>2. CASE k \in 1 .. n
      <4>1. inbox'[k] = inbox[k]
        BY <1>2, <3>2
      <4>2. \/ \E type \in Types : inbox[k] = Reg(type)
            \/ /\ inbox[k].kind = "event" /\ inbox[k].id \in Known
               /\ inbox[k].type = TypeOf(inbox[k].id)
            \/ inbox[k] \in Pdus
        BY <1>0, <1>1, <3>2 DEF Messages
      <4>3. inbox[k].id \in Known => inbox[k].id \in Known'
        BY <1>1 DEF Stays
      <4> QED
        BY <4>1, <4>2, <4>3
    <3> QED
      BY <1>4, <3>1, <3>2
  <2> QED
    BY <1>2, <2>1 DEF Messages, IsSeq, Types, Reg, Targets, Registration, TypeOf
<1>7. Pairs'
  BY <1>1 DEF Pairs, Stays, IsSeq
<1>8. m.kind = "event" => /\ m.id \in Known' /\ m.id \notin Known /\ m.type = TypeOf(m.id)
                          /\ \A p \in Pdus : p.id # m.id
                          /\ Before(m.id)' = Starts(m.type) /\ m.type \in Types
  <2>1. ASSUME NEW type \in Types PROVE Reg(type).kind = "register"
    BY <2>1, RegsDiffer
  <2>2. \A p \in Pdus : p.kind = "pdu" /\ p.id[1] \notin {"edge", "sample", "timer"}
    BY TriggersAssumption
  <2> QED
    BY <2>1, <2>2 DEF Announces, TypeOf, Types
<1>9. \A k \in 1 .. n : inbox[k].kind = "event" => inbox[k].id \in Known
  BY <1>0, <1>1, MessageIs
<1>10. OnlyOnce'
  <2>1. ASSUME NEW k \in 1 .. n + 1, NEW j \in 1 .. n + 1,
               inbox'[k].kind = "event", inbox'[j].kind = "event", inbox'[j].id = inbox'[k].id
        PROVE  j = k
    <3>1. CASE k \in 1 .. n /\ j \in 1 .. n
      BY <1>0, <1>1, <1>2, <2>1, <3>1 DEF OnlyOnce
    <3>2. CASE k = n + 1 /\ j \in 1 .. n
      BY <1>2, <1>8, <1>9, <2>1, <3>2
    <3>3. CASE k \in 1 .. n /\ j = n + 1
      BY <1>2, <1>8, <1>9, <2>1, <3>3
    <3> QED
      BY <1>4, <3>1, <3>2, <3>3
  <2>2. ASSUME NEW k \in 1 .. n + 1, inbox'[k].kind = "event", NEW i \in 1 .. Len(queue)
        PROVE  queue[i].id # inbox'[k].id
    <3>1. CASE k \in 1 .. n
      BY <1>0, <1>1, <1>2, <2>2, <3>1 DEF OnlyOnce
    <3>2. CASE k = n + 1
      BY <1>1, <1>2, <1>8, <2>2, <3>2 DEF Pairs
    <3> QED
      BY <1>4, <3>1, <3>2
  <2> QED
    BY <1>1, <1>2, <2>1, <2>2 DEF OnlyOnce
<1>11. ASSUME NEW type \in Types PROVE HandledRegs(type)' = HandledRegs(type)
  <2>1. Starts(type)' = Starts(type) + One(m = Reg(type))
    <3>1. CASE \E U \in Types : m = Reg(U) /\ \A T \in Types : Starts(T)' = Starts(T) + One(T = U)
      <4>1. PICK U \in Types : m = Reg(U) /\ \A T \in Types : Starts(T)' = Starts(T) + One(T = U)
        BY <3>1
      <4>2. m = Reg(type) <=> type = U
        BY <4>1, RegsDiffer
      <4> QED
        BY <4>1, <4>2 DEF One
    <3>2. CASE m.kind \in {"event", "pdu"} /\ Starts(type)' = Starts(type)
      <4>1. m # Reg(type)
        BY <3>2, RegsDiffer
      <4>2. Starts(type) \in Nat
        BY <1>1 DEF Starts, Starting, One
      <4> QED
        BY <3>2, <4>1, <4>2 DEF One
    <3>3. \A p \in Pdus : p.kind = "pdu"
      BY TriggersAssumption
    <3> QED
      BY <3>1, <3>2, <3>3 DEF Announces, StartsSame
  <2>2. Starts(type) \in Nat /\ One(m = Reg(type)) \in Nat
    BY <1>1 DEF Starts, Starting, One
  <2>3. Queued(type, n) \in Nat /\ Queued(type, n + 1)' = Queued(type, n) + One(m = Reg(type))
    BY <1>2, <1>3
  <2>4. HandledRegs(type) = Starts(type) - Queued(type, n)
    BY <1>0 DEF HandledRegs
  <2>5. HandledRegs(type)' = Starts(type)' - Queued(type, n + 1)'
    BY <1>2 DEF HandledRegs, Queued
  <2> QED
    BY <2>1, <2>2, <2>3, <2>4, <2>5
<1>12. Bound'
  <2>1. ASSUME NEW type \in Types
        PROVE  /\ HandledRegs(type)' \in Nat
               /\ (type \in Registered' <=> HandledRegs(type)' > 0)
               /\ HandlersBefore(type)' = HandlersBefore(type)
    BY <1>1, <1>11 DEF Bound, HandlersBefore, Registered
  <2>2. Registered' = Registered
    BY <1>1 DEF Registered
  <2> QED
    BY <1>1, <1>11, <2>1, <2>2 DEF Bound, Types, Targets, IsSeq
<1>13. \A id \in Known : Before(id)' = Before(id)
  BY DEF Stays, Before
<1>14. InOrder'
  <2>1. ASSUME NEW k \in 1 .. n + 1, NEW type \in Types, inbox'[k].kind = "event",
               inbox'[k].type = type, NEW id, id = inbox'[k].id
        PROVE  HandledRegs(type)' + Queued(type, k)' = Before(id)'
    <3>1. CASE k \in 1 .. n
      <4>1. inbox[k].kind = "event" /\ inbox[k].type = type /\ inbox[k].id = id
        BY <1>2, <2>1, <3>1
      <4>2. HandledRegs(type) + Queued(type, k) = Before(id) /\ id \in Known
        BY <1>0, <1>1, <1>9, <3>1, <4>1 DEF InOrder
      <4>3. k \in 0 .. n
        BY <3>1
      <4> QED
        BY <1>3, <1>11, <1>13, <4>2, <4>3
    <3>2. CASE k = n + 1
      <4>1. m.kind = "event" /\ m.type = type /\ m.id = id
        BY <1>2, <2>1, <3>2
      <4>2. Before(id)' = Starts(type)
        BY <1>8, <4>1
      <4>3. m # Reg(type)
        BY <4>1, RegsDiffer
      <4>4. Queued(type, k)' = Queued(type, n) /\ Queued(type, n) \in Nat
        BY <1>2, <1>3, <3>2, <4>3 DEF One
      <4>5. HandledRegs(type)' = Starts(type) - Queued(type, n)
        BY <1>0, <1>11 DEF HandledRegs
      <4>6. Starts(type) \in Nat
        BY <1>1 DEF Starts, Starting, One
      <4> QED
        BY <4>2, <4>4, <4>5, <4>6
    <3> QED
      BY <1>4, <3>1, <3>2
  <2> QED
    BY <1>2, <2>1 DEF InOrder, Types
<1>15. ASSUME NEW id, id \in Known, Dealt(id) PROVE Dealt(id)'
  <2>1. InInbox(id) => InInbox(id)'
    BY <1>0, <1>2, <1>4 DEF InInbox
  <2>2. Served(id, Targets(TypeOf(id))) => Served(id, Targets(TypeOf(id)))'
    BY <1>1 DEF Served, PairsInQueue, Targets, TypeOf
  <2> QED
    BY <1>1, <1>13, <1>15, <2>1, <2>2 DEF Dealt
<1>16. m.kind = "event" => Dealt(m.id)'
  BY <1>2, <1>4 DEF Dealt, InInbox
<1> QED
  BY <1>6, <1>7, <1>10, <1>12, <1>14, <1>15, <1>16

\* Nothing is published but what is new.
NewOnly(m) ==
    /\ e_starts <= e_starts'
    /\ \A n \in fired' :
          n \in fired \/ (m.kind = "event" /\ \E s \in 1 .. e_starts' : m.id = <<"edge", n, s>>)
    /\ \A k \in 1 .. Len(ticks') :
          \/ k \in 1 .. Len(ticks) /\ ticks'[k] = ticks[k]
          \/ m.kind = "event" /\ m.id = <<"sample", ticks'[k], 1>>
    /\ \A n \in 1 .. published' :
          n \in 1 .. published \/ (m.kind = "event" /\ m.id = <<"timer", n, 1>>)

\* Publishing keeps the invariant ...
LEMMA PublishingServes ==
    ASSUME ServedInv, NEW m, Publishes(m), Stays, Announces(m), NewOnly(m)
    PROVE  ServedInv'
<1>1. /\ Messages' /\ Pairs' /\ OnlyOnce' /\ Bound' /\ InOrder' /\ Starting' /\ AllDealt
      /\ e_starts \in Nat /\ e_starts' \in Nat /\ e_starts <= e_starts'
      /\ \A id : id \in Known /\ Dealt(id) => Dealt(id)'
      /\ m.kind = "event" => Dealt(m.id)'
  BY PublishingKeeps DEF Stays, ServedInv, Starting, NewOnly
<1>2. ASSUME NEW n \in fired' PROVE \E s \in 1 .. e_starts' : Dealt(<<"edge", n, s>>)'
  <2>1. CASE n \in fired
    <3>1. PICK s \in 1 .. e_starts : Dealt(<<"edge", n, s>>)
      BY <1>1, <2>1 DEF AllDealt
    <3>2. <<"edge", n, s>> \in Known /\ s \in 1 .. e_starts'
      BY <1>1, <2>1 DEF Known
    <3> QED
      BY <1>1, <3>1, <3>2
  <2>2. CASE m.kind = "event" /\ \E s \in 1 .. e_starts' : m.id = <<"edge", n, s>>
    <3>1. PICK s \in 1 .. e_starts' : m.id = <<"edge", n, s>>
      BY <2>2
    <3> QED
      BY <1>1, <2>2, <3>1
  <2> QED
    BY <2>1, <2>2 DEF NewOnly
<1>3. ASSUME NEW k \in 1 .. Len(ticks'), NEW x, x = ticks'[k] PROVE Dealt(<<"sample", x, 1>>)'
  <2>1. CASE k \in 1 .. Len(ticks) /\ ticks[k] = x
    <3>1. Dealt(<<"sample", x, 1>>) /\ <<"sample", x, 1>> \in Known
      BY <1>1, <2>1 DEF AllDealt, Known
    <3> QED
      BY <1>1, <3>1
  <2>2. CASE m.kind = "event" /\ m.id = <<"sample", x, 1>>
    BY <1>1, <2>2
  <2> QED
    BY <1>3, <2>1, <2>2 DEF NewOnly
<1>4. ASSUME NEW n \in 1 .. published' PROVE Dealt(<<"timer", n, 1>>)'
  <2>1. CASE n \in 1 .. published
    <3>1. Dealt(<<"timer", n, 1>>) /\ <<"timer", n, 1>> \in Known
      BY <1>1, <2>1 DEF AllDealt, Known
    <3> QED
      BY <1>1, <3>1
  <2>2. CASE m.kind = "event" /\ m.id = <<"timer", n, 1>>
    BY <1>1, <2>2
  <2> QED
    BY <2>1, <2>2 DEF NewOnly
<1>5. AllDealt'
  BY <1>2, <1>3, <1>4 DEF AllDealt
<1> QED
  BY <1>1, <1>5 DEF ServedInv

\* What publishes nothing and starts nothing.
Quiet ==
    /\ Starting' /\ StartsSame
    /\ UNCHANGED <<inbox, acceptorVars, e_starts, fired, ticks, published, unannounced>>

\* ... and so does a step that has no part in it.
LEMMA QuietServes ==
    ASSUME ServedInv, Quiet
    PROVE  ServedInv'
<1>1. /\ inbox' = inbox /\ bindings' = bindings /\ queue' = queue /\ refused' = refused
      /\ Known' = Known /\ Early' = Early /\ fired' = fired /\ ticks' = ticks
      /\ e_starts' = e_starts /\ published' = published
  BY DEF Quiet, acceptorVars, Known, Early
<1>2. ASSUME NEW T \in Types
      PROVE  /\ HandledRegs(T)' = HandledRegs(T) /\ \A k : Queued(T, k)' = Queued(T, k)
             /\ HandlersBefore(T)' = HandlersBefore(T)
  <2>1. \A k : Queued(T, k)' = Queued(T, k)
    BY <1>1 DEF Queued, Reg, Targets, Registration
  <2>2. Starts(T)' = Starts(T)
    BY DEF Quiet, StartsSame
  <2>3. HandledRegs(T)' = HandledRegs(T)
    BY <1>1, <2>2 DEF HandledRegs, Queued
  <2> QED
    BY <1>1, <2>1, <2>3 DEF HandlersBefore, Registered
<1>3. Messages' /\ Pairs' /\ OnlyOnce'
  <2>1. Messages'
    BY <1>1 DEF ServedInv, Messages, Reg, Targets, Registration, TypeOf, Types, IsSeq
  <2>2. Pairs' /\ OnlyOnce'
    BY <1>1 DEF ServedInv, Pairs, OnlyOnce, IsSeq
  <2> QED
    BY <2>1, <2>2
<1>4. Bound'
  <2>1. Registered' = Registered
    BY <1>1 DEF Registered
  <2> QED
    BY <1>2, <2>1 DEF ServedInv, Bound, Types, Targets, IsSeq
<1>5. \A id : Before(id)' = Before(id)
  BY <1>1 DEF Before
<1>6. InOrder'
  BY <1>1, <1>2, <1>5 DEF ServedInv, InOrder, Types
<1>7. \A id : Dealt(id)' <=> Dealt(id)
  BY <1>1, <1>5 DEF Dealt, InInbox, Served, PairsInQueue, Targets, TypeOf
<1>8. AllDealt'
  BY <1>1, <1>7 DEF ServedInv, AllDealt
<1> QED
  BY <1>3, <1>4, <1>6, <1>8 DEF Quiet, ServedInv

-----------------------------------------------------------------------------
(* The steps of the publishers.                                            *)

\* The edge trigger: an event it fires is new, at a sample not looked at before.
LEMMA EdgeServes ==
    ASSUME ServedInv, EdgeInv, EdgeStep, UNCHANGED <<sampleVars, timerVars, acceptorVars>>
    PROVE  ServedInv'
<1>1. /\ Starting /\ ticks' = ticks /\ s_started' = s_started /\ s_n' = s_n /\ t_main' = t_main
      /\ published' = published /\ unannounced' = unannounced
      /\ Early' = Early
  BY DEF ServedInv, sampleVars, timerVars, Early
<1>2. CASE EdgeStart
  <2>1. PICK m : m = Reg("edge_event")
    OBVIOUS
  <2>2. /\ Publishes(m) /\ e_starts' = e_starts + 1 /\ fired' = fired /\ call' = call
    BY <1>2, <2>1 DEF EdgeStart, Publishes, Reg, Targets, edgeHistory
  <2>3. Starting' /\ e_starts \in Nat /\ e_starts' \in Nat
    BY <1>1, <2>2 DEF Starting
  <2>4. Known \subseteq Known'
    <3>1. 1 .. e_starts \subseteq 1 .. e_starts'
      BY <2>2, <2>3
    <3> QED
      BY <1>1, <2>2, <3>1 DEF Known
  <2>5. \A T \in Types : Starts(T)' = Starts(T) + One(T = "edge_event")
    <3>1. \A T \in Types : Starts(T) \in Nat
      BY <2>3 DEF Starts, One
    <3> QED
      BY <1>1, <2>2, <2>3, <3>1 DEF Starts, One, Types
  <2>6. Stays /\ Announces(m) /\ NewOnly(m)
    <3>1. Stays
      BY <1>1, <2>3, <2>4 DEF Stays
    <3>2. Announces(m)
      BY <2>1, <2>5 DEF Announces, Types
    <3>3. NewOnly(m)
      BY <1>1, <2>2, <2>3 DEF NewOnly
    <3> QED
      BY <3>1, <3>2, <3>3
  <2> QED
    BY <2>2, <2>6, PublishingServes
<1>3. ASSUME UNCHANGED <<inbox, fired, e_starts>>, call' # NoCall => e_starts > 0
      PROVE  ServedInv'
  <2>1. Quiet
    BY <1>1, <1>3 DEF Quiet, Starting, StartsSame, Starts
  <2> QED
    BY <2>1, QuietServes
<1>4. ASSUME EdgeTrigger, NEW n, n = e_time + call.i, NEW s, s = e_starts,
             Publish(Event(<<"edge", n, s>>, "edge_event", EdgeTime(n), EdgeLength)),
             fired' = fired \cup {n}
      PROVE  ServedInv'
  <2>1. PICK m : m = Event(<<"edge", n, s>>, "edge_event", EdgeTime(n), EdgeLength)
    OBVIOUS
  <2>2. Publishes(m) /\ e_starts' = e_starts
    BY <1>4, <2>1 DEF EdgeTrigger, Publishes
  <2>3. m.kind = "event" /\ m.id = <<"edge", n, s>> /\ m.type = "edge_event"
    BY <2>1 DEF Event
  <2>4. s \in Nat /\ s > 0 /\ s \in 1 .. s
    <3>1. call # NoCall
      BY <1>4 DEF EdgeTrigger, NoCall, Call
    <3> QED
      BY <1>1, <1>4, <3>1 DEF Starting
  <2>5. n \notin fired
    <3>1. n = Len(underAt) /\ Len(underAt) \in Nat /\ fired \subseteq 0 .. (Len(underAt) - 1)
      BY <1>4, FiredBefore DEF EdgeInv, EdgePlace
    <3> QED
      BY <3>1
  <2>6. Starting' /\ StartsSame
    BY <1>1, <1>4, <2>2, <2>4 DEF Starting, StartsSame, Starts
  <2>7. Known \subseteq Known' /\ m.id \in Known' /\ m.id \notin Known /\ m.id \notin Early
    BY <1>1, <1>4, <2>2, <2>3, <2>4, <2>5 DEF Known, Early
  <2>8. Stays
    BY <1>1, <2>6, <2>7 DEF Stays
  <2>9. Announces(m)
    <3>1. Before(m.id)' = Starts(m.type)
      BY <1>1, <1>4, <2>3, <2>7 DEF Before, Starts
    <3>2. TypeOf(m.id) = m.type /\ m.id[1] = "edge"
      BY <2>3 DEF TypeOf
    <3> QED
      BY <2>3, <2>6, <2>7, <3>1, <3>2 DEF Announces
  <2>10. NewOnly(m)
    BY <1>1, <1>4, <2>2, <2>3, <2>4 DEF NewOnly
  <2> QED
    BY <2>2, <2>8, <2>9, <2>10, PublishingServes
<1>5. CASE EdgeTrigger
  <2>1. PICK n : n = e_time + call.i
    OBVIOUS
  <2>2. PICK s : s = e_starts
    OBVIOUS
  <2>3. /\ e_starts' = e_starts /\ call.over
        /\ \/ /\ Publish(Event(<<"edge", n, s>>, "edge_event", EdgeTime(n), EdgeLength))
              /\ fired' = fired \cup {n}
           \/ inbox' = inbox /\ fired' = fired
    BY <1>5, <2>1, <2>2 DEF EdgeTrigger
  <2>4. e_starts > 0
    <3>1. call # NoCall
      BY <2>3 DEF NoCall, Call
    <3> QED
      BY <1>1, <3>1 DEF Starting
  <2> QED
    BY <1>3, <1>4, <1>5, <2>1, <2>2, <2>3, <2>4
<1>6. CASE EdgeReturn
  BY <1>1, <1>3, <1>6 DEF EdgeReturn, edgeHistory
<1>7. ASSUME NEW t \in Thresholds, SetThresh(t) PROVE ServedInv'
  BY <1>1, <1>3, <1>7 DEF SetThresh, edgeHistory, Starting
<1>8. ASSUME NEW n \in 1 .. Len(signal), EdgeWork(n) PROVE ServedInv'
  BY <1>3, <1>8 DEF EdgeWork, edgeHistory
<1>9. CASE EdgeSample
  <2>1. call # NoCall
    BY <1>9 DEF EdgeSample, EdgeInv, EdgePlace, NoCall, Call
  <2> QED
    BY <1>1, <1>3, <1>9, <2>1 DEF EdgeSample, Starting
<1> QED
  BY <1>2, <1>5, <1>6, <1>7, <1>8, <1>9 DEF EdgeStep

\* The sample timer: an event is new, a period later than the last.
LEMMA SampleServes ==
    ASSUME ServedInv, SampleInv, SampleTimerStep, UNCHANGED <<edgeVars, timerVars, acceptorVars>>
    PROVE  ServedInv'
<1>1. /\ Starting /\ fired' = fired /\ e_starts' = e_starts /\ call' = call /\ t_main' = t_main
      /\ published' = published /\ unannounced' = unannounced
      /\ Early' = Early /\ e_starts \in Nat
  BY DEF ServedInv, edgeVars, edgeHistory, timerVars, Early, Starting
<1>2. CASE SampleTimerStart
  <2>1. PICK m : m = Reg("sample_timer_event")
    OBVIOUS
  <2>2. /\ Publishes(m) /\ s_started = FALSE /\ s_started' = TRUE /\ ticks' = ticks
    BY <1>2, <2>1 DEF SampleTimerStart, Publishes, Reg, Targets, Starting
  <2>3. Starting'
    BY <1>1, <2>2 DEF Starting
  <2>4. Known' = Known
    BY <1>1, <2>2 DEF Known
  <2>5. \A T \in Types : Starts(T)' = Starts(T) + One(T = "sample_timer_event")
    <3>1. \A T \in Types : Starts(T) \in Nat
      BY <1>1 DEF Starts, One
    <3> QED
      BY <1>1, <2>2, <3>1 DEF Starts, One, Types
  <2>6. Stays
    BY <1>1, <2>3, <2>4 DEF Stays
  <2>7. Announces(m)
    BY <2>1, <2>5 DEF Announces, Types
  <2>8. NewOnly(m)
    BY <1>1, <2>2 DEF NewOnly
  <2> QED
    BY <2>2, <2>6, <2>7, <2>8, PublishingServes
<1>3. ASSUME UNCHANGED <<inbox, ticks, s_started>>, s_n' # 0 => s_started
      PROVE  ServedInv'
  <2>1. Quiet
    BY <1>1, <1>3 DEF Quiet, Starting, StartsSame, Starts
  <2> QED
    BY <2>1, QuietServes
<1>4. CASE Tick
  <2>1. PICK x : x = d_evt_time + Period
    OBVIOUS
  <2>2. PICK m : m = Event(<<"sample", x, 1>>, "sample_timer_event", x, 1)
    OBVIOUS
  <2>3. /\ Publishes(m) /\ ticks' = Append(ticks, x) /\ s_started' = s_started /\ s_n' = s_n
        /\ s_n > 0
    BY <1>4, <2>1, <2>2 DEF Tick, Publishes
  <2>4. m.kind = "event" /\ m.id = <<"sample", x, 1>> /\ m.type = "sample_timer_event"
    BY <2>2 DEF Event
  <2>5. PICK l \in Nat : l = Len(ticks)
    BY DEF SampleInv
  <2>6. /\ Len(ticks') = l + 1 /\ ticks'[l + 1] = x /\ \A k \in 1 .. l : ticks'[k] = ticks[k]
    BY <2>3, <2>5 DEF SampleInv
  <2>7. \A k \in 1 .. l : ticks[k] # x
    <3>1. ASSUME NEW k \in 1 .. l PROVE ticks[k] # x
      <4>1. k \in Nat /\ Period \in Nat /\ Period > 0 /\ Shift \in Nat /\ k <= l
        BY TimersAssumption
      <4>2. ticks[k] = Shift + k * Period /\ x = Shift + l * Period + Period
        BY <2>1, <2>5 DEF SampleInv
      <4>3. k * Period <= l * Period
        BY <4>1
      <4>4. k * Period \in Nat /\ l * Period \in Nat
        BY <4>1
      <4> QED
        BY <4>1, <4>2, <4>3, <4>4
    <3> QED
      BY <3>1
  <2>8. Starting' /\ StartsSame
    BY <1>1, <2>3 DEF Starting, StartsSame, Starts
  <2>9. Known \subseteq Known' /\ m.id \in Known'
    <3>1. {<<"sample", ticks[k], 1>> : k \in 1 .. Len(ticks)}
            \subseteq {<<"sample", ticks'[k], 1>> : k \in 1 .. Len(ticks')}
      BY <2>5, <2>6
    <3>2. m.id \in {<<"sample", ticks'[k], 1>> : k \in 1 .. Len(ticks')}
      BY <2>4, <2>6
    <3> QED
      BY <1>1, <3>1, <3>2 DEF Known
  <2>10. m.id \notin Known /\ m.id \notin Early
    BY <2>4, <2>5, <2>7 DEF Known, Early
  <2>11. Stays
    BY <1>1, <2>8, <2>9 DEF Stays
  <2>12. Announces(m)
    <3>1. s_started
      BY <1>1, <2>3 DEF Starting
    <3>2. Before(m.id)' = Starts(m.type)
      BY <1>1, <2>4, <2>10, <3>1 DEF Before, Starts, One
    <3>3. TypeOf(m.id) = m.type /\ m.id[1] = "sample"
      BY <2>4 DEF TypeOf
    <3> QED
      BY <2>4, <2>8, <2>9, <2>10, <3>2, <3>3 DEF Announces
  <2>13. NewOnly(m)
    <3>1. ASSUME NEW k \in 1 .. Len(ticks')
          PROVE  \/ k \in 1 .. Len(ticks) /\ ticks'[k] = ticks[k]
                 \/ m.kind = "event" /\ m.id = <<"sample", ticks'[k], 1>>
      <4>1. CASE k = l + 1
        BY <2>4, <2>6, <4>1
      <4>2. CASE k \in 1 .. l
        BY <2>5, <2>6, <4>2
      <4> QED
        BY <2>5, <2>6, <4>1, <4>2
    <3> QED
      BY <1>1, <3>1 DEF NewOnly
  <2> QED
    BY <2>3, <2>11, <2>12, <2>13, PublishingServes
<1>5. CASE SampleTimerReturn
  BY <1>1, <1>3, <1>5 DEF SampleTimerReturn
<1>6. ASSUME NEW n \in 1 .. MaxSamples, SampleTimerWork(n) PROVE ServedInv'
  BY <1>1, <1>3, <1>6 DEF SampleTimerWork
<1> QED
  BY <1>2, <1>4, <1>5, <1>6 DEF SampleTimerStep

\* The Python timer: its thread may come first, its events are numbered.
LEMMA TimerServes ==
    ASSUME ServedInv, TimerInv, TimerStep, UNCHANGED <<edgeVars, sampleVars, acceptorVars>>
    PROVE  ServedInv'
<1>1. /\ Starting /\ fired' = fired /\ e_starts' = e_starts /\ call' = call /\ ticks' = ticks
      /\ s_started' = s_started /\ s_n' = s_n /\ e_starts \in Nat /\ published \in Nat
  BY DEF ServedInv, edgeVars, edgeHistory, sampleVars, Starting, TimerInv
<1>2. CASE TimerRegister
  <2>1. PICK m : m = Reg("timer_event")
    OBVIOUS
  <2>2. /\ Publishes(m) /\ published' = published /\ unannounced' = unannounced
        /\ t_main = "register" /\ t_main' = "started"
    BY <1>2, <2>1 DEF TimerRegister, Publishes, Reg, Targets
  <2>3. Starting' /\ Known' = Known /\ Early' = Early
    BY <1>1, <2>2 DEF Starting, Known, Early
  <2>4. \A T \in Types : Starts(T)' = Starts(T) + One(T = "timer_event")
    <3>1. \A T \in Types : Starts(T) \in Nat
      BY <1>1 DEF Starts, One
    <3> QED
      BY <1>1, <2>2, <3>1 DEF Starts, One, Types
  <2>5. Stays
    BY <2>3 DEF Stays
  <2>6. Announces(m)
    BY <2>1, <2>4 DEF Announces, Types
  <2>7. NewOnly(m)
    BY <1>1, <2>2 DEF NewOnly
  <2> QED
    BY <2>2, <2>5, <2>6, <2>7, PublishingServes
<1>3. ASSUME UNCHANGED <<inbox, published, unannounced>>,
             (t_main \in {"new", "register"}) = (t_main' \in {"new", "register"}),
             t_main' = "register" => unannounced = published
      PROVE  ServedInv'
  <2>1. Quiet
    BY <1>1, <1>3 DEF Quiet, Starting, StartsSame, Starts
  <2> QED
    BY <2>1, QuietServes
<1>4. CASE TimerPublish
  <2>1. PICK n \in Nat : n = published + 1
    BY <1>1
  <2>2. PICK m : m = Event(<<"timer", n, 1>>, "timer_event", 0, 1)
    OBVIOUS
  <2>3. /\ Publishes(m) /\ published' = n /\ t_main' = t_main /\ t_thread = "publish"
        /\ unannounced' = IF t_main = "register" THEN n ELSE unannounced
    BY <1>4, <2>1, <2>2 DEF TimerPublish, ThreadGoes, Publishes
  <2>4. m.kind = "event" /\ m.id = <<"timer", n, 1>> /\ m.type = "timer_event"
    BY <2>2 DEF Event
  <2>5. t_main # "new" /\ unannounced \in 0 .. published
        /\ (t_main = "register" => unannounced = published)
    BY <1>1, <2>3 DEF TimerInv, Starting
  <2>6. Starting' /\ StartsSame
    BY <1>1, <2>1, <2>3, <2>5 DEF Starting, StartsSame, Starts
  <2>7. Known \subseteq Known' /\ m.id \in Known' /\ m.id \notin Known
    BY <1>1, <2>1, <2>3, <2>4 DEF Known
  <2>8. Known \cap Early' = Known \cap Early
    <3>1. CASE t_main = "register"
      <4>1. Early' = Early \cup {m.id}
        <5>1. 1 .. n = (1 .. published) \cup {n}
          BY <1>1, <2>1
        <5> QED
          BY <2>3, <2>4, <2>5, <3>1, <5>1 DEF Early
      <4> QED
        BY <2>7, <4>1
    <3>2. CASE t_main # "register"
      BY <2>3, <3>2 DEF Early
    <3> QED
      BY <3>1, <3>2
  <2>9. Stays
    BY <2>6, <2>7, <2>8 DEF Stays
  <2>10. Before(m.id)' = Starts(m.type)
    <3>1. CASE t_main = "register"
      <4>1. m.id \in Early'
        <5>1. n \in 1 .. n /\ unannounced' = n
          BY <1>1, <2>1, <2>3, <3>1
        <5> QED
          BY <2>4, <5>1 DEF Early
      <4> QED
        BY <2>4, <3>1, <4>1 DEF Before, Starts, One
    <3>2. CASE t_main # "register"
      <4>1. n \notin 1 .. unannounced /\ unannounced' = unannounced
        BY <1>1, <2>1, <2>3, <2>5, <3>2
      <4>2. m.id \notin Early'
        BY <2>4, <4>1 DEF Early
      <4> QED
        BY <2>4, <2>5, <3>2, <4>2 DEF Before, Starts, One
    <3> QED
      BY <3>1, <3>2
  <2>11. Announces(m)
    <3>1. TypeOf(m.id) = m.type /\ m.id[1] = "timer"
      BY <2>4 DEF TypeOf
    <3> QED
      BY <2>4, <2>6, <2>7, <2>10, <3>1 DEF Announces
  <2>12. NewOnly(m)
    <3>1. \A k \in 1 .. published' : k \in 1 .. published \/ k = n
      BY <1>1, <2>1, <2>3
    <3> QED
      BY <1>1, <2>4, <3>1 DEF NewOnly
  <2> QED
    BY <2>3, <2>9, <2>11, <2>12, PublishingServes
<1>5. CASE TimerStart
  BY <1>1, <1>3, <1>5 DEF TimerStart, TimerInv, Starting
<1>6. CASE TimerStop \/ TimerJoined
  BY <1>1, <1>3, <1>6 DEF TimerStop, TimerJoined
<1>7. CASE TimerTest \/ TimerPublishFails \/ TimerCheck \/ TimerRead \/ TimerWrite
  BY <1>1, <1>3, <1>7
     DEF TimerTest, TimerPublishFails, TimerCheck, TimerRead, TimerWrite, Starting
<1> QED
  BY <1>2, <1>4, <1>5, <1>6, <1>7 DEF TimerStep

\* Another block: a PDU may look like an event of a trigger, and is none.
LEMMA PduServes ==
    ASSUME ServedInv, NEW m \in Pdus, SendPdu(m),
           UNCHANGED <<edgeVars, sampleVars, timerVars, acceptorVars>>
    PROVE  ServedInv'
<1>1. /\ Starting /\ fired' = fired /\ e_starts' = e_starts /\ call' = call /\ ticks' = ticks
      /\ s_started' = s_started /\ s_n' = s_n /\ published' = published
      /\ unannounced' = unannounced /\ t_main' = t_main /\ Publishes(m)
  BY DEF ServedInv, edgeVars, edgeHistory, sampleVars, timerVars, SendPdu, Publishes
<1>2. Starting' /\ StartsSame /\ e_starts \in Nat
  BY <1>1 DEF Starting, StartsSame, Starts
<1>3. Known' = Known /\ Early' = Early
  BY <1>1 DEF Known, Early
<1>4. Stays /\ Announces(m)
  BY <1>2, <1>3 DEF Stays, Announces
<1>5. NewOnly(m)
  BY <1>1, <1>2 DEF NewOnly
<1> QED
  BY <1>1, <1>4, <1>5, PublishingServes

-----------------------------------------------------------------------------
(* The acceptor.                                                           *)

\* It handles the message m, the first.
Handles(m) ==
    /\ inbox # <<>> /\ m = inbox[1] /\ inbox' = Tail(inbox)
    /\ UNCHANGED <<edgeVars, sampleVars, timerVars>>

\* The messages move up by one; a registration is one more of those handled.
LEMMA HandledQueued ==
    ASSUME Starting, Messages, NEW m, Handles(m), NEW type \in Types, NEW n, n = Len(inbox)
    PROVE  /\ n \in Nat /\ n > 0 /\ Len(inbox') = n - 1 /\ IsSeq(inbox')
           /\ \A k \in 1 .. n - 1 : inbox'[k] = inbox[k + 1]
           /\ \A k \in 0 .. n - 1 :
                 Queued(type, k)' + One(m = Reg(type)) = Queued(type, k + 1)
                 /\ Queued(type, k)' \in Nat
           /\ HandledRegs(type)' = HandledRegs(type) + One(m = Reg(type))
<1>1. inbox \in Seq(Range(inbox)) /\ inbox # <<>> /\ inbox' = Tail(inbox) /\ m = inbox[1]
  BY DEF Messages, IsSeq, Handles
<1>2. /\ n \in Nat /\ n > 0 /\ inbox' \in Seq(Range(inbox)) /\ Len(inbox') = n - 1
      /\ \A k \in 1 .. n - 1 : inbox'[k] = inbox[k + 1]
  BY <1>1, HeadTailProperties, LenProperties, EmptySeq
<1>3. IsSeq(inbox')
  BY <1>2, SeqIsSeq
<1>4. ASSUME NEW k \in 0 .. n - 1
      PROVE  Queued(type, k)' + One(m = Reg(type)) = Queued(type, k + 1)
             /\ Queued(type, k)' \in Nat
  <2>1. PICK l \in Nat : l = k + 1
    BY <1>2
  <2>2. PICK A \in SUBSET (1 .. l), B \in SUBSET (1 .. k) :
           /\ A = {j \in 1 .. l : inbox[j] = Reg(type)}
           /\ B = {j \in 1 .. k : inbox'[j] = Reg(type)}
    OBVIOUS
  <2>3. B \in SUBSET (1 .. l - 1)
        /\ \A j \in 1 .. l - 1 : j \in B <=> (IF j < 1 THEN j ELSE j + 1) \in A
    <3>1. l - 1 = k
      BY <1>2, <2>1
    <3>2. \A j \in 1 .. k : j \in B <=> (IF j < 1 THEN j ELSE j + 1) \in A
      BY <1>2, <2>1, <2>2
    <3> QED
      BY <3>1, <3>2
  <2>4. 1 \in 1 .. l /\ (1 \in A <=> m = Reg(type))
    BY <1>1, <2>1, <2>2
  <2>5. Cardinality(A) = Cardinality(B) + One(1 \in A)
    <3>1. A \in SUBSET (1 .. l)
      BY <2>2
    <3>2. PICK i \in 1 .. l : i = 1
      BY <2>4
    <3>3. \A j \in 1 .. l - 1 : j \in B <=> (IF j < i THEN j ELSE j + 1) \in A
      BY <2>3, <3>2
    <3>4. Cardinality(A) = Cardinality(B) + One(i \in A)
      BY <2>3, <3>1, <3>3, ErasedPosition
    <3> QED
      BY <3>2, <3>4
  <2>6. Cardinality(B) \in Nat
    <3>1. k \in Nat /\ B \in SUBSET (1 .. k)
      BY <1>2, <2>2
    <3> QED
      BY <3>1, PositionsFinite
  <2>7. Queued(type, k + 1) = Cardinality(A)
    BY <2>1, <2>2 DEF Queued
  <2>8. Queued(type, k)' = Cardinality(B)
    BY <2>2 DEF Queued, Reg, Targets, Registration
  <2> QED
    BY <2>4, <2>5, <2>6, <2>7, <2>8 DEF One
<1>5. HandledRegs(type)' = HandledRegs(type) + One(m = Reg(type))
  <2>1. Starts(type)' = Starts(type) /\ Starts(type) \in Nat
    BY DEF Handles, edgeVars, edgeHistory, sampleVars, timerVars, Starts, One, Starting
  <2>2. PICK l \in Nat : l = n - 1
    BY <1>2, SMTT(30)
  <2>3. Queued(type, l)' + One(m = Reg(type)) = Queued(type, n) /\ Queued(type, l)' \in Nat
    BY <1>2, <1>4, <2>2
  <2>4. HandledRegs(type)' = Starts(type)' - Queued(type, l)'
    BY <1>2, <2>2 DEF HandledRegs, Queued
  <2>5. HandledRegs(type) = Starts(type) - Queued(type, n)
    BY DEF HandledRegs
  <2> QED
    BY <2>1, <2>3, <2>4, <2>5 DEF One
<1> QED
  BY <1>2, <1>3, <1>4, <1>5

\* What the acceptor does not touch.
SameEvents == Known' = Known /\ Early' = Early /\ \A id : Before(id)' = Before(id)

\* What is left in the inbox, and its order, when the first message is handled.
LEMMA HandlingKeeps ==
    ASSUME ServedInv, NEW m, Handles(m)
    PROVE  /\ Starting' /\ Messages' /\ InOrder' /\ SameEvents
           /\ \A id \in Known : InInbox(id) => InInbox(id)' \/ (m.kind = "event" /\ m.id = id)
           /\ \A k \in 1 .. Len(inbox') : inbox'[k].kind = "event" =>
                 /\ \A j \in 1 .. Len(inbox') :
                       inbox'[j].kind = "event" /\ inbox'[j].id = inbox'[k].id => j = k
                 /\ \A i \in 1 .. Len(queue) : queue[i].id # inbox'[k].id
                 /\ inbox'[k].id # m.id \/ m.kind = "register"
<1>0. PICK n : n = Len(inbox)
  OBVIOUS
<1>1. Starting /\ Messages /\ OnlyOnce /\ InOrder
  BY DEF ServedInv
<1>2. /\ n \in Nat /\ n > 0 /\ Len(inbox') = n - 1 /\ IsSeq(inbox') /\ m = inbox[1]
      /\ \A k \in 1 .. n - 1 : inbox'[k] = inbox[k + 1]
  BY <1>0, <1>1, HandledQueued DEF Types, Handles
<1>3. Starting' /\ SameEvents
  BY <1>1 DEF Starting, SameEvents, Handles, edgeVars, edgeHistory, sampleVars, timerVars,
              Known, Early, Before
<1>4. Messages'
  <2>1. ASSUME NEW k \in 1 .. n - 1
        PROVE  \/ \E type \in Types : inbox'[k] = Reg(type)
               \/ /\ inbox'[k].kind = "event" /\ inbox'[k].id \in Known
                  /\ inbox'[k].type = TypeOf(inbox'[k].id)
               \/ inbox'[k] \in Pdus
    <3>1. inbox'[k] = inbox[k + 1] /\ k + 1 \in 1 .. n
      BY <1>2
    <3> QED
      BY <1>0, <1>1, <3>1 DEF Messages
  <2> QED
    BY <1>2, <1>3, <2>1
       DEF Messages, SameEvents, IsSeq, Types, Reg, Targets, Registration, TypeOf
<1>5. InOrder'
  <2>1. ASSUME NEW k \in 1 .. n - 1, NEW type \in Types, inbox'[k].kind = "event",
               inbox'[k].type = type, NEW id, id = inbox'[k].id
        PROVE  HandledRegs(type)' + Queued(type, k)' = Before(id)'
    <3>1. PICK l \in 1 .. n : l = k + 1
      BY <1>2
    <3>2. inbox[l].kind = "event" /\ inbox[l].type = type /\ inbox[l].id = id
      BY <1>2, <2>1, <3>1
    <3>3. HandledRegs(type) + Queued(type, l) = Before(id)
      BY <1>0, <1>1, <3>2 DEF InOrder
    <3>4. /\ Queued(type, k)' + One(m = Reg(type)) = Queued(type, l) /\ Queued(type, k)' \in Nat
          /\ HandledRegs(type)' = HandledRegs(type) + One(m = Reg(type))
      <4>1. k \in 0 .. n - 1
        OBVIOUS
      <4> QED
        BY <1>0, <1>1, <3>1, <4>1, HandledQueued
    <3>5. HandledRegs(type) \in Nat
      BY DEF ServedInv, Bound
    <3> QED
      BY <1>3, <3>3, <3>4, <3>5 DEF SameEvents, One
  <2> QED
    BY <1>2, <2>1 DEF InOrder, Types
<1>6. ASSUME NEW id \in Known, InInbox(id) PROVE InInbox(id)' \/ (m.kind = "event" /\ m.id = id)
  <2>1. PICK k \in 1 .. n : inbox[k].kind # "register" /\ inbox[k].id = id
    BY <1>0, <1>6 DEF InInbox
  <2>2. inbox[k].kind = "event"
    BY <1>0, <1>1, <2>1, MessageIs
  <2>3. CASE k = 1
    BY <1>2, <2>1, <2>2, <2>3
  <2>4. CASE k # 1
    <3>1. k - 1 \in 1 .. n - 1 /\ inbox'[k - 1] = inbox[k]
      BY <1>2, <2>4
    <3> QED
      BY <1>2, <2>1, <3>1 DEF InInbox
  <2> QED
    BY <2>3, <2>4
<1>7. ASSUME NEW k \in 1 .. n - 1, inbox'[k].kind = "event"
      PROVE  /\ \A j \in 1 .. n - 1 :
                   inbox'[j].kind = "event" /\ inbox'[j].id = inbox'[k].id => j = k
             /\ \A i \in 1 .. Len(queue) : queue[i].id # inbox'[k].id
             /\ inbox'[k].id # m.id \/ m.kind = "register"
  <2>1. PICK l \in 1 .. n : l = k + 1
    BY <1>2
  <2>2. inbox'[k] = inbox[l] /\ inbox[l].kind = "event" /\ l # 1
    BY <1>2, <1>7, <2>1
  <2>3. \A j \in 1 .. n - 1 : j + 1 \in 1 .. n /\ inbox'[j] = inbox[j + 1]
    BY <1>2
  <2>4. /\ \A j \in 1 .. n : inbox[j].kind = "event" /\ inbox[j].id = inbox[l].id => j = l
        /\ \A i \in 1 .. Len(queue) : queue[i].id # inbox[l].id
    BY <1>0, <1>1, <2>2 DEF OnlyOnce
  <2>5. inbox'[k].id # m.id \/ m.kind = "register"
    <3>1. 1 \in 1 .. n
      BY <1>2
    <3>2. /\ m.kind \in {"event", "register", "pdu"}
          /\ m.kind = "pdu" => m.id \notin Known
          /\ inbox[l].id \in Known
      BY <1>0, <1>1, <1>2, <2>2, <3>1, MessageIs
    <3> QED
      BY <1>2, <2>2, <2>4, <3>1, <3>2
  <2>6. ASSUME NEW j \in 1 .. n - 1, inbox'[j].kind = "event", inbox'[j].id = inbox'[k].id
        PROVE  j = k
    <3>1. j + 1 = l
      BY <2>2, <2>3, <2>4, <2>6
    <3> QED
      BY <2>1, <3>1
  <2> QED
    BY <2>2, <2>4, <2>5, <2>6
<1> QED
  BY <1>2, <1>3, <1>4, <1>5, <1>6, <1>7

\* It is enough that every event stays dealt with.
LEMMA HandlingDeals ==
    ASSUME ServedInv, NEW m, Handles(m), \A id \in Known : Dealt(id) => Dealt(id)'
    PROVE  AllDealt'
<1>1. /\ fired' = fired /\ ticks' = ticks /\ published' = published /\ e_starts' = e_starts
      /\ AllDealt
  BY DEF Handles, edgeVars, edgeHistory, sampleVars, timerVars, ServedInv
<1>2. ASSUME NEW n \in fired PROVE \E s \in 1 .. e_starts : Dealt(<<"edge", n, s>>)'
  <2>1. PICK s \in 1 .. e_starts : Dealt(<<"edge", n, s>>)
    BY <1>1, <1>2 DEF AllDealt
  <2>2. <<"edge", n, s>> \in Known
    BY <1>2, <2>1 DEF Known
  <2> QED
    BY <2>1, <2>2
<1>3. ASSUME NEW k \in 1 .. Len(ticks), NEW x, x = ticks[k] PROVE Dealt(<<"sample", x, 1>>)'
  <2>1. <<"sample", x, 1>> \in Known /\ Dealt(<<"sample", x, 1>>)
    BY <1>1, <1>3 DEF AllDealt, Known
  <2> QED
    BY <2>1
<1>4. ASSUME NEW n \in 1 .. published PROVE Dealt(<<"timer", n, 1>>)'
  <2>1. <<"timer", n, 1>> \in Known /\ Dealt(<<"timer", n, 1>>)
    BY <1>1, <1>4 DEF AllDealt, Known
  <2> QED
    BY <2>1
<1> QED
  BY <1>1, <1>2, <1>3, <1>4 DEF AllDealt

\* A registration binds its targets once more.
LEMMA RegistrationServes ==
    ASSUME ServedInv, NEW m, Handles(m), Head(inbox) = m, AddHandlers
    PROVE  ServedInv'
<1>0. PICK n : n = Len(inbox)
  OBVIOUS
<1>1. /\ Starting' /\ Messages' /\ InOrder' /\ SameEvents /\ Starting /\ Messages /\ Bound
      /\ Pairs /\ OnlyOnce /\ AllDealt
  BY HandlingKeeps DEF ServedInv
<1>2. m.kind = "register" /\ queue' = queue /\ refused' = refused
      /\ bindings' = [x \in Registered \cup {m.type} |->
                         IF x = m.type THEN HandlersBefore(x) \o m.targets ELSE bindings[x]]
  BY DEF AddHandlers, Receive
<1>3. PICK U \in Types : m = Reg(U)
  <2>1. n > 0 /\ n \in Nat
    BY <1>0, <1>1, HandledQueued DEF Types
  <2> QED
    BY <1>0, <1>1, <1>2, <2>1, MessageIs DEF Handles
<1>4. m.type = U /\ m.targets = Targets(U)
  BY <1>3, RegsDiffer
<1>5. Registered' = Registered \cup {U}
  BY <1>2, <1>4 DEF Registered
<1>6. ASSUME NEW type \in Types
      PROVE  /\ HandledRegs(type)' \in Nat
             /\ (type \in Registered' <=> HandledRegs(type)' > 0)
             /\ IsSeq(HandlersBefore(type)')
             /\ \A t \in Range(Targets(type)) :
                   Cardinality(PositionsOf(HandlersBefore(type)', {t})) = HandledRegs(type)'
  <2>1. /\ HandledRegs(type) \in Nat /\ (type \in Registered <=> HandledRegs(type) > 0)
        /\ IsSeq(HandlersBefore(type))
        /\ \A t \in Range(Targets(type)) :
              Cardinality(PositionsOf(HandlersBefore(type), {t})) = HandledRegs(type)
    BY <1>1 DEF Bound
  <2>2. HandledRegs(type)' = HandledRegs(type) + One(type = U)
    <3>1. HandledRegs(type)' = HandledRegs(type) + One(m = Reg(type))
      BY <1>0, <1>1, HandledQueued
    <3>2. m = Reg(type) <=> type = U
      BY <1>3, RegsDiffer
    <3> QED
      BY <3>1, <3>2 DEF One
  <2>3. CASE type = U
    <3>1. HandlersBefore(type)' = HandlersBefore(type) \o Targets(type)
      BY <1>2, <1>4, <1>5, <2>3 DEF HandlersBefore
    <3>2. HandledRegs(type)' = HandledRegs(type) + 1
      BY <2>2, <2>3 DEF One
    <3>3. PICK hs : hs = HandlersBefore(type)
      OBVIOUS
    <3>4. IsSeq(hs \o Targets(type))
      BY <2>1, <3>3, TargetsAre, CountConcat
    <3>5. ASSUME NEW t \in Range(Targets(type))
          PROVE  Cardinality(PositionsOf(hs \o Targets(type), {t})) = HandledRegs(type) + 1
      <4>1. IsSeq(Targets(type)) /\ Cardinality(PositionsOf(Targets(type), {t})) = 1
        BY <3>5, TargetsOnce
      <4>2. Cardinality(PositionsOf(hs \o Targets(type), {t}))
               = Cardinality(PositionsOf(hs, {t})) + Cardinality(PositionsOf(Targets(type), {t}))
        BY <2>1, <3>3, <4>1, CountConcat
      <4> QED
        BY <2>1, <3>3, <4>1, <4>2
    <3> QED
      BY <1>5, <2>1, <2>3, <3>1, <3>2, <3>3, <3>4, <3>5
  <2>4. CASE type # U
    <3>1. HandlersBefore(type)' = HandlersBefore(type) /\ (type \in Registered' <=> type \in Registered)
      BY <1>2, <1>4, <1>5, <2>4 DEF HandlersBefore, Registered
    <3>2. HandledRegs(type)' = HandledRegs(type)
      BY <2>1, <2>2, <2>4 DEF One
    <3> QED
      BY <2>1, <3>1, <3>2
  <2> QED
    BY <2>3, <2>4
<1>7. Bound'
  BY <1>1, <1>5, <1>6 DEF Bound, Types, Targets, IsSeq
<1>8. Pairs' /\ OnlyOnce'
  <2>1. Pairs'
    BY <1>1, <1>2 DEF Pairs, SameEvents, IsSeq
  <2>2. OnlyOnce'
    BY <1>2, HandlingKeeps DEF OnlyOnce
  <2> QED
    BY <2>1, <2>2
<1>9. \A id \in Known : Dealt(id) => Dealt(id)'
  <2>1. ASSUME NEW id \in Known, Dealt(id) PROVE Dealt(id)'
    <3>1. InInbox(id) => InInbox(id)'
      BY <1>2, HandlingKeeps
    <3>2. Served(id, Targets(TypeOf(id))) => Served(id, Targets(TypeOf(id)))'
      BY <1>2 DEF Served, PairsInQueue, Targets, TypeOf
    <3> QED
      BY <1>1, <1>2, <2>1, <3>1, <3>2 DEF Dealt, SameEvents
  <2> QED
    BY <2>1
<1> QED
  BY <1>1, <1>7, <1>8, <1>9, HandlingDeals DEF ServedInv

\* No other message binds or unbinds a handler.
LEMMA HandlingKeepsBound ==
    ASSUME ServedInv, NEW m, Handles(m), m.kind # "register", bindings' = bindings
    PROVE  Bound'
<1>0. PICK n : n = Len(inbox)
  OBVIOUS
<1>1. Starting /\ Messages /\ Bound
  BY DEF ServedInv
<1>2. ASSUME NEW type \in Types
      PROVE  /\ HandledRegs(type)' = HandledRegs(type) /\ HandlersBefore(type)' = HandlersBefore(type)
             /\ (type \in Registered' <=> type \in Registered)
  <2>1. HandledRegs(type)' = HandledRegs(type) + One(m = Reg(type))
    BY <1>0, <1>1, HandledQueued
  <2>2. m # Reg(type) /\ HandledRegs(type) \in Nat
    BY <1>1, RegsDiffer DEF Bound
  <2> QED
    BY <2>1, <2>2 DEF One, HandlersBefore, Registered
<1>3. Registered' = Registered
  BY DEF Registered
<1> QED
  BY <1>1, <1>2, <1>3 DEF Bound, Types, Targets, IsSeq

\* When the turn of an event comes, the registrations before it have been handled.
LEMMA EventsTurn ==
    ASSUME ServedInv, NEW m, Handles(m), m.kind = "event", NEW id, id = m.id
    PROVE  /\ id \in Known /\ m.type = TypeOf(id) /\ m.type \in Types
           /\ HandledRegs(m.type) = Before(id)
           /\ \A i \in 1 .. Len(queue) : queue[i].id # id
<1>0. PICK n : n = Len(inbox)
  OBVIOUS
<1>1. Starting /\ Messages /\ OnlyOnce /\ InOrder /\ Bound /\ m = inbox[1]
  BY DEF ServedInv, Handles
<1>2. 1 \in 1 .. n
  <2>1. n \in Nat /\ n > 0
    BY <1>0, <1>1, HandledQueued DEF Types
  <2> QED
    BY <2>1
<1>3. id \in Known /\ m.type = TypeOf(id) /\ m.type \in Types
  BY <1>0, <1>1, <1>2, MessageIs
<1>4. PICK type \in Types : type = m.type
  BY <1>3
<1>5. HandledRegs(type) + Queued(type, 1) = Before(id)
  BY <1>0, <1>1, <1>2, <1>4 DEF InOrder
<1>6. Queued(type, 1) = 0
  <2>1. m # Reg(type)
    BY RegsDiffer
  <2>2. {j \in 1 .. 1 : inbox[j] = Reg(type)} = {}
    BY <1>1, <2>1
  <2> QED
    BY <2>2, FS_EmptySet DEF Queued
<1>7. HandledRegs(type) \in Nat
  BY <1>1 DEF Bound
<1>8. \A i \in 1 .. Len(queue) : queue[i].id # id
  BY <1>0, <1>1, <1>2 DEF OnlyOnce
<1> QED
  BY <1>3, <1>4, <1>5, <1>6, <1>7, <1>8

\* An event or a PDU is not queued.
LEMMA RefusalServes ==
    ASSUME ServedInv, NEW m, Handles(m), m.kind # "register",
           m.kind = "event" => m.type \notin Registered,
           bindings' = bindings, queue' = queue, refused' = refused \cup {m.id}
    PROVE  ServedInv'
<1>1. /\ Starting' /\ Messages' /\ InOrder' /\ SameEvents /\ Starting /\ Messages /\ Bound
      /\ Pairs /\ OnlyOnce /\ AllDealt /\ InOrder
  BY HandlingKeeps DEF ServedInv
<1>2. Bound'
  BY <1>1, HandlingKeepsBound
<1>3. Pairs' /\ OnlyOnce'
  <2>1. Pairs'
    BY <1>1 DEF Pairs, SameEvents, IsSeq
  <2>2. OnlyOnce'
    BY HandlingKeeps DEF OnlyOnce
  <2> QED
    BY <2>1, <2>2
<1>4. ASSUME NEW id \in Known, Dealt(id) PROVE Dealt(id)'
  <2>1. Served(id, Targets(TypeOf(id))) => Served(id, Targets(TypeOf(id)))'
    BY DEF Served, PairsInQueue, Targets, TypeOf
  <2>2. CASE m.kind = "event" /\ m.id = id
    <3>1. m.type \in Types /\ HandledRegs(m.type) = Before(id)
      BY <2>2, EventsTurn
    <3>2. ~(Before(id) > 0)
      BY <1>1, <2>2, <3>1 DEF Bound
    <3> QED
      BY <1>1, <2>2, <3>2 DEF Dealt, SameEvents
  <2>3. CASE ~(m.kind = "event" /\ m.id = id)
    <3>1. InInbox(id) => InInbox(id)'
      BY <2>3, HandlingKeeps
    <3> QED
      BY <1>1, <1>4, <2>1, <3>1 DEF Dealt, SameEvents
  <2> QED
    BY <2>2, <2>3
<1> QED
  BY <1>1, <1>2, <1>3, <1>4, HandlingDeals DEF ServedInv

\* The pairs P of one event: each handler that is bound, hs, has as many as bindings.
PairsFor(P, e, hs) ==
    /\ IsSeq(P) /\ Len(P) = Len(hs) /\ \A k \in 1 .. Len(P) : P[k].id = e.id
    /\ \A h, X : (\A k \in 1 .. Len(P) : P[k] \in X <=> P[k].hnd = h) =>
                Cardinality(PositionsOf(P, X)) = Cardinality(PositionsOf(hs, {h}))

\* es_queue::add_event goes through the handlers of a type in reverse.
LEMMA PairsOfEvent ==
    ASSUME NEW e, NEW hs, hs = bindings[e.type], IsSeq(hs), NEW P, P = PairsOf(e)
    PROVE  PairsFor(P, e, hs)
<1>1. PICK l \in Nat : l = Len(hs)
  BY LenProperties DEF IsSeq
<1>2. /\ P = [k \in 1 .. l |-> P[k]]
      /\ \A k \in 1 .. l : P[k].id = e.id /\ P[k].hnd = hs[(l + 1) - k]
  BY <1>1 DEF PairsOf
<1>3. IsSeq(P) /\ Len(P) = l
  BY <1>2, FunctionIsSeq
<1>4. ASSUME NEW h, NEW X, \A k \in 1 .. l : P[k] \in X <=> P[k].hnd = h
      PROVE  Cardinality(PositionsOf(P, X)) = Cardinality(PositionsOf(hs, {h}))
  <2> DEFINE S == PositionsOf(hs, {h})
             T == PositionsOf(P, X)
             f == [k \in S |-> (l + 1) - k]
  <2>1. S = {k \in 1 .. l : hs[k] = h} /\ T = {k \in 1 .. l : hs[(l + 1) - k] = h}
    BY <1>1, <1>2, <1>3, <1>4 DEF PositionsOf
  <2>2. IsFiniteSet(S)
    BY <2>1, <1>1, PositionsFinite
  <2>3. \A k \in 1 .. l : (l + 1) - k \in 1 .. l /\ (l + 1) - ((l + 1) - k) = k
    BY <1>1
  <2>4. f \in [S -> T] /\ \A a, b \in S : f[a] = f[b] => a = b
    BY <2>1, <2>3
  <2>5. ASSUME NEW t \in T PROVE \E s \in S : f[s] = t
    <3>1. (l + 1) - t \in S /\ f[(l + 1) - t] = t
      BY <2>1, <2>3
    <3> QED
      BY <3>1
  <2> HIDE DEF S, T, f
  <2>6. Cardinality(T) = Cardinality(S)
    BY <2>2, <2>4, <2>5, OneToOne
  <2> QED
    BY <2>6 DEF S, T
<1> QED
  BY <1>1, <1>2, <1>3, <1>4 DEF PairsFor

\* Inserting the pairs of an event: its handlers get their pairs, whatever the
\* search finds, and nobody else gets or loses one.
Added(e, hs) ==
    /\ IsSeq(queue')
    /\ \A j \in 1 .. Len(queue') :
          queue'[j].id = e.id \/ \E k \in 1 .. Len(queue) : queue'[j] = queue[k]
    /\ \A id, h : PairsInQueue(id, h)' = PairsInQueue(id, h)
          + (IF id = e.id THEN Cardinality(PositionsOf(hs, {h})) ELSE 0)

\* Wherever the search inserts them.
LEMMA AddedPairs ==
    ASSUME IsSeq(queue), NEW e, NEW hs, hs = bindings[e.type], IsSeq(hs),
           NEW i \in FindIndex(Search, Times(queue), e.time),
           queue' = Splice(queue, i, PairsOf(e))
    PROVE  Added(e, hs)
<1>1. PICK q : q = queue
  OBVIOUS
<1>2. PICK P : P = PairsOf(e)
  OBVIOUS
<1>0. PairsFor(P, e, hs)
  BY <1>2, PairsOfEvent
<1>3. /\ IsSeq(P) /\ Len(P) = Len(hs) /\ \A k \in 1 .. Len(P) : P[k].id = e.id
  BY <1>0 DEF PairsFor
<1>4. PICK S : q \in Seq(S) /\ P \in Seq(S)
  <2>1. q \in Seq(Range(q) \cup Range(P)) /\ P \in Seq(Range(q) \cup Range(P))
    BY <1>1, <1>3, SeqMonotonic DEF IsSeq
  <2> QED
    BY <2>1
<1>5. PICK m \in Nat : m = Len(q)
  BY <1>4, LenProperties
<1>6. PICK l \in Nat : l = Len(P)
  BY <1>4, LenProperties
<1>7. i \in 0 .. m
  <2>1. Len(Times(queue)) = m
    <3>1. Times(queue) = [k \in 1 .. m |-> Times(queue)[k]]
      BY <1>1, <1>5 DEF Times
    <3> QED
      BY <3>1, FunctionIsSeq
  <2> QED
    BY <2>1, FoundIndexInRange
<1>8. /\ queue' \in Seq(S) /\ Len(queue') = m + l
      /\ \A j \in 1 .. m + l : queue'[j] = IF j <= i THEN q[j]
                                           ELSE IF j <= i + l THEN P[j - i] ELSE q[j - l]
  <2>1. i \in 0 .. Len(q)
    BY <1>5, <1>7
  <2>2. PICK r : r = Splice(q, i, P)
    OBVIOUS
  <2>3. /\ r \in Seq(S) /\ Len(r) = Len(q) + Len(P)
        /\ \A j \in 1 .. Len(q) + Len(P) :
              r[j] = IF j <= i THEN q[j]
                     ELSE IF j <= i + Len(P) THEN P[j - i] ELSE q[j - Len(P)]
    BY <1>4, <2>1, <2>2, SpliceElements
  <2>4. queue' = r
    BY <1>1, <1>2, <2>2
  <2> QED
    BY <1>5, <1>6, <2>3, <2>4
<1>9. ASSUME NEW j \in 1 .. m + l
      PROVE  queue'[j].id = e.id \/ \E k \in 1 .. m : queue'[j] = q[k]
  <2>1. CASE j <= i
    BY <1>7, <1>8, <2>1
  <2>2. CASE i < j /\ j <= i + l
    <3>1. j - i \in 1 .. l /\ queue'[j] = P[j - i]
      BY <1>7, <1>8, <2>2
    <3> QED
      BY <1>3, <1>6, <3>1
  <2>3. CASE i + l < j
    <3>1. j - l \in 1 .. m /\ queue'[j] = q[j - l]
      BY <1>7, <1>8, <2>3
    <3> QED
      BY <3>1
  <2> QED
    BY <1>7, <2>1, <2>2, <2>3
<1>10. ASSUME NEW id, NEW h
       PROVE  PairsInQueue(id, h)' = PairsInQueue(id, h)
                 + (IF id = e.id THEN Cardinality(PositionsOf(hs, {h})) ELSE 0)
  <2> DEFINE X == {p \in S : p.id = id /\ p.hnd = h}
  <2>1. /\ \A k \in 1 .. m : q[k] \in X <=> q[k].id = id /\ q[k].hnd = h
        /\ \A k \in 1 .. l : P[k] \in X <=> P[k].id = id /\ P[k].hnd = h
        /\ \A k \in 1 .. m + l : queue'[k] \in X <=> queue'[k].id = id /\ queue'[k].hnd = h
    BY <1>4, <1>5, <1>6, <1>8, ElementOfSeq
  <2> HIDE DEF X
  <2>2. PairsInQueue(id, h) = Cardinality(PositionsOf(q, X))
    BY <1>1, <1>5, <2>1 DEF PairsInQueue, PositionsOf
  <2>3. PairsInQueue(id, h)' = Cardinality(PositionsOf(Splice(q, i, P), X))
    <3>1. queue' = Splice(q, i, P)
      BY <1>1, <1>2
    <3>2. {k \in 1 .. Len(queue') : queue'[k].id = id /\ queue'[k].hnd = h}
             = {k \in 1 .. Len(queue') : queue'[k] \in X}
      BY <1>8, <2>1
    <3>3. PairsInQueue(id, h)'
             = Cardinality({k \in 1 .. Len(queue') : queue'[k].id = id /\ queue'[k].hnd = h})
      BY DEF PairsInQueue
    <3> QED
      BY <3>1, <3>2, <3>3 DEF PositionsOf
  <2>4. Cardinality(PositionsOf(Splice(q, i, P), X))
           = Cardinality(PositionsOf(q, X)) + Cardinality(PositionsOf(P, X))
    BY <1>4, <1>5, <1>7, CountSpliced
  <2>5. Cardinality(PositionsOf(q, X)) \in Nat
    BY <1>4, PositionsType
  <2>6. CASE id = e.id
    <3>1. \A k \in 1 .. Len(P) : P[k] \in X <=> P[k].hnd = h
      BY <1>3, <1>6, <2>1, <2>6
    <3>2. Cardinality(PositionsOf(P, X)) = Cardinality(PositionsOf(hs, {h}))
      BY <1>0, <3>1 DEF PairsFor
    <3> QED
      BY <2>2, <2>3, <2>4, <2>6, <3>2
  <2>7. CASE id # e.id
    <3>1. PositionsOf(P, X) = {}
      BY <1>3, <1>6, <2>1, <2>7 DEF PositionsOf
    <3>2. Cardinality(PositionsOf(P, X)) = 0
      BY <3>1, FS_EmptySet
    <3> QED
      BY <2>2, <2>3, <2>4, <2>5, <2>7, <3>2
  <2> QED
    BY <2>6, <2>7
<1>11. IsSeq(queue')
  BY <1>8, SeqIsSeq
<1> QED
  BY <1>1, <1>5, <1>8, <1>9, <1>10, <1>11, ZenonT(30) DEF Added

\* An event or a PDU of a registered type is queued.
LEMMA AdditionServes ==
    ASSUME ServedInv, NEW m, Handles(m), m.kind # "register", NEW e, e.id = m.id,
           m.kind = "event" => e.type = m.type,
           e.type \in Registered, NEW i \in FindIndex(Search, Times(queue), e.time),
           queue' = Splice(queue, i, PairsOf(e)), bindings' = bindings, refused' = refused
    PROVE  ServedInv'
<1>1. /\ Starting' /\ Messages' /\ InOrder' /\ SameEvents /\ Starting /\ Messages /\ Bound
      /\ Pairs /\ OnlyOnce /\ AllDealt /\ InOrder
  BY HandlingKeeps DEF ServedInv
<1>2. Bound'
  BY <1>1, HandlingKeepsBound
<1>3. PICK hs : hs = bindings[e.type]
  OBVIOUS
<1>4. e.type \in Types /\ hs = HandlersBefore(e.type) /\ IsSeq(hs)
  BY <1>1, <1>3 DEF Bound, HandlersBefore
<1>5. /\ IsSeq(queue')
      /\ \A j \in 1 .. Len(queue') :
            queue'[j].id = e.id \/ \E k \in 1 .. Len(queue) : queue'[j] = queue[k]
      /\ \A id, h : PairsInQueue(id, h)' = PairsInQueue(id, h)
            + (IF id = e.id THEN Cardinality(PositionsOf(hs, {h})) ELSE 0)
  <2>1. IsSeq(queue)
    BY <1>1 DEF Pairs
  <2>2. Added(e, hs)
    BY <1>3, <1>4, <2>1, AddedPairs
  <2> QED
    BY <2>2 DEF Added
<1>6. m.id \in Known \/ (m \in Pdus /\ m.id \notin Known)
  <2>1. PICK n \in Nat : n = Len(inbox) /\ n > 0
    BY <1>1, HandledQueued DEF Types
  <2> QED
    BY <1>1, <2>1, MessageIs DEF Handles
<1>7. Pairs'
  BY <1>1, <1>5, <1>6 DEF Pairs, SameEvents
<1>8. OnlyOnce'
  BY <1>5, HandlingKeeps DEF OnlyOnce
<1>9. ASSUME NEW id \in Known, Dealt(id) PROVE Dealt(id)'
  <2>1. CASE m.kind = "event" /\ m.id = id
    <3>1. /\ e.type = TypeOf(id) /\ HandledRegs(e.type) = Before(id)
          /\ \A k \in 1 .. Len(queue) : queue[k].id # id
      BY <2>1, EventsTurn
    <3>2. HandledRegs(e.type) > 0
      BY <1>1, <1>4 DEF Bound
    <3>3. Before(id) = id[3] /\ Before(id)' = Before(id)
      BY <1>1, <3>1, <3>2 DEF Before, SameEvents
    <3>4. ASSUME NEW k \in 1 .. Len(Targets(e.type)), NEW h, h = Targets(e.type)[k]
          PROVE  PairsInQueue(id, h)' = id[3]
      <4>1. PairsInQueue(id, h) = 0
        <5>1. {j \in 1 .. Len(queue) : queue[j].id = id /\ queue[j].hnd = h} = {}
          BY <3>1
        <5> QED
          BY <5>1, FS_EmptySet DEF PairsInQueue
      <4>2. h \in Range(Targets(e.type))
        <5>1. Targets(e.type) \in Seq(Range(Targets(e.type)))
          BY <1>4, TargetsAre DEF IsSeq
        <5> QED
          BY <3>4, <5>1, SeqIsSeq
      <4>3. Cardinality(PositionsOf(hs, {h})) = HandledRegs(e.type) /\ HandledRegs(e.type) \in Nat
        BY <1>1, <1>4, <4>2 DEF Bound
      <4> QED
        BY <1>5, <2>1, <3>1, <3>3, <4>1, <4>3
    <3>5. Served(id, Targets(TypeOf(id)))'
      BY <3>1, <3>4 DEF Served, Targets, TypeOf
    <3> QED
      BY <3>1, <3>2, <3>3, <3>5 DEF Dealt
  <2>2. CASE ~(m.kind = "event" /\ m.id = id)
    <3>1. InInbox(id) => InInbox(id)'
      BY <2>2, HandlingKeeps
    <3>2. CASE id # e.id
      <4>1. \A h : PairsInQueue(id, h)' = PairsInQueue(id, h)
        <5>1. \A h : PairsInQueue(id, h)' = PairsInQueue(id, h) + 0 /\ PairsInQueue(id, h) \in Nat
          <6>1. PICK l \in Nat : l = Len(queue)
            BY <1>1, LenProperties DEF Pairs, IsSeq
          <6>2. \A h : {j \in 1 .. l : queue[j].id = id /\ queue[j].hnd = h} \in SUBSET (1 .. l)
            OBVIOUS
          <6>3. \A h : PairsInQueue(id, h) \in Nat
            BY <6>1, <6>2, PositionsFinite DEF PairsInQueue
          <6> QED
            BY <1>5, <3>2, <6>3
        <5> QED
          BY <5>1
      <4>2. Served(id, Targets(TypeOf(id))) => Served(id, Targets(TypeOf(id)))'
        BY <4>1 DEF Served, Targets, TypeOf
      <4> QED
        BY <1>1, <1>9, <3>1, <4>2 DEF Dealt, SameEvents
    <3>3. CASE id = e.id
      <4>1. m.kind = "event"
        <5>1. m \notin Pdus
          BY <1>9, <3>3, KnownIs
        <5>2. PICK n \in Nat : n = Len(inbox) /\ n > 0
          BY <1>1, HandledQueued DEF Types
        <5> QED
          BY <1>1, <5>1, <5>2, MessageIs DEF Handles
      <4> QED
        BY <2>2, <3>3, <4>1
    <3> QED
      BY <3>2, <3>3
  <2> QED
    BY <2>1, <2>2
<1> QED
  BY <1>1, <1>2, <1>7, <1>8, <1>9, HandlingDeals DEF ServedInv

\* Every step of the acceptor keeps the invariant.
LEMMA AcceptorServes ==
    ASSUME ServedInv, AcceptorStep, UNCHANGED <<edgeVars, sampleVars, timerVars>>
    PROVE  ServedInv'
<1>1. PICK m : m = Head(inbox)
  OBVIOUS
<1>2. Handles(m) /\ m.kind \in {"register", "event", "pdu"}
  <2>1. /\ inbox # <<>> /\ inbox' = Tail(inbox) /\ m.kind \in {"register", "event", "pdu"}
    BY <1>1 DEF AcceptorStep, AddHandlers, ScheduleEvent, SchedulePdu, DiscardMessage, Receive
  <2>2. m = inbox[1]
    BY <1>1, <2>1, HeadTailProperties DEF ServedInv, Messages, IsSeq
  <2> QED
    BY <2>1, <2>2 DEF Handles
<1>3. CASE AddHandlers
  BY <1>1, <1>2, <1>3, RegistrationServes
<1>4. ASSUME NEW e, AddEvent(e), e.id = m.id, m.kind # "register",
             m.kind = "event" => e.type = m.type
      PROVE  ServedInv'
  <2>1. CASE e.type \in Registered
    <3>1. /\ \E i \in FindIndex(Search, Times(queue), e.time) :
                queue' = Splice(queue, i, PairsOf(e))
          /\ bindings' = bindings /\ refused' = refused
      BY <1>4, <2>1 DEF AddEvent
    <3>2. PICK i \in FindIndex(Search, Times(queue), e.time) :
             queue' = Splice(queue, i, PairsOf(e))
      BY <3>1
    <3> QED
      BY <1>2, <1>4, <2>1, <3>1, <3>2, AdditionServes
  <2>2. CASE e.type \notin Registered
    <3>1. refused' = refused \cup {m.id} /\ bindings' = bindings /\ queue' = queue
      BY <1>4, <2>2 DEF AddEvent
    <3> QED
      BY <1>2, <1>4, <2>2, <3>1, RefusalServes
  <2> QED
    BY <2>1, <2>2
<1>5. CASE ScheduleEvent
  <2>1. AddEvent(m) /\ m.kind = "event"
    BY <1>1, <1>5 DEF ScheduleEvent, Receive
  <2> QED
    BY <1>4, <2>1
<1>6. CASE SchedulePdu
  <2>1. PICK e : e = EventOf(m)
    OBVIOUS
  <2>2. AddEvent(e) /\ m.kind = "pdu" /\ e.id = m.id
    BY <1>1, <1>6, <2>1 DEF SchedulePdu, Receive, EventOf, Event
  <2> QED
    BY <1>4, <2>2
<1>7. CASE DiscardMessage
  <2>1. m.kind = "pdu" /\ refused' = refused \cup {m.id} /\ bindings' = bindings /\ queue' = queue
    BY <1>1, <1>7 DEF DiscardMessage, Receive
  <2> QED
    BY <1>2, <2>1, RefusalServes
<1> QED
  BY <1>3, <1>5, <1>6, <1>7 DEF AcceptorStep

-----------------------------------------------------------------------------
\* Nothing published, nothing registered.
LEMMA ServedInitially == Init => ServedInv
<1> SUFFICES ASSUME Init PROVE ServedInv
  OBVIOUS
<1>1. /\ inbox = <<>> /\ queue = <<>> /\ bindings = <<>> /\ refused = {}
      /\ e_starts = 0 /\ call = NoCall /\ fired = {}
      /\ s_started = FALSE /\ s_n = 0 /\ ticks = <<>>
      /\ t_main = "new" /\ published = 0 /\ unannounced = 0
  BY DEF Init, EdgeInit, TimersInit, AcceptorInit
<1>2. IsSeq(<<>>) /\ Len(<<>>) = 0 /\ \A k \in 1 .. 0 : FALSE
  <2>1. PICK q : q = <<>>
    OBVIOUS
  <2>2. q \in Seq({}) /\ Len(q) = 0
    BY <2>1
  <2>3. IsSeq(q)
    BY <2>2, SeqIsSeq
  <2> QED
    BY <2>1, <2>2, <2>3
<1>3. Starting /\ Messages /\ Pairs /\ OnlyOnce /\ InOrder /\ AllDealt
  <2>1. Starting
    <3>1. e_starts \in Nat /\ unannounced \in 0 .. published
      BY <1>1
    <3>2. s_started \in BOOLEAN
      BY <1>1
    <3> QED
      BY <1>1, <3>1, <3>2 DEF Starting
  <2>2. Messages /\ Pairs
    BY <1>1, <1>2 DEF Messages, Pairs
  <2>3. OnlyOnce /\ InOrder
    BY <1>1, <1>2 DEF OnlyOnce, InOrder
  <2>4. AllDealt
    BY <1>1, <1>2 DEF AllDealt
  <2> QED
    BY <2>1, <2>2, <2>3, <2>4
<1>4. Bound
  <2>1. Registered = {}
    BY <1>1 DEF Registered
  <2>2. ASSUME NEW type \in Types PROVE HandledRegs(type) = 0
    <3>1. Starts(type) = 0
      BY <1>1 DEF Starts, One
    <3>2. {j \in 1 .. 0 : inbox[j] = Reg(type)} = {}
      OBVIOUS
    <3>3. Queued(type, Len(inbox)) = 0
      BY <1>1, <1>2, <3>2, FS_EmptySet DEF Queued
    <3> QED
      BY <3>1, <3>3 DEF HandledRegs
  <2>3. ASSUME NEW t PROVE Cardinality(PositionsOf(<<>>, {t})) = 0
    <3>1. PositionsOf(<<>>, {t}) = {}
      BY <1>2 DEF PositionsOf
    <3> QED
      BY <3>1, FS_EmptySet
  <2>4. \A type \in Types : HandlersBefore(type) = <<>>
    BY <2>1 DEF HandlersBefore
  <2>5. ASSUME NEW type \in Types
        PROVE  /\ HandledRegs(type) \in Nat
               /\ (type \in Registered <=> HandledRegs(type) > 0)
               /\ IsSeq(HandlersBefore(type))
               /\ \A t \in Range(Targets(type)) :
                     Cardinality(PositionsOf(HandlersBefore(type), {t})) = HandledRegs(type)
    <3>1. HandledRegs(type) = 0 /\ HandlersBefore(type) = <<>>
      BY <2>2, <2>4
    <3>2. HandledRegs(type) \in Nat /\ ~(HandledRegs(type) > 0)
      BY <3>1
    <3> QED
      BY <1>2, <2>1, <2>3, <3>1, <3>2
  <2> QED
    BY <2>1, <2>5 DEF Bound
<1> QED
  BY <1>3, <1>4 DEF ServedInv

\* What the induction needs of the publishers is their own invariants.
PublishersInv == EdgeInv /\ SampleInv /\ TimerInv

\* Every step keeps it.
LEMMA ServedKept == PublishersInv /\ ServedInv /\ [Next]_vars => ServedInv'
<1> SUFFICES ASSUME PublishersInv, ServedInv, [Next]_vars PROVE ServedInv'
  OBVIOUS
<1>1. EdgeInv /\ SampleInv /\ TimerInv
  BY DEF PublishersInv
<1>2. CASE EdgeStep /\ UNCHANGED <<sampleVars, timerVars, acceptorVars>>
  BY <1>1, <1>2, EdgeServes
<1>3. CASE SampleTimerStep /\ UNCHANGED <<edgeVars, timerVars, acceptorVars>>
  BY <1>1, <1>3, SampleServes
<1>4. CASE TimerStep /\ UNCHANGED <<edgeVars, sampleVars, acceptorVars>>
  BY <1>1, <1>4, TimerServes
<1>5. ASSUME NEW m \in Pdus, SendPdu(m), UNCHANGED <<edgeVars, sampleVars, timerVars, acceptorVars>>
      PROVE  ServedInv'
  BY <1>5, PduServes
<1>6. CASE AcceptorStep /\ UNCHANGED <<edgeVars, sampleVars, timerVars>>
  BY <1>6, AcceptorServes
<1>7. CASE UNCHANGED vars
  <2>1. UNCHANGED <<inbox, edgeVars, sampleVars, timerVars, acceptorVars>>
    BY <1>7 DEF vars
  <2>2. Quiet
    <3>1. Starting
      BY DEF ServedInv
    <3> QED
      BY <2>1, <3>1 DEF Quiet, Starting, StartsSame, Starts, edgeVars, edgeHistory, sampleVars, timerVars
  <2> QED
    BY <2>2, QuietServes
<1> QED
  BY <1>2, <1>3, <1>4, <1>5, <1>6, <1>7 DEF Next

\* For every subscribers, PDUs, inputs and ways the steps of the triggers, of other
\* publishers and of the acceptor fall between each other: each event of a trigger is
\* in the acceptor's inbox or has given every subscriber its pairs, except those the
\* Python timer publishes before it registers, which are refused.
THEOREM SubscribersAlwaysServed == Spec => []SubscribersServed
<1>1. Init => PublishersInv
  <2>1. Init => TimerInv
    BY TimersAssumption DEF Init, TimersInit, TimerInv
  <2> QED
    BY <2>1, EdgeInvInitially, SampleInvInitially DEF PublishersInv
<1>2. PublishersInv /\ [Next]_vars => PublishersInv'
  BY EdgeInvKept, SampleInvKept, TimerInvKept DEF PublishersInv
<1>3. PublishersInv /\ ServedInv => SubscribersServed
  <2> SUFFICES ASSUME PublishersInv, ServedInv PROVE SubscribersServed
    OBVIOUS
  <2>1. AllDealt /\ Starting
    BY DEF ServedInv
  <2>2. ASSUME NEW n \in fired
        PROVE  \E s \in 1 .. e_starts :
                  InInbox(<<"edge", n, s>>) \/ Served(<<"edge", n, s>>, EdgeTargets)
    <3>1. PICK s \in 1 .. e_starts : Dealt(<<"edge", n, s>>)
      BY <2>1, <2>2 DEF AllDealt
    <3>2. PICK id : id = <<"edge", n, s>>
      OBVIOUS
    <3>3. id \notin Early /\ id[3] = s /\ id[3] > 0 /\ Targets(TypeOf(id)) = EdgeTargets
      BY <2>1, <3>2 DEF Early, Targets, TypeOf, Starting
    <3>4. InInbox(id) \/ Served(id, EdgeTargets)
      BY <3>1, <3>2, <3>3 DEF Dealt, Before
    <3> QED
      BY <3>2, <3>4
  <2>3. ASSUME NEW k \in 1 .. Len(ticks), NEW id, id = <<"sample", ticks[k], 1>>
        PROVE  InInbox(id) \/ Served(id, SampleTargets)
    <3>1. Dealt(id)
      BY <2>1, <2>3 DEF AllDealt
    <3>2. id \notin Early /\ id[3] > 0 /\ Targets(TypeOf(id)) = SampleTargets
      BY <2>3 DEF Early, Targets, TypeOf
    <3> QED
      BY <3>1, <3>2 DEF Dealt, Before
  <2>4. ASSUME NEW n \in 1 .. published, NEW id, id = <<"timer", n, 1>>
        PROVE  InInbox(id) \/ IF n > unannounced THEN Served(id, TimerTargets) ELSE id \in refused
    <3>1. Dealt(id)
      BY <2>1, <2>4 DEF AllDealt
    <3>2. id[3] > 0 /\ Targets(TypeOf(id)) = TimerTargets
      BY <2>4 DEF Targets, TypeOf
    <3>3. id \in Early <=> ~(n > unannounced)
      <4>1. unannounced \in Nat /\ n \in Nat /\ n > 0
        BY <2>1, <2>4 DEF Starting, PublishersInv, TimerInv
      <4> QED
        BY <2>4, <4>1 DEF Early
    <3> QED
      BY <3>1, <3>2, <3>3 DEF Dealt, Before
  <2> QED
    BY <2>2, <2>3, <2>4 DEF SubscribersServed
<1> QED
  BY <1>1, <1>2, <1>3, ServedInitially, ServedKept, PTL DEF Spec
=============================================================================

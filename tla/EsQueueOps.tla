----------------------------- MODULE EsQueueOps -----------------------------
(***************************************************************************)
(* The pure operations of es_queue (lib/es_queue.cc) on its sequence of    *)
(* event/handler pairs, shared by the components that embed a queue.       *)
(*                                                                         *)
(* A pair is a record with at least the fields time and len; an insertion  *)
(* index is an offset 0..Len(q), as in the C++ code.  Times are uint64:    *)
(* sums and differences of times wrap at TimeMod.                          *)
(***************************************************************************)
EXTENDS Integers, Sequences

CONSTANT TimeMod     \* 2^64 in the code; small in the runs

ASSUME TimeModAssumption == TimeMod \in Nat \ {0}

TimeRange == 0 .. (TimeMod - 1)

SearchBehaviors == {"FORWARD", "REVERSE", "BINARY"}
EarlyBehaviors  == {"DISCARD", "BALK", "ASAP", "RNDF"}

-----------------------------------------------------------------------------
(* Arithmetic on uint64 times.                                             *)

Wrapped(t) == IF t < TimeMod THEN t ELSE t - TimeMod

EndTime(p) == Wrapped(p.time + p.len)

\* t - m as the code computes it: a t before m gives a huge number.
Since(t, m) == IF t >= m THEN t - m ELSE (t - m) + TimeMod

-----------------------------------------------------------------------------
(* Where a time is inserted.  Each search is given by the condition its    *)
(* loop stops on; lower_bound promises nothing about an unsorted vector.   *)

IsAscending(ts) == \A i, j \in 1 .. Len(ts) : i < j => ts[i] <= ts[j]

Times(q) == [i \in 1 .. Len(q) |-> q[i].time]

ForwardIndex(ts, t) ==
    {i \in 0 .. Len(ts) : /\ \A j \in 1 .. i : ts[j] < t
                          /\ i < Len(ts) => ts[i + 1] >= t}

ReverseIndexMutant(ts, t) ==      \* idx for idx + 1
    {i \in 0 .. Len(ts) : /\ \A j \in (i + 2) .. Len(ts) : ts[j] > t
                          /\ i < Len(ts) => ts[i + 1] <= t}

ReverseIndex(ts, t) ==
    {i \in 0 .. Len(ts) : /\ \A j \in (i + 1) .. Len(ts) : ts[j] > t
                          /\ i > 0 => ts[i] <= t}

BinaryIndex(ts, t) ==
    IF IsAscending(ts) THEN ForwardIndex(ts, t) ELSE 0 .. Len(ts)

FindIndex(search, ts, t) ==
    CASE search = "BINARY"  -> BinaryIndex(ts, t)
      [] search = "REVERSE" -> ReverseIndex(ts, t)
      [] OTHER              -> ForwardIndex(ts, t)

SpliceOver(q, i, s) == SubSeq(q, 1, i) \o s \o SubSeq(q, i + 2, Len(q))

\* vector::insert of the elements of s, in their order, at offset i.
Splice(q, i, s) == SubSeq(q, 1, i) \o s \o SubSeq(q, i + 1, Len(q))

-----------------------------------------------------------------------------
(* fetch_next_event.                                                       *)

HeadIsEarlyMutant(q, min) == q # <<>> /\ q[1].time <= min

\* The head is due before the first sample still in the buffer.
HeadIsEarly(q, min) == q # <<>> /\ q[1].time < min

\* ASAP: the head alone is moved to the start of the buffer.
AsSoonAsPossible(q, min) == [q EXCEPT ![1].time = min]

\* The position of the first pair that ends before max, if there is one.
FirstFit(q, max) ==
    {i \in 1 .. Len(q) : /\ EndTime(q[i]) < max
                         /\ \A j \in 1 .. (i - 1) : EndTime(q[j]) >= max}
=============================================================================

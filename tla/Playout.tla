------------------------------- MODULE Playout -------------------------------
(***************************************************************************)
(* What es_source promises, whatever its threads do: the output stream is  *)
(* the merge of the events placed on it.  An event is placed once, whole,  *)
(* at or after the end of the stream so far, and at the time it asks for   *)
(* unless that time has passed; only an event whose time has passed is     *)
(* given up.  Nothing already in the stream changes.                       *)
(***************************************************************************)
EXTENDS Integers, Sequences

CONSTANTS
    Ids,       \* the things played: event/handler pairs
    TimesAsked,   \* the times they may ask for
    LensAsked,    \* the lengths they may have
    None

VARIABLES
    late,      \* what becomes of an event that is late: "lost", "moved"
    merge,     \* overlapping events: "MEMCPY" keeps one, "ADD" all of them
    sched,     \* the time and length of each id, once it is scheduled
    start,     \* where it is placed
    gone,      \* ids given up
    out        \* the stream: for each sample, the event samples merged into it

vars == <<late, merge, sched, start, gone, out>>

Now == Len(out)

\* The event samples that belong at position j of the stream, counted from 0.
Due(j) ==
    LET here == {x \in Ids : /\ start[x] # None
                             /\ start[x] <= j /\ j < start[x] + sched[x].len}
    IN  {<<x, j - start[x]>> : x \in here}

Merged(S, cell) ==
    \/ merge = "ADD" /\ cell = S
    \/ merge = "MEMCPY" /\ S = {} /\ cell = {}
    \/ merge = "MEMCPY" /\ \E y \in S : cell = {y}

Init ==
    /\ late \in {"lost", "moved"} /\ merge \in {"MEMCPY", "ADD"}
    /\ sched = [x \in Ids |-> None] /\ start = [x \in Ids |-> None]
    /\ gone = {} /\ out = <<>>

Schedule(x, t, n) ==
    /\ sched[x] = None
    /\ sched' = [sched EXCEPT ![x] = [time |-> t, len |-> n]]
    /\ UNCHANGED <<late, merge, start, gone, out>>

Waits(x) == sched[x] # None /\ start[x] = None /\ x \notin gone

Place(x) ==
    /\ Waits(x)
    /\ start'[x] # None /\ start'[x] >= Now
    /\ start' = [start EXCEPT ![x] = start'[x]]
    /\ \/ start'[x] = sched[x].time
       \/ late = "moved" /\ sched[x].time < Now
    /\ UNCHANGED <<late, merge, sched, gone, out>>

GiveUp(x) ==
    /\ Waits(x) /\ sched[x].time < Now /\ late = "lost"
    /\ gone' = gone \cup {x}
    /\ UNCHANGED <<late, merge, sched, start, out>>

Emit ==
    /\ Len(out') >= Len(out)
    /\ \A j \in 1 .. Len(out') :
          IF j <= Len(out) THEN out'[j] = out[j] ELSE Merged(Due(j - 1), out'[j])
    /\ UNCHANGED <<late, merge, sched, start, gone>>

Next == \/ \E x \in Ids, t \in TimesAsked, n \in LensAsked : Schedule(x, t, n)
        \/ \E x \in Ids : Place(x) \/ GiveUp(x)
        \/ Emit

Spec == Init /\ [][Next]_vars
=============================================================================

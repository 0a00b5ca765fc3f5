--------------------------- MODULE EsTriggerEdge ---------------------------
(***************************************************************************)
(* The trigger es_trigger_edge_f (lib/es_trigger_edge_f.cc), which         *)
(* publishes an event when its input rises through a threshold, with the   *)
(* start() of its base class (include/es/es_trigger.h).                    *)
(*                                                                         *)
(* The input is one fixed sequence, cut into calls of work() at will; its  *)
(* samples and their positions are numbered from 0.                        *)
(***************************************************************************)
EXTENDS EsMessages

CONSTANTS
    Signals,       \* the inputs explored
    Thresholds,    \* the values of d_thresh explored
    EdgeLength,    \* d_length
    Lookback,      \* d_lookback
    Guard,         \* d_guard
    EdgeTargets,   \* the handlers that subscribe to port edge_event
    MaxStarts      \* bound: times the flowgraph is started

ASSUME EdgeAssumption ==
    /\ Lookback \in Nat /\ Guard \in Nat /\ EdgeLength \in Nat
    /\ MaxStarts \in Nat
    /\ Thresholds \subseteq Int
    /\ Signals \subseteq Seq(Int)

VARIABLES
    signal,          \* the input
    d_thresh,
    e_time,          \* d_time: samples consumed
    d_lastval,       \* the sample before (0 stands for its initial garbage)
    d_lasttrigger,   \* time of the last event
    call,            \* the current call of work(), or none
    e_starts         \* times start() was called

\* What the trigger has done (not state of the program).
VARIABLES
    overAt,          \* the threshold each sample was found to be over, or not
    underAt,         \* the threshold the sample before it was compared with
    fired            \* the positions of the samples that triggered an event

edgeHistory == <<overAt, underAt, fired>>
edgeVars == <<signal, d_thresh, e_time, d_lastval, d_lasttrigger, call, e_starts,
              edgeHistory>>

\* i of n samples are done; over: the next one is over the threshold, and the sample
\* before it is still to be compared.
Call(i, n, over) == [i |-> i, n |-> n, over |-> over]
NoCall == Call(0, 0, FALSE)

EdgeInit ==
    /\ signal \in Signals /\ d_thresh \in Thresholds
    /\ e_time = 0 /\ d_lastval = 0 /\ d_lasttrigger = 0
    /\ call = NoCall /\ e_starts = 0
    /\ overAt = <<>> /\ underAt = <<>> /\ fired = {}

-----------------------------------------------------------------------------
\* start() publishes the registration of the trigger's event type.
EdgeStart ==
    /\ call = NoCall /\ e_starts < MaxStarts
    /\ Publish(Registration("edge_event", EdgeTargets))
    /\ e_starts' = e_starts + 1
    /\ UNCHANGED <<signal, d_thresh, e_time, d_lastval, d_lasttrigger, call,
                   edgeHistory>>

SetThresh(t) ==
    /\ t # d_thresh
    /\ d_thresh' = t
    /\ UNCHANGED <<inbox, signal, e_time, d_lastval, d_lasttrigger, call, e_starts,
                   edgeHistory>>

EdgeWorkForgetful(n) ==      \* d_lastval is set by every call
    /\ call = NoCall /\ e_starts > 0
    /\ n > 0 /\ e_time + n <= Len(signal)
    /\ call' = Call(0, n, FALSE)
    /\ d_lastval' = signal[e_time + 1]
    /\ UNCHANGED <<inbox, signal, d_thresh, e_time, d_lasttrigger, e_starts,
                   edgeHistory>>

\* work() is called with n samples.
EdgeWork(n) ==
    /\ call = NoCall /\ e_starts > 0
    /\ n > 0 /\ e_time + n <= Len(signal)
    /\ call' = Call(0, n, FALSE)
    /\ d_lastval' = IF e_time = 0 THEN signal[1] ELSE d_lastval
    /\ UNCHANGED <<inbox, signal, d_thresh, e_time, d_lasttrigger, e_starts,
                   edgeHistory>>

\* The time of the event a trigger at position n causes.
EdgeTime(n) == IF n > Lookback THEN n - Lookback ELSE 0

SpacedOff(n) == d_lasttrigger = 0 \/ d_lasttrigger + Guard <= n + 1    \* off by one

\* The last event is far enough back; time 0 stands for no event so far.
Spaced(n) == d_lasttrigger = 0 \/ d_lasttrigger + Guard <= n

\* The comparison of a sample reads d_thresh twice without a lock, and set_thresh()
\* may come in between.  (A build that keeps the first read in a register behaves as
\* if set_thresh() came later.)  The first read: is the sample over the threshold?
EdgeSample ==
    /\ call.i < call.n /\ ~call.over
    /\ LET v == signal[e_time + call.i + 1]
       IN  IF v > d_thresh
           THEN /\ call' = [call EXCEPT !.over = TRUE]
                /\ UNCHANGED <<d_lastval, underAt>>
           ELSE /\ call' = [call EXCEPT !.i = @ + 1]
                /\ d_lastval' = v
                /\ underAt' = Append(underAt, d_thresh)
    /\ overAt' = Append(overAt, d_thresh)
    /\ UNCHANGED <<inbox, signal, d_thresh, e_time, d_lasttrigger, e_starts, fired>>

\* The second read: was the sample before under it?
EdgeTrigger ==
    /\ call.over
    /\ LET n == e_time + call.i
       IN  /\ IF d_lastval < d_thresh /\ Spaced(n)
              THEN /\ Publish(Event(<<"edge", n, e_starts>>, "edge_event",
                                    EdgeTime(n), EdgeLength))
                   /\ d_lasttrigger' = EdgeTime(n)
                   /\ fired' = fired \cup {n}
              ELSE UNCHANGED <<inbox, d_lasttrigger, fired>>
           /\ d_lastval' = signal[n + 1]
    /\ underAt' = Append(underAt, d_thresh)
    /\ call' = Call(call.i + 1, call.n, FALSE)
    /\ UNCHANGED <<signal, d_thresh, e_time, e_starts, overAt>>

EdgeReturn ==
    /\ call # NoCall /\ call.i = call.n
    /\ e_time' = e_time + call.n
    /\ call' = NoCall
    /\ UNCHANGED <<inbox, signal, d_thresh, d_lastval, d_lasttrigger, e_starts,
                   edgeHistory>>

EdgeStep == \/ EdgeStart \/ EdgeSample \/ EdgeTrigger \/ EdgeReturn
            \/ \E t \in Thresholds : SetThresh(t)
            \/ \E n \in 1 .. Len(signal) : EdgeWork(n)

-----------------------------------------------------------------------------
(* Properties.                                                             *)

\* Samples over the threshold after a sample under it, each as it was compared: with a
\* threshold that does not move, where the input rises through it.
Rises == {n \in 0 .. (Len(underAt) - 1) :
             /\ overAt[n + 1] < signal[n + 1]
             /\ signal[IF n = 0 THEN 1 ELSE n] < underAt[n + 1]}

\* However the input is cut into calls, and whenever the threshold moves: only rises
\* trigger, and a rise that is Guard samples after every trigger before it does.
RisesTrigger ==
    /\ fired \subseteq Rises
    /\ \A n \in Rises : (\A f \in fired : f < n => n - f >= Guard) => n \in fired

\* The distance Guard is kept from the beginning of an event, which is Lookback before
\* its trigger (unless that is cut off at the beginning of the stream): what is left of
\* MinimumDistance, over any number of triggers.
TriggersApart ==
    \A f, g \in fired : f < g /\ f > Lookback => g - f >= Guard - Lookback

\* What the parameter is documented as: the "Minimum Trigger Distance (samples)"
\* (grc/es_trigger_edge_f.xml).
MinimumDistance == \A f, g \in fired : f < g => g - f >= Guard
=============================================================================

------------------------------- MODULE EsSink -------------------------------
(***************************************************************************)
(* The sink block es_sink (lib/es_sink.cc) with the event queue it owns    *)
(* (lib/es_queue.cc) and its pool of handler threads                       *)
(* (lib/es_event_loop_thread.cc).                                          *)
(*                                                                         *)
(* One thread of the flowgraph runs the block: it handles event messages   *)
(* between calls of work(), and work() moves every event whose samples are *)
(* in the input buffer, with a copy of them, from the event queue to the   *)
(* lock-free queue qq.  Each handler thread sleeps on the condition        *)
(* qq_cond, runs what it pops from qq and posts the event's time to the    *)
(* lock-free queue dq, from which work() retires the times of live events. *)
(* Samples are consumed only as far as no queued or live event needs them. *)
(*                                                                         *)
(* Samples are numbered from 0; the input buffer holds the last            *)
(* History - 1 consumed samples and everything produced since.             *)
(***************************************************************************)
EXTENDS EsQueueOps, FiniteSets, SequencesExt

CONSTANTS
    Events,      \* identities of the events that may be scheduled
    Handlers,    \* identities of the bound handlers
    HandlersOf,  \* the handlers bound to each event's type, in binding order;
                 \* a handler bound twice has two identities
    EventTimes,  \* the times events carry
    EventLens,   \* the lengths events carry
    NThreads,    \* n_threads
    History,     \* d_history
    IntMod,      \* 2^32: int is this wide
    QCap,        \* bound on qq at which push reports failure
    StreamLen,   \* bound: samples upstream ever produces
    MaxIn,       \* bound: samples the input buffer offers to one work call
    Options,     \* the configurations explored (see OptionSpace)
    NoPair

OptionSpace ==
    [early      : EarlyBehaviors,      \* d_early_behavior
     search     : SearchBehaviors,     \* d_search_behavior
     congestion : {"BLOCK", "DROP"},   \* d_congestion_behavior
     direct     : BOOLEAN,   \* other threads call event_queue->add_event
     eof        : BOOLEAN]   \* the last sample carries the file_end tag

Workers == 1 .. NThreads

ASSUME SinkAssumption ==
    /\ HandlersOf \in [Events -> Seq(Handlers)]
    /\ \A e \in Events : IsInjective(HandlersOf[e])
    /\ EventTimes \subseteq TimeRange
    /\ EventLens \subseteq TimeRange
    /\ NThreads \in Nat \ {0}
    /\ History \in Nat \ {0}
    /\ QCap \in Nat \ {0}
    /\ StreamLen \in Nat /\ StreamLen < TimeMod
    /\ MaxIn \in Nat \ {0}
    /\ IntMod \in Nat /\ 2 * (History + MaxIn) <= IntMod
    /\ Options \subseteq OptionSpace

ASSUME NamesAssumption ==
    /\ NoPair \notin [evt : Events, hnd : Handlers, time : TimeRange,
                      len : TimeRange, from : Int]
    /\ "free" \notin Events /\ "sink" \notin Events

VARIABLES
    opt,        \* the configuration of this instance
    queue,      \* event_queue->event_queue
    lock,       \* event_queue->queue_lock: "free", "sink" or the event being added
    pc,         \* where the block's thread is
    produced,   \* samples upstream has written
    d_time,     \* samples consumed
    nconsume,   \* result of the current work call
    hold,       \* eh, the pair work() has in hand
    qq, dq,     \* the lock-free queues to and from the handler threads
    live,       \* live_event_times
    d_nevents,  \* events given to the handler threads and not yet finished
    wpc, eh,    \* where each handler thread is, and the pair it holds
    finished,   \* handler threads told to stop (flag set and interrupted)
    joining     \* the handler thread stop() is at

\* What has become of the events so far (not state of the program).
VARIABLES
    added,      \* events added to the queue
    late,       \* those that came after their first sample had left the buffer
    discarded, dropped, handled   \* <<event, handler>> pairs

streamVars == <<produced, d_time, nconsume>>
blockVars  == <<pc, hold, live, joining>>
queueVars  == <<queue, lock, added, late, discarded>>
poolVars   == <<qq, dq, d_nevents, wpc, eh, finished, handled, dropped>>
vars == <<opt, streamVars, blockVars, queueVars, poolVars>>

Pair     == [evt : Events, hnd : Handlers, time : TimeRange, len : TimeRange]
Captured == [evt : Events, hnd : Handlers, time : TimeRange, len : TimeRange,
             from : Int]
PairIds  == Events \X Handlers
IdOf(p)  == <<p.evt, p.hnd>>

-----------------------------------------------------------------------------
(* Sample arithmetic of work().                                            *)

MinTimeMutant(d) == IF History > d THEN 0 ELSE d - History

\* First sample of the buffer when d samples are consumed (min_time).
MinTime(d) == IF History > d THEN 0 ELSE (d - History) + 1

\* The conversion to int of a 64-bit value.
AsInt(v) == LET half == IntMod \div 2
            IN IF v \in 0 .. (half - 1) THEN v ELSE ((v + half) % IntMod) - half

\* buffer_offset: negative offsets are reported and replaced by 0.
BufferOffset(t) ==
    LET o == AsInt(((t - d_time) + History) - 1) IN IF o < 0 THEN 0 ELSE o

\* The pair with the samples work() copies for it, named by their first one.
Capture(p) == [evt |-> p.evt, hnd |-> p.hnd, time |-> p.time, len |-> p.len,
               from |-> ((d_time - History) + 1) + BufferOffset(p.time)]

NOutput == produced - d_time      \* noutput_items of the current call

Least(a, b) == IF a < b THEN a ELSE b

ConsumableUncapped ==
    LET min  == MinTime(d_time)
        room(ts) == IF ts = <<>> THEN NOutput ELSE Since(ts[1], min)
    IN  IF live # <<>> THEN room(live) ELSE Least(NOutput, room(Times(queue)))

ConsumablePastQueue ==
    LET min  == MinTime(d_time)
        room(ts) == IF ts = <<>> THEN NOutput ELSE Since(ts[1], min)
    IN  Least(NOutput, room(live))

\* Items work() may consume given the head of the queue and of live.
Consumable ==
    LET min  == MinTime(d_time)
        room(ts) == IF ts = <<>> THEN NOutput ELSE Since(ts[1], min)
    IN  Least(NOutput, Least(room(live), room(Times(queue))))

\* First sample of the buffer at the next fetch.
WindowStart ==
    IF pc \in {"wait", "return"} THEN MinTime(d_time + nconsume)
                                 ELSE MinTime(d_time)

-----------------------------------------------------------------------------
Init ==
    /\ opt \in Options
    /\ queue = <<>> /\ lock = "free"
    /\ pc = "idle" /\ hold = NoPair /\ live = <<>> /\ joining = 1
    /\ produced = 0 /\ d_time = 0 /\ nconsume = 0
    /\ qq = <<>> /\ dq = <<>> /\ d_nevents = 0
    /\ wpc = [w \in Workers |-> "check"]
    /\ eh = [w \in Workers |-> NoPair]
    /\ finished = {}
    /\ added = {} /\ late = {}
    /\ discarded = {} /\ dropped = {} /\ handled = {}

-----------------------------------------------------------------------------
(* Upstream writes samples between calls of work().                        *)

Produce(n) ==
    /\ pc = "idle"
    /\ produced + n <= StreamLen
    /\ (produced + n) - d_time <= MaxIn
    /\ produced' = produced + n
    /\ UNCHANGED <<opt, d_time, nconsume, blockVars, queueVars, poolVars>>

-----------------------------------------------------------------------------
(* es_queue::add_event.  Every handler's pair goes in at the same index,   *)
(* so the pairs of one event end up in reverse binding order.              *)

NewPairs(e, t, n) ==
    LET hs == HandlersOf[e]
    IN  [k \in 1 .. Len(hs) |->
            [evt |-> e, hnd |-> hs[(Len(hs) + 1) - k], time |-> t, len |-> n]]

Insert(e, t, n) ==
    /\ \E i \in FindIndex(opt.search, Times(queue), t) :
          queue' = Splice(queue, i, NewPairs(e, t, n))
    /\ added' = added \cup {e}
    /\ late' = IF t < WindowStart THEN late \cup {e} ELSE late

\* A message on port schedule_event: the block's own thread adds the event.
AddByMessage(e, t, n) ==
    /\ pc = "idle" /\ lock = "free" /\ ~opt.direct
    /\ e \notin added
    /\ Insert(e, t, n)
    /\ UNCHANGED <<opt, lock, discarded, streamVars, blockVars, poolVars>>

\* Another thread calls add_event on the queue: it locks, then inserts.
CallerLocks(e) ==
    /\ opt.direct /\ lock = "free"
    /\ e \notin added
    /\ lock' = e
    /\ UNCHANGED <<opt, queue, added, late, discarded, streamVars, blockVars,
                   poolVars>>

CallerAdds(e, t, n) ==
    /\ lock = e
    /\ Insert(e, t, n)
    /\ lock' = "free"
    /\ UNCHANGED <<opt, discarded, streamVars, blockVars, poolVars>>

-----------------------------------------------------------------------------
(* es_sink::work                                                           *)

RetireAll(s, t) == SelectSeq(s, LAMBDA x : x # t)   \* the break forgotten

Retire(s, t) ==     \* the first element t of s is erased, if there is one
    LET at == {i \in 1 .. Len(s) : s[i] = t /\ \A j \in 1 .. (i - 1) : s[j] # t}
    IN  IF at = {} THEN s ELSE RemoveAt(s, CHOOSE i \in at : TRUE)

\* work() starts by retiring the live times posted by the handler threads.
WorkBegin ==
    /\ pc = "idle" /\ NOutput > 0
    /\ pc' = "retire"
    /\ UNCHANGED <<opt, streamVars, hold, live, joining, queueVars, poolVars>>

RetireOne ==
    /\ pc = "retire" /\ dq # <<>>
    /\ live' = Retire(live, Head(dq))
    /\ dq' = Tail(dq)
    /\ UNCHANGED <<opt, streamVars, pc, hold, joining, queueVars, qq, d_nevents,
                   wpc, eh, finished, handled, dropped>>

RetireNone ==
    /\ pc = "retire" /\ dq = <<>>
    /\ pc' = "fetch"
    /\ UNCHANGED <<opt, streamVars, hold, live, joining, queueVars, poolVars>>

\* fetch_next_event, head too early.  DISCARD drops it and looks again.
FetchDiscard ==
    /\ pc = "fetch" /\ lock = "free"
    /\ HeadIsEarly(queue, MinTime(d_time)) /\ opt.early = "DISCARD"
    /\ discarded' = discarded \cup {IdOf(queue[1])}
    /\ queue' = Tail(queue)
    /\ UNCHANGED <<opt, streamVars, blockVars, lock, added, late, poolVars>>

\* BALK prints the queue, which locks the mutex this thread already holds:
\* the exception that should follow is never thrown.
FetchBalk ==
    /\ pc = "fetch" /\ lock = "free"
    /\ HeadIsEarly(queue, MinTime(d_time)) /\ opt.early = "BALK"
    /\ lock' = "sink"
    /\ pc' = "relock"
    /\ UNCHANGED <<opt, streamVars, hold, live, joining, queue, added, late,
                   discarded, poolVars>>

\* The queue fetch_next_event searches: ASAP has moved an early head, RNDF
\* is not handled here and leaves it where it is.
Searched ==
    IF HeadIsEarly(queue, MinTime(d_time)) /\ opt.early = "ASAP"
    THEN AsSoonAsPossible(queue, MinTime(d_time)) ELSE queue

SearchAllowed ==
    /\ pc = "fetch" /\ lock = "free"
    /\ HeadIsEarly(queue, MinTime(d_time)) => opt.early \in {"ASAP", "RNDF"}

\* The first pair that ends inside the buffer is taken, and its samples copied.
FetchTake ==
    /\ SearchAllowed
    /\ \E i \in FirstFit(Searched, produced) :
          /\ hold' = Capture(Searched[i])
          /\ queue' = RemoveAt(Searched, i)
    /\ d_nevents' = d_nevents + 1
    /\ pc' = "push"
    /\ UNCHANGED <<opt, streamVars, live, joining, lock, added, late, discarded,
                   qq, dq, wpc, eh, finished, handled, dropped>>

FetchNone ==
    /\ SearchAllowed
    /\ FirstFit(Searched, produced) = {}
    /\ queue' = Searched
    /\ pc' = "consume"
    /\ UNCHANGED <<opt, streamVars, hold, live, joining, lock, added, late,
                   discarded, poolVars>>

\* qq.push; under BLOCK a failed push is retried until it succeeds.
Push ==
    /\ pc = "push" /\ Len(qq) < QCap
    /\ qq' = Append(qq, hold)
    /\ pc' = "record"
    /\ UNCHANGED <<opt, streamVars, hold, live, joining, queueVars, dq,
                   d_nevents, wpc, eh, finished, handled, dropped>>

DropUncounted ==
    /\ pc = "push" /\ Len(qq) >= QCap /\ opt.congestion = "DROP"
    /\ dropped' = dropped \cup {IdOf(hold)}
    /\ pc' = "record"
    /\ UNCHANGED <<opt, streamVars, hold, live, joining, queueVars, qq, dq,
                   d_nevents, wpc, eh, finished, handled>>

\* Under DROP the pair is deleted, and work() goes on as if it was pushed.
Drop ==
    /\ pc = "push" /\ Len(qq) >= QCap /\ opt.congestion = "DROP"
    /\ d_nevents' = d_nevents - 1
    /\ dropped' = dropped \cup {IdOf(hold)}
    /\ pc' = "record"
    /\ UNCHANGED <<opt, streamVars, hold, live, joining, queueVars, qq, dq,
                   wpc, eh, finished, handled>>

Waiting == {w \in Workers : wpc[w] = "waiting"}

NotifyOne ==
    IF Waiting = {} THEN UNCHANGED wpc
    ELSE \E w \in Waiting : wpc' = [wpc EXCEPT ![w] = "pop"]

NotifyAll ==
    wpc' = [w \in Workers |-> IF w \in Waiting THEN "pop" ELSE wpc[w]]

\* es_sink::find_index, the searches of es_queue on the live times.
LiveIndex(time) == FindIndex(opt.search, live, time)

\* The event's time joins the ordered list of live times; a thread is woken.
Record ==
    /\ pc = "record"
    /\ \E i \in LiveIndex(hold.time) :
          live' = Splice(live, i, <<hold.time>>)
    /\ hold' = NoPair
    /\ NotifyOne
    /\ pc' = "fetch"
    /\ UNCHANGED <<opt, streamVars, joining, queueVars, qq, dq, d_nevents, eh,
                   finished, handled, dropped>>

\* empty() and min_time() read the queue without its lock: while another
\* thread is inserting, what they return is undefined.
ConsumeChoices ==
    IF lock \in Events THEN 0 .. NOutput ELSE {Consumable}

ConsumeSilently ==
    /\ pc = "consume"
    /\ nconsume' \in ConsumeChoices
    /\ pc' = IF opt.eof /\ produced = StreamLen THEN "wait" ELSE "return"
    /\ UNCHANGED <<opt, produced, d_time, hold, live, joining, queueVars, poolVars>>

Consume ==
    /\ pc = "consume"
    /\ nconsume' \in ConsumeChoices
    /\ IF nconsume' # NOutput THEN NotifyOne ELSE UNCHANGED wpc
    /\ pc' = IF opt.eof /\ produced = StreamLen THEN "wait" ELSE "return"
    /\ UNCHANGED <<opt, produced, d_time, hold, live, joining, queueVars, qq, dq,
                   d_nevents, eh, finished, handled, dropped>>

\* wait_events, called at the end of a file and by stop().
WaitNotify ==
    /\ pc \in {"wait", "draining"} /\ d_nevents > 0
    /\ NotifyAll
    /\ UNCHANGED <<opt, streamVars, blockVars, queueVars, qq, dq, d_nevents, eh,
                   finished, handled, dropped>>

WaitDoneEarly ==
    /\ pc \in {"wait", "draining"} /\ d_nevents <= 1
    /\ pc' = IF pc = "wait" THEN "return" ELSE "stop"
    /\ UNCHANGED <<opt, streamVars, hold, live, joining, queueVars, poolVars>>

WaitDone ==
    /\ pc \in {"wait", "draining"} /\ d_nevents <= 0
    /\ pc' = IF pc = "wait" THEN "return" ELSE "stop"
    /\ UNCHANGED <<opt, streamVars, hold, live, joining, queueVars, poolVars>>

Return ==
    /\ pc = "return"
    /\ d_time' = d_time + nconsume
    /\ nconsume' = 0
    /\ pc' = "idle"
    /\ UNCHANGED <<opt, produced, hold, live, joining, queueVars, poolVars>>

-----------------------------------------------------------------------------
(* es_sink::stop, called on the block's thread once work() is no longer.   *)

BeginStop ==
    /\ pc = "idle"
    /\ pc' = "draining"
    /\ UNCHANGED <<opt, streamVars, hold, live, joining, queueVars, poolVars>>

StreamEnds == d_time = StreamLen /\ BeginStop   \* the scheduler's decision
UserStops  == d_time < StreamLen /\ BeginStop   \* tb.stop()

\* finished = true, notify_all, interrupt.
StopThread ==
    /\ pc = "stop"
    /\ finished' = finished \cup {joining}
    /\ NotifyAll
    /\ pc' = "join"
    /\ UNCHANGED <<opt, streamVars, hold, live, joining, queueVars, qq, dq,
                   d_nevents, eh, handled, dropped>>

Joined ==
    /\ pc = "join" /\ wpc[joining] = "exited"
    /\ joining' = joining + 1
    /\ pc' = IF joining = NThreads THEN "stopped" ELSE "stop"
    /\ UNCHANGED <<opt, streamVars, hold, live, queueVars, poolVars>>

-----------------------------------------------------------------------------
(* es_event_loop_thread::do_work of thread w.                              *)

Goto(w, from, to) == wpc[w] = from /\ wpc' = [wpc EXCEPT ![w] = to]

Check(w) ==      \* while(!finished)
    /\ Goto(w, "check", IF w \in finished THEN "exited" ELSE "enter")
    /\ UNCHANGED <<opt, streamVars, blockVars, queueVars, qq, dq, d_nevents, eh,
                   finished, handled, dropped>>

EnterWaitUninterrupted(w) ==
    /\ Goto(w, "enter", "waiting")
    /\ UNCHANGED <<opt, streamVars, blockVars, queueVars, qq, dq, d_nevents, eh,
                   finished, handled, dropped>>

\* qq_cond->wait, an interruption point.
EnterWait(w) ==
    /\ Goto(w, "enter", IF w \in finished THEN "exited" ELSE "waiting")
    /\ UNCHANGED <<opt, streamVars, blockVars, queueVars, qq, dq, d_nevents, eh,
                   finished, handled, dropped>>

SpuriousWake(w) ==
    /\ Goto(w, "waiting", "pop")
    /\ UNCHANGED <<opt, streamVars, blockVars, queueVars, qq, dq, d_nevents, eh,
                   finished, handled, dropped>>

Pop(w) ==
    /\ qq # <<>>
    /\ Goto(w, "pop", "run")
    /\ eh' = [eh EXCEPT ![w] = Head(qq)]
    /\ qq' = Tail(qq)
    /\ UNCHANGED <<opt, streamVars, blockVars, queueVars, dq, d_nevents,
                   finished, handled, dropped>>

PopNothing(w) ==
    /\ qq = <<>>
    /\ Goto(w, "pop", "check")
    /\ UNCHANGED <<opt, streamVars, blockVars, queueVars, qq, dq, d_nevents, eh,
                   finished, handled, dropped>>

Run(w) ==        \* eh->run()
    /\ Goto(w, "run", "post")
    /\ handled' = handled \cup {IdOf(eh[w])}
    /\ UNCHANGED <<opt, streamVars, blockVars, queueVars, qq, dq, d_nevents, eh,
                   finished, dropped>>

PostTime(w) ==   \* dq->push(eh->time())
    /\ Goto(w, "post", "decrement")
    /\ dq' = Append(dq, eh[w].time)
    /\ UNCHANGED <<opt, streamVars, blockVars, queueVars, qq, d_nevents, eh,
                   finished, handled, dropped>>

Decrement(w) ==  \* (*d_nevents)--, delete eh
    /\ Goto(w, "decrement", "pop")
    /\ d_nevents' = d_nevents - 1
    /\ eh' = [eh EXCEPT ![w] = NoPair]
    /\ UNCHANGED <<opt, streamVars, blockVars, queueVars, qq, dq,
                   finished, handled, dropped>>

-----------------------------------------------------------------------------
AddEvent == \E e \in Events, t \in EventTimes, n \in EventLens :
                AddByMessage(e, t, n) \/ CallerAdds(e, t, n)

\* The steps of the block's thread inside work() and stop().
WorkStep == \/ WorkBegin \/ RetireOne \/ RetireNone
            \/ FetchDiscard \/ FetchBalk \/ FetchTake \/ FetchNone
            \/ Push \/ Drop \/ Record
            \/ Consume \/ WaitNotify \/ WaitDone \/ Return
            \/ StreamEnds \/ StopThread \/ Joined

WorkerStep(w) == \/ Check(w) \/ EnterWait(w)
                 \/ Pop(w) \/ PopNothing(w) \/ Run(w) \/ PostTime(w) \/ Decrement(w)

Next == \/ \E n \in 1 .. MaxIn : Produce(n)
        \/ AddEvent
        \/ \E e \in Events : CallerLocks(e)
        \/ WorkStep
        \/ UserStops
        \/ \E w \in Workers : WorkerStep(w) \/ SpuriousWake(w)

Spec == Init /\ [][Next]_vars

\* The scheduler and the threads keep running; a thread that holds the queue
\* lock inserts and unlocks.  Upstream writes at any moment and is seen only
\* between calls of work(), so its fairness is strong.  Nothing obliges anyone
\* to schedule an event, to stop the flowgraph early or to wake spuriously.
Fairness ==
    /\ SF_vars(\E n \in 1 .. MaxIn : Produce(n))
    /\ WF_vars(WorkStep)
    /\ WF_vars(\E e \in Events, t \in EventTimes, n \in EventLens :
                   CallerAdds(e, t, n))
    /\ \A w \in Workers : WF_vars(WorkerStep(w))

FairSpec == Spec /\ Fairness

-----------------------------------------------------------------------------
(* Properties.                                                             *)

\* Every variable has its type; work() has a pair in hand when it needs one, and
\* a thread exactly while it serves one.
TypeOK ==
    /\ opt \in Options
    /\ queue \in Seq(Pair)
    /\ lock \in {"free", "sink"} \cup Events
    /\ pc \in {"idle", "retire", "fetch", "relock", "push", "record", "consume",
              "wait", "return", "draining", "stop", "join", "stopped"}
    /\ produced \in 0 .. StreamLen
    /\ d_time \in 0 .. produced
    /\ NOutput <= MaxIn
    /\ nconsume \in 0 .. NOutput
    /\ hold \in Captured \cup {NoPair}
    /\ pc \in {"push", "record"} => hold # NoPair
    /\ qq \in Seq(Captured)
    /\ dq \in Seq(TimeRange)
    /\ live \in Seq(TimeRange)
    /\ d_nevents \in Int
    /\ wpc \in [Workers -> {"check", "enter", "waiting", "pop", "run", "post",
                            "decrement", "exited"}]
    /\ eh \in [Workers -> Captured \cup {NoPair}]
    /\ \A w \in Workers :
          wpc[w] \in {"run", "post", "decrement"} <=> eh[w] # NoPair
    /\ finished \subseteq Workers
    /\ joining \in 1 .. (NThreads + 1)
    /\ pc # "stopped" => joining <= NThreads
    /\ added \subseteq Events
    /\ late \subseteq added
    /\ discarded \subseteq PairIds
    /\ dropped \subseteq PairIds
    /\ handled \subseteq PairIds

\* The queue is in time order, whichever search inserts, as long as ASAP does
\* not rewrite a head's time; the live times are in order always.  The
\* hold-back of work() and DISCARD look only at the first element of each.
Sorted ==
    /\ opt.early # "ASAP" => IsAscending(Times(queue))
    /\ IsAscending(live)

InFlight ==     \* positions of captured pairs: in hand, in qq, at a thread
    (IF pc = "push" THEN {<<"hand", 0>>} ELSE {})
        \cup ({"qq"} \X (1 .. Len(qq)))
        \cup ({"thread"} \X {w \in Workers : eh[w] # NoPair})

At(x) == CASE x[1] = "hand" -> hold [] x[1] = "qq" -> qq[x[2]] [] OTHER -> eh[x[2]]

\* The samples copied for a pair are exactly those it asks for: they start at
\* its time and have all been produced.
RightSamples(p) ==
    p.time + p.len < TimeMod => p.from = p.time /\ p.from + p.len < produced

\* A handler is never given the wrong samples when early events are discarded
\* (buffer_offset needs no clamping then).
WindowCorrect ==
    opt.early = "DISCARD" => \A x \in InFlight : RightSamples(At(x))

\* d_nevents, changed by all the threads, is the number of pairs taken from the
\* queue and not yet finished.  wait_events relies on it.
NEventsExact == d_nevents = Cardinality(InFlight)

\* When stop() begins to stop the handler threads nothing is left for them to
\* do, in qq or in their hands: no event taken from the queue is lost by it.
StopDrained == pc \in {"stop", "join", "stopped"} => InFlight = {}

Occurrences(s, t) == Cardinality({i \in 1 .. Len(s) : s[i] = t})

\* The live times are exactly those of the pairs handed over and not yet known
\* to be finished, so that samples are held back for every one of them and for
\* nothing else.  (A pair pushed and not yet recorded may be finished already.)
LiveTimesExact ==
    \A t \in EventTimes :
        Occurrences(live, t) + (IF pc = "record" /\ hold.time = t THEN 1 ELSE 0)
          = Occurrences(dq, t)
            + Cardinality({x \in InFlight : /\ x[1] # "hand"
                                            /\ At(x).time = t
                                            /\ x[1] = "thread" =>
                                                 wpc[x[2]] # "decrement"})

\* So it is when a full qq makes work() wait.
LiveTimesBlock == opt.congestion = "BLOCK" => LiveTimesExact

\* Only an event that came too late is discarded: once queued in time, an
\* event keeps its samples in the buffer until it is taken, because work()
\* never consumes past it.  (As long as every event comes as a message.)
DiscardedWereLate == ~opt.direct => \A x \in discarded : x[1] \in late

Queued(id) == \E i \in 1 .. Len(queue) : IdOf(queue[i]) = id

\* Every handler of every event added has its pair in exactly one place.
ExactlyOnce ==
    \A e \in added : \A k \in 1 .. Len(HandlersOf[e]) :
        LET id == <<e, HandlersOf[e][k]>>
        IN  Cardinality({i \in 1 .. Len(queue) : IdOf(queue[i]) = id})
              + Cardinality({x \in InFlight : /\ IdOf(At(x)) = id
                                              /\ x[1] = "thread" =>
                                                   wpc[x[2]] = "run"})
              + Cardinality({S \in {<<"a", discarded>>, <<"b", dropped>>,
                                    <<"c", handled>>} : id \in S[2]}) = 1
TakenNotRun(id) ==
    \E x \in InFlight : /\ IdOf(At(x)) = id
                        /\ x[1] = "thread" => wpc[x[2]] = "run"

\* A pair taken from the queue is run, though notify_one is lost whenever no
\* thread is waiting: work() notifies again for as long as it is held back, and
\* wait_events when the stream ends.
TakenIsRun == \A id \in PairIds : TakenNotRun(id) ~> id \in handled \cup dropped

\* The pair can be served before the stream ends.
Fits(p) == p.len < MaxIn /\ p.time + p.len < StreamLen

AllFit == \A i \in 1 .. Len(queue) : Fits(queue[i])

Stopping == pc \in {"draining", "stop", "join", "stopped"}

\* An event queued in time is run, unless the user stops the flowgraph first.
PunctualIsRun ==
    []AllFit =>
        \A id \in PairIds :
            (Queued(id) /\ id[1] \notin late /\ d_time < StreamLen)
                ~> (id \in handled \/ (Stopping /\ d_time < StreamLen))

\* stop() returns: wait_events drains the pool and every thread is joined.
StopTerminates == (pc = "draining") ~> (pc = "stopped")
=============================================================================

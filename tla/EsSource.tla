------------------------------ MODULE EsSource ------------------------------
(***************************************************************************)
(* The source block es_source (lib/es_source.cc), the event queue whose    *)
(* append callback it uses (lib/es_queue.cc) and its handler threads       *)
(* (lib/es_source_thread.cc).                                              *)
(*                                                                         *)
(* add_event calls the block's callback for each new event/handler pair,   *)
(* which pushes the pair to the lock-free queue qq and notifies a thread.  *)
(* A thread pops the pair, lets the handler fill a buffer and appends the  *)
(* event to readylist.  work() copies the samples of ready events into the *)
(* output and puts what does not fit back into readylist as a continuation.*)
(*                                                                         *)
(* All the output ports are treated alike and are one here.  A sample of   *)
(* the output is the set of event samples <<pair, k>> merged into it.      *)
(***************************************************************************)
EXTENDS EsQueueOps, FiniteSets, SequencesExt

CONSTANTS
    Events,      \* identities of the events that may be scheduled
    Handlers,    \* identities of the bound handlers
    HandlersOf,  \* the handlers bound to each event's type, in binding order;
                 \* a handler bound twice has two identities
    EventTimes,  \* the times events carry
    EventLens,   \* the lengths events carry
    NThreads,    \* the most threads an instance has
    MaxLen,      \* d_maxlen, given by set_max before the flowgraph runs
    MaxOut,      \* bound: samples the scheduler asks of one work call
    Options,     \* the configurations explored (see OptionSpace)
    None

Workers == 1 .. NThreads
PairIds == Events \X Handlers

OptionSpace ==
    [threads : Workers,             \* n_threads
     early   : EarlyBehaviors,      \* event_queue->d_early_behavior
     merge   : {"MEMCPY", "ADD"},   \* d_merge_mode, ADD for the three sums
     direct  : BOOLEAN,   \* events are added by another thread, not by messages
     ordered : BOOLEAN]   \* events are added in the order of their times

ASSUME SourceAssumption ==
    /\ HandlersOf \in [Events -> Seq(Handlers)]
    /\ \A e \in Events : IsInjective(HandlersOf[e])
    /\ EventTimes \subseteq TimeRange
    /\ EventLens \subseteq TimeRange
    /\ NThreads \in Nat \ {0}
    /\ MaxOut \in Nat \ {0}
    /\ MaxLen \in Nat /\ MaxLen + MaxOut < TimeMod
    /\ Options \subseteq OptionSpace

ASSUME NoneAssumption ==
    /\ None \notin Int
    /\ None \notin [id : PairIds, time : TimeRange, len : TimeRange, from : Nat]
    /\ None \notin [evt : Events, time : TimeRange, len : TimeRange, next : Nat]
    /\ None \notin [time : TimeRange, len : TimeRange]

VARIABLES
    opt,        \* the configuration of this instance
    adding,     \* the event add_event is at, with queue_lock held, or None
    queued,     \* event_queue->event_queue; nobody reads its order here
    qq,         \* pairs on their way to the handler threads
    wpc, eh,    \* where each handler thread is, and the pair it holds
    finished,   \* handler threads told to stop
    readylist,  \* events with their buffers, on their way to work()
    lin_mut,    \* who holds the lock of readylist: "free" or "work"
    pc,         \* where the block's thread is
    joining,    \* the handler thread the destructor is at
    d_time,     \* samples produced
    buf         \* output_items of the current work call

\* What has become of the events so far (not state of the program).
VARIABLES
    added,      \* events added to the queue
    sched,      \* the time and length asked for by each pair, once it is in qq
    start,      \* the position of each pair's first sample in the output
    gone,       \* pairs given up by work()
    out         \* the samples produced

addVars   == <<adding, queued, added, sched>>
poolVars  == <<wpc, eh, finished>>
playVars  == <<d_time, buf, start, gone, out>>
blockVars == <<lin_mut, pc, joining>>
vars == <<opt, addVars, qq, poolVars, readylist, blockVars, playVars>>

\* An event on its way to the output: its first sample is number from of the
\* pair's samples, and is due at time.
Chunk == [id : PairIds, time : TimeRange, len : TimeRange, from : Nat]

Adding == [evt : Events, time : TimeRange, len : TimeRange, next : Nat]

Init ==
    /\ opt \in Options
    /\ adding = None /\ queued = {} /\ added = {}
    /\ qq = <<>>
    /\ wpc = [w \in Workers |-> IF w <= opt.threads THEN "check" ELSE "exited"]
    /\ eh = [w \in Workers |-> None]
    /\ finished = {}
    /\ readylist = <<>> /\ lin_mut = "free"
    /\ pc = "idle" /\ joining = 1
    /\ d_time = 0 /\ buf = <<>>
    /\ sched = [x \in PairIds |-> None] /\ start = [x \in PairIds |-> None]
    /\ gone = {} /\ out = <<>>

-----------------------------------------------------------------------------
(* es_queue::add_event, with es_source::cb.                                *)

Destroying == pc \in {"stop", "join", "stopped"}

\* Either a message on port schedule_event, handled between calls of work(),
\* or a call from another thread for as long as the block exists.
BeginAdd(e, t, n) ==
    /\ adding = None
    /\ IF opt.direct THEN ~Destroying ELSE pc = "idle"
    /\ e \notin added
    /\ opt.ordered => \A x \in PairIds : sched[x] # None => sched[x].time <= t
    /\ adding' = [evt |-> e, time |-> t, len |-> n, next |-> 1]
    /\ added' = added \cup {e}
    /\ UNCHANGED <<opt, queued, sched, qq, poolVars, readylist, blockVars, playVars>>

Waiting == {w \in Workers : wpc[w] = "waiting"}

NotifyOne ==
    IF Waiting = {} THEN UNCHANGED wpc
    ELSE \E w \in Waiting : wpc' = [wpc EXCEPT ![w] = "pop"]

NotifyAll ==
    wpc' = [w \in Workers |-> IF w \in Waiting THEN "pop" ELSE wpc[w]]

\* For the next handler: the callback pushes the pair and notifies.  It returns
\* false, but add_event or-s that to true and keeps the pair in its queue too.
AddPair ==
    /\ adding # None /\ adding.next <= Len(HandlersOf[adding.evt])
    /\ LET id == <<adding.evt, HandlersOf[adding.evt][adding.next]>>
       IN  /\ qq' = Append(qq, [id |-> id, time |-> adding.time,
                                len |-> adding.len, from |-> 0])
           /\ queued' = queued \cup {id}
           /\ sched' = [sched EXCEPT ![id] = [time |-> adding.time,
                                              len |-> adding.len]]
    /\ NotifyOne
    /\ adding' = [adding EXCEPT !.next = @ + 1]
    /\ UNCHANGED <<opt, added, eh, finished, readylist, blockVars, playVars>>

EndAdd ==
    /\ adding # None /\ adding.next > Len(HandlersOf[adding.evt])
    /\ adding' = None
    /\ UNCHANGED <<opt, queued, added, sched, qq, poolVars, readylist, blockVars,
                   playVars>>

-----------------------------------------------------------------------------
(* es_source_thread::do_work of thread w.                                  *)

Goto(w, from, to) == wpc[w] = from /\ wpc' = [wpc EXCEPT ![w] = to]

Check(w) ==      \* while(!finished)
    /\ Goto(w, "check", IF w \in finished THEN "exited" ELSE "enter")
    /\ UNCHANGED <<opt, addVars, qq, eh, finished, readylist, blockVars, playVars>>

\* qq_cond->wait: a notification sent before this step is lost.
EnterWait(w) ==
    /\ Goto(w, "enter", "waiting")
    /\ UNCHANGED <<opt, addVars, qq, eh, finished, readylist, blockVars, playVars>>

SpuriousWake(w) ==
    /\ Goto(w, "waiting", "pop")
    /\ UNCHANGED <<opt, addVars, qq, eh, finished, readylist, blockVars, playVars>>

PopCopy(w) ==    \* the pair stays in qq
    /\ qq # <<>>
    /\ Goto(w, "pop", "run")
    /\ eh' = [eh EXCEPT ![w] = Head(qq)]
    /\ UNCHANGED <<opt, addVars, qq, finished, readylist, blockVars, playVars>>

Pop(w) ==
    /\ qq # <<>>
    /\ Goto(w, "pop", "run")
    /\ eh' = [eh EXCEPT ![w] = Head(qq)]
    /\ qq' = Tail(qq)
    /\ UNCHANGED <<opt, addVars, finished, readylist, blockVars, playVars>>

PopNothing(w) ==
    /\ qq = <<>>
    /\ Goto(w, "pop", "check")
    /\ UNCHANGED <<opt, addVars, qq, eh, finished, readylist, blockVars, playVars>>

Run(w) ==        \* a zeroed buffer of the event's length, then eh->run()
    /\ Goto(w, "run", "publish")
    /\ UNCHANGED <<opt, addVars, qq, eh, finished, readylist, blockVars, playVars>>

\* Lock, push_back, unlock.
Publish(w) ==
    /\ lin_mut = "free"
    /\ Goto(w, "publish", "pop")
    /\ readylist' = Append(readylist, eh[w])
    /\ eh' = [eh EXCEPT ![w] = None]
    /\ UNCHANGED <<opt, addVars, qq, finished, blockVars, playVars>>

-----------------------------------------------------------------------------
(* es_source::work                                                         *)

Least(a, b) == IF a < b THEN a ELSE b

\* The output buffer is zeroed and readylist locked.
WorkBegin(n) ==
    /\ pc = "idle" /\ lin_mut = "free"
    /\ opt.direct \/ adding = None
    /\ buf' = [i \in 1 .. n |-> {}]
    /\ lin_mut' = "work"
    /\ pc' = "play"
    /\ UNCHANGED <<opt, addVars, qq, poolVars, readylist, joining, d_time, start,
                   gone, out>>

\* The loop looks at the head only: each turn erases it or leaves the loop.
HeadIsDue  == readylist # <<>> /\ readylist[1].time < d_time + Len(buf)
HeadIsLate == HeadIsDue /\ readylist[1].time < d_time

DiscardLate ==
    /\ pc = "play" /\ HeadIsLate /\ opt.early = "DISCARD"
    /\ gone' = gone \cup {readylist[1].id}
    /\ readylist' = Tail(readylist)
    /\ UNCHANGED <<opt, addVars, qq, poolVars, blockVars, d_time, buf, start, out>>

\* The exception leaves work() with lin_mut locked.
BalkLate ==
    /\ pc = "play" /\ HeadIsLate /\ opt.early = "BALK"
    /\ gone' = gone \cup {readylist[1].id}
    /\ readylist' = Tail(readylist)
    /\ pc' = "thrown"
    /\ UNCHANGED <<opt, addVars, qq, poolVars, lin_mut, joining, d_time, buf, start,
                   out>>

\* Where the head may start: its own time, or for a late one the present or,
\* with RNDF, any place in the buffer.
StartTimes ==
    IF ~HeadIsLate THEN {readylist[1].time}
    ELSE CASE opt.early = "ASAP" -> {d_time}
           [] opt.early = "RNDF" -> d_time .. (d_time + Len(buf) - 1)
           [] OTHER -> {}

\* The buffer with the first n samples of chunk c written from time t on.
Written(c, t, n) ==
    [i \in 1 .. Len(buf) |->
        LET k == (d_time + i - 1) - t
        IN  IF k \notin 0 .. (n - 1) THEN buf[i]
            ELSE IF opt.merge = "ADD" THEN buf[i] \cup {<<c.id, c.from + k>>}
                 ELSE {<<c.id, c.from + k>>}]

InsertLast(s, c) == Append(s, c)
InsertFirst(s, c) == <<c>> \o s

\* A continuation goes before the first element with a later time.
InsertContinuation(s, c) ==
    LET i == CHOOSE i \in 0 .. Len(s) : /\ \A j \in 1 .. i : s[j].time <= c.time
                                        /\ i < Len(s) => c.time < s[i + 1].time
    IN  Splice(s, i, <<c>>)

Play ==
    /\ pc = "play" /\ HeadIsDue
    /\ \E t \in StartTimes :
          LET c    == readylist[1]
              copy == Least((d_time + Len(buf)) - t, c.len)
              rest == [id |-> c.id, time |-> t + copy, len |-> c.len - copy,
                       from |-> c.from + copy]
          IN  /\ buf' = Written(c, t, copy)
              /\ readylist' = IF c.len > copy
                              THEN InsertContinuation(Tail(readylist), rest)
                              ELSE Tail(readylist)
              /\ start' = [start EXCEPT ![c.id] = t - c.from]
    /\ UNCHANGED <<opt, addVars, qq, poolVars, blockVars, d_time, gone, out>>

ProducedUncut(n) == n

\* Items returned by work() of the n asked for.
Produced(n) == IF MaxLen < d_time + n THEN MaxLen - d_time ELSE n

\* The lock is released and the buffer handed over; at d_maxlen work() says
\* that it is done (-1).  Nothing after the unlock is shared.
WorkEnd ==
    /\ pc = "play" /\ ~HeadIsDue
    /\ lin_mut' = "free"
    /\ buf' = <<>>
    /\ IF d_time = MaxLen
       THEN pc' = "done" /\ UNCHANGED <<d_time, out>>
       ELSE /\ pc' = "idle"
            /\ d_time' = d_time + Produced(Len(buf))
            /\ out' = out \o SubSeq(buf, 1, Produced(Len(buf)))
    /\ UNCHANGED <<opt, addVars, qq, poolVars, readylist, joining, start, gone>>

-----------------------------------------------------------------------------
(* The destructor: each thread in turn is told to stop and joined.         *)

Destroy ==
    /\ pc \in {"idle", "done", "thrown"} /\ adding = None
    /\ pc' = "stop"
    /\ UNCHANGED <<opt, addVars, qq, poolVars, readylist, lin_mut, joining, playVars>>

StopThread ==
    /\ pc = "stop"
    /\ finished' = finished \cup {joining}
    /\ NotifyAll
    /\ pc' = "join"
    /\ UNCHANGED <<opt, addVars, qq, eh, readylist, lin_mut, joining, playVars>>

Joined ==
    /\ pc = "join" /\ wpc[joining] = "exited"
    /\ joining' = joining + 1
    /\ pc' = IF joining = opt.threads THEN "stopped" ELSE "stop"
    /\ UNCHANGED <<opt, addVars, qq, poolVars, readylist, lin_mut, playVars>>

-----------------------------------------------------------------------------
WorkStep == \/ \E n \in 1 .. MaxOut : WorkBegin(n)
            \/ DiscardLate \/ BalkLate \/ Play \/ WorkEnd
            \/ StopThread \/ Joined

AddStep == AddPair \/ EndAdd

WorkerStep(w) == \/ Check(w) \/ EnterWait(w) \/ Pop(w) \/ PopNothing(w)
                 \/ Run(w) \/ Publish(w)

Next == \/ \E e \in Events, t \in EventTimes, n \in EventLens : BeginAdd(e, t, n)
        \/ AddStep
        \/ WorkStep
        \/ Destroy
        \/ \E w \in Workers : WorkerStep(w) \/ SpuriousWake(w)

Spec == Init /\ [][Next]_vars

\* Every thread keeps running.  A thread that wants lin_mut gets it in the end:
\* work() holds it again and again, so that fairness is strong.
Fairness ==
    /\ WF_vars(AddStep)
    /\ WF_vars(WorkStep)
    /\ \A w \in Workers : WF_vars(WorkerStep(w)) /\ SF_vars(Publish(w))

FairSpec == Spec /\ Fairness

-----------------------------------------------------------------------------
(* Properties.                                                             *)

\* Every variable has its type; never more than d_maxlen samples are produced,
\* and a thread has a pair exactly while it serves one.
TypeOK ==
    /\ opt \in Options
    /\ adding \in Adding \cup {None}
    /\ queued \subseteq PairIds /\ added \subseteq Events
    /\ qq \in Seq(Chunk)
    /\ wpc \in [Workers -> {"check", "enter", "waiting", "pop", "run", "publish",
                            "exited"}]
    /\ eh \in [Workers -> Chunk \cup {None}]
    /\ \A w \in Workers : wpc[w] \in {"run", "publish"} <=> eh[w] # None
    /\ finished \subseteq Workers
    /\ readylist \in Seq(Chunk)
    /\ lin_mut \in {"free", "work"}
    /\ pc \in {"idle", "play", "thrown", "done", "stop", "join", "stopped"}
    /\ joining \in 1 .. (NThreads + 1)
    /\ d_time \in 0 .. MaxLen
    /\ buf \in Seq(SUBSET (PairIds \X Nat)) /\ Len(buf) <= MaxOut
    /\ sched \in [PairIds -> [time : TimeRange, len : TimeRange] \cup {None}]
    /\ start \in [PairIds -> Nat \cup {None}]
    /\ gone \subseteq PairIds
    /\ out \in Seq(SUBSET (PairIds \X Nat)) /\ Len(out) = d_time

Abstract == INSTANCE Playout WITH
    Ids <- PairIds, TimesAsked <- EventTimes, LensAsked <- EventLens,
    late <- IF opt.early \in {"ASAP", "RNDF"} THEN "moved" ELSE "lost",
    merge <- opt.merge

\* The output is the merge of whole events, each placed once, never in the past
\* and at its own time unless it came late, though an event is played in parts
\* by several calls of work() around which the threads append out of order.
PlaysOut == Abstract!Spec

Places(id) ==   \* where a pair is
    {<<"qq", i>> : i \in {j \in 1 .. Len(qq) : qq[j].id = id}}
      \cup {<<"thread", w>> : w \in {v \in Workers : eh[v] # None /\ eh[v].id = id}}
      \cup {<<"ready", i>> : i \in {j \in 1 .. Len(readylist) : readylist[j].id = id}}

\* A pair that was pushed is in one place only, and in none exactly when it has
\* been given up or played out: no thread loses it or serves it twice.
Accounted ==
    \A id \in PairIds :
        IF sched[id] = None THEN Places(id) = {}
        ELSE \/ /\ Cardinality(Places(id)) = 1 /\ id \notin gone
                /\ start[id] # None => \E p \in Places(id) : p[1] = "ready"
             \/ /\ Places(id) = {}
                /\ (id \in gone) # (start[id] # None)

\* When work() leaves its loop no event of readylist starts before the end of
\* the output buffer.
LeavesNothingDue ==
    \A i \in 1 .. Len(readylist) : readylist[i].time >= d_time + Len(buf)

\* So it is, until the last sample, when events come in the order of their times
\* and one thread serves them: readylist is in order then, continuations included.
InOrderNothingDue ==
    [][WorkEnd /\ opt.ordered /\ opt.threads = 1 /\ d_time < MaxLen
          => LeavesNothingDue]_vars

\* A comment in work() gives the reason for leaving the loop at the first event
\* in the future: "since they are time ordered - we are done here".
NothingDue == [][WorkEnd /\ d_time < MaxLen => LeavesNothingDue]_vars

InQQ(id) == \E i \in 1 .. Len(qq) : qq[i].id = id

\* A comment in do_work says that a handler thread "constantly receives and
\* services event/handler pairs": what is in qq is popped in the end, unless the
\* block is destroyed.
PushedIsServed == \A id \in PairIds : InQQ(id) ~> (~InQQ(id) \/ Destroying)
=============================================================================

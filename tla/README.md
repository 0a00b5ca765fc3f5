# gr-eventstream in TLA+

gr-eventstream adds *events* to GNU Radio: a trigger finds a place in a sample
stream and publishes an event with a time and a length; `es_sink` cuts the
samples of that event out of its input stream and hands them to the handlers
bound to its type; `es_source` does the opposite and lets handlers fill
buffers that it puts on its output stream at the time of the event. Handlers run
on pools of threads, so both blocks are small concurrent programs around a
queue ordered in time. This directory models them in TLA+, model-checks
them with TLC and proves what matters most with TLAPS.

- `EsQueueOps.tla`, `EsSink.tla`, `EsSource.tla`: the two blocks and their queue;
- `Playout.tla`: what `es_source` promises, as an abstract specification;
- `EsMessages.tla`, `EsTriggerEdge.tla`, `EsTriggerTimers.tla`, `EsEventAcceptor.tla`
  and their composition `EsTriggers.tla`: the way of an event to the queue;
- `EsCommon.tla`, `EsHandlers.tla`, `EsEventFlow.tla`: what an event carries, what the
  handlers make of it, and one event followed through both blocks;
- `EsVectorIO.tla`, `EsHandlerFlowgraph.tla`: the handler that runs flowgraphs, and its
  Python hooks;
- `EsPooledResource.tla`: the pools that grow on demand;
- `MCEsSink.tla`, `MCEsSinkDirect.tla`, `MCEsSource.tla`, `MCEsTriggers.tla`,
  `MCEsEventFlow.tla`, `MCEsHandlerFlowgraph.tla`, `MCEsPooledResource.tla` and the `.cfg`
  files: the instances for TLC;
- `EsQueueOpsProofs.tla`, `EsSinkProofs.tla`, `EsSinkCountProofs.tla`, `EsSourceProofs.tla`,
  `EsTriggersProofs.tla`, `EsEventFlowProofs.tla`, `EsHandlerFlowgraphProofs.tla`,
  `EsPooledResourceProofs.tla`: theorems and their proofs;
- `PROJECT.json`: which definition models which lines, the runs, the mutants, the
  hazards, the findings and the theorems.

`tlc -workers 2 -config MCEsSink_safety.cfg MCEsSink` checks a run,
`tlapm EsSinkProofs.tla` the proofs.

## 1. The system

### Components, their state and their operations

| Component | State | Operations | How others reach it |
|---|---|---|---|
| `es_queue` | vector of event/handler pairs in time order, bindings type → handlers, `queue_lock`, an append callback | `add_event`, `fetch_next_event`, `empty`, `min_time`, `length`, `register_event_type`, `bind_handler` | owned by an acceptor; a public member, so any thread may call it |
| `es_event_acceptor` | the queue | messages `schedule_event`, `add_handlers` | base of sink and source |
| `es_sink` | `d_time`, `live_event_times`, `d_nevents`, lock-free queues `qq` (pairs to the threads) and `dq` (times back), condition `qq_cond` | `start`, `work`, `wait_events`, `stop` | scheduler; threads through `qq`, `dq`, `qq_cond`, `d_nevents` |
| `es_event_loop_thread` | `finished`, the pair in hand | `do_work`, `stop` | the sink's pool |
| `es_source` | `d_time`, `d_maxlen`, `qq`, `readylist` under `lin_mut` | `cb`, `work`, `set_max`, destructor | scheduler; the queue calls `cb` back; threads through `qq`, `readylist` |
| `es_source_thread` | `finished`, the pair in hand | `do_work`, `stop` | the source's pool |
| `es_eh_pair`, `es_common` | an event (a PMT dictionary) and its handler | `time`, `length`, `run` | a value passed around |
| `es_trigger` | the handlers' names | `start` publishes them as `add_handlers` | base of the triggers |
| `es_trigger_edge_f` | previous sample, threshold, time of the last event | `work`, `set_thresh` | publishes events |
| `es_trigger_sample_timer` | samples consumed, time of the last event | `work` | publishes events |
| `es_trigger_timer.py` | `count`, a thread | `start`, `stop`, `run` | publishes events |
| `es_handler_flowgraph` | a pool of flowgraphs | `handler` | called by the handler threads |
| `es_pyhandler_def` | the hooks set on it | `run_prehook`, `run_posthook` | called by `handler`; takes the interpreter lock of Python |
| `pooled_resource.h` | a map from keys to pools, grown under a try-lock | `acquire`, release by scope | any thread; nothing in the repository uses it |
| `es_vector_source`, `es_vector_sink` | a finite buffer and a position | `work`, `rewind`, `set_data` | the ends of a handler flowgraph |
| `patterned_interleaver.py` | position in a pattern | `general_work` | a stream block of its own |
| `es_gen_vector` | none | constructors of events that carry vectors | called by users |
| other handlers | none | one call on a buffer | called by the handler threads |

Legacy (`es_event`), most of SWIG, GRC, CMake
files and applications have no behaviour to model. `PROJECT.json`
lists every component with what is left out of it.

### How they interact

*Sink.* GNU Radio runs a block on one thread and handles its messages
between calls of `work()`; a `schedule_event` message ends in
`es_queue::add_event`, which inserts one pair for each bound handler. `work()` retires
the live times posted in `dq`; fetches from the queue, one by one, the pairs
whose samples are in its buffer (its history included), counts them in
`d_nevents`, copies their samples and pushes them to `qq`; records their live
times and notifies one thread; consumes as far as neither a queued nor a live event
needs the samples; and at the end of the file waits for the pool to drain.
A handler thread waits on the condition *before* it looks at `qq`, with a mutex of
its own that guards nothing; it pops and runs pairs until `qq` is empty.

*Source.* The queue's callback pushes each new pair to `qq` and notifies one thread; it
returns false to keep the pair out of the queue. A thread lets the handler
fill a buffer and appends the event to `readylist`. `work()` zeroes its output,
takes events from the head of `readylist` for as long as the head is due, copies what
fits, and puts the rest of a long event back as an event of its own, before the
first with a later time.

*Triggers.* `start()` of a trigger publishes one registration per event type, with the
subscribers of the port of that name; `work()`, or the thread of the Python timer,
publishes events. All of them arrive at the port `schedule_event` of a sink or source,
with PDUs from other blocks, and are handled one by one: a registration adds its type and
binds its handlers, an event or PDU goes to `add_event`, which refuses a type that is
not registered.

*Flowgraph handler.* One instance is a handler like any other, so all threads of a pool
call its `handler()` at once. Each call pops a flowgraph from a lock-free pool, gives the
event's samples to its vector source, empties its vector sink, runs it to the end
between a pre-hook and a post-hook, copies what the sink has collected, if there is one, to
the event's buffer, padded with zeros, and pushes the flowgraph back. A hook is a Python
function, called with the interpreter lock held.

*Contents of an event.* An event is a dictionary. A PDU becomes one in the acceptor, with
the PDU's vector as bytes and its metadata on top; the sink adds tags and a buffer per
input, the source a zeroed buffer per output; a handler reads or writes these buffers
by the length in the event and a sample type of its own. What `es_sink::handler` publishes may
be wired to the port of an `es_source`.

### What is hard here, and what makes each part correct

- Threads, block and callers change `qq`, `dq`, `d_nevents`, `readylist` and the
  queue in any order; only some of that is under a lock. *No pair may be lost or
  served twice, the counter must be exact, the pool must drain before it is
  stopped.* (`ExactlyOnce`, `NEventsExact`, `StopDrained`, `Accounted`)
- Notifications are sent without a shared mutex and can be lost. *What is in `qq`
  must still be served; `stop()` must return.* (`TakenIsRun`, `StopTerminates`,
  `PushedIsServed`)
- `work()` of the sink consumes by looking at the *first* queued and the first
  live time. *Both lists must stay in order, and samples a punctual event needs must
  not leave the buffer.* (`Sorted`, `LiveTimesBlock`, `DiscardedWereLate`,
  `PunctualIsRun`)
- The offset of an event in the buffer is computed with an off-by-one at the start of the
  stream, in unsigned 64 bits, and truncated to `int`. *The handler must get
  the samples the event asks for.* (`WindowCorrect`)
- Several calls of `work()` of the source play one event, while threads append
  events out of order. *An event must appear once, whole, contiguous and in its place.*
  (`PlaysOut`, `InOrderNothingDue`, `NothingDue`)
- Triggers keep state across calls of `work()` of any size, and are told their
  threshold and their end by other threads. *The cutting must not show: every rise that is
  not masked, every period, every iteration gives one event, in time, and triggers keep their
  distance.* (`RisesTrigger`, `TriggersApart`, `MinimumDistance`, `SampleTimerExact`,
  `RunsItsCount`, `AtMostIterations`)
- Types are registered by the same kind of message as events, and the Python timer starts
  before it is registered. *No event but those may overtake its registration.*
  (`SubscribersServed`)
- An event changes its shape four times between a request and the samples played, with
  three notions of length (samples, vector elements, bytes) and two of time. *What was asked
  for must come out, and no handler may touch what lies beyond its buffer.*
  (`RequestComesBack`, `HandlerGetsItsSamples`, `VectorsArePlayedWhole`)
- Flowgraphs are reused, by any thread, and their hooks take turns with one lock. *One
  thread at a time, nothing left over from the event before, and every run must end.*
  (`PoolExclusive`, `OwnResult`, `HandlerReturns`)
- Pools are created on demand by threads that all miss the same key, in a map that is
  searched without a lock. *No item may be given twice or lost; `acquire()` must return; and
  there must be a way to use it safely.* (`ItemsApart`, `NoneLost`, `AcquireReturns`,
  `PreallocatedIsSafe`)

The hazards in `PROJECT.json` list these line by line; those without a property say why.

## 2. The modules

### EsQueueOps

The pure operations of `es_queue` on a sequence of pairs: the three searches for an
insertion index, `vector::insert` (`Splice`), the early test, ASAP and the
first pair that fits. An index is an offset 0..Len(q), as in C++. A search is the set
of the indices its loop can stop at: one index for a forward or reverse search, one for
`lower_bound` on an ordered vector, and any on an unordered one, of which the
library promises nothing. Times wrap at `TimeMod` (2^64 in the code). There is no
RECURSIVE operator here or anywhere.

### EsSink

One action for each stretch of code that no other thread can see inside of. `pc` is where
the block's thread is:

| `pc` | code | actions |
|---|---|---|
| `idle` | between calls of `work()` | `AddByMessage`, `Produce`, `WorkBegin`, `StreamEnds`, `UserStops` |
| `retire` | `dq` loop | `RetireOne`, `RetireNone` |
| `fetch` | `fetch_next_event` | `FetchDiscard`, `FetchBalk`, `FetchTake`, `FetchNone` |
| `relock` | `print_queue` under BALK | none: the thread waits for a lock it holds |
| `push` | `qq.push`, retried or dropped | `Push`, `Drop` |
| `record` | live time, `notify_one` | `Record` |
| `consume` | hold-back, `notify_one` | `Consume` |
| `wait`, `draining` | `wait_events` at the file's end, and in `stop()` | `WaitNotify`, `WaitDone` |
| `return` | `d_time += nconsume` | `Return` |
| `stop`, `join`, `stopped` | each thread is told to stop and joined | `StopThread`, `Joined` |

`wpc[w]` is where handler thread `w` is: `check`, `enter` (about to wait),
`waiting`, `pop`, `run`, `post`, `decrement`, `exited`. A notification moves a thread
from `waiting` to `pop` and is lost on one that is at `enter`; a wait may also
end spuriously, and ends the thread if it was interrupted.

`empty()` and `min_time()` are read by `work()` without the queue's lock
(`ConsumeChoices`): with `opt.direct` a caller may be in the middle of an insertion.
Samples are their numbers; a captured pair carries the number of the first
sample copied for it, so that the offset arithmetic with its clamping and its
truncation to `int` decides what the handler sees. Live times are kept sorted
(`LiveIndex`). `qq` has a bound, `QCap`, at which push
fails: `boost::lockfree::queue` grows and fails practically never, so the failing
paths are explored by making it small.

`added`, `late`, `discarded`, `dropped` and `handled` record what has become of the events;
no guard but "an event is added once" reads them.

### Playout and EsSource

`Playout` says what a source is for: ids are scheduled, each is placed once, at
or after the present and at its own time unless that has passed, or given up if it
has; the stream only grows, and each sample is the merge of the placed events that
cover it. It knows nothing of threads, lists or continuations.

`EsSource` is the code. `BeginAdd`, `AddPair`, `EndAdd` are `add_event` with
the callback, a handler at a time (it may be called by another thread:
`opt.direct`); `Check` to `Publish` are the handler threads; `WorkBegin`,
`DiscardLate`, `BalkLate`, `Play`, `WorkEnd` are `work()`; `Destroy`, `StopThread`,
`Joined` the destructor. An element of `readylist` is a `Chunk`: the pair it comes from, the
time it is due, its length, and which of the pair's samples is its first.
A sample of the output is the set of event samples merged into it, so that losing,
repeating or misplacing one shows. A time already past moves to a random place in the
buffer under RNDF and to its start under ASAP; under BALK the exception leaves
`lin_mut` locked.

The mapping to `Playout` (`Abstract`) is direct: `sched`, `start`, `gone` and `out` are
recorded beside the program's own state, and the variable `late` is a function of `opt.early`.

### EsMessages, EsTriggerEdge, EsTriggerTimers, EsEventAcceptor and EsTriggers

The components of the way from a trigger to the queue are modules of their own and share
one variable, `inbox`, the messages at the port `schedule_event` of one acceptor.
`EsTriggers` puts them side by side by EXTENDS: a step is one of one publisher or of the
acceptor, and `cast` says which publishers a behaviour has.

`EsTriggerEdge` has an input that is one fixed sequence; `EdgeWork(n)` begins a call with
the next `n` samples, and `EdgeReturn` ends it. The comparison of a sample
(es_trigger_edge_f.cc:105) reads `d_thresh` twice without a lock: `EdgeSample` is the first
read (is the sample over it?) and, for a sample not over it, the rest of the turn;
`EdgeTrigger` is the second (was the sample before under it?) and publishes the event.
`SetThresh` may come between any two of these actions, as the callback of a GUI does, the two
reads included; a build that reads the member once behaves as if `set_thresh` came
later. So the trigger may fire where the input crosses neither value of the threshold: on
samples 1 and 2 when it goes from 1 to 2 between the reads, which is in the run, and even on an
input that does not move (1 and 1 when it goes from 0 to 2), which the theorems cover.
`EdgeStart` may happen again: the block keeps its counters when the flowgraph is restarted.
`overAt` and `underAt`, the thresholds each sample and the one before it were compared with,
and `fired` only record.

`EsTriggerTimers` has the sample timer (`SampleTimerWork`, a `Tick` per event,
`SampleTimerReturn`), and the Python timer: `TimerStart`, `TimerRegister`, `TimerStop`,
`TimerJoined` are `start()` and `stop()`; `TimerTest`, `TimerPublish`, `TimerCheck`,
`TimerRead`, `TimerWrite` are `run()`, one action per access to `count`, and
`TimerPublishFails` is its `except: return`: a publication that raises ends the thread with
the count as it is, stopped by nobody. The sample timer's first event is at
`Shift + Period`, not at `Shift`: its time starts there and is advanced before it is used.
The thread of the Python timer is
started before the registration is published: `unannounced` counts the events that got ahead
of it. They are refused, and `SubscribersServed` says that no others are.

`EsEventAcceptor` has one action for each kind of message. `AddHandlers` registers and
binds; `AddEvent` is `es_queue::add_event` as the other modules do not show it: with the
bindings, the refusal of unknown types, and a pair per handler, in reverse binding order
since every pair of an event is inserted at the same index. `EventOf` is the
conversion of a PDU. Nothing takes pairs out of this queue: what happens there is
the subject of `EsSink` and `EsSource`.

### EsCommon, EsHandlers and EsEventFlow

`EsCommon` has PMT values as far as the code tells them apart (dictionaries are functions,
a vector is its element type and its bytes) and the functions of `es_common.cc`,
`es_gen_vector.cc` and the PDU branch of the acceptor as operators on them. `EsHandlers`
has the stateless handlers: each gives what it makes of the buffers of an event, or `threw`,
or, where C++ would go beyond a buffer, `overread` or `overrun`, of which nothing more is
said.

`EsEventFlow` follows one event: `at` is where it is and `msg` what it looks like there.
`SendPdu` to `SendVectors` are what a user or a block may send, `Accept` the acceptor and
the queue's type check, `Capture` and `RunInSink` the sink, `GiveBuffers` and `RunInSource`
the source. Each byte carries where it comes from (input, item, place), so a wrong offset,
element size or length shows in the result. Three things the model makes plain without
calling them wrong: a sink with several inputs publishes a *list* of vectors, which no
acceptor converts (`discarded`); the tags and metadata of a `burst` PDU take its type along, so
a source that has not registered it refuses the PDU; and a PDU with a vector, sent to a
sink, leaves a key `vector` that later replaces the captured samples, which is why
`IsRequest` leaves it out.

### EsVectorIO and EsHandlerFlowgraph

`EsVectorIO` is the two ends of a flowgraph as operators: a source is its data and its
offset, a sink the items collected. In `EsHandlerFlowgraph` a thread goes through
`idle`, `prepare`, `prehook`, `run`, `posthook`, `copy`, `release`; while it is in `run`, calls of `work()` of the
source and of the sink, of any size, interleave with each other and with the other
threads. The user's blocks between the ends turn each item into `gain` items; a flowgraph
for `es_source` has no vector source and makes any number of items by itself
(`Make`), of the event its pre-hook was told (`told`, one per flowgraph, so that a stale
one shows). From a flowgraph without vector sink nothing is copied (`CopyNothing`).

A hook is unset (`SkipHook`), a function (`EnterHook`, then `LeaveHook` or `HookThrows`) or
Python's `None` (`HookIsNone`). `gil` is the thread that holds the interpreter lock and
`kept` the one that returned from a hook without giving it back.
Some calls end badly: `GrabNothing`, with the pool empty, goes on with an
uninitialized pointer (`wild`); `Throw` and `HookThrows` leave the handler thread with an
exception; after these the program does nothing more that could be said of it.

### EsPooledResource

A thread goes from `find` (the unlocked search) to `pop` or to `grow`, there by the try-lock to
`insert`, `link` and `fill`, or straight back to `find`. `InsertBegin` and `InsertEnd` are the two
ends of the insertion into the tree; a search in another thread in between may miss any
key. For `find()` that costs a turn of the loop. For `operator[]` (in `acquire` and `release`) it
means an entry without a pool and a write without the lock: `Undefined`, after which
nothing happens in the model. An item is its number within its key's pool. The `throw` of
`release()` for a push that returns false has no action: the stack it pushes to allocates a node
when it has none left, so its `push` does not return false (it would fail by
`bad_alloc` only).

### What is outside

The scheduler (upstream writes, the end of the stream, `top_block::stop`),
`boost::condition` and `boost::lockfree::queue` are not part of the repository; they
are modelled from how it uses them, and marked external in the map.

## 3. The runs

| Run | Checks | Expectation |
|---|---|---|
| `sink_safety` | `TypeOK`, `Sorted`, `WindowCorrect`, `DiscardedWereLate`, `NEventsExact`, `StopDrained`, `LiveTimesBlock`, `ExactlyOnce` | holds |
| `sink_live` | `TakenIsRun`, `PunctualIsRun`, `StopTerminates` | holds |
| `sink_direct` | `SkippedIsKept` | violated |
| `source_play` | `TypeOK`, `Accounted`, `PlaysOut`, `InOrderNothingDue` | holds |
| `source_order` | `NothingDue` | violated |
| `source_wakeup` | `PushedIsServed` | violated |
| `trigger_events` | `RisesTrigger`, `TriggersApart`, `SampleTimerExact`, `RunsItsCount`, `SubscribersServed` | holds |
| `edge_distance` | `MinimumDistance` | violated |
| `timer_stop` | `AtMostIterations` | violated |
| `event_flow` | `TypeOK`, `RequestComesBack`, `HandlerGetsItsSamples`, `VectorsArePlayedWhole` | holds |
| `flowgraph_pool` | `PoolExclusive`, `OwnResult`, `HandlerReturns` | holds |
| `pooled_resource` | `TypeOK`, `ItemsApart`, `NoneLost`, `PreallocatedIsSafe`, `AcquireReturns` | holds |

**Bounds of the sink.** Two events, one with one handler and one with two, so
that pairs of one event and of different events meet; two handler threads, enough for two to
hold pairs while the block fetches a third; `QCap` 1, so that a push fails. In `sink_safety`
the history is 2 and the stream 4 samples, offered up to 3 at a time, so that the buffer starts,
moves and ends; lengths 1 and 3, so that an event too long for the buffer can be
overtaken; times 0 and 2, so that events are late, inside the buffer, at its edge, or arrive
before their samples; and `TimeMod` 5, so that time plus length wraps (2 + 3).
Its options (`SafetyOptions`) are four configurations which between them use every early, search
and congestion behaviour but RNDF, messages and direct calls, and the end-of-file tag. RNDF on a
sink is not handled by the switch and does what an unknown value would; the theorems cover
it. `sink_live` has one event with two handlers and two threads, lengths that fill the
buffer exactly and ones that do not, under fair scheduling. `sink_direct` has one thread, history
3, 5 samples and the times 0 and 1: the least for which a pair is skipped that is not late, and an
event earlier than the buffer can be put before it.

**Bounds of the source.** Two events of one handler, times 0 and 3, lengths 1
and 3, a stream of 4 samples asked for by one or two at a time: an event is played by up to
three calls, overlaps another, runs past `d_maxlen`, and comes late. Two threads
append out of order; one thread with events in the order of their times is the case
in which `readylist` stays in order.

**Bounds of the triggers.** The inputs are all 243 sequences of five samples over three
values, the thresholds the upper two, so that samples are below, at and above
the threshold and every pattern of rises occurs; lookback 1 and guard 4 make an event
clamped at 0, one whose mask ends inside the input and one whose mask does not (a rise
at 3 after one at 1 is masked by nothing, since the event of the first has time 0: what
`edge_distance` finds). Two starts show the
effect of a restart. The sample timer has a period of 2 and passes 4 samples on, in any
cutting, so that a call publishes none, one or several events. The Python timer counts from -1, 0, 1 and 2 and
publishes three events at most; any publication may raise. Publishers act together as `cast` says: the edge trigger
alone, and each timer with PDUs of all three kinds. They share nothing but the port, so more
of them at once only lengthens the runs.

**Bounds of the event flow.** Nine wirings: one and two inputs and outputs, with items
of the same, a larger and a smaller size on the way, one item size the sink cannot publish, and
a handler of each kind for samples as large as, smaller than and larger than the items. Metadata
with any subset of the three keys of an event, bodies of every element type and none, times 0
(the default) and 3, lengths 1 and 3. The conversions do not depend on other messages, so one
event is enough. `HandlerGetsItsSamples` and `VectorsArePlayedWhole` are stated for samples and vectors
that fit the buffer, as `HandlerReturns` below is for hooks that are not `None` and up to an
exception: they show that the conversions are right where the code is defined, and
do not catch the reads and writes beyond a buffer, or the lock that is kept, which the hazards
list without a property.

**Bounds of the flowgraphs.** Two threads, three events of lengths 2, 3 and 1, so that a
flowgraph is used again after a longer and after a shorter event; pools of one and two;
blocks that drop, keep and double the items; a generator that makes up to
three, more than two of the events have room for; each kind of hook before and after
the run, and a flowgraph without vector sink.

**Bounds of the pools.** Two keys, so that the insertion of one disturbs the search for the
other; three threads that all miss the same key, with a pool that starts empty, and two threads with
one item, with one of two keys preallocated, and with both, where pools start with none and with
two. With `initial` 0 items are made by acquisitions only.

**Deadlock** is not checked: every run may stop, with the block stopped and
no event left, on a lock it holds (BALK, a hook that is `None`), or after an exception; a
trigger ends with its input, the handler with its events, an event's way with its end, and a
pool with `Undefined`.

### Fairness

`FairSpec` of the sink: weak fairness of the block's thread inside `work()` and
`stop()`, of each handler thread, and of a caller that holds the queue lock: they are threads
the operating system runs. Upstream's writes are strongly fair, since in the
model they happen between calls of `work()` only, while the scheduler lets upstream
run at any time. Nothing is assumed of events, of the user or of spurious wakeups. The
source's has, besides, strong fairness for a thread that appends to `readylist`,
since `work()` takes and releases the mutex again and again.

The flowgraph handler's is weak fairness of each thread's steps, those of the flowgraph it
runs included: both are threads of the operating system. A thread waits for another only at
a hook. Weak fairness is enough for the interpreter lock because the events are finitely many, so
that the others cannot take it for ever: nothing is assumed of the order in which Python
hands it out. It says besides that a Python hook returns or throws.

The pool's is weak fairness of each thread inside `acquire()`; nothing makes a user ask or
release. A thread that fails to get the lock spins, and still gets in: a key is inserted once, and
there are finitely many keys.

Liveness of the sink rests on details of the code that a small change would break: a
lost `notify_one` is harmless only because `work()` notifies again as long as the
pair's live time holds back samples, and `wait_events` notifies in a loop.
`PunctualIsRun` is stated for events that fit into the buffer and the stream: one that does
not stalls the sink, see the hazards.

### What the violated runs show

1. `sink_direct`. `fetch_next_event` skips a pair whose end is not in the buffer yet, and releases
   the lock before `work()` reads the head again. An event added in between, earlier than
   the buffer, makes the unsigned difference wrap; everything is consumed, and the pair
   that was skipped is discarded later, against "sinks should pick this up the next time
   through" (es_queue.cc:377). `MCEsSinkDirect` adds two history variables for it: `skipped`,
   the pairs a fetch has left in the queue, and `torn`, whether `work()` has read the queue in the
   middle of an insertion. In the trace it has not: the pair (time 1, length 3) is
   skipped, the event at time 0 is added whole after the fetch, the difference wraps, and the
   next fetch discards the pair.
2. `source_order`. "since they are time ordered - we are done here" (es_source.cc:156) does
   not hold of a list threads append to in the order they finish.
3. `source_wakeup`. A thread "constantly receives and services" pairs
   (es_source_thread.cc:64), except one pushed while no thread is waiting yet.
4. `timer_stop`. "number of iterations before stopping" (es_trigger_timer.xml:48):
   `stop()` sets `count` to 0; if the thread is between its test and its decrement, it makes it
   -1, which means for ever, and the join in `stop()` never returns.
5. `edge_distance`. "Minimum Trigger Distance (samples)" (es_trigger_edge_f.xml:30): what is
   remembered of a trigger is the time of its event, a lookback earlier, and a time of 0 counts as
   no event at all. In the trace the guard is 4 and the triggers are at 1 and 3. What does hold is
   `TriggersApart`: `Guard - Lookback` samples, after an event that is not cut off at the beginning
   of the stream.

Four more disagreements have no run, because a reader sees them as easily as a checker;
the models do what the code does:

- "throw an assertion" (es_queue.cc:350) is not reached under BALK: `print_queue` locks the
  mutex that `fetch_next_event` holds (`FetchBalk` ends in `relock`, which nothing leaves).
- "if any return false, suppress addition to queue" (es_queue.cc:221): the results are or-ed
  to an initial true. The pairs stay in a queue that nobody takes them from, with no other effect
  (`queued` in `AddPair`).
- "skip known keys" (es_event_acceptor.cc:53): the test compares a list with a symbol and never
  holds, so every key is copied; if it held, its `continue` would not advance the list and the loop
  would not end. The names it tests are the short ones (`event_time`), which the acceptor has read already
  and the blocks do not look up in an event. What the round trip depends on is that
  the others, the `es::event_*` keys, are put over those the event is made with:
  `RequestComesBack` fails when the latter are put last, which is its mutant
  (`EventOfPduKeeping`).
- "if no hook is set just return" (es_pyhandler_def.i:131): the interpreter lock is not given
  back. `HandlerReturns` is stated for hooks that are not `None`.

### Mutants

Beside each property of a run that holds there is a mutant: an alternative of one
definition (`MinTimeMutant`, `RetireAll`, `InsertLast`, ...), defined next to it and used
by nothing, that breaks the property when it takes the definition's place. They are
the bugs these lines invite: `idx` for `idx + 1`, a forgotten break or decrement, an
event dropped from the counter, a continuation appended instead of inserted.

## 4. The proofs

Every safety property and every refinement that a run of section 3 finds to hold is also a
theorem, for every value of the constants. In the theorems the bounds of the models, such as
`MaxSamples` or the length of the stream, are arbitrary natural numbers.

### What is assumed

- *The sink and the source* (`TimeModAssumption`, `SinkAssumption`, `SourceAssumption`): any
  number of threads, any history, any events, handlers and configurations. Times and lengths
  are within the width of a time; `int` is wide enough for the offsets inside a
  buffer; neither the stream nor `d_maxlen` comes near the largest time; and the handlers bound
  to a type are told apart: if one is bound twice, its two bindings have two identities.
- *The triggers* (`EdgeAssumption`, `TimersAssumption`, `AcceptorAssumption`): lengths and
  distances are natural numbers, the period is not 0, inputs are sequences of integers (the
  comparison of samples is all that matters), the counts are natural or -1, the search is one
  of the three. `TriggersAssumption`: handlers that subscribe twice to a port have two
  identities, as above, and a PDU is a PDU. The identity of a message is not in the message; it only
  lets the model tell one event from another, and that of a PDU is none of a trigger's.
- *The flow of an event* (`EventFlowAssumption`): a sink has an input and a source an output,
  the item sizes are those the sink and the source know, lengths are natural numbers, and no
  stream tag has the name of a key the blocks look up in an event. `handler_pdu` puts the
  tags over the keys of the event, so that one with such a name would replace it.
- *The flowgraph handler* (`FlowgraphAssumption`) and *the pools* (`PoolAssumption`): finitely
  many threads, lengths and initial sizes are natural numbers, at least one flowgraph.
- `NamesAssumption`, `NoneAssumption` and the like: the marker values are distinct from the data.

### What is proved

| Module | Theorem | States |
|---|---|---|
| `EsQueueOpsProofs` | `InsertKeepsOrder` | an insertion found by any of the three searches keeps order |
| `EsSinkProofs` | `TypeCorrect` | `Spec => []TypeOK` |
| | `SortedAlways` | `Spec => []Sorted` |
| | `WindowAlwaysCorrect` | `Spec => []WindowCorrect` |
| | `DiscardedAreLate` | `Spec => []DiscardedWereLate` |
| `EsSinkCountProofs` | `NEventsAlwaysExact` | `Spec => []NEventsExact` |
| | `AlwaysStopsDrained` | `Spec => []StopDrained` |
| | `LiveTimesAlwaysExact` | `Spec => []LiveTimesBlock` |
| | `AlwaysExactlyOnce` | `Spec => []ExactlyOnce` |
| `EsSourceProofs` | `TypeCorrect` | `Spec => []TypeOK` |
| | `AccountedAlways` | `Spec => []Accounted` |
| | `SourcePlaysOut` | `Spec => PlaysOut`: the source implements `Playout` |
| | `InOrderLeavesNothing` | `Spec => InOrderNothingDue` |
| `EsTriggersProofs` | `AlwaysRisesTrigger` | `Spec => []RisesTrigger` |
| | `AlwaysTriggersApart` | `Spec => []TriggersApart` |
| | `SampleTimerAlwaysExact` | `Spec => []SampleTimerExact` |
| | `AlwaysRunsItsCount` | `Spec => []RunsItsCount` |
| | `SubscribersAlwaysServed` | `Spec => []SubscribersServed` |
| `EsEventFlowProofs` | `TypeOKAlways` | `Spec => []TypeOK` |
| | `AlwaysRequestComesBack` | `Spec => []RequestComesBack` |
| | `AlwaysHandlerGetsItsSamples` | `Spec => []HandlerGetsItsSamples` |
| | `VectorsAlwaysPlayedWhole` | `Spec => []VectorsArePlayedWhole` |
| `EsHandlerFlowgraphProofs` | `PoolAlwaysExclusive` | `Spec => []PoolExclusive` |
| | `AlwaysOwnResult` | `Spec => []OwnResult` |
| `EsPooledResourceProofs` | `TypeCorrect` | `Spec => []TypeOK`, for any threads and keys |
| | `ItemsAlwaysApart` | `Spec => []ItemsApart` |
| | `NoneEverLost` | `Spec => []NoneLost` |
| | `PreallocatedAlwaysSafe` | `Spec => []PreallocatedIsSafe` |

### The sink

- `TypeOK` is inductive by itself. It says more than types: `nconsume` never
  exceeds what `work()` was offered, and a thread holds a pair exactly between pop and
  delete.
- `Sorted` is inductive given `TypeOK`. The queue's part rests on
  `InsertPairsKeepsOrder`: the searches differ in where they put equal
  times, and `lower_bound` means anything only because the vector was in order before.
- `WindowCorrect` speaks of pairs already captured; `WindowInv` strengthens it
  to the pairs in every place, `hold` included when it is stale. The capture is right
  (`CaptureIsRight`) because the head is not early, the queue is in order, so that no
  pair behind it is early either (`HeadIsEarliest`), and the offset is then in
  0 .. History + MaxIn - 1, where neither clamp nor truncation changes it.
- `DiscardedWereLate` needs `HoldBackInv`: whenever `work()` may next fetch, every
  pair in the queue that did not come late starts at or after the first sample the
  buffer will then hold. Consuming keeps that (`ConsumableHoldsBack`) because the
  queue is in order and its head not early: that is exactly what a direct caller breaks,
  and why the theorem is for events that come as messages.
- `NEventsExact`, `LiveTimesBlock` and `ExactlyOnce` are counts over places, kept by counting what a
  step puts into a place and takes out of another. For the counter the places are the pair
  in hand between take and push, `qq`, and the threads up to the decrement. `StopDrained` follows:
  `wait_events` ends at 0, and after that nobody takes a pair.
- `LiveTimesBlock` becomes inductive when it is said of *every* time (`LiveInv`): `RetireOne`
  removes the first live time equal to the one it finds in `dq`, and there is one, since a
  time is in `live` as often as in `qq`, at the threads that run and in `dq` together. Under DROP
  this is false: the live time of a dropped pair is recorded all the same and nothing takes it back.
- `ExactlyOnce` is `OnceInv`: the places of a pair add up to 1 once its handler's turn in
  `add_event` has come, and to 0 before. A handler bound twice has two pairs, hence the
  assumption.

### The source

`SourceInv` is one inductive invariant for all of it. A chunk is either a whole
event still to be placed (`Fresh`) or the rest of one, which carries on where its last sample
was written, at or after the present (`Rest`); `Contents` says so of each place, `Apart` that no
event is in two places, and `NoneLost` that each one pending is somewhere. `Continued` is the
converse for a rest: an event placed that reaches beyond the buffer has one in `readylist`.
`RestsWait` says that a rest is due by the end of the buffer and that everything before it in
`readylist` is due no later than it is, so that the loop cannot stop before it has played a rest that
starts inside the buffer, whatever order the threads appended in. `Buffered` is
about the middle of `work()`: each sample is the merge of the events copied to it so far, which
are those that cover it, without the ones whose rest is still to come.

With it each step of the program is a step of `Playout` or changes nothing that it sees:
`AddPair` schedules (`ImplementsSchedule`), `DiscardLate` gives up (`ImplementsGiveUp`), `Play` places
(`ImplementsPlace`) or, with a rest, changes nothing, and `WorkEnd` emits
(`ImplementsEmit`). At this moment the buffer must be the merge of all events that cover it: it
is, by `Buffered`, since no rest starts inside it any more.

`InOrderNothingDue` has an invariant of its own, `OrderInv`: with one thread and events added in order,
an event in `readylist` is no later than what the thread holds, this no later than those in `qq`, and
`readylist` is in order but for what is already due at its head. Then the loop, which stops
at the first chunk beyond the buffer, has left none behind it that is due.

### The triggers

- `RisesTrigger` and `TriggersApart` are inductive together (`EdgeInv`) with what the trigger
  remembers between two samples (`LastSample`, also across calls), between two events
  (`LastTrigger`: the time of the last event, or 0 with none) and between the two reads of the
  threshold (`EdgePlace`: a sample found to be over it is still over the value read then,
  whatever the threshold is now). A new sample adds at most its own position to the rises
  (`NewRise`), and the threshold may move in between, because a rise is stated with the two values
  that were read.
- `SampleTimerExact` needs that the event before the last was due at the horizon of
  *some* call, and horizons only grow (`SampleInv`).
- `RunsItsCount`: what is published and what is left make up the initial count, with one
  in between from a publication to its decrement (`TimerInv`); a publication that raises leaves the
  sum as it is, with at least one left. It is said of a timer that nobody stops, because
  `stop()` breaks exactly this sum.
- `SubscribersServed` relates three components: what a trigger has published, what is still
  in `inbox`, and what the acceptor has put into its queue. `ServedInv` holds it together.
  The messages come in the order they were published, so that before each event there are the
  registrations of its type (`InOrder`); a type that has been registered has each subscriber
  bound once for every registration handled (`Bound`); and an event is in `inbox` at most once, and
  not when its pairs are queued (`OnlyOnce`). So when the turn of an event comes, its pairs
  are those of the subscribers, as often as there were starts before it. Where
  they are inserted does not matter (`AddedPairs`), so the theorem holds for each of the
  searches. That a new event is not one of the past comes from the invariants of the three
  triggers above.

### The flow of an event

What a message becomes depends on it alone. `Course` says at each place what `msg` is as a
function of the message sent, and the properties then are facts about the conversions: of a
vector cut into items of one size and put together in another, of the keys an event has after the
tags, the metadata and the buffers have been put over it. The item sizes are few and the
lengths any number: it is division and multiplication by 1, 2, 4 and 8 that the
lemmas are about.

### Flowgraphs and pools

- `PoolExclusive`: no flowgraph is in two places and none is lost (`PoolApart`,
  `PoolCovered`); if the pool were empty with as many flowgraphs as threads, two of
  them would have the same holder by the pigeonhole principle (`SomeFree`). Hooks change
  nothing of it.
- `OwnResult` needs `FlowInv`: what has come out of a flowgraph, with what is on its way in it,
  is what its blocks make of the items its source has played so far, or of the event its pre-hook was
  told; and nothing is on its way in a flowgraph outside its run. What makes it hold is that a
  flowgraph has one holder (`PoolInv`), and that its source and sink are set and emptied
  before each run, whatever the event before has left in them.
- `ItemsApart` and `NoneLost` of the pools are inductive only together with what is known of
  item numbers (`PoolInv`): stack and hands hold numbers up to `made` (`HandTypes`,
  `StackTypes`), so that a new item is different from all of them. The steps that move
  no item (`Moves`) are dealt with at once.
- `PreallocatedIsSafe` bounds the items made by the users although two threads may be about to
  make one at the same time: each of them is counted with the items already made
  (`Settled`). A thread joins them only when the stack is empty, and then every item is in
  other hands (`AllInHands`, by an injection of the items into the threads).

### What stays with the model checker

The liveness properties (`TakenIsRun`, `PunctualIsRun`, `StopTerminates`, `HandlerReturns`,
`AcquireReturns`), since the prover handles neither fairness nor ENABLED, and the five violated
properties, which are refuted by a counterexample. What a recursive definition computes for
all inputs is out of its reach too (no induction theorem over an operator can be used); the
models have none.

## 5. What is not modelled, and the plan

### Not modelled

- Printing and logging (`event_print`, `print_queue`), the getters and statistics for
  ControlPort and the counters they read: nothing depends on them.
- Names and formats of what handlers write; the terminal input of the keyboard trigger, whose
  events are any publisher's.
- `fetch_next_event2`, the copying variant of `register_buffer`, the class `es_event`, the stub of
  the C++ interleaver: nothing calls them.
- The Python `patterned_interleaver`: it merges streams and has to do with no event. Its
  hazards are a division by zero and an early end, both plain arithmetic.
- I/O signatures, SWIG declarations, GRC descriptions, CMake files, wiring scripts.
- The width of `int` in `es_source::work()`: lengths past 2^31 are not in the runs.
- Reference counts in the hook callback, and a factory of flowgraphs that throws in the
  constructor, before any thread exists.
- Data races whose only further outcome is a crash: `eh->event` assigned in
  es_source_thread.cc:113 while `add_event` reads the time of the same pair, and `add_event`
  reading the bindings before it takes the lock. The race in `pooled_resource.h` is modelled up to
  the point where it happens (`Undefined`).

### The rest of the plan

1. Theorems about what the violated runs leave: by how much a stopped timer may go beyond its
   count, if its thread is not between test and decrement; that under DROP the live times are at
   least those of the pairs in flight; which pairs a thread may leave in `qq` when it misses the
   only notification.
2. A pipeline of a trigger, its messages and a sink: by how much an event may be late
   before its samples have left the buffer, as a function of history, lookback and the samples
   that pass while the message is under way. It needs no new component.

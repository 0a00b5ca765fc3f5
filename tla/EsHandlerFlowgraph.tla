------------------------- MODULE EsHandlerFlowgraph -------------------------
(***************************************************************************)
(* The handler es_handler_flowgraph (lib/es_handler_flowgraph.cc), called  *)
(* by several handler threads at once: each call takes a flowgraph from a  *)
(* lock-free pool, runs it over the event's samples and puts it back.      *)
(*                                                                         *)
(* A flowgraph is a vector source, the user's blocks and a vector sink     *)
(* (EsVectorIO); the user's blocks turn each item into Gain items.  A      *)
(* flowgraph for es_source has no vector source: it makes items itself, of *)
(* the event that its pre-hook told it; from one without vector sink       *)
(* nothing is copied.                                                      *)
(*                                                                         *)
(* The hooks before and after the run (lib/es_pyhandler_def.cc) are Python *)
(* functions, called with the interpreter lock of Python held              *)
(* (PythonHookCallBack in swig/es_pyhandler_def.i).                        *)
(***************************************************************************)
EXTENDS EsVectorIO, FiniteSets

CONSTANTS
    Events,       \* the events handled, each once
    LengthOf,     \* their lengths (num_items)
    Threads,      \* the handler threads
    MaxPool,      \* the most flowgraphs an instance has
    MaxMade,      \* bound: items a flowgraph without vector source makes
    MaxWork,      \* bound: items moved by one call of work() in a flowgraph
    Options,      \* the configurations explored (see OptionSpace)
    None

\* A hook was never set, set to a function, or set to Python's None.
Hooks == {"unset", "python", "none"}

OptionSpace ==
    [pool   : 1 .. MaxPool,   \* pool_size
     source : BOOLEAN,        \* the flowgraph has a vector source
     sink   : BOOLEAN,        \* ... and a vector sink
     gain   : Nat,
     pre    : Hooks, post : Hooks]

ASSUME FlowgraphAssumption ==
    /\ LengthOf \in [Events -> Nat]
    /\ IsFiniteSet(Threads) /\ None \notin Nat \cup Threads
    /\ MaxPool \in Nat \ {0} /\ MaxWork \in Nat \ {0} /\ MaxMade \in Nat
    /\ Options \subseteq OptionSpace

VARIABLES
    opt,
    todo,       \* the events not yet handed to a thread
    free,       \* d_free_pyhandlers
    pc,         \* where each thread is in handler()
    evt, fg,    \* the event each thread handles and the flowgraph it has
    src, snk,   \* the vector source and sink of each flowgraph
    pipe,       \* items on their way through each flowgraph
    ended,      \* flowgraphs whose source has said that it is done
    told,       \* the event that the pre-hook last told each flowgraph
    buf,        \* the buffer of each event, None until it is written
    gil,        \* the thread that holds the interpreter lock
    kept        \* the thread that returned from a hook with it

flowVars == <<src, snk, pipe, ended>>
hookVars == <<told, gil, kept>>
vars == <<opt, todo, free, pc, evt, fg, flowVars, hookVars, buf>>

Pool == 1 .. opt.pool

Init ==
    /\ opt \in Options /\ todo = Events
    /\ free = [k \in Pool |-> k]
    /\ pc = [t \in Threads |-> "idle"]
    /\ evt = [t \in Threads |-> None] /\ fg = [t \in Threads |-> None]
    /\ src = [f \in Pool |-> Cleared] /\ snk = [f \in Pool |-> EmptySink]
    /\ pipe = [f \in Pool |-> <<>>] /\ ended = {}
    /\ told = [f \in Pool |-> None] /\ gil = None /\ kept = None
    /\ buf = [e \in Events |-> None]

Goto(t, from, to) == pc[t] = from /\ pc' = [pc EXCEPT ![t] = to]

\* An exception that leaves handler() ends the program, and what a call with an
\* uninitialized flowgraph does is undefined.
Lives == \A t \in Threads : pc[t] \notin {"thrown", "wild"}

Samples(e) == [k \in 1 .. LengthOf[e] |-> <<e, k>>]
Zeros(n) == [k \in 1 .. n |-> None]

-----------------------------------------------------------------------------
\* The call takes a free flowgraph, if there is one.
Grab(t, e) ==
    /\ Lives /\ Goto(t, "idle", "prepare")
    /\ free # <<>>
    /\ todo' = todo \ {e}
    /\ evt' = [evt EXCEPT ![t] = e]
    /\ fg' = [fg EXCEPT ![t] = Head(free)]
    /\ free' = Tail(free)
    /\ UNCHANGED <<opt, flowVars, hookVars, buf>>

\* The result of the pop is not looked at.
GrabNothing(t, e) ==
    /\ Lives /\ Goto(t, "idle", "wild")
    /\ free = <<>>
    /\ todo' = todo \ {e}
    /\ evt' = [evt EXCEPT ![t] = e]
    /\ UNCHANGED <<opt, free, fg, flowVars, hookVars, buf>>

PrepareUncleared(t) ==
    /\ Lives /\ Goto(t, "prepare", "prehook")
    /\ LET f == fg[t] IN
       /\ src' = IF opt.source THEN [src EXCEPT ![f] = SetData(Samples(evt[t]))]
                 ELSE src
       /\ ended' = ended \ {f}
    /\ UNCHANGED <<opt, todo, free, evt, fg, snk, pipe, hookVars, buf>>

\* The event's samples go to the source, the sink is emptied, tb->run() starts.
Prepare(t) ==
    /\ Lives /\ Goto(t, "prepare", "prehook")
    /\ LET f == fg[t] IN
       /\ src' = IF opt.source THEN [src EXCEPT ![f] = SetData(Samples(evt[t]))]
                 ELSE src
       /\ snk' = [snk EXCEPT ![f] = EmptySink]
       /\ ended' = ended \ {f}
    /\ UNCHANGED <<opt, todo, free, evt, fg, pipe, hookVars, buf>>

-----------------------------------------------------------------------------
\* Where a hook is run, which, and what comes after it.
HookAt(place) == IF place = "prehook" THEN opt.pre ELSE opt.post
Inside(place) == IF place = "prehook" THEN "inpre" ELSE "inpost"
After(place)  == IF place \in {"prehook", "inpre"} THEN "run" ELSE "copy"

AtHook(t, hook, to) ==
    /\ Lives /\ pc[t] \in {"prehook", "posthook"}
    /\ HookAt(pc[t]) = hook
    /\ pc' = [pc EXCEPT ![t] = to]
    /\ UNCHANGED <<opt, todo, free, evt, fg, flowVars, buf>>

SkipHook(t) == AtHook(t, "unset", After(pc[t])) /\ UNCHANGED hookVars

\* PyGILState_Ensure; a thread that has the lock passes.
TakeGil(t) == gil \in {None, t} /\ gil' = t

\* The early return leaves the lock taken.
HookIsNone(t) ==
    /\ AtHook(t, "none", After(pc[t])) /\ TakeGil(t)
    /\ kept' = t
    /\ UNCHANGED told

EnterHook(t) ==
    /\ AtHook(t, "python", Inside(pc[t])) /\ TakeGil(t)
    /\ UNCHANGED <<told, kept>>

InHook(t) == Lives /\ pc[t] \in {"inpre", "inpost"}

LeaveHookLocked(t) ==    \* without PyGILState_Release
    /\ InHook(t)
    /\ pc' = [pc EXCEPT ![t] = After(@)]
    /\ told' = IF pc[t] = "inpre" THEN [told EXCEPT ![fg[t]] = evt[t]] ELSE told
    /\ UNCHANGED <<opt, todo, free, evt, fg, flowVars, gil, kept, buf>>

\* The pre-hook tells the flowgraph its event; PyGILState_Release gives the lock
\* back unless the thread had it before.
LeaveHook(t) ==
    /\ InHook(t)
    /\ pc' = [pc EXCEPT ![t] = After(@)]
    /\ told' = IF pc[t] = "inpre" THEN [told EXCEPT ![fg[t]] = evt[t]] ELSE told
    /\ gil' = kept
    /\ UNCHANGED <<opt, todo, free, evt, fg, flowVars, kept, buf>>

\* An error in the Python function is thrown on, with the lock.
HookThrows(t) ==
    /\ InHook(t)
    /\ pc' = [pc EXCEPT ![t] = "thrown"]
    /\ UNCHANGED <<opt, todo, free, evt, fg, flowVars, hookVars, buf>>

-----------------------------------------------------------------------------
\* What the user's blocks make of some items.
Through(items) ==
    [k \in 1 .. (opt.gain * Len(items)) |-> items[((k - 1) \div opt.gain) + 1]]

Running(t, f) == Lives /\ pc[t] = "run" /\ f = fg[t] /\ f \notin ended

SourceWork(t, n) ==
    \E f \in Pool :
        /\ opt.source /\ Running(t, f)
        /\ src' = [src EXCEPT ![f] = Advanced(@, n)]
        /\ pipe' = [pipe EXCEPT ![f] = @ \o Through(Played(src[f], n))]
        /\ ended' = IF SaysDone(src[f], n) THEN ended \cup {f} ELSE ended
        /\ UNCHANGED <<opt, todo, free, pc, evt, fg, snk, hookVars, buf>>

\* A flowgraph without vector source makes n items of the event it knows, and is done.
Make(t, n) ==
    \E f \in Pool :
        /\ ~opt.source /\ Running(t, f)
        /\ pipe' = [pipe EXCEPT ![f] = @ \o [k \in 1 .. n |-> <<told[f], k>>]]
        /\ ended' = ended \cup {f}
        /\ UNCHANGED <<opt, todo, free, pc, evt, fg, src, snk, hookVars, buf>>

SinkWork(t, n) ==
    /\ Lives /\ pc[t] = "run"
    /\ LET f == fg[t] IN
       /\ n <= Len(pipe[f])
       /\ snk' = IF opt.sink
                 THEN [snk EXCEPT ![f] = Collected(@, SubSeq(pipe[f], 1, n))]
                 ELSE snk
       /\ pipe' = [pipe EXCEPT ![f] = SubSeq(@, n + 1, Len(@))]
    /\ UNCHANGED <<opt, todo, free, pc, evt, fg, src, ended, hookVars, buf>>

RunReleased(t) ==    \* the flowgraph goes back before its items are copied
    /\ Lives /\ Goto(t, "run", "posthook")
    /\ fg[t] \in ended /\ pipe[fg[t]] = <<>>
    /\ free' = Append(free, fg[t])
    /\ UNCHANGED <<opt, todo, evt, fg, flowVars, hookVars, buf>>

RunReturns(t) ==     \* tb->run()
    /\ Lives /\ Goto(t, "run", "posthook")
    /\ fg[t] \in ended /\ pipe[fg[t]] = <<>>
    /\ UNCHANGED <<opt, todo, free, evt, fg, flowVars, hookVars, buf>>

\* The items collected go to the event's buffer, padded with zeros.
CopyOut(t) ==
    /\ Lives /\ Goto(t, "copy", "release")
    /\ opt.sink
    /\ LET items == snk[fg[t]]
           len   == LengthOf[evt[t]]
       IN  /\ Len(items) <= len
           /\ buf' = [buf EXCEPT ![evt[t]] = items \o Zeros(len - Len(items))]
    /\ UNCHANGED <<opt, todo, free, evt, fg, flowVars, hookVars>>

CopyNothing(t) ==
    /\ Lives /\ Goto(t, "copy", "release")
    /\ ~opt.sink
    /\ UNCHANGED <<opt, todo, free, evt, fg, flowVars, hookVars, buf>>

\* More items than the event has room for.
Throw(t) ==
    /\ Lives /\ Goto(t, "copy", "thrown")
    /\ opt.sink
    /\ Len(snk[fg[t]]) > LengthOf[evt[t]]
    /\ UNCHANGED <<opt, todo, free, evt, fg, flowVars, hookVars, buf>>

Release(t) ==
    /\ Lives /\ Goto(t, "release", "idle")
    /\ free' = Append(free, fg[t])
    /\ evt' = [evt EXCEPT ![t] = None] /\ fg' = [fg EXCEPT ![t] = None]
    /\ UNCHANGED <<opt, todo, flowVars, hookVars, buf>>

-----------------------------------------------------------------------------
Step(t) == \/ Prepare(t) \/ RunReturns(t)
           \/ SkipHook(t) \/ HookIsNone(t)
           \/ EnterHook(t) \/ LeaveHook(t) \/ HookThrows(t)
           \/ CopyOut(t) \/ CopyNothing(t) \/ Throw(t) \/ Release(t)
           \/ \E n \in 1 .. MaxWork : SourceWork(t, n) \/ SinkWork(t, n)
           \/ \E n \in 0 .. MaxMade : Make(t, n)

Next == \E t \in Threads :
            Step(t) \/ \E e \in todo : Grab(t, e) \/ GrabNothing(t, e)

Spec == Init /\ [][Next]_vars

\* A handler thread and the scheduler of its flowgraph keep running.
FairSpec == Spec /\ \A t \in Threads : WF_vars(Step(t))

-----------------------------------------------------------------------------
(* Properties.                                                             *)

\* Every flowgraph is in the pool once or with one thread, so that no two threads
\* ever work on the same one; with as many flowgraphs as threads a call always
\* gets one.
PoolExclusive ==
    /\ \A f \in Pool :
          Cardinality({k \in 1 .. Len(free) : free[k] = f})
            + Cardinality({t \in Threads : fg[t] = f}) = 1
    /\ opt.pool >= Cardinality(Threads) => \A t \in Threads : pc[t] # "wild"

\* What is written to an event's buffer is what the flowgraph makes of this event,
\* whole and in order, padded with zeros to the event's length: nothing of the run
\* before is left in it, however the items were cut into calls, and a flowgraph that
\* makes the items itself was told of this event and no other.
OwnResult ==
    \A e \in Events :
        buf[e] # None =>
            \E n \in 0 .. LengthOf[e] :
                LET known == IF opt.pre = "python" THEN e ELSE None
                    items == IF opt.source THEN Through(Samples(e))
                             ELSE [k \in 1 .. n |-> <<known, k>>]
                IN  buf[e] = items \o Zeros(LengthOf[e] - Len(items))

\* Every call that has a flowgraph gets through its hooks and its run and gives the
\* flowgraph back, unless the program ends before: the threads wait for each other's
\* hooks, never for ever.  (A hook set to None does not give the interpreter lock back,
\* and the other threads wait for it for ever.)
HandlerReturns ==
    "none" \notin {opt.pre, opt.post} =>
        \A t \in Threads : (pc[t] = "prepare") ~> (pc[t] = "idle" \/ ~Lives)
=============================================================================

----------------------------- MODULE EsTriggers -----------------------------
(***************************************************************************)
(* The triggers and another block that sends PDUs, publishing to one       *)
(* acceptor, which handles one message at a time whenever it gets to it.   *)
(***************************************************************************)
EXTENDS EsTriggerEdge, EsTriggerTimers, EsEventAcceptor, FiniteSets, Functions

CONSTANTS
    Pdus,     \* the PDUs sent, each at most once
    Casts     \* the sets of publishers explored, of "edge", "sample", "timer", "pdu"

\* A handler that subscribes twice to a port has two identities, and no PDU has the
\* identity of a trigger's event (ids are not in the messages, they tell events apart).
ASSUME TriggersAssumption ==
    /\ \A targets \in {EdgeTargets, SampleTargets, TimerTargets} :
          targets \in Seq(Range(targets)) /\ IsInjective(targets)
    /\ \A m \in Pdus : m.kind = "pdu" /\ m.id[1] \notin {"edge", "sample", "timer"}

VARIABLES cast, sent

vars == <<inbox, edgeVars, sampleVars, timerVars, acceptorVars, cast, sent>>

Init ==
    /\ inbox = <<>>
    /\ EdgeInit /\ TimersInit /\ AcceptorInit
    /\ cast \in Casts /\ sent = {}
    /\ "edge" \in cast \/ <<signal, d_thresh>> = CHOOSE x \in Signals \X Thresholds : TRUE
    /\ "timer" \in cast \/ count_init = CHOOSE c \in CountInits : TRUE

SendPdu(m) ==
    /\ m \notin sent
    /\ Publish(m) /\ sent' = sent \cup {m}

Next ==
    \/ /\ "edge" \in cast /\ EdgeStep
       /\ UNCHANGED <<sampleVars, timerVars, acceptorVars, cast, sent>>
    \/ /\ "sample" \in cast /\ SampleTimerStep
       /\ UNCHANGED <<edgeVars, timerVars, acceptorVars, cast, sent>>
    \/ /\ "timer" \in cast /\ TimerStep
       /\ UNCHANGED <<edgeVars, sampleVars, acceptorVars, cast, sent>>
    \/ /\ "pdu" \in cast /\ \E m \in Pdus : SendPdu(m)
       /\ UNCHANGED <<edgeVars, sampleVars, timerVars, acceptorVars, cast>>
    \/ /\ AcceptorStep
       /\ UNCHANGED <<edgeVars, sampleVars, timerVars, cast, sent>>

Spec == Init /\ [][Next]_vars

-----------------------------------------------------------------------------
(* Properties.                                                             *)

InInbox(id) == \E k \in 1 .. Len(inbox) :
                  inbox[k].kind # "register" /\ inbox[k].id = id

PairsInQueue(id, h) ==
    Cardinality({k \in 1 .. Len(queue) : queue[k].id = id /\ queue[k].hnd = h})

\* The third part of an id is the number of starts before the event.
Served(id, targets) ==
    \A k \in 1 .. Len(targets) : PairsInQueue(id, targets[k]) = id[3]

\* A trigger's registration is handled before its events, whoever else publishes
\* in between: no event of an es_trigger is refused or lost on the way, and it gets
\* a pair for every subscriber, once more for every restart of the flowgraph
\* before it.  The Python timer starts its thread before it registers: exactly the
\* events that this thread publishes before the registration are refused.
SubscribersServed ==
    /\ \A n \in fired : \E s \in 1 .. e_starts :
          LET id == <<"edge", n, s>> IN InInbox(id) \/ Served(id, EdgeTargets)
    /\ \A k \in 1 .. Len(ticks) :
          LET id == <<"sample", ticks[k], 1>>
          IN  InInbox(id) \/ Served(id, SampleTargets)
    /\ \A n \in 1 .. published :
          LET id == <<"timer", n, 1>>
          IN  \/ InInbox(id)
              \/ IF n > unannounced THEN Served(id, TimerTargets) ELSE id \in refused
=============================================================================

-------------------------- MODULE EsEventAcceptor --------------------------
(***************************************************************************)
(* es_event_acceptor (lib/es_event_acceptor.cc), the base of es_sink and   *)
(* es_source, which turns the messages on schedule_event into calls of     *)
(* its queue, and the bindings of that queue (lib/es_queue.cc): which      *)
(* handlers a type of event has.  Nothing takes pairs from the queue here. *)
(***************************************************************************)
EXTENDS EsMessages, EsQueueOps

CONSTANT Search    \* d_search_behavior

ASSUME AcceptorAssumption == Search \in SearchBehaviors

VARIABLES
    bindings,    \* the handlers of each registered type, in binding order
    queue,       \* event_queue->event_queue
    refused      \* (not state of the program) events and PDUs not queued

acceptorVars == <<bindings, queue, refused>>

AcceptorInit == bindings = <<>> /\ queue = <<>> /\ refused = {}

Registered == DOMAIN bindings

-----------------------------------------------------------------------------
Receive(kind) == /\ inbox # <<>> /\ Head(inbox).kind = kind
                 /\ inbox' = Tail(inbox)

HandlersAnew(type) == <<>>      \* a type registered again starts afresh

\* The handlers a type has when it is (perhaps once more) registered.
HandlersBefore(type) == IF type \in Registered THEN bindings[type] ELSE <<>>

\* register_event_type, then bind_handler for each target in turn.
AddHandlers ==
    /\ Receive("register")
    /\ LET m == Head(inbox)
       IN  bindings' = [x \in Registered \cup {m.type} |->
                           IF x = m.type THEN HandlersBefore(x) \o m.targets
                           ELSE bindings[x]]
    /\ UNCHANGED <<queue, refused>>

PairsOf(e) ==
    LET hs == bindings[e.type]
    IN  [k \in 1 .. Len(hs) |->
            [id |-> e.id, hnd |-> hs[(Len(hs) + 1) - k], time |-> e.time,
             len |-> e.len]]

\* es_queue::add_event: an event of an unknown type is refused; the pairs of
\* one event all go in at the same index.
AddEvent(e) ==
    IF e.type \in Registered
    THEN /\ \E i \in FindIndex(Search, Times(queue), e.time) :
               queue' = Splice(queue, i, PairsOf(e))
         /\ UNCHANGED <<bindings, refused>>
    ELSE /\ refused' = refused \cup {e.id}
         /\ UNCHANGED <<bindings, queue>>

ScheduleEvent == Receive("event") /\ AddEvent(Head(inbox))

\* A PDU, in which any of type, time and length may be missing (None).  A
\* vector's length is the event's; with an empty vector it is in the metadata.
CONSTANT None

OrDefault(v, default) == IF v = None THEN default ELSE v

EventOf(m) ==
    Event(m.id, OrDefault(m.type, "pdu_event"), OrDefault(m.time, 0),
          IF m.body = "vector" THEN m.vlen ELSE OrDefault(m.len, 0))

SchedulePdu ==
    /\ Receive("pdu") /\ Head(inbox).body \in {"vector", "null"}
    /\ AddEvent(EventOf(Head(inbox)))

\* Neither event nor PDU, or a PDU without a vector: discarded.
DiscardMessage ==
    /\ Receive("pdu") /\ Head(inbox).body \notin {"vector", "null"}
    /\ refused' = refused \cup {Head(inbox).id}
    /\ UNCHANGED <<bindings, queue>>

AcceptorStep == AddHandlers \/ ScheduleEvent \/ SchedulePdu \/ DiscardMessage
=============================================================================

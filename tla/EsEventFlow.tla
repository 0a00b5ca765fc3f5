---------------------------- MODULE EsEventFlow ----------------------------
(***************************************************************************)
(* What an event carries on its way through es_sink and es_source: a       *)
(* request or a vector is sent to one of them, the sink copies samples     *)
(* into the event and runs its handler, the handler publishes a PDU to a   *)
(* source, and the source lets es_handler_insert_vector fill its buffers.  *)
(* Threads and queues are the subject of EsSink and EsSource; here one     *)
(* event is followed through every conversion of its contents.             *)
(*                                                                         *)
(* A byte of the input stream is <<input, item, place in the item>>, a     *)
(* byte of a user's vector <<0, place, 0>>, and a zero <<0, 0, 0>>.        *)
(***************************************************************************)
EXTENDS EsHandlers, Functions

CONSTANTS
    Options,   \* item sizes of the sink's inputs and the source's outputs, and the
               \* handler bound to the type "burst" in the sink
    Times,     \* event times
    Lens,      \* event lengths, and the numbers of elements of a user's vector
    Tags       \* the tags work() of the sink has seen last

HandlerTypes == {"f32", "c32"}

OptionSpace ==
    [insig : Seq({2, 4, 8}), outsig : Seq({1, 4, 8}),
     burst : [kind : {"pdu", "file", "print"}, type : HandlerTypes]
             \cup [kind : {"passthrough", "none"}]]

\* A sink has an input, a source has an output, and no tag of the stream has the name of
\* a key that the blocks look up in an event: the tags are put over the event's keys.
ASSUME EventFlowAssumption ==
    /\ Options \subseteq {o \in OptionSpace : o.insig # <<>> /\ o.outsig # <<>>}
    /\ Lens \subseteq Nat
    /\ DOMAIN Tags \cap {"es::event_type", "es::event_time", "es::event_length",
                         "vector"} = {}

VARIABLES
    opt,       \* the member of Options in force
    at,        \* where the event is
    msg,       \* the message, the event, or what has become of it
    sent       \* the block and the message the user sent

vars == <<opt, at, msg, sent>>

Failures == {"discarded", "refused", "threw", "overread", "overrun"}
Ends     == Failures \cup {"filed", "printed", "played"}

Places == {"user", "sink port", "sink queue", "sink thread",
           "source port", "source queue", "source thread"} \cup Ends

PortOf(block)  == IF block = "sink" THEN "sink port" ELSE "source port"
QueueOf(block) == IF block = "sink" THEN "sink queue" ELSE "source queue"

Nothing == [kind |-> "nothing"]

Init ==
    /\ opt \in Options
    /\ at = "user"
    /\ msg = Nothing
    /\ sent = [to |-> "nobody", msg |-> Nothing]

-----------------------------------------------------------------------------
(* The user, or a block of the flowgraph, sends a message.                 *)

UserVector(type, n) ==
    Vector(type, [k \in 1 .. n * SizeOf[type] |-> <<0, k, 0>>])

Send(block, m) ==
    /\ at = "user"
    /\ at' = PortOf(block)
    /\ msg' = m
    /\ sent' = [to |-> block, msg |-> m]
    /\ UNCHANGED opt

Metas ==
    {Restrict(d, keys) :
        d \in [event_time : Times, event_length : Lens, event_type : {"burst"}],
        keys \in SUBSET {"event_time", "event_length", "event_type"}}

Bodies == {Null} \cup {UserVector(type, n) : type \in ElementTypes, n \in Lens}

SendPdu ==
    \E block \in {"sink", "source"}, m \in Metas, v \in Bodies :
        Send(block, Pdu(m, v))

SendEvent ==
    \E t \in Times, n \in Lens, type \in {"pdu_event", "burst"} :
        Send("sink", EventCreate(type, t, n))

SendVector ==
    \E t \in Times, n \in Lens :
        \/ Send("source", GenVectorF(t, UserVector("f32", n)))
        \/ Send("source", GenVectorC(t, UserVector("c32", n)))
        \/ \E size \in {1, 2, 4} :
               Send("source", GenVectorB(t, UserVector("u8", n), size))
        \/ \E type \in {"f32", "c32"} :
               Send("source", ArgsAdd(EventCreate("pdu_event", t, n),
                                      "vector", UserVector(type, n)))

SendVectors ==         \* a vector for each output, n items long
    \E t \in Times, n \in Lens :
        Send("source",
             GenVector(t, [i \in 1 .. Len(opt.outsig) |->
                              UserVector("u8", n * opt.outsig[i])], opt.outsig))

-----------------------------------------------------------------------------
(* es_event_acceptor and es_queue::add_event, in either block.             *)

\* The user registers the types of the events with vectors and binds
\* es_handler_insert_vector to them, as in python/test1.py.
TypesOf(block) ==
    IF block = "sink"
    THEN {"pdu_event"} \cup (IF opt.burst.kind = "none" THEN {} ELSE {"burst"})
    ELSE {"pdu_event", "es::event_type_gen_vector_f", "es::event_type_gen_vector_c",
          "es::event_type_gen_vector_b", "es::event_type_gen_vector"}

AsEvent(m) == IF IsEvent(m) THEN m ELSE EventOfPdu(m)

Accept(block) ==
    /\ at = PortOf(block)
    /\ IF ~IsEvent(msg) /\ ~IsConvertible(msg)
       THEN at' = "discarded" /\ UNCHANGED msg
       ELSE IF Field(AsEvent(msg), "es::event_type") \notin TypesOf(block)
       THEN at' = "refused" /\ UNCHANGED msg
       ELSE at' = QueueOf(block) /\ msg' = AsEvent(msg)
    /\ UNCHANGED <<opt, sent>>

-----------------------------------------------------------------------------
(* The sink: work() copies the samples, a thread runs the handler.         *)

StreamBytes(input, first, n) ==
    [k \in 1 .. n * opt.insig[input] |->
        <<input, first + (k - 1) \div opt.insig[input], (k - 1) % opt.insig[input]>>]

Tagged(e) == EventOfHash(DictUpdate(e.hash, Tags))

Captured(e) ==
    RegisterBuffer(Tagged(e),
        ListOf([i \in 1 .. Len(opt.insig) |->
                   Vector("u8", StreamBytes(i, TimeOf(e), LengthOf(e)))]))

CaptureUnregistered ==     \* the buffers are copied and not registered
    /\ at = "sink queue" /\ at' = "sink thread"
    /\ msg' = Tagged(msg)
    /\ UNCHANGED <<opt, sent>>

Capture ==
    /\ at = "sink queue" /\ at' = "sink thread"
    /\ msg' = Captured(msg)
    /\ UNCHANGED <<opt, sent>>

\* What the handler of the event's type makes of it, and where that goes.
Handled(e) ==
    IF TypeIs(e, "pdu_event") THEN SinkHandler(e, opt.insig)
    ELSE CASE opt.burst.kind = "pdu"   -> PduHandler(e, opt.burst.type)
           [] opt.burst.kind = "file"  -> FileHandler(e, opt.burst.type)
           [] opt.burst.kind = "print" -> PrintHandler(e, opt.burst.type)
           [] OTHER                    -> Done(e)

Publishes(e) == TypeIs(e, "pdu_event") \/ opt.burst.kind \in {"pdu", "passthrough"}

HandledTo(e) ==
    LET end == Handled(e).end
    IN  IF end # "done" THEN end
        ELSE IF Publishes(e) THEN "source port"
        ELSE IF opt.burst.kind = "file" THEN "filed" ELSE "printed"

RunInSink ==
    /\ at = "sink thread" /\ at' = HandledTo(msg)
    /\ msg' = Handled(msg).result
    /\ UNCHANGED <<opt, sent>>

-----------------------------------------------------------------------------
(* The source: a thread allocates zeroed buffers and runs the handler.     *)

AllocateLikeFirst(n) ==     \* out_sig[0] for out_sig[i]
    [i \in 1 .. Len(opt.outsig) |->
        Vector("u8", [k \in 1 .. n * opt.outsig[1] |-> <<0, 0, 0>>])]

Allocate(n) ==
    [i \in 1 .. Len(opt.outsig) |->
        Vector("u8", [k \in 1 .. n * opt.outsig[i] |-> <<0, 0, 0>>])]

GiveBuffers ==
    /\ at = "source queue" /\ at' = "source thread"
    /\ msg' = RegisterBuffer(msg, ListOf(Allocate(LengthOf(msg))))
    /\ UNCHANGED <<opt, sent>>

RunInSource ==
    LET filled == InsertVector(msg)
    IN  /\ at = "source thread"
        /\ IF filled.end = "done"
           THEN /\ at' = "played"
                /\ msg' = [time |-> TimeOf(msg), length |-> LengthOf(msg),
                           buffers |-> filled.result]
           ELSE at' = filled.end /\ UNCHANGED msg
        /\ UNCHANGED <<opt, sent>>

Next ==
    \/ SendPdu \/ SendEvent \/ SendVector \/ SendVectors
    \/ \E block \in {"sink", "source"} : Accept(block)
    \/ Capture \/ RunInSink
    \/ GiveBuffers \/ RunInSource

Spec == Init /\ [][Next]_vars

-----------------------------------------------------------------------------
(* Properties.                                                             *)

\* What an output of n items holds after a handler wrote bytes at its start.
Filled(output, n, bytes) ==
    [k \in 1 .. n * opt.outsig[output] |->
        IF k <= Len(bytes) THEN bytes[k] ELSE <<0, 0, 0>>]

TypeOK ==
    /\ opt \in Options /\ at \in Places
    /\ at \notin Ends \cup {"user", "sink port", "source port"} =>
           /\ IsEvent(msg)
           /\ {"es::event_type", "es::event_time", "es::event_length"} \subseteq DOMAIN msg.hash
           /\ HasField(msg, "es::event_buffer") <=>
                  \/ at \in {"sink thread", "source thread"}
                  \/ sent.to = "sink" /\ at = "source queue"

\* A request for samples, by its time and length.
RequestTime ==
    IF IsEvent(sent.msg) THEN sent.msg.hash["es::event_time"]
    ELSE DictRef(sent.msg.meta, "event_time", 0)

RequestLength ==
    IF IsEvent(sent.msg) THEN sent.msg.hash["es::event_length"]
    ELSE DictRef(sent.msg.meta, "event_length", 0)

RequestType ==
    IF IsEvent(sent.msg) THEN sent.msg.hash["es::event_type"]
    ELSE DictRef(sent.msg.meta, "event_type", "pdu_event")

IsRequest ==
    sent.to = "sink" /\ (IsEvent(sent.msg) \/ sent.msg.body = Null)

Requested == StreamBytes(1, RequestTime, RequestLength)

\* A request to a sink with one input of shorts or floats, wired to a source with one
\* output, comes out of the source as it went in: at the time and with the length that was
\* asked for, and sample for sample. On the way the samples are published as a vector of
\* twice as many shorts, made into an event of time 0 and of that length
\* (es_event_acceptor.cc:23-44), and only the copied metadata restores both
\* (es_event_acceptor.cc:50-58).
RequestComesBack ==
    /\ at \in Ends /\ IsRequest /\ RequestType = "pdu_event"
    /\ Len(opt.insig) = 1 /\ opt.insig[1] \in {4, 8}
    /\ Len(opt.outsig) = 1 /\ opt.outsig[1] >= opt.insig[1]
    => /\ at = "played"
       /\ msg = [time |-> RequestTime, length |-> RequestLength,
                 buffers |-> <<Filled(1, RequestLength, Requested)>>]

\* A handler of one type of samples (es_handler_pdu, es_handler_file,
\* es_handler_print) sees the samples of its event, from the first input's buffer: it
\* reads beyond only if its samples are larger than the items of that input.
HandlerGetsItsSamples ==
    /\ at \in Ends /\ IsRequest /\ RequestType = "burst"
    /\ opt.burst.kind \in {"pdu", "file", "print"}
    /\ SizeOf[opt.burst.type] <= opt.insig[1]
    => LET whole == SubSeq(Requested, 1, RequestLength * SizeOf[opt.burst.type])
       IN  CASE opt.burst.kind = "file" ->
                    at = "filed" /\ msg.content = whole /\ msg.name[2] = RequestTime
             [] opt.burst.kind = "print" -> at = "printed" /\ msg.content = whole
             [] OTHER -> at = "refused" /\ msg.body = Vector(opt.burst.type, whole)

\* The vectors sent to a source, one for each output, and how many items they make.
SentVectors ==
    LET m == sent.msg
        v == IF IsEvent(m) THEN m.hash["vector"] ELSE m.body
    IN  IF v.kind = "list" THEN [i \in 1 .. Len(opt.outsig) |-> v.items[i].bytes]
        ELSE [i \in 1 .. Len(opt.outsig) |-> v.bytes]

SentItems ==
    IF IsEvent(sent.msg) THEN sent.msg.hash["es::event_length"] ELSE Length(sent.msg.body)

HasVectors ==
    /\ sent.to = "source"
    /\ IsEvent(sent.msg) \/ (sent.msg.body # Null /\ "event_type" \notin DOMAIN sent.msg.meta)
    /\ Len(opt.outsig) = 1 \/ (IsEvent(sent.msg) /\ ~TypeIs(sent.msg, "pdu_event"))

\* es_handler_insert_vector writes no further than the buffers of the source when the items
\* of the vectors are no larger than those of the outputs, "we really should be making sure
\* buffer lenghts line up here" (es_handler_insert_vector.cc:128): such vectors are played
\* whole, followed by zeros, on every output.
VectorsArePlayedWhole ==
    /\ at \in Ends /\ HasVectors
    /\ \A i \in 1 .. Len(opt.outsig) : Len(SentVectors[i]) <= SentItems * opt.outsig[i]
    => /\ at = "played"
       /\ msg.buffers = [i \in 1 .. Len(opt.outsig) |-> Filled(i, SentItems, SentVectors[i])]
=============================================================================

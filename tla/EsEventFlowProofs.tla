------------------------- MODULE EsEventFlowProofs -------------------------
(* Theorems about what an event carries, for all item sizes, numbers of     *)
(* inputs and outputs, times, lengths and tags.                             *)
(*                                                                          *)
(* What a message becomes depends on the message alone: the invariant says  *)
(* at each place what the message is in terms of the one that was sent,     *)
(* and the properties follow from what the conversions do.                  *)
EXTENDS EsEventFlow, SequenceTheorems, TLAPS

\* What the acceptor of a block puts into its queue.
Takes(block, m) ==
    /\ IsEvent(m) \/ IsConvertible(m)
    /\ Field(AsEvent(m), "es::event_type") \in TypesOf(block)

\* The event sent to the sink, with its samples.
InSink  == sent.to = "sink" /\ Takes("sink", sent.msg)
AtSink  == Captured(AsEvent(sent.msg))

\* The message that comes to the source, and the event with its buffers.
ToSource == sent.to = "source" \/ (InSink /\ HandledTo(AtSink) = "source port")
AtSource == IF sent.to = "source" THEN sent.msg ELSE Handled(AtSink).result
InSource == ToSource /\ Takes("source", AtSource)
Given    == RegisterBuffer(AsEvent(AtSource),
                           ListOf(Allocate(LengthOf(AsEvent(AtSource)))))

Sent ==
    \/ /\ sent.to \in {"sink", "source"}
       /\ \E m \in Metas, v \in Bodies : sent.msg = Pdu(m, v)
    \/ /\ sent.to = "sink"
       /\ \E t \in Times, n \in Lens, type \in {"pdu_event", "burst"} :
             sent.msg = EventCreate(type, t, n)
    \/ /\ sent.to = "source"
       /\ \E t \in Times, n \in Lens :
             \/ sent.msg = GenVectorF(t, UserVector("f32", n))
             \/ sent.msg = GenVectorC(t, UserVector("c32", n))
             \/ \E size \in {1, 2, 4} : sent.msg = GenVectorB(t, UserVector("u8", n), size)
             \/ \E type \in {"f32", "c32"} :
                   sent.msg = ArgsAdd(EventCreate("pdu_event", t, n),
                                      "vector", UserVector(type, n))
             \/ sent.msg = GenVector(t, [i \in 1 .. Len(opt.outsig) |->
                               UserVector("u8", n * opt.outsig[i])], opt.outsig)

\* How an event ends: not accepted, handled in the sink for good, or in the source.
Ended ==
    \/ /\ sent.to = "sink" /\ ~Takes("sink", sent.msg)
       /\ at \in {"discarded", "refused"}
    \/ /\ InSink /\ at = HandledTo(AtSink) /\ at # "source port"
       /\ msg = Handled(AtSink).result
    \/ /\ ToSource /\ ~Takes("source", AtSource) /\ msg = AtSource
       /\ at = IF IsEvent(AtSource) \/ IsConvertible(AtSource) THEN "refused" ELSE "discarded"
    \/ /\ InSource
       /\ LET filled == InsertVector(Given)
          IN  IF filled.end = "done"
              THEN /\ at = "played"
                   /\ msg = [time |-> TimeOf(Given), length |-> LengthOf(Given),
                             buffers |-> filled.result]
              ELSE at = filled.end

Course ==
    /\ opt \in Options /\ at \in Places
    /\ at = "user" \/ Sent
    /\ at = "sink port"     => sent.to = "sink" /\ msg = sent.msg
    /\ at = "sink queue"    => InSink /\ msg = AsEvent(sent.msg)
    /\ at = "sink thread"   => InSink /\ msg = AtSink
    /\ at = "source port"   => ToSource /\ msg = AtSource
    /\ at = "source queue"  => InSource /\ msg = AsEvent(AtSource)
    /\ at = "source thread" => InSource /\ msg = Given
    /\ at \in Ends          => Ended

\* The options and the message sent do not change, and all this with them.
LEMMA Fixed ==
    ASSUME opt' = opt, sent' = sent
    PROVE  /\ Sent' <=> Sent
           /\ InSink' <=> InSink
           /\ AtSink' = AtSink
           /\ HandledTo(AtSink)' = HandledTo(AtSink)
           /\ Handled(AtSink)' = Handled(AtSink)
           /\ ToSource' <=> ToSource
           /\ AtSource' = AtSource
           /\ InSource' <=> InSource
           /\ Given' = Given
           /\ Takes("sink", sent.msg)' <=> Takes("sink", sent.msg)
           /\ Takes("source", AtSource)' <=> Takes("source", AtSource)
<1>1. Sent' <=> Sent
  BY DEF Sent
<1>2. Takes("sink", sent.msg)' <=> Takes("sink", sent.msg)
  BY DEF Takes, TypesOf
<1>3. InSink' <=> InSink
  BY <1>2 DEF InSink
<1>4. AtSink' = AtSink
  BY DEF AtSink, Captured, StreamBytes
<1>5. Handled(AtSink)' = Handled(AtSink)
  BY <1>4 DEF Handled
<1>6. HandledTo(AtSink)' = HandledTo(AtSink)
  BY <1>4, <1>5 DEF HandledTo, Publishes
<1>7. ToSource' <=> ToSource
  BY <1>3, <1>6 DEF ToSource
<1>8. AtSource' = AtSource
  BY <1>5 DEF AtSource
<1>9. Takes("source", AtSource)' <=> Takes("source", AtSource)
  BY <1>8 DEF Takes, TypesOf
<1>10. InSource' <=> InSource
  BY <1>7, <1>9 DEF InSource
<1>11. Given' = Given
  BY <1>8 DEF Given, Allocate
<1> QED
  BY <1>1, <1>2, <1>3, <1>4, <1>5, <1>6, <1>7, <1>8, <1>9, <1>10, <1>11

\* A handler that does not end well fails as listed.
LEMMA HandledEnds ==
    ASSUME NEW e PROVE Handled(e).end \in {"done", "threw", "overread"}
  BY DEF Handled, SinkHandler, PduHandler, FileHandler, PrintHandler, Done, Fails

\* es_handler_insert_vector ends in one of three ways.
LEMMA InsertEnds ==
    ASSUME NEW e PROVE InsertVector(e).end \in {"done", "threw", "overrun"}
<1>1. ASSUME NEW bufs, NEW source PROVE CopyAll(bufs, source).end \in {"done", "overrun"}
  BY DEF CopyAll, Done, Fails
<1>2. ASSUME NEW bufs, NEW v PROVE InsertSame(bufs, v).end \in {"done", "threw", "overrun"}
  BY <1>1 DEF InsertSame
<1>3. ASSUME NEW bufs, NEW v PROVE InsertList(bufs, v).end \in {"done", "threw", "overrun"}
  BY <1>1 DEF InsertList, Fails
<1> QED
  BY <1>2, <1>3 DEF InsertVector, Fails

\* Every step makes the message from the one sent as Course says ...
LEMMA CourseKept == Course /\ [Next]_vars => Course'
<1> SUFFICES ASSUME Course, [Next]_vars PROVE Course'
  OBVIOUS
<1> USE DEF Ends, Failures, Places
<1>1. ASSUME NEW block \in {"sink", "source"}, NEW m, Send(block, m),
             \/ \E d \in Metas, v \in Bodies : m = Pdu(d, v)
             \/ /\ block = "sink"
                /\ \E t \in Times, n \in Lens, type \in {"pdu_event", "burst"} :
                      m = EventCreate(type, t, n)
             \/ /\ block = "source"
                /\ \E t \in Times, n \in Lens :
                      \/ m = GenVectorF(t, UserVector("f32", n))
                      \/ m = GenVectorC(t, UserVector("c32", n))
                      \/ \E size \in {1, 2, 4} : m = GenVectorB(t, UserVector("u8", n), size)
                      \/ \E type \in {"f32", "c32"} :
                            m = ArgsAdd(EventCreate("pdu_event", t, n),
                                        "vector", UserVector(type, n))
                      \/ m = GenVector(t, [i \in 1 .. Len(opt.outsig) |->
                                 UserVector("u8", n * opt.outsig[i])], opt.outsig)
      PROVE  Course'
  <2>1. /\ opt' = opt /\ msg' = m /\ sent' = [to |-> block, msg |-> m]
        /\ at' = PortOf(block)
    BY <1>1 DEF Send
  <2>2. sent'.to = block /\ sent'.msg = m
    BY <2>1
  <2>3. Sent'
    BY <1>1, <2>1, <2>2 DEF Sent
  <2>4. CASE block = "sink"
    BY <2>1, <2>2, <2>3, <2>4 DEF Course, PortOf
  <2>5. CASE block = "source"
    <3>1. ToSource' /\ AtSource' = m
      BY <2>2, <2>5 DEF ToSource, AtSource
    <3> QED
      BY <2>1, <2>2, <2>3, <2>5, <3>1 DEF Course, PortOf
  <2> QED
    BY <2>4, <2>5
<1>2. CASE SendPdu \/ SendEvent \/ SendVector \/ SendVectors
  <2>1. CASE SendPdu
    BY <1>1, <2>1 DEF SendPdu
  <2>2. CASE SendEvent
    BY <1>1, <2>2 DEF SendEvent
  <2>3. CASE SendVector
    BY <1>1, <2>3 DEF SendVector
  <2>4. CASE SendVectors
    BY <1>1, <2>4 DEF SendVectors
  <2> QED
    BY <1>2, <2>1, <2>2, <2>3, <2>4
<1>3. ASSUME NEW block \in {"sink", "source"}, Accept(block) PROVE Course'
  <2>1. opt' = opt /\ sent' = sent /\ at = PortOf(block)
    BY <1>3 DEF Accept
  <2>2. CASE block = "sink"
    <3>1. sent.to = "sink" /\ msg = sent.msg /\ Sent
      BY <2>1, <2>2 DEF Course, PortOf
    <3>2. CASE Takes("sink", msg)
      <4>1. at' = "sink queue" /\ msg' = AsEvent(msg)
        BY <1>3, <2>2, <3>2 DEF Accept, Takes, QueueOf
      <4>2. InSink
        BY <3>1, <3>2 DEF InSink
      <4> QED
        BY <2>1, <3>1, <4>1, <4>2, Fixed DEF Course
    <3>3. CASE ~Takes("sink", msg)
      <4>1. at' \in {"discarded", "refused"} /\ msg' = msg
        BY <1>3, <2>2, <3>3 DEF Accept, Takes
      <4>2. Ended'
        BY <2>1, <3>1, <3>3, <4>1, Fixed DEF Ended
      <4> QED
        BY <2>1, <3>1, <4>1, <4>2, Fixed DEF Course
    <3> QED
      BY <3>2, <3>3
  <2>3. CASE block = "source"
    <3>1. ToSource /\ msg = AtSource /\ Sent
      BY <2>1, <2>3 DEF Course, PortOf
    <3>2. CASE Takes("source", msg)
      <4>1. at' = "source queue" /\ msg' = AsEvent(msg)
        BY <1>3, <2>3, <3>2 DEF Accept, Takes, QueueOf
      <4>2. InSource
        BY <3>1, <3>2 DEF InSource
      <4> QED
        BY <2>1, <3>1, <4>1, <4>2, Fixed DEF Course
    <3>3. CASE ~Takes("source", msg)
      <4>1. /\ at' = IF IsEvent(msg) \/ IsConvertible(msg) THEN "refused" ELSE "discarded"
            /\ msg' = msg
        BY <1>3, <2>3, <3>3 DEF Accept, Takes
      <4>2. Ended'
        BY <2>1, <3>1, <3>3, <4>1, Fixed DEF Ended
      <4> QED
        BY <2>1, <3>1, <4>1, <4>2, Fixed DEF Course
    <3> QED
      BY <3>2, <3>3
  <2> QED
    BY <2>2, <2>3
<1>4. CASE Capture
  <2>1. /\ opt' = opt /\ sent' = sent /\ at = "sink queue" /\ at' = "sink thread"
        /\ msg' = Captured(msg)
    BY <1>4 DEF Capture
  <2>2. InSink /\ msg' = AtSink /\ Sent
    BY <2>1 DEF Course, AtSink
  <2> QED
    BY <2>1, <2>2, Fixed DEF Course
<1>5. CASE RunInSink
  <2>1. /\ opt' = opt /\ sent' = sent /\ at = "sink thread" /\ at' = HandledTo(msg)
        /\ msg' = Handled(msg).result
    BY <1>5 DEF RunInSink
  <2>2. InSink /\ msg = AtSink /\ Sent /\ sent.to = "sink"
    BY <2>1 DEF Course, InSink
  <2>3. HandledTo(msg) \in {"threw", "overread", "source port", "filed", "printed"}
    BY HandledEnds DEF HandledTo
  <2>4. CASE at' = "source port"
    <3>1. ToSource /\ msg' = AtSource
      BY <2>1, <2>2, <2>4 DEF ToSource, AtSource
    <3> QED
      BY <2>1, <2>2, <2>4, <3>1, Fixed DEF Course
  <2>5. CASE at' # "source port"
    <3>1. Ended'
      BY <2>1, <2>2, <2>5, Fixed DEF Ended
    <3> QED
      BY <2>1, <2>2, <2>3, <2>5, <3>1, Fixed DEF Course
  <2> QED
    BY <2>4, <2>5
<1>6. CASE GiveBuffers
  <2>1. /\ opt' = opt /\ sent' = sent /\ at = "source queue" /\ at' = "source thread"
        /\ msg' = RegisterBuffer(msg, ListOf(Allocate(LengthOf(msg))))
    BY <1>6 DEF GiveBuffers
  <2>2. InSource /\ msg' = Given /\ Sent
    BY <2>1 DEF Course, Given
  <2> QED
    BY <2>1, <2>2, Fixed DEF Course
<1>7. CASE RunInSource
  <2>1. /\ opt' = opt /\ sent' = sent /\ at = "source thread"
        /\ IF InsertVector(msg).end = "done"
           THEN /\ at' = "played"
                /\ msg' = [time |-> TimeOf(msg), length |-> LengthOf(msg),
                           buffers |-> InsertVector(msg).result]
           ELSE at' = InsertVector(msg).end /\ UNCHANGED msg
    BY <1>7 DEF RunInSource
  <2>2. InSource /\ msg = Given /\ Sent
    BY <2>1 DEF Course
  <2>3. at' \in {"played", "threw", "overrun"}
    BY <2>1, InsertEnds
  <2>4. Ended'
    BY <2>1, <2>2, Fixed DEF Ended
  <2> QED
    BY <2>1, <2>2, <2>3, <2>4, Fixed DEF Course
<1>8. CASE UNCHANGED vars
  <2>1. opt' = opt /\ sent' = sent /\ at' = at /\ msg' = msg
    BY <1>8 DEF vars
  <2>2. Ended => Ended'
    BY <2>1, Fixed DEF Ended
  <2> QED
    BY <2>1, <2>2, Fixed DEF Course
<1> QED
  BY <1>2, <1>3, <1>4, <1>5, <1>6, <1>7, <1>8 DEF Next

\* ... and so in every reachable state.
LEMMA CourseAlways == Spec => []Course
<1>1. Init => Course
  BY DEF Init, Course, Places, Ends, Failures
<1> QED
  BY <1>1, CourseKept, PTL DEF Spec

-----------------------------------------------------------------------------
(* What the conversions do.                                                *)

\* The metadata of a message override those that are there.
LEMMA DictUpdateIs ==
    ASSUME NEW d, NEW e
    PROVE  /\ DOMAIN DictUpdate(d, e) = DOMAIN d \cup DOMAIN e
           /\ \A k \in DOMAIN e : DictUpdate(d, e)[k] = e[k]
           /\ \A k \in DOMAIN d \ DOMAIN e : DictUpdate(d, e)[k] = d[k]
  BY DEF DictUpdate

\* The keys every event has.
Own == {"es::event_type", "es::event_time", "es::event_length"}

Holds(e, type, t, n) ==
    /\ IsEvent(e) /\ Own \subseteq DOMAIN e.hash
    /\ TypeIs(e, type) /\ TimeOf(e) = t /\ LengthOf(e) = n

\* event_create puts type, time and length where they belong, and nothing else.
LEMMA CreatedHolds ==
    ASSUME NEW type, NEW t, NEW n
    PROVE  /\ Holds(EventCreate(type, t, n), type, t, n)
           /\ DOMAIN EventCreate(type, t, n).hash = Own
<1> DEFINE d1 == DictAdd(EmptyDict, "es::event_type", type)
           d2 == DictAdd(d1, "es::event_time", t)
           d3 == DictAdd(d2, "es::event_length", n)
<1>1. DOMAIN EmptyDict = {}
  BY DEF EmptyDict
<1>2. DOMAIN d1 = {"es::event_type"} /\ d1["es::event_type"] = type
  BY <1>1 DEF DictAdd
<1> HIDE DEF d1
<1>3. /\ DOMAIN d2 = {"es::event_type", "es::event_time"}
      /\ d2["es::event_type"] = type /\ d2["es::event_time"] = t
  BY <1>2 DEF DictAdd
<1> HIDE DEF d2
<1>4. /\ DOMAIN d3 = Own
      /\ d3["es::event_type"] = type /\ d3["es::event_time"] = t /\ d3["es::event_length"] = n
  BY <1>3 DEF DictAdd, Own
<1>5. EventCreate(type, t, n) = [kind |-> "event", hash |-> d3]
  BY DEF EventCreate, EventOfHash, d1, d2
<1> HIDE DEF d3
<1> QED
  BY <1>4, <1>5 DEF Holds, IsEvent, TypeIs, TimeOf, LengthOf, Field

\* Another key leaves these alone.
LEMMA AddedHolds ==
    ASSUME NEW e, NEW type, NEW t, NEW n, Holds(e, type, t, n), NEW key, key \notin Own, NEW val
    PROVE  /\ Holds(ArgsAdd(e, key, val), type, t, n)
           /\ DOMAIN ArgsAdd(e, key, val).hash = DOMAIN e.hash \cup {key}
           /\ ArgsAdd(e, key, val).hash[key] = val
           /\ \A k \in DOMAIN e.hash : k # key => ArgsAdd(e, key, val).hash[k] = e.hash[k]
<1>1. ArgsAdd(e, key, val) = [kind |-> "event", hash |-> DictAdd(e.hash, key, val)]
  BY DEF ArgsAdd, EventOfHash
<1>2. /\ DOMAIN DictAdd(e.hash, key, val) = DOMAIN e.hash \cup {key}
      /\ DictAdd(e.hash, key, val)[key] = val
      /\ \A k \in DOMAIN e.hash : k # key => DictAdd(e.hash, key, val)[k] = e.hash[k]
  BY DEF DictAdd
<1> QED
  BY <1>1, <1>2 DEF Holds, IsEvent, TypeIs, TimeOf, LengthOf, Field, Own

\* A PDU with metadata that has none of the event's own keys ...
LEMMA ConvertedHolds ==
    ASSUME NEW meta, NEW body, DOMAIN meta \cap (Own \cup {"vector"}) = {}
    PROVE  LET e == EventOfPdu(Pdu(meta, body))
           IN  /\ Holds(e, DictRef(meta, "event_type", "pdu_event"),
                        DictRef(meta, "event_time", 0),
                        IF IsUniform(body) THEN Length(body)
                        ELSE DictRef(meta, "event_length", 0))
               /\ DOMAIN e.hash = Own \cup DOMAIN meta
                                      \cup (IF IsUniform(body) THEN {"vector"} ELSE {})
               /\ IsUniform(body) => e.hash["vector"] = AsBlob(body)
<1> DEFINE m == Pdu(meta, body)
           type == DictRef(meta, "event_type", "pdu_event")
           t == DictRef(meta, "event_time", 0)
           n == IF IsUniform(body) THEN Length(body) ELSE DictRef(meta, "event_length", 0)
           c == EventCreate(type, t, n)
           b == BareEvent(m)
           e == EventOfPdu(m)
<1>1. m.meta = meta /\ m.body = body
  BY DEF Pdu
<1>2. b = IF IsUniform(body) THEN ArgsAdd(c, "vector", AsBlob(body)) ELSE c
  BY <1>1 DEF BareEvent
<1>3. Holds(c, type, t, n) /\ DOMAIN c.hash = Own
  BY CreatedHolds
<1>4. "vector" \notin Own
  BY DEF Own
<1> HIDE DEF c, m
<1>5. /\ Holds(b, type, t, n)
      /\ DOMAIN b.hash = Own \cup (IF IsUniform(body) THEN {"vector"} ELSE {})
      /\ IsUniform(body) => b.hash["vector"] = AsBlob(body)
  BY <1>2, <1>3, <1>4, AddedHolds
<1> HIDE DEF b
<1>6. e = [kind |-> "event", hash |-> DictUpdate(b.hash, meta)]
  BY <1>1 DEF EventOfPdu, EventOfHash, b
<1>7. /\ DOMAIN DictUpdate(b.hash, meta) = DOMAIN b.hash \cup DOMAIN meta
      /\ \A k \in DOMAIN b.hash \ DOMAIN meta : DictUpdate(b.hash, meta)[k] = b.hash[k]
  BY DictUpdateIs
<1> HIDE DEF e
<1>8. \A k \in Own \cup {"vector"} : k \notin DOMAIN meta
  OBVIOUS
<1>9. Holds(e, type, t, n)
  BY <1>5, <1>6, <1>7, <1>8 DEF Holds, IsEvent, TypeIs, TimeOf, LengthOf, Field, Own
<1>10. /\ DOMAIN e.hash = Own \cup DOMAIN meta \cup (IF IsUniform(body) THEN {"vector"} ELSE {})
       /\ IsUniform(body) => e.hash["vector"] = AsBlob(body)
  BY <1>5, <1>6, <1>7, <1>8
<1> QED
  BY <1>9, <1>10 DEF e, m

\* ... and one whose metadata was an event: it becomes this event again, with the vector.
LEMMA EventComesBack ==
    ASSUME NEW e, NEW type, NEW t, NEW n, Holds(e, type, t, n), NEW body
    PROVE  LET d == EventOfPdu(Pdu(e.hash, body))
           IN  /\ Holds(d, type, t, n) /\ DOMAIN e.hash \subseteq DOMAIN d.hash
               /\ IsUniform(body) /\ "vector" \notin DOMAIN e.hash =>
                     "vector" \in DOMAIN d.hash /\ d.hash["vector"] = AsBlob(body)
<1> DEFINE m == Pdu(e.hash, body)
           b == BareEvent(m)
           d == EventOfPdu(m)
<1>1. m.meta = e.hash /\ m.body = body
  BY DEF Pdu
<1>2. d = [kind |-> "event", hash |-> DictUpdate(b.hash, e.hash)]
  BY <1>1 DEF EventOfPdu, EventOfHash
<1>3. /\ DOMAIN DictUpdate(b.hash, e.hash) = DOMAIN b.hash \cup DOMAIN e.hash
      /\ \A k \in DOMAIN e.hash : DictUpdate(b.hash, e.hash)[k] = e.hash[k]
      /\ \A k \in DOMAIN b.hash \ DOMAIN e.hash : DictUpdate(b.hash, e.hash)[k] = b.hash[k]
  BY DictUpdateIs
<1>4. IsUniform(body) => "vector" \in DOMAIN b.hash /\ b.hash["vector"] = AsBlob(body)
  <2> SUFFICES ASSUME IsUniform(body)
               PROVE  "vector" \in DOMAIN b.hash /\ b.hash["vector"] = AsBlob(body)
    OBVIOUS
  <2>1. PICK c : b = ArgsAdd(c, "vector", AsBlob(body))
    BY <1>1 DEF BareEvent
  <2>2. b.hash = DictAdd(c.hash, "vector", AsBlob(body))
    BY <2>1 DEF ArgsAdd, EventOfHash
  <2> QED
    BY <2>2 DEF DictAdd
<1> HIDE DEF b, m
<1>5. Holds(d, type, t, n)
  BY <1>2, <1>3 DEF Holds, IsEvent, TypeIs, TimeOf, LengthOf, Field, Own
<1> QED
  BY <1>2, <1>3, <1>4, <1>5 DEF m

\* The metadata a user sends: none of the keys of an event.
LEMMA MetaKeys ==
    ASSUME NEW meta \in Metas
    PROVE  /\ DOMAIN meta \subseteq {"event_time", "event_length", "event_type"}
           /\ DictRef(meta, "event_length", 0) \in Nat
           /\ DictRef(meta, "event_type", "pdu_event") \in {"pdu_event", "burst"}
<1>1. PICK d \in [event_time : Times, event_length : Lens, event_type : {"burst"}],
           keys \in SUBSET {"event_time", "event_length", "event_type"} :
                meta = [k \in keys |-> d[k]]
  BY DEF Metas, Restrict
<1>2. d["event_length"] \in Nat /\ d["event_type"] = "burst"
  BY EventFlowAssumption
<1> QED
  BY <1>1, <1>2 DEF DictRef

\* What a message is as an event, in either block.
LEMMA AsEventHolds ==
    ASSUME Sent
    PROVE  LET e == AsEvent(sent.msg)
           IN  /\ \E type, t, n : Holds(e, type, t, n)
               /\ "es::event_buffer" \notin DOMAIN e.hash
<1>1. CASE \E m \in Metas, v \in Bodies : sent.msg = Pdu(m, v)
  <2>1. PICK m \in Metas, v \in Bodies : sent.msg = Pdu(m, v)
    BY <1>1
  <2>2. AsEvent(sent.msg) = EventOfPdu(Pdu(m, v))
    BY <2>1 DEF AsEvent, IsEvent, Pdu
  <2>3. DOMAIN m \cap (Own \cup {"vector"}) = {}
    BY MetaKeys DEF Own
  <2>4. "es::event_buffer" \notin Own \cup DOMAIN m \cup {"vector"}
    BY MetaKeys DEF Own
  <2> QED
    BY <2>2, <2>3, <2>4, ConvertedHolds
<1>2. ASSUME NEW type, NEW t, NEW n, sent.msg = EventCreate(type, t, n)
      PROVE  /\ Holds(sent.msg, type, t, n) /\ AsEvent(sent.msg) = sent.msg
             /\ "es::event_buffer" \notin DOMAIN sent.msg.hash
  BY <1>2, CreatedHolds DEF AsEvent, Own, Holds
<1>3. ASSUME NEW type, NEW t, NEW n, NEW v,
             sent.msg = ArgsAdd(EventCreate(type, t, n), "vector", v)
      PROVE  /\ Holds(sent.msg, type, t, n) /\ AsEvent(sent.msg) = sent.msg
             /\ "es::event_buffer" \notin DOMAIN sent.msg.hash
  <2>1. Holds(EventCreate(type, t, n), type, t, n) /\ DOMAIN EventCreate(type, t, n).hash = Own
    BY CreatedHolds
  <2>2. "vector" \notin Own /\ "es::event_buffer" \notin Own
    BY DEF Own
  <2> QED
    BY <1>3, <2>1, <2>2, AddedHolds DEF AsEvent, Holds
<1>4. CASE \E type, t, n : sent.msg = EventCreate(type, t, n)
  BY <1>2, <1>4
<1>5. CASE \E type, t, n, v : sent.msg = ArgsAdd(EventCreate(type, t, n), "vector", v)
  BY <1>3, <1>5
<1>6. \/ \E m \in Metas, v \in Bodies : sent.msg = Pdu(m, v)
      \/ \E type, t, n : sent.msg = EventCreate(type, t, n)
      \/ \E type, t, n, v : sent.msg = ArgsAdd(EventCreate(type, t, n), "vector", v)
  BY DEF Sent, GenVectorF, GenVectorC, GenVectorB, GenVector
<1> QED
  BY <1>1, <1>4, <1>5, <1>6

\* The samples of the event, input by input.
Streams(t, n) == [i \in 1 .. Len(opt.insig) |-> StreamBytes(i, t, n)]

\* The sink puts the tags and the samples on top.
LEMMA CapturedHolds ==
    ASSUME NEW e, NEW type, NEW t, NEW n, Holds(e, type, t, n)
    PROVE  /\ Holds(Captured(e), type, t, n)
           /\ "es::event_buffer" \in DOMAIN Captured(e).hash
           /\ ("vector" \in DOMAIN Captured(e).hash => "vector" \in DOMAIN e.hash)
           /\ BuffersOf(Captured(e)) = Streams(t, n)
<1> DEFINE g == Tagged(e)
           bufs == [i \in 1 .. Len(opt.insig) |-> Vector("u8", StreamBytes(i, t, n))]
           c == Captured(e)
<1>1. g = [kind |-> "event", hash |-> DictUpdate(e.hash, Tags)]
  BY DEF Tagged, EventOfHash
<1>2. \A k \in Own \cup {"vector"} : k \notin DOMAIN Tags
  BY EventFlowAssumption DEF Own
<1>3. /\ Holds(g, type, t, n)
      /\ ("vector" \in DOMAIN g.hash => "vector" \in DOMAIN e.hash)
  <2>1. /\ DOMAIN DictUpdate(e.hash, Tags) = DOMAIN e.hash \cup DOMAIN Tags
        /\ \A k \in DOMAIN e.hash \ DOMAIN Tags : DictUpdate(e.hash, Tags)[k] = e.hash[k]
    BY DictUpdateIs
  <2> HIDE DEF g
  <2>2. Holds(g, type, t, n)
    BY <1>1, <1>2, <2>1 DEF Holds, IsEvent, TypeIs, TimeOf, LengthOf, Field, Own
  <2>3. "vector" \in DOMAIN g.hash => "vector" \in DOMAIN e.hash
    BY <1>1, <1>2, <2>1
  <2> QED
    BY <2>2, <2>3
<1>4. c = ArgsAdd(g, "es::event_buffer", ListOf(bufs))
  BY DEF Captured, RegisterBuffer, Holds
<1> HIDE DEF g, c
<1>5. "es::event_buffer" \notin Own
  BY DEF Own
<1>6. /\ Holds(c, type, t, n) /\ DOMAIN c.hash = DOMAIN g.hash \cup {"es::event_buffer"}
      /\ c.hash["es::event_buffer"] = ListOf(bufs)
  BY <1>3, <1>4, <1>5, AddedHolds
<1>7. ListOf(bufs).items = bufs
  BY DEF ListOf
<1>8. Len(bufs) = Len(opt.insig) /\ \A i \in 1 .. Len(opt.insig) : bufs[i].bytes = StreamBytes(i, t, n)
  <2>1. \A i \in 1 .. Len(opt.insig) : bufs[i].bytes = StreamBytes(i, t, n)
    BY DEF Vector
  <2>2. Len(opt.insig) \in Nat => Len(bufs) = Len(opt.insig)
    OBVIOUS
  <2> QED
    BY <2>1, <2>2
<1> HIDE DEF bufs
<1>9. BuffersOf(c) = [i \in 1 .. Len(opt.insig) |-> StreamBytes(i, t, n)]
  BY <1>6, <1>7, <1>8 DEF BuffersOf, Field
<1> QED
  BY <1>3, <1>6, <1>9 DEF c, Streams

\* What a source is registered for.
LEMMA SourceTypes ==
    /\ "burst" \notin TypesOf("source") /\ "pdu_event" \in TypesOf("source")
    /\ "es::event_type_gen_vector_f" \in TypesOf("source")
    /\ "es::event_type_gen_vector_c" \in TypesOf("source")
    /\ "es::event_type_gen_vector_b" \in TypesOf("source")
    /\ "es::event_type_gen_vector" \in TypesOf("source")
  BY DEF TypesOf

\* What comes from a sink is taken by a source only when the sink itself published the
\* samples.
LEMMA BackIsSamples ==
    ASSUME Sent, sent.to = "sink", InSource
    PROVE  \E body : /\ TypeIs(AtSink, "pdu_event") /\ AtSource = Pdu(AtSink.hash, body)
                     /\ \E type, t, n : Holds(AtSink, type, t, n)
<1> DEFINE e == AsEvent(sent.msg)
           c == AtSink
<1>1. PICK type, t, n : Holds(e, type, t, n)
  BY AsEventHolds
<1>2. Holds(c, type, t, n)
  BY <1>1, CapturedHolds DEF AtSink
<1>3. /\ InSink /\ HandledTo(c) = "source port" /\ AtSource = Handled(c).result
      /\ Takes("source", AtSource) /\ Takes("sink", sent.msg)
  BY DEF InSource, ToSource, AtSource, InSink
<1>4. type \in {"pdu_event", "burst"}
  <2>1. type \in TypesOf("sink")
    BY <1>1, <1>3 DEF Takes, Holds, TypeIs
  <2> QED
    BY <2>1 DEF TypesOf
<1>5. Handled(c).end = "done"
  BY <1>3, HandledEnds DEF HandledTo
<1> HIDE DEF c, e
<1>6. CASE type = "pdu_event"
  <2>1. TypeIs(c, "pdu_event")
    BY <1>2, <1>6 DEF Holds
  <2>2. PICK body : Handled(c) = Done(Pdu(c.hash, body))
    BY <1>5, <2>1 DEF Handled, SinkHandler, Fails
  <2>3. Done(Pdu(c.hash, body)).result = Pdu(c.hash, body)
    BY DEF Done
  <2>4. AtSource = Pdu(c.hash, body)
    BY <1>3, <2>2, <2>3
  <2> QED
    BY <1>2, <2>1, <2>4 DEF c
<1>7. CASE type = "burst"
  <2>1. ~TypeIs(c, "pdu_event")
    BY <1>2, <1>7 DEF Holds, TypeIs
  <2>2. opt.burst.kind \in {"pdu", "passthrough"}
    BY <1>3, <1>5, <2>1 DEF HandledTo, Publishes
  <2>3. CASE opt.burst.kind = "pdu"
    <3>1. PICK body : AtSource = Pdu(c.hash, body)
      BY <1>3, <1>5, <2>1, <2>3 DEF Handled, PduHandler, Fails, Done
    <3>2. AsEvent(AtSource) = EventOfPdu(Pdu(c.hash, body))
      BY <3>1 DEF AsEvent, IsEvent, Pdu
    <3>3. Holds(AsEvent(AtSource), type, t, n)
      BY <1>2, <3>2, EventComesBack
    <3> QED
      BY <1>3, <1>7, <3>3, SourceTypes DEF Takes, Holds, TypeIs
  <2>4. CASE opt.burst.kind = "passthrough"
    <3>1. AtSource = c
      BY <1>3, <2>1, <2>4 DEF Handled, Done
    <3>2. AsEvent(AtSource) = c
      BY <1>2, <3>1 DEF AsEvent, Holds
    <3> QED
      BY <1>2, <1>3, <1>7, <3>2, SourceTypes DEF Takes, Holds, TypeIs
  <2> QED
    BY <2>2, <2>3, <2>4
<1> QED
  BY <1>4, <1>6, <1>7

\* For all item sizes, times, lengths and tags: an event has its type, time and length in
\* every queue and with every thread, and its samples from the moment they are copied.
THEOREM TypeOKAlways == Spec => []TypeOK
<1> DEFINE HasOwn(e) == /\ IsEvent(e) /\ Own \subseteq DOMAIN e.hash
<1>1. ASSUME NEW e, NEW type, NEW t, NEW n, Holds(e, type, t, n) PROVE HasOwn(e)
  BY <1>1 DEF Holds
<1>2. Course => TypeOK
  <2> SUFFICES ASSUME Course PROVE TypeOK
    OBVIOUS
  <2>1. opt \in Options /\ at \in Places
    BY DEF Course
  <2>2. CASE at = "sink queue"
    <3>1. msg = AsEvent(sent.msg) /\ Sent /\ InSink
      BY <2>2 DEF Course
    <3>2. HasOwn(msg) /\ "es::event_buffer" \notin DOMAIN msg.hash
      BY <3>1, <1>1, AsEventHolds
    <3> QED
      BY <2>1, <2>2, <3>2 DEF TypeOK, HasField, Own
  <2>3. CASE at = "sink thread"
    <3>1. msg = AtSink /\ Sent
      BY <2>3 DEF Course
    <3>2. PICK type, t, n : Holds(AsEvent(sent.msg), type, t, n)
      BY <3>1, AsEventHolds
    <3>3. HasOwn(msg) /\ "es::event_buffer" \in DOMAIN msg.hash
      BY <3>1, <3>2, <1>1, CapturedHolds DEF AtSink
    <3> QED
      BY <2>1, <2>3, <3>3 DEF TypeOK, HasField, Own
  <2>4. ASSUME InSource, Sent
        PROVE  /\ HasOwn(AsEvent(AtSource))
               /\ "es::event_buffer" \in DOMAIN AsEvent(AtSource).hash <=> sent.to = "sink"
    <3>1. CASE sent.to = "source"
      BY <1>1, <2>4, <3>1, AsEventHolds DEF AtSource
    <3>2. CASE sent.to = "sink"
      <4>1. PICK body : /\ AtSource = Pdu(AtSink.hash, body)
                        /\ \E type, t, n : Holds(AtSink, type, t, n)
        BY <2>4, <3>2, BackIsSamples
      <4>2. PICK type, t, n : Holds(AtSink, type, t, n)
        BY <4>1
      <4>3. AsEvent(AtSource) = EventOfPdu(Pdu(AtSink.hash, body))
        BY <4>1 DEF AsEvent, IsEvent, Pdu
      <4>4. /\ Holds(AsEvent(AtSource), type, t, n)
            /\ DOMAIN AtSink.hash \subseteq DOMAIN AsEvent(AtSource).hash
        BY <4>2, <4>3, EventComesBack
      <4>5. "es::event_buffer" \in DOMAIN AtSink.hash
        BY <2>4, AsEventHolds, CapturedHolds DEF AtSink
      <4> QED
        BY <1>1, <3>2, <4>4, <4>5
    <3> QED
      BY <2>4, <3>1, <3>2 DEF Sent
  <2>5. CASE at = "source queue"
    <3>1. msg = AsEvent(AtSource) /\ Sent /\ InSource
      BY <2>5 DEF Course
    <3> QED
      BY <2>1, <2>4, <2>5, <3>1 DEF TypeOK, HasField, Own
  <2>6. CASE at = "source thread"
    <3>1. msg = Given /\ Sent /\ InSource
      BY <2>6 DEF Course
    <3>2. HasOwn(AsEvent(AtSource))
      BY <2>4, <3>1
    <3>3. msg.kind = "event" /\ DOMAIN msg.hash = DOMAIN AsEvent(AtSource).hash \cup {"es::event_buffer"}
      BY <3>1 DEF Given, RegisterBuffer, ArgsAdd, EventOfHash, DictAdd
    <3> QED
      BY <2>1, <2>6, <3>2, <3>3 DEF TypeOK, HasField, Own, IsEvent
  <2>7. CASE at \in Ends \cup {"user", "sink port", "source port"}
    BY <2>1, <2>7 DEF TypeOK
  <2> QED
    BY <2>1, <2>2, <2>3, <2>5, <2>6, <2>7 DEF Places
<1> QED
  BY <1>2, CourseAlways, PTL

-----------------------------------------------------------------------------
(* What the source plays.                                                  *)

Zeros(n) == [i \in 1 .. Len(opt.outsig) |->
                [k \in 1 .. n * opt.outsig[i] |-> <<0, 0, 0>>]]

\* Item sizes are numbers of bytes.
LEMMA OptionsAre ==
    ASSUME opt \in Options
    PROVE  /\ Len(opt.insig) \in Nat \ {0} /\ Len(opt.outsig) \in Nat \ {0}
           /\ \A i \in 1 .. Len(opt.insig) : opt.insig[i] \in {2, 4, 8}
           /\ \A i \in 1 .. Len(opt.outsig) : opt.outsig[i] \in {1, 4, 8}
           /\ opt.burst.kind \in {"pdu", "file", "print", "passthrough", "none"}
           /\ (opt.burst.kind \in {"pdu", "file", "print"} => opt.burst.type \in HandlerTypes)
<1>1. opt \in OptionSpace /\ opt.insig # <<>> /\ opt.outsig # <<>>
  BY EventFlowAssumption
<1>2. opt.insig \in Seq({2, 4, 8}) /\ opt.outsig \in Seq({1, 4, 8})
  BY <1>1 DEF OptionSpace
<1>3. Len(opt.insig) \in Nat \ {0} /\ Len(opt.outsig) \in Nat \ {0}
  BY <1>1, <1>2, EmptySeq
<1>4. \A i \in 1 .. Len(opt.insig) : opt.insig[i] \in {2, 4, 8}
  BY <1>2, ElementOfSeq
<1>5. \A i \in 1 .. Len(opt.outsig) : opt.outsig[i] \in {1, 4, 8}
  BY <1>2, ElementOfSeq
<1>6. opt.burst \in [kind : {"pdu", "file", "print"}, type : HandlerTypes]
                    \cup [kind : {"passthrough", "none"}]
  BY <1>1 DEF OptionSpace
<1> QED
  BY <1>3, <1>4, <1>5, <1>6

\* The source's own buffers are under the event.
LEMMA GivenHolds ==
    ASSUME opt \in Options, NEW type, NEW t, NEW n, Holds(AsEvent(AtSource), type, t, n)
    PROVE  /\ Holds(Given, type, t, n) /\ BuffersOf(Given) = Zeros(n)
           /\ \A k \in DOMAIN AsEvent(AtSource).hash \ {"es::event_buffer"} :
                 k \in DOMAIN Given.hash /\ Given.hash[k] = AsEvent(AtSource).hash[k]
<1> DEFINE e == AsEvent(AtSource)
           bufs == Allocate(n)
<1>1. LengthOf(e) = n
  BY DEF Holds
<1>2. Given = ArgsAdd(e, "es::event_buffer", ListOf(bufs))
  BY <1>1 DEF Given, RegisterBuffer
<1>3. "es::event_buffer" \notin Own
  BY DEF Own
<1> HIDE DEF e
<1>4. /\ Holds(Given, type, t, n)
      /\ DOMAIN Given.hash = DOMAIN e.hash \cup {"es::event_buffer"}
      /\ Given.hash["es::event_buffer"] = ListOf(bufs)
      /\ \A k \in DOMAIN e.hash : k # "es::event_buffer" => Given.hash[k] = e.hash[k]
  BY <1>2, <1>3, AddedHolds DEF e
<1>5. ListOf(bufs).items = bufs
  BY DEF ListOf
<1>6. Len(bufs) = Len(opt.outsig)
  BY OptionsAre DEF Allocate
<1>7. \A i \in 1 .. Len(opt.outsig) : bufs[i].bytes = Zeros(n)[i]
  BY DEF Allocate, Vector, Zeros
<1> HIDE DEF bufs
<1>8. BuffersOf(Given) = [i \in 1 .. Len(opt.outsig) |-> Zeros(n)[i]]
  BY <1>4, <1>5, <1>6, <1>7 DEF BuffersOf, Field
<1>9. BuffersOf(Given) = Zeros(n)
  BY <1>8 DEF Zeros
<1> QED
  BY <1>4, <1>9 DEF e

\* Bytes that fit are followed by zeros.
LEMMA CopyFills ==
    ASSUME opt \in Options, NEW n \in Nat, NEW s,
           \A i \in 1 .. Len(opt.outsig) : Len(s[i]) <= n * opt.outsig[i]
    PROVE  CopyAll(Zeros(n), [i \in 1 .. Len(opt.outsig) |-> s[i]])
               = Done([i \in 1 .. Len(opt.outsig) |-> Filled(i, n, s[i])])
<1> DEFINE c == [i \in 1 .. Len(opt.outsig) |-> s[i]]
           z == Zeros(n)
<1>1. Len(z) = Len(opt.outsig)
  BY OptionsAre DEF Zeros
<1>2. ASSUME NEW i \in 1 .. Len(opt.outsig)
      PROVE  /\ Len(z[i]) = n * opt.outsig[i]
             /\ CopyTo(z[i], c[i]) = Filled(i, n, s[i])
             /\ c[i] = s[i]
  <2>1. n * opt.outsig[i] \in Nat
    <3>1. opt.outsig[i] \in Nat
      BY OptionsAre
    <3> QED
      BY <3>1
  <2>2. z[i] = [k \in 1 .. n * opt.outsig[i] |-> <<0, 0, 0>>]
    BY DEF Zeros
  <2>3. Len(z[i]) = n * opt.outsig[i]
    BY <2>1, <2>2
  <2>4. \A k \in 1 .. n * opt.outsig[i] : z[i][k] = <<0, 0, 0>>
    BY <2>2
  <2>5. c[i] = s[i]
    OBVIOUS
  <2> HIDE DEF z, c
  <2>6. CopyTo(z[i], c[i]) = Filled(i, n, s[i])
    BY <2>3, <2>4, <2>5 DEF CopyTo, Filled
  <2> QED
    BY <2>3, <2>5, <2>6
<1> HIDE DEF z, c
<1>3. ~ \E i \in 1 .. Len(z) : Len(c[i]) > Len(z[i])
  <2> SUFFICES ASSUME NEW i \in 1 .. Len(opt.outsig) PROVE ~(Len(c[i]) > Len(z[i]))
    BY <1>1
  <2>1. Len(c[i]) <= n * opt.outsig[i] /\ Len(z[i]) = n * opt.outsig[i]
    BY <1>2
  <2> QED
    BY <2>1
<1>4. [i \in 1 .. Len(z) |-> CopyTo(z[i], c[i])]
          = [i \in 1 .. Len(opt.outsig) |-> Filled(i, n, s[i])]
  BY <1>1, <1>2
<1>5. CopyAll(z, c) = Done([i \in 1 .. Len(opt.outsig) |-> Filled(i, n, s[i])])
  BY <1>3, <1>4 DEF CopyAll
<1> QED
  BY <1>5 DEF z, c

\* The vectors es_handler_insert_vector finds in an event of a type, one for each output.
Copies(type, v, s) ==
    \/ /\ v.kind = (CASE type = "es::event_type_gen_vector_f" -> "f32"
                      [] type = "es::event_type_gen_vector_c" -> "c32"
                      [] type = "es::event_type_gen_vector_b" -> "u8"
                      [] OTHER -> "none")
       /\ \A i \in 1 .. Len(opt.outsig) : s[i] = v.bytes
    \/ /\ type \in {"pdu_event", "es::event_type_gen_vector"} /\ v.kind # "none"
       /\ LET list == IF IsUniform(v) THEN <<v>> ELSE v.items
          IN  /\ Len(list) \in Nat /\ Len(list) >= Len(opt.outsig)
              /\ \A i \in 1 .. Len(opt.outsig) : s[i] = list[i].bytes

\* Vectors that fit are played whole, at the event's time and as long as it.
LEMMA PlayedWhole ==
    ASSUME opt \in Options, InSource, at \in Ends, Ended,
           NEW type, NEW t, NEW n \in Nat, Holds(AsEvent(AtSource), type, t, n),
           "vector" \in DOMAIN AsEvent(AtSource).hash,
           NEW s, Copies(type, AsEvent(AtSource).hash["vector"], s),
           \A i \in 1 .. Len(opt.outsig) : Len(s[i]) <= n * opt.outsig[i]
    PROVE  /\ at = "played"
           /\ msg = [time |-> t, length |-> n,
                     buffers |-> [i \in 1 .. Len(opt.outsig) |-> Filled(i, n, s[i])]]
<1> DEFINE v == AsEvent(AtSource).hash["vector"]
           f == [i \in 1 .. Len(opt.outsig) |-> s[i]]
           result == [i \in 1 .. Len(opt.outsig) |-> Filled(i, n, s[i])]
<1>1. Holds(Given, type, t, n) /\ BuffersOf(Given) = Zeros(n)
  BY GivenHolds
<1>2. HasField(Given, "vector") /\ Field(Given, "vector") = v
  BY GivenHolds DEF HasField, Field
<1>3. CopyAll(Zeros(n), f) = Done(result)
  BY CopyFills
<1>4. Len(Zeros(n)) = Len(opt.outsig) /\ Len(opt.outsig) \in Nat
  BY OptionsAre DEF Zeros
<1>5. Copies(type, v, s)
  OBVIOUS
<1> HIDE DEF v, result
<1>6. VectorTypeOf(Given) = (CASE type = "es::event_type_gen_vector_f" -> "f32"
                      [] type = "es::event_type_gen_vector_c" -> "c32"
                      [] type = "es::event_type_gen_vector_b" -> "u8"
                      [] OTHER -> "none")
  BY <1>1 DEF Holds, VectorTypeOf, TypeIs
<1>7. InsertVector(Given) = Done(result)
  <2>1. CASE v.kind = VectorTypeOf(Given) /\ \A i \in 1 .. Len(opt.outsig) : s[i] = v.bytes
    <3>1. InsertVector(Given) = InsertSame(Zeros(n), v)
      BY <1>1, <1>2, <2>1 DEF InsertVector
    <3>2. [i \in 1 .. Len(Zeros(n)) |-> v.bytes] = f
      BY <1>4, <2>1
    <3> HIDE DEF f
    <3> QED
      BY <1>3, <3>1, <3>2 DEF InsertSame
  <2>2. CASE /\ type \in {"pdu_event", "es::event_type_gen_vector"} /\ v.kind # "none"
             /\ LET list == IF IsUniform(v) THEN <<v>> ELSE v.items
                IN  /\ Len(list) \in Nat /\ Len(list) >= Len(opt.outsig)
                    /\ \A i \in 1 .. Len(opt.outsig) : s[i] = list[i].bytes
    <3> DEFINE list == IF IsUniform(v) THEN <<v>> ELSE v.items
    <3>1. VectorTypeOf(Given) = "none"
      BY <1>6, <2>2
    <3>2. TakesList(Given)
      BY <1>1, <2>2 DEF TakesList, Holds, TypeIs
    <3>3. InsertVector(Given) = InsertList(Zeros(n), v)
      BY <1>1, <1>2, <2>2, <3>1, <3>2 DEF InsertVector
    <3>4. /\ Len(list) \in Nat /\ Len(list) >= Len(opt.outsig)
          /\ \A i \in 1 .. Len(opt.outsig) : s[i] = list[i].bytes
      BY <2>2
    <3>5. InsertList(Zeros(n), v) =
             IF Len(list) < Len(Zeros(n)) THEN Fails("threw")
             ELSE CopyAll(Zeros(n), [i \in 1 .. Len(Zeros(n)) |-> list[i].bytes])
      BY DEF InsertList
    <3> HIDE DEF list
    <3>6. [i \in 1 .. Len(Zeros(n)) |-> list[i].bytes] = f
      BY <1>4, <3>4
    <3>7. ~(Len(list) < Len(Zeros(n)))
      BY <1>4, <3>4
    <3> HIDE DEF f
    <3> QED
      BY <1>3, <3>3, <3>5, <3>6, <3>7
  <2> QED
    BY <1>5, <1>6, <2>1, <2>2 DEF Copies
<1>8. Done(result).end = "done" /\ Done(result).result = result
  BY DEF Done
<1>9. /\ at = "played"
       /\ msg = [time |-> TimeOf(Given), length |-> LengthOf(Given), buffers |-> result]
  <2>1. ~(sent.to = "sink" /\ ~Takes("sink", sent.msg))
    BY DEF InSource, ToSource, InSink
  <2>2. ~(InSink /\ at = HandledTo(AtSink) /\ at # "source port")
    BY DEF InSource, ToSource, InSink
  <2>3. Takes("source", AtSource)
    BY DEF InSource
  <2>4. /\ IF InsertVector(Given).end = "done"
           THEN /\ at = "played"
                /\ msg = [time |-> TimeOf(Given), length |-> LengthOf(Given),
                          buffers |-> InsertVector(Given).result]
           ELSE at = InsertVector(Given).end
    BY <2>1, <2>2, <2>3 DEF Ended
  <2> QED
    BY <1>7, <1>8, <2>4
<1> QED
  BY <1>1, <1>9 DEF Holds, result

-----------------------------------------------------------------------------
(* The samples of the stream.                                              *)

\* A function on the numbers up to N is a sequence of N, and its own prefix.
LEMMA WholeSeq ==
    ASSUME NEW N \in Nat, NEW q, q = [k \in 1 .. N |-> q[k]]
    PROVE  Len(q) = N /\ SubSeq(q, 1, N) = q
<1> DEFINE S == {q[k] : k \in 1 .. N}
<1>1. q \in [1 .. N -> S]
  OBVIOUS
<1>2. q \in Seq(S) /\ Len(q) = N
  BY <1>1
<1> QED
  BY <1>2, SubSeqFull

\* What a sink copies of an input is as long as the event asks for.
LEMMA StreamIs ==
    ASSUME opt \in Options, NEW i \in 1 .. Len(opt.insig), NEW t, NEW n \in Nat
    PROVE  /\ n * opt.insig[i] \in Nat
           /\ Len(StreamBytes(i, t, n)) = n * opt.insig[i]
           /\ SubSeq(StreamBytes(i, t, n), 1, n * opt.insig[i]) = StreamBytes(i, t, n)
<1> DEFINE q == StreamBytes(i, t, n)
<1>1. n * opt.insig[i] \in Nat
  <2>1. opt.insig[i] \in Nat
    BY OptionsAre
  <2> QED
    BY <2>1
<1>2. q = [k \in 1 .. n * opt.insig[i] |-> q[k]]
  BY DEF StreamBytes
<1> HIDE DEF q
<1>3. PICK N \in Nat : N = n * opt.insig[i]
  BY <1>1
<1>4. Len(q) = N /\ SubSeq(q, 1, N) = q
  BY <1>2, <1>3, WholeSeq
<1> QED
  BY <1>1, <1>3, <1>4 DEF q

\* A request is an event of its type, time and length, with no vector.
LEMMA RequestHolds ==
    ASSUME Sent, IsRequest
    PROVE  /\ Holds(AsEvent(sent.msg), RequestType, RequestTime, RequestLength)
           /\ "vector" \notin DOMAIN AsEvent(sent.msg).hash
           /\ RequestLength \in Nat /\ RequestType \in {"pdu_event", "burst"}
           /\ IsEvent(sent.msg) \/ IsConvertible(sent.msg)
<1>1. CASE \E m \in Metas, v \in Bodies : sent.msg = Pdu(m, v)
  <2>1. PICK m \in Metas, v \in Bodies : sent.msg = Pdu(m, v)
    BY <1>1
  <2>2. /\ ~IsEvent(sent.msg) /\ AsEvent(sent.msg) = EventOfPdu(Pdu(m, v))
        /\ sent.msg.meta = m /\ sent.msg.body = v
    BY <2>1 DEF AsEvent, IsEvent, Pdu
  <2>3. v = Null /\ ~IsUniform(v) /\ IsConvertible(sent.msg)
    BY <2>2 DEF IsRequest, IsUniform, IsConvertible, Null, ElementTypes
  <2>4. DOMAIN m \cap (Own \cup {"vector"}) = {}
    BY MetaKeys DEF Own
  <2>5. /\ Holds(AsEvent(sent.msg), DictRef(m, "event_type", "pdu_event"),
                 DictRef(m, "event_time", 0), DictRef(m, "event_length", 0))
        /\ DOMAIN AsEvent(sent.msg).hash = Own \cup DOMAIN m
    BY <2>2, <2>3, <2>4, ConvertedHolds
  <2>6. "vector" \notin Own \cup DOMAIN m
    BY MetaKeys DEF Own
  <2> QED
    BY <2>2, <2>3, <2>5, <2>6, MetaKeys DEF RequestType, RequestTime, RequestLength
<1>2. ASSUME NEW t \in Times, NEW n \in Lens, NEW type \in {"pdu_event", "burst"},
             sent.msg = EventCreate(type, t, n)
      PROVE  /\ Holds(AsEvent(sent.msg), RequestType, RequestTime, RequestLength)
             /\ "vector" \notin DOMAIN AsEvent(sent.msg).hash
             /\ RequestLength \in Nat /\ RequestType \in {"pdu_event", "burst"}
             /\ IsEvent(sent.msg)
  <2>1. Holds(sent.msg, type, t, n) /\ DOMAIN sent.msg.hash = Own
    BY <1>2, CreatedHolds
  <2>2. IsEvent(sent.msg) /\ AsEvent(sent.msg) = sent.msg
    BY <2>1 DEF Holds, AsEvent
  <2>3. RequestType = type /\ RequestTime = t /\ RequestLength = n
    BY <2>1, <2>2 DEF Holds, TypeIs, TimeOf, LengthOf, Field, RequestType, RequestTime, RequestLength
  <2>4. n \in Nat /\ "vector" \notin Own
    BY EventFlowAssumption DEF Own
  <2> QED
    BY <2>1, <2>2, <2>3, <2>4
<1> QED
  BY <1>1, <1>2 DEF Sent, IsRequest

\* It is given its samples in the sink when its type is registered there.
LEMMA RequestTaken ==
    ASSUME Sent, IsRequest, RequestType \in TypesOf("sink")
    PROVE  /\ InSink /\ Holds(AtSink, RequestType, RequestTime, RequestLength)
           /\ "vector" \notin DOMAIN AtSink.hash
           /\ BuffersOf(AtSink) = Streams(RequestTime, RequestLength)
<1> DEFINE e == AsEvent(sent.msg)
<1>1. Holds(e, RequestType, RequestTime, RequestLength) /\ "vector" \notin DOMAIN e.hash
  BY RequestHolds
<1>2. InSink
  BY <1>1, RequestHolds DEF InSink, Takes, IsRequest, Holds, TypeIs
<1> HIDE DEF e
<1>3. PICK type, t, n : type = RequestType /\ t = RequestTime /\ n = RequestLength
  OBVIOUS
<1>4. Holds(e, type, t, n)
  BY <1>1, <1>3
<1>5. /\ Holds(Captured(e), type, t, n)
      /\ ("vector" \in DOMAIN Captured(e).hash => "vector" \in DOMAIN e.hash)
      /\ BuffersOf(Captured(e)) = Streams(t, n)
  BY <1>4, CapturedHolds
<1> QED
  BY <1>1, <1>2, <1>3, <1>5 DEF AtSink, e

\* For all options, times, lengths and tags: a request to a sink of shorts or floats comes
\* out of the source at its time, with its length, sample for sample.
THEOREM AlwaysRequestComesBack == Spec => []RequestComesBack
<1>1. ASSUME Course,
             at \in Ends, IsRequest, RequestType = "pdu_event",
             Len(opt.insig) = 1, opt.insig[1] \in {4, 8},
             Len(opt.outsig) = 1, opt.outsig[1] >= opt.insig[1]
      PROVE  /\ at = "played"
             /\ msg = [time |-> RequestTime, length |-> RequestLength,
                       buffers |-> <<Filled(1, RequestLength, Requested)>>]
  <2>1. Sent /\ Ended /\ opt \in Options
    BY <1>1 DEF Course, Ends, Failures
  <2>2. "pdu_event" \in TypesOf("sink")
    BY DEF TypesOf
  <2> DEFINE t == RequestTime
             n == RequestLength
             c == AtSink
             q == StreamBytes(1, t, n)
  <2>3. n \in Nat
    BY <1>1, <2>1, RequestHolds
  <2>4. /\ InSink /\ Holds(c, "pdu_event", t, n) /\ "vector" \notin DOMAIN c.hash
        /\ BuffersOf(c) = Streams(t, n)
    BY <1>1, <2>1, <2>2, RequestTaken
  <2>5. Len(BuffersOf(c)) = 1 /\ BuffersOf(c)[1] = q
    BY <1>1, <2>4 DEF Streams
  <2>6. /\ n * opt.insig[1] \in Nat /\ Len(q) = n * opt.insig[1]
        /\ SubSeq(q, 1, n * opt.insig[1]) = q
    BY <1>1, <2>1, <2>3, StreamIs
  <2>7. Requested = q
    BY DEF Requested
  <2> HIDE DEF t, n, c, q
  <2>8. \E type \in {"s16", "c32"} : Samples(q, opt.insig[1], n) = Vector(type, q)
    <3>1. CASE opt.insig[1] = 4
      <4>1. (2 * n) * SizeOf["s16"] = n * opt.insig[1]
        BY <2>3, <3>1 DEF SizeOf
      <4> QED
        BY <2>6, <3>1, <4>1 DEF Samples, ReadVector
    <3>2. CASE opt.insig[1] = 8
      <4>1. n * SizeOf["c32"] = n * opt.insig[1]
        BY <2>3, <3>2 DEF SizeOf
      <4>2. Samples(q, opt.insig[1], n) = Vector("c32", SubSeq(q, 1, n * opt.insig[1]))
        BY <3>2, <4>1 DEF Samples, ReadVector
      <4> QED
        BY <2>6, <4>2
    <3> QED
      BY <1>1, <3>1, <3>2
  <2>9. PICK type \in {"s16", "c32"} : Samples(q, opt.insig[1], n) = Vector(type, q)
    BY <2>8
  <2> DEFINE body == Vector(type, q)
  <2>10. Handled(c) = Done(Pdu(c.hash, body))
    <3> DEFINE vecs == [i \in 1 .. Len(BuffersOf(c)) |->
                           Samples(BuffersOf(c)[i], opt.insig[i], n)]
    <3>1. vecs[1] = body
      BY <2>5, <2>9
    <3>2. Handled(c) = SinkHandler(c, opt.insig)
      BY <2>4 DEF Handled, Holds
    <3>3. ~ \E i \in 1 .. Len(BuffersOf(c)) : opt.insig[i] \notin {4, 8}
      BY <1>1, <2>5
    <3>4. LengthOf(c) = n
      BY <2>4 DEF Holds
    <3>5. SinkHandler(c, opt.insig) = Done(Pdu(c.hash, vecs[1]))
      BY <2>5, <3>3, <3>4 DEF SinkHandler
    <3> QED
      BY <3>1, <3>2, <3>5
  <2>11. IsUniform(body) /\ AsBlob(body) = ListOf(<<Vector("u8", q)>>) /\ body.bytes = q
    BY DEF IsUniform, Vector, AsBlob, ElementTypes
  <2> HIDE DEF body
  <2>12. HandledTo(c) = "source port" /\ Handled(c).result = Pdu(c.hash, body)
    <3>1. Handled(c).end = "done" /\ Handled(c).result = Pdu(c.hash, body)
      BY <2>10 DEF Done
    <3>2. Publishes(c)
      BY <2>4 DEF Publishes, Holds
    <3> QED
      BY <3>1, <3>2 DEF HandledTo
  <2>13. ToSource /\ AtSource = Pdu(c.hash, body)
    BY <1>1, <2>4, <2>12 DEF ToSource, AtSource, IsRequest, c
  <2>14. /\ Holds(AsEvent(AtSource), "pdu_event", t, n)
         /\ "vector" \in DOMAIN AsEvent(AtSource).hash
         /\ AsEvent(AtSource).hash["vector"] = AsBlob(body)
    <3>1. AsEvent(AtSource) = EventOfPdu(Pdu(c.hash, body))
      BY <2>13 DEF AsEvent, IsEvent, Pdu
    <3> QED
      BY <2>4, <2>11, <3>1, EventComesBack
  <2>15. InSource
    <3>1. IsConvertible(AtSource)
      BY <2>11, <2>13 DEF IsConvertible, Pdu
    <3> QED
      BY <2>13, <2>14, <3>1, SourceTypes DEF InSource, Takes, Holds, TypeIs
  <2> DEFINE s == [i \in 1 .. Len(opt.outsig) |-> q]
  <2>16. Copies("pdu_event", AsEvent(AtSource).hash["vector"], s)
    <3> DEFINE v == ListOf(<<Vector("u8", q)>>)
    <3>1. v.kind = "list" /\ v.items = <<Vector("u8", q)>> /\ ~IsUniform(v)
      BY DEF ListOf, IsUniform, ElementTypes
    <3>2. Vector("u8", q).bytes = q
      BY DEF Vector
    <3>3. AsEvent(AtSource).hash["vector"] = v
      BY <2>11, <2>14
    <3> HIDE DEF v
    <3>4. Copies("pdu_event", v, s)
      BY <1>1, <3>1, <3>2 DEF Copies
    <3> QED
      BY <3>3, <3>4
  <2>17. \A i \in 1 .. Len(opt.outsig) : Len(s[i]) <= n * opt.outsig[i]
    <3>1. n * opt.insig[1] <= n * opt.outsig[1]
      BY <1>1, <2>1, <2>3, OptionsAre
    <3> QED
      BY <1>1, <2>6, <3>1
  <2>18. [i \in 1 .. Len(opt.outsig) |-> Filled(i, n, s[i])] = <<Filled(1, n, q)>>
    BY <1>1
  <2> HIDE DEF s
  <2>19. /\ at = "played"
         /\ msg = [time |-> t, length |-> n,
                   buffers |-> [i \in 1 .. Len(opt.outsig) |-> Filled(i, n, s[i])]]
    BY <1>1, <2>1, <2>3, <2>14, <2>15, <2>16, <2>17, PlayedWhole
  <2> QED
    BY <2>7, <2>18, <2>19 DEF t, n
<1>2. Course => RequestComesBack
  BY <1>1 DEF RequestComesBack
<1> QED
  BY <1>2, CourseAlways, PTL

\* For all options, times, lengths and tags: the handlers of one type of samples get the
\* samples of their event, and what es_handler_pdu publishes of a burst no source takes.
THEOREM AlwaysHandlerGetsItsSamples == Spec => []HandlerGetsItsSamples
<1> DEFINE t == RequestTime
           n == RequestLength
           type == opt.burst.type
           q == StreamBytes(1, t, n)
           whole == SubSeq(Requested, 1, n * SizeOf[type])
           c == AtSink
<1>1. ASSUME Course,
             at \in Ends, IsRequest, RequestType = "burst",
             opt.burst.kind \in {"pdu", "file", "print"},
             SizeOf[opt.burst.type] <= opt.insig[1]
      PROVE  /\ opt.burst.kind = "file" =>
                   at = "filed" /\ msg.content = whole /\ msg.name[2] = t
             /\ opt.burst.kind = "print" => at = "printed" /\ msg.content = whole
             /\ opt.burst.kind = "pdu" => at = "refused" /\ msg.body = Vector(type, whole)
  <2>1. Sent /\ Ended /\ opt \in Options
    BY <1>1 DEF Course, Ends, Failures
  <2>2. "burst" \in TypesOf("sink")
    BY <1>1 DEF TypesOf
  <2>3. n \in Nat
    BY <1>1, <2>1, RequestHolds
  <2>4. InSink /\ Holds(c, "burst", t, n) /\ BuffersOf(c) = Streams(t, n)
    BY <1>1, <2>1, <2>2, RequestTaken
  <2>5. Requested = q
    BY DEF Requested
  <2>6. 1 \in 1 .. Len(opt.insig) /\ type \in HandlerTypes
    BY <1>1, <2>1, OptionsAre
  <2>7. BuffersOf(c)[1] = q
    BY <2>4, <2>6 DEF Streams
  <2>8. n * opt.insig[1] \in Nat /\ Len(q) = n * opt.insig[1]
    BY <2>1, <2>3, <2>6, StreamIs
  <2> HIDE DEF t, n, q, c, type
  <2>9. ~Overreads(q, type, n)
    <3>1. type \in {"f32", "c32"} /\ SizeOf[type] <= opt.insig[1]
      BY <1>1, <2>6 DEF HandlerTypes, type
    <3>2. n * SizeOf[type] <= n * opt.insig[1]
      <4>1. SizeOf[type] \in Nat
        BY <3>1 DEF SizeOf
      <4>2. opt.insig[1] \in Nat
        BY <2>1, <2>6, OptionsAre
      <4> QED
        BY <2>3, <3>1, <4>1, <4>2
    <3>3. n * SizeOf[type] \in Int
      BY <2>3, <3>1 DEF SizeOf
    <3> QED
      BY <2>8, <3>2, <3>3 DEF Overreads
  <2>10. ReadVector(q, type, n) = Vector(type, whole)
    BY <2>5 DEF ReadVector
  <2>11. LengthOf(c) = n /\ TimeOf(c) = t /\ ~TypeIs(c, "pdu_event")
    BY <2>4 DEF Holds, TypeIs
  <2>12. Vector(type, whole).bytes = whole
    BY DEF Vector
  <2>13. sent.to = "sink" /\ Takes("sink", sent.msg)
    BY <2>4 DEF InSink
  <2> HIDE DEF whole
  <2>14. CASE opt.burst.kind = "file"
    <3>1. Handled(c) = FileHandler(c, type)
      BY <2>11, <2>14 DEF Handled, type
    <3>2. FileHandler(c, type) = Done([name |-> <<type, t>>, content |-> whole])
      BY <2>7, <2>9, <2>10, <2>11, <2>12 DEF FileHandler
    <3>3. HandledTo(c) = "filed" /\ Handled(c).result = [name |-> <<type, t>>, content |-> whole]
      <4>1. Handled(c).end = "done" /\ ~Publishes(c)
        BY <2>11, <2>14, <3>1, <3>2 DEF Done, Publishes
      <4>2. HandledTo(c) = "filed"
        BY <2>14, <4>1 DEF HandledTo
      <4> QED
        BY <3>1, <3>2, <4>2 DEF Done
    <3>4. ~ToSource
      BY <2>13, <3>3 DEF ToSource, c
    <3>5. at = "filed" /\ msg = [name |-> <<type, t>>, content |-> whole]
      BY <2>1, <2>13, <3>3, <3>4 DEF Ended, InSource, c
    <3> QED
      BY <2>14, <3>5
  <2>15. CASE opt.burst.kind = "print"
    <3>1. Handled(c) = PrintHandler(c, type)
      BY <2>11, <2>15 DEF Handled, type
    <3>2. PrintHandler(c, type) = Done([event |-> c.hash, content |-> whole])
      BY <2>7, <2>9, <2>10, <2>11, <2>12 DEF PrintHandler
    <3>3. HandledTo(c) = "printed" /\ Handled(c).result = [event |-> c.hash, content |-> whole]
      <4>1. Handled(c).end = "done" /\ ~Publishes(c)
        BY <2>11, <2>15, <3>1, <3>2 DEF Done, Publishes
      <4>2. HandledTo(c) = "printed"
        BY <2>15, <4>1 DEF HandledTo
      <4> QED
        BY <3>1, <3>2, <4>2 DEF Done
    <3>4. ~ToSource
      BY <2>13, <3>3 DEF ToSource, c
    <3>5. at = "printed" /\ msg = [event |-> c.hash, content |-> whole]
      BY <2>1, <2>13, <3>3, <3>4 DEF Ended, InSource, c
    <3> QED
      BY <2>15, <3>5
  <2>16. CASE opt.burst.kind = "pdu"
    <3> DEFINE body == Vector(type, whole)
    <3>1. Handled(c) = PduHandler(c, type)
      BY <2>11, <2>16 DEF Handled, type
    <3>2. PduHandler(c, type) = Done(Pdu(c.hash, body))
      BY <2>7, <2>9, <2>10, <2>11 DEF PduHandler
    <3>3. IsUniform(body)
      BY <2>6 DEF IsUniform, Vector, ElementTypes, HandlerTypes
    <3> HIDE DEF body
    <3>4. HandledTo(c) = "source port" /\ Handled(c).result = Pdu(c.hash, body)
      <4>1. Done(Pdu(c.hash, body)).end = "done" /\ Done(Pdu(c.hash, body)).result = Pdu(c.hash, body)
        BY DEF Done
      <4>2. Handled(c) = Done(Pdu(c.hash, body))
        BY <3>1, <3>2
      <4>3. HandledTo(c) = "source port"
        BY <2>16, <4>1, <4>2 DEF HandledTo, Publishes
      <4> QED
        BY <4>1, <4>2, <4>3
    <3>5. ToSource /\ AtSource = Pdu(c.hash, body)
      BY <2>4, <2>13, <3>4 DEF ToSource, AtSource, c
    <3>6. ~Takes("source", AtSource)
      <4>1. AsEvent(AtSource) = EventOfPdu(Pdu(c.hash, body))
        BY <3>5 DEF AsEvent, IsEvent, Pdu
      <4>2. Holds(AsEvent(AtSource), "burst", t, n)
        BY <2>4, <4>1, EventComesBack
      <4> QED
        BY <4>2, SourceTypes DEF Takes, Holds, TypeIs
    <3>7. IsConvertible(AtSource)
      BY <3>3, <3>5 DEF IsConvertible, Pdu
    <3>8. HandledTo(AtSink) = "source port"
      BY <3>4 DEF c
    <3>9. at = "refused" /\ msg = AtSource
      BY <2>1, <2>13, <3>6, <3>7, <3>8 DEF Ended, InSource
    <3>10. msg.body = body
      BY <3>5, <3>9 DEF Pdu
    <3> QED
      BY <2>16, <3>9, <3>10 DEF body
  <2> QED
    BY <1>1, <2>14, <2>15, <2>16
<1>2. Course => HandlerGetsItsSamples
  BY <1>1 DEF HandlerGetsItsSamples
<1> QED
  BY <1>2, CourseAlways, PTL

-----------------------------------------------------------------------------
(* Vectors sent to the source.                                             *)

\* A vector of n elements has that length.
LEMMA UserVectorIs ==
    ASSUME NEW type \in ElementTypes, NEW n \in Nat
    PROVE  LET v == UserVector(type, n)
           IN  /\ v.kind = type /\ IsUniform(v)
               /\ Len(v.bytes) = n * SizeOf[type] /\ n * SizeOf[type] \in Nat
               /\ Length(v) = n
<1> DEFINE v == UserVector(type, n)
<1>1. SizeOf[type] \in {1, 2, 4, 8}
  BY DEF SizeOf, ElementTypes
<1>2. n * SizeOf[type] \in Nat
  BY <1>1
<1>3. v.kind = type /\ v.bytes = [k \in 1 .. n * SizeOf[type] |-> <<0, k, 0>>]
  BY DEF UserVector, Vector
<1> HIDE DEF v
<1>4. Len(v.bytes) = n * SizeOf[type]
  BY <1>2, <1>3
<1>5. (n * SizeOf[type]) \div SizeOf[type] = n
  BY <1>1
<1> QED
  BY <1>2, <1>3, <1>4, <1>5 DEF Length, IsUniform, v

\* Vectors sent with an event or a PDU: the event is as long as they are, and the handler
\* finds them in it.
Carried(type, t, n) ==
    /\ Holds(AsEvent(sent.msg), type, t, n) /\ n \in Nat /\ n = SentItems
    /\ "vector" \in DOMAIN AsEvent(sent.msg).hash
    /\ Copies(type, AsEvent(sent.msg).hash["vector"], SentVectors)
    /\ type \in TypesOf("source") /\ (IsEvent(sent.msg) \/ IsConvertible(sent.msg))

\* An event with a vector.
LEMMA EventCarries ==
    ASSUME NEW type, NEW t, NEW n, NEW v,
           sent.msg = ArgsAdd(EventCreate(type, t, n), "vector", v)
    PROVE  /\ Holds(sent.msg, type, t, n) /\ IsEvent(sent.msg) /\ AsEvent(sent.msg) = sent.msg
           /\ "vector" \in DOMAIN sent.msg.hash /\ sent.msg.hash["vector"] = v
           /\ SentItems = n
           /\ SentVectors = IF v.kind = "list"
                            THEN [i \in 1 .. Len(opt.outsig) |-> v.items[i].bytes]
                            ELSE [i \in 1 .. Len(opt.outsig) |-> v.bytes]
<1>1. Holds(EventCreate(type, t, n), type, t, n) /\ "vector" \notin Own
  BY CreatedHolds DEF Own
<1>2. /\ Holds(sent.msg, type, t, n) /\ "vector" \in DOMAIN sent.msg.hash
      /\ sent.msg.hash["vector"] = v
  BY <1>1, AddedHolds
<1>3. IsEvent(sent.msg) /\ AsEvent(sent.msg) = sent.msg /\ SentItems = n
  BY <1>2 DEF Holds, AsEvent, SentItems, LengthOf, Field
<1> QED
  BY <1>2, <1>3 DEF SentVectors

\* A request with vectors is carried through like any event.
LEMMA VectorsCarried ==
    ASSUME Sent, opt \in Options, HasVectors
    PROVE  \E type, t, n : Carried(type, t, n)
<1>1. sent.to = "source" /\ Len(opt.outsig) \in Nat \ {0}
  BY OptionsAre DEF HasVectors
<1>2. CASE \E m \in Metas, v \in Bodies : sent.msg = Pdu(m, v)
  <2>1. PICK m \in Metas, v \in Bodies : sent.msg = Pdu(m, v)
    BY <1>2
  <2>2. /\ ~IsEvent(sent.msg) /\ AsEvent(sent.msg) = EventOfPdu(Pdu(m, v))
        /\ sent.msg.meta = m /\ sent.msg.body = v
    BY <2>1 DEF AsEvent, IsEvent, Pdu
  <2>3. v # Null /\ "event_type" \notin DOMAIN m /\ Len(opt.outsig) = 1
    BY <2>2 DEF HasVectors
  <2>4. PICK type \in ElementTypes, k \in Nat : v = UserVector(type, k)
    BY <2>3, EventFlowAssumption DEF Bodies
  <2>5. /\ v.kind = type /\ IsUniform(v) /\ Length(v) = k
    BY <2>4, UserVectorIs
  <2>6. DOMAIN m \cap (Own \cup {"vector"}) = {}
    BY MetaKeys DEF Own
  <2>7. DictRef(m, "event_type", "pdu_event") = "pdu_event"
    BY <2>3 DEF DictRef
  <2>8. PICK t : t = DictRef(m, "event_time", 0)
    OBVIOUS
  <2>9. /\ Holds(AsEvent(sent.msg), "pdu_event", t, k)
        /\ "vector" \in DOMAIN AsEvent(sent.msg).hash
        /\ AsEvent(sent.msg).hash["vector"] = AsBlob(v)
    BY <2>2, <2>5, <2>6, <2>7, <2>8, ConvertedHolds
  <2>10. IsConvertible(sent.msg) /\ k = SentItems
    BY <2>2, <2>5 DEF IsConvertible, SentItems
  <2>11. SentVectors = [i \in 1 .. Len(opt.outsig) |-> v.bytes]
    <3>1. v.kind # "list"
      BY <2>5 DEF ElementTypes
    <3> QED
      BY <2>2, <3>1 DEF SentVectors
  <2>12. Copies("pdu_event", AsBlob(v), SentVectors)
    <3> DEFINE b == AsBlob(v)
    <3>1. b.kind = "list" /\ b.items = <<Vector("u8", v.bytes)>> /\ ~IsUniform(b)
      BY DEF AsBlob, ListOf, IsUniform, ElementTypes
    <3>2. Vector("u8", v.bytes).bytes = v.bytes
      BY DEF Vector
    <3>3. Len(SentVectors) = 1 /\ SentVectors[1] = v.bytes
      BY <2>3, <2>11
    <3> HIDE DEF b
    <3>4. Copies("pdu_event", b, SentVectors)
      BY <2>3, <3>1, <3>2, <3>3 DEF Copies
    <3> QED
      BY <3>4 DEF b
  <2> QED
    BY <2>9, <2>10, <2>12, SourceTypes DEF Carried
<1>3. ASSUME NEW type, NEW t, NEW k, NEW v, IsUniform(v), k \in Nat,
             sent.msg = ArgsAdd(EventCreate(type, t, k), "vector", v),
             \/ type = "es::event_type_gen_vector_f" /\ v.kind = "f32"
             \/ type = "es::event_type_gen_vector_c" /\ v.kind = "c32"
             \/ type = "es::event_type_gen_vector_b" /\ v.kind = "u8"
             \/ type = "pdu_event"
      PROVE  Carried(type, t, k)
  <2>1. /\ Holds(sent.msg, type, t, k) /\ IsEvent(sent.msg) /\ AsEvent(sent.msg) = sent.msg
        /\ "vector" \in DOMAIN sent.msg.hash /\ sent.msg.hash["vector"] = v
        /\ SentItems = k
        /\ SentVectors = IF v.kind = "list"
                         THEN [i \in 1 .. Len(opt.outsig) |-> v.items[i].bytes]
                         ELSE [i \in 1 .. Len(opt.outsig) |-> v.bytes]
    BY <1>3, EventCarries
  <2>2. v.kind # "list" /\ v.kind # "none"
    BY <1>3 DEF IsUniform, ElementTypes
  <2>3. \A i \in 1 .. Len(opt.outsig) : SentVectors[i] = v.bytes
    BY <2>1, <2>2
  <2>4. type = "pdu_event" => Len(opt.outsig) = 1
    BY <2>1 DEF HasVectors, Holds
  <2>5. Copies(type, v, SentVectors)
    <3>1. CASE type = "pdu_event"
      <4> DEFINE list == IF IsUniform(v) THEN <<v>> ELSE v.items
      <4>1. Len(list) = 1 /\ list[1] = v
        BY <1>3
      <4> HIDE DEF list
      <4>2. Len(opt.outsig) = 1
        BY <2>4, <3>1
      <4>3. \A i \in 1 .. Len(opt.outsig) : SentVectors[i] = list[i].bytes
        BY <2>3, <4>1, <4>2
      <4>4. Len(list) \in Nat /\ Len(list) >= Len(opt.outsig)
        BY <4>1, <4>2
      <4> USE DEF list
      <4> QED
        BY <2>2, <3>1, <4>3, <4>4 DEF Copies
    <3>2. CASE type # "pdu_event"
      BY <1>3, <2>3, <3>2 DEF Copies
    <3> QED
      BY <3>1, <3>2
  <2>6. type \in TypesOf("source")
    BY <1>3, SourceTypes
  <2> QED
    BY <1>3, <2>1, <2>5, <2>6 DEF Carried
<1>4. ASSUME NEW t, NEW n \in Lens, sent.msg = GenVectorF(t, UserVector("f32", n))
      PROVE  \E type, k : Carried(type, t, k)
  <2>1. n \in Nat /\ "f32" \in ElementTypes
    BY EventFlowAssumption DEF ElementTypes
  <2>2. /\ UserVector("f32", n).kind = "f32" /\ IsUniform(UserVector("f32", n))
        /\ Length(UserVector("f32", n)) = n
    BY <2>1, UserVectorIs
  <2> QED
    BY <1>3, <1>4, <2>1, <2>2 DEF GenVectorF
<1>5. ASSUME NEW t, NEW n \in Lens, sent.msg = GenVectorC(t, UserVector("c32", n))
      PROVE  \E type, k : Carried(type, t, k)
  <2>1. n \in Nat /\ "c32" \in ElementTypes
    BY EventFlowAssumption DEF ElementTypes
  <2>2. /\ UserVector("c32", n).kind = "c32" /\ IsUniform(UserVector("c32", n))
        /\ Length(UserVector("c32", n)) = n
    BY <2>1, UserVectorIs
  <2> QED
    BY <1>3, <1>5, <2>1, <2>2 DEF GenVectorC
<1>6. ASSUME NEW t, NEW n \in Lens, NEW size \in {1, 2, 4},
             sent.msg = GenVectorB(t, UserVector("u8", n), size)
      PROVE  \E type, k : Carried(type, t, k)
  <2>1. n \in Nat /\ "u8" \in ElementTypes
    BY EventFlowAssumption DEF ElementTypes
  <2>2. /\ UserVector("u8", n).kind = "u8" /\ IsUniform(UserVector("u8", n))
        /\ Length(UserVector("u8", n)) = n
    BY <2>1, UserVectorIs
  <2>3. n \div size \in Nat
    BY <2>1
  <2> QED
    BY <1>3, <1>6, <2>2, <2>3 DEF GenVectorB
<1>7. ASSUME NEW t, NEW n \in Lens, NEW type \in {"f32", "c32"},
             sent.msg = ArgsAdd(EventCreate("pdu_event", t, n), "vector", UserVector(type, n))
      PROVE  \E ty, k : Carried(ty, t, k)
  <2>1. n \in Nat /\ type \in ElementTypes
    BY EventFlowAssumption DEF ElementTypes
  <2>2. IsUniform(UserVector(type, n))
    BY <2>1, UserVectorIs
  <2> QED
    BY <1>3, <1>7, <2>1, <2>2
<1>8. ASSUME NEW t, NEW n \in Lens,
             sent.msg = GenVector(t, [i \in 1 .. Len(opt.outsig) |->
                               UserVector("u8", n * opt.outsig[i])], opt.outsig)
      PROVE  \E type, k : Carried(type, t, k)
  <2> DEFINE vs == [i \in 1 .. Len(opt.outsig) |-> UserVector("u8", n * opt.outsig[i])]
             v == ListOf(vs)
             type == "es::event_type_gen_vector"
  <2>1. n \in Nat /\ "u8" \in ElementTypes /\ opt.outsig[1] \in {1, 4, 8}
    BY <1>1, EventFlowAssumption, OptionsAre DEF ElementTypes
  <2>2. n * opt.outsig[1] \in Nat
    BY <2>1
  <2>3. vs[1] = UserVector("u8", n * opt.outsig[1])
    BY <1>1
  <2>4. Length(vs[1]) = n * opt.outsig[1]
    <3>1. PICK N \in Nat : N = n * opt.outsig[1]
      BY <2>2
    <3>2. Length(UserVector("u8", N)) = N
      BY <2>1, UserVectorIs
    <3> QED
      BY <2>3, <3>1, <3>2
  <2>5. Len(vs) = Len(opt.outsig)
    BY <1>1
  <2> HIDE DEF vs
  <2>6. Length(vs[1]) \div opt.outsig[1] = n
    BY <2>1, <2>4
  <2>7. v.kind = "list" /\ v.items = vs /\ ~IsUniform(v)
    BY DEF ListOf, IsUniform, ElementTypes
  <2>8. sent.msg = ArgsAdd(EventCreate(type, t, n), "vector", v)
    BY <1>8, <2>6 DEF GenVector, vs
  <2> HIDE DEF v
  <2>9. /\ Holds(sent.msg, type, t, n) /\ IsEvent(sent.msg) /\ AsEvent(sent.msg) = sent.msg
        /\ "vector" \in DOMAIN sent.msg.hash /\ sent.msg.hash["vector"] = v
        /\ SentItems = n
        /\ SentVectors = [i \in 1 .. Len(opt.outsig) |-> v.items[i].bytes]
    BY <2>7, <2>8, EventCarries
  <2>10. Copies(type, v, SentVectors)
    BY <1>1, <2>5, <2>7, <2>9 DEF Copies
  <2> QED
    BY <2>1, <2>9, <2>10, SourceTypes DEF Carried
<1>9. \/ \E m \in Metas, v \in Bodies : sent.msg = Pdu(m, v)
      \/ \E t \in Times, n \in Lens :
             \/ sent.msg = GenVectorF(t, UserVector("f32", n))
             \/ sent.msg = GenVectorC(t, UserVector("c32", n))
             \/ \E size \in {1, 2, 4} : sent.msg = GenVectorB(t, UserVector("u8", n), size)
             \/ \E type \in {"f32", "c32"} :
                   sent.msg = ArgsAdd(EventCreate("pdu_event", t, n),
                                      "vector", UserVector(type, n))
             \/ sent.msg = GenVector(t, [i \in 1 .. Len(opt.outsig) |->
                               UserVector("u8", n * opt.outsig[i])], opt.outsig)
  BY <1>1 DEF Sent
<1> QED
  BY <1>2, <1>4, <1>5, <1>6, <1>7, <1>8, <1>9

\* For all item sizes of the outputs, times and lengths: vectors that fit into the outputs
\* of the source are played whole, followed by zeros.
THEOREM VectorsAlwaysPlayedWhole == Spec => []VectorsArePlayedWhole
<1>1. ASSUME Course, at \in Ends, HasVectors,
             \A i \in 1 .. Len(opt.outsig) : Len(SentVectors[i]) <= SentItems * opt.outsig[i]
      PROVE  /\ at = "played"
             /\ msg.buffers = [i \in 1 .. Len(opt.outsig) |->
                                  Filled(i, SentItems, SentVectors[i])]
  <2>1. Sent /\ Ended /\ opt \in Options
    BY <1>1 DEF Course, Ends, Failures
  <2>2. PICK type, t, n : Carried(type, t, n)
    BY <1>1, <2>1, VectorsCarried
  <2>3. sent.to = "source" /\ AtSource = sent.msg /\ ToSource
    BY <1>1 DEF HasVectors, AtSource, ToSource
  <2>4. InSource
    BY <2>2, <2>3 DEF InSource, Takes, Carried, Holds, TypeIs
  <2>5. /\ n \in Nat /\ Holds(AsEvent(AtSource), type, t, n)
        /\ "vector" \in DOMAIN AsEvent(AtSource).hash
        /\ Copies(type, AsEvent(AtSource).hash["vector"], SentVectors)
        /\ \A i \in 1 .. Len(opt.outsig) : Len(SentVectors[i]) <= n * opt.outsig[i]
    BY <1>1, <2>2, <2>3 DEF Carried
  <2>6. /\ at = "played"
        /\ msg = [time |-> t, length |-> n,
                  buffers |-> [i \in 1 .. Len(opt.outsig) |-> Filled(i, n, SentVectors[i])]]
    BY <1>1, <2>1, <2>4, <2>5, PlayedWhole
  <2> QED
    BY <2>2, <2>6 DEF Carried
<1>2. Course => VectorsArePlayedWhole
  BY <1>1 DEF VectorsArePlayedWhole
<1> QED
  BY <1>2, CourseAlways, PTL
=============================================================================

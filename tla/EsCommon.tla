------------------------------ MODULE EsCommon ------------------------------
(***************************************************************************)
(* Events and what they carry (lib/es_common.cc, lib/es_gen_vector.cc).    *)
(*                                                                         *)
(* A PMT dictionary is a function from its keys to values.  An event is a  *)
(* tuple tagged as one around a dictionary; a PDU is a pair of a           *)
(* dictionary and a body.  A uniform vector is its element type and its    *)
(* bytes; a list of vectors is of kind "list".                             *)
(***************************************************************************)
EXTENDS Integers, Sequences

EmptyDict == [k \in {} |-> 0]

DictAdd(d, key, val) ==
    [k \in DOMAIN d \cup {key} |-> IF k = key THEN val ELSE d[k]]

DictRef(d, key, default) == IF key \in DOMAIN d THEN d[key] ELSE default

\* Every key of e added to d, as by dict_update or by dict_add one after another.
DictUpdate(d, e) ==
    [k \in DOMAIN d \cup DOMAIN e |-> IF k \in DOMAIN e THEN e[k] ELSE d[k]]

-----------------------------------------------------------------------------
(* PMT values.                                                             *)

ElementTypes == {"u8", "s16", "f32", "c32"}

SizeOf == [u8 |-> 1, s16 |-> 2, f32 |-> 4, c32 |-> 8]

Vector(type, bytes) == [kind |-> type, bytes |-> bytes]
ListOf(vectors)     == [kind |-> "list", items |-> vectors]
Null                == [kind |-> "null"]

IsUniform(v) == v.kind \in ElementTypes
Length(v)    == Len(v.bytes) \div SizeOf[v.kind]

-----------------------------------------------------------------------------
(* Events.                                                                 *)

EventOfHash(hash) == [kind |-> "event", hash |-> hash]
Pdu(meta, body)   == [kind |-> "pdu", meta |-> meta, body |-> body]

IsEvent(m) == m.kind = "event"

EventCreate(type, time, length) ==
    EventOfHash(DictAdd(DictAdd(DictAdd(EmptyDict,
        "es::event_type", type), "es::event_time", time),
        "es::event_length", length))

ArgsAdd(e, key, val) == EventOfHash(DictAdd(e.hash, key, val))

HasField(e, key) == key \in DOMAIN e.hash

\* event_field throws when the field is missing.
Field(e, key) == e.hash[key]

TypeIs(e, type) == Field(e, "es::event_type") = type
TimeOf(e)       == Field(e, "es::event_time")
LengthOf(e)     == Field(e, "es::event_length")

RegisterBuffer(e, buffers) == ArgsAdd(e, "es::event_buffer", buffers)

-----------------------------------------------------------------------------
(* Events that carry vectors (es_gen_vector.cc): the event is as long as   *)
(* the vector, in its elements, in items of itemsize, or, for a list, as   *)
(* its first vector in items of the first stream.                          *)

GenVectorF(time, v) ==
    ArgsAdd(EventCreate("es::event_type_gen_vector_f", time, Length(v)), "vector", v)

GenVectorC(time, v) ==
    ArgsAdd(EventCreate("es::event_type_gen_vector_c", time, Length(v)), "vector", v)

GenVectorB(time, v, itemsize) ==
    ArgsAdd(EventCreate("es::event_type_gen_vector_b", time,
                        Length(v) \div itemsize), "vector", v)

GenVector(time, vectors, sig) ==
    ArgsAdd(EventCreate("es::event_type_gen_vector", time,
                        Length(vectors[1]) \div sig[1]), "vector", ListOf(vectors))

-----------------------------------------------------------------------------
(* es_event_acceptor::schedule_event makes an event of a PDU.              *)

IsConvertible(m) == IsUniform(m.body) \/ m.body.kind = "null"

\* A vector is carried as bytes, in a list.
AsBlob(v) == ListOf(<<Vector("u8", v.bytes)>>)

\* The event before the keys of the metadata are copied.
BareEvent(m) ==
    LET uniform == IsUniform(m.body)
        len == IF uniform THEN Length(m.body) ELSE DictRef(m.meta, "event_length", 0)
        evt == EventCreate(DictRef(m.meta, "event_type", "pdu_event"),
                           DictRef(m.meta, "event_time", 0), len)
    IN  IF uniform THEN ArgsAdd(evt, "vector", AsBlob(m.body)) ELSE evt

EventOfPduKeeping(m) ==      \* the keys the event has already are put last
    EventOfHash(DictUpdate(m.meta, BareEvent(m).hash))

\* All the keys are copied, last: they replace what was found for the event's own.
EventOfPdu(m) == EventOfHash(DictUpdate(BareEvent(m).hash, m.meta))
=============================================================================

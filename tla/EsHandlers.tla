----------------------------- MODULE EsHandlers -----------------------------
(***************************************************************************)
(* The handlers that make one call on the buffers of an event: es_sink's   *)
(* own (es_sink::handler), es_handler_pdu, es_handler_file,                *)
(* es_handler_print and es_handler_insert_vector, with the base            *)
(* es_handler.  The passthrough handler publishes the event as it is.      *)
(*                                                                         *)
(* A buffer is a sequence of bytes.  What lies behind its end is not the   *)
(* event's: reading on is an "overread", writing on an "overrun".          *)
(***************************************************************************)
EXTENDS EsCommon

Done(result)   == [end |-> "done", result |-> result]
Fails(outcome) == [end |-> outcome, result |-> <<>>]

\* es_handler::handler_helper: the pointers of the buffers registered.
BuffersOf(e) ==
    LET list == Field(e, "es::event_buffer").items
    IN  [i \in 1 .. Len(list) |-> list[i].bytes]

ReadVectorBytes(buf, type, n) == Vector(type, SubSeq(buf, 1, n))   \* n is no byte count

\* The vector of n elements of a type at the start of a buffer.
ReadVector(buf, type, n) == Vector(type, SubSeq(buf, 1, n * SizeOf[type]))

Overreads(buf, type, n) == n * SizeOf[type] > Len(buf)

-----------------------------------------------------------------------------
(* es_sink::handler publishes the samples: an item of 4 bytes is a complex *)
(* of two shorts, one of 8 bytes a complex of two floats.                  *)

Samples(buf, itemsize, n) ==
    IF itemsize = 4 THEN ReadVector(buf, "s16", 2 * n)
                    ELSE ReadVector(buf, "c32", n)

SinkHandler(e, insig) ==
    LET bufs == BuffersOf(e)
        vecs == [i \in 1 .. Len(bufs) |-> Samples(bufs[i], insig[i], LengthOf(e))]
    IN  IF \E i \in 1 .. Len(bufs) : insig[i] \notin {4, 8} THEN Fails("threw")
        ELSE Done(Pdu(e.hash, IF Len(bufs) = 1 THEN vecs[1] ELSE ListOf(vecs)))

\* es_handler_pdu, es_handler_file and es_handler_print take the first buffer as of their own type.
PduHandler(e, type) ==
    LET buf == BuffersOf(e)[1]
    IN  IF Overreads(buf, type, LengthOf(e)) THEN Fails("overread")
        ELSE Done(Pdu(e.hash, ReadVector(buf, type, LengthOf(e))))

FileHandler(e, type) ==
    LET buf == BuffersOf(e)[1]
    IN  IF Overreads(buf, type, LengthOf(e)) THEN Fails("overread")
        ELSE Done([name |-> <<type, TimeOf(e)>>,
                   content |-> ReadVector(buf, type, LengthOf(e)).bytes])

PrintHandler(e, type) ==
    LET buf == BuffersOf(e)[1]
    IN  IF Overreads(buf, type, LengthOf(e)) THEN Fails("overread")
        ELSE Done([event |-> e.hash,
                   content |-> ReadVector(buf, type, LengthOf(e)).bytes])

-----------------------------------------------------------------------------
(* es_handler_insert_vector copies the event's vectors into its buffers.   *)

CopyTo(buf, bytes) ==
    [k \in 1 .. Len(buf) |-> IF k <= Len(bytes) THEN bytes[k] ELSE buf[k]]

CopyAll(bufs, source) ==      \* source[i] goes to buffer i
    IF \E i \in 1 .. Len(bufs) : Len(source[i]) > Len(bufs[i]) THEN Fails("overrun")
    ELSE Done([i \in 1 .. Len(bufs) |-> CopyTo(bufs[i], source[i])])

VectorTypeOf(e) ==            \* the element type a single vector must have
    CASE TypeIs(e, "es::event_type_gen_vector_f") -> "f32"
      [] TypeIs(e, "es::event_type_gen_vector_c") -> "c32"
      [] TypeIs(e, "es::event_type_gen_vector_b") -> "u8"
      [] OTHER -> "none"

TakesList(e) ==
    TypeIs(e, "es::event_type_gen_vector") \/ TypeIs(e, "pdu_event")

InsertSame(bufs, v) == CopyAll(bufs, [i \in 1 .. Len(bufs) |-> v.bytes])

InsertList(bufs, v) ==
    LET list == IF IsUniform(v) THEN <<v>> ELSE v.items
    IN  IF Len(list) < Len(bufs) THEN Fails("threw")
        ELSE CopyAll(bufs, [i \in 1 .. Len(bufs) |-> list[i].bytes])

InsertVector(e) ==
    LET bufs == BuffersOf(e)
        v    == Field(e, "vector")
    IN  IF ~HasField(e, "vector") THEN Fails("threw")
        ELSE IF v.kind = VectorTypeOf(e) THEN InsertSame(bufs, v)
        ELSE IF TakesList(e) THEN InsertList(bufs, v)
        ELSE Fails("threw")
=============================================================================

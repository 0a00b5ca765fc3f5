----------------------------- MODULE EsVectorIO -----------------------------
(***************************************************************************)
(* The ends of a handler's flowgraph: es_vector_source                     *)
(* (lib/es_vector_source.cc), which plays a finite vector, and             *)
(* es_vector_sink (lib/es_vector_sink.cc), which collects one.  All the    *)
(* ports of a block move together and are one here.                        *)
(***************************************************************************)
EXTENDS Integers, Sequences

\* A source: its data and d_item_offset, the items of it already output.
Cleared == [data |-> <<>>, offset |-> 0]

SetData(data) == [Cleared EXCEPT !.data = data]

ItemsRemain(src) == Len(src.data) - src.offset

Least(a, b) == IF a < b THEN a ELSE b

\* The items a call of work() copies when n are asked for, and the source after.
Played(src, n) ==
    SubSeq(src.data, src.offset + 1, src.offset + Least(n, ItemsRemain(src)))

Advanced(src, n) == [src EXCEPT !.offset = @ + Least(n, ItemsRemain(src))]

SaysDoneBelow(src, n) ==     \* the unsigned remainder compared with less-than
    Least(n, ItemsRemain(src)) = 0 /\ ItemsRemain(src) < 0

\* The call returns -1: it copied nothing and nothing remains.
SaysDone(src, n) == Least(n, ItemsRemain(src)) = 0 /\ ItemsRemain(src) = 0

\* A sink is the sequence of items collected; work() appends the n it is given.
EmptySink == <<>>

Collected(sink, items) == sink \o items
=============================================================================

------------------------ MODULE MCEsPooledResource ------------------------
(* Instances of EsPooledResource for TLC. *)
EXTENDS EsPooledResource

CONSTANTS k1, k2, t1, t2, t3

Option(initial, prealloc, users) ==
    [initial |-> initial, prealloc |-> prealloc, users |-> users]

\* Nothing, one key and every key preallocated; pools that start empty and with items.
MyOptions ==
    {Option(0, {}, {t1, t2, t3}), Option(1, {}, {t1, t2}), Option(1, {k1}, {t1, t2}),
     Option(0, {k1, k2}, {t1, t2}), Option(2, {k1, k2}, {t1, t2})}
=============================================================================

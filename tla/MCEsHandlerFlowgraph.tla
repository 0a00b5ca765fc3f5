------------------------ MODULE MCEsHandlerFlowgraph ------------------------
(* Instances of EsHandlerFlowgraph for TLC. *)
EXTENDS EsHandlerFlowgraph, TLC

CONSTANTS e1, e2, e3, t1, t2

Lengths == (e1 :> 2) @@ (e2 :> 3) @@ (e3 :> 1)

Option(pool, source, sink, gain, pre, post) ==
    [pool |-> pool, source |-> source, sink |-> sink, gain |-> gain,
     pre |-> pre, post |-> post]

MyOptions ==
    {Option(1, TRUE, TRUE, 1, "unset", "unset"),
     Option(2, TRUE, TRUE, 1, "python", "python"),
     Option(2, TRUE, TRUE, 0, "unset", "python"),
     Option(2, TRUE, TRUE, 2, "unset", "unset"),
     Option(2, TRUE, FALSE, 1, "none", "unset"),
     Option(2, FALSE, TRUE, 1, "python", "none"),
     Option(2, FALSE, TRUE, 1, "python", "unset"),
     Option(2, FALSE, TRUE, 1, "unset", "unset")}
=============================================================================

----------------------------- MODULE MCEsSource -----------------------------
(* Instances of EsSource for TLC. *)
EXTENDS EsSource, TLC

CONSTANTS e1, e2, h1

OneEach == (e1 :> <<h1>>) @@ (e2 :> <<h1>>)

Option(threads, early, merge, direct, ordered) ==
    [threads |-> threads, early |-> early, merge |-> merge, direct |-> direct,
     ordered |-> ordered]

PlayOptions ==
    {Option(2, b, "MEMCPY", TRUE, FALSE) : b \in {"BALK", "RNDF"}}
      \cup {Option(2, "DISCARD", "ADD", FALSE, FALSE),
            Option(2, "ASAP", "MEMCPY", FALSE, FALSE),
            Option(1, "DISCARD", "ADD", TRUE, TRUE)}

AnyOrder == {Option(1, "DISCARD", "ADD", TRUE, FALSE)}
=============================================================================

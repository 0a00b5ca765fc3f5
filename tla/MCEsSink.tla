------------------------------ MODULE MCEsSink ------------------------------
(* Instances of EsSink for TLC. *)
EXTENDS EsSink, TLC

CONSTANTS e1, e2, h1, h2

\* e1 has one handler, e2 two.
OneAndTwo == (e1 :> <<h1>>) @@ (e2 :> <<h1, h2>>)
TwoOnly   == e1 :> <<h1, h2>>

Option(early, search, congestion, direct, eof) ==
    [early |-> early, search |-> search, congestion |-> congestion,
     direct |-> direct, eof |-> eof]

\* Between them these fire every action.
SafetyOptions ==
    {Option("DISCARD", "REVERSE", "DROP",  FALSE, TRUE),
     Option("DISCARD", "FORWARD", "BLOCK", TRUE,  FALSE),
     Option("ASAP",    "BINARY",  "BLOCK", FALSE, FALSE),
     Option("BALK",    "BINARY",  "BLOCK", FALSE, FALSE)}

LiveOptions ==
    {Option("DISCARD", "FORWARD", "BLOCK", FALSE, FALSE),
     Option("DISCARD", "BINARY",  "BLOCK", FALSE, TRUE)}
=============================================================================

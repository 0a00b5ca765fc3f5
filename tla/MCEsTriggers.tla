---------------------------- MODULE MCEsTriggers ----------------------------
(* Instances of EsTriggers for TLC. *)
EXTENDS EsTriggers, TLC

CONSTANTS h1, h2

OneHandler == <<h1>>
TwoHandlers == <<h1, h2>>

AllSignals(values, n) == [1 .. n -> values]

\* Every input of five samples below, at and above the thresholds.
ShortSignals == AllSignals({0, 1, 2}, 5)

MyPdus ==
    {[kind |-> "pdu", id |-> <<"pdu", 1, 1>>, type |-> "edge_event", time |-> 2,
      len |-> None, body |-> "vector", vlen |-> 2],
     [kind |-> "pdu", id |-> <<"pdu", 2, 1>>, type |-> None, time |-> None,
      len |-> 1, body |-> "null", vlen |-> 0],
     [kind |-> "pdu", id |-> <<"pdu", 3, 1>>, type |-> None, time |-> None,
      len |-> None, body |-> "other", vlen |-> 0]}

Counts == {-1, 0, 1, 2}

MyCasts == {{"edge"}, {"sample", "pdu"}, {"timer", "pdu"}}

TimerOnly == {{"timer"}}
EdgeOnly == {{"edge"}}
=============================================================================

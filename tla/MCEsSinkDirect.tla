--------------------------- MODULE MCEsSinkDirect ---------------------------
(***************************************************************************)
(* EsSink with another thread that calls add_event on the queue, and what  *)
(* is needed to state a comment of fetch_next_event.                       *)
(***************************************************************************)
EXTENDS MCEsSink

DirectOptions == {Option("DISCARD", "FORWARD", "BLOCK", TRUE, FALSE)}

\* Not state of the program.
VARIABLES
    skipped,   \* pairs in the queue when a fetch found none that ends in the buffer
    torn       \* work() has read the queue while a pair was being inserted

DirectInit == Init /\ skipped = {} /\ torn = FALSE

DirectNext ==
    /\ Next
    /\ skipped' = IF pc = "fetch" /\ pc' = "consume"
                  THEN skipped \cup {IdOf(queue[i]) : i \in 1 .. Len(queue)}
                  ELSE skipped
    /\ torn' = (torn \/ (pc = "consume" /\ pc' # "consume" /\ lock \in Events))

DirectSpec == DirectInit /\ [][DirectNext]_<<vars, skipped, torn>>

\* A comment in fetch_next_event says of the pairs it skips because they end too late
\* that "sinks should pick this up the next time through": none of them is discarded
\* instead, even when no read of the queue by work() falls into an insertion.
SkippedIsKept == torn \/ skipped \cap discarded = {}
=============================================================================

----------------------------- MODULE EsMessages -----------------------------
(***************************************************************************)
(* The messages on the port schedule_event of one acceptor (a sink or a    *)
(* source) and what its publishers share.  A port keeps its messages in    *)
(* the order they are published in.                                        *)
(***************************************************************************)
EXTENDS Integers, Sequences

VARIABLE inbox     \* messages published and not yet handled

Publish(m) == inbox' = Append(inbox, m)

\* (ES_REGISTER_HANDLER, (type, targets)): the targets subscribe to a type.
Registration(type, targets) ==
    [kind |-> "register", type |-> type, targets |-> targets]

\* event_create: id is not in the message, it tells events apart.
Event(id, type, time, len) ==
    [kind |-> "event", id |-> id, type |-> type, time |-> time, len |-> len]
=============================================================================

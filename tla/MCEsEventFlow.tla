--------------------------- MODULE MCEsEventFlow ---------------------------
(* Instances of EsEventFlow for TLC. *)
EXTENDS EsEventFlow

Wiring(insig, outsig, kind, type) ==
    [insig |-> insig, outsig |-> outsig,
     burst |-> IF kind \in {"pdu", "file", "print"} THEN [kind |-> kind, type |-> type]
               ELSE [kind |-> kind]]

\* Inputs and outputs of equal, larger and smaller items, one and two of them, one too
\* small to publish; handlers of samples of the items' size, smaller and larger.
Wirings ==
    {Wiring(<<4>>,    <<4>>,    "file", "f32"),
     Wiring(<<8>>,    <<8>>,    "pdu", "c32"),
     Wiring(<<4>>,    <<8>>,    "file", "c32"),
     Wiring(<<8>>,    <<4>>,    "pdu", "f32"),
     Wiring(<<8, 4>>, <<4, 8>>, "passthrough", "none"),
     Wiring(<<4, 2>>, <<8, 1>>, "none", "none"),
     Wiring(<<2>>,    <<1>>,    "pdu", "f32"),
     Wiring(<<8, 8>>, <<8>>,    "print", "f32"),
     Wiring(<<4>>,    <<1>>,    "print", "c32")}

StreamTags == [rx_time |-> 5]
=============================================================================

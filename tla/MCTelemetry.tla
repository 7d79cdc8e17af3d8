----------------------------- MODULE MCTelemetry -----------------------------
(***************************************************************************)
(* Two monitored ports and one that is only crossed; every scheme meets    *)
(* the one its costs or its knowledge are compared with.                   *)
(***************************************************************************)
EXTENDS TelemetryReplay

S(kind, P) == [kind |-> kind, P |-> P]

Lossless == {
    {S("full", 1), S("delta", 1)}, {S("full", 1), S("O", 1)}, {S("full", 1), S("samp", 1)},
    {S("full", 1), S("every", 2)}, {S("every", 2), S("once", 2)}, {S("once", 1), S("once", 2)},
    {S("once", 2), S("O", 1)}, {S("pint", 1)}, {S("pool", 1), S("cut", 1)}}
Lossy == {{S(k, 2)} : k \in Kind \ {"delta"}} \cup {{S("once", 2), S("O", 1)}}

MCComparisons ==
    {[schemes |-> c, lossy |-> FALSE] : c \in Lossless}
        \cup {[schemes |-> c, lossy |-> TRUE] : c \in Lossy}

MCPath == {{1}, {1, 2}, {2, 3}}
=============================================================================

--------------------------- MODULE MCEgressOutbox ---------------------------
(* EgressOutbox for TLC: two insights and two receipts, of different sizes. *)
EXTENDS EgressOutbox, TLC

CONSTANTS r1, r2

MCSizeOf == (1 :> 1) @@ (2 :> 2) @@ (r1 :> 1) @@ (r2 :> 2)
=============================================================================

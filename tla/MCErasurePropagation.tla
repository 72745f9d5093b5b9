------------------------ MODULE MCErasurePropagation ------------------------
(* ErasurePropagation on small instances. *)
EXTENDS ErasurePropagation

CONSTANTS p1, p2,       \* peers
          k1            \* the key of a row
====

--------------------------- MODULE ErasureDelivery ---------------------------
(***************************************************************************)
(* What the engine promises about the announcement of erasures, whoever    *)
(* calls it and whatever fails: an erasure is struck off, and entered in   *)
(* the egress ledger, only after a peer confirmed its DeletionEvent, and   *)
(* what peers confirmed or the ledger holds is never taken back.           *)
(***************************************************************************)
EXTENDS Naturals

CONSTANT Erasures       \* ids of the erasures; 0 is not one

VARIABLES delivered,    \* the erasures some peer confirmed
          audited,      \* the erasures the ledger holds
          marked        \* the erasure the durable gate holds; 0 for none

vars == <<delivered, audited, marked>>

Init == delivered = {} /\ audited = {} /\ marked = 0

Deliver(i) == /\ delivered' = delivered \cup {i}
              /\ UNCHANGED <<audited, marked>>

Audit(i) == /\ i \in delivered
            /\ audited' = audited \cup {i}
            /\ UNCHANGED <<delivered, marked>>

Mark(i) == /\ i \in delivered
           /\ marked' = i
           /\ UNCHANGED <<delivered, audited>>

Next == \E i \in Erasures : Deliver(i) \/ Audit(i) \/ Mark(i)

Spec == Init /\ [][Next]_vars
====

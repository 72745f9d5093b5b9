-------------------------------- MODULE Hlc --------------------------------
(***************************************************************************)
(* Hybrid logical clock values (maekon-core/src/sync/hlc.rs) and the       *)
(* persistent local clock built on them                                    *)
(* (maekon-storage/src/sqlite/hlc_clock.rs), as operators.                 *)
(*                                                                         *)
(* An HLC is the pair <<wall_ms, counter>>.  The third component of the    *)
(* Rust struct, device_id, is the tie-break between devices; one device's  *)
(* clock never compares it (the SQL and the Rust tuples are pairs too).    *)
(***************************************************************************)
EXTENDS Integers

CONSTANT CtrMax   \* the largest counter: u32::MAX in the code

ASSUME CtrMaxAssumption == CtrMax \in Nat

Stamp == Nat \X (0 .. CtrMax)

ZERO == <<0, 0>>

\* (w1, c1) < (w2, c2): the derived lexicographic order of the Rust tuples.
StampLT(a, b) == \/ a[1] < b[1]
                 \/ a[1] = b[1] /\ a[2] < b[2]

StampLE(a, b) == \/ a[1] < b[1]
                 \/ a[1] = b[1] /\ a[2] <= b[2]

StampMax(a, b) == IF StampLT(a, b) THEN b ELSE a

\* Mutant of NextStamp: the counter restarts although the wall did not move.
NextStampRestartsCounter(f, now) ==
    IF now >= f[1] THEN <<now, 0>> ELSE <<f[1], f[2] + 1>>

\* Mutant of NextStamp: the canonical Hlc::tick, which does not re-anchor a
\* saturated counter.
NextStampUnsaturated(f, now) ==
    IF now > f[1] THEN <<now, 0>> ELSE <<f[1], f[2] + 1>>

\* HlcClock::next: the stamp issued over the durable floor f when the wall
\* clock reads now.
NextStamp(f, now) ==
    IF now > f[1] THEN <<now, 0>>
    ELSE IF f[2] = CtrMax THEN <<f[1] + 1, 0>>
    ELSE <<f[1], f[2] + 1>>

\* Hlc::wall_ms_within_drift_bound, applied to a peer's stamp.
WithinDrift(h, now, drift) == h[1] <= now + drift
=============================================================================

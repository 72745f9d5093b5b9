--------------------------- MODULE SyncMeshProofs ---------------------------
(***************************************************************************)
(* What the merge promises for any number of devices, keys, stamps, writes *)
(* and cycles under way: a tombstone covers no row of its own origin, a    *)
(* deleted override comes back only with a stamp above its deletion, and a *)
(* peer's copy does not lower a status.  Last, the types, with the         *)
(* watermarks that are maxima over finite sets of stamps.                  *)
(***************************************************************************)
EXTENDS SyncMesh, FiniteSetTheorems, WellFoundedInduction, TLAPS

Known == authored \cup ServerKeys

Types ==
    /\ row \in [Devices -> [Keys -> Rows \cup {NoRow}]]
    /\ tomb \in [Devices -> [Keys -> Tombs \cup {NoTomb}]]
    /\ erased \in [Devices -> [Overrides -> Stamps]]
    /\ DOMAIN cs = Devices

\* A row of key k: only a server's row may be without an origin.
RowOK(k, r) == r \in Rows /\ (k \notin ServerKeys => r.org \in Devices)

\* There is nothing of a key that was never written.
CellsKnown ==
    \A d \in Devices, k \in Keys :
        /\ row[d][k] # NoRow => k \in Known /\ RowOK(k, row[d][k])
        /\ tomb[d][k] # NoTomb => k \in Known
        /\ k \in Overrides /\ erased[d][k] # 0 => k \in authored

SetOK(c) == /\ \A k \in DOMAIN c.rows : k \in Keys /\ k \in Known /\ RowOK(k, c.rows[k])
            /\ \A k \in DOMAIN c.tombs : k \in Keys /\ k \in Known /\ c.tombs[k] \in Tombs

SetsKnown == \A d \in Devices : cs[d] # NoSet => SetOK(cs[d])

\* The tombstone beside a row is of another origin, and not of this device, which may
\* mark the row and so make it its own; or the row was written here above a tombstone of
\* the device's own.
Apart(d, t, r) == \/ t.org # d /\ t.org # r.org
                  \/ t.org = d /\ r.org = d /\ r.at > t.at

TombsApart ==
    \A d \in Devices, k \in Keys \ ServerKeys :
        row[d][k] # NoRow /\ tomb[d][k] # NoTomb => Apart(d, tomb[d][k], row[d][k])

\* Somebody stores, or is sending, a copy of k with stamp s.
HasCopy(k, s) ==
    \/ \E d \in Devices : row[d][k] # NoRow /\ row[d][k].at = s
    \/ \E d \in Devices : cs[d] # NoSet /\ k \in DOMAIN cs[d].rows /\ cs[d].rows[k].at = s

\* An override is stamped once.
OneStamp == \A k \in Overrides : \A s, t \in Stamps : HasCopy(k, s) /\ HasCopy(k, t) => s = t

\* What a device deleted is under its tombstone, or all copies are above the deletion.
Under(d, k) == row[d][k] = NoRow /\ tomb[d][k] # NoTomb /\ tomb[d][k].at >= erased[d][k]
Above(d, k) == \A s \in Stamps : HasCopy(k, s) => s > erased[d][k]

ErasedInv == \A d \in Devices, k \in Overrides :
                 erased[d][k] # 0 => Under(d, k) \/ Above(d, k)

Inv == Types /\ CellsKnown /\ SetsKnown /\ TombsApart /\ OneStamp /\ ErasedInv

LocalKeys == Suggestions \ ServerKeys

\* What is in a queue was written once.
QueueKnown == \A d \in Devices : queued[d] \subseteq authored

\* No copy of a local suggestion, and no tombstone of a device's own, has a stamp that
\* its origin has not issued yet.
Issued ==
    /\ floor \in [Devices -> Stamps] /\ queued \in [Devices -> SUBSET LocalKeys] /\ QueueKnown
    /\ \A d \in Devices, k \in LocalKeys :
          /\ row[d][k] # NoRow => row[d][k].at <= floor[row[d][k].org]
          /\ tomb[d][k] # NoTomb /\ tomb[d][k].org = d => tomb[d][k].at <= floor[d]
          /\ cs[d] # NoSet /\ k \in DOMAIN cs[d].rows
             => cs[d].rows[k].at <= floor[cs[d].rows[k].org]

\* At the start there is nothing.
LEMMA InitInv == Init => Inv
<1> SUFFICES ASSUME Init PROVE Inv
  OBVIOUS
<1>1. Types
  BY MeshAssumption DEF Init, Types, Stamps
<1>2. CellsKnown /\ SetsKnown /\ TombsApart
  BY DEF Init, CellsKnown, SetsKnown, TombsApart
<1>3. OneStamp /\ ErasedInv
  BY DEF Init, OneStamp, ErasedInv, HasCopy, Keys
<1> QED
  BY <1>1, <1>2, <1>3 DEF Inv

\* Backfill changes nothing but the origin of a server's row.
LEMMA BackfillKeeps ==
    ASSUME Inv, NEW d \in Devices, NEW k \in Keys
    PROVE  /\ Backfill(d)[k] \in Rows \cup {NoRow}
           /\ Backfill(d)[k] = NoRow <=> row[d][k] = NoRow
           /\ row[d][k] # NoRow => /\ RowOK(k, Backfill(d)[k])
                                   /\ Backfill(d)[k].at = row[d][k].at
                                   /\ Backfill(d)[k].st = row[d][k].st
           /\ k \notin ServerKeys => Backfill(d)[k] = row[d][k]
<1>1. row[d][k] \in Rows \cup {NoRow}
  BY DEF Inv, Types
<1>2. row[d][k] # NoRow => RowOK(k, row[d][k])
  BY DEF Inv, CellsKnown
<1>3. CASE row[d][k] = NoRow \/ row[d][k].org # Blank
  BY <1>1, <1>2, <1>3 DEF Backfill
<1>4. CASE row[d][k] # NoRow /\ row[d][k].org = Blank
  <2>1. Backfill(d)[k] = [row[d][k] EXCEPT !.org = d]
    BY <1>4 DEF Backfill
  <2>2. row[d][k] \in Rows
    BY <1>1, <1>4
  <2>3. [row[d][k] EXCEPT !.org = d] = [at |-> row[d][k].at, org |-> d, st |-> row[d][k].st]
    BY <2>2 DEF Rows
  <2>4. k \in ServerKeys
    BY <1>2, <1>4, MeshAssumption DEF RowOK, Blank
  <2> QED
    BY <2>1, <2>2, <2>3, <2>4, MeshAssumption DEF Rows, RowOK
<1> QED
  BY <1>3, <1>4

\* c holds rows and tombstones that device f has.
From(c, f) ==
    /\ \A k \in DOMAIN c.rows : k \in Keys /\ row[f][k] # NoRow /\ c.rows[k] = Backfill(f)[k]
    /\ \A k \in DOMAIN c.tombs : k \in Keys /\ tomb[f][k] # NoTomb /\ c.tombs[k] = tomb[f][k]

\* An extraction takes what is stored.
LEMMA ExtractedFrom ==
    ASSUME Inv, NEW f \in Devices, NEW since, NEW origins
    PROVE  From(Extracted(f, since, origins), f)
<1> DEFINE c == Extracted(f, since, origins)
<1>1. \A k \in DOMAIN c.rows : k \in Keys /\ Backfill(f)[k] # NoRow /\ c.rows[k] = Backfill(f)[k]
  BY DEF Extracted
<1>2. \A k \in DOMAIN c.tombs : k \in Keys /\ tomb[f][k] # NoTomb /\ c.tombs[k] = tomb[f][k]
  BY DEF Extracted
<1> QED
  BY <1>1, <1>2, BackfillKeeps DEF From

\* A step that backfills at most and only extracts, keeps or drops changesets.
LEMMA QuietStep ==
    ASSUME Inv, NEW e \in Devices,
           row' = row \/ row' = [row EXCEPT ![e] = Backfill(e)],
           tomb' = tomb, erased' = erased, authored' = authored,
           DOMAIN cs' = Devices,
           \A d \in Devices : \/ cs'[d] = NoSet \/ cs'[d] = cs[d]
                              \/ \E f \in Devices : From(cs'[d], f)
    PROVE  Inv'
<1>1. \A d \in Devices, k \in Keys : row'[d][k] = row[d][k] \/ (d = e /\ row'[d][k] = Backfill(e)[k])
  BY DEF Inv, Types
<1>2. Types'
  <2>1. Backfill(e) \in [Keys -> Rows \cup {NoRow}]
    BY BackfillKeeps DEF Backfill
  <2> QED
    BY <2>1 DEF Inv, Types
<1>3. \A d \in Devices, k \in Keys :
         /\ row'[d][k] = NoRow <=> row[d][k] = NoRow
         /\ row[d][k] # NoRow => RowOK(k, row'[d][k]) /\ row'[d][k].at = row[d][k].at
         /\ k \notin ServerKeys => row'[d][k] = row[d][k]
  BY <1>1, BackfillKeeps DEF Inv, CellsKnown
<1>4. CellsKnown'
  BY <1>3 DEF Inv, CellsKnown, Known, RowOK
<1>5. SetsKnown'
  <2> SUFFICES ASSUME NEW d \in Devices, cs'[d] # NoSet PROVE SetOK(cs[d])'
    BY DEF SetsKnown
  <2>1. CASE cs'[d] = cs[d]
    BY <2>1 DEF Inv, SetsKnown, SetOK, Known, RowOK
  <2>2. ASSUME NEW f \in Devices, From(cs'[d], f) PROVE SetOK(cs[d])'
    BY <2>2, BackfillKeeps DEF Inv, Types, CellsKnown, SetOK, From, Known, RowOK
  <2> QED
    BY <2>1, <2>2
<1>6. TombsApart'
  BY <1>3 DEF Inv, TombsApart, Apart
<1>7. \A k \in Overrides : \A s \in Stamps : HasCopy(k, s)' => HasCopy(k, s)
  <2> SUFFICES ASSUME NEW k \in Overrides, NEW s \in Stamps, HasCopy(k, s)'
               PROVE  HasCopy(k, s)
    OBVIOUS
  <2>0. k \in Keys
    BY DEF Keys
  <2>1. ASSUME NEW d \in Devices, row'[d][k] # NoRow, row'[d][k].at = s
        PROVE  HasCopy(k, s)
    BY <2>0, <2>1, <1>3 DEF HasCopy
  <2>2. ASSUME NEW d \in Devices, cs'[d] # NoSet, k \in DOMAIN cs'[d].rows,
               cs'[d].rows[k].at = s
        PROVE  HasCopy(k, s)
    <3>1. CASE cs'[d] = cs[d]
      BY <2>2, <3>1 DEF HasCopy
    <3>2. ASSUME NEW f \in Devices, From(cs'[d], f) PROVE HasCopy(k, s)
      <4>1. row[f][k] # NoRow /\ cs'[d].rows[k] = Backfill(f)[k]
        BY <2>2, <3>2 DEF From
      <4>2. row[f][k].at = s
        BY <4>1, <2>0, <2>2, BackfillKeeps
      <4> QED
        BY <4>1, <4>2 DEF HasCopy
    <3> QED
      BY <2>2, <3>1, <3>2
  <2> QED
    BY <2>1, <2>2 DEF HasCopy
<1>8. OneStamp'
  BY <1>7 DEF Inv, OneStamp
<1>9. ErasedInv'
  BY <1>3, <1>7 DEF Inv, ErasedInv, Under, Above, Keys
<1> QED
  BY <1>2, <1>4, <1>5, <1>6, <1>8, <1>9 DEF Inv

\* What apply_changes does to one key.  Either the row of the changeset gets past the
\* tombstone, which goes, or the tombstone stays and only rises, and the row stays unless
\* it is of the tombstone's origin.  A status falls only where a tombstone is applied.
LEMMA ApplyCell ==
    ASSUME Inv, NEW d \in Devices, NEW c, SetOK(c), Apply(d, c), NEW k \in Keys
    PROVE  /\ \/ /\ k \in DOMAIN c.rows /\ tomb'[d][k] = NoTomb
                 /\ row'[d][k] = c.rows[k] \/ (row'[d][k] = row[d][k] /\ row[d][k] # NoRow)
                 /\ tomb[d][k] # NoTomb => c.rows[k].at > tomb[d][k].at
              \/ /\ row'[d][k] = NoRow \/ row'[d][k] = row[d][k]
                 /\ \/ tomb'[d][k] = tomb[d][k]
                    \/ /\ k \in DOMAIN c.tombs /\ tomb'[d][k] = c.tombs[k]
                       /\ c.tombs[k].org # d
                       /\ row'[d][k] # NoRow => row[d][k].org # c.tombs[k].org
                 /\ tomb[d][k] # NoTomb => tomb'[d][k].at >= tomb[d][k].at
           /\ row[d][k] # NoRow /\ row'[d][k] # NoRow
              => row'[d][k].st >= row[d][k].st \/ k \in DOMAIN c.tombs
<1> DEFINE left == RowsLeft(d, c)
           kept == TombsKept(d, c)
           in   == {j \in DOMAIN c.rows : ~Suppressed(kept[j], c.rows[j])}
<1>1. row' = [row EXCEPT ![d] = [j \in Keys |-> IF j \in in
                                   THEN Merged(j, left[j], c.rows[j]) ELSE left[j]]]
  BY DEF Apply
<1>2. tomb' = [tomb EXCEPT ![d] = [j \in Keys |-> IF j \in in THEN NoTomb ELSE kept[j]]]
  BY DEF Apply
<1>3. /\ row'[d][k] = IF k \in in THEN Merged(k, left[k], c.rows[k]) ELSE left[k]
      /\ tomb'[d][k] = IF k \in in THEN NoTomb ELSE kept[k]
  <2> HIDE DEF left, kept, in
  <2> QED
    BY <1>1, <1>2 DEF Inv, Types
<1>4. /\ left[k] = row[d][k] \/ (left[k] = NoRow /\ k \in DOMAIN c.tombs)
      /\ k \in Taken(d, c) /\ left[k] # NoRow => row[d][k].org # c.tombs[k].org
  BY DEF RowsLeft, Taken
<1>5. /\ \/ kept[k] = tomb[d][k]
         \/ k \in Taken(d, c) /\ kept[k] = c.tombs[k]
      /\ tomb[d][k] # NoTomb => kept[k].at >= tomb[d][k].at /\ kept[k] # NoTomb
  <2>1. tomb[d][k] # NoTomb => tomb[d][k].at \in Nat
    BY MeshAssumption DEF Inv, Types, Tombs, Stamps
  <2>2. k \in Taken(d, c) => c.tombs[k].at \in Nat /\ c.tombs[k] # NoTomb
    BY MeshAssumption DEF SetOK, Taken, Tombs, Stamps
  <2> QED
    BY <2>1, <2>2 DEF TombsKept, KeepHigher
<1>6. k \in Taken(d, c) => k \in DOMAIN c.tombs /\ c.tombs[k].org # d
  BY DEF Taken
<1>7. row[d][k] # NoRow => row[d][k].st \in Nat
  <2>1. row[d][k] # NoRow => row[d][k] \in Rows
    BY DEF Inv, Types
  <2> QED
    BY <2>1 DEF Rows, Statuses
<1>8. CASE k \in in
  <2>1. k \in DOMAIN c.rows /\ ~Suppressed(kept[k], c.rows[k])
    BY <1>8
  <2>2. c.rows[k].at \in Nat /\ c.rows[k].st \in Nat
    BY <2>1 DEF SetOK, RowOK, Rows, Stamps, Statuses
  <2>3. tomb[d][k] # NoTomb => c.rows[k].at > tomb[d][k].at
    <3>1. tomb[d][k] # NoTomb => tomb[d][k].at \in Nat
      BY MeshAssumption DEF Inv, Types, Tombs, Stamps
    <3>2. k \in Taken(d, c) => c.tombs[k].at \in Nat
      BY MeshAssumption DEF SetOK, Taken, Tombs, Stamps
    <3> HIDE DEF kept
    <3> QED
      BY <2>1, <2>2, <3>1, <3>2, <1>5 DEF Suppressed
  <2>4. \/ row'[d][k] = c.rows[k]
        \/ row'[d][k] = left[k] /\ left[k] # NoRow
    BY <1>3, <1>8 DEF Merged
  <2>5. left[k] # NoRow => row'[d][k].st >= left[k].st
    <3> HIDE DEF left, in
    <3> SUFFICES ASSUME left[k] # NoRow PROVE row'[d][k].st >= left[k].st
      OBVIOUS
    <3>1. left[k] = row[d][k] /\ left[k].st \in Nat
      BY <1>4, <1>7
    <3> QED
      BY <1>3, <1>8, <3>1, <2>2 DEF Merged
  <2> HIDE DEF left, kept, in
  <2>6. tomb'[d][k] = NoTomb
    BY <1>3, <1>8
  <2> QED
    BY <2>1, <2>3, <2>4, <2>5, <2>6, <1>4
<1>9. CASE k \notin in
  <2> HIDE DEF left, kept, in
  <2>1. row'[d][k] = left[k] /\ tomb'[d][k] = kept[k]
    BY <1>3, <1>9
  <2> QED
    BY <2>1, <1>4, <1>5, <1>6, <1>7
<1> QED
  BY <1>8, <1>9

\* A changeset that somebody holds is applied; afterwards it is kept or dropped.
LEMMA ApplyStep ==
    ASSUME Inv, NEW d \in Devices, NEW e \in Devices, cs[e] # NoSet, Apply(d, cs[e]),
           erased' = erased, authored' = authored, DOMAIN cs' = Devices,
           \A x \in Devices : cs'[x] = NoSet \/ cs'[x] = cs[x]
    PROVE  Inv'
<1> DEFINE c == cs[e]
<1>1. SetOK(c)
  BY DEF Inv, SetsKnown
<1>2. \A x \in Devices \ {d} : row'[x] = row[x] /\ tomb'[x] = tomb[x]
  BY DEF Apply, Inv, Types
<1> DEFINE Passes(k) ==
             /\ k \in DOMAIN c.rows /\ tomb'[d][k] = NoTomb
             /\ row'[d][k] = c.rows[k] \/ (row'[d][k] = row[d][k] /\ row[d][k] # NoRow)
             /\ tomb[d][k] # NoTomb => c.rows[k].at > tomb[d][k].at
           Stays(k) ==
             /\ row'[d][k] = NoRow \/ row'[d][k] = row[d][k]
             /\ \/ tomb'[d][k] = tomb[d][k]
                \/ /\ k \in DOMAIN c.tombs /\ tomb'[d][k] = c.tombs[k]
                   /\ c.tombs[k].org # d
                   /\ row'[d][k] # NoRow => row[d][k].org # c.tombs[k].org
             /\ tomb[d][k] # NoTomb => tomb'[d][k].at >= tomb[d][k].at
<1>3. \A k \in Keys : Passes(k) \/ Stays(k)
  BY <1>1, ApplyCell
<1>4. \A k \in DOMAIN c.rows : k \in Keys /\ k \in Known /\ RowOK(k, c.rows[k])
  BY <1>1 DEF SetOK
<1>5. \A k \in DOMAIN c.tombs : k \in Keys /\ k \in Known /\ c.tombs[k] \in Tombs
  BY <1>1 DEF SetOK
<1>6. \A k \in Keys :
         /\ \/ row'[d][k] \in {NoRow, row[d][k]}
            \/ k \in DOMAIN c.rows /\ row'[d][k] = c.rows[k]
         /\ \/ tomb'[d][k] \in {NoTomb, tomb[d][k]}
            \/ k \in DOMAIN c.tombs /\ tomb'[d][k] = c.tombs[k]
  BY <1>3
<1>7. Types'
  <2>1. \E R, T : /\ row' = [row EXCEPT ![d] = [k \in Keys |-> R[k]]]
                  /\ tomb' = [tomb EXCEPT ![d] = [k \in Keys |-> T[k]]]
    <3>1. PICK R : R = [k \in Keys |->
                          IF k \in {j \in DOMAIN c.rows : ~Suppressed(TombsKept(d, c)[j], c.rows[j])}
                          THEN Merged(k, RowsLeft(d, c)[k], c.rows[k]) ELSE RowsLeft(d, c)[k]]
      OBVIOUS
    <3>2. PICK T : T = [k \in Keys |->
                          IF k \in {j \in DOMAIN c.rows : ~Suppressed(TombsKept(d, c)[j], c.rows[j])}
                          THEN NoTomb ELSE TombsKept(d, c)[k]]
      OBVIOUS
    <3>3. row' = [row EXCEPT ![d] = R] /\ tomb' = [tomb EXCEPT ![d] = T]
      BY <3>1, <3>2 DEF Apply
    <3>4. R = [k \in Keys |-> R[k]] /\ T = [k \in Keys |-> T[k]]
      BY <3>1, <3>2
    <3> QED
      BY <3>3, <3>4
  <2>2. PICK R, T : /\ row' = [row EXCEPT ![d] = [k \in Keys |-> R[k]]]
                    /\ tomb' = [tomb EXCEPT ![d] = [k \in Keys |-> T[k]]]
    BY <2>1
  <2>3. \A k \in Keys : row'[d][k] = R[k] /\ tomb'[d][k] = T[k]
    BY <2>2 DEF Inv, Types
  <2>4. \A k \in Keys : R[k] \in Rows \cup {NoRow} /\ T[k] \in Tombs \cup {NoTomb}
    BY <2>3, <1>4, <1>5, <1>6 DEF Inv, Types, RowOK
  <2> QED
    BY <2>2, <2>4 DEF Inv, Types
<1>8. CellsKnown'
  <2> SUFFICES ASSUME NEW x \in Devices, NEW k \in Keys
               PROVE  /\ row'[x][k] # NoRow => k \in Known /\ RowOK(k, row'[x][k])
                      /\ tomb'[x][k] # NoTomb => k \in Known
                      /\ k \in Overrides /\ erased[x][k] # 0 => k \in authored
    BY DEF CellsKnown, Known, RowOK
  <2>1. CASE x = d
    BY <2>1, <1>4, <1>5, <1>6 DEF Inv, CellsKnown
  <2>2. CASE x # d
    BY <2>2, <1>2 DEF Inv, CellsKnown
  <2> QED
    BY <2>1, <2>2
<1>9. SetsKnown'
  BY DEF Inv, SetsKnown, SetOK, Known, RowOK
<1>10. TombsApart'
  <2> SUFFICES ASSUME NEW x \in Devices, NEW k \in Keys \ ServerKeys,
                      row'[x][k] # NoRow, tomb'[x][k] # NoTomb
               PROVE  Apart(x, tomb'[x][k], row'[x][k])
    BY DEF TombsApart, Apart
  <2>1. CASE x # d
    BY <2>1, <1>2 DEF Inv, TombsApart
  <2>2. CASE x = d
    <3>1. Stays(k)
      BY <2>2, <1>3
    <3>2. row'[d][k] = row[d][k]
      BY <2>2, <3>1
    <3> QED
      BY <2>2, <3>1, <3>2 DEF Inv, TombsApart, Apart
  <2> QED
    BY <2>1, <2>2
<1>11. \A k \in Overrides : \A s \in Stamps : HasCopy(k, s)' => HasCopy(k, s)
  <2> SUFFICES ASSUME NEW k \in Overrides, NEW s \in Stamps, HasCopy(k, s)'
               PROVE  HasCopy(k, s)
    OBVIOUS
  <2>0. k \in Keys
    BY DEF Keys
  <2>1. ASSUME NEW x \in Devices, row'[x][k] # NoRow, row'[x][k].at = s
        PROVE  HasCopy(k, s)
    <3>1. CASE x # d
      BY <2>1, <3>1, <1>2 DEF HasCopy
    <3>2. CASE x = d
      BY <2>0, <2>1, <3>2, <1>6 DEF HasCopy
    <3> QED
      BY <3>1, <3>2
  <2>2. ASSUME NEW x \in Devices, cs'[x] # NoSet, k \in DOMAIN cs'[x].rows,
               cs'[x].rows[k].at = s
        PROVE  HasCopy(k, s)
    BY <2>2 DEF HasCopy
  <2> QED
    BY <2>1, <2>2 DEF HasCopy
<1>12. OneStamp'
  BY <1>11 DEF Inv, OneStamp
<1>13. ErasedInv'
  <2> SUFFICES ASSUME NEW x \in Devices, NEW k \in Overrides, erased[x][k] # 0
               PROVE  Under(x, k)' \/ Above(x, k)'
    BY DEF ErasedInv
  <2>0. k \in Keys
    BY DEF Keys
  <2>1. CASE Above(x, k)
    BY <2>1, <1>11 DEF Above
  <2>2. CASE Under(x, k) /\ x # d
    BY <2>2, <1>2 DEF Under
  <2>3. CASE Under(x, k) /\ x = d /\ Stays(k)
    <3>1. tomb[d][k].at \in Nat /\ erased[d][k] \in Nat
      BY <2>0, <2>3, MeshAssumption DEF Under, Inv, Types, Tombs, Stamps
    <3>2. tomb'[d][k] # NoTomb
      BY <2>3, <1>5, MeshAssumption DEF Under
    <3>3. tomb'[d][k].at \in Nat
      BY <3>1, <2>3, <1>5 DEF Tombs, Stamps
    <3> QED
      BY <3>1, <3>2, <3>3, <2>3 DEF Under
  <2>4. CASE Under(x, k) /\ x = d /\ Passes(k)
    <3>1. tomb[d][k].at \in Nat /\ erased[d][k] \in Nat
      BY <2>0, <2>4, MeshAssumption DEF Under, Inv, Types, Tombs, Stamps
    <3>2. c.rows[k].at \in Stamps /\ HasCopy(k, c.rows[k].at)
      BY <2>4, <1>4 DEF HasCopy, RowOK, Rows
    <3>3. c.rows[k].at > erased[d][k]
      BY <3>1, <3>2, <2>4 DEF Under, Stamps
    <3>4. \A s \in Stamps : HasCopy(k, s)' => s = c.rows[k].at
      BY <3>2, <1>11 DEF Inv, OneStamp
    <3> QED
      BY <3>3, <3>4, <2>4 DEF Above
  <2> QED
    BY <2>0, <2>1, <2>2, <2>3, <2>4, <1>3 DEF Inv, ErasedInv
<1> QED
  BY <1>7, <1>8, <1>9, <1>10, <1>12, <1>13 DEF Inv

\* A local writer leaves the changesets alone: what they hold stays known.
LEMMA SetsStay ==
    ASSUME Inv, cs' = cs, authored \subseteq authored'
    PROVE  SetsKnown'
BY DEF Inv, SetsKnown, SetOK, Known, RowOK

\* A new key has no copy, no tombstone and no changeset anywhere.
LEMMA AuthorKeeps == ASSUME Inv, NEW d \in Devices, NEW k \in Keys, Author(d, k) PROVE Inv'
<1>1. PICK s \in Stamps : row' = [row EXCEPT ![d][k] = [at |-> s, org |-> d, st |-> 0]]
  BY DEF Author, Put
<1>2. tomb' = tomb /\ erased' = erased /\ cs' = cs /\ authored' = authored \cup {k} /\ k \notin Known
  BY DEF Author, cycle, Known
<1> DEFINE r == [at |-> s, org |-> d, st |-> 0]
<1>3. r \in Rows /\ r # NoRow /\ RowOK(k, r)
  BY MeshAssumption DEF Rows, Statuses, RowOK
<1>4. \A x \in Devices : row[x][k] = NoRow /\ tomb[x][k] = NoTomb
                         /\ (k \in Overrides => erased[x][k] = 0)
                         /\ (cs[x] # NoSet => k \notin DOMAIN cs[x].rows)
  BY <1>2 DEF Inv, CellsKnown, SetsKnown, SetOK, Known
<1> HIDE DEF r
<1>5. \A x \in Devices, j \in Keys : row'[x][j] = IF x = d /\ j = k THEN r ELSE row[x][j]
  BY <1>1 DEF Inv, Types, r
<1>6. Types'
  BY <1>1, <1>2, <1>3 DEF Inv, Types, r
<1>7. CellsKnown'
  <2> SUFFICES ASSUME NEW x \in Devices, NEW j \in Keys
               PROVE  /\ row'[x][j] # NoRow => j \in Known' /\ RowOK(j, row'[x][j])
                      /\ tomb'[x][j] # NoTomb => j \in Known'
                      /\ j \in Overrides /\ erased'[x][j] # 0 => j \in authored'
    BY DEF CellsKnown, RowOK
  <2> QED
    BY <1>2, <1>3, <1>5 DEF Inv, CellsKnown, Known
<1>8. SetsKnown'
  BY <1>2, SetsStay
<1>9. TombsApart'
  BY <1>2, <1>4, <1>5 DEF Inv, TombsApart, Apart
<1>10. \A j \in Overrides : \A t \in Stamps :
          HasCopy(j, t)' => IF j = k THEN t = s ELSE HasCopy(j, t)
  <2> SUFFICES ASSUME NEW j \in Overrides, NEW t \in Stamps, HasCopy(j, t)'
               PROVE  IF j = k THEN t = s ELSE HasCopy(j, t)
    OBVIOUS
  <2>0. j \in Keys /\ r.at = s
    BY DEF Keys, r
  <2>1. ASSUME NEW x \in Devices, row'[x][j] # NoRow, row'[x][j].at = t
        PROVE  IF j = k THEN t = s ELSE HasCopy(j, t)
    BY <2>0, <2>1, <1>4, <1>5 DEF HasCopy
  <2>2. ASSUME NEW x \in Devices, cs'[x] # NoSet, j \in DOMAIN cs'[x].rows, cs'[x].rows[j].at = t
        PROVE  IF j = k THEN t = s ELSE HasCopy(j, t)
    BY <2>2, <1>2, <1>4 DEF HasCopy
  <2> QED
    BY <2>1, <2>2 DEF HasCopy
<1>11. OneStamp'
  <2> SUFFICES ASSUME NEW j \in Overrides, NEW a \in Stamps, NEW b \in Stamps,
                      HasCopy(j, a)', HasCopy(j, b)'
               PROVE  a = b
    BY DEF OneStamp
  <2> QED
    BY <1>10 DEF Inv, OneStamp
<1>12. ErasedInv'
  <2> SUFFICES ASSUME NEW x \in Devices, NEW j \in Overrides, erased[x][j] # 0
               PROVE  Under(x, j)' \/ Above(x, j)'
    BY <1>2 DEF ErasedInv
  <2>1. j # k /\ j \in Keys
    BY <1>4 DEF Keys
  <2>2. CASE Under(x, j)
    BY <2>1, <2>2, <1>2, <1>5 DEF Under
  <2>3. CASE Above(x, j)
    BY <2>1, <2>3, <1>2, <1>10 DEF Above
  <2> QED
    BY <2>2, <2>3 DEF Inv, ErasedInv
<1> QED
  BY <1>6, <1>7, <1>8, <1>9, <1>11, <1>12 DEF Inv

\* A suggestion's row is written beside a tombstone of another origin, or above its own.
LEMMA SuggestionPut ==
    ASSUME Inv, NEW d \in Devices, NEW k \in Suggestions, NEW r, Put(d, k, r), RowOK(k, r),
           k \in Known,
           k \notin ServerKeys /\ tomb[d][k] # NoTomb => Apart(d, tomb[d][k], r),
           tomb' = tomb, erased' = erased, cs' = cs, authored' = authored
    PROVE  Inv'
<1>0. k \in Keys /\ k \notin Overrides
  BY MeshAssumption DEF Keys
<1>1. \A x \in Devices, j \in Keys : row'[x][j] = IF x = d /\ j = k THEN r ELSE row[x][j]
  BY <1>0 DEF Inv, Types, Put
<1>2. Types'
  BY <1>0 DEF Inv, Types, Put, RowOK
<1>3. CellsKnown'
  <2> SUFFICES ASSUME NEW x \in Devices, NEW j \in Keys
               PROVE  /\ row'[x][j] # NoRow => j \in Known /\ RowOK(j, row'[x][j])
                      /\ tomb[x][j] # NoTomb => j \in Known
                      /\ j \in Overrides /\ erased[x][j] # 0 => j \in authored
    BY DEF CellsKnown, Known, RowOK
  <2> QED
    BY <1>1 DEF Inv, CellsKnown
<1>4. SetsKnown'
  BY SetsStay
<1>5. TombsApart'
  BY <1>1 DEF Inv, TombsApart, Apart
<1>6. \A j \in Overrides : \A x \in Devices : row'[x][j] = row[x][j]
  BY <1>0, <1>1 DEF Keys
<1>7. \A j \in Overrides : \A s \in Stamps : HasCopy(j, s)' <=> HasCopy(j, s)
  BY <1>6 DEF HasCopy
<1>8. OneStamp'
  BY <1>7 DEF Inv, OneStamp
<1>9. ErasedInv'
  BY <1>6, <1>7 DEF Inv, ErasedInv, Under, Above
<1> QED
  BY <1>2, <1>3, <1>4, <1>5, <1>8, <1>9 DEF Inv

\* A server's suggestion has no stamp and is in no tombstone's way.
LEMMA SaveServerKeeps == ASSUME Inv, NEW d \in Devices, NEW k \in Keys, SaveServer(d, k) PROVE Inv'
<1>1. k \in ServerKeys /\ k \in Suggestions /\ k \in Known
  BY MeshAssumption DEF SaveServer, Known
<1>2. RowOK(k, [at |-> 0, org |-> Blank, st |-> 0])
  BY <1>1, MeshAssumption DEF RowOK, Rows, Stamps, Statuses
<1> QED
  BY <1>1, <1>2, SuggestionPut DEF SaveServer, cycle

\* A row that is written at a fresh stamp is above every tombstone of the device's own.
LEMMA FreshIsApart ==
    ASSUME Inv, Issued, NEW d \in Devices, NEW k \in LocalKeys, NEW s \in Stamps, s > floor[d],
           NEW r, r.org = d, r.at = s, tomb[d][k] # NoTomb,
           row[d][k] = NoRow \/ Apart(d, tomb[d][k], row[d][k])
    PROVE  Apart(d, tomb[d][k], r)
<1>1. tomb[d][k] \in Tombs
  BY DEF Inv, Types, LocalKeys, Keys
<1>2. tomb[d][k].at \in Nat /\ floor[d] \in Nat /\ s \in Nat
  BY <1>1 DEF Tombs, Stamps, Issued
<1>3. CASE tomb[d][k].org = d
  <2>1. tomb[d][k].at <= floor[d]
    BY <1>3 DEF Issued
  <2> QED
    BY <1>2, <1>3, <2>1 DEF Apart
<1>4. CASE tomb[d][k].org # d
  BY <1>4 DEF Apart
<1> QED
  BY <1>3, <1>4

\* A suggestion that is saved anew is above what this device deleted.
LEMMA ResaveKeeps == ASSUME Inv, Issued, NEW d \in Devices, NEW k \in Keys, Resave(d, k) PROVE Inv'
<1>1. k \in LocalKeys /\ k \in Suggestions
  BY DEF Resave, LocalKeys
<1>2. PICK s \in Stamps : s > floor[d] /\ Put(d, k, [at |-> s, org |-> d, st |-> 0])
  <2>1. PICK s \in Stamps : Stamped(d, s) /\ Put(d, k, [at |-> s, org |-> d, st |-> 0])
    BY DEF Resave
  <2>2. floor[d] \in Nat /\ s \in Nat /\ MaxStamp \in Nat
    BY MeshAssumption DEF Issued, Stamps
  <2>3. s > floor[d]
    BY <2>1, <2>2 DEF Stamped
  <2> QED
    BY <2>1, <2>3
<1> DEFINE r == [at |-> s, org |-> d, st |-> 0]
<1>3. RowOK(k, r) /\ r.org = d /\ r.at = s
  BY DEF RowOK, Rows, Statuses
<1>4. k \in Known
  BY DEF Resave, Inv, CellsKnown, Issued, QueueKnown, Known
<1>5. tomb[d][k] # NoTomb => Apart(d, tomb[d][k], r)
  <2> HIDE DEF r
  <2>1. row[d][k] # NoRow /\ tomb[d][k] # NoTomb => Apart(d, tomb[d][k], row[d][k])
    BY <1>1 DEF Inv, TombsApart, LocalKeys
  <2> QED
    BY <1>1, <1>2, <1>3, <2>1, FreshIsApart
<1> HIDE DEF r
<1>6. Put(d, k, r)
  BY <1>2 DEF r
<1> QED
  BY <1>1, <1>3, <1>4, <1>5, <1>6, SuggestionPut DEF Resave, cycle

\* A marked suggestion becomes the device's own, or is a server's.
LEMMA MarkKeeps ==
    ASSUME Inv, Issued, NEW d \in Devices, NEW k \in Keys, NEW st \in Marks, Mark(d, k, st)
    PROVE  Inv' /\ row'[d][k].st >= row[d][k].st
<1> DEFINE r == row[d][k]
           m == IF st > r.st THEN st ELSE r.st
<1>1. k \in Suggestions /\ r # NoRow /\ k \in Known /\ RowOK(k, r)
  BY DEF Mark, Inv, CellsKnown
<1>2. r \in Rows /\ m \in Statuses /\ m >= r.st
  BY <1>1, MeshAssumption DEF RowOK, Rows, Statuses
<1> HIDE DEF r, m
<1>3. PICK s \in Stamps : s > floor[d] /\ Put(d, k, IF k \in ServerKeys THEN [r EXCEPT !.st = m]
                                                    ELSE [at |-> s, org |-> d, st |-> m])
  <2>1. PICK s \in Stamps : Stamped(d, s) /\ Put(d, k, IF k \in ServerKeys THEN [r EXCEPT !.st = m]
                                                       ELSE [at |-> s, org |-> d, st |-> m])
    BY DEF Mark, r, m
  <2>2. floor[d] \in Nat /\ s \in Nat /\ MaxStamp \in Nat
    BY MeshAssumption DEF Issued, Stamps
  <2>3. s > floor[d]
    BY <2>1, <2>2 DEF Stamped
  <2> QED
    BY <2>1, <2>3
<1> DEFINE new == IF k \in ServerKeys THEN [r EXCEPT !.st = m]
                  ELSE [at |-> s, org |-> d, st |-> m]
<1>4. RowOK(k, new) /\ new.st = m
  <2>1. [r EXCEPT !.st = m] = [at |-> r.at, org |-> r.org, st |-> m]
    BY <1>2 DEF Rows
  <2> QED
    BY <2>1, <1>1, <1>2 DEF RowOK, Rows
<1>5. k \notin ServerKeys /\ tomb[d][k] # NoTomb => Apart(d, tomb[d][k], new)
  <2> SUFFICES ASSUME k \notin ServerKeys, tomb[d][k] # NoTomb PROVE Apart(d, tomb[d][k], new)
    OBVIOUS
  <2>1. k \in LocalKeys /\ new.org = d /\ new.at = s
    BY <1>1 DEF LocalKeys
  <2>2. Apart(d, tomb[d][k], row[d][k])
    BY <1>1 DEF Inv, TombsApart, r
  <2> HIDE DEF new
  <2> QED
    BY <1>3, <2>1, <2>2, FreshIsApart
<1> HIDE DEF new
<1>6. Put(d, k, new)
  BY <1>3 DEF new
<1>7. Inv'
  BY <1>1, <1>4, <1>5, <1>6, SuggestionPut DEF Mark, cycle
<1>8. row'[d][k] = new
  BY <1>6 DEF Put, Inv, Types
<1> QED
  BY <1>2, <1>4, <1>7, <1>8 DEF r

\* A row goes and what stands for its deletion is beside it: all other copies stay.
LEMMA RemoveKeeps ==
    ASSUME Inv, NEW d \in Devices, NEW k \in Keys, Put(d, k, NoRow),
           NEW t \in Tombs \cup {NoTomb}, tomb' = [tomb EXCEPT ![d][k] = t],
           t # NoTomb => k \in Known,
           NEW h \in Stamps,
           erased' = IF k \in Overrides THEN [erased EXCEPT ![d][k] = h] ELSE erased,
           k \in Overrides => \/ h = 0
                              \/ t # NoTomb /\ t.at >= h /\ k \in authored
                              \/ h = erased[d][k] /\ t = tomb[d][k],
           cs' = cs, authored' = authored
    PROVE  Inv'
<1>1. \A x \in Devices, j \in Keys :
         /\ row'[x][j] = IF x = d /\ j = k THEN NoRow ELSE row[x][j]
         /\ tomb'[x][j] = IF x = d /\ j = k THEN t ELSE tomb[x][j]
         /\ j \in Overrides => erased'[x][j] = IF x = d /\ j = k THEN h ELSE erased[x][j]
  BY DEF Inv, Types, Put
<1>2. Types'
  BY DEF Inv, Types, Put
<1>3. CellsKnown'
  <2> SUFFICES ASSUME NEW x \in Devices, NEW j \in Keys
               PROVE  /\ row'[x][j] # NoRow => j \in Known /\ RowOK(j, row'[x][j])
                      /\ tomb'[x][j] # NoTomb => j \in Known
                      /\ j \in Overrides /\ erased'[x][j] # 0 => j \in authored
    BY DEF CellsKnown, Known, RowOK
  <2> QED
    BY <1>1 DEF Inv, CellsKnown
<1>4. SetsKnown'
  BY SetsStay
<1>5. TombsApart'
  BY <1>1 DEF Inv, TombsApart, Apart
<1>6. \A j \in Overrides : \A s \in Stamps : HasCopy(j, s)' => HasCopy(j, s)
  BY <1>1 DEF HasCopy, Keys
<1>7. OneStamp'
  BY <1>6 DEF Inv, OneStamp
<1>8. ErasedInv'
  <2> SUFFICES ASSUME NEW x \in Devices, NEW j \in Overrides, erased'[x][j] # 0
               PROVE  Under(x, j)' \/ Above(x, j)'
    BY DEF ErasedInv
  <2>0. j \in Keys
    BY DEF Keys
  <2>1. CASE x # d \/ j # k
    <3>1. row'[x][j] = row[x][j] /\ tomb'[x][j] = tomb[x][j] /\ erased'[x][j] = erased[x][j]
      BY <2>0, <2>1, <1>1
    <3>2. Under(x, j) \/ Above(x, j)
      BY <3>1 DEF Inv, ErasedInv
    <3> QED
      BY <3>1, <3>2, <1>6 DEF Under, Above
  <2>2. CASE x = d /\ j = k
    <3>1. row'[x][j] = NoRow /\ tomb'[x][j] = t /\ erased'[x][j] = h
      BY <2>0, <2>2, <1>1
    <3>2. CASE t # NoTomb /\ t.at >= h
      BY <3>1, <3>2 DEF Under
    <3>3. CASE h = erased[d][k] /\ t = tomb[d][k]
      <4>1. Under(x, j) \/ Above(x, j)
        BY <3>1, <3>3, <2>2 DEF Inv, ErasedInv
      <4> QED
        BY <4>1, <3>1, <3>3, <2>2, <1>6 DEF Under, Above
    <3> QED
      BY <3>1, <3>2, <3>3, <2>2
  <2> QED
    BY <2>1, <2>2
<1> QED
  BY <1>2, <1>3, <1>4, <1>5, <1>7, <1>8 DEF Inv

\* A deletion that leaves a tombstone t.
LEMMA DeleteKeeps ==
    ASSUME Inv, NEW d \in Devices, NEW k \in Keys, NEW t \in Tombs, row[d][k] # NoRow,
           Delete(d, k, t), cs' = cs, authored' = authored
    PROVE  Inv'
<1> DEFINE n == KeepHigher(tomb[d][k], t)
<1>1. n \in Tombs /\ n # NoTomb
  BY MeshAssumption DEF KeepHigher, Inv, Types
<1>2. n.at \in Stamps /\ n.at >= n.at
  BY <1>1, MeshAssumption DEF Tombs, Stamps
<1>3. k \in Known /\ (k \in Overrides => k \in authored)
  BY MeshAssumption DEF Inv, CellsKnown, Known
<1>4. tomb' = [tomb EXCEPT ![d][k] = n]
  BY DEF Delete
<1>5. erased' = IF k \in Overrides THEN [erased EXCEPT ![d][k] = n.at] ELSE erased
  BY DEF Delete
<1> HIDE DEF n
<1> QED
  BY <1>1, <1>2, <1>3, <1>4, <1>5, RemoveKeeps DEF Delete

\* Retention and the user's deletion.
LEMMA RemovalsKeep ==
    ASSUME Inv, NEW d \in Devices, NEW k \in Keys, Expire(d, k) \/ DeleteOverride(d, k)
    PROVE  Inv'
<1>1. row[d][k] # NoRow /\ RowOK(k, row[d][k]) /\ cs' = cs /\ authored' = authored
  BY DEF Expire, DeleteOverride, Inv, CellsKnown, cycle
<1>2. CASE Expire(d, k) /\ row[d][k].org = d
  <2>1. [at |-> row[d][k].at, org |-> d] \in Tombs
    BY <1>1 DEF RowOK, Rows, Tombs
  <2> QED
    BY <2>1, <1>1, <1>2, DeleteKeeps DEF Expire
<1>3. CASE Expire(d, k) /\ row[d][k].org # d
  <2>1. Put(d, k, NoRow) /\ tomb' = tomb /\ erased' = erased
    BY <1>3 DEF Expire
  <2>2. tomb[d][k] \in Tombs \cup {NoTomb} /\ tomb' = [tomb EXCEPT ![d][k] = tomb[d][k]]
    BY <2>1 DEF Inv, Types
  <2>3. CASE k \in Overrides
    <3>1. erased[d][k] \in Stamps /\ erased' = [erased EXCEPT ![d][k] = erased[d][k]]
      BY <2>1, <2>3 DEF Inv, Types
    <3>2. tomb[d][k] # NoTomb => k \in Known
      BY DEF Inv, CellsKnown
    <3>3. erased' = IF k \in Overrides THEN [erased EXCEPT ![d][k] = erased[d][k]] ELSE erased
      BY <3>1, <2>3
    <3> QED
      BY <3>1, <3>2, <3>3, <2>1, <2>2, <1>1, RemoveKeeps
  <2>4. CASE k \notin Overrides
    <3>1. 0 \in Stamps
      BY MeshAssumption DEF Stamps
    <3>2. tomb[d][k] # NoTomb => k \in Known
      BY DEF Inv, CellsKnown
    <3> QED
      BY <3>1, <3>2, <2>1, <2>2, <2>4, <1>1, RemoveKeeps
  <2> QED
    BY <2>3, <2>4
<1>4. CASE DeleteOverride(d, k)
  <2>1. PICK s \in Stamps : Delete(d, k, [at |-> s, org |-> row[d][k].org])
    BY <1>4 DEF DeleteOverride
  <2>2. k \notin ServerKeys
    BY <1>4, MeshAssumption DEF DeleteOverride
  <2>3. [at |-> s, org |-> row[d][k].org] \in Tombs
    BY <1>1, <2>2 DEF RowOK, Tombs
  <2> QED
    BY <2>1, <2>3, <1>1, DeleteKeeps
<1> QED
  BY <1>2, <1>3, <1>4

\* A collected tombstone takes the record of the deletion with it.
LEMMA GcKeeps == ASSUME Inv, NEW d \in Devices, NEW k \in Keys, Gc(d, k) PROVE Inv'
<1>1. /\ row' = row /\ cs' = cs /\ authored' = authored
      /\ tomb' = [tomb EXCEPT ![d][k] = NoTomb]
      /\ erased' = IF k \in Overrides THEN [erased EXCEPT ![d][k] = 0] ELSE erased
  BY DEF Gc, cycle
<1>2. \A x \in Devices, j \in Keys :
         /\ tomb'[x][j] = IF x = d /\ j = k THEN NoTomb ELSE tomb[x][j]
         /\ j \in Overrides => erased'[x][j] = IF x = d /\ j = k THEN 0 ELSE erased[x][j]
  BY <1>1 DEF Inv, Types
<1>3. Types'
  BY <1>1, MeshAssumption DEF Inv, Types, Stamps
<1>4. CellsKnown'
  <2> SUFFICES ASSUME NEW x \in Devices, NEW j \in Keys
               PROVE  /\ row[x][j] # NoRow => j \in Known /\ RowOK(j, row[x][j])
                      /\ tomb'[x][j] # NoTomb => j \in Known
                      /\ j \in Overrides /\ erased'[x][j] # 0 => j \in authored
    BY <1>1 DEF CellsKnown, Known, RowOK
  <2> QED
    BY <1>2 DEF Inv, CellsKnown
<1>5. SetsKnown'
  BY <1>1, SetsStay
<1>6. TombsApart'
  BY <1>1, <1>2 DEF Inv, TombsApart, Apart
<1>7. \A j \in Overrides : \A s \in Stamps : HasCopy(j, s)' <=> HasCopy(j, s)
  BY <1>1 DEF HasCopy
<1>8. OneStamp'
  BY <1>7 DEF Inv, OneStamp
<1>9. ErasedInv'
  <2> SUFFICES ASSUME NEW x \in Devices, NEW j \in Overrides, erased'[x][j] # 0
               PROVE  Under(x, j)' \/ Above(x, j)'
    BY DEF ErasedInv
  <2>1. (x # d \/ j # k) /\ j \in Keys
    BY <1>2 DEF Keys
  <2>2. tomb'[x][j] = tomb[x][j] /\ erased'[x][j] = erased[x][j]
    BY <2>1, <1>2
  <2>3. Under(x, j) \/ Above(x, j)
    BY <2>2 DEF Inv, ErasedInv
  <2> QED
    BY <2>2, <2>3, <1>1, <1>7 DEF Under, Above
<1> QED
  BY <1>3, <1>4, <1>5, <1>6, <1>8, <1>9 DEF Inv

\* A stored status is a number.
LEMMA StatusNat ==
    ASSUME Inv
    PROVE  \A d \in Devices, k \in Keys : row[d][k] # NoRow => row[d][k].st \in Nat
<1>1. \A d \in Devices, k \in Keys : row[d][k] # NoRow => row[d][k] \in Rows
  BY DEF Inv, CellsKnown, RowOK
<1> QED
  BY <1>1 DEF Rows, Statuses

\* Where the rows of suggestions stay as they are, no status falls.
LEMMA SameStatus ==
    ASSUME Inv, \A d \in Devices, k \in Keys \ ServerKeys :
                    row'[d][k] \in {row[d][k], NoRow} \/ row[d][k] = NoRow
    PROVE  StatusStep
<1>1. \A d \in Devices, k \in Keys : row[d][k] # NoRow => row[d][k].st >= row[d][k].st
  BY StatusNat
<1> QED
  BY <1>1 DEF StatusStep, Keys

\* Local writers.
LEMMA WriteKeeps ==
    ASSUME Inv, Issued, NEW d \in Devices, NEW k \in Keys, Write(d, k)
    PROVE  Inv' /\ StatusStep
<1>1. CASE Author(d, k)
  <2>1. \A x \in Devices : row[x][k] = NoRow
    BY <1>1 DEF Author, Inv, CellsKnown, Known
  <2>2. \A x \in Devices, j \in Keys : j # k => row'[x][j] = row[x][j]
    BY <1>1 DEF Author, Put, Inv, Types
  <2> QED
    BY <2>1, <2>2, <1>1, AuthorKeeps, SameStatus
<1>2. CASE SaveServer(d, k)
  <2>1. \A x \in Devices, j \in Keys \ ServerKeys : row'[x][j] = row[x][j]
    BY <1>2 DEF SaveServer, Put, Inv, Types
  <2> QED
    BY <2>1, <1>2, SaveServerKeeps, SameStatus
<1>3. ASSUME NEW st \in Marks, Mark(d, k, st) PROVE Inv' /\ StatusStep
  <2>1. Inv' /\ row'[d][k].st >= row[d][k].st
    BY <1>3, MarkKeeps
  <2>2. \A x \in Devices, j \in Keys : x # d \/ j # k => row'[x][j] = row[x][j]
    BY <1>3 DEF Mark, Put, Inv, Types
  <2>3. \A x \in Devices, j \in Keys : row[x][j] # NoRow => row[x][j].st >= row[x][j].st
    BY StatusNat
  <2> QED
    BY <2>1, <2>2, <2>3 DEF StatusStep, Keys
<1>4. CASE Expire(d, k) \/ DeleteOverride(d, k)
  <2>1. row' = [row EXCEPT ![d][k] = NoRow]
    BY <1>4 DEF Expire, DeleteOverride, Delete, Put
  <2>2. \A x \in Devices, j \in Keys : row'[x][j] \in {row[x][j], NoRow}
    BY <2>1 DEF Inv, Types
  <2> QED
    BY <2>2, <1>4, RemovalsKeep, SameStatus
<1>5. CASE Gc(d, k)
  BY <1>5, GcKeeps, SameStatus DEF Gc
<1>6. CASE Resave(d, k)
  <2>1. \A x \in Devices, j \in Keys : x # d \/ j # k => row'[x][j] = row[x][j]
    BY <1>6 DEF Resave, Put, Inv, Types
  <2>2. floor'[d] # floor[d]
    <3>1. PICK s \in Stamps : Stamped(d, s)
      BY <1>6 DEF Resave
    <3>2. floor[d] \in Nat /\ s \in Nat /\ MaxStamp \in Nat
      BY MeshAssumption DEF Issued, Stamps
    <3>3. s > floor[d]
      BY <3>1, <3>2 DEF Stamped
    <3>4. floor'[d] = s
      BY <3>1 DEF Stamped, Issued
    <3> QED
      BY <3>2, <3>3, <3>4
  <2>3. \A x \in Devices, j \in Keys : row[x][j] # NoRow => row[x][j].st >= row[x][j].st
    BY StatusNat
  <2>4. StatusStep
    BY <2>1, <2>2, <2>3 DEF StatusStep, Keys
  <2> QED
    BY <2>4, <1>6, ResaveKeeps
<1> QED
  BY <1>1, <1>2, <1>3, <1>4, <1>5, <1>6 DEF Write

\* Steps of a cycle that extract, drop or keep changesets.
LEMMA QuietKeeps ==
    ASSUME Inv, NEW d \in Devices,
           \/ StartCycle(d) \/ Extract(d) \/ EndPush(d) \/ Fail(d) \/ Restart(d)
           \/ \E e \in Peers(d) : Ask(d, e) \/ Unanswered(d, e)
    PROVE  Inv' /\ StatusStep
<1> DEFINE Quiet(e) == /\ row' = row \/ row' = [row EXCEPT ![e] = Backfill(e)]
                       /\ tomb' = tomb /\ erased' = erased /\ authored' = authored
                       /\ DOMAIN cs' = Devices
                       /\ \A x \in Devices : \/ cs'[x] = NoSet \/ cs'[x] = cs[x]
                                             \/ \E f \in Devices : From(cs'[x], f)
<1>1. ASSUME NEW e \in Devices, Quiet(e) PROVE Inv' /\ StatusStep
  <2>1. Inv'
    BY <1>1, QuietStep
  <2>2. \A x \in Devices, k \in Keys \ ServerKeys : row'[x][k] = row[x][k]
    <3>1. \A k \in Keys \ ServerKeys : Backfill(e)[k] = row[e][k]
      BY BackfillKeeps
    <3> QED
      BY <1>1, <3>1 DEF Inv, Types
  <2> QED
    BY <2>1, <2>2, SameStatus
<1>2. CASE StartCycle(d)
  <2>1. Quiet(d)
    BY <1>2 DEF StartCycle, Round, local, count, Inv, Types
  <2> QED
    BY <2>1, <1>1
<1>3. CASE Extract(d)
  <2> DEFINE c == Extracted(d, pushed[d], {d})
  <2>1. From(c, d)
    BY ExtractedFrom
  <2> HIDE DEF c
  <2>2. cs' = [cs EXCEPT ![d] = NoSet] \/ cs' = [cs EXCEPT ![d] = c]
    BY <1>3 DEF Extract, Idle, c
  <2>3. Quiet(d)
    BY <1>3, <2>1, <2>2 DEF Extract, count, Inv, Types
  <2> QED
    BY <2>3, <1>1
<1>4. CASE EndPush(d) \/ Fail(d) \/ Restart(d)
  <2>1. Quiet(d)
    BY <1>4 DEF EndPush, Fail, Restart, Idle, local, count, Inv, Types
  <2> QED
    BY <2>1, <1>1
<1>5. ASSUME NEW e \in Peers(d), Ask(d, e) PROVE Inv' /\ StatusStep
  <2>0. e \in Devices
    BY DEF Peers
  <2> DEFINE c == Extracted(e, [at |-> walk[d].at, dev |-> d], Devices)
  <2>1. From(c, e)
    BY <2>0, ExtractedFrom
  <2> HIDE DEF c
  <2>2. cs' = cs \/ cs' = [cs EXCEPT ![d] = c] \/ cs' = [cs EXCEPT ![d] = cs[d]]
    BY <1>5 DEF Ask, Lowest, c
  <2>3. Quiet(e)
    BY <1>5, <2>0, <2>1, <2>2 DEF Ask, count, Inv, Types
  <2> QED
    BY <2>0, <2>3, <1>1
<1>6. ASSUME NEW e \in Peers(d), Unanswered(d, e) PROVE Inv' /\ StatusStep
  <2>1. Quiet(d)
    BY <1>6 DEF Unanswered, local, count, Inv, Types
  <2> QED
    BY <2>1, <1>1
<1> QED
  BY <1>2, <1>3, <1>4, <1>5, <1>6

\* Steps of a cycle that apply a changeset.
LEMMA MergeKeeps ==
    ASSUME Inv, NEW d \in Devices, MergePulled(d) \/ \E e \in Peers(d) : Send(d, e)
    PROVE  Inv' /\ StatusStep
<1>1. ASSUME NEW x \in Devices, cs[d] # NoSet, Apply(x, cs[d]) PROVE StatusStep
  <2>1. SetOK(cs[d])
    BY <1>1 DEF Inv, SetsKnown
  <2> SUFFICES ASSUME NEW y \in Devices, NEW k \in Suggestions \ ServerKeys,
                      row[y][k] # NoRow, row'[y][k] # NoRow
               PROVE  row'[y][k].st >= row[y][k].st \/ k \in DOMAIN cs[d].tombs
    BY <1>1 DEF StatusStep
  <2>2. CASE y = x
    BY <2>1, <2>2, <1>1, ApplyCell DEF Keys
  <2>3. CASE y # x
    <3>1. row'[y] = row[y] /\ k \in Keys
      BY <2>3, <1>1 DEF Apply, Inv, Types, Keys
    <3>2. row[y][k].st \in Nat
      BY <3>1, StatusNat
    <3> QED
      BY <3>1, <3>2
  <2> QED
    BY <2>2, <2>3
<1>2. CASE MergePulled(d)
  <2>1. /\ cs[d] # NoSet /\ Apply(d, cs[d]) /\ erased' = erased /\ authored' = authored
        /\ cs' = [cs EXCEPT ![d] = NoSet]
    BY <1>2 DEF MergePulled, Round, count
  <2>2. DOMAIN cs' = Devices /\ \A x \in Devices : cs'[x] = NoSet \/ cs'[x] = cs[x]
    BY <2>1 DEF Inv, Types
  <2> QED
    BY <2>1, <2>2, <1>1, ApplyStep
<1>3. ASSUME NEW e \in Peers(d), Send(d, e) PROVE Inv' /\ StatusStep
  <2>1. cs[d] # NoSet /\ Apply(e, cs[d]) /\ erased' = erased /\ authored' = authored /\ cs' = cs /\ e \in Devices
    BY <1>3 DEF Send, count, Peers
  <2>2. DOMAIN cs' = Devices
    BY <2>1 DEF Inv, Types
  <2> QED
    BY <2>1, <2>2, <1>1, ApplyStep
<1> QED
  BY <1>2, <1>3

\* Every step keeps the invariant and lowers no status.
LEMMA StepKeeps == ASSUME Inv, Issued, [Next]_vars PROVE Inv' /\ (StatusStep \/ UNCHANGED vars)
<1>1. ASSUME NEW d \in Devices, NEW k \in Keys, Write(d, k) PROVE Inv' /\ StatusStep
  BY <1>1, WriteKeeps
<1>2. ASSUME NEW d \in Devices, Cycle(d) \/ Restart(d) PROVE Inv' /\ StatusStep
  BY <1>2, QuietKeeps, MergeKeeps DEF Cycle, Exchange
<1>3. CASE UNCHANGED vars
  BY <1>3 DEF vars, local, cycle, count, Inv, Types, CellsKnown, Known, RowOK, SetsKnown, SetOK,
              TombsApart, Apart, OneStamp, HasCopy, ErasedInv, Under, Above
<1> QED
  BY <1>1, <1>2, <1>3 DEF Next

\* A finite set has an element that no other one is beyond.
LEMMA Maximal ==
    ASSUME NEW S, IsFiniteSet(S), S # {}, NEW R,
           \A x \in S : <<x, x>> \notin R,
           \A x, y, z \in S : <<z, y>> \in R /\ <<y, x>> \in R => <<z, x>> \in R
    PROVE  \E m \in S : \A x \in S : <<x, m>> \notin R
<1> DEFINE Beyond(x) == {y \in S : <<y, x>> \in R}
           Family == {Beyond(x) : x \in S}
<1>1. Family \subseteq FiniteSubsetsOf(S) /\ Family # {}
  <2>1. \A x \in S : Beyond(x) \in SUBSET S
    OBVIOUS
  <2>2. \A A \in SUBSET S : A \in FiniteSubsetsOf(S)
    BY FS_Subset DEF FiniteSubsetsOf
  <2>3. \A A \in Family : A \in FiniteSubsetsOf(S)
    BY <2>1, <2>2
  <2>4. Family # {}
    <3>1. PICK x : x \in S
      OBVIOUS
    <3>2. Beyond(x) \in Family
      BY <3>1
    <3> QED
      BY <3>2
  <2> HIDE DEF Family
  <2> QED
    BY <2>3, <2>4
<1>2. PICK A \in Family : \A B \in Family : ~(<<B, A>> \in StrictSubsetOrdering(S))
  BY <1>1, FS_StrictSubsetOrderingWellFounded, WFMin
<1>3. PICK m \in S : A = Beyond(m)
  BY <1>2
<1>4. Beyond(m) = {}
  <2> SUFFICES ASSUME NEW y \in Beyond(m) PROVE FALSE
    OBVIOUS
  <2>1. Beyond(y) \subseteq Beyond(m) /\ y \notin Beyond(y)
    OBVIOUS
  <2>2. <<Beyond(y), Beyond(m)>> \in StrictSubsetOrdering(S)
    BY <2>1 DEF StrictSubsetOrdering
  <2> QED
    BY <1>2, <1>3, <2>2
<1> QED
  BY <1>4

\* seed_from_db finds a floor.
LEMMA MaxStampType ==
    ASSUME NEW S \in SUBSET Stamps, S # {}
    PROVE  Max(S) \in Stamps /\ \A x \in S : x <= Max(S)
<1> DEFINE R == {p \in Stamps \X Stamps : p[1] > p[2]}
<1>1. IsFiniteSet(S)
  <2>1. 0 \in Int /\ MaxStamp \in Int
    BY MeshAssumption
  <2>2. IsFiniteSet(Stamps)
    BY <2>1, FS_Interval DEF Stamps
  <2> QED
    BY <2>2, FS_Subset
<1>2. \A x, y \in Stamps : <<x, y>> \in R <=> x > y
  OBVIOUS
<1>3. /\ \A x \in S : <<x, x>> \notin R
      /\ \A x, y, z \in S : <<z, y>> \in R /\ <<y, x>> \in R => <<z, x>> \in R
  BY <1>2 DEF Stamps
<1> HIDE DEF R
<1>4. PICK m \in S : \A x \in S : <<x, m>> \notin R
  BY <1>1, <1>3, Maximal
<1>5. \A x \in S : ~(x > m)
  BY <1>2, <1>4
<1>6. \A x \in S : m >= x
  BY <1>5, MeshAssumption DEF Stamps
<1>7. Max(S) \in S /\ \A x \in S : Max(S) >= x
  BY <1>6 DEF Max
<1> QED
  BY <1>7, MeshAssumption DEF Stamps

LEMMA InitIssued == Init => Issued
BY MeshAssumption DEF Init, Issued, QueueKnown, LocalKeys, Keys, Stamps

\* The floors rise, rows come from the store, from a changeset or from the origin's own
\* clock, a tombstone of a device's own is the one it had or has the stamp of its row.
LEMMA IssuedFrame ==
    ASSUME Inv, Issued, floor' \in [Devices -> Stamps], \A d \in Devices : floor[d] <= floor'[d],
           queued' \in [Devices -> SUBSET LocalKeys], QueueKnown',
           \A d \in Devices, k \in LocalKeys :
              \/ row'[d][k] \in {NoRow, row[d][k]}
              \/ \E x \in Devices : /\ cs[x] # NoSet /\ k \in DOMAIN cs[x].rows
                                    /\ row'[d][k] = cs[x].rows[k]
              \/ row'[d][k].org = d /\ row'[d][k].at <= floor'[d],
           \A d \in Devices, k \in LocalKeys :
              \/ tomb'[d][k] \in {NoTomb, tomb[d][k]}
              \/ tomb'[d][k].org # d
              \/ row[d][k] # NoRow /\ row[d][k].org = d /\ tomb'[d][k].at = row[d][k].at,
           \A d \in Devices : \/ cs'[d] = NoSet \/ cs'[d] = cs[d]
                              \/ \E f \in Devices : From(cs'[d], f)
    PROVE  Issued'
<1>0. LocalKeys \subseteq Keys /\ LocalKeys \cap ServerKeys = {}
  BY DEF LocalKeys, Keys
<1>1. \A d \in Devices : floor[d] \in Nat /\ floor'[d] \in Nat
  BY DEF Issued, Stamps
<1>2. \A d \in Devices, k \in LocalKeys : row[d][k] # NoRow
         => row[d][k].org \in Devices /\ row[d][k].at \in Nat
            /\ row[d][k].at <= floor'[row[d][k].org]
  <2> SUFFICES ASSUME NEW d \in Devices, NEW k \in LocalKeys, row[d][k] # NoRow
               PROVE  row[d][k].org \in Devices /\ row[d][k].at \in Nat
                      /\ row[d][k].at <= floor'[row[d][k].org]
    OBVIOUS
  <2>1. RowOK(k, row[d][k])
    BY <1>0 DEF Inv, CellsKnown
  <2>2. row[d][k].org \in Devices /\ row[d][k].at \in Nat
    BY <1>0, <2>1 DEF RowOK, Rows, Stamps
  <2>3. row[d][k].at <= floor[row[d][k].org]
    BY DEF Issued
  <2> QED
    BY <1>1, <2>2, <2>3
<1>3. \A d \in Devices, k \in LocalKeys : cs[d] # NoSet /\ k \in DOMAIN cs[d].rows
         => cs[d].rows[k].at <= floor'[cs[d].rows[k].org]
  <2> SUFFICES ASSUME NEW d \in Devices, NEW k \in LocalKeys, cs[d] # NoSet, k \in DOMAIN cs[d].rows
               PROVE  cs[d].rows[k].at <= floor'[cs[d].rows[k].org]
    OBVIOUS
  <2>1. RowOK(k, cs[d].rows[k])
    BY DEF Inv, SetsKnown, SetOK
  <2>2. cs[d].rows[k].org \in Devices /\ cs[d].rows[k].at \in Nat
    BY <1>0, <2>1 DEF RowOK, Rows, Stamps
  <2>3. cs[d].rows[k].at <= floor[cs[d].rows[k].org]
    BY DEF Issued
  <2> QED
    BY <1>1, <2>2, <2>3
<1>4. \A d \in Devices, k \in LocalKeys :
         row'[d][k] # NoRow => row'[d][k].at <= floor'[row'[d][k].org]
  BY <1>2, <1>3
<1>5. \A d \in Devices, k \in LocalKeys :
         tomb'[d][k] # NoTomb /\ tomb'[d][k].org = d => tomb'[d][k].at <= floor'[d]
  <2> SUFFICES ASSUME NEW d \in Devices, NEW k \in LocalKeys,
                      tomb'[d][k] # NoTomb, tomb'[d][k].org = d
               PROVE  tomb'[d][k].at <= floor'[d]
    OBVIOUS
  <2>1. CASE tomb'[d][k] = tomb[d][k]
    <3>1. tomb[d][k] \in Tombs
      BY <1>0, <2>1 DEF Inv, Types
    <3>2. tomb[d][k].at \in Nat /\ tomb[d][k].at <= floor[d]
      BY <2>1, <3>1 DEF Tombs, Stamps, Issued
    <3> QED
      BY <1>1, <2>1, <3>2
  <2>2. CASE row[d][k] # NoRow /\ row[d][k].org = d /\ tomb'[d][k].at = row[d][k].at
    BY <1>2, <2>2
  <2> QED
    BY <2>1, <2>2
<1>6. \A d \in Devices, k \in LocalKeys : cs'[d] # NoSet /\ k \in DOMAIN cs'[d].rows
         => cs'[d].rows[k].at <= floor'[cs'[d].rows[k].org]
  <2> SUFFICES ASSUME NEW d \in Devices, NEW k \in LocalKeys, cs'[d] # NoSet, k \in DOMAIN cs'[d].rows
               PROVE  cs'[d].rows[k].at <= floor'[cs'[d].rows[k].org]
    OBVIOUS
  <2>1. CASE cs'[d] = cs[d]
    BY <1>3, <2>1
  <2>2. ASSUME NEW f \in Devices, From(cs'[d], f) PROVE cs'[d].rows[k].at <= floor'[cs'[d].rows[k].org]
    <3>1. row[f][k] # NoRow /\ cs'[d].rows[k] = Backfill(f)[k]
      BY <2>2 DEF From
    <3>2. Backfill(f)[k] = row[f][k]
      BY <1>0, BackfillKeeps
    <3> QED
      BY <1>2, <3>1, <3>2
  <2> QED
    BY <2>1, <2>2
<1> QED
  BY <1>4, <1>5, <1>6 DEF Issued

\* A local writer stamps what it writes; retention's tombstone has the stamp of its row.
LEMMA WriteIssued ==
    ASSUME Inv, Issued, NEW d \in Devices, NEW k \in Keys, Write(d, k)
    PROVE  Issued'
<1>1. floor' = floor \/ \E s \in Stamps : s > floor[d] /\ floor' = [floor EXCEPT ![d] = s]
  <2>1. floor' = floor \/ \E s \in Stamps : Stamped(d, s)
    BY DEF Write, Author, Resave, SaveServer, Mark, Expire, DeleteOverride, Gc
  <2>2. ASSUME NEW s \in Stamps, Stamped(d, s) PROVE s > floor[d] /\ floor' = [floor EXCEPT ![d] = s]
    <3>1. floor[d] \in Nat /\ s \in Nat /\ MaxStamp \in Nat
      BY MeshAssumption DEF Issued, Stamps
    <3> QED
      BY <2>2, <3>1 DEF Stamped
  <2> QED
    BY <2>1, <2>2
<1>2. floor' \in [Devices -> Stamps] /\ \A x \in Devices : floor[x] <= floor'[x]
  <2>1. floor \in [Devices -> Stamps] /\ \A s \in Stamps : s \in Nat
    BY DEF Issued, Stamps
  <2> QED
    BY <1>1, <2>1
<1>3. queued' \in [Devices -> SUBSET LocalKeys] /\ QueueKnown'
  <2>1. CASE Author(d, k)
    <3>1. /\ queued' = [queued EXCEPT ![d] = @ \cup ({k} \cap Suggestions)]
          /\ authored' = authored \cup {k} /\ k \notin ServerKeys
      BY <2>1 DEF Author
    <3> QED
      BY <3>1 DEF Issued, QueueKnown, LocalKeys
  <2>2. CASE ~Author(d, k)
    <3>1. authored' = authored /\ (queued' = queued \/ queued' = [queued EXCEPT ![d] = @ \ {k}])
      BY <2>2 DEF Write, Resave, SaveServer, Mark, Expire, DeleteOverride, Gc
    <3> QED
      BY <3>1 DEF Issued, QueueKnown
  <2> QED
    BY <2>1, <2>2
<1>4. cs' = cs
  BY DEF Write, Author, Resave, SaveServer, Mark, Expire, DeleteOverride, Gc, cycle
<1>5. \A x \in Devices, j \in LocalKeys :
         \/ row'[x][j] \in {NoRow, row[x][j]}
         \/ row'[x][j].org = x /\ row'[x][j].at <= floor'[x]
  <2>1. CASE Author(d, k) \/ Resave(d, k) \/ \E st \in Marks : Mark(d, k, st) /\ k \notin ServerKeys
    <3>0. PICK s \in Stamps : \E n : Stamped(d, s) /\ Put(d, k, [at |-> s, org |-> d, st |-> n])
      BY <2>1 DEF Author, Resave, Mark
    <3>1. PICK n : Stamped(d, s) /\ Put(d, k, [at |-> s, org |-> d, st |-> n])
      BY <3>0
    <3>2. floor'[d] = s /\ s \in Nat
      BY <3>1 DEF Stamped, Issued, Stamps
    <3>3. \A x \in Devices, j \in Keys : row'[x][j] = IF x = d /\ j = k
                                                     THEN [at |-> s, org |-> d, st |-> n]
                                                     ELSE row[x][j]
      BY <3>1 DEF Put, Inv, Types
    <3> QED
      BY <3>2, <3>3 DEF LocalKeys, Keys
  <2>2. CASE k \in ServerKeys /\ \E r : Put(d, k, r)
    <3>1. PICK r : row' = [row EXCEPT ![d][k] = r]
      BY <2>2 DEF Put
    <3>2. \A x \in Devices, j \in Keys : j # k => row'[x][j] = row[x][j]
      BY <3>1 DEF Inv, Types
    <3> QED
      BY <2>2, <3>2 DEF LocalKeys, Keys
  <2>3. CASE Put(d, k, NoRow) \/ row' = row
    <3>0. CASE row' = [row EXCEPT ![d][k] = NoRow]
      <4>1. \A x \in Devices, j \in Keys : row'[x][j] = IF x = d /\ j = k THEN NoRow ELSE row[x][j]
        BY <3>0 DEF Inv, Types
      <4> QED
        BY <4>1 DEF LocalKeys, Keys
    <3>1. CASE row' = row
      BY <3>1
    <3> QED
      BY <2>3, <3>0, <3>1 DEF Put
  <2>4. ASSUME NEW st \in Marks, Mark(d, k, st), k \in ServerKeys PROVE \E r : Put(d, k, r)
    BY <2>4 DEF Mark
  <2>5. CASE SaveServer(d, k)
    BY <2>5, <2>2 DEF SaveServer
  <2>6. CASE Expire(d, k) \/ DeleteOverride(d, k) \/ Gc(d, k)
    BY <2>6, <2>3 DEF Expire, DeleteOverride, Gc, Delete
  <2> QED
    BY <2>1, <2>2, <2>4, <2>5, <2>6 DEF Write
<1>6. \A x \in Devices, j \in LocalKeys :
         \/ tomb'[x][j] \in {NoTomb, tomb[x][j]}
         \/ row[x][j] # NoRow /\ row[x][j].org = x /\ tomb'[x][j].at = row[x][j].at
  <2>1. CASE Expire(d, k) /\ row[d][k].org = d
    <3> DEFINE t == [at |-> row[d][k].at, org |-> d]
    <3>1. row[d][k] # NoRow /\ tomb' = [tomb EXCEPT ![d][k] = KeepHigher(@, t)]
      BY <2>1 DEF Expire, Delete
    <3>2. \A x \in Devices, j \in Keys :
             tomb'[x][j] = IF x = d /\ j = k THEN KeepHigher(tomb[d][k], t) ELSE tomb[x][j]
      BY <3>1 DEF Inv, Types
    <3>3. KeepHigher(tomb[d][k], t) \in {t, tomb[d][k]} /\ t.at = row[d][k].at
      BY DEF KeepHigher
    <3> HIDE DEF t
    <3> QED
      BY <2>1, <3>1, <3>2, <3>3 DEF LocalKeys, Keys
  <2>2. CASE DeleteOverride(d, k)
    <3>1. k \notin LocalKeys
      BY <2>2, MeshAssumption DEF DeleteOverride, LocalKeys
    <3>2. PICK t : tomb' = [tomb EXCEPT ![d][k] = t]
      BY <2>2 DEF DeleteOverride, Delete
    <3>3. \A x \in Devices, j \in Keys : j # k => tomb'[x][j] = tomb[x][j]
      BY <3>2 DEF Inv, Types
    <3> QED
      BY <3>1, <3>3 DEF LocalKeys, Keys
  <2>3. CASE tomb' = tomb \/ tomb' = [tomb EXCEPT ![d][k] = NoTomb]
    <3>0. CASE tomb' = [tomb EXCEPT ![d][k] = NoTomb]
      <4>1. \A x \in Devices, j \in Keys : tomb'[x][j] = IF x = d /\ j = k THEN NoTomb ELSE tomb[x][j]
        BY <3>0 DEF Inv, Types
      <4> QED
        BY <4>1 DEF LocalKeys, Keys
    <3>1. CASE tomb' = tomb
      BY <3>1
    <3> QED
      BY <2>3, <3>0, <3>1
  <2>4. \/ Expire(d, k) /\ row[d][k].org = d
        \/ DeleteOverride(d, k)
        \/ tomb' = tomb \/ tomb' = [tomb EXCEPT ![d][k] = NoTomb]
    BY DEF Write, Author, Resave, SaveServer, Mark, Expire, Gc
  <2> QED
    BY <2>1, <2>2, <2>3, <2>4
<1> QED
  BY <1>2, <1>3, <1>4, <1>5, <1>6, IssuedFrame

\* A cycle issues nothing; a restart only raises the floor.
LEMMA CycleIssued ==
    ASSUME Inv, Issued, NEW d \in Devices, Cycle(d) \/ Restart(d)
    PROVE  Issued'
<1>0. authored' = authored /\ LocalKeys \subseteq Keys
  BY DEF Cycle, Exchange, StartCycle, Ask, Unanswered, Send, MergePulled, Extract, EndPush, Fail,
         Restart, count, LocalKeys, Keys
<1>1. CASE Restart(d)
  <2> DEFINE S == {floor[d]} \cup {row[d][k].at : k \in {j \in Keys : row[d][j] # NoRow}}
  <2>1. \A k \in Keys : row[d][k] # NoRow => row[d][k].at \in Stamps
    BY DEF Inv, Types, Rows
  <2>2. S \in SUBSET Stamps /\ S # {} /\ floor[d] \in S
    BY <2>1 DEF Issued
  <2>3. floor' = [floor EXCEPT ![d] = Max(S)]
    BY <1>1 DEF Restart
  <2> HIDE DEF S
  <2>4. floor' \in [Devices -> Stamps] /\ \A x \in Devices : floor[x] <= floor'[x]
    <3>1. Max(S) \in Stamps /\ floor[d] <= Max(S)
      BY <2>2, MaxStampType
    <3>2. \A x \in Devices : floor[x] <= floor[x]
      BY DEF Issued, Stamps
    <3> QED
      BY <2>3, <3>1, <3>2 DEF Issued
  <2>5. queued' \in [Devices -> SUBSET LocalKeys] /\ QueueKnown'
    <3> DEFINE Q == {k \in Suggestions \ ServerKeys : row[d][k] # NoRow /\ row[d][k].st < 2}
    <3>1. /\ queued' = [queued EXCEPT ![d] = Q]
          /\ Q \subseteq LocalKeys /\ \A k \in Q : row[d][k] # NoRow
      BY <1>1 DEF Restart, LocalKeys
    <3> HIDE DEF Q
    <3>2. Q \subseteq authored
      BY <3>1, <1>0 DEF Inv, CellsKnown, Known, LocalKeys
    <3> QED
      BY <3>1, <3>2, <1>0 DEF Issued, QueueKnown
  <2>6. row' = row /\ tomb' = tomb /\ \A x \in Devices : cs'[x] \in {NoSet, cs[x]}
    BY <1>1 DEF Restart, Idle, Inv, Types
  <2> QED
    BY <2>4, <2>5, <2>6, IssuedFrame
<1>2. CASE Cycle(d)
  <2>1. floor' = floor /\ queued' = queued
    BY <1>2 DEF Cycle, Exchange, StartCycle, Ask, Unanswered, Send, MergePulled, Extract, EndPush,
                Fail, local, count
  <2>2. /\ floor' \in [Devices -> Stamps] /\ \A x \in Devices : floor[x] <= floor'[x]
        /\ queued' \in [Devices -> SUBSET LocalKeys] /\ QueueKnown'
    BY <2>1, <1>0 DEF Issued, QueueKnown, Stamps
  <2>3. ASSUME NEW e \in Devices, row' = row \/ row' = [row EXCEPT ![e] = Backfill(e)], tomb' = tomb,
               \A x \in Devices : \/ cs'[x] = NoSet \/ cs'[x] = cs[x]
                                  \/ \E f \in Devices : From(cs'[x], f)
        PROVE  Issued'
    <3>1. \A k \in LocalKeys : Backfill(e)[k] = row[e][k]
      BY <1>0, BackfillKeeps DEF LocalKeys
    <3>2. \A x \in Devices, k \in LocalKeys : row'[x][k] = row[x][k] /\ tomb'[x][k] = tomb[x][k]
      BY <2>3, <3>1 DEF Inv, Types
    <3> QED
      BY <2>2, <2>3, <3>2, IssuedFrame
  <2>4. ASSUME NEW x \in Devices, NEW y \in Devices, cs[y] # NoSet, Apply(x, cs[y]),
               \A z \in Devices : cs'[z] = NoSet \/ cs'[z] = cs[z]
        PROVE  Issued'
    <3>1. SetOK(cs[y])
      BY <2>4 DEF Inv, SetsKnown
    <3>2. \A z \in Devices \ {x} : row'[z] = row[z] /\ tomb'[z] = tomb[z]
      BY <2>4 DEF Apply, Inv, Types
    <3>3. \A z \in Devices, k \in LocalKeys :
             \/ row'[z][k] \in {NoRow, row[z][k]}
             \/ k \in DOMAIN cs[y].rows /\ row'[z][k] = cs[y].rows[k]
      BY <1>0, <2>4, <3>1, <3>2, ApplyCell
    <3>4. \A z \in Devices, k \in LocalKeys :
             tomb'[z][k] \in {NoTomb, tomb[z][k]} \/ tomb'[z][k].org # z
      BY <1>0, <2>4, <3>1, <3>2, ApplyCell
    <3> QED
      BY <2>2, <2>4, <3>3, <3>4, IssuedFrame
  <2>5. CASE StartCycle(d) \/ EndPush(d) \/ Fail(d)
    <3>1. row' = row /\ tomb' = tomb /\ \A x \in Devices : cs'[x] \in {NoSet, cs[x]}
      BY <2>5 DEF StartCycle, EndPush, Fail, Round, Idle, local, Inv, Types
    <3> QED
      BY <2>3, <3>1
  <2>6. CASE Extract(d)
    <3> DEFINE c == Extracted(d, pushed[d], {d})
    <3>1. From(c, d)
      BY ExtractedFrom
    <3> HIDE DEF c
    <3>2. cs' = [cs EXCEPT ![d] = NoSet] \/ cs' = [cs EXCEPT ![d] = c]
      BY <2>6 DEF Extract, Idle, c
    <3>3. row' = [row EXCEPT ![d] = Backfill(d)] /\ tomb' = tomb
      BY <2>6 DEF Extract
    <3>4. \A x \in Devices : cs'[x] = NoSet \/ cs'[x] = cs[x] \/ \E f \in Devices : From(cs'[x], f)
      BY <3>1, <3>2 DEF Inv, Types
    <3> QED
      BY <2>3, <3>3, <3>4
  <2>7. ASSUME NEW e \in Peers(d), Ask(d, e) PROVE Issued'
    <3>0. e \in Devices
      BY DEF Peers
    <3> DEFINE c == Extracted(e, [at |-> walk[d].at, dev |-> d], Devices)
    <3>1. From(c, e)
      BY <3>0, ExtractedFrom
    <3> HIDE DEF c
    <3>2. cs' = cs \/ cs' = [cs EXCEPT ![d] = c] \/ cs' = [cs EXCEPT ![d] = cs[d]]
      BY <2>7 DEF Ask, Lowest, c
    <3>3. row' = [row EXCEPT ![e] = Backfill(e)] /\ tomb' = tomb
      BY <2>7 DEF Ask
    <3>4. \A x \in Devices : cs'[x] = NoSet \/ cs'[x] = cs[x] \/ \E f \in Devices : From(cs'[x], f)
      BY <3>0, <3>1, <3>2 DEF Inv, Types
    <3> QED
      BY <3>0, <2>3, <3>3, <3>4
  <2>8. ASSUME NEW e \in Peers(d), Unanswered(d, e) PROVE Issued'
    BY <2>8, <2>3 DEF Unanswered, local
  <2>9. ASSUME NEW e \in Peers(d), Send(d, e) PROVE Issued'
    <3>1. e \in Devices /\ cs[d] # NoSet /\ Apply(e, cs[d]) /\ cs' = cs
      BY <2>9 DEF Send, Peers
    <3> QED
      BY <3>1, <2>4
  <2>10. CASE MergePulled(d)
    <3>1. cs[d] # NoSet /\ Apply(d, cs[d]) /\ cs' = [cs EXCEPT ![d] = NoSet]
      BY <2>10 DEF MergePulled, Round
    <3>2. \A z \in Devices : cs'[z] = NoSet \/ cs'[z] = cs[z]
      BY <3>1 DEF Inv, Types
    <3> QED
      BY <3>1, <3>2, <2>4
  <2> QED
    BY <1>2, <2>5, <2>6, <2>7, <2>8, <2>9, <2>10 DEF Cycle, Exchange
<1> QED
  BY <1>1, <1>2

LEMMA IssuedStep == ASSUME Inv, Issued, [Next]_vars PROVE Issued'
<1>1. CASE UNCHANGED vars
  BY <1>1 DEF vars, local, cycle, count, Issued, QueueKnown
<1> QED
  BY <1>1, WriteIssued, CycleIssued DEF Next

\* The inductive invariant holds in every reachable state.
LEMMA Invariance == Spec => [](Inv /\ Issued)
<1>1. Inv /\ Issued /\ [Next]_vars => Inv' /\ Issued'
  BY StepKeeps, IssuedStep
<1> QED
  BY <1>1, InitInv, InitIssued, PTL DEF Spec

\* On no device does a tombstone cover a row of its own origin: the row is gone, or was
\* written there after the erasure, with a stamp above it.
THEOREM ErasedIsApart == Spec => []TombstoneExcludesRow
<1>1. Inv => TombstoneExcludesRow
  BY DEF Inv, TombsApart, Apart, TombstoneExcludesRow
<1> QED
  BY <1>1, Invariance, PTL

\* A deleted override comes back only with a stamp above its deletion.
THEOREM DeletedIsOlder == Spec => []DeletedOverrideIsOlder
<1>1. Inv => DeletedOverrideIsOlder
  <2> SUFFICES ASSUME Inv, NEW d \in Devices, NEW k \in Overrides, row[d][k] # NoRow,
                      erased[d][k] # 0
               PROVE  row[d][k].at > erased[d][k]
    BY DEF DeletedOverrideIsOlder
  <2>1. row[d][k] \in Rows
    BY DEF Inv, CellsKnown, RowOK, Keys
  <2>2. HasCopy(k, row[d][k].at) /\ row[d][k].at \in Stamps
    BY <2>1 DEF HasCopy, Rows
  <2>3. Above(d, k)
    BY DEF Inv, ErasedInv, Under
  <2> QED
    BY <2>2, <2>3 DEF Above
<1> QED
  BY <1>1, Invariance, PTL

\* No merge lowers the status of a suggestion, except where a deletion is applied; only
\* the device that saves it anew does.
THEOREM StatusIsKept == Spec => StatusKept
<1>1. Inv /\ Issued /\ [Next]_vars => [StatusStep]_vars
  BY StepKeeps
<1> QED
  BY <1>1, Invariance, PTL DEF Spec, StatusKept

-----------------------------------------------------------------------------
(* Types.  The watermark of a changeset is a maximum over what a device has, which     *)
(* exists because the device ids are finitely many; the one a push ends with is there  *)
(* because a changeset was delivered.                                                  *)

LEMMA HlcsFinite == IsFiniteSet(Hlcs)
<1> DEFINE D == Stamps \X (Devices \cup {Blank})
           f == [p \in D |-> [at |-> p[1], dev |-> p[2]]]
<1>1. IsFiniteSet(Stamps) /\ IsFiniteSet(Devices \cup {Blank})
  <2>1. 0 \in Int /\ MaxStamp \in Int
    BY MeshAssumption
  <2>2. IsFiniteSet(0 .. MaxStamp)
    BY <2>1, FS_Interval
  <2> QED
    BY <2>2, PairingAssumption, FS_AddElement DEF Stamps
<1>2. IsFiniteSet(D)
  BY <1>1, FS_Product
<1>3. f \in Surjection(D, Hlcs)
  <2>1. f \in [D -> Hlcs]
    BY DEF Hlcs
  <2>2. ASSUME NEW h \in Hlcs PROVE \E p \in D : f[p] = h
    <3>1. <<h.at, h.dev>> \in D /\ h = [at |-> h.at, dev |-> h.dev]
      BY DEF Hlcs
    <3>2. f[<<h.at, h.dev>>] = [at |-> h.at, dev |-> h.dev]
      BY <3>1
    <3> QED
      BY <3>1, <3>2
  <2> QED
    BY <2>1, <2>2 DEF Surjection
<1> HIDE DEF D, f
<1> QED
  BY <1>2, <1>3, FS_Surjection

\* compute_max_hlc finds a stamp, and none that the device has is beyond it.
LEMMA MaxHlcIsHighest ==
    ASSUME NEW S \in SUBSET Hlcs, S # {}
    PROVE  \E h \in S : \A g \in S : ~After(g, h)
<1> DEFINE R == {p \in Hlcs \X Hlcs : After(p[1], p[2])}
<1>1. IsFiniteSet(S)
  BY HlcsFinite, FS_Subset
<1>2. \A h \in Hlcs : h.at \in Nat /\ h.dev \in Nat
  <2>1. Devices \cup {Blank} \subseteq Nat /\ Stamps \subseteq Nat
    BY MeshAssumption DEF Stamps, Blank
  <2> QED
    BY <2>1 DEF Hlcs
<1>3. \A g, h \in Hlcs : <<g, h>> \in R <=> After(g, h)
  OBVIOUS
<1>4. \A h \in S : <<h, h>> \notin R
  BY <1>2, <1>3 DEF After
<1>5. \A x, y, z \in S : <<z, y>> \in R /\ <<y, x>> \in R => <<z, x>> \in R
  <2> SUFFICES ASSUME NEW x \in S, NEW y \in S, NEW z \in S, After(z, y), After(y, x)
               PROVE  After(z, x)
    BY <1>3
  <2> QED
    BY <1>2 DEF After
<1> HIDE DEF R
<1>6. \E h \in S : \A g \in S : <<g, h>> \notin R
  BY <1>1, <1>4, <1>5, Maximal
<1> QED
  BY <1>3, <1>6

LEMMA MaxHlcType ==
    ASSUME NEW rs \in [Keys -> Rows \cup {NoRow}], NEW ts \in [Keys -> Tombs \cup {NoTomb}]
    PROVE  MaxHlc(rs, ts) \in Hlcs
<1> DEFINE all == {Zero} \cup {HlcOf(rs[k]) : k \in {j \in Keys : rs[j] # NoRow}}
                         \cup {HlcOf(ts[k]) : k \in {j \in Keys : ts[j] # NoTomb}}
<1>1. Zero \in Hlcs
  BY MeshAssumption DEF Zero, Hlcs, Stamps
<1>2. \A k \in Keys : /\ rs[k] # NoRow => HlcOf(rs[k]) \in Hlcs
                      /\ ts[k] # NoTomb => HlcOf(ts[k]) \in Hlcs
  BY DEF HlcOf, Rows, Tombs, Hlcs
<1>3. all \in SUBSET Hlcs /\ all # {}
  BY <1>1, <1>2
<1>4. MaxHlc(rs, ts) = CHOOSE h \in all : \A g \in all : ~After(g, h)
  BY DEF MaxHlc
<1> HIDE DEF all
<1> QED
  BY <1>3, <1>4, MaxHlcIsHighest

\* What Inv leaves open: where each device's cycle is and what it carries.
CycleTypes ==
    /\ floor \in [Devices -> Stamps] /\ pushed \in [Devices -> Hlcs]
    /\ pc \in [Devices -> {"idle", "pull", "push"}]
    /\ walk \in [Devices -> Hlcs] /\ todo \in [Devices -> SUBSET Devices]
    /\ delivered \in [Devices -> BOOLEAN]

SetTypes == \A d \in Devices : cs[d] # NoSet => cs[d].from \in Devices /\ cs[d].wm \in Hlcs

\* Only a push of a changeset is delivered.
DeliveredHasSet == \A d \in Devices : delivered[d] => pc[d] = "push" /\ cs[d] # NoSet

CountTypes == /\ authored \subseteq Keys
              /\ writes \in 0 .. MaxWrites /\ deletes \in 0 .. MaxDeletes
              /\ restarts \in 0 .. MaxRestarts

TypeInv == Inv /\ Issued /\ CycleTypes /\ SetTypes /\ DeliveredHasSet /\ CountTypes

LEMMA TypeInvIsTypeOK == TypeInv => TypeOK
<1> SUFFICES ASSUME TypeInv PROVE TypeOK
  OBVIOUS
<1>1. \A d \in Devices : cs[d] = NoSet \/ IsSet(cs[d])
  <2> SUFFICES ASSUME NEW d \in Devices, cs[d] # NoSet PROVE IsSet(cs[d])
    OBVIOUS
  <2>1. SetOK(cs[d]) /\ cs[d].from \in Devices /\ cs[d].wm \in Hlcs
    BY DEF TypeInv, Inv, SetsKnown, SetTypes
  <2> QED
    BY <2>1 DEF SetOK, IsSet, RowOK
<1> QED
  BY <1>1 DEF TypeInv, Inv, Issued, LocalKeys, Types, CycleTypes, CountTypes, TypeOK

LEMMA ExtractedTypes ==
    ASSUME Inv, NEW d \in Devices, NEW since, NEW origins
    PROVE  LET c == Extracted(d, since, origins) IN c.from \in Devices /\ c.wm \in Hlcs
<1>1. Backfill(d) \in [Keys -> Rows \cup {NoRow}]
  BY BackfillKeeps DEF Backfill
<1>2. tomb[d] \in [Keys -> Tombs \cup {NoTomb}]
  BY DEF Inv, Types
<1>3. MaxHlc(Backfill(d), tomb[d]) \in Hlcs
  BY <1>1, <1>2, MaxHlcType
<1> QED
  BY <1>3 DEF Extracted

LEMMA InitTypes == Init => TypeInv
<1> SUFFICES ASSUME Init PROVE TypeInv
  OBVIOUS
<1>1. Zero \in Hlcs /\ 0 \in Stamps
  BY MeshAssumption DEF Zero, Hlcs, Stamps
<1>2. CycleTypes
  BY <1>1 DEF Init, CycleTypes
<1>3. SetTypes /\ DeliveredHasSet
  BY DEF Init, SetTypes, DeliveredHasSet
<1>4. CountTypes
  BY MeshAssumption DEF Init, CountTypes
<1> QED
  BY <1>2, <1>3, <1>4, InitInv, InitIssued DEF TypeInv

\* A local writer counts itself, raises at most the floor and leaves the cycle alone.
LEMMA WriteTypes ==
    ASSUME TypeInv, NEW d \in Devices, NEW k \in Keys, Write(d, k)
    PROVE  TypeInv'
<1>1. Inv' /\ Issued'
  BY WriteKeeps, WriteIssued DEF TypeInv
<1>2. UNCHANGED <<pushed, cycle, restarts>>
  BY DEF Write, Author, Resave, SaveServer, Mark, Expire, DeleteOverride, Gc
<1>3. floor' = floor \/ \E s \in Stamps : floor' = [floor EXCEPT ![d] = s]
  BY DEF Write, Author, Resave, SaveServer, Mark, Expire, DeleteOverride, Gc, Stamped
<1>4. authored' = authored \/ authored' = authored \cup {k}
  BY DEF Write, Author, Resave, SaveServer, Mark, Expire, DeleteOverride, Gc
<1>5. /\ writes' = writes \/ (writes < MaxWrites /\ writes' = writes + 1)
      /\ deletes' = deletes \/ (deletes < MaxDeletes /\ deletes' = deletes + 1)
  BY DEF Write, Author, Resave, SaveServer, Mark, Expire, DeleteOverride, Gc, Count
<1>6. CycleTypes'
  BY <1>2, <1>3 DEF TypeInv, CycleTypes, cycle
<1>7. SetTypes' /\ DeliveredHasSet'
  BY <1>2 DEF TypeInv, SetTypes, DeliveredHasSet, cycle
<1>8. CountTypes'
  <2>1. writes' \in 0 .. MaxWrites /\ deletes' \in 0 .. MaxDeletes
    BY <1>5, MeshAssumption DEF TypeInv, CountTypes
  <2> QED
    BY <2>1, <1>2, <1>4 DEF TypeInv, CountTypes
<1> QED
  BY <1>1, <1>6, <1>7, <1>8 DEF TypeInv

\* A cycle comes to rest, whatever it leaves as the push watermark.
LEMMA IdleTypes ==
    ASSUME TypeInv, NEW d \in Devices, Idle(d), floor' \in [Devices -> Stamps],
           pushed' \in [Devices -> Hlcs]
    PROVE  CycleTypes' /\ SetTypes' /\ DeliveredHasSet'
<1>1. Zero \in Hlcs
  BY MeshAssumption DEF Zero, Hlcs, Stamps
<1>2. DOMAIN cs = Devices
  BY DEF TypeInv, Inv, Types
<1>3. CycleTypes'
  BY <1>1 DEF TypeInv, CycleTypes, Idle
<1>4. SetTypes'
  BY <1>2 DEF TypeInv, SetTypes, Idle
<1>5. DeliveredHasSet'
  BY <1>2 DEF TypeInv, CycleTypes, DeliveredHasSet, Idle
<1> QED
  BY <1>3, <1>4, <1>5

\* A device's own steps that end or start its cycle.
LEMMA OwnTypes ==
    ASSUME TypeInv, NEW d \in Devices,
           StartCycle(d) \/ Extract(d) \/ EndPush(d) \/ Fail(d) \/ Restart(d)
    PROVE  TypeInv'
<1>1. Inv' /\ Issued'
  BY QuietKeeps, CycleIssued DEF TypeInv, Cycle
<1>2. Zero \in Hlcs /\ DOMAIN cs = Devices /\ Peers(d) \subseteq Devices
  BY MeshAssumption DEF Zero, Hlcs, Stamps, TypeInv, Inv, Types, Peers
<1>3. CountTypes'
  <2>1. UNCHANGED <<authored, writes, deletes>>
    BY DEF StartCycle, Extract, EndPush, Fail, Restart, count
  <2>2. restarts' = restarts \/ (restarts < MaxRestarts /\ restarts' = restarts + 1)
    BY DEF StartCycle, Extract, EndPush, Fail, Restart, count
  <2>3. restarts' \in 0 .. MaxRestarts
    BY <2>2, MeshAssumption DEF TypeInv, CountTypes
  <2> QED
    BY <2>1, <2>3 DEF TypeInv, CountTypes
<1>4. CycleTypes' /\ SetTypes' /\ DeliveredHasSet'
  <2>1. CASE StartCycle(d)
    <3>1. CycleTypes'
      BY <1>2, <2>1 DEF StartCycle, Round, local, TypeInv, CycleTypes
    <3>2. SetTypes'
      BY <1>2, <2>1 DEF StartCycle, Round, TypeInv, SetTypes
    <3>3. DeliveredHasSet'
      BY <1>2, <2>1 DEF StartCycle, Round, TypeInv, CycleTypes, DeliveredHasSet
    <3> QED
      BY <3>1, <3>2, <3>3
  <2>2. CASE Extract(d)
    <3> DEFINE c == Extracted(d, pushed[d], {d})
    <3>1. c.from \in Devices /\ c.wm \in Hlcs
      BY ExtractedTypes DEF TypeInv
    <3>2. CASE IsEmpty(c)
      <4>1. Idle(d) /\ floor' = floor /\ pushed' = pushed
        BY <2>2, <3>2 DEF Extract
      <4> QED
        BY <4>1, IdleTypes DEF TypeInv, CycleTypes
    <3>3. CASE ~IsEmpty(c)
      <4>1. /\ pc[d] = "pull" /\ pc' = [pc EXCEPT ![d] = "push"]
            /\ todo' = [todo EXCEPT ![d] = Peers(d)]
            /\ cs' = [cs EXCEPT ![d] = c]
            /\ walk' = [walk EXCEPT ![d] = Zero]
            /\ UNCHANGED <<delivered, floor, pushed>>
        BY <2>2, <3>3 DEF Extract
      <4> HIDE DEF c
      <4>2. CycleTypes'
        BY <1>2, <4>1 DEF TypeInv, CycleTypes
      <4>3. SetTypes'
        BY <1>2, <3>1, <4>1 DEF TypeInv, SetTypes
      <4>4. DeliveredHasSet'
        BY <1>2, <4>1 DEF TypeInv, CycleTypes, DeliveredHasSet
      <4> QED
        BY <4>2, <4>3, <4>4
    <3> QED
      BY <3>2, <3>3
  <2>3. CASE EndPush(d)
    <3>1. delivered[d] => cs[d].wm \in Hlcs
      BY DEF TypeInv, DeliveredHasSet, SetTypes
    <3>2. pushed' \in [Devices -> Hlcs] /\ floor' \in [Devices -> Stamps]
      BY <2>3, <3>1 DEF EndPush, local, TypeInv, CycleTypes
    <3> QED
      BY <2>3, <3>2, IdleTypes DEF EndPush
  <2>4. CASE Fail(d)
    BY <2>4, IdleTypes DEF Fail, local, TypeInv, CycleTypes
  <2>5. CASE Restart(d)
    <3> DEFINE S == {floor[d]} \cup {row[d][k].at : k \in {j \in Keys : row[d][j] # NoRow}}
    <3>1. \A k \in Keys : row[d][k] # NoRow => row[d][k].at \in Stamps
      BY DEF TypeInv, Inv, Types, Rows
    <3>2. S \in SUBSET Stamps /\ S # {}
      BY <3>1 DEF TypeInv, CycleTypes
    <3>3. floor' = [floor EXCEPT ![d] = Max(S)]
      BY <2>5 DEF Restart
    <3> HIDE DEF S
    <3>4. floor' \in [Devices -> Stamps]
      BY <3>2, <3>3, MaxStampType DEF TypeInv, CycleTypes
    <3>5. pushed' \in [Devices -> Hlcs]
      BY <1>2, <2>5 DEF Restart, TypeInv, CycleTypes
    <3> QED
      BY <2>5, <3>4, <3>5, IdleTypes DEF Restart
  <2> QED
    BY <2>1, <2>2, <2>3, <2>4, <2>5
<1> QED
  BY <1>1, <1>3, <1>4 DEF TypeInv

\* The steps with a peer, and the merge of what was pulled.
LEMMA ExchangeTypes ==
    ASSUME TypeInv, NEW d \in Devices, Exchange(d) \/ MergePulled(d)
    PROVE  TypeInv'
<1>1. Inv' /\ Issued'
  BY QuietKeeps, MergeKeeps, CycleIssued DEF TypeInv, Exchange, Cycle
<1>2. Zero \in Hlcs /\ DOMAIN cs = Devices /\ Peers(d) \subseteq Devices
  BY MeshAssumption DEF Zero, Hlcs, Stamps, TypeInv, Inv, Types, Peers
<1>3. UNCHANGED <<floor, pushed, pc>> /\ CountTypes'
  BY DEF Exchange, Ask, Unanswered, Send, MergePulled, local, count, TypeInv, CountTypes
<1>4. CASE MergePulled(d)
  <2>1. pc[d] = "pull" /\ cs[d] # NoSet /\ cs' = [cs EXCEPT ![d] = NoSet] /\ delivered' = delivered
    BY <1>4 DEF MergePulled, Round
  <2>2. cs[d].wm \in Hlcs
    BY <2>1 DEF TypeInv, SetTypes
  <2>3. \/ UNCHANGED <<walk, todo>>
        \/ /\ walk' = [walk EXCEPT ![d] = cs[d].wm]
           /\ todo' = [todo EXCEPT ![d] = Peers(d)]
    BY <1>4 DEF MergePulled, Round
  <2>4. CycleTypes'
    BY <1>2, <1>3, <2>1, <2>2, <2>3 DEF TypeInv, CycleTypes
  <2>5. SetTypes'
    BY <1>2, <2>1 DEF TypeInv, SetTypes
  <2>6. DeliveredHasSet'
    BY <1>2, <1>3, <2>1 DEF TypeInv, DeliveredHasSet
  <2> QED
    BY <1>1, <1>3, <2>4, <2>5, <2>6 DEF TypeInv
<1>5. ASSUME NEW e \in Peers(d), Ask(d, e) PROVE TypeInv'
  <2> DEFINE c == Extracted(e, [at |-> walk[d].at, dev |-> d], Devices)
  <2>1. c.from \in Devices /\ c.wm \in Hlcs
    BY ExtractedTypes, <1>2 DEF TypeInv
  <2>2. /\ pc[d] = "pull" /\ todo' = [todo EXCEPT ![d] = @ \ {e}]
        /\ cs' = cs \/ cs' = [cs EXCEPT ![d] = cs[d]] \/ cs' = [cs EXCEPT ![d] = c]
        /\ UNCHANGED <<walk, delivered>>
    BY <1>5 DEF Ask, Lowest
  <2> HIDE DEF c
  <2>3. CycleTypes'
    BY <1>3, <2>2 DEF TypeInv, CycleTypes
  <2>4. SetTypes'
    BY <1>2, <2>1, <2>2 DEF TypeInv, SetTypes
  <2>5. DeliveredHasSet'
    BY <1>2, <1>3, <2>2 DEF TypeInv, DeliveredHasSet
  <2> QED
    BY <1>1, <1>3, <2>3, <2>4, <2>5 DEF TypeInv
<1>6. ASSUME NEW e \in Peers(d), Unanswered(d, e) \/ Send(d, e) PROVE TypeInv'
  <2>1. /\ todo' = [todo EXCEPT ![d] = @ \ {e}] /\ UNCHANGED <<walk, cs>>
        /\ \/ delivered' = delivered
           \/ /\ pc[d] = "push" /\ cs[d] # NoSet
              /\ \E ok \in BOOLEAN : delivered' = [delivered EXCEPT ![d] = @ \/ ok]
    BY <1>6 DEF Unanswered, Send
  <2>2. delivered' \in [Devices -> BOOLEAN] /\ DeliveredHasSet'
    BY <1>3, <2>1 DEF TypeInv, CycleTypes, DeliveredHasSet
  <2>3. CycleTypes'
    BY <1>3, <2>1, <2>2 DEF TypeInv, CycleTypes
  <2>4. SetTypes'
    BY <2>1 DEF TypeInv, SetTypes
  <2> QED
    BY <1>1, <1>3, <2>2, <2>3, <2>4 DEF TypeInv
<1> QED
  BY <1>4, <1>5, <1>6 DEF Exchange

\* Types of the mesh: in particular a changeset's watermark is a proper stamp whatever
\* rows and tombstones it was taken from, and so are the cursors of a cycle and the push
\* watermark it keeps (compute_max_hlc, the last_push_watermark of run_cycle).
THEOREM TypeCorrect == Spec => []TypeOK
<1>1. TypeInv /\ [Next]_vars => TypeInv'
  <2> SUFFICES ASSUME TypeInv, [Next]_vars PROVE TypeInv'
    OBVIOUS
  <2>1. CASE UNCHANGED vars
    <3>1. Inv' /\ Issued'
      BY <2>1, StepKeeps, IssuedStep DEF TypeInv
    <3> QED
      BY <2>1, <3>1 DEF vars, local, cycle, count, TypeInv, CycleTypes, SetTypes,
                        DeliveredHasSet, CountTypes
  <2> QED
    BY <2>1, WriteTypes, OwnTypes, ExchangeTypes DEF Next, Cycle
<1> QED
  BY <1>1, InitTypes, TypeInvIsTypeOK, PTL DEF Spec
=============================================================================

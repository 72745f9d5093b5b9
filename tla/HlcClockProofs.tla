--------------------------- MODULE HlcClockProofs ---------------------------
(***************************************************************************)
(* Proofs about the persistent clock, for every counter width, drift bound *)
(* and size of the store.                                                  *)
(***************************************************************************)
EXTENDS HlcClock, TLAPS

\* Every stamp the order relates lies in Stamp, so the order is transitive.
LEMMA StampLETransitive ==
    ASSUME NEW a \in Stamp, NEW b \in Stamp, NEW c \in Stamp,
           StampLE(a, b), StampLE(b, c)
    PROVE  StampLE(a, c)
BY CtrMaxAssumption DEF Stamp, StampLE

\* HlcClock::next returns a stamp strictly above the floor it read, also when
\* the counter is saturated and when the wall clock lags behind the floor.
LEMMA NextStampRises ==
    ASSUME NEW f \in Stamp, NEW t \in Nat
    PROVE  /\ NextStamp(f, t) \in Stamp
           /\ StampLT(f, NextStamp(f, t))
BY CtrMaxAssumption DEF Stamp, StampLT, NextStamp

\* The maximum taken by seed_to_floor is one of its arguments and above both.
LEMMA StampMaxIsUpperBound ==
    ASSUME NEW a \in Stamp, NEW b \in Stamp
    PROVE  /\ StampMax(a, b) \in Stamp
           /\ StampLE(a, StampMax(a, b))
           /\ StampLE(b, StampMax(a, b))
BY CtrMaxAssumption DEF Stamp, StampLT, StampLE, StampMax

LEMMA StampLTWeakens ==
    ASSUME NEW a \in Stamp, NEW b \in Stamp, StampLT(a, b)
    PROVE  StampLE(a, b)
BY CtrMaxAssumption DEF Stamp, StampLT, StampLE

LEMMA StampLEReflexive ==
    ASSUME NEW a \in Stamp
    PROVE  StampLE(a, a)
BY CtrMaxAssumption DEF Stamp, StampLE

LEMMA ZeroIsStamp == ZERO \in Stamp /\ StampLE(ZERO, ZERO)
BY CtrMaxAssumption DEF Stamp, ZERO, StampLE

\* seed_from_db takes its floor from stamps in the tables or the retained
\* anchor: the new floor is a stamp, above the old floor, the anchor and every
\* local row.
LEMMA RestartFloor ==
    ASSUME TypeOK, Restart
    PROVE  /\ floor' \in Stamp
           /\ StampLE(floor, floor')
           /\ StampLE(anchor, floor')
<1>1. PICK top \in mine \cup theirs \cup {ZERO} :
         floor' = StampMax(floor, StampMax(top, anchor))
  BY DEF Restart
<1>2. top \in Stamp
  BY <1>1, ZeroIsStamp DEF TypeOK
<1>3. /\ StampMax(top, anchor) \in Stamp
      /\ StampLE(anchor, StampMax(top, anchor))
  BY <1>2, StampMaxIsUpperBound DEF TypeOK
<1>4. /\ floor' \in Stamp
      /\ StampLE(floor, floor')
      /\ StampLE(StampMax(top, anchor), floor')
  BY <1>1, <1>3, StampMaxIsUpperBound DEF TypeOK
<1> QED
  BY <1>3, <1>4, StampLETransitive DEF TypeOK

\* The invariant that is inductive: types, and the two facts about the floor.
ClockInv == TypeOK /\ FloorDominatesLocalRows /\ SeededFloorCoversAnchor

LEMMA ClockInvInit == Init => ClockInv
BY ZeroIsStamp
   DEF Init, ClockInv, TypeOK, FloorDominatesLocalRows, SeededFloorCoversAnchor

LEMMA ClockInvStep == ClockInv /\ [Next]_vars => ClockInv'
<1> SUFFICES ASSUME ClockInv, [Next]_vars
             PROVE  ClockInv'
  OBVIOUS
<1> USE DEF ClockInv
<1>0. now \in Nat
  BY ClockAssumption DEF TypeOK, Walls
<1>1. CASE UNCHANGED vars
  BY <1>1 DEF vars, TypeOK, FloorDominatesLocalRows, SeededFloorCoversAnchor
<1>2. CASE WallClock
  BY <1>2 DEF WallClock, TypeOK, FloorDominatesLocalRows, SeededFloorCoversAnchor
<1>3. CASE LocalWrite
  <2>1. /\ floor' \in Stamp
        /\ StampLE(floor, floor')
    BY <1>0, <1>3, NextStampRises, StampLTWeakens DEF LocalWrite, TypeOK
  <2>2. mine' = mine \cup {floor'}
    BY <1>3 DEF LocalWrite
  <2>3. TypeOK'
    BY <1>3, <2>1, <2>2 DEF LocalWrite, TypeOK
  <2>4. FloorDominatesLocalRows'
    <3> SUFFICES ASSUME NEW h \in mine'
                 PROVE  StampLE(h, floor')
      BY DEF FloorDominatesLocalRows
    <3>1. CASE h \in mine
      BY <3>1, <2>1, StampLETransitive DEF TypeOK, FloorDominatesLocalRows
    <3>2. CASE h = floor'
      BY <3>2, <2>1, StampLEReflexive
    <3> QED
      BY <3>1, <3>2, <2>2
  <2>5. SeededFloorCoversAnchor'
    <3>1. /\ anchor' = anchor
          /\ wiped' = wiped
      BY <1>3 DEF LocalWrite
    <3> QED
      BY <3>1, <2>1, StampLETransitive DEF TypeOK, SeededFloorCoversAnchor
  <2> QED
    BY <2>3, <2>4, <2>5
<1>4. CASE \E h \in PeerStamps : MergePeerRow(h)
  <2>1. PICK h \in PeerStamps : MergePeerRow(h)
    BY <1>4
  <2>2. h \in Stamp
    BY ClockAssumption DEF PeerStamps, Walls, Stamp
  <2> QED
    BY <2>1, <2>2 DEF MergePeerRow, TypeOK, FloorDominatesLocalRows, SeededFloorCoversAnchor
<1>5. CASE DropRow
  BY <1>5 DEF DropRow, TypeOK, FloorDominatesLocalRows, SeededFloorCoversAnchor
<1>6. CASE Erase
  <2>1. /\ anchor' \in Stamp
        /\ floor' \in Stamp
    BY <1>0, <1>6, NextStampRises, ZeroIsStamp DEF Erase, TypeOK
  <2> QED
    BY <1>6, <2>1 DEF Erase, TypeOK, FloorDominatesLocalRows, SeededFloorCoversAnchor
<1>7. CASE Restart
  <2>1. /\ floor' \in Stamp
        /\ StampLE(floor, floor')
        /\ StampLE(anchor, floor')
    BY <1>7, RestartFloor
  <2>2. UNCHANGED <<now, anchor, mine, theirs>> /\ wiped' = FALSE
    BY <1>7 DEF Restart
  <2>3. TypeOK'
    BY <2>1, <2>2 DEF TypeOK
  <2>4. FloorDominatesLocalRows'
    BY <2>1, <2>2, StampLETransitive DEF TypeOK, FloorDominatesLocalRows
  <2> QED
    BY <2>1, <2>2, <2>3, <2>4 DEF SeededFloorCoversAnchor
<1> QED
  BY <1>1, <1>2, <1>3, <1>4, <1>5, <1>6, <1>7 DEF Next

\* Whatever sequence of writes, merges, erasures, clock steps and restarts: no
\* local row is above the durable floor, and a seeded floor is at or above the
\* retained erasure anchor.
THEOREM ClockInvariant == Spec => []ClockInv
BY ClockInvInit, ClockInvStep, PTL DEF Spec

\* The clock keeps its types: floor and anchor are stamps, the counter within its width.
THEOREM TypeCorrect == Spec => []TypeOK
BY ClockInvariant, PTL DEF ClockInv

\* No local row is ever above the durable floor of HlcClock.
THEOREM FloorDominates == Spec => []FloorDominatesLocalRows
BY ClockInvariant, PTL DEF ClockInv

\* After seed_from_db the floor covers the retained erasure anchor.
THEOREM SeededFloor == Spec => []SeededFloorCoversAnchor
BY ClockInvariant, PTL DEF ClockInv

\* Only an erasure lowers the floor: HlcClock::next and seed_to_floor raise it.
LEMMA FloorStep ==
    ClockInv /\ [Next]_vars =>
        [floor' # floor => StampLT(floor, floor') \/ (wiped' /\ floor' = ZERO)]_vars
<1> SUFFICES ASSUME ClockInv, Next, floor' # floor
             PROVE  StampLT(floor, floor') \/ (wiped' /\ floor' = ZERO)
  BY DEF vars
<1> USE DEF ClockInv
<1>1. CASE LocalWrite
  BY <1>1, NextStampRises, ClockAssumption DEF LocalWrite, TypeOK, Walls
<1>2. CASE Erase
  BY <1>2 DEF Erase
<1>3. CASE Restart
  <2>1. /\ floor' \in Stamp
        /\ StampLE(floor, floor')
    BY <1>3, RestartFloor
  <2> QED
    BY <2>1, CtrMaxAssumption DEF TypeOK, Stamp, StampLE, StampLT
<1> QED
  BY <1>1, <1>2, <1>3 DEF Next, WallClock, MergePeerRow, DropRow

\* The floor only rises, except when an erasure wipes it.
THEOREM FloorRises == Spec => FloorOnlyRisesExceptErase
BY ClockInvariant, FloorStep, PTL DEF Spec, FloorOnlyRisesExceptErase
=============================================================================

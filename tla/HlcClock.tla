------------------------------ MODULE HlcClock ------------------------------
(***************************************************************************)
(* The persistent local clock of one device: every local write to a synced *)
(* table is stamped over the durable floor (table hlc_clock), an erasure   *)
(* stamps its anchor and then wipes the floor with the other tables, and a *)
(* restart seeds the floor again (post_migration_setup -> seed_from_db).   *)
(*                                                                         *)
(* The merger writes peers' stamps into the tables without touching the    *)
(* clock, and the operating system's clock may be stepped either way.      *)
(***************************************************************************)
EXTENDS Hlc, FiniteSets

CONSTANTS MaxWall,   \* bound: the wall clock and peers' stamps stay below it
          MaxRows,   \* bound: rows of each kind alive at once
          Drift      \* MAX_CLOCK_DRIFT_MS, scaled to the bound

ASSUME ClockAssumption == MaxWall \in Nat \ {0} /\ MaxRows \in Nat /\ Drift \in Nat

VARIABLES
    now,     \* current_time_ms()
    floor,   \* hlc_clock(last_wall_ms, last_counter); ZERO when the row is absent
    anchor,  \* app_meta["sync.erasure_hlc"]; ZERO when the key is absent
    mine,    \* stamps of the local-origin rows in the synced tables
    theirs,  \* stamps of the peer-origin rows in the synced tables
    wiped    \* history: an erasure wiped the floor since the process started

vars == <<now, floor, anchor, mine, theirs, wiped>>

Walls == 1 .. MaxWall

\* The stamps a peer's row may carry within the bounds.
PeerStamps == Walls \X (0 .. CtrMax)

TypeOK == /\ now \in Walls
          /\ floor \in Stamp
          /\ anchor \in Stamp
          /\ mine \in SUBSET Stamp
          /\ theirs \in SUBSET Stamp
          /\ wiped \in BOOLEAN

Init == /\ now \in Walls
        /\ floor = ZERO
        /\ anchor = ZERO
        /\ mine = {}
        /\ theirs = {}
        /\ wiped = FALSE

\* External: NTP, sleep or the user steps the operating system's clock.
WallClock == /\ now' \in Walls
             /\ UNCHANGED <<floor, anchor, mine, theirs, wiped>>

\* A row write through the funnel: stamp, then insert, in one transaction.
LocalWrite == LET h == NextStamp(floor, now)
              IN  /\ h[1] <= MaxWall
                  /\ Cardinality(mine) < MaxRows
                  /\ floor' = h
                  /\ mine' = mine \cup {h}
                  /\ UNCHANGED <<now, anchor, theirs, wiped>>

\* The merger inserts a peer's row under the peer's own stamp; the clock is
\* not touched.
MergePeerRow(h) == /\ WithinDrift(h, now, Drift)
                   /\ Cardinality(theirs) < MaxRows
                   /\ theirs' = theirs \cup {h}
                   /\ UNCHANGED <<now, floor, anchor, mine, wiped>>

\* Retention and user deletions remove rows and leave the clock alone.
DropRow == /\ \/ \E h \in mine : mine' = mine \ {h} /\ UNCHANGED theirs
              \/ \E h \in theirs : theirs' = theirs \ {h} /\ UNCHANGED mine
           /\ UNCHANGED <<now, floor, anchor, wiped>>

\* delete_all_data_inner: tick for the anchor, persist it in the retained
\* table, wipe the synced tables and hlc_clock, all in one transaction.
Erase == LET e == NextStamp(floor, now)
         IN  /\ e[1] <= MaxWall
             /\ anchor' = e
             /\ floor' = ZERO
             /\ mine' = {}
             /\ theirs' = {}
             /\ wiped' = TRUE
             /\ UNCHANGED now

\* s is the largest of the stamps in S, ZERO when there is none.
IsTop(s, S) == /\ s \in S \cup {ZERO}
               /\ \A h \in S : StampLE(h, s)

\* Mutant of Restart: the retained anchor is left out of the seed.
RestartForgetsAnchor == /\ \E top \in mine \cup theirs \cup {ZERO} :
                             /\ IsTop(top, mine \cup theirs)
                             /\ floor' = StampMax(floor, top)
                        /\ wiped' = FALSE
                        /\ UNCHANGED <<now, anchor, mine, theirs>>

\* Mutant of Restart: the seed replaces the floor instead of raising it.
RestartLowersFloor == /\ \E top \in mine \cup theirs \cup {ZERO} :
                           /\ IsTop(top, mine \cup theirs)
                           /\ floor' = StampMax(top, anchor)
                      /\ wiped' = FALSE
                      /\ UNCHANGED <<now, anchor, mine, theirs>>

\* Process restart: seed_from_db raises the floor to the largest stamp of the
\* synced tables (peers' rows included) and of the retained anchor.
Restart == /\ \E top \in mine \cup theirs \cup {ZERO} :
                /\ IsTop(top, mine \cup theirs)
                /\ floor' = StampMax(floor, StampMax(top, anchor))
           /\ wiped' = FALSE
           /\ UNCHANGED <<now, anchor, mine, theirs>>

Next == \/ WallClock
        \/ LocalWrite
        \/ \E h \in PeerStamps : MergePeerRow(h)
        \/ DropRow
        \/ Erase
        \/ Restart

Spec == Init /\ [][Next]_vars

-----------------------------------------------------------------------------
\* A sequence of writes, erasures, clock steps and restarts never leaves a
\* local row above the durable floor: the next stamp of HlcClock::next would
\* otherwise repeat or undercut a row that peers already hold.
FloorDominatesLocalRows == \A h \in mine : StampLE(h, floor)

\* Once seed_from_db has run after an erasure, the floor is at or above the
\* retained anchor, whatever the wall clock did in between: a stamp issued from
\* then on cannot be suppressed by the erasure's own tombstones.
SeededFloorCoversAnchor == ~wiped => StampLE(anchor, floor)

\* The stamp HlcClock::next issues is above every local row alive and, unless
\* an erasure wiped the floor in this session, above every stamp the floor
\* recorded: only an erasure may lower the floor.
FloorOnlyRisesExceptErase ==
    [][floor' # floor => StampLT(floor, floor') \/ (wiped' /\ floor' = ZERO)]_vars
=============================================================================

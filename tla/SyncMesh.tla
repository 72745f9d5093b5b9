------------------------------ MODULE SyncMesh ------------------------------
(***************************************************************************)
(* The data plane of cross-device sync between consenting LAN peers: the   *)
(* rows and tombstones each device keeps, the local writers that stamp     *)
(* them, and run_cycle, which pulls from every peer, merges, and pushes.   *)
(* Withdrawal and the DeletionEvent are in ErasurePropagation.             *)
(*                                                                         *)
(* A suggestion has a status that rises, until it is saved anew, and is    *)
(* merged by status and then by stamp; an override is append-only.  They   *)
(* stand for the last-write-wins and the append-only tables.  A stamp      *)
(* (wall, counter) is one number; clocks are apart by less than the drift  *)
(* bound, so that a device's next stamp is any one above its floor.  The   *)
(* device id, ordered like the number that stands for it, breaks ties; 0   *)
(* is the empty id.                                                        *)
(***************************************************************************)
EXTENDS Naturals, FiniteSets, FiniteSetsExt

CONSTANTS Devices,      \* device ids
          Suggestions, Overrides,   \* primary keys of the two tables
          ServerKeys,   \* the suggestions whose source is LLM_SERVER
          Marks,        \* the marks the instance uses: 1 shown, 2 dismissed, 3 acted
          NoRow, NoTomb, NoSet,     \* no row, tombstone, changeset
          MaxStamp,     \* bound: stamps
          MaxWrites,    \* bound: rows written or marked
          MaxDeletes,   \* bound: retention deletes and deletions by the user
          MaxRestarts,  \* bound: restarts
          MaxActive     \* bound: cycles under way at the same time

Keys     == Suggestions \cup Overrides
Blank    == 0
Statuses == 0 .. 3        \* presence_rank: none, shown, dismissed, acted
Stamps   == 0 .. MaxStamp
Rows     == [at : Stamps, org : Devices \cup {Blank}, st : Statuses]
Tombs    == [at : Stamps, org : Devices]
Hlcs     == [at : Stamps, dev : Devices \cup {Blank}]

ASSUME MeshAssumption ==
    /\ Devices \subseteq Nat \ {0}
    /\ Suggestions \cap Overrides = {} /\ ServerKeys \subseteq Suggestions
    /\ Marks \subseteq Statuses \ {0}
    /\ NoRow \notin Rows /\ NoTomb \notin Tombs
    /\ {MaxStamp, MaxWrites, MaxDeletes, MaxRestarts, MaxActive} \subseteq Nat

\* Pairing adds one device at a time, so that an extraction has a highest stamp.
ASSUME PairingAssumption == IsFiniteSet(Devices)

VARIABLES row,        \* row[d][k]: what device d stores under k
          tomb,       \* tomb[d][k]: d's sync_tombstones
          floor,      \* hlc_clock: the last stamp d issued
          pushed,     \* last_push_watermark
          pc,         \* where d's run_cycle is
          walk,       \* pull_watermark
          todo,       \* peers that pull or push has still to try
          cs,         \* the changeset d pulled last, or pushes
          delivered,  \* the push reached a peer
          queued,     \* queued[d]: suggestions in memory, waiting or snoozed
          authored,   \* keys that were ever written
          writes, deletes, restarts,   \* how many there were
          erased      \* history: the stamp of d's own tombstone for an override, 0: none

local == <<row, tomb, floor>>
cycle == <<pc, walk, todo, cs, delivered>>
count == <<queued, authored, writes, deletes, restarts, erased>>
vars  == <<local, pushed, cycle, count>>

Zero == [at |-> 0, dev |-> Blank]

\* Hlc::is_after, and the WHERE of query_table_changes: the device breaks a tie.
After(a, b) == a.at > b.at \/ (a.at = b.at /\ a.dev > b.dev)

HlcOf(r) == [at |-> r.at, dev |-> r.org]

Init == /\ row = [d \in Devices |-> [k \in Keys |-> NoRow]]
        /\ tomb = [d \in Devices |-> [k \in Keys |-> NoTomb]]
        /\ floor = [d \in Devices |-> 0]
        /\ pushed = [d \in Devices |-> Zero]
        /\ pc = [d \in Devices |-> "idle"]
        /\ walk = [d \in Devices |-> Zero]
        /\ todo = [d \in Devices |-> {}]
        /\ cs = [d \in Devices |-> NoSet]
        /\ delivered = [d \in Devices |-> FALSE]
        /\ queued = [d \in Devices |-> {}]
        /\ authored = {} /\ writes = 0 /\ deletes = 0 /\ restarts = 0
        /\ erased = [d \in Devices |-> [k \in Overrides |-> 0]]

-----------------------------------------------------------------------------
(* Local writers, each under the device's write lock                       *)

\* HlcClock::next: above the floor; the stamps of peers' rows do not raise it.
Stamped(d, s) == s \in floor[d] + 1 .. MaxStamp /\ floor' = [floor EXCEPT ![d] = s]

Put(d, k, r) == row' = [row EXCEPT ![d][k] = r]

Count == writes < MaxWrites /\ writes' = writes + 1

\* save_suggestion of a local source, which also enters the queue, and save_override: the
\* key is a new UUID.
Author(d, k) ==
    /\ Count
    /\ k \notin authored \cup ServerKeys /\ authored' = authored \cup {k}
    /\ queued' = [queued EXCEPT ![d] = @ \cup ({k} \cap Suggestions)]
    /\ \E s \in Stamps : Stamped(d, s) /\ Put(d, k, [at |-> s, org |-> d, st |-> 0])
    /\ UNCHANGED <<tomb, pushed, cycle, deletes, restarts, erased>>

\* save_suggestion_with_state, an INSERT OR REPLACE with a fresh stamp and no status: the
\* shutdown saves what is in memory, whatever has become of the row since, and a
\* suggestion that is snoozed from storage is written again as it was read there.
Resave(d, k) ==
    /\ Count
    /\ k \in Suggestions \ ServerKeys
    /\ k \in queued[d] \/ row[d][k] # NoRow
    /\ \E s \in Stamps : Stamped(d, s) /\ Put(d, k, [at |-> s, org |-> d, st |-> 0])
    /\ UNCHANGED <<tomb, pushed, cycle, queued, authored, deletes, restarts, erased>>

\* suggestion_stamp leaves a server's suggestion at (0, 0, ''); INSERT OR REPLACE.
SaveServer(d, k) ==
    /\ Count
    /\ k \in ServerKeys
    /\ Put(d, k, [at |-> 0, org |-> Blank, st |-> 0])
    /\ UNCHANGED <<tomb, floor, pushed, cycle, queued, authored, deletes, restarts, erased>>

\* A suggestion is shown, dismissed or acted on: the clock ticks, but a server's row keeps
\* its stamp.  The answer to a suggestion in the queue takes it out, when it also tells
\* the manager.
Mark(d, k, st) ==
    /\ Count
    /\ k \in Suggestions /\ row[d][k] # NoRow
    /\ st = 1 \/ row[d][k].st # st
    /\ LET r == row[d][k]
           m == IF st > r.st THEN st ELSE r.st
       IN  \E s \in Stamps :
              /\ Stamped(d, s)
              /\ Put(d, k, IF k \in ServerKeys THEN [r EXCEPT !.st = m]
                           ELSE [at |-> s, org |-> d, st |-> m])
    /\ \/ UNCHANGED queued
       \/ st > 1 /\ queued' = [queued EXCEPT ![d] = @ \ {k}]
    /\ UNCHANGED <<tomb, pushed, cycle, authored, deletes, restarts, erased>>

\* ON CONFLICT ... DO UPDATE ... WHERE the stamp is higher.
KeepHigher(old, new) == IF old = NoTomb THEN new
                        ELSE IF new.at > old.at THEN new ELSE old

Delete(d, k, t) == /\ Put(d, k, NoRow)
                   /\ tomb' = [tomb EXCEPT ![d][k] = KeepHigher(@, t)]
                   /\ erased' = IF k \in Overrides
                                THEN [erased EXCEPT ![d][k] = KeepHigher(tomb[d][k], t).at]
                                ELSE erased

\* Mutant: retention leaves a tombstone for rows of any origin.
ExpireAnyOrigin(d, k) ==
    /\ row[d][k] # NoRow
    /\ deletes < MaxDeletes /\ deletes' = deletes + 1
    /\ Delete(d, k, [at |-> row[d][k].at, org |-> row[d][k].org])
    /\ UNCHANGED <<floor, pushed, cycle, queued, authored, writes, restarts>>

\* Retention deletes an old row: a tombstone at the row's own stamp if the device is its
\* origin, a plain DELETE otherwise.
Expire(d, k) ==
    /\ row[d][k] # NoRow
    /\ deletes < MaxDeletes /\ deletes' = deletes + 1
    /\ \/ row[d][k].org = d /\ Delete(d, k, [at |-> row[d][k].at, org |-> d])
       \/ row[d][k].org # d /\ Put(d, k, NoRow) /\ UNCHANGED <<tomb, erased>>
    /\ UNCHANGED <<floor, pushed, cycle, queued, authored, writes, restarts>>

\* The user deletes an override, whoever made it.
DeleteOverride(d, k) ==
    /\ k \in Overrides /\ row[d][k] # NoRow
    /\ deletes < MaxDeletes /\ deletes' = deletes + 1
    /\ \E s \in Stamps :
          Stamped(d, s) /\ Delete(d, k, [at |-> s, org |-> row[d][k].org])
    /\ UNCHANGED <<pushed, cycle, queued, authored, writes, restarts>>

\* gc_sync_tombstones, 90 days or more later.
Gc(d, k) ==
    /\ tomb[d][k] # NoTomb
    /\ tomb' = [tomb EXCEPT ![d][k] = NoTomb]
    /\ erased' = IF k \in Overrides THEN [erased EXCEPT ![d][k] = 0] ELSE erased
    /\ UNCHANGED <<row, floor, pushed, cycle, queued, authored, writes, deletes, restarts>>

-----------------------------------------------------------------------------
(* The extractor                                                           *)

\* backfill_origin_device_id, before every extraction.
Backfill(d) == [k \in Keys |-> IF row[d][k] # NoRow /\ row[d][k].org = Blank
                               THEN [row[d][k] EXCEPT !.org = d] ELSE row[d][k]]

\* compute_max_hlc: over all that the device has, whatever is sent.
MaxHlc(rs, ts) ==
    LET all == {Zero} \cup {HlcOf(rs[k]) : k \in {j \in Keys : rs[j] # NoRow}}
                      \cup {HlcOf(ts[k]) : k \in {j \in Keys : ts[j] # NoTomb}}
    IN  CHOOSE h \in all : \A g \in all : ~After(g, h)

\* extract_changeset_blocking: rows of every origin for a pull, the device's own for a
\* push, and every tombstone.
Extracted(d, since, origins) ==
    LET rs == Backfill(d)
        ts == tomb[d]
    IN  [from |-> d,
         rows |-> [k \in {j \in Keys : /\ rs[j] # NoRow /\ rs[j].org \in origins
                                       /\ After(HlcOf(rs[j]), since)} |-> rs[k]],
         tombs |-> [k \in {j \in Keys : ts[j] # NoTomb /\ After(HlcOf(ts[j]), since)} |-> ts[k]],
         wm |-> MaxHlc(rs, ts)]

IsEmpty(c) == DOMAIN c.rows = {} /\ DOMAIN c.tombs = {}

-----------------------------------------------------------------------------
(* The merger: apply_changes of c on device d, one transaction             *)

\* A tombstone deletes the row of its origin, and is recorded; a device takes none for
\* rows of its own.
Taken(d, c) == {k \in DOMAIN c.tombs : c.tombs[k].org # d}

\* Mutant: a tombstone deletes older rows only, and retention's has the stamp of its row.
RowsLeftUnlessOlder(d, c) ==
    [k \in Keys |-> IF /\ k \in Taken(d, c) /\ row[d][k] # NoRow
                       /\ row[d][k].org = c.tombs[k].org /\ row[d][k].at < c.tombs[k].at
                    THEN NoRow ELSE row[d][k]]

RowsLeft(d, c) ==
    [k \in Keys |-> IF k \in Taken(d, c) /\ row[d][k] # NoRow /\ row[d][k].org = c.tombs[k].org
                    THEN NoRow ELSE row[d][k]]

TombsKept(d, c) ==
    [k \in Keys |-> IF k \in Taken(d, c) THEN KeepHigher(tomb[d][k], c.tombs[k])
                    ELSE tomb[d][k]]

\* Mutant: a tombstone lets a row of its own stamp pass.
SuppressedBelow(t, r) == t # NoTomb /\ r.at < t.at

\* tombstone_suppresses
Suppressed(t, r) == t # NoTomb /\ r.at <= t.at

\* Mutant: the newer of two suggestions wins, whatever was done with the other.
MergedByStampOnly(k, mine, theirs) ==
    IF mine = NoRow THEN theirs
    ELSE IF k \in Suggestions /\ After(HlcOf(theirs), HlcOf(mine)) THEN theirs
    ELSE mine

\* merge_append_only and merge_last_write_wins
Merged(k, mine, theirs) ==
    IF mine = NoRow THEN theirs
    ELSE IF k \in Suggestions /\ \/ theirs.st > mine.st
                                 \/ theirs.st = mine.st /\ After(HlcOf(theirs), HlcOf(mine))
    THEN theirs
    ELSE mine

\* A row above its tombstone clears it before it is compared with the local row.
Apply(d, c) ==
    LET left == RowsLeft(d, c)
        kept == TombsKept(d, c)
        in   == {k \in DOMAIN c.rows : ~Suppressed(kept[k], c.rows[k])}
    IN  /\ row' = [row EXCEPT ![d] = [k \in Keys |-> IF k \in in
                                        THEN Merged(k, left[k], c.rows[k]) ELSE left[k]]]
        /\ tomb' = [tomb EXCEPT ![d] = [k \in Keys |-> IF k \in in THEN NoTomb ELSE kept[k]]]

-----------------------------------------------------------------------------
(* run_cycle: the pull phase                                               *)

Peers(d) == Devices \ {d}

\* One round: every peer is asked for what it has beyond the watermark.
Round(d, since) == /\ walk' = [walk EXCEPT ![d] = since]
                   /\ todo' = [todo EXCEPT ![d] = Peers(d)]
                   /\ cs' = [cs EXCEPT ![d] = NoSet]

\* Mutant: the pull starts at the device's own highest stamp.
StartCycleAtLocalMax(d) ==
    /\ pc[d] = "idle" /\ pc' = [pc EXCEPT ![d] = "pull"]
    /\ Cardinality({e \in Devices : pc[e] # "idle"}) < MaxActive
    /\ Round(d, MaxHlc(row[d], tomb[d]))
    /\ UNCHANGED <<local, pushed, delivered, count>>

StartCycle(d) ==
    /\ pc[d] = "idle" /\ pc' = [pc EXCEPT ![d] = "pull"]
    /\ Cardinality({e \in Devices : pc[e] # "idle"}) < MaxActive
    /\ Round(d, Zero)
    /\ UNCHANGED <<local, pushed, delivered, count>>

\* keep_lowest_watermark_candidate
Lowest(best, c) == IF best = NoSet \/ After(best.wm, c.wm) THEN c ELSE best

\* pull_from_peer and the peer's handle_pull; the request names the puller as the
\* device of the watermark.
Ask(d, e) ==
    /\ pc[d] = "pull" /\ e \in todo[d]
    /\ todo' = [todo EXCEPT ![d] = @ \ {e}]
    /\ row' = [row EXCEPT ![e] = Backfill(e)]
    /\ LET c == Extracted(e, [at |-> walk[d].at, dev |-> d], Devices)
       IN  cs' = IF IsEmpty(c) THEN cs ELSE [cs EXCEPT ![d] = Lowest(@, c)]
    /\ UNCHANGED <<tomb, floor, pushed, pc, walk, delivered, count>>

\* The peer is out of reach, or its answer is lost.
Unanswered(d, e) ==
    /\ pc[d] \in {"pull", "push"} /\ e \in todo[d]
    /\ todo' = [todo EXCEPT ![d] = @ \ {e}]
    /\ UNCHANGED <<local, pushed, pc, walk, cs, delivered, count>>

\* The changeset with the lowest watermark is merged and the next round starts there, if
\* that is a step forward.
MergePulled(d) ==
    /\ pc[d] = "pull" /\ todo[d] = {} /\ cs[d] # NoSet
    /\ Apply(d, cs[d])
    /\ IF After(cs[d].wm, walk[d])
       THEN Round(d, cs[d].wm)
       ELSE cs' = [cs EXCEPT ![d] = NoSet] /\ UNCHANGED <<walk, todo>>
    /\ UNCHANGED <<floor, pushed, pc, delivered, count>>

-----------------------------------------------------------------------------
(* run_cycle: the push phase                                               *)

Idle(d) == /\ pc' = [pc EXCEPT ![d] = "idle"]
           /\ walk' = [walk EXCEPT ![d] = Zero]
           /\ todo' = [todo EXCEPT ![d] = {}]
           /\ cs' = [cs EXCEPT ![d] = NoSet]
           /\ delivered' = [delivered EXCEPT ![d] = FALSE]

\* After a round that brought nothing.
Extract(d) ==
    /\ pc[d] = "pull" /\ todo[d] = {} /\ cs[d] = NoSet
    /\ row' = [row EXCEPT ![d] = Backfill(d)]
    /\ LET c == Extracted(d, pushed[d], {d})
       IN  IF IsEmpty(c) THEN Idle(d)
           ELSE /\ pc' = [pc EXCEPT ![d] = "push"]
                /\ todo' = [todo EXCEPT ![d] = Peers(d)]
                /\ cs' = [cs EXCEPT ![d] = c]
                /\ walk' = [walk EXCEPT ![d] = Zero]
                /\ UNCHANGED delivered
    /\ UNCHANGED <<tomb, floor, pushed, count>>

\* push_to_peer and the peer's handle_push, which takes rows of the pusher only; the
\* 200 may be lost.
Send(d, e) ==
    /\ pc[d] = "push" /\ e \in todo[d] /\ cs[d] # NoSet
    /\ todo' = [todo EXCEPT ![d] = @ \ {e}]
    /\ \A k \in DOMAIN cs[d].rows : cs[d].rows[k].org = d
    /\ Apply(e, cs[d])
    /\ \E ok \in BOOLEAN : delivered' = [delivered EXCEPT ![d] = @ \/ ok]
    /\ UNCHANGED <<floor, pushed, pc, walk, cs, count>>

\* The watermark moves when a peer confirmed.
EndPush(d) ==
    /\ pc[d] = "push" /\ todo[d] = {}
    /\ pushed' = IF delivered[d] THEN [pushed EXCEPT ![d] = cs[d].wm] ELSE pushed
    /\ Idle(d)
    /\ UNCHANGED <<local, count>>

\* A store or transport error ends the cycle.
Fail(d) == pc[d] # "idle" /\ Idle(d) /\ UNCHANGED <<local, pushed, count>>

\* The push watermark starts at zero, seed_from_db raises the clock's floor, and the
\* queue is filled from the rows that nobody has dismissed or acted on.
Restart(d) ==
    /\ restarts < MaxRestarts /\ restarts' = restarts + 1
    /\ pushed' = [pushed EXCEPT ![d] = Zero]
    /\ floor' = [floor EXCEPT ![d] =
                   Max({@} \cup {row[d][k].at : k \in {j \in Keys : row[d][j] # NoRow}})]
    /\ queued' = [queued EXCEPT ![d] =
                    {k \in Suggestions \ ServerKeys : row[d][k] # NoRow /\ row[d][k].st < 2}]
    /\ Idle(d)
    /\ UNCHANGED <<row, tomb, authored, writes, deletes, erased>>

-----------------------------------------------------------------------------
Write(d, k) == \/ Author(d, k) \/ Resave(d, k) \/ SaveServer(d, k) \/ \E st \in Marks : Mark(d, k, st)
               \/ Expire(d, k) \/ DeleteOverride(d, k) \/ Gc(d, k)

Exchange(d) == \E e \in Peers(d) : Ask(d, e) \/ Unanswered(d, e) \/ Send(d, e)

Cycle(d) == \/ StartCycle(d) \/ Exchange(d) \/ MergePulled(d) \/ Extract(d)
            \/ EndPush(d) \/ Fail(d)

Next == \E d \in Devices : \/ \E k \in Keys : Write(d, k)
                           \/ Cycle(d) \/ Restart(d)

Spec == Init /\ [][Next]_vars

\* The scheduler starts cycles for ever and a cycle comes to an end; peers and stores
\* answer again and again.
Fairness == \A d \in Devices :
                /\ WF_vars(Cycle(d)) /\ SF_vars(StartCycle(d)) /\ SF_vars(MergePulled(d))
                /\ \A e \in Peers(d) : SF_vars(Ask(d, e))

FairSpec == Spec /\ Fairness

-----------------------------------------------------------------------------
IsSet(c) == /\ c.from \in Devices /\ c.wm \in Hlcs
            /\ DOMAIN c.rows \subseteq Keys /\ \A k \in DOMAIN c.rows : c.rows[k] \in Rows
            /\ DOMAIN c.tombs \subseteq Keys /\ \A k \in DOMAIN c.tombs : c.tombs[k] \in Tombs

TypeOK ==
    /\ row \in [Devices -> [Keys -> Rows \cup {NoRow}]]
    /\ tomb \in [Devices -> [Keys -> Tombs \cup {NoTomb}]]
    /\ floor \in [Devices -> Stamps] /\ pushed \in [Devices -> Hlcs]
    /\ pc \in [Devices -> {"idle", "pull", "push"}]
    /\ walk \in [Devices -> Hlcs] /\ todo \in [Devices -> SUBSET Devices]
    /\ \A d \in Devices : cs[d] = NoSet \/ IsSet(cs[d])
    /\ delivered \in [Devices -> BOOLEAN]
    /\ queued \in [Devices -> SUBSET Suggestions]
    /\ authored \subseteq Keys /\ writes \in 0 .. MaxWrites /\ deletes \in 0 .. MaxDeletes
    /\ restarts \in 0 .. MaxRestarts /\ erased \in [Devices -> [Overrides -> Stamps]]

\* A tombstone never covers a row of its own origin on the same device: what was erased
\* is either gone or was written again with a stamp above the erasure, also when the
\* shutdown saves a suggestion that retention has deleted meanwhile
\* (tombstone_suppresses, apply_tombstone, save_suggestion_with_state).
TombstoneExcludesRow ==
    \A d \in Devices, k \in Keys \ ServerKeys :
        row[d][k] # NoRow /\ tomb[d][k] # NoTomb
        => row[d][k].org # tomb[d][k].org \/ row[d][k].at > tomb[d][k].at

\* An override that a device deleted comes back to it only from a clock that is ahead:
\* its stamp is then above the one of the deletion.
DeletedOverrideIsOlder ==
    \A d \in Devices, k \in Overrides :
        row[d][k] # NoRow => erased[d][k] = 0 \/ row[d][k].at > erased[d][k]

\* Without a writer of its own at work, which takes a fresh stamp, a device lowers no
\* status, unless a changeset says that the row was erased.
StatusStep ==
    \A d \in Devices, k \in Suggestions \ ServerKeys :
        row[d][k] # NoRow /\ row'[d][k] # NoRow /\ floor'[d] = floor[d]
        => \/ row'[d][k].st >= row[d][k].st
           \/ \E e \in Devices : cs[e] # NoSet /\ k \in DOMAIN cs[e].tombs

\* No merge undoes what the user did with a suggestion: a peer's copy never lowers its
\* status, whatever its stamp, a copy that was saved anew without its status included,
\* unless a changeset also says that the row was erased (merge_last_write_wins,
\* sync_merger.rs:580-592).  The device itself lowers it, when it saves it anew.
StatusKept == [][StatusStep]_vars

\* Once nobody writes, the devices agree on every key that has no tombstone.
Agreed == \A k \in Keys \ ServerKeys :
             \/ \E d \in Devices : tomb[d][k] # NoTomb
             \/ \A d, e \in Devices : row[d][k] = row[e][k]

Converges == <>[]Agreed

\* "stamped at a FRESH deletion HLC so it orders above the row and every peer copy"
\* (override_store_impl.rs): an override the user deleted is not there again.
OverrideStaysDeleted ==
    \A d \in Devices, k \in Overrides : erased[d][k] # 0 => row[d][k] = NoRow

\* A server's suggestion "stays at the degenerate (0,0,'') (never propagates)"
\* (unified.rs:49): no changeset carries one.
ServerRowsStayLocal ==
    \A d \in Devices : cs[d] # NoSet => DOMAIN cs[d].rows \cap ServerKeys = {}
=============================================================================

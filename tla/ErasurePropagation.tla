------------------------- MODULE ErasurePropagation -------------------------
(***************************************************************************)
(* How a withdrawal, or the web "Delete all data", reaches the peers:      *)
(* SyncEngine (maekon-core/src/sync_engine.rs), its two callers (the       *)
(* scheduler's loop and the trigger_sync_cycle command), the erasure store *)
(* in app_meta, and the peers' merge of what arrives.                      *)
(*                                                                         *)
(* ConsentManager appears with one action per operation: ConsentErasure    *)
(* shows that its record in memory and on disk change together.            *)
(*                                                                         *)
(* A row of this device is a key and a stamp of its clock, 0 for no row; a *)
(* tombstone is a stamp too.  A wipe takes the next stamp as its anchor    *)
(* and leaves a tombstone with it for every key it erases.  Rows go only   *)
(* with a wipe here; the deletion of single rows and the collection of old *)
(* tombstones are SyncMesh's.                                              *)
(***************************************************************************)
EXTENDS Naturals, FiniteSets

CONSTANTS Peers, Keys,
          Loop, Ipc,    \* the two callers of the engine
          Callers,      \* the callers present: a subset of {Loop, Ipc}
          Nobody,       \* cycle_lock is free
          MaxRevokes,   \* bound: active consents revoked
          MaxWrites,    \* bound: rows written, or written again
          MaxWipes,     \* bound: local wipes
          MaxRestarts,  \* bound: restarts of the process
          StoreMayFail  \* whether a write of app_meta or of the ledger can fail

ASSUME PropagationAssumption ==
    /\ MaxRevokes \in Nat /\ MaxWrites \in Nat /\ MaxWipes \in Nat /\ MaxRestarts \in Nat
    /\ Callers \subseteq {Loop, Ipc} /\ StoreMayFail \in BOOLEAN
    /\ Nobody \notin {Loop, Ipc}

VARIABLES
    consented,  \* cross_device_sync_permitted()
    file,       \* consent.json: [granted, id]
    pendingId,  \* ConsentManager::pending_erasure_id(); 0 for None
    revokes,    \* history: erasure ids handed out
    toWipe,     \* a withdrawal has not reached its Phase-1 yet
    clock,      \* HlcClock: the last stamp
    wipes,      \* history: number of wipes
    anchor,     \* app_meta["sync.erasure_hlc"]: a stamp, 0 when absent
    wipeOf,     \* history: erasure id -> anchor of its wipe, 0 while there is none
    local,      \* key -> stamp of the row
    outbox,     \* key -> stamp in the retained sync_tombstones
    unsent,     \* rows or tombstones above last_push_watermark
    webWiped,   \* a web delete is past its wipe and has not answered yet
    webReq,     \* erasure_requested
    webPushed,  \* deletion_pushed
    stored,     \* app_meta last_pushed_erasure_id; 0 for None
    lastPushed, \* its mirror in memory, last_pushed_erasure_id
    backoff,    \* ErasureBackoff: [id, waiting]
    lock,       \* cycle_lock
    pc, job,    \* caller -> next step, and what it carries across awaits
    peerRows,   \* peer -> key -> stamp of this device's row it holds
    peerTombs,  \* peer -> key -> stamp of the tombstone it recorded
    confirmed,  \* history: ids of the events some peer answered with success
    ledger,     \* egress_ledger: ids of the DeletionEvent rows
    restarts    \* history: number of restarts

consentVars == <<consented, file, pendingId, revokes, toWipe, wipeOf>>
storeVars   == <<clock, wipes, anchor, local, outbox>>
webVars     == <<webWiped, webReq, webPushed>>
gateVars    == <<webWiped, webReq, webPushed, stored, lastPushed, backoff>>
peerVars    == <<peerRows, peerTombs>>
callVars    == <<lock, pc, job>>
vars == <<consented, file, pendingId, revokes, toWipe, wipeOf, clock, wipes, anchor,
          local, outbox, unsent, webWiped, webReq, webPushed, stored, lastPushed, backoff,
          lock, pc, job, peerRows, peerTombs, confirmed, ledger, restarts>>

WebId == MaxRevokes + 1           \* WEB_ERASURE_ID
Ids   == 1 .. WebId
Stamps == 0 .. MaxWrites + MaxWipes
Rows   == [Keys -> Stamps]
NoRows == [k \in Keys |-> 0]

Steps == {"idle", "lock", "decide", "anchor", "push", "record", "persist",
          "mirror", "gate", "extract", "send"}
Jobs  == [id : 0 .. WebId, bound : Stamps, rows : Rows, tombs : Rows]
NoJob == [id |-> 0, bound |-> 0, rows |-> NoRows, tombs |-> NoRows]

FlagTypes    == /\ consented \in BOOLEAN /\ toWipe \in BOOLEAN
                /\ unsent \in BOOLEAN
                /\ webWiped \in BOOLEAN /\ webReq \in BOOLEAN
                /\ webPushed \in BOOLEAN
ConsentTypes == /\ file \in [granted : BOOLEAN, id : 0 .. MaxRevokes]
                /\ pendingId \in 0 .. MaxRevokes /\ revokes \in 0 .. MaxRevokes
                /\ wipeOf \in [1 .. MaxRevokes -> Stamps]
StoreTypes   == /\ clock \in Stamps /\ wipes \in 0 .. MaxWipes /\ anchor \in Stamps
                /\ local \in Rows /\ outbox \in Rows
GateTypes    == /\ stored \in 0 .. MaxRevokes /\ lastPushed \in 0 .. MaxRevokes
                /\ backoff \in [id : 0 .. WebId, waiting : BOOLEAN]
CallTypes    == /\ lock \in Callers \cup {Nobody}
                /\ pc \in [Callers -> Steps] /\ job \in [Callers -> Jobs]
PeerTypes    == peerRows \in [Peers -> Rows] /\ peerTombs \in [Peers -> Rows]

TypeOK == /\ FlagTypes /\ ConsentTypes /\ StoreTypes /\ GateTypes /\ CallTypes
          /\ PeerTypes
          /\ confirmed \in SUBSET Ids /\ ledger \in SUBSET Ids
          /\ restarts \in 0 .. MaxRestarts

\* A paired device with consent and nothing captured yet.
Init ==
    /\ consented = TRUE /\ file = [granted |-> TRUE, id |-> 0]
    /\ pendingId = 0 /\ revokes = 0 /\ toWipe = FALSE
    /\ clock = 0 /\ wipes = 0 /\ anchor = 0 /\ wipeOf = [i \in 1 .. MaxRevokes |-> 0]
    /\ local = NoRows /\ outbox = NoRows /\ unsent = FALSE
    /\ webWiped = FALSE /\ webReq = FALSE /\ webPushed = FALSE
    /\ stored = 0 /\ lastPushed = 0 /\ backoff = [id |-> 0, waiting |-> FALSE]
    /\ lock = Nobody
    /\ pc = [c \in Callers |-> "idle"] /\ job = [c \in Callers |-> NoJob]
    /\ peerRows = [p \in Peers |-> NoRows] /\ peerTombs = [p \in Peers |-> NoRows]
    /\ confirmed = {} /\ ledger = {}
    /\ restarts = 0

-----------------------------------------------------------------------------
(* The user and the local store *)

\* A row is written, or written again, with the next stamp.
WriteRow(k) == /\ consented /\ clock - wipes < MaxWrites
               /\ clock' = clock + 1
               /\ local' = [local EXCEPT ![k] = clock + 1]
               /\ unsent' = TRUE
               /\ UNCHANGED <<consentVars, wipes, anchor, outbox, gateVars, callVars,
                              peerVars, confirmed, ledger, restarts>>

\* revoke_consent: a new id only when an active consent is revoked; the local
\* erasure of withdraw_consent follows.
Revoke == /\ ~toWipe /\ (consented => revokes < MaxRevokes)
          /\ toWipe' = TRUE
          /\ consented' = FALSE
          /\ IF consented
             THEN /\ revokes' = revokes + 1
                  /\ pendingId' = revokes + 1
                  /\ file' = [granted |-> FALSE, id |-> revokes + 1]
             ELSE UNCHANGED <<revokes, pendingId, file>>
          /\ UNCHANGED <<wipeOf, storeVars, unsent, gateVars, callVars, peerVars, confirmed,
                         ledger, restarts>>

\* grant_consent: the pending id stays in memory, the record replaces the file.
Grant == /\ ~consented
         /\ consented' = TRUE
         /\ file' = [granted |-> TRUE, id |-> 0]
         /\ UNCHANGED <<pendingId, revokes, toWipe, wipeOf, storeVars, unsent, gateVars,
                        callVars, peerVars, confirmed, ledger, restarts>>

\* Mutant: a wipe without its tombstone outbox.
WipeTablesNoOutbox == /\ wipes < MaxWipes
                      /\ wipes' = wipes + 1
                      /\ clock' = clock + 1 /\ anchor' = clock + 1
                      /\ unsent' = (unsent \/ local # NoRows)
                      /\ local' = NoRows
                      /\ UNCHANGED outbox

\* delete_all_data: anchor and tombstones are written with the wipe.
WipeTables == /\ wipes < MaxWipes
              /\ wipes' = wipes + 1
              /\ clock' = clock + 1 /\ anchor' = clock + 1
              /\ outbox' = [k \in Keys |-> IF local[k] # 0 THEN clock + 1 ELSE outbox[k]]
              /\ unsent' = (unsent \/ local # NoRows)
              /\ local' = NoRows

\* Phase-1 of a withdrawal.
Wipe == /\ toWipe
        /\ WipeTables
        /\ toWipe' = FALSE
        /\ wipeOf' = [i \in 1 .. MaxRevokes |->
                        IF i <= revokes /\ wipeOf[i] = 0 THEN clock + 1 ELSE wipeOf[i]]
        /\ UNCHANGED <<consented, file, pendingId, revokes, gateVars, callVars,
                       peerVars, confirmed, ledger, restarts>>

\* DataWebService::delete_all_data: the wipe commits first.
WebErase == /\ ~webWiped
            /\ WipeTables
            /\ webWiped' = TRUE
            /\ UNCHANGED <<consentVars, webReq, webPushed, stored, lastPushed, backoff,
                           callVars, peerVars, confirmed, ledger, restarts>>

\* It raises erasure_requested at its end, unless the vault's files could not be
\* erased.
WebRequest == /\ webWiped
              /\ webWiped' = FALSE
              /\ webReq' \in {TRUE, webReq}
              /\ UNCHANGED <<consentVars, storeVars, unsent, webPushed, stored, lastPushed,
                             backoff, callVars, peerVars, confirmed, ledger, restarts>>

-----------------------------------------------------------------------------
(* What a peer does with a changeset: handle_push and apply_changes.  A peer *)
(* whose own funnel is closed skips the merge and answers with success all   *)
(* the same, so who applied a changeset and who confirmed it are two sets.   *)

Later(a, b) == IF a > b THEN a ELSE b

\* handle_deletion_event deletes the rows at or below the bound; without an
\* anchor the bound is "now", above every row.
Hit(p, k, bound) == peerRows[p][k] # 0 /\ (bound = 0 \/ peerRows[p][k] <= bound)

\* Each row it deletes leaves a tombstone with the row's own stamp, or the higher
\* one that is there.
DeliverEvent(bound, applied) ==
    /\ peerRows' = [p \in Peers |-> [k \in Keys |->
                      IF p \in applied /\ Hit(p, k, bound) THEN 0 ELSE peerRows[p][k]]]
    /\ peerTombs' = [p \in Peers |-> [k \in Keys |->
                      IF p \in applied /\ Hit(p, k, bound)
                      THEN Later(peerRows[p][k], peerTombs[p][k]) ELSE peerTombs[p][k]]]

\* Mutant of AfterTomb: the tombstone is recorded, the row stays.
AfterTombKeepsRow(p, k, tomb) ==
    [row |-> peerRows[p][k], tomb |-> Later(tomb, peerTombs[p][k])]

\* apply_tombstone deletes the row whatever its stamp, and keeps the higher
\* tombstone.
AfterTomb(p, k, tomb) ==
    IF tomb = 0 THEN [row |-> peerRows[p][k], tomb |-> peerTombs[p][k]]
    ELSE [row |-> 0, tomb |-> Later(tomb, peerTombs[p][k])]

\* tombstone_suppresses and merge_row: a row above the tombstone clears it and is
\* merged, the later stamp winning; one at or below it is passed over.
AfterRow(r, row) == IF row > r.tomb THEN [row |-> Later(row, r.row), tomb |-> 0] ELSE r

\* apply_changes on a data changeset: all tombstones, then the rows.
DeliverData(rows, tombs, applied) ==
    LET Merged(p, k) == AfterRow(AfterTomb(p, k, tombs[k]), rows[k])
    IN  /\ peerRows' = [p \in Peers |-> [k \in Keys |->
                          IF p \in applied THEN Merged(p, k).row ELSE peerRows[p][k]]]
        /\ peerTombs' = [p \in Peers |-> [k \in Keys |->
                          IF p \in applied THEN Merged(p, k).tomb ELSE peerTombs[p][k]]]

-----------------------------------------------------------------------------
(* The engine.  A step ends at an await or at a lock it releases. *)

\* caller c stops: the cycle lock is released with its guard.
Finish(c) == /\ pc' = [pc EXCEPT ![c] = "idle"]
             /\ job' = [job EXCEPT ![c] = NoJob]
             /\ lock' = IF lock = c THEN Nobody ELSE lock

GoOn(c, step) == /\ pc' = [pc EXCEPT ![c] = step]
                 /\ UNCHANGED lock

\* Mutant: a closed capture gate ends the tick before the erasure is looked at.
LoopTickGated == /\ Loop \in Callers /\ pc[Loop] = "idle"
                 /\ consented
                 /\ GoOn(Loop, "lock")
                 /\ UNCHANGED <<consentVars, storeVars, unsent, gateVars, job, peerVars, confirmed,
                                ledger, restarts>>

\* spawn_cross_device_sync_loop: with the capture gate closed the loop calls
\* propagate_pending_erasure, which takes no lock.  Pause and active hours may
\* close the gate under consent; without consent it is closed.
LoopTick == /\ Loop \in Callers /\ pc[Loop] = "idle"
            /\ \E permitted \in BOOLEAN :
                 /\ permitted => consented
                 /\ GoOn(Loop, IF permitted THEN "lock" ELSE "decide")
            /\ UNCHANGED <<consentVars, storeVars, unsent, gateVars, job, peerVars, confirmed,
                           ledger, restarts>>

\* trigger_sync_cycle (and the cycle the loop runs at shutdown): no capture gate.
IpcStart == /\ Ipc \in Callers /\ pc[Ipc] = "idle"
            /\ GoOn(Ipc, "lock")
            /\ UNCHANGED <<consentVars, storeVars, unsent, gateVars, job, peerVars, confirmed,
                           ledger, restarts>>

\* Mutant: a pending but announced id shadows the web erasure.
DueIdShadowed == IF pendingId # 0
                 THEN IF lastPushed # pendingId THEN pendingId ELSE 0
                 ELSE IF webReq /\ ~webPushed THEN WebId ELSE 0

\* deletion_to_propagate: 0 when nothing is due.
DueId == IF pendingId # 0 /\ lastPushed # pendingId THEN pendingId
         ELSE IF webReq /\ ~webPushed THEN WebId
         ELSE 0

BackoffActive(id) == backoff.id = id /\ backoff.waiting

\* propagate_pending_erasure_status, called by run_cycle as soon as it has the
\* cycle lock ("lock") or by the loop without it ("decide").
Decide(c) ==
    LET locked == pc[c] = "lock" IN
    /\ pc[c] \in {"lock", "decide"}
    /\ locked => lock = Nobody
    /\ lock' = IF locked THEN c ELSE lock
    /\ IF DueId # 0 /\ ~BackoffActive(DueId)
       THEN /\ pc' = [pc EXCEPT ![c] = "anchor"]
            /\ job' = [job EXCEPT ![c].id = DueId]
       ELSE /\ pc' = [pc EXCEPT ![c] = IF locked THEN "gate" ELSE "idle"]
            /\ UNCHANGED job
    /\ UNCHANGED <<consentVars, storeVars, unsent, gateVars, peerVars, confirmed, ledger, restarts>>

\* push_deletion_event reads the anchor; a read error leaves the event unbounded.
ReadAnchor(c) ==
    /\ pc[c] = "anchor"
    /\ \E bound \in {anchor} \cup (IF StoreMayFail THEN {0} ELSE {}) :
         job' = [job EXCEPT ![c].bound = bound]
    /\ GoOn(c, "push")
    /\ UNCHANGED <<consentVars, storeVars, unsent, gateVars, peerVars, confirmed, ledger, restarts>>

\* Mutant: a push that no peer confirmed goes on as if one had.
PushEventFailsUnnoticed(c) ==
    /\ pc[c] = "push"
    /\ \E applied \in SUBSET Peers : DeliverEvent(job[c].bound, applied)
    /\ backoff' = [id |-> 0, waiting |-> FALSE]
    /\ GoOn(c, "record")
    /\ UNCHANGED <<consentVars, storeVars, unsent, webVars, stored, lastPushed,
                   job, confirmed, ledger, restarts>>

\* The push fails, or no peer confirms it, although some may have applied it.
\* bump_erasure_backoff; nothing is marked.
PushEventFails(c) ==
    /\ pc[c] = "push"
    /\ \E applied \in SUBSET Peers : DeliverEvent(job[c].bound, applied)
    /\ backoff' = [id |-> job[c].id, waiting |-> TRUE]
    /\ Finish(c)
    /\ UNCHANGED <<consentVars, storeVars, unsent, webVars, stored, lastPushed,
                   confirmed, ledger, restarts>>

\* At least one peer confirmed the event, which it may have skipped;
\* reset_erasure_backoff.
PushEvent(c) ==
    /\ pc[c] = "push"
    /\ \E applied \in SUBSET Peers : DeliverEvent(job[c].bound, applied)
    /\ confirmed' = confirmed \cup {job[c].id}
    /\ job' = [job EXCEPT ![c].bound = 0]
    /\ backoff' = [id |-> 0, waiting |-> FALSE]
    /\ GoOn(c, "record")
    /\ UNCHANGED <<consentVars, storeVars, unsent, webVars, stored, lastPushed,
                   ledger, restarts>>

\* record_push_egress for the event, keyed by its id; a failure is only logged.
RecordEvent(c) ==
    /\ pc[c] = "record"
    /\ \/ ledger' = ledger \cup {job[c].id}
       \/ StoreMayFail /\ UNCHANGED ledger
    /\ GoOn(c, "persist")
    /\ UNCHANGED <<consentVars, storeVars, unsent, gateVars, job, peerVars, confirmed, restarts>>

\* Mutant: the id of a web erasure is stored too.
PersistEventWeb(c) ==
    /\ pc[c] = "persist"
    /\ stored' = job[c].id
    /\ GoOn(c, "mirror")
    /\ UNCHANGED <<consentVars, storeVars, unsent, webVars, lastPushed, backoff,
                   job, peerVars, confirmed, ledger, restarts>>

\* record_pushed_erasure_id, or the latch of the web path.
PersistEvent(c) ==
    /\ pc[c] = "persist"
    /\ IF job[c].id = WebId
       THEN /\ webPushed' = TRUE
            /\ Finish(c)
            /\ UNCHANGED stored
       ELSE /\ stored' = job[c].id
            /\ GoOn(c, "mirror")
            /\ UNCHANGED <<webPushed, job>>
    /\ UNCHANGED <<consentVars, storeVars, unsent, webWiped, webReq, lastPushed, backoff, peerVars, confirmed,
                   ledger, restarts>>

\* The store refuses the id: the mirror keeps its value, so a later call retries.
PersistFails(c) ==
    /\ pc[c] = "persist" /\ StoreMayFail /\ job[c].id # WebId
    /\ Finish(c)
    /\ UNCHANGED <<consentVars, storeVars, unsent, gateVars, peerVars, confirmed, ledger, restarts>>

\* The mirror in memory follows the store.
MirrorEvent(c) ==
    /\ pc[c] = "mirror"
    /\ lastPushed' = job[c].id
    /\ Finish(c)
    /\ UNCHANGED <<consentVars, storeVars, unsent, webVars, stored, backoff,
                   peerVars, confirmed, ledger, restarts>>

\* Gate 1 and the pull: without consent, or when the pull fails, the cycle ends.
Gate(c) ==
    /\ pc[c] = "gate"
    /\ \/ consented /\ GoOn(c, "extract") /\ UNCHANGED job
       \/ Finish(c)
    /\ UNCHANGED <<consentVars, storeVars, unsent, gateVars, peerVars, confirmed, ledger, restarts>>

\* get_local_changes_since(last_push_watermark)
Extract(c) ==
    /\ pc[c] = "extract"
    /\ IF unsent
       THEN /\ job' = [job EXCEPT ![c].rows = local, ![c].tombs = outbox]
            /\ GoOn(c, "send")
       ELSE Finish(c)
    /\ unsent' = FALSE
    /\ UNCHANGED <<consentVars, storeVars, gateVars, peerVars, confirmed, ledger, restarts>>

\* transport.push of the data: confirmed by at least one peer, or by none and
\* then the watermark stays where it was.  The ledger row of the batch is not
\* part of the state.
Send(c) ==
    /\ pc[c] = "send"
    /\ \E applied \in SUBSET Peers : DeliverData(job[c].rows, job[c].tombs, applied)
    /\ unsent' \in {unsent, TRUE}
    /\ Finish(c)
    /\ UNCHANGED <<consentVars, storeVars, gateVars, confirmed, ledger, restarts>>

\* handle_pull, called by a peer that merges the answer: gated by consent, from
\* a watermark of zero.
PeerPull(p) ==
    /\ consented
    /\ DeliverData(local, outbox, {p})
    /\ UNCHANGED <<consentVars, storeVars, unsent, gateVars, callVars, confirmed, ledger,
                   restarts>>

\* erasure_backoff's retry_after passes.
BackoffElapses ==
    /\ backoff.waiting
    /\ backoff' = [backoff EXCEPT !.waiting = FALSE]
    /\ UNCHANGED <<consentVars, storeVars, unsent, webVars, stored, lastPushed,
                   callVars, peerVars, confirmed, ledger, restarts>>

\* The process restarts: consent from its file, the mirror from the store, a
\* watermark of zero; the flags, the backoff and the calls are lost.  The local
\* erasure is retried at startup if its marker was written.
Restart ==
    /\ restarts < MaxRestarts
    /\ restarts' = restarts + 1
    /\ consented' = file.granted /\ pendingId' = file.id
    /\ toWipe' \in {FALSE, toWipe}
    /\ lastPushed' = stored
    /\ webWiped' = FALSE /\ webReq' = FALSE /\ webPushed' = FALSE
    /\ backoff' = [id |-> 0, waiting |-> FALSE]
    /\ unsent' = (local # NoRows \/ outbox # NoRows)
    /\ lock' = Nobody
    /\ pc' = [c \in Callers |-> "idle"] /\ job' = [c \in Callers |-> NoJob]
    /\ UNCHANGED <<file, revokes, wipeOf, storeVars, stored, peerVars, confirmed, ledger>>

Step(c) == \/ Decide(c) \/ ReadAnchor(c)
           \/ PushEvent(c) \/ PushEventFails(c) \/ RecordEvent(c)
           \/ PersistEvent(c) \/ PersistFails(c) \/ MirrorEvent(c)
           \/ Gate(c) \/ Extract(c) \/ Send(c)

Next == \/ \E k \in Keys : WriteRow(k)
        \/ Revoke \/ Grant \/ Wipe \/ WebErase \/ WebRequest
        \/ LoopTick \/ IpcStart
        \/ \E c \in Callers : Step(c)
        \/ \E p \in Peers : PeerPull(p)
        \/ BackoffElapses \/ Restart

Spec == Init /\ [][Next]_vars

(* The interval of the loop and the backoff timer fire; a call that started  *)
(* goes on; tokio's mutex serves its waiters in turn (Decide); a peer that   *)
(* is asked again and again answers in the end, and so does the store; a     *)
(* withdrawal reaches its Phase-1.                                           *)
CallFairness == \A c \in Callers : WF_vars(Step(c)) /\ SF_vars(Decide(c))
Answers      == /\ \A c \in Callers : SF_vars(PushEvent(c)) /\ SF_vars(PersistEvent(c))
                /\ \A p \in Peers : SF_vars(PeerPull(p))
Fairness == /\ WF_vars(LoopTick) /\ WF_vars(BackoffElapses) /\ WF_vars(Wipe)
            /\ CallFairness /\ Answers

FairSpec == Spec /\ Fairness

-----------------------------------------------------------------------------
(* Properties *)

\* An id is marked as propagated, in app_meta or in its mirror, only after some
\* peer confirmed its DeletionEvent (sync_engine.rs:505-512): whatever fails or
\* restarts in between, an erasure nobody answered for is never struck off.
MarkedWasConfirmed ==
    {stored, lastPushed} \ {0} \subseteq confirmed

\* The engine implements ErasureDelivery: no DeletionEvent row in the ledger and
\* no id in the durable gate for an event that no peer confirmed
\* (sync_engine.rs:394-399, 505-512), however the callers interleave.
Delivery == INSTANCE ErasureDelivery
    WITH Erasures <- Ids, delivered <- confirmed, audited <- ledger, marked <- stored
ImplementsDelivery == Delivery!Spec

\* The stamp is not that of an erased row, or the outbox can still strike it.
Covered(k, stamp) == stamp > anchor \/ stamp <= outbox[k]

\* A changeset extracted before a wipe may put an erased row on a peer after the
\* DeletionEvent.  Whatever peers hold or is still on its way, for every erased
\* row this device keeps a tombstone at or above it, so that a later pull takes
\* the row away (retention.rs:549-555).
ErasedStaysCovered ==
    \A k \in Keys : /\ \A p \in Peers : Covered(k, peerRows[p][k])
                    /\ \A c \in Callers : Covered(k, job[c].rows[k])

\* A pending erasure is announced to some peer, unless a later revocation, or a
\* restart after a new grant, takes its id away first (sync_engine.rs:432-442).
PendingErasureAnnounced ==
    \A i \in 1 .. MaxRevokes : pendingId = i ~> (i \in confirmed \/ pendingId # i)

\* A web erasure that is requested while the latch is down is announced, even
\* while a consent erasure is pending (sync_engine.rs:486-490).
WebErasureAnnounced == webReq ~> (WebId \in confirmed \/ ~webReq)

\* When consent is there to stay, every peer ends without the rows this device
\* erased: the tombstones reach the peers the events missed
\* (retention.rs:548-555).
PeersConvergeUnderConsent ==
    <>[]consented => <>[](\A p \in Peers, k \in Keys : peerRows[p][k] # 0 => peerRows[p][k] > anchor)

-----------------------------------------------------------------------------
(* What comments of the code say and the code does not do *)

\* "bound the device-wide delete to data that existed at erasure time"
\* (sync_engine.rs:518): until consent is granted again, with the event of the
\* last revocation confirmed no peer holds a row this revocation wiped here.
AnnouncedMeansErased ==
    ~consented /\ revokes \in confirmed =>
        \A p \in Peers, k \in Keys : peerRows[p][k] # 0 => peerRows[p][k] > wipeOf[revokes]

\* "an offline-then-reconnecting peer converges later via the normal sync
\* stream" (retention.rs:553-555): with every peer answering again and again,
\* the rows of a completed withdrawal leave every peer.
OfflinePeerConverges ==
    \A i \in 1 .. MaxRevokes :
        wipeOf[i] # 0 ~> \A p \in Peers, k \in Keys :
                              peerRows[p][k] # 0 => peerRows[p][k] > wipeOf[i]

\* "the prior erasure still stands - it still fires the cross-device
\* DeletionEvent on the next sync" (consent.rs:405-408).
RegrantKeepsErasure ==
    \A i \in 1 .. MaxRevokes : pendingId = i ~> \E j \in i .. MaxRevokes : j \in confirmed
====

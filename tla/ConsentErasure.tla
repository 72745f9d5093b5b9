--------------------------- MODULE ConsentErasure ---------------------------
(***************************************************************************)
(* Consent, and the local erasure a withdrawal starts.                     *)
(*                                                                         *)
(*   ConsentManager (maekon-core/src/consent.rs): the record in memory and *)
(*     in consent.json, the writer guard over both, deletion_flag.         *)
(*   GuardedConnection and FrameFileStorage: the write funnels, which check*)
(*     deletion_flag and erasing under their lock.                         *)
(*   withdraw_consent / erase_all_local_data / retry_pending_local_erase   *)
(*     (src-tauri/src/commands/consent.rs): the four phases, the RAII      *)
(*     window and the marker in app_meta that survives a crash.            *)
(*   VaultMirrorWriter: the mirror cycle, gated once and serialized with   *)
(*     the erase by the root lock.                                         *)
(*                                                                         *)
(* A store is abstracted to whether it holds user data.  Every step that   *)
(* another thread can interleave with is an action of its own; a step      *)
(* taken under a lock waits for the lock.                                  *)
(***************************************************************************)
EXTENDS Naturals, FiniteSets

CONSTANTS Erasers,   \* withdraw_consent invocations that may overlap
          Granters,  \* set_consent invocations that may overlap
          Boot,      \* the startup thread, which runs the retry
          Nobody,    \* the writer guard is free
          MaxGrants  \* bound: consent is granted this many times

ASSUME ConsentAssumption ==
    /\ MaxGrants \in Nat
    /\ Boot \notin Erasers \cup Granters
    /\ Nobody \notin Erasers \cup Granters \cup {Boot}
    /\ Erasers \cap Granters = {}

VARIABLES
    consent,   \* ConsentState.current_consent: "granted" or "none"
    pending,   \* ConsentState.pending_deletion
    erasureId, \* ConsentState.pending_erasure_nonce; 0 for None
    disk,      \* consent.json: [rec, id], rec "absent", "granted" or "revoked"
    guard,     \* holder of the RwLock writer guard of ConsentState
    flag,      \* deletion_flag
    erasing,   \* the erase-window signal
    marker,    \* app_meta["pending_local_erase"] is present
    holds,     \* store -> it holds user data
    pc,        \* command -> its next step
    writer,    \* funnel -> state of the writer in flight
    mirror,    \* state of the vault mirror cycle
    seen,      \* the digests the mirror cycle read were not empty
    up,        \* startup is over: services run and commands are served
    grants,    \* history: number of grants, names the erasures
    swept      \* history: erasures whose Phase-3 held the root lock in this window

mem     == <<consent, pending, erasureId>>
signals == <<flag, erasing>>
work    == <<writer, mirror, seen>>
vars    == <<consent, pending, erasureId, disk, guard, flag, erasing, marker,
             holds, pc, writer, mirror, seen, up, grants, swept>>

Commands == Erasers \cup Granters \cup {Boot}
Wipers   == Erasers \cup {Boot}
Funnels  == {"db", "frames"}
Stores   == Funnels \cup {"vault", "evidence"}

Steps == {"idle", "lock", "persist", "commit", "flag", "window", "marker",
          "phase1", "phase2", "phase3", "phase4", "clear", "closeErr", "closeOk"}

TypeOK == /\ consent \in {"granted", "none"}
          /\ pending \in BOOLEAN
          /\ erasureId \in 0 .. MaxGrants
          /\ disk \in [rec : {"absent", "granted", "revoked"}, id : 0 .. MaxGrants]
          /\ guard \in Commands \cup {Nobody}
          /\ flag \in BOOLEAN
          /\ erasing \in BOOLEAN
          /\ marker \in BOOLEAN
          /\ holds \in [Stores -> BOOLEAN]
          /\ pc \in [Commands -> Steps]
          /\ writer \in [Funnels -> {"idle", "inflight", "holding"}]
          /\ mirror \in {"idle", "gated", "locked", "read"}
          /\ seen \in BOOLEAN
          /\ up \in BOOLEAN
          /\ grants \in 0 .. MaxGrants
          /\ swept \subseteq Wipers

\* A first launch: no consent file, no data.
Init == /\ consent = "none" /\ pending = FALSE /\ erasureId = 0
        /\ disk = [rec |-> "absent", id |-> 0]
        /\ guard = Nobody
        /\ flag = FALSE /\ erasing = FALSE /\ marker = FALSE
        /\ holds = [s \in Stores |-> FALSE]
        /\ pc = [c \in Commands |-> "idle"]
        /\ writer = [f \in Funnels |-> "idle"]
        /\ mirror = "idle" /\ seen = FALSE
        /\ up = TRUE
        /\ grants = 0 /\ swept = {}

GoTo(c, from, to) == pc[c] = from /\ pc' = [pc EXCEPT ![c] = to]

-----------------------------------------------------------------------------
(* set_consent -> grant_consent *)

\* The bound counts the grants still on their way to the file.
StartGrant(g) == /\ up
                 /\ grants + Cardinality({h \in Granters : pc[h] \in {"lock", "persist"}})
                       < MaxGrants
                 /\ GoTo(g, "idle", "lock")
                 /\ UNCHANGED <<mem, disk, guard, signals, marker, holds, work, up, grants, swept>>

\* Mutant of TakeGuard: the record is saved outside the exclusive guard.
TakeGuardShared(c) == /\ guard' = c
                      /\ GoTo(c, "lock", "persist")
                      /\ UNCHANGED <<mem, disk, signals, marker, holds, work, up, grants, swept>>

\* The writer guard of ConsentState, taken by both transitions.
TakeGuard(c) == /\ guard = Nobody
                /\ guard' = c
                /\ GoTo(c, "lock", "persist")
                /\ UNCHANGED <<mem, disk, signals, marker, holds, work, up, grants, swept>>

\* save_to_file (tmp and rename) under the guard.
GrantPersist(g) == /\ disk' = [rec |-> "granted", id |-> 0]
                   /\ grants' = grants + 1
                   /\ GoTo(g, "persist", "commit")
                   /\ UNCHANGED <<mem, guard, signals, marker, holds, work, up, swept>>

GrantCommit(g) == /\ consent' = "granted"
                  /\ guard' = Nobody
                  /\ GoTo(g, "commit", "flag")
                  /\ UNCHANGED <<pending, erasureId, disk, signals, marker, holds, work, up, grants, swept>>

\* The flag is a separate atomic, stored after the guard is released.
GrantFlag(g) == /\ flag' = FALSE
                /\ GoTo(g, "flag", "idle")
                /\ UNCHANGED <<mem, disk, guard, erasing, marker, holds, work, up, grants, swept>>

\* A failed write of consent.json: Err, the state in memory untouched.
PersistFails(c) == /\ c \in Granters \/ consent = "granted"
                   /\ guard' = Nobody
                   /\ GoTo(c, "persist", "idle")
                   /\ UNCHANGED <<mem, disk, signals, marker, holds, work, up, grants, swept>>

-----------------------------------------------------------------------------
(* withdraw_consent -> revoke_consent *)

StartWithdraw(w) == /\ up
                    /\ GoTo(w, "idle", "lock")
                    /\ UNCHANGED <<mem, disk, guard, signals, marker, holds, work, up, grants, swept>>

\* The revoked record is built from a clone and persisted before memory moves;
\* with no active consent there is nothing to persist.
RevokePersist(w) == /\ disk' = IF consent = "granted"
                               THEN [rec |-> "revoked", id |-> grants]
                               ELSE disk
                    /\ GoTo(w, "persist", "commit")
                    /\ UNCHANGED <<mem, guard, signals, marker, holds, work, up, grants, swept>>

\* Mutant of RevokeCommit: a repeated revocation counts as a new erasure.
RevokeCommitAdvances(w) == /\ consent' = "none"
                           /\ pending' = TRUE
                           /\ erasureId' = erasureId + 1
                           /\ guard' = Nobody
                           /\ GoTo(w, "commit", "flag")
                           /\ UNCHANGED <<disk, signals, marker, holds, work, up, grants, swept>>

\* The erasure id advances only when an active consent was revoked.
RevokeCommit(w) == /\ consent' = "none"
                   /\ pending' = TRUE
                   /\ erasureId' = IF consent = "granted" THEN grants ELSE erasureId
                   /\ guard' = Nobody
                   /\ GoTo(w, "commit", "flag")
                   /\ UNCHANGED <<disk, signals, marker, holds, work, up, grants, swept>>

RevokeFlag(w) == /\ flag' = TRUE
                 /\ GoTo(w, "flag", "window")
                 /\ UNCHANGED <<mem, disk, guard, erasing, marker, holds, work, up, grants, swept>>

-----------------------------------------------------------------------------
(* erase_all_local_data, by a withdrawal or by the startup retry *)

\* EraseWindowGuard::set.
OpenWindow(w) == /\ erasing' = TRUE
                 /\ GoTo(w, "window", "marker")
                 /\ UNCHANGED <<mem, disk, guard, flag, marker, holds, work, up, grants, swept>>

\* The connection mutex: no funnel writer is inside its transaction.
ConnFree == writer["db"] # "holding"

\* The marker is written before Phase-1; a failed write is logged, not fatal.
WriteMarker(w) == /\ ConnFree
                  /\ marker' \in {TRUE, marker}
                  /\ GoTo(w, "marker", "phase1")
                  /\ UNCHANGED <<mem, disk, guard, signals, holds, work, up, grants, swept>>

\* The success of the phase that empties store s.
Wipes(w, s, from, to) == /\ holds' = [holds EXCEPT ![s] = FALSE]
                         /\ GoTo(w, from, to)
                         /\ UNCHANGED <<mem, disk, guard, signals, marker, work, up, grants>>

\* The failure of a phase after Phase-1: the marker is written again.
PhaseFails(w, from) == /\ marker' \in {TRUE, marker}
                       /\ GoTo(w, from, "closeErr")
                       /\ UNCHANGED <<mem, disk, guard, signals, holds, work, up, grants, swept>>

\* delete_all_data over lock_for_erase.
Phase1(w) == ConnFree /\ Wipes(w, "db", "phase1", "phase2") /\ UNCHANGED swept

Phase1Fails(w) == /\ ConnFree
                  /\ GoTo(w, "phase1", "closeErr")
                  /\ UNCHANGED <<mem, disk, guard, signals, marker, holds, work, up, grants, swept>>

\* The frame barrier, exclusive: no frame save is in progress.
FramesFree == writer["frames"] # "holding"

\* delete_all_files over the exclusive frame barrier.
Phase2(w) == FramesFree /\ Wipes(w, "frames", "phase2", "phase3") /\ UNCHANGED swept

\* A day directory that cannot be removed is logged; the count is still Ok.
Phase2Partial(w) == /\ FramesFree
                    /\ GoTo(w, "phase2", "phase3")
                    /\ UNCHANGED <<mem, disk, guard, signals, marker, holds, work, up, grants, swept>>

\* Listing the directories failed.
Phase2Fails(w) == FramesFree /\ ConnFree /\ PhaseFails(w, "phase2")

\* The root lock of the vault: no mirror cycle is inside it.
RootFree == mirror \in {"idle", "gated"}

\* Mutant of Phase3: the erase does not take the root lock.
Phase3Unserialized(w) == Wipes(w, "vault", "phase3", "phase4") /\ swept' = swept \cup {w}

\* erase_generated_files over the root lock.
Phase3(w) == RootFree /\ Wipes(w, "vault", "phase3", "phase4") /\ swept' = swept \cup {w}

\* A directory that cannot be listed and a file whose existence or marker cannot
\* be read are passed over in silence: generated files stay, the answer is Ok.
Phase3Partial(w) == /\ RootFree
                    /\ swept' = swept \cup {w}
                    /\ GoTo(w, "phase3", "phase4")
                    /\ UNCHANGED <<mem, disk, guard, signals, marker, holds, work, up, grants>>

\* The root cannot be canonicalized, no writer is wired, or the files lie under
\* a root that is not in the snapshot, whose stored row goes with Phase-1: the
\* root is left alone, without its lock, and the answer is Ok.
Phase3Skipped(w) == /\ GoTo(w, "phase3", "phase4")
                    /\ UNCHANGED <<mem, disk, guard, signals, marker, holds, work, up, grants, swept>>

Phase3Fails(w) == RootFree /\ ConnFree /\ PhaseFails(w, "phase3")

Phase4(w) == Wipes(w, "evidence", "phase4", "clear") /\ UNCHANGED swept

Phase4Fails(w) == ConnFree /\ PhaseFails(w, "phase4")

\* The marker is cleared after the last phase; a failed delete is not fatal.
ClearMarker(w) == /\ ConnFree
                  /\ marker' = FALSE
                  /\ GoTo(w, "clear", "closeOk")
                  /\ UNCHANGED <<mem, disk, guard, signals, holds, work, up, grants, swept>>

ClearMarkerFails(w) == /\ ConnFree
                       /\ GoTo(w, "clear", "closeOk")
                       /\ UNCHANGED <<mem, disk, guard, signals, marker, holds, work, up, grants, swept>>

\* Drop of EraseWindowGuard on every exit; after the startup retry, the
\* services start.
CloseWindow(w) == /\ erasing' = FALSE
                  /\ \/ GoTo(w, "closeOk", "idle")
                     \/ GoTo(w, "closeErr", "idle")
                  /\ up' = TRUE
                  /\ swept' = swept \ {w}
                  /\ UNCHANGED <<mem, disk, guard, flag, marker, holds, work, grants>>

-----------------------------------------------------------------------------
(* The writers: capture and analysis through the funnels, the vault mirror *)

\* A loop saw valid consent and has something to write.
WriterStart(f) == /\ up /\ consent = "granted"
                  /\ writer[f] = "idle"
                  /\ writer' = [writer EXCEPT ![f] = "inflight"]
                  /\ UNCHANGED <<mem, disk, guard, signals, marker, holds, pc, mirror, seen, up, grants, swept>>

\* Mutant of WriterLock: the erase-window signal is not part of the check.
WriterLockFlagOnly(f) == /\ writer[f] = "inflight"
                         /\ writer' = [writer EXCEPT ![f] = IF flag THEN "idle" ELSE "holding"]
                         /\ UNCHANGED <<mem, disk, guard, signals, marker, holds, pc, mirror, seen, up, grants, swept>>

\* write_lock and save_frame: take the lock, then check both signals.
WriterLock(f) == /\ writer[f] = "inflight"
                 /\ writer' = [writer EXCEPT ![f] = IF flag \/ erasing THEN "idle" ELSE "holding"]
                 /\ UNCHANGED <<mem, disk, guard, signals, marker, holds, pc, mirror, seen, up, grants, swept>>

\* The write commits, or fails (disk space), and the lock is released.
WriterCommit(f) == /\ writer[f] = "holding"
                   /\ writer' = [writer EXCEPT ![f] = "idle"]
                   /\ \/ holds' = [holds EXCEPT ![f] = TRUE]
                      \/ UNCHANGED holds
                   /\ UNCHANGED <<mem, disk, guard, signals, marker, pc, mirror, seen, up, grants, swept>>

\* run_mirror_cycle: the gates are read once, before the root lock.
MirrorGate == /\ up /\ consent = "granted" /\ ~flag /\ ~erasing
              /\ mirror = "idle"
              /\ mirror' = "gated"
              /\ UNCHANGED <<mem, disk, guard, signals, marker, holds, pc, writer, seen, up, grants, swept>>

MirrorLock == /\ mirror = "gated"
              /\ mirror' = "locked"
              /\ UNCHANGED <<mem, disk, guard, signals, marker, holds, pc, writer, seen, up, grants, swept>>

\* Digests and claims come from SQLite, under the root lock.
MirrorRead == /\ ConnFree
              /\ mirror = "locked"
              /\ mirror' = "read"
              /\ seen' = holds["db"]
              /\ UNCHANGED <<mem, disk, guard, signals, marker, holds, pc, writer, up, grants, swept>>

\* The files are written, or the cycle ends on an I/O error before the first one.
MirrorWrite == /\ mirror = "read"
               /\ mirror' = "idle"
               /\ seen' = FALSE
               /\ holds' \in {holds, [holds EXCEPT !["vault"] = @ \/ seen]}
               /\ UNCHANGED <<mem, disk, guard, signals, marker, pc, writer, up, grants, swept>>

\* write_evidence: a user-started verification call, outside the consent gates.
WriteEvidence == /\ up
                 /\ holds' = [holds EXCEPT !["evidence"] = TRUE]
                 /\ UNCHANGED <<mem, disk, guard, signals, marker, pc, work, up, grants, swept>>

-----------------------------------------------------------------------------
\* Mutant of Relaunch: the marker is not looked at.
RelaunchNoRetry == /\ consent' = IF disk.rec = "granted" THEN "granted" ELSE "none"
                   /\ pending' = FALSE
                   /\ erasureId' = IF disk.rec = "revoked" THEN disk.id ELSE 0
                   /\ guard' = Nobody /\ flag' = FALSE /\ erasing' = FALSE
                   /\ pc' = [c \in Commands |-> "idle"]
                   /\ writer' = [f \in Funnels |-> "idle"] /\ mirror' = "idle" /\ seen' = FALSE
                   /\ up' = TRUE /\ swept' = {}
                   /\ UNCHANGED <<disk, marker, holds, grants>>

\* The process ends, by a crash or a quit, at any point and is launched again:
\* ConsentManager::new recovers the record, retry_pending_local_erase resumes a
\* marked erasure before any service starts.
Relaunch == /\ consent' = IF disk.rec = "granted" THEN "granted" ELSE "none"
            /\ pending' = FALSE
            /\ erasureId' = IF disk.rec = "revoked" THEN disk.id ELSE 0
            /\ guard' = Nobody /\ flag' = FALSE /\ erasing' = FALSE
            /\ pc' = [c \in Commands |-> IF c = Boot /\ marker THEN "window" ELSE "idle"]
            /\ writer' = [f \in Funnels |-> "idle"] /\ mirror' = "idle" /\ seen' = FALSE
            /\ up' = ~marker /\ swept' = {}
            /\ UNCHANGED <<disk, marker, holds, grants>>

EraseStep(w) == \/ OpenWindow(w) \/ WriteMarker(w)
                \/ Phase1(w) \/ Phase1Fails(w)
                \/ Phase2(w) \/ Phase2Partial(w) \/ Phase2Fails(w)
                \/ Phase3(w) \/ Phase3Partial(w) \/ Phase3Skipped(w) \/ Phase3Fails(w)
                \/ Phase4(w) \/ Phase4Fails(w)
                \/ ClearMarker(w) \/ ClearMarkerFails(w)
                \/ CloseWindow(w)

Next == \/ \E g \in Granters : \/ StartGrant(g) \/ TakeGuard(g) \/ GrantPersist(g)
                               \/ GrantCommit(g) \/ GrantFlag(g) \/ PersistFails(g)
        \/ \E w \in Erasers : \/ StartWithdraw(w) \/ TakeGuard(w) \/ RevokePersist(w)
                              \/ RevokeCommit(w) \/ RevokeFlag(w) \/ PersistFails(w)
        \/ \E w \in Wipers : EraseStep(w)
        \/ \E f \in Funnels : WriterStart(f) \/ WriterLock(f) \/ WriterCommit(f)
        \/ MirrorGate \/ MirrorLock \/ MirrorRead \/ MirrorWrite
        \/ WriteEvidence
        \/ Relaunch

Spec == Init /\ [][Next]_vars

\* A step of a launch's retry that succeeds.
RetryStep == \/ OpenWindow(Boot) \/ WriteMarker(Boot)
             \/ Phase1(Boot) \/ Phase2(Boot) \/ Phase3(Boot) \/ Phase4(Boot)
             \/ ClearMarker(Boot) \/ CloseWindow(Boot)

\* A launch's retry is neither cut short nor failed.
Undisturbed == ~up => /\ pc'[Boot] \notin {"window", "closeErr"}
                      /\ pc'[Boot] = "closeOk" => ~marker'

\* The startup thread runs; the application is launched again, which is what the
\* retry waits for; and disturbances do not go on for ever.
Fairness == /\ WF_vars(RetryStep)
            /\ WF_vars(Relaunch)
            /\ <>[][Undisturbed]_vars

FairSpec == Spec /\ Fairness

-----------------------------------------------------------------------------
\* With the guard free, consent in memory and in consent.json agree, and so do
\* the erasure's two ids: grants and revocations that interleave cannot leave a
\* state that a relaunch would turn around (consent.rs:395-409, 445-490).
MemoryMatchesDisk ==
    guard = Nobody =>
        /\ consent = "granted" <=> disk.rec = "granted"
        /\ disk.rec = "revoked" => erasureId = disk.id

\* From the Phase-1 commit until the window closes, a re-grant and writers in
\* flight cannot put a row back (guarded_connection.rs:60-71), and once Phase-3
\* held the root lock no mirror cycle carries text it read before the wipe
\* (memory_vault_writer.rs:587-594), whatever files Phase-3 left.
ErasedUntilWindowCloses ==
    \A w \in Wipers :
        /\ pc[w] \in {"phase2", "phase3", "phase4", "clear", "closeOk"} => ~holds["db"]
        /\ w \in swept => ~seen

\* The phases after which store s stays as the erasure left it.
Past(s) == CASE s = "db"     -> {"phase2", "phase3", "phase4", "clear", "closeOk"}
             [] s = "frames" -> {"phase3", "phase4", "clear", "closeOk"}
             [] s = "vault"  -> {"phase4", "clear", "closeOk"}

\* "writes do not resume until erase has actually finished"
\* (guarded_connection.rs:68-69): no store an erasure is done with gets data
\* before the window closes, although deletion_flag may be cleared meanwhile; of
\* the vault this holds when Phase-3 took the root's lock.
NothingReappears ==
    [][\A w \in Wipers, s \in {"db", "frames", "vault"} :
          pc[w] \in Past(s) /\ (s = "vault" => w \in swept) /\ holds'[s] => holds[s]]_vars

\* Every erasure that left its marker is completed by some later launch
\* (retry_pending_local_erase), whatever phases fail or crash in between.
MarkedEraseCompletes == marker ~> ~marker

\* "LOCAL erasure already completed within the revoke session"
\* (consent.rs:260-263): a launch that finds a revoked record finds no rows left,
\* or the marker that makes it erase them.
RevokedLaunchIsErasedOrMarked ==
    disk.rec = "revoked" /\ up /\ ~pending /\ (\A c \in Commands : pc[c] = "idle")
        => marker \/ ~holds["db"]
=============================================================================

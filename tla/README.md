# Verification of the Maekon client: consent, erasure, sync, upload, tokens and outbox

The Maekon client is a local-first desktop agent (a Rust workspace: 17 crates
and the Tauri application `src-tauri`). It captures screen, window and audio
activity under the user's consent, stores it in SQLite and in files, derives
segments, digests and suggestions from it, and synchronises part of it with the
user's other devices over the LAN.

Its hardest promise is the GDPR one: after a withdrawal of consent the data is
gone, here and on the peers, and stays gone, although writers are in flight,
phases fail, the process crashes, peers are offline and the user may consent
again at any moment. This project models that promise first, and then the parts
with the same kind of trouble: the upload spool, whose rows and queue the withdrawals
cut through, the rows and tombstones that devices exchange, the OAuth credentials,
and the outbox of the integration runtime. The modules are:

| module | kind | what it models |
|---|---|---|
| `Hlc` | operators | HLC stamps, their order, `HlcClock::next`, the drift bound |
| `HlcClock` | component | the durable local clock: floor, erasure anchor, seed at startup |
| `ConsentErasure` | composition | `ConsentManager`, write funnels, `erase_all_local_data`, vault mirror, startup retry |
| `ErasurePropagation` | composition | `SyncEngine`, its callers, the erasure store, the peers' merge |
| `ErasureDelivery` | abstract spec | what the engine promises about announcing erasures |
| `UploadSpool` | composition | `BatchUploader`, the producers, the sync loop, the rows of `events`, withdrawals |
| `SyncMesh` | composition | the rows and tombstones of several devices, their local writers, `run_cycle`'s pull, merge and push |
| `OAuthTokens` | composition | one provider's credentials: refresh loop and coordinator, `get_access_token`, connect flows, revoke |
| `EgressOutbox` | composition | producer, receipts, `EgressCoordinator`'s enqueue and flush, the registry file |
| `HlcClockProofs`, `ConsentErasureProofs`, `ErasureWindowProofs`, `ErasurePropagationProofs`, `UploadSpoolProofs`, `SyncMeshProofs`, `OAuthTokensProofs`, `EgressOutboxProofs` | proofs | theorems about the components |
| `MCHlcClock`, `MCConsentErasure`, `MCErasurePropagation`, `MCUploadSpool`, `MCSyncMesh`, `MCOAuthTokens`, `MCEgressOutbox` | TLC | the model values of the runs |

## 1. Inventory

### Modelled components

**Hybrid logical clock** (`maekon-core/src/sync/hlc.rs`,
`maekon-storage/src/sqlite/hlc_clock.rs`). State: the row `hlc_clock`
(wall, counter), the retained `app_meta["sync.erasure_hlc"]`. Operations:
`HlcClock::next` inside the transaction of every synced row write,
`seed_from_db` at startup, the anchor tick of an erasure. Correct when no local
row is above the floor (the next stamp would repeat or undercut it), when the
seed covers the retained anchor (the erasure's tombstones would suppress new
rows), and when nothing but an erasure lowers the floor. Hard because the wall
clock may be stepped back, the counter saturates at `u32::MAX`, peers' rows
enter the tables without touching the clock, and an erasure wipes the floor
itself.

**Consent manager** (`maekon-core/src/consent.rs`). State: the record in memory
and in `consent.json` under one writer guard, `pending_deletion` and the erasure
nonce, the atomic `deletion_flag`. Operations: grant, revoke, recovery at launch.
Correct when memory and file agree whenever the guard is free.

**Write funnels** (`guarded_connection.rs`, `frame_storage/io.rs`). Every SQLite
and frame write takes its lock and then checks `deletion_flag || erasing`; the
erase takes the same lock without the check.

**Withdrawal and local erase** (`src-tauri/src/commands/consent.rs`). A window
(`erasing`, RAII), a marker in `app_meta`, Phase-1 SQLite, Phase-2 frames,
Phase-3 vault files, Phase-4 evidence, clear the marker; `retry_pending_local_erase`
at the next launch. Phase-2 and Phase-3 can pass over files and still report success. Correct when nothing that was wiped reappears before the
window closes and a marked erasure is completed in the end.

**Memory vault mirror** (`maekon-analysis/src/memory_vault_writer.rs`). Reads the
gates once, takes the root lock, reads digests and claims, writes Markdown files.

**Sync engine** (`maekon-core/src/sync_engine.rs`). State: `cycle_lock`, the push
watermark, the fire-once gate (`last_pushed_erasure_id` in `app_meta` and its
mirror), the web latch, the backoff. Operations: `run_cycle`,
`propagate_pending_erasure` (without the lock). Callers: the scheduler's loop,
gated by the capture gate, and the command `trigger_sync_cycle`. It calls the
extractor, the transport, the merger and the egress ledger across awaits.
Correct when an erasure is struck off only after a peer confirmed it, is
announced in the end, and the peers converge.

**Merger, extractor, LAN transport and server** (`sync_merger.rs`,
`sync_extractor.rs`, `lan_transport`, `lan_server`). State: the synced tables, each
row with its stamp and origin, and `sync_tombstones`. Operations: extraction since a
watermark, with the backfill of origins; `apply_changes`, which applies tombstones
first, lets a row pass only above its tombstone, and merges by table (append-only, or
last-write-wins with the status before the stamp); push and pull over every peer;
the peer's side of a DeletionEvent. Correct when an erased row and its tombstone
exclude each other, when a merge does not undo what the user did, and when the
devices agree in the end. Hard because copies travel over relays in any order,
stamps are of different clocks, a device's rows can be collected or expire anywhere,
and each step of a cycle may be the last.

**Local writers of synced rows** (`suggestions/unified.rs`, `override_store_impl.rs`,
`retention.rs`). Save and mark a suggestion, save it anew from memory at shutdown or
from storage when it is snoozed (`save_suggestion_with_state`), save and delete an
override, retention with its tombstones, `gc_sync_tombstones`.

**Upload spool** (`maekon-network/src/batch_uploader.rs`,
`src-tauri/src/scheduler/loops/network.rs`, `sqlite/events.rs`). State: the rows of
`events` with `is_sent`, the lock-free `SegQueue` and the separate atomic
`queue_size`. Operations: `save_event` and `enqueue` by several capture loops,
eviction at capacity, `flush` with retries, permanent errors and requeue, the stamp
of exactly the uploaded rows, retention, the flush at shutdown, the re-prime of
unsent rows at start. Correct when a row is stamped only after its upload, when
counter and queue agree once all loops are through, and when an unsent event is
uploaded in the end. Hard because every queue and counter operation interleaves,
the process may end between upload and stamp, and a withdrawal erases the rows
under the queue.

**OAuth tokens** (`maekon-network/src/oauth/mod.rs`, `refresh_coordinator.rs`, the
scheduler's refresh loop and the OAuth commands, `keychain.rs`, `keychain_guard.rs`,
`bounded_op.rs`). State: the keys of a provider in
the secret store, the provider's refresh lock, the map of active flows,
`ProviderRefreshState`. Operations: the loop's tick, `get_access_token`, a refresh with
its request and four writes, the connect flow with callback, exchange and commit,
cancel and status polls, `revoke`, the UI's reset. Correct when revoked credentials do
not come back, when no replaced refresh token is sent (a rotating provider would
take it for theft), and when a revoke ends. Hard because the lock is held across
network calls, flows are aborted in the middle, every write of the four may fail, and
a keychain call whose timeout has passed is still made by its detached worker.

**Integration outbox** (`maekon-integration/src/egress_coordinator`,
`producer_coordinator.rs`, the prompts of the inbox, the registry store). State: the
registry (outbox, producer checkpoint, prompt status) in memory and in its file, and
the atomic `pending_bytes`. Operations: enqueue in its steps of counting, reserving,
storing and giving back, the checkpoint or the prompt's status after it (a prompt may
be answered more than once), flush,
partial acknowledgement, subtraction, deletion. Correct when nothing that the
checkpoint has passed is lost, the counter is exact and the cap holds, and everything
is delivered in the end.

### Components in the plan, not modelled yet

Circuit breaker (a late result of an earlier state is counted in the current one,
circuit_breaker.rs:139); feedback retry (the queue's lock is released across the network
call, and a concurrent enqueue at the limit evicts what the retry still counts on,
feedback_retry.rs:95); update coordinator; session manager, re-authentication and
process lock; automation controller, policy and audit chain; the ledger row of a data
push, for which consent is read again after the push (sync_engine.rs:226).

### Components left out

Capture, OCR, monitoring, embedding, audio and analysis numerics (platform I/O
and floating point), the web dashboard apart from its delete-all handler, API
data types, the lint tool and the desktop shell.

## 2. How the models correspond to the code

### HlcClock

`floor` is the row of `hlc_clock` (ZERO when absent), `anchor` the retained meta
key, `mine` and `theirs` the stamps in the six synced tables by origin. One
action per operation: `LocalWrite`, `MergePeerRow` (within the drift bound),
`DropRow` (retention), `Erase` (anchor tick and wipe, one transaction),
`Restart` (the seed), and the external `WallClock`. `wiped` is a history
variable: an erasure happened since the last start.

### ConsentErasure

Every operation another thread can interleave with is a step of its own: a
command walks through `pc` (lock, persist, commit, flag, window, marker,
phase1..4, clear, close). A step under a lock waits for the lock: the guard of
`ConsentState`, the connection mutex (`ConnFree`), the frame barrier
(`FramesFree`), the vault's root lock (`RootFree`). A store is abstracted to
whether it holds user data. Failures are actions of their own (`PersistFails`,
`Phase1Fails`, ...), and so are the phases that report success with data left:
`Phase2Partial`; `Phase3Partial`, where directories that cannot be listed and files
whose marker cannot be read are passed over under the root lock; `Phase3Skipped`, where
a root that cannot be canonicalized, or that is not in the snapshot of roots, is left
alone without its lock. `swept` is a history variable: the erasures whose Phase-3 held
the root lock. `Relaunch` may happen in every state:
the process can end anywhere, and what is left is `disk`, `marker` and `holds`.

### ErasurePropagation

`ConsentManager` has one action per operation here, which is what
`MemoryAndDiskAgree` justifies. A row of this device is a key and a stamp of its
clock; `WriteRow` writes it, or writes it again, with the next stamp. A wipe takes the
next stamp as its anchor and leaves a tombstone with it for every key it erases. That
the stamps of one device only rise is `FloorDominates`, except after an erasure in the
session in which the wall clock is stepped back (see "Seen in the models").
On a peer a DeletionEvent deletes the rows at or below its bound (`Hit`) and leaves a
tombstone at each row's own stamp, none for a row the peer does not hold; a changeset
applies its tombstones first (`AfterTomb`) and lets a row pass that is above what is
recorded, clearing the tombstone (`AfterRow`). Each caller walks through `pc`: a step ends at an
await or where a lock is released, so the two callers interleave wherever the
code lets them. A push is applied by any subset of the peers, whoever confirms it: it
may be applied by some and confirmed by none, when the answers are lost, and confirmed by a peer that did
not apply it, because `apply_changes` skips the merge while the peer's own funnel is
closed and the handler still answers 200. The push visits the peers one after the other; since a
peer's state depends on no other peer, delivering to the subset in one step
loses no behaviour of a single peer.

`ErasureDelivery` is the promise in five lines of state: an erasure is delivered,
then audited or marked, in this order. The refinement maps `delivered` to the
ids some peer confirmed, `audited` to the ledger, `marked` to the stored id.

### UploadSpool

An event is the number of its capture, which stands for its id and its timestamp.
`pc` holds each loop's place. A producer saves the row (which may fail, and is
skipped by the write funnel), asks the policy, and enqueues in the separate steps
of the code: load of the counter, pop and `fetch_sub` of an eviction, push,
`fetch_add`. The sync loop shares these steps when it re-primes; its flush is a size
snapshot, one step per pop, one `fetch_sub`, the attempts, and then the stamp, the
requeue (again in single steps) or the drop of a rejected batch. `size` is an
integer, a load returns it modulo `Width`, as a `usize` that wraps. A failed attempt
may have reached the server. The breaker, the tracking schedule and the
upload setting only decide between `FlushStart` and `FlushSkipped`, which are both
always possible. `Relaunch` keeps the rows and nothing else, and retries a marked
erasure before the loops start. Withdrawals follow `ConsentErasure` at the
granularity of the rows: `Revoke`, `Wipe` (Phase-1, with a marker left when a phase
fails), `Grant`, with the funnel open unless `deletion_flag` or `erasing` is up;
overlapping withdrawals are `ConsentErasure`'s.

### SyncMesh

Each device has `row` and `tomb` per key. Two tables stand for the seven: a suggestion
(last-write-wins, status before stamp; some come from the server and have no stamp) and
an override (append-only). A stamp is one number above the device's `floor`; which one
is chosen freely, as the clocks of two devices may be apart by any amount below the
drift bound. Local writers run under the device's write lock and are one action each.
`queued` are the suggestions a device has in memory, waiting or snoozed: `Author` adds
to it, an answer takes out, a start refills it from the rows nobody has dismissed or
acted on. `Resave` is `save_suggestion_with_state`: a fresh stamp, the device as the
origin, the status columns empty, whatever has become of the row since.
A cycle is a sequence of steps through `pc`: a round of `Ask`s (the peer extracts, and
backfills origins first), `MergePulled` of the changeset with the lowest watermark,
further rounds from there, `Extract` of the device's own rows, `Send` to each peer,
`EndPush`. Between any two of them other devices and local writers act, a peer may be
out of reach (`Unanswered`), a confirmation be lost, the cycle fail or the device
restart. `erased` is a history variable: the stamp of a device's own tombstone for an
override. Erasure of a whole device is in `ErasurePropagation`.

### OAuthTokens

A refresh token is the grant it came from and how often it was rotated, an access token
the grant. The expiry is not kept: one that is absent or cannot be read counts as
passed, so whoever looks may find a token due or fresh. A process (the loop, a caller of `get_access_token`, each flow,
the user who revokes) walks through `pc`; a step ends at an await. A refresh holds the
lock from `TryLock` over the request (`Refreshed`, `Refused`, `TimedOut`) to its last
write; each write is an action and may fail (`StoreFails`). A keychain call that times
out fails for its caller while its worker goes on: `Detach` keeps the call in `late`, and
`LateCall` makes it at any later time, without the lock, or never; the deletes of a
sweep as well. A flow is spawned (`StartFlow`) and then inserted into the map
(`InsertFlow`), while its task already waits for the callback, exchanges its code,
waits for the lock and commits. An aborted task runs on to its next await, and a write
that had been handed to the blocking pool is still done (`AbortedRuns`, `LateWrite`).
The provider is external: it rotates the refresh token or not, answers without
`refresh_token`, refuses, or times out after it has rotated. `replaced` and `swept` are
history variables; a late write takes what it brings back out of them, so that they
say what the lock is answerable for.

### EgressOutbox

The registry in memory (`mem`) and on disk; an operation changes the first and writes
it whole (`Saved`), or the write fails and the change stays in memory (`NotSaved`), from
where any later write (`SaveElsewhere`) persists it. A call of `enqueue_message` takes one
step per atomic operation: `Begin`, `CountCheck`, `Reserve` (`fetch_add` and the cap),
`Store`, `Rollback` (`fetch_sub`, modulo `Wrap`), then `Audit` (no write when the policy
asks for no audit) and `Checkpoint` for the
producer or `Mark` for a receipt. A member of `Receipts` is one call of
`record_prompt_receipt` with its own receipt id: nothing looks at whether the prompt is
still pending, so acknowledging and dismissing one prompt queues two. The store's own
limit of 1024 messages lies above the coordinator's 512 and drops nothing. One flush at a time sends the oldest messages; the
server takes a part and acknowledges a part of that (`Respond`), or nothing.
`Restart` keeps the file; the first call afterwards reconciles the counter.
Consent, scopes and session are the gates before `Begin` and `Send`. `Total`, the sum of
the sizes, counts the cells of the messages: as a cardinality it can be reasoned about
without an induction.

## 3. Runs

Passing runs:

| run | states | shows |
|---|---|---|
| `hlc_clock` | 40 k | `FloorDominatesLocalRows`, `SeededFloorCoversAnchor`, `FloorOnlyRisesExceptErase` |
| `consent_erasure` | 380 k | `MemoryMatchesDisk`, `ErasedUntilWindowCloses`, `NothingReappears` with one withdrawal, one re-granter and all writers; `MarkedEraseCompletes` (liveness) |
| `erasure_propagation` | 3.1 M | `MarkedWasConfirmed`, `ErasedStaysCovered`, `ImplementsDelivery` |
| `erasure_propagation_live` | 218 k | `PendingErasureAnnounced`, `WebErasureAnnounced`, `PeersConvergeUnderConsent` (liveness) |
| `upload_spool` | 215 k | `SentWasUploaded`, `CounterSettles` with crashes and a withdrawal; `UnsentIsSettled` (liveness) |
| `sync_mesh` | 1.5 M | `TombstoneExcludesRow`, `DeletedOverrideIsOlder`, `StatusKept` for a suggestion, a server's suggestion and an override on two devices |
| `sync_mesh_live` | 81 k | `TombstoneExcludesRow`, `StatusKept` for one suggestion with a restart, and `Converges` (liveness): once nobody writes, the devices agree on every key without a tombstone |
| `oauth_tokens` | 930 k | `SweptNeverReturns`, `ReplacedNotSent`; `RevokeEnds` (liveness) |
| `egress_outbox` | 1.4 M | `NothingLost`, `BytesExact`, `WithinByteCap`, `CopiesBounded`; `InsightsDelivered` (liveness) |

Runs that TLC refutes, each a statement of a comment or a document of the
repository (quoted in `PROJECT.json`, "findings"):

| run | statement | what the code does |
|---|---|---|
| `erasure_regrant` | a re-grant keeps the erasure, durably | the re-grant replaces the record that holds the id; a restart forgets it |
| `upload_erased` | queued data is purged before the next upload cycle | the withdrawal leaves the queue; after a re-grant the next tick flushes erased events |
| `egress_wrap` | the subtraction must not underflow the counter | a message whose write failed is sent and subtracted by a flush before its reservation is given back; the counter wraps, and smaller messages are refused until a restart, while one at least as large wraps it back in a release build |

### Bounds, and why they are enough

* `HlcClock`: walls up to 3, a counter up to 1, two rows of each kind, drift 1.
  The counter saturates after two stamps, so re-anchoring happens; two rows
  suffice to have one above and one below a given stamp.
* `ConsentErasure`: one withdrawal and one granter and two grants: revoke, re-grant within the window, and a
  second revocation. A command may be invoked again after it ends, relaunches
  are not bounded.
* `ErasurePropagation`: one key, two writes, one revocation, one wipe, one restart: a row
  written before and a row written again after the wipe, so that copies below and above
  the anchor travel. Both callers in the
  safety run, the loop alone in the liveness run. One peer suffices for the passing
  runs: it applies an event or misses it, with or without its confirmation being
  lost, and no peer's state depends on another's (the theorems cover any set of
  peers). Retries, ticks, pulls and grants are not bounded.
* `UploadSpool`: two events, one producer and the sync loop, a queue of one, batches
  of one and two. A second event already finds the queue full, so evictions, overshoot
  and requeues over capacity happen, and a re-prime of limit one leaves a row behind.
  A load of the counter returns one, two or, after it went below zero, a number near
  the width, which takes all branches of the batch size. One retry, one
  revocation; crashes, restarts, failures and grants are not bounded.
  `UnsentIsSettled` speaks of behaviours without a revocation: with consent withdrawn
  for good nothing is due. More producers, and the cap on unsent rows, which two
  events do not reach, are covered by the theorems.
* `SyncMesh`: two devices, one key of each kind, two stamps, three writes, one
  deletion, one cycle at a time. Two stamps give a copy below, at and above a tombstone,
  three writes a row that is marked on both sides after it was exchanged. The
  theorems cover any number of devices, of cycles under way and of restarts. The safety
  run has no restart; the liveness run has one suggestion, two writes and one restart,
  which fills the queue anew, so that a saved suggestion is saved again after a start.
* `OAuthTokens`: one connect flow beside a connection of an earlier session, two
  failures before the user is asked, one rotation of each grant, one revocation. A
  rotated and an unrotated token suffice to send the wrong one; both grants can be
  swept. One worker that outlives its timeout suffices to bring a key back or take one
  away. Refreshes, polls, cancels and failures are not bounded. The theorems cover
  any set of flows.
* `EgressOutbox`: two insights and two receipts of sizes 1 and 2, an outbox of two
  messages and two bytes, so that either cap refuses, batches of two, one failed write,
  one crash. Three calls reserve at once. The source is finite.

Every run checks for deadlock, except `oauth_tokens` and `egress_outbox`, whose
finite supply of flows, revocations, insights and receipts comes to an end.

### Fairness

* `ConsentErasure`: the startup thread is scheduled; the application is launched
  again and again; failures and crashes of the retry stop at some point. The
  last one is what "in the end" can mean here: the code retries once per launch,
  so an endless series of failing launches never completes.
* `ErasurePropagation`: the loop's interval and the backoff timer fire, a call that
  started goes on (tokio drives a task that is ready), `cycle_lock` is a
  tokio mutex, which is fair (strong fairness of `Decide`), and a peer or a
  store that is asked again and again answers in the end (strong fairness of
  `PushEvent`, `PersistEvent`, `PeerPull`). Nothing is assumed of the user: grants,
  revocations, web erasures and restarts carry no fairness, except that a
  withdrawal that was started reaches its Phase-1.
* `UploadSpool`: the loops are scheduled; upload stays enabled often enough that a
  flush starts again and again, the server accepts each event at some of its attempts,
  a store that is asked again and again answers, and the user quits and starts the
  application again and again, which the code needs because only a start
  re-primes (network.rs:21-23); the process does not crash for ever. In short:
  no internal order of evictions, requeues and re-primes starves an
  event for which the outside world does its part.
* `SyncMesh`: per device, a cycle that started goes on (weak fairness of `Cycle`), the
  scheduler starts cycles for ever (strong, because another device's cycle may be under
  way in the bounded instance), and a peer that is asked again and again answers, and its
  answer is merged (strong fairness of `Ask` and `MergePulled`). Pushes need no
  fairness: the pull alone makes the devices agree.
* `OAuthTokens`: whoever holds the lock goes on (weak fairness of `HolderProceeds`): store
  calls return, and the HTTP client gives up after 30 s whatever the provider does.
  tokio's mutex queues those who wait, so revoke gets the lock in the end (strong
  fairness of `RevokeLock`). Nothing is assumed of the provider, of the user or of a
  task that does not hold the lock.
* `EgressOutbox`: the producer and flush loops go on, a call in progress goes on, and a
  server that is asked again and again acknowledges a whole batch at some time (strong
  fairness of that `Respond`). `InsightsDelivered` speaks of behaviours in which no
  write of an enqueue fails.

### Mutants

Every checked property has a mutant, an operator next to the definition it
changes, that breaks the code the way an edit could: a saturated counter that
is not re-anchored, a seed without the anchor, a guard that is not exclusive, a funnel
that checks only `deletion_flag`, an erase without the root lock, a launch that does
not look at the marker, a push failure taken for a success, a tombstone that is
recorded and deletes nothing, a gated tick that skips the erasure, a wipe without its tombstones, a
stamp by time, an eviction that is not counted, a start that re-primes nothing, a
merge by stamp alone, a tombstone that lets its own stamp pass, one that deletes older
rows only, a pull that starts at
the local maximum, a revoke without the lock, a client without a timeout, a cap
compared with the old total, a whole batch subtracted for a part acknowledged, a
producer whose cycle ends without its checkpoint.

### Seen in the models, not kept as runs

The first six are statements of the repository, defined in the modules, which TLC
refutes when they are added to a run's configuration with the constants given here.

* `ErasedUntilWindowCloses` with two withdrawals: they share one `erasing`
  (guarded_connection.rs:65-66, commands/consent.rs:446), and the first to end opens the
  window of the other, although "writes do not resume until erase has actually finished".
* `RevokedLaunchIsErasedOrMarked`, the constants of `ConsentErasure.cfg`: a crash between the revoked record
  (consent.rs:260-263) and the marker (commands/consent.rs:509) leaves the data and
  nothing that retries.
* `AnnouncedMeansErased`, the loop alone, no restart and no store failure. A peer whose
  own consent is withdrawn skips the merge and answers 200 (sync_merger.rs:147-151,
  handlers.rs:453-461), so that an erasure can be struck off though nobody applied it; a
  peer that the event missed keeps its rows; a changeset extracted before arrives after.
  With two revocations and two wipes the event can also be pushed with the anchor of the
  erasure before (sync_engine.rs:518, 523), because Phase-1 has not written the new one
  yet.
* `OfflinePeerConverges`, `FairSpec`, two peers, the loop alone, one revocation, one wipe,
  no restart or failure: a peer that missed the event waits for a stream that is closed
  without consent, and the delivery to the other peer marked the event for both
  (retention.rs:554-555 expects the stream to do it).
* `OverrideStaysDeleted`, the constants of `SyncMesh.cfg`: the deletion of an override is
  stamped by the deleting device's clock, and a copy stamped by an author's clock that is
  ahead passes its tombstone (override_store_impl.rs:186 says it "orders above the row
  and every peer copy"). What does hold is `DeletedOverrideIsOlder`.
* `ServerRowsStayLocal`, the same constants: a server's suggestion "never propagates"
  (unified.rs:49), but `backfill_origin_device_id` gives it the device's id before an
  extraction, and its stamp (0, 0, id) is then above the zero watermark.
* "The commit then never runs" (oauth/mod.rs:655-656) when revoke aborts a flow, but a
  task aborted after its exchange still hands its first token to the blocking pool, and
  a flow that was cancelled and polled has left the map, so that revoke cannot abort it.
* A keychain write that timed out lands without the lock: after a sweep it brings the
  revoked grant back, and in the other direction the late delete of a revoke that failed
  can remove a key of the connection made since.
* A flow whose task ends before `start_flow` inserts it stays Pending in the map; the
  comment at oauth/mod.rs:367-372 expects the insert to win always.
* `save_suggestion_with_state` clears the status: a shutdown, or a snooze from storage,
  undoes on this device what the user did with a suggestion, and saves one that
  retention has deleted since, with a stamp above its tombstone. A peer keeps the higher
  status it has.
* A device takes no tombstone for rows of its own origin: the user's deletion of a
  peer's override reaches the other devices, and not the one that made it.
* The push watermark is the maximum over rows of every origin, so that merged rows can
  put it above rows of the device's own that were never pushed (sync_engine.rs:417). The
  peers' pulls make up for it.
* With three devices the pull walk goes on from the lowest watermark of the peers that
  answered, which can be above rows that another peer got late; the next cycle starts
  from zero.
* An expired version of a suggestion can come back once a newer row has cleared its
  tombstone.
* A refresh result that belongs to the time before a reset is applied after it: a
  terminal one puts a freshly connected provider into the backoff of a year
  (refresh_coordinator.rs:151). Read errors of the keychain count as transient failures of
  the provider. A connect answer without `refresh_token` leaves the refresh token of the
  account before; one without `expires_in` leaves its expiry.
* A failed write of an enqueue leaves the message in memory: the producer queues the
  same insight again, and the server gets both.
* A crash between the subtraction and the delete of acknowledged messages can leave a
  backlog above the byte cap; the count cap is checked before the push, outside its lock,
  and concurrent calls can overshoot it.
* One message whose scope is not granted, or one candidate the policy denies, holds back
  all that come after it. `record_prompt_receipt` does not look at whether the prompt is
  pending: each answer to a prompt queues a receipt, the one whose prompt the inbox does
  not hold included.
* Within the session of an erasure the clock's floor is zero (hlc_clock.rs:112; only a
  start reads the anchor back): with the wall clock stepped back a row is stamped at
  or below the retained anchor, although hlc_clock.rs:152-154 says a write can never
  "stamp below a retained tombstone".
* `delete_date_dirs_chunked` (util.rs:162) logs a day directory it cannot remove and
  goes on: Phase-2 reports success, and the marker is cleared, with frames on disk.
  Phase-3 does the same with generated vault files it cannot list or read
  (memory_vault_writer.rs:584-628), and a retry after Phase-1 no longer has the stored
  root (commands/consent.rs:492-495).
* The upload queue's overshoot is not "limited to the number of concurrent callers"
  (batch_uploader.rs:147-150): with a queue of two, batches of two and one producer it
  takes four events. A requeue makes room by a load of the counter and then puts back a
  whole batch while a producer, having looked at the counter too, pushes. What does
  hold, with the batch in the bound, is the theorem `QueueIsBounded`.
* A requeue pushes the failed, older events at the back of the queue, and
  `drop_oldest` then evicts newer ones although batch_uploader.rs:388 says "Drop
  oldest entries".
* A re-prime retires the events the policy blocks at that moment, including those
  blocked only because upload was switched off, or consent withdrawn, since the check
  before the loop: their rows are stamped and never uploaded.
* Rows the server rejects for good stay unsent and, being the oldest, fill
  `REPRIME_LIMIT` at every start; network.rs:21-23 expects the remainder to be picked
  up by later restarts. `UnsentIsSettled` therefore assumes that the server accepts
  each event at some attempt.
* `deletion_flag` is stored outside the guard, so overlapping transitions can
  leave it reversed.
* The gated tick takes no `cycle_lock`, so it and `trigger_sync_cycle` can push
  the same event twice, and two erasures can leave one id in the store and the
  other in its mirror. Both are harmless to `MarkedWasConfirmed`: a second event
  repeats a delete that is bounded by the anchor.
* A data push that extracted its rows before the revocation can reach a peer
  after the DeletionEvent; the peer has no tombstone for rows it has not seen, and takes
  them. What holds is `ErasedStaysCovered`: this device keeps a tombstone that a later
  pull under consent delivers.

## 4. Proofs

TLAPS proves, for every value of the constants that satisfies the `ASSUME`s:

* `HlcClockProofs`: `ClockInvariant`, and from it `TypeCorrect`, `FloorDominates`,
  `SeededFloor` and `FloorRises`. The invariant conjoins the types with the two
  safety parts. It is inductive because `NextStamp` is strictly above the floor in
  each of its three branches (lemma), and because the seed is the maximum of the
  floor, the rows and the anchor.
* `ConsentErasureProofs`: `MemoryAndDiskAgree`, for any sets of overlapping
  withdrawals and grants. `MemoryMatchesDisk` speaks of states with a free
  guard; the inductive `GuardInv` adds what holds inside: the command in
  persist or commit is the holder (`Holder`), memory and file agree when the
  holder has not written yet (`EnteredMatches`), and what the file says after it
  has (`GrantWritten`, `RevokeWritten`). `TypeCorrect`: the bound on the grants, and with
  it that an erasure id is the number of a grant, is not inductive, as several commands
  may be between the check of the bound and their save; `GrantsCounted` counts those on
  their way as well.
* `ErasureWindowProofs`: `ErasedStaysErased` and `ErasedGetsNothing`, for any set of
  grants and writers in flight, under the hypothesis `OneEraser` that withdrawals do
  not overlap (it cannot be dropped: with two, the first to end lowers the `erasing`
  of the other). That a store stays empty is not
  inductive; `WindowInv` relates the locks to the phases. The startup
  retry runs before commands are served (`BootAlone`), so only one erasure is in
  its window; its signal is up (`WindowOpen`); a phase that got a funnel's lock has
  no writer behind it and the signal turns away every later one (`FunnelsShut`);
  so the rows stay away (`RowsGone`), the mirror reads nothing (`SeenInRead`), and once
  Phase-3 had the root lock no cycle carries older text (`SweptQuiet`), whatever files the
  phase left. An erasure that skipped the root is not in `swept`, and nothing is said of
  the vault then.
* `ErasurePropagationProofs`: `EngineTypes`, where every stamp is a write's or a wipe's
  (`StampsCounted`); `MarkedIsConfirmed`, whose
  invariant adds that a call past its push carries a confirmed id; and
  `EngineImplementsDelivery`, the refinement `Spec => ErasureDelivery!Spec`:
  every step of the engine, a peer or the user maps to `Deliver`, `Audit`, `Mark`
  or a stutter. `confirmed` only grows, and only `PushEvent` adds to
  it, which the lemmas `OnlyPushConfirms` and `QuietStep` isolate.
  `ErasedIsCovered`, for any peers and keys: that a stamp is covered is not inductive,
  as the next wipe raises the anchor above stamps that were new. `CoverInv` adds that a
  stamp held or carried anywhere has been issued, and that one above the outbox belongs
  to a key this device still has a row of (`Known`), so that the wipe which would uncover
  it also writes the tombstone; `MovesKnown` says that events and changesets only move
  such stamps.
* `UploadSpoolProofs`: `SpoolTypes`, `CounterIsRight`, `SentIsUploaded`, `QueueIsBounded`, for any number
  of producers, any capacity and any bounds. `CounterSettles` speaks of states in
  which all loops are through; the inductive `CounterInv` says in every state that
  the counter is the queue's length, less the loops that have pushed and not
  counted (`At("add")`), plus those that have popped and not counted (`At("sub")`),
  plus what the sync loop's flush or requeue has in hand (`InHand`). The lemma
  `Counts` moves one loop between these sets; `BatchInv` says where a batch may exist.
  `SentWasUploaded` needs that a batch waiting for its stamp was accepted.
  `QueueIsBounded`: the queue holds at most its capacity, one event for each producer and
  the largest batch less one. The length is not inductive; `QueueInv` bounds it together
  with what is on its way into the queue: the loops that will push (`Waiting`), those that
  have evicted for their push (`Evicting`), and what a requeue puts back beyond what it
  still evicts (`Owed`). By `CounterInv` this sum is the counter plus the loops inside
  `enqueue` plus at most one batch, and it grows only where a load of the counter found
  room. That the load is not below the counter, though it wraps, is `LoadIsEnough`, and
  rests on `TicketInv`: the counter, with what may still be added to it, is at most the
  events captured and re-primed, which `WidthAssumption` puts below a `usize`.
* `SyncMeshProofs`: `ErasedIsApart`, `DeletedIsOlder`, `StatusIsKept`, for any devices,
  keys, stamps and cycles under way. `TombstoneExcludesRow` is not inductive: a device
  that marks a suggestion becomes its origin, so `TombsApart` says (`Apart`) that a
  tombstone beside a row is of neither the row's origin nor the device, or that both are
  the device's own and the row is above. For the second a re-save must be above the
  tombstone it ignores: `Issued` says that no copy, and no tombstone of a device's own,
  has a stamp its origin has not issued yet. That a deleted override is
  below its deletion needs more: an override is stamped once, so all its copies, stored
  or on the way, have one stamp (`OneStamp`, over `HasCopy`); what a device deleted is
  then either under its tombstone (`Under`) or all copies are above the deletion
  (`Above`), and a copy that passes the tombstone moves it from the one to the other.
  `CellsKnown` and `SetsKnown` say that a key never written has nothing anywhere.
  The lemma `ApplyCell` says what `apply_changes` does to one key; `ApplyStep`,
  `QuietStep`, `SuggestionPut` and `RemoveKeeps` treat merging, extracting, writing
  and deleting once each. `StatusIsKept` is about steps without a stamp of the device's
  own: merges lower no status, its own re-save does. `TypeCorrect`: a watermark is a maximum, which exists only
  over a finite set of stamps, hence `PairingAssumption` (a device is paired with
  finitely many others); a push that was delivered has its changeset (`DeliveredHasSet`),
  which the cycle's end reads.
* `OAuthTokensProofs`: `TypeCorrect`, `SweptStaysGone`, `ReplacedIsNotSent`, for any set of
  flows and of workers that outlive their timeout. `SweptNeverReturns` is strengthened by what each process has in hand: only the
  holder of the lock writes, sends or sweeps (`LockInv`); what a refresher sends is of a
  grant not swept since, is the newest of it and was stored (`SentInv`); a flow's grant
  is in no key before the flow writes it (`FlowInv`), and no worker has it either
  (`LateInv`); the stored refresh token is newer than every replaced one of its grant,
  but for the one being replaced (`NewestInv`). A late write is the exception the
  statements make: it takes what it brings back out of `swept` and `replaced`.
* `EgressOutboxProofs`: `NothingIsLost`, for any source, caps and batch size. The
  invariant adds that a call past its `Store` has its message safe (`StoredIsSafe`), that
  what a flush deletes is with the server (`AckedIsTaken`), and the same of the
  file as of the memory, since a crash makes the one the other (`SettledIsSafe`).
  `TypeCorrect`, `CounterIsExact`, `CapIsKept` and `CopiesAreBounded` have one invariant,
  `Ledger`. The counter is modular, so that it is exact only as long as it cannot wrap,
  and it cannot wrap only as long as it is exact: the two are proved together with a
  budget (`WithinBudget`): every insight and every answer is queued once, and once more
  for each failed write and each crash (`CopiesWithin`, where what is still to be queued
  is told by the checkpoint and by the step of the answer's call, `Outstanding`), so that all the bytes ever queued at once, with a
  reservation each, stay below the width (`WidthAssumption`: a `usize` has 64 bits).
  `QuietUntilReconciled` says that no call is under way when the first one after a start
  stores the sum. Sums are cardinalities of sets of cells, so that adding a message adds
  its size by the library's theorems on finite sets.

Model-checked only: the liveness properties (fairness and `ENABLED` are out of the
prover's reach) and the refuted statements. Every safety property of a passing run,
and the refinement, has its theorem.

## 5. Plan

Modelled in the order of what matters to the user's data: erasure, its propagation, the
upload, the exchange of rows, credentials, the outbox. Next, with what each is for:

1. `CircuitBreaker`: probes, late results and the self-heal window, composed with
   `UploadSpool`'s choice between `FlushStart` and `FlushSkipped`. Properties: an open
   breaker closes only after a probe of its own; a leaked probe slot does not block
   the uploader for ever.
2. `FeedbackRetry`: a volatile queue at its limit whose lock is released across the call.
3. `UpdateCoordinator`, `AutomationGate`, session and re-authentication: the state
   machines of the application.
4. The inbox and session coordinators of the integration runtime, of which
   `EgressOutbox` has the prompts' status and the gates only.

Theorems to add: an abstract at-least-once delivery for the outbox, and the proof that
`EgressOutbox` implements it.

----------------------------- MODULE UploadSpool -----------------------------
(***************************************************************************)
(* The upload spool: rows of the table events with their is_sent marker,   *)
(* BatchUploader's in-memory queue with its separate counter, the capture  *)
(* loops that save and enqueue events, and the scheduler's sync loop that  *)
(* re-primes the queue at start, flushes it and stamps what was uploaded.  *)
(*                                                                         *)
(* SegQueue and the atomic counter are lock-free: each pop, push, load,    *)
(* fetch_add and fetch_sub is a step of its own.  Whether a flush runs is  *)
(* up to the configuration, the schedule and the circuit breaker, which    *)
(* only choose between FlushStart and FlushSkipped.  An event is the       *)
(* number of its capture, which is also the order of the timestamps.       *)
(***************************************************************************)
EXTENDS Integers, Sequences, FiniteSets

CONSTANTS Producers,     \* the loops that capture events
          Sync,          \* the scheduler's sync loop
          MaxQueue,      \* max_queue_size
          MaxBatch,      \* max_batch_size
          SmallQueue,    \* a shorter queue is sent as a whole
          LargeQueue,    \* a longer queue is sent in double batches
          MaxRetries,    \* max_retries
          RePrimeLimit,  \* REPRIME_LIMIT
          MaxUnsent,     \* MAX_UNSENT_EVENTS_RETAINED
          Width,         \* the values of a usize
          MaxEvents,     \* bound: events captured
          MaxRevokes     \* bound: revocations

ASSUME SpoolAssumption ==
    /\ IsFiniteSet(Producers) /\ Sync \notin Producers
    /\ MaxQueue \in Nat \ {0} /\ MaxBatch \in Nat \ {0}
    /\ SmallQueue \in Nat /\ LargeQueue \in Nat /\ SmallQueue <= LargeQueue
    /\ MaxRetries \in Nat /\ RePrimeLimit \in 1 .. MaxQueue /\ MaxUnsent \in Nat
    /\ Width \in Nat /\ Width > MaxQueue
    /\ MaxEvents \in Nat /\ MaxRevokes \in Nat

\* A usize has more values than there are events, captured or re-primed, and loops.
ASSUME WidthAssumption == 2 * MaxEvents < Width /\ Cardinality(Producers) < Width

VARIABLES row,        \* per event: none, unsent (is_sent = 0) or sent
          made,       \* events captured so far
          queue,      \* SegQueue<QueuedUpload>
          size,       \* queue_size
          pc,         \* where each loop is
          item,       \* the event a loop is enqueueing; 0 for none
          todo,       \* pending rows the re-prime has not handled yet
          retire,     \* rows the re-prime found blocked by the policy
          batch,      \* the items of a flush
          want,       \* pops its loop has left
          moved,      \* items a requeue has evicted, then pushed
          attempt,    \* retries of the upload
          stopping,   \* the shutdown flush has begun
          consented,  \* telemetry consent, the part of the egress policy that is revoked
          flag,       \* deletion_flag
          erase,      \* none, open (a withdrawal before Phase-1) or marked for a launch
          revokes,    \* revocations so far
          uploaded,   \* history: events the server accepted
          retired,    \* history: rows stamped because the policy blocks them
          erased      \* history: events whose row a withdrawal erased

store   == <<row, made>>
cursor  == <<todo, retire, batch, want, moved, attempt>>
consent == <<consented, flag, erase, revokes, erased>>
history == <<uploaded, retired>>
vars    == <<store, queue, size, pc, item, cursor, stopping, consent, history>>

Loops  == Producers \cup {Sync}
Events == 1 .. MaxEvents
Steps  == {"idle", "saved", "pop", "sub", "push", "add",
           "start", "prime", "retire", "drain", "drained", "upload", "mark",
           "reload", "repop", "resub", "repush", "retain", "ended"}

Items(s)  == {s[i] : i \in 1 .. Len(s)}
Load      == size % Width      \* what a load of the counter returns
Unsent    == {e \in Events : row[e] = "unsent"}
Least(a, b) == IF a <= b THEN a ELSE b

\* with_conn runs its closure: neither deletion_flag nor erasing is up.
Writable == ~flag /\ erase # "open"

GoTo(l, from, to) == pc[l] = from /\ pc' = [pc EXCEPT ![l] = to]

\* Mutant: the stamp by time the code used to have: whatever was captured before now.
MarkAsSentByTime(ids) ==
    row' = [e \in Events |-> IF ids # {} /\ row[e] # "none" THEN "sent" ELSE row[e]]

\* UPDATE events SET is_sent = 1 WHERE event_id IN ids
MarkAsSent(ids) ==
    row' = [e \in Events |-> IF e \in ids /\ row[e] # "none" THEN "sent" ELSE row[e]]

Init == /\ row = [e \in Events |-> "none"] /\ made = 0
        /\ queue = <<>> /\ size = 0
        /\ pc = [l \in Loops |-> IF l = Sync THEN "start" ELSE "idle"]
        /\ item = [l \in Loops |-> 0]
        /\ todo = {} /\ retire = {} /\ batch = <<>>
        /\ want = 0 /\ moved = 0 /\ attempt = 0
        /\ stopping = FALSE
        /\ consented = TRUE /\ flag = FALSE /\ erase = "none" /\ revokes = 0 /\ erased = {}
        /\ uploaded = {} /\ retired = {}

-----------------------------------------------------------------------------
(* A capture loop: save the event, ask the policy, enqueue it.             *)

\* save_event; a failure is logged and the event is enqueued all the same.
Save(p) ==
    /\ made < MaxEvents /\ consented
    /\ GoTo(p, "idle", "saved")
    /\ made' = made + 1
    /\ item' = [item EXCEPT ![p] = made + 1]
    /\ \/ Writable /\ row' = [row EXCEPT ![made + 1] = "unsent"]
       \/ UNCHANGED row
    /\ UNCHANGED <<queue, size, cursor, stopping, consent, history>>

\* prepare_event_for_upload returns None: upload is off or the event is excluded.
Blocked(p) ==
    /\ GoTo(p, "saved", "idle")
    /\ item' = [item EXCEPT ![p] = 0]
    /\ UNCHANGED <<store, queue, size, cursor, stopping, consent, history>>

\* enqueue: the capacity check on a counter that others move.
Room == IF Load >= MaxQueue THEN "pop" ELSE "push"

Enqueue(p) ==
    /\ consented
    /\ GoTo(p, "saved", Room)
    /\ UNCHANGED <<store, queue, size, item, cursor, stopping, consent, history>>

\* drop_oldest(1)
Pop(l) ==
    /\ GoTo(l, "pop", IF queue = <<>> THEN "push" ELSE "sub")
    /\ queue' = IF queue = <<>> THEN queue ELSE Tail(queue)
    /\ UNCHANGED <<store, size, item, cursor, stopping, consent, history>>

\* Mutant: an eviction that forgets the counter.
SubForgotten(l) ==
    /\ GoTo(l, "sub", "push")
    /\ UNCHANGED <<store, queue, size, item, cursor, stopping, consent, history>>

Sub(l) ==
    /\ GoTo(l, "sub", "push")
    /\ size' = size - 1
    /\ UNCHANGED <<store, queue, item, cursor, stopping, consent, history>>

Push(l) ==
    /\ GoTo(l, "push", "add")
    /\ queue' = Append(queue, item[l])
    /\ UNCHANGED <<store, size, item, cursor, stopping, consent, history>>

Add(l) ==
    /\ GoTo(l, "add", IF l = Sync THEN "prime" ELSE "idle")
    /\ size' = size + 1
    /\ item' = [item EXCEPT ![l] = 0]
    /\ UNCHANGED <<store, queue, cursor, stopping, consent, history>>

-----------------------------------------------------------------------------
(* The sync loop's start: reprime_pending_uploads.                         *)

\* Upload is off, the query failed, or the write lock is closed to it.
NoRePrime ==
    /\ GoTo(Sync, "start", "idle")
    /\ UNCHANGED <<store, queue, size, item, cursor, stopping, consent, history>>

\* Mutant: a start that looks at no rows.
RePrimeNothing ==
    /\ consented /\ Writable
    /\ GoTo(Sync, "start", "prime")
    /\ UNCHANGED <<store, queue, size, item, cursor, stopping, consent, history>>

\* get_pending_events: the oldest unsent rows.
RePrime ==
    /\ consented /\ Writable
    /\ GoTo(Sync, "start", "prime")
    /\ todo' = {e \in Unsent : Cardinality({f \in Unsent : f < e}) < RePrimeLimit}
    /\ UNCHANGED <<store, queue, size, item, retire, batch, want, moved, attempt, stopping,
                   consent, history>>

Oldest(e) == e \in todo /\ \A f \in todo : e <= f

PrimeEnqueue ==
    /\ consented
    /\ GoTo(Sync, "prime", Room)
    /\ \E e \in todo : /\ Oldest(e)
                       /\ item' = [item EXCEPT ![Sync] = e]
                       /\ todo' = todo \ {e}
    /\ UNCHANGED <<store, queue, size, retire, batch, want, moved, attempt, stopping,
                   consent, history>>

PrimeBlocked ==
    /\ pc[Sync] = "prime"
    /\ \E e \in todo : Oldest(e) /\ todo' = todo \ {e} /\ retire' = retire \cup {e}
    /\ UNCHANGED <<store, queue, size, pc, item, batch, want, moved, attempt, stopping,
                   consent, history>>

PrimeDone ==
    /\ todo = {}
    /\ GoTo(Sync, "prime", IF retire = {} THEN "idle" ELSE "retire")
    /\ UNCHANGED <<store, queue, size, item, cursor, stopping, consent, history>>

\* mark_as_sent of what the policy blocks; it may fail.
Retire ==
    /\ GoTo(Sync, "retire", "idle")
    /\ retire' = {}
    /\ \/ Writable /\ MarkAsSent(retire) /\ retired' = retired \cup retire
       \/ UNCHANGED <<row, retired>>
    /\ UNCHANGED <<made, queue, size, item, todo, batch, want, moved, attempt, stopping,
                   consent, uploaded>>

-----------------------------------------------------------------------------
(* The sync loop's tick: BatchUploader::flush.                             *)

\* Where a flush that uploaded nothing, or failed, leaves the loop.
After == IF stopping THEN "ended" ELSE "retain"

\* compute_batch_size; without dynamic_batch, SmallQueue = 0 and no queue is large.
BatchSize(n) == IF n < SmallQueue THEN n
                ELSE IF n > LargeQueue THEN Least(2 * MaxBatch, n) ELSE MaxBatch

\* The egress gate is closed, the schedule mutes uploads, the counter reads zero
\* or the circuit breaker is open.
FlushSkipped ==
    /\ GoTo(Sync, "idle", After)
    /\ UNCHANGED <<store, queue, size, item, cursor, stopping, consent, history>>

FlushStart ==
    /\ consented \/ stopping
    /\ Load # 0
    /\ GoTo(Sync, "idle", "drain")
    /\ want' = Least(Load, BatchSize(Load))
    /\ UNCHANGED <<store, queue, size, item, todo, retire, batch, moved, attempt, stopping,
                   consent, history>>

DrainPop ==
    /\ pc[Sync] = "drain" /\ want > 0 /\ queue # <<>>
    /\ batch' = Append(batch, Head(queue))
    /\ queue' = Tail(queue)
    /\ want' = want - 1
    /\ UNCHANGED <<store, size, pc, item, todo, retire, moved, attempt, stopping, consent,
                   history>>

\* Other loops may have emptied the queue meanwhile.
DrainDone ==
    /\ want = 0 \/ queue = <<>>
    /\ GoTo(Sync, "drain", IF batch = <<>> THEN After ELSE "drained")
    /\ want' = 0
    /\ UNCHANGED <<store, queue, size, item, todo, retire, batch, moved, attempt, stopping,
                   consent, history>>

Drained ==
    /\ GoTo(Sync, "drained", "upload")
    /\ size' = size - Len(batch)
    /\ UNCHANGED <<store, queue, item, cursor, stopping, consent, history>>

UploadOk ==
    /\ GoTo(Sync, "upload", "mark")
    /\ uploaded' = uploaded \cup Items(batch)
    /\ attempt' = 0
    /\ UNCHANGED <<store, queue, size, item, todo, retire, batch, want, moved, stopping,
                   consent, retired>>

\* Mutant: one retry too many.
UploadFailsTooOften ==
    /\ GoTo(Sync, "upload", IF attempt <= MaxRetries THEN "upload" ELSE "reload")
    /\ attempt' = IF attempt <= MaxRetries THEN attempt + 1 ELSE 0
    /\ uploaded' \in {uploaded, uploaded \cup Items(batch)}
    /\ UNCHANGED <<store, queue, size, item, todo, retire, batch, want, moved, stopping,
                   consent, retired>>

\* A retryable error; the server may have accepted the batch.
UploadFails ==
    /\ GoTo(Sync, "upload", IF attempt < MaxRetries THEN "upload" ELSE "reload")
    /\ attempt' = IF attempt < MaxRetries THEN attempt + 1 ELSE 0
    /\ uploaded' \in {uploaded, uploaded \cup Items(batch)}
    /\ UNCHANGED <<store, queue, size, item, todo, retire, batch, want, moved, stopping,
                   consent, retired>>

\* A permanent error drops the batch from the queue; its rows stay unsent.
UploadRejected ==
    /\ GoTo(Sync, "upload", After)
    /\ batch' = <<>> /\ attempt' = 0
    /\ UNCHANGED <<store, queue, size, item, todo, retire, want, moved, stopping, consent,
                   history>>

\* mark_as_sent of exactly the uploaded rows; it may fail.
Mark ==
    /\ GoTo(Sync, "mark", IF stopping THEN "idle" ELSE "retain")
    /\ batch' = <<>>
    /\ \/ Writable /\ MarkAsSent(Items(batch))
       \/ UNCHANGED row
    /\ UNCHANGED <<made, queue, size, item, todo, retire, want, moved, attempt, stopping,
                   consent, history>>

-----------------------------------------------------------------------------
(* requeue_failed_events: make room on a loaded counter, push, then count. *)

ReLoad ==
    /\ GoTo(Sync, "reload", "repop")
    /\ LET after == (Load + Len(batch)) % Width
       IN  want' = IF after > MaxQueue THEN after - MaxQueue ELSE 0
    /\ moved' = 0
    /\ UNCHANGED <<store, queue, size, item, todo, retire, batch, attempt, stopping, consent,
                   history>>

RePop ==
    /\ pc[Sync] = "repop" /\ want > 0 /\ queue # <<>>
    /\ queue' = Tail(queue)
    /\ want' = want - 1 /\ moved' = moved + 1
    /\ UNCHANGED <<store, size, pc, item, todo, retire, batch, attempt, stopping, consent,
                   history>>

RePopDone ==
    /\ want = 0 \/ queue = <<>>
    /\ GoTo(Sync, "repop", "resub")
    /\ want' = 0
    /\ UNCHANGED <<store, queue, size, item, todo, retire, batch, moved, attempt, stopping,
                   consent, history>>

ReSub ==
    /\ GoTo(Sync, "resub", "repush")
    /\ size' = size - moved
    /\ moved' = 0
    /\ UNCHANGED <<store, queue, item, todo, retire, batch, want, attempt, stopping, consent,
                   history>>

RePush ==
    /\ moved < Len(batch)
    /\ pc[Sync] = "repush"
    /\ queue' = Append(queue, batch[moved + 1])
    /\ moved' = moved + 1
    /\ UNCHANGED <<store, size, pc, item, todo, retire, batch, want, attempt, stopping,
                   consent, history>>

ReAdd ==
    /\ moved = Len(batch)
    /\ GoTo(Sync, "repush", After)
    /\ size' = size + Len(batch)
    /\ batch' = <<>> /\ moved' = 0
    /\ UNCHANGED <<store, queue, item, todo, retire, want, attempt, stopping, consent, history>>

-----------------------------------------------------------------------------
(* The rest of the tick, the shutdown, and what happens around the loops.  *)

\* enforce_retention: sent rows by age, unsent rows over the cap; it may fail.
Retain ==
    /\ GoTo(Sync, "retain", "idle")
    /\ \/ /\ Writable
          /\ \E cutoff \in 0 .. made :
                row' = [e \in Events |->
                          IF \/ row[e] = "sent" /\ e <= cutoff
                             \/ e \in Unsent /\ Cardinality({f \in Unsent : f > e}) >= MaxUnsent
                          THEN "none" ELSE row[e]]
       \/ UNCHANGED row
    /\ UNCHANGED <<made, queue, size, item, cursor, stopping, consent, history>>

\* The loop sees the shutdown signal between two ticks, asks the policy once, and
\* then flushes until there is nothing left or a flush fails.
Shutdown ==
    /\ ~stopping /\ stopping' = TRUE
    /\ \/ consented /\ GoTo(Sync, "idle", "idle")
       \/ GoTo(Sync, "idle", "ended")
    /\ UNCHANGED <<store, queue, size, item, cursor, consent, history>>

\* delete_all_data_inner, on the table events
WipeRows == /\ row' = [e \in Events |-> "none"]
            /\ erased' = erased \cup {e \in Events : row[e] # "none"}

\* The process ends, in any state, and is launched again: the rows are left.  Before
\* the loops start, a withdrawal that left its marker is retried, with or without
\* success; one that was cut short before the marker is forgotten.
Relaunch ==
    /\ queue' = <<>> /\ size' = 0
    /\ pc' = [l \in Loops |-> IF l = Sync THEN "start" ELSE "idle"]
    /\ item' = [l \in Loops |-> 0]
    /\ todo' = {} /\ retire' = {} /\ batch' = <<>>
    /\ want' = 0 /\ moved' = 0 /\ attempt' = 0
    /\ stopping' = FALSE /\ flag' = FALSE
    /\ \/ erase # "none" /\ WipeRows /\ erase' \in {"none", "marked"}
       \/ erase # "none" /\ erase' = "marked" /\ UNCHANGED <<row, erased>>
       \/ erase # "marked" /\ erase' = "none" /\ UNCHANGED <<row, erased>>
    /\ UNCHANGED <<made, consented, revokes, history>>

\* withdraw_consent: the revocation opens the erase window.
Revoke ==
    /\ revokes < MaxRevokes /\ consented /\ erase # "open"
    /\ consented' = FALSE /\ flag' = TRUE /\ erase' = "open" /\ revokes' = revokes + 1
    /\ UNCHANGED <<store, queue, size, pc, item, cursor, stopping, erased, history>>

\* Phase-1; the marker stays when it fails, or when a later phase does.
Wipe ==
    /\ erase = "open"
    /\ \/ WipeRows /\ erase' \in {"none", "marked"}
       \/ erase' = "marked" /\ UNCHANGED <<row, erased>>
    /\ UNCHANGED <<made, queue, size, pc, item, cursor, stopping, consented, flag, revokes,
                   history>>

Grant ==
    /\ ~consented
    /\ consented' = TRUE /\ flag' = FALSE
    /\ UNCHANGED <<store, queue, size, pc, item, cursor, stopping, erase, revokes, erased,
                   history>>

Produce(p) == Save(p) \/ Blocked(p) \/ Enqueue(p)
EnqueueStep(l) == Pop(l) \/ Sub(l) \/ Push(l) \/ Add(l)
SyncStep == \/ NoRePrime \/ RePrime \/ PrimeEnqueue \/ PrimeBlocked \/ PrimeDone \/ Retire
            \/ FlushSkipped \/ FlushStart \/ DrainPop \/ DrainDone \/ Drained
            \/ UploadOk \/ UploadFails \/ UploadRejected \/ Mark
            \/ ReLoad \/ RePop \/ RePopDone \/ ReSub \/ RePush \/ ReAdd
            \/ Retain \/ Shutdown

Next == \/ \E p \in Producers : Produce(p)
        \/ \E l \in Loops : EnqueueStep(l)
        \/ SyncStep
        \/ Relaunch
        \/ Revoke \/ Wipe \/ Grant

Spec == Init /\ [][Next]_vars

\* The loops run, the user quits and starts the
\* application again and again, upload is enabled and the server accepts each event
\* at some of its attempts, a store asked again and again answers, and the process
\* does not crash for ever.
Fairness == /\ WF_vars(SyncStep) /\ \A l \in Loops : WF_vars(EnqueueStep(l))
            /\ SF_vars(Shutdown) /\ WF_vars(pc[Sync] = "ended" /\ Relaunch)
            /\ SF_vars(RePrime) /\ SF_vars(Retire /\ row' # row)
            /\ SF_vars(FlushStart) /\ SF_vars(Mark /\ row' # row)
            /\ \A e \in Events : SF_vars(e \in Items(batch) /\ UploadOk)
            /\ <>[][pc[Sync] \notin {"start", "ended"} => pc'[Sync] # "start"]_pc

FairSpec == Spec /\ Fairness

-----------------------------------------------------------------------------
TypeOK ==
    /\ row \in [Events -> {"none", "unsent", "sent"}] /\ made \in 0 .. MaxEvents
    /\ queue \in Seq(Events) /\ size \in Int
    /\ pc \in [Loops -> Steps] /\ item \in [Loops -> 0 .. MaxEvents]
    /\ todo \subseteq Events /\ retire \subseteq Events /\ batch \in Seq(Events)
    /\ want \in Nat /\ moved \in Nat /\ attempt \in 0 .. MaxRetries
    /\ stopping \in BOOLEAN /\ consented \in BOOLEAN /\ flag \in BOOLEAN
    /\ erase \in {"none", "open", "marked"}
    /\ revokes \in 0 .. MaxRevokes
    /\ uploaded \subseteq Events /\ retired \subseteq Events /\ erased \subseteq Events

\* "Sent markers are written only after success" (docs/guides/uiux-qa-sheet.md:105):
\* whatever was dropped, requeued, lost in a crash or re-primed, a row is stamped
\* only when the server accepted its event or the re-prime retired it.
SentWasUploaded ==
    \A e \in Events : row[e] = "sent" => e \in uploaded \cup retired

\* Nobody is between a change of the queue and its change of the counter.
Settled == /\ \A l \in Loops : pc[l] \notin {"sub", "add"}
           /\ pc[Sync] \notin {"drain", "drained", "repop", "resub", "repush"}

\* The counter and the queue, changed in separate steps by several loops, agree
\* whenever these steps are done (batch_uploader.rs:164, 205, 311, 398).
CounterSettles == Settled => size = Len(queue)

\* "queued data must be purged before the next upload cycle" (consent.rs:116-117):
\* no tick starts a flush on a queue that holds an erased event.
ErasedIsPurged ==
    [][~stopping /\ pc[Sync] = "idle" /\ pc'[Sync] = "drain"
          => Items(queue) \cap erased = {}]_vars

\* What the re-prime is for (network.rs:98-102): an unsent event, though evicted,
\* rejected, left in the queue at shutdown or lost with the process, is uploaded
\* and stamped in the end, unless the policy takes it first or consent is
\* withdrawn.
UnsentIsSettled ==
    [](revokes = 0) => \A e \in Events : row[e] = "unsent" ~> row[e] # "unsent"
=============================================================================

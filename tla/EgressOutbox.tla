---------------------------- MODULE EgressOutbox ----------------------------
(***************************************************************************)
(* The outbox of the integration runtime: insights a producer loop takes   *)
(* from a local source behind a checkpoint, receipts for the answers the   *)
(* user gives to prompts, one flush at a time that sends the oldest        *)
(* messages and deletes what the server acknowledged, and the registry     *)
(* file they all write.                                                    *)
(*                                                                         *)
(* The registry is one structure behind a mutex.  Every operation changes  *)
(* it in memory and then writes the whole of it to disk; when the write    *)
(* fails the caller gets the error and the change stays in memory.  The    *)
(* byte counter of the coordinator is an atomic beside the registry, so an *)
(* enqueue is a sequence of separate steps: count, reserve, store and, on  *)
(* an error, give the reservation back.                                    *)
(***************************************************************************)
EXTENDS Naturals, FiniteSetsExt

CONSTANTS
    Candidates,   \* number of insights the source holds, by source cursor
    Receipts,     \* answers the user gives, each a call with a receipt_id of its own
    Producer,     \* the producer loop
    SizeOf,       \* serialized bytes of the message for an insight or receipt
    MaxItems,     \* MAX_OUTBOX_ITEMS
    MaxBytes,     \* MAX_OUTBOX_BYTES
    MaxBatch,     \* max_batch_size of a flush
    Wrap,         \* 2^64: the counter is a usize
    MaxFaults,    \* bound: registry writes that fail
    MaxRestarts   \* bound: crashes of the process

Sources == (1 .. Candidates) \cup Receipts
Callers == {Producer} \cup Receipts

ASSUME CandidatesAssumption == Candidates \in Nat
ASSUME CallersAssumption == /\ Producer \notin Receipts
                            /\ Receipts \cap Nat = {}
                            /\ IsFiniteSet(Receipts)
ASSUME SizeAssumption == SizeOf \in [Sources -> Nat \ {0}]
ASSUME LimitsAssumption == /\ MaxItems \in Nat \ {0}
                           /\ MaxBytes \in Nat
                           /\ MaxBatch \in Nat \ {0}
                           /\ Wrap \in Nat
                           /\ MaxBytes < Wrap
ASSUME BoundsAssumption == MaxFaults \in Nat /\ MaxRestarts \in Nat

\* The sum of a finite function to Nat, counted cell by cell.
Total(size) == Cardinality(UNION {{x} \X (1 .. size[x]) : x \in DOMAIN size})

\* A message is pushed once, and once more for every fault or crash that hides
\* the first push from its caller: all of that, and one reservation each, is
\* less than a 64-bit counter holds.
ASSUME WidthAssumption == (2 + MaxFaults + MaxRestarts) * Total(SizeOf) < Wrap

VARIABLES
    mem,         \* the registry in memory
    disk,        \* the registry file
    bytes,       \* pending_bytes
    reconciled,  \* the OnceCell of reconcile_pending_bytes
    pc,          \* where each caller of enqueue_message is
    flush,       \* where the flush is
    batch,       \* the messages it sent
    acked,       \* the ones the response acknowledges
    taken,       \* history: insights and receipts the server has
    lostSave,    \* history: a store's write failed since the last launch
    faults,      \* registry writes that failed
    restarts     \* crashes so far

vars == <<mem, disk, bytes, reconciled, pc, flush, batch, acked, taken,
          lostSave, faults, restarts>>
counterVars == <<bytes, reconciled>>
flushVars == <<flush, batch, acked>>
historyVars == <<taken, restarts>>

-----------------------------------------------------------------------------
(* The registry. *)

\* A queued message.  The outbox is pushed at its end only, so a position that
\* grows with every push stands for the order of the vector and for queue_id.
Item == [src : Sources, pos : Nat \ {0}]

\* outbox, producer_checkpoints (of the one source) and the answers that the
\* inbox has recorded as the status of their prompt.
Registry == [outbox : SUBSET Item, checkpoint : 0 .. Candidates,
             done : SUBSET Receipts]
EmptyRegistry == [outbox |-> {}, checkpoint |-> 0, done |-> {}]

\* The serialized bytes of a message and of a set of messages.
SizeOfItem(i) == SizeOf[i.src]
Bytes(items) == Total([i \in items |-> SizeOfItem(i)])

\* The message pushed next: a new place after every message queued.
Pushed(src) ==
    [src |-> src, pos |-> 1 + Max({i.pos : i \in mem.outbox} \cup {0})]

\* The oldest MaxBatch messages: list_pending(max_batch_size).
Oldest == {i \in mem.outbox :
              Cardinality({j \in mem.outbox : j.pos < i.pos}) < MaxBatch}

\* save_registry: the file gets everything the memory holds, whatever operation
\* the write belongs to, or the write fails and the memory keeps the change.
Saved(reg) == /\ mem' = reg
              /\ disk' = reg
              /\ faults' = faults
NotSaved(reg) == /\ faults < MaxFaults
                 /\ mem' = reg
                 /\ disk' = disk
                 /\ faults' = faults + 1
NoWrite == UNCHANGED <<mem, disk, faults>>

-----------------------------------------------------------------------------
TypeOK ==
    /\ mem \in Registry
    /\ disk \in Registry
    /\ bytes \in 0 .. Wrap - 1
    /\ reconciled \in BOOLEAN
    /\ pc \in [Callers -> {"idle", "count", "reserve", "store", "rollback",
                           "audit", "checkpoint", "mark", "ended"}]
    /\ flush \in {"idle", "sent", "decrement", "delete"}
    /\ batch \subseteq Item
    /\ acked \subseteq batch
    /\ taken \subseteq Sources
    /\ lostSave \in BOOLEAN
    /\ faults \in 0 .. MaxFaults
    /\ restarts \in 0 .. MaxRestarts

Init ==
    /\ mem = EmptyRegistry
    /\ disk = EmptyRegistry
    /\ bytes = 0
    /\ reconciled = FALSE
    /\ pc = [p \in Callers |-> "idle"]
    /\ flush = "idle"
    /\ batch = {}
    /\ acked = {}
    /\ taken = {}
    /\ lostSave = FALSE
    /\ faults = 0
    /\ restarts = 0

-----------------------------------------------------------------------------
(* Enqueueing. *)

\* What caller p is queueing: the producer the candidate after its checkpoint.
Source(p) == IF p = Producer THEN mem.checkpoint + 1 ELSE p

Goto(p, step) == pc' = [pc EXCEPT ![p] = step]

\* reconcile_pending_bytes: once per launch, callers that come meanwhile wait.
Reconcile ==
    /\ reconciled' = TRUE
    /\ bytes' = IF reconciled THEN bytes ELSE Bytes(mem.outbox)

\* The source lists the candidates after the checkpoint.  An answer is queued
\* whatever the state of its prompt: nothing looks whether it is still pending,
\* and the user may acknowledge and dismiss the same one.
HasWork(p) == p = Producer => mem.checkpoint < Candidates

\* Where a call returns to: the producer has a next cycle, an answer is one call
\* and a retry of it is another one, with a new receipt.
Returned(p) == IF p = Producer THEN "idle" ELSE "ended"

\* enqueue_message begins, past the consent gate and the egress policy.
Begin(p) ==
    /\ pc[p] = "idle"
    /\ HasWork(p)
    /\ Reconcile
    /\ Goto(p, "count")
    /\ UNCHANGED <<mem, disk, flushVars, historyVars, lostSave, faults>>

\* The count cap, read outside the lock under which the message is pushed.
CountCheck(p) ==
    /\ pc[p] = "count"
    /\ Goto(p, IF Cardinality(mem.outbox) >= MaxItems THEN Returned(p) ELSE "reserve")
    /\ UNCHANGED <<mem, disk, counterVars, flushVars, historyVars, lostSave, faults>>

\* Mutant: the cap is compared with the total before the reservation.
ReserveOldTotal(p) ==
    /\ pc[p] = "reserve"
    /\ bytes' = (bytes + SizeOf[Source(p)]) % Wrap
    /\ Goto(p, IF bytes > MaxBytes THEN "rollback" ELSE "store")
    /\ UNCHANGED <<mem, disk, reconciled, flushVars, historyVars, lostSave, faults>>

\* fetch_add, then the byte cap on the total it returned.
Reserve(p) ==
    /\ pc[p] = "reserve"
    /\ bytes' = (bytes + SizeOf[Source(p)]) % Wrap
    /\ Goto(p, IF bytes' > MaxBytes THEN "rollback" ELSE "store")
    /\ UNCHANGED <<mem, disk, reconciled, flushVars, historyVars, lostSave, faults>>

\* Mutant: the push is left to the next write of the registry.
StoreInMemory(p) ==
    /\ pc[p] = "store"
    /\ mem' = [mem EXCEPT !.outbox = @ \cup {Pushed(Source(p))}]
    /\ Goto(p, IF p = Producer THEN "audit" ELSE "mark")
    /\ UNCHANGED <<disk, counterVars, flushVars, historyVars, lostSave, faults>>

\* enqueue_outbox_sync.  On an error the reservation is given back although the
\* message stays in the outbox in memory.  (prune_outbox_locked does nothing here:
\* max_outbox_messages lies above MAX_OUTBOX_ITEMS.)
Store(p) ==
    LET reg == [mem EXCEPT !.outbox = @ \cup {Pushed(Source(p))}]
    IN /\ pc[p] = "store"
       /\ \/ /\ Saved(reg)
             /\ Goto(p, IF p = Producer THEN "audit" ELSE "mark")
             /\ lostSave' = lostSave
          \/ /\ NotSaved(reg)
             /\ Goto(p, "rollback")
             /\ lostSave' = TRUE
       /\ UNCHANGED <<counterVars, flushVars, historyVars>>

\* fetch_sub of the reservation, which wraps; the caller gets the error.
Rollback(p) ==
    /\ pc[p] = "rollback"
    /\ bytes' = (bytes + Wrap - SizeOf[Source(p)]) % Wrap
    /\ Goto(p, Returned(p))
    /\ UNCHANGED <<mem, disk, reconciled, flushVars, historyVars, lostSave, faults>>

\* Mutant: the cycle ends before the checkpoint moves.
AuditEndsCycle ==
    /\ pc[Producer] = "audit"
    /\ Saved(mem) \/ NotSaved(mem)
    /\ Goto(Producer, "idle")
    /\ UNCHANGED <<counterVars, flushVars, historyVars, lostSave>>

\* record_insight_decision, after the message is queued: a policy that asks for
\* no audit writes nothing, an error ends the cycle before the checkpoint moves.
Audit ==
    /\ pc[Producer] = "audit"
    /\ \/ Saved(mem) /\ Goto(Producer, "checkpoint")
       \/ NoWrite /\ Goto(Producer, "checkpoint")
       \/ NotSaved(mem) /\ Goto(Producer, "idle")
    /\ UNCHANGED <<counterVars, flushVars, historyVars, lostSave>>

\* store_checkpoint: either way the producer goes on from the new checkpoint, on
\* an error in its next cycle.
Checkpoint ==
    LET reg == [mem EXCEPT !.checkpoint = @ + 1]
    IN /\ pc[Producer] = "checkpoint"
       /\ Saved(reg) \/ NotSaved(reg)
       /\ Goto(Producer, "idle")
       /\ UNCHANGED <<counterVars, flushVars, historyVars, lostSave>>

\* update_status of the prompt, once the receipt is queued: an error, with nothing
\* written, when the inbox does not hold the prompt.
Mark(r) ==
    LET reg == [mem EXCEPT !.done = @ \cup {r}]
    IN /\ pc[r] = "mark"
       /\ Saved(reg) \/ NotSaved(reg) \/ NoWrite
       /\ Goto(r, Returned(r))
       /\ UNCHANGED <<counterVars, flushVars, historyVars, lostSave>>

-----------------------------------------------------------------------------
(* Flushing: the runtime loop runs one flush at a time. *)

\* Mutant: a flush waits for a full batch.
SendFullBatch ==
    /\ flush = "idle"
    /\ Cardinality(mem.outbox) >= MaxBatch
    /\ Reconcile
    /\ batch' = Oldest
    /\ flush' = "sent"
    /\ UNCHANGED <<mem, disk, pc, acked, historyVars, lostSave, faults>>

\* flush up to send_messages, with a ready session whose scopes cover the batch.
Send ==
    /\ flush = "idle"
    /\ mem.outbox # {}
    /\ Reconcile
    /\ batch' = Oldest
    /\ flush' = "sent"
    /\ UNCHANGED <<mem, disk, pc, acked, historyVars, lostSave, faults>>

\* Mutant: the acknowledged ids outlive the flush.
EndFlushKeepsAcked == /\ flush' = "idle"
                      /\ batch' = {}
                      /\ acked' = acked

\* The flush returns: the next one starts from the outbox.
EndFlush == /\ flush' = "idle"
            /\ batch' = {}
            /\ acked' = {}

\* The server took some of the batch and the response acknowledges some of that.
Respond(got, named) ==
    /\ flush = "sent"
    /\ taken' = taken \cup {i.src : i \in got}
    /\ IF named = {}
         THEN EndFlush
         ELSE flush' = "decrement" /\ acked' = named /\ batch' = batch
    /\ UNCHANGED <<mem, disk, counterVars, pc, lostSave, faults, restarts>>

\* Mutant: the whole batch is subtracted, not what was acknowledged.
DecrementBatch ==
    /\ flush = "decrement"
    /\ bytes' = IF Bytes(batch) > bytes THEN 0 ELSE bytes - Bytes(batch)
    /\ flush' = "delete"
    /\ UNCHANGED <<mem, disk, reconciled, pc, batch, acked, historyVars, lostSave, faults>>

\* The saturating subtraction of the acknowledged bytes.
Decrement ==
    /\ flush = "decrement"
    /\ bytes' = IF Bytes(acked) > bytes THEN 0 ELSE bytes - Bytes(acked)
    /\ flush' = "delete"
    /\ UNCHANGED <<mem, disk, reconciled, pc, batch, acked, historyVars, lostSave, faults>>

\* delete_outbox_sync by queue id; on an error the messages are still on disk.
Delete ==
    /\ flush = "delete"
    /\ LET reg == [mem EXCEPT !.outbox = @ \ acked]
       IN Saved(reg) \/ NotSaved(reg)
    /\ EndFlush
    /\ UNCHANGED <<counterVars, pc, historyVars, lostSave>>

-----------------------------------------------------------------------------
\* Any other write of the registry (heartbeat, inbox, cursors) writes all of it.
SaveElsewhere ==
    /\ mem # disk
    /\ Saved(mem)
    /\ UNCHANGED <<counterVars, pc, flushVars, historyVars, lostSave>>

\* The process dies, with whatever it had in memory and the calls in progress,
\* and is launched again.
Restart ==
    /\ restarts < MaxRestarts
    /\ restarts' = restarts + 1
    /\ mem' = disk
    /\ bytes' = 0
    /\ reconciled' = FALSE
    /\ pc' = [p \in Callers |-> IF pc[p] = "idle" THEN "idle" ELSE Returned(p)]
    /\ EndFlush
    /\ lostSave' = FALSE
    /\ UNCHANGED <<disk, taken, faults>>

Enqueue(p) == Begin(p) \/ CountCheck(p) \/ Reserve(p) \/ Store(p) \/ Rollback(p)
ProducerStep == Enqueue(Producer) \/ Audit \/ Checkpoint
ReceiptStep(r) == Enqueue(r) \/ Mark(r)
FlushStep ==
    \/ Send
    \/ \E got \in SUBSET batch : \E named \in SUBSET got : Respond(got, named)
    \/ Decrement
    \/ Delete

Next ==
    \/ ProducerStep
    \/ \E r \in Receipts : ReceiptStep(r)
    \/ FlushStep
    \/ SaveElsewhere
    \/ Restart

Spec == Init /\ [][Next]_vars

\* The loops keep running; a server that is asked again and again answers again
\* and again with the whole batch acknowledged.
FairSpec ==
    /\ Spec
    /\ WF_vars(ProducerStep)
    /\ \A r \in Receipts : WF_vars(pc[r] # "idle" /\ ReceiptStep(r))
    /\ WF_vars(FlushStep)
    /\ SF_vars(Respond(batch, batch))

-----------------------------------------------------------------------------
(* Properties. *)

Queued(src, reg) == \E i \in reg.outbox : i.src = src

\* What a registry holds to be handed over: insights its checkpoint has passed
\* and answers its inbox shows.
Settled(reg) == (1 .. reg.checkpoint) \cup reg.done

\* Nothing is handed over and lost: an insight the checkpoint has passed, or the
\* receipt of an answer the inbox shows, is with the server or queued in memory
\* and on disk, whatever write failed and wherever the process died.
NothingLost ==
    \A s \in Settled(mem) \cup Settled(disk) :
        s \in taken \/ (Queued(s, mem) /\ Queued(s, disk))

\* The messages queued for one source.
Copies(src, reg) == Cardinality({i \in reg.outbox : i.src = src})

\* An insight is queued again only when something went wrong in between: without
\* a failed write or a crash it is queued once, and each of those adds at most
\* one copy.  (A prompt has no such bound: each answer queues a receipt.)
CopiesBounded ==
    \A c \in 1 .. Candidates : Copies(c, mem) <= 1 + faults + restarts

\* The bytes reserved by calls that have not stored or given back.
Reserved(steps) ==
    Total([p \in {q \in Callers : pc[q] \in steps} |-> SizeOf[Source(p)]])

\* Messages whose bytes are already subtracted and which are still queued.
Leaving == IF flush = "delete" THEN acked ELSE {}

\* pending_bytes is what the outbox holds plus what is reserved, through every
\* interleaving of enqueues, flushes, partial acknowledgements and restarts,
\* unless a store's write failed since the launch.
BytesExact ==
    reconciled /\ ~lostSave =>
        bytes + Bytes(Leaving) = Bytes(mem.outbox) + Reserved({"store", "rollback"})

\* The byte cap: whatever calls have passed it at once, what they are about to
\* store fits with what is queued.  (A crash between the subtraction and the
\* delete can leave a backlog above the cap; nothing is admitted to it then.)
WithinByteCap ==
    Reserved({"store"}) > 0 /\ ~lostSave =>
        Bytes(mem.outbox \ Leaving) + Reserved({"store"}) <= MaxBytes

\* Every insight reaches the server, through crashes, partial answers and a full
\* outbox, if no store's write fails.
InsightsDelivered == []~lostSave => <>(1 .. Candidates \subseteq taken)

\* "must NOT underflow the unsigned counter": the counter never exceeds what is
\* queued and reserved, as it does once it has wrapped.
NoUnderflow ==
    reconciled => bytes <= Bytes(mem.outbox) + Reserved({"store", "rollback"})
=============================================================================

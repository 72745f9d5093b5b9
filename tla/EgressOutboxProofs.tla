------------------------- MODULE EgressOutboxProofs -------------------------
(***************************************************************************)
(* What the outbox promises, for any number of insights, receipts, faults  *)
(* and crashes: nothing that was handed over is lost.  The invariant adds  *)
(* what the steps in progress rely on: a call that is past its store left  *)
(* its message in the file, and a flush deletes what the server has.       *)
(*                                                                         *)
(* The second part keeps the ledger of bytes: a sum over a finite set is   *)
(* the number of its cells, so that the facts about cardinalities carry    *)
(* the arithmetic of the counter through every step.                       *)
(***************************************************************************)
EXTENDS EgressOutbox, FiniteSetTheorems, WellFoundedInduction, TLAPS

\* Insight or receipt s is with the server or queued in memory and on disk.
Safe(s) == s \in taken \/ (Queued(s, mem) /\ Queued(s, disk))

\* A registry is a record of its three fields.
Shape(reg) ==
    /\ reg = [outbox |-> reg.outbox, checkpoint |-> reg.checkpoint, done |-> reg.done]
    /\ reg.checkpoint \in Nat

Shapes == Shape(mem) /\ Shape(disk) /\ DOMAIN pc = Callers

\* A call that is past its store: the producer before its checkpoint, a receipt
\* before its prompt is marked.
StoredIsSafe ==
    /\ pc[Producer] \in {"audit", "checkpoint"} => Safe(mem.checkpoint + 1)
    /\ \A r \in Receipts : pc[r] = "mark" => Safe(r)

\* The server has what a response named.
AckedIsTaken == \A i \in acked : i.src \in taken

SettledIsSafe == \A s \in Settled(mem) \cup Settled(disk) : Safe(s)

Inv == Shapes /\ StoredIsSafe /\ AckedIsTaken /\ SettledIsSafe

\* The initial registry is empty and no call is in progress.
LEMMA InitInv == Init => Inv
BY CallersAssumption
DEF Init, Inv, Shapes, Shape, EmptyRegistry, StoredIsSafe, AckedIsTaken,
    SettledIsSafe, Settled, Callers

\* Only the history, the counter and the calls before their store change.
LEMMA QuietStep ==
    ASSUME Inv, mem' = mem, disk' = disk, taken \subseteq taken',
           DOMAIN pc' = Callers,
           \A p \in Callers : pc'[p] \in {"audit", "checkpoint", "mark"} => pc'[p] = pc[p],
           \A i \in acked' : i.src \in taken'
    PROVE  Inv'
<1>1. Shapes'
  BY DEF Inv, Shapes, Shape
<1>2. \A s : Safe(s) => Safe(s)'
  BY DEF Safe, Queued
<1>3. StoredIsSafe'
  BY <1>2 DEF Inv, StoredIsSafe, Callers
<1>4. SettledIsSafe'
  BY <1>2 DEF Inv, SettledIsSafe, Settled
<1> QED
  BY <1>1, <1>3, <1>4 DEF Inv, AckedIsTaken
\* A write keeps what is safe, saved or not, when it drops only what is taken.
LEMMA WriteKeepsSafe ==
    ASSUME NEW reg, Saved(reg) \/ NotSaved(reg), taken' = taken,
           \A s : Queued(s, mem) => Queued(s, reg) \/ s \in taken
    PROVE  \A s : Safe(s) => Safe(s)'
BY DEF Saved, NotSaved, Safe, Queued

\* The program counter of one caller moves.
LEMMA GotoOne ==
    ASSUME Shapes, NEW p \in Callers, NEW step, Goto(p, step)
    PROVE  /\ DOMAIN pc' = Callers
           /\ pc'[p] = step
           /\ \A q \in Callers \ {p} : pc'[q] = pc[q]
BY DEF Shapes, Goto

LEMMA EnqueueInv ==
    ASSUME Inv, NEW p \in Callers, Enqueue(p)
    PROVE  Inv'
<1> USE DEF flushVars, historyVars, counterVars
<1>0. Shapes /\ AckedIsTaken
  BY DEF Inv
<1>1. CASE Begin(p)
  <2>1. Goto(p, "count")
    BY <1>1 DEF Begin
  <2> QED
    BY <1>0, <1>1, <2>1, GotoOne, QuietStep DEF Begin, AckedIsTaken
<1>2. CASE CountCheck(p)
  <2>1. \E step \in {"idle", "ended", "reserve"} : Goto(p, step)
    BY <1>2 DEF CountCheck, Returned
  <2> QED
    BY <1>0, <1>2, <2>1, GotoOne, QuietStep DEF CountCheck, AckedIsTaken
<1>3. CASE Reserve(p)
  <2>1. \E step \in {"rollback", "store"} : Goto(p, step)
    BY <1>3 DEF Reserve
  <2> QED
    BY <1>0, <1>3, <2>1, GotoOne, QuietStep DEF Reserve, AckedIsTaken
<1>4. CASE Rollback(p)
  <2>1. \E step \in {"idle", "ended"} : Goto(p, step)
    BY <1>4 DEF Rollback, Returned
  <2> QED
    BY <1>0, <1>4, <2>1, GotoOne, QuietStep DEF Rollback, AckedIsTaken
<1>5. CASE Store(p)
  <2> DEFINE item == Pushed(Source(p))
             reg == [mem EXCEPT !.outbox = @ \cup {item}]
  <2>1. item.src = Source(p)
    BY DEF Pushed
  <2>2. /\ Shape(reg) /\ reg.checkpoint = mem.checkpoint /\ reg.done = mem.done
        /\ reg.outbox = mem.outbox \cup {item}
    BY <1>0 DEF Shapes, Shape
  <2>3. Queued(Source(p), reg) /\ \A s : Queued(s, mem) => Queued(s, reg)
    BY <2>1, <2>2 DEF Queued
  <2>4. Saved(reg) \/ NotSaved(reg)
    BY <1>5 DEF Store
  <2>5. taken' = taken /\ acked' = acked
    BY <1>5 DEF Store
  <2> HIDE DEF reg, item
  <2>6. \A s : Safe(s) => Safe(s)'
    BY <2>3, <2>4, <2>5, WriteKeepsSafe
  <2>7. mem' = reg /\ disk' \in {reg, disk}
    BY <2>4 DEF Saved, NotSaved
  <2>8. SettledIsSafe'
    BY <2>2, <2>6, <2>7 DEF Inv, SettledIsSafe, Settled
  <2>9. \E step \in {"audit", "mark", "rollback"} :
           /\ Goto(p, step)
           /\ step # "rollback" => disk' = reg
           /\ step = "audit" => p = Producer
           /\ step = "mark" => p # Producer
    BY <1>5, <2>7 DEF Store, Saved, reg, item
  <2>10. Shapes' /\ AckedIsTaken'
    BY <1>0, <2>2, <2>5, <2>7, <2>9, GotoOne DEF Shapes, Shape, AckedIsTaken
  <2>11. StoredIsSafe'
    <3> PICK step \in {"audit", "mark", "rollback"} :
           /\ Goto(p, step)
           /\ step # "rollback" => disk' = reg
           /\ step = "audit" => p = Producer
           /\ step = "mark" => p # Producer
      BY <2>9
    <3>1. \A src : src = Source(p) /\ step # "rollback" => Safe(src)'
      BY <2>3, <2>7 DEF Safe, Queued
    <3>2. /\ pc'[p] = step
          /\ \A q \in Callers \ {p} : pc'[q] = pc[q]
      BY <1>0, GotoOne
    <3>3. /\ p = Producer => Source(p) = mem'.checkpoint + 1
          /\ p # Producer => Source(p) = p
      BY <2>2, <2>7 DEF Source
    <3>4. pc'[Producer] \in {"audit", "checkpoint"} => Safe(mem.checkpoint + 1)'
      <4>1. CASE p = Producer
        BY <4>1, <3>1, <3>2, <3>3
      <4>2. CASE p # Producer
        BY <4>2, <3>2, <2>2, <2>6, <2>7 DEF Inv, StoredIsSafe, Callers, Safe
      <4> QED
        BY <4>1, <4>2
    <3>5. ASSUME NEW r \in Receipts, pc'[r] = "mark" PROVE Safe(r)'
      <4>1. CASE p = r
        BY <4>1, <3>1, <3>2, <3>3, <3>5, CallersAssumption
      <4>2. CASE p # r
        BY <4>2, <3>2, <3>5, <2>6 DEF Inv, StoredIsSafe, Callers
      <4> QED
        BY <4>1, <4>2
    <3> QED
      BY <3>4, <3>5 DEF StoredIsSafe
  <2> QED
    BY <2>8, <2>10, <2>11 DEF Inv
<1> QED
  BY <1>1, <1>2, <1>3, <1>4, <1>5 DEF Enqueue
\* The audit record and the other writes change no field that is modelled.
LEMMA AuditInv ==
    ASSUME Inv, Audit
    PROVE  Inv'
<1> USE DEF flushVars, historyVars, counterVars
<1>1. Shapes /\ AckedIsTaken /\ Producer \in Callers
  BY DEF Inv, Callers
<1>2. /\ Saved(mem) \/ NotSaved(mem) \/ NoWrite
      /\ taken' = taken /\ acked' = acked
  BY DEF Audit
<1>3. mem' = mem /\ disk' \in {mem, disk}
  BY <1>2 DEF Saved, NotSaved, NoWrite
<1>4. \A s : Safe(s) => Safe(s)'
  <2>1. CASE NoWrite
    BY <1>2, <2>1 DEF NoWrite, Safe, Queued
  <2>2. CASE ~NoWrite
    BY <1>2, <2>2, WriteKeepsSafe
  <2> QED
    BY <2>1, <2>2
<1>5. \E step \in {"idle", "checkpoint"} : Goto(Producer, step)
  BY DEF Audit
<1>6. Shapes' /\ AckedIsTaken'
  BY <1>1, <1>2, <1>3, <1>5, GotoOne DEF Shapes, Shape, AckedIsTaken
<1>7. SettledIsSafe'
  BY <1>3, <1>4 DEF Inv, SettledIsSafe, Settled
<1>8. Safe(mem.checkpoint + 1)'
  <2>1. Safe(mem.checkpoint + 1)
    BY DEF Inv, StoredIsSafe, Audit
  <2> QED
    BY <1>3, <1>4, <2>1
<1>9. \A r \in Receipts : pc'[r] = pc[r]
  BY <1>1, <1>5, GotoOne, CallersAssumption DEF Callers
<1>10. StoredIsSafe'
  BY <1>4, <1>8, <1>9 DEF Inv, StoredIsSafe
<1> QED
  BY <1>6, <1>7, <1>10 DEF Inv

LEMMA CheckpointInv ==
    ASSUME Inv, Checkpoint
    PROVE  Inv'
<1> USE DEF flushVars, historyVars, counterVars
<1> DEFINE reg == [mem EXCEPT !.checkpoint = @ + 1]
<1>1. Shapes /\ AckedIsTaken /\ Producer \in Callers
  BY DEF Inv, Callers
<1>2. /\ Shape(reg) /\ reg.checkpoint = mem.checkpoint + 1
      /\ reg.done = mem.done /\ reg.outbox = mem.outbox
  BY <1>1 DEF Shapes, Shape
<1>3. /\ Saved(reg) \/ NotSaved(reg)
      /\ taken' = taken /\ acked' = acked /\ Goto(Producer, "idle")
  BY DEF Checkpoint
<1> HIDE DEF reg
<1>4. mem' = reg /\ disk' \in {reg, disk}
  BY <1>3 DEF Saved, NotSaved
<1>5. \A s : Safe(s) => Safe(s)'
  BY <1>2, <1>3, WriteKeepsSafe DEF Queued
<1>6. Safe(mem.checkpoint + 1)
  BY DEF Inv, StoredIsSafe, Checkpoint
<1>7. Shapes' /\ AckedIsTaken'
  BY <1>1, <1>2, <1>3, <1>4, GotoOne DEF Shapes, Shape, AckedIsTaken
<1>8. Settled(mem)' \subseteq Settled(mem) \cup {mem.checkpoint + 1}
  BY <1>1, <1>2, <1>4 DEF Settled, Shapes, Shape
<1>9. SettledIsSafe'
  <2>1. Settled(disk)' \subseteq Settled(disk) \cup Settled(mem) \cup {mem.checkpoint + 1}
    BY <1>1, <1>2, <1>4 DEF Settled, Shapes, Shape
  <2>2. \A s \in Settled(disk) \cup Settled(mem) \cup {mem.checkpoint + 1} : Safe(s)'
    BY <1>5, <1>6 DEF Inv, SettledIsSafe
  <2> QED
    BY <1>8, <2>1, <2>2 DEF SettledIsSafe
<1>10. pc'[Producer] = "idle" /\ \A r \in Receipts : pc'[r] = pc[r]
  BY <1>1, <1>3, GotoOne, CallersAssumption DEF Callers
<1>11. StoredIsSafe'
  BY <1>5, <1>10 DEF Inv, StoredIsSafe
<1> QED
  BY <1>7, <1>9, <1>11 DEF Inv

LEMMA MarkInv ==
    ASSUME Inv, NEW r \in Receipts, Mark(r)
    PROVE  Inv'
<1> USE DEF flushVars, historyVars, counterVars
<1> DEFINE reg == [mem EXCEPT !.done = @ \cup {r}]
<1>1. Shapes /\ AckedIsTaken /\ r \in Callers
  BY DEF Inv, Callers
<1>2. /\ Shape(reg) /\ reg.checkpoint = mem.checkpoint
      /\ reg.done = mem.done \cup {r} /\ reg.outbox = mem.outbox
  BY <1>1 DEF Shapes, Shape
<1>3. /\ Saved(reg) \/ NotSaved(reg) \/ NoWrite
      /\ taken' = taken /\ acked' = acked /\ Goto(r, "ended")
  BY CallersAssumption DEF Mark, Returned
<1> HIDE DEF reg
<1>4. pc'[r] = "ended" /\ DOMAIN pc' = Callers /\ \A q \in Callers \ {r} : pc'[q] = pc[q]
  BY <1>1, <1>3, GotoOne
<1>5. CASE NoWrite
  BY <1>1, <1>3, <1>4, <1>5, QuietStep DEF NoWrite, AckedIsTaken
<1>6. CASE Saved(reg) \/ NotSaved(reg)
  <2>1. mem' = reg /\ disk' \in {reg, disk}
    BY <1>6 DEF Saved, NotSaved
  <2>2. \A s : Safe(s) => Safe(s)'
    BY <1>2, <1>3, <1>6, WriteKeepsSafe DEF Queued
  <2>3. Safe(r)
    BY DEF Inv, StoredIsSafe, Mark
  <2>4. Shapes' /\ AckedIsTaken'
    BY <1>1, <1>2, <1>3, <1>4, <2>1 DEF Shapes, Shape, AckedIsTaken
  <2>5. SettledIsSafe'
    BY <1>2, <2>1, <2>2, <2>3 DEF Inv, SettledIsSafe, Settled
  <2>6. \A s : s = mem'.checkpoint + 1 /\ pc'[Producer] \in {"audit", "checkpoint"} => Safe(s)'
    BY <1>2, <1>4, <2>1, <2>2, CallersAssumption DEF Inv, StoredIsSafe, Callers
  <2>7. StoredIsSafe'
    BY <1>4, <2>2, <2>6 DEF Inv, StoredIsSafe, Callers
  <2> QED
    BY <2>4, <2>5, <2>7 DEF Inv
<1> QED
  BY <1>3, <1>5, <1>6

LEMMA FlushInv ==
    ASSUME Inv,
           \/ Send \/ Decrement \/ Delete
           \/ \E got \in SUBSET batch : \E named \in SUBSET got : Respond(got, named)
    PROVE  Inv'
<1> USE DEF flushVars, historyVars, counterVars
<1>1. Shapes /\ AckedIsTaken
  BY DEF Inv
<1>2. CASE Send
  BY <1>1, <1>2, QuietStep DEF Send, AckedIsTaken, Shapes
<1>3. CASE Decrement
  BY <1>1, <1>3, QuietStep DEF Decrement, AckedIsTaken, Shapes
<1>4. ASSUME NEW got \in SUBSET batch, NEW named \in SUBSET got, Respond(got, named)
      PROVE  Inv'
  <2>1. taken \subseteq taken' /\ acked' \subseteq named /\ \A i \in named : i.src \in taken'
    BY <1>4 DEF Respond, EndFlush
  <2> QED
    BY <1>1, <1>4, <2>1, QuietStep DEF Respond, Shapes
<1>5. CASE Delete
  <2> DEFINE reg == [mem EXCEPT !.outbox = @ \ acked]
  <2>1. /\ Shape(reg) /\ reg.checkpoint = mem.checkpoint
        /\ reg.done = mem.done /\ reg.outbox = mem.outbox \ acked
    BY <1>1 DEF Shapes, Shape
  <2>2. /\ Saved(reg) \/ NotSaved(reg)
        /\ taken' = taken /\ acked' = {} /\ pc' = pc
    BY <1>5 DEF Delete, EndFlush
  <2> HIDE DEF reg
  <2>3. mem' = reg /\ disk' \in {reg, disk}
    BY <2>2 DEF Saved, NotSaved
  <2>4. \A s : Queued(s, mem) => Queued(s, reg) \/ s \in taken
    BY <1>1, <2>1 DEF Queued, AckedIsTaken
  <2>5. \A s : Safe(s) => Safe(s)'
    BY <2>2, <2>4, WriteKeepsSafe
  <2>6. Shapes' /\ AckedIsTaken'
    BY <1>1, <2>1, <2>2, <2>3 DEF Shapes, Shape, AckedIsTaken
  <2>7. SettledIsSafe'
    BY <2>1, <2>3, <2>5 DEF Inv, SettledIsSafe, Settled
  <2>8. \A s : s = mem'.checkpoint + 1 /\ pc'[Producer] \in {"audit", "checkpoint"} => Safe(s)'
    BY <2>1, <2>2, <2>3, <2>5 DEF Inv, StoredIsSafe
  <2>9. StoredIsSafe'
    BY <2>2, <2>5, <2>8 DEF Inv, StoredIsSafe
  <2> QED
    BY <2>6, <2>7, <2>9 DEF Inv
<1> QED
  BY <1>2, <1>3, <1>4, <1>5

LEMMA SaveElsewhereInv ==
    ASSUME Inv, SaveElsewhere
    PROVE  Inv'
<1> USE DEF flushVars, historyVars, counterVars
<1>1. Saved(mem) /\ taken' = taken /\ acked' = acked /\ pc' = pc
  BY DEF SaveElsewhere
<1>2. mem' = mem /\ disk' = mem
  BY <1>1 DEF Saved
<1>3. \A s : Safe(s) => Safe(s)'
  BY <1>1, WriteKeepsSafe
<1>4. Shapes' /\ AckedIsTaken'
  BY <1>1, <1>2 DEF Inv, Shapes, Shape, AckedIsTaken
<1>5. SettledIsSafe'
  BY <1>2, <1>3 DEF Inv, SettledIsSafe, Settled
<1>6. \A s : s = mem'.checkpoint + 1 /\ pc'[Producer] \in {"audit", "checkpoint"} => Safe(s)'
  BY <1>1, <1>2, <1>3 DEF Inv, StoredIsSafe
<1>7. StoredIsSafe'
  BY <1>1, <1>3, <1>6 DEF Inv, StoredIsSafe
<1> QED
  BY <1>4, <1>5, <1>7 DEF Inv

LEMMA RestartInv ==
    ASSUME Inv, Restart
    PROVE  Inv'
<1>1. /\ mem' = disk /\ disk' = disk /\ taken' = taken /\ acked' = {}
      /\ DOMAIN pc' = Callers /\ \A p \in Callers : pc'[p] \in {"idle", "ended"}
  BY DEF Restart, EndFlush, Returned
<1>2. Shapes' /\ AckedIsTaken'
  BY <1>1 DEF Inv, Shapes, Shape, AckedIsTaken
<1>3. SettledIsSafe'
  BY <1>1 DEF Inv, SettledIsSafe, Settled, Safe, Queued
<1>4. StoredIsSafe'
  BY <1>1 DEF StoredIsSafe, Callers
<1> QED
  BY <1>2, <1>3, <1>4 DEF Inv

\* Nothing the checkpoint has passed and no receipt of an answer in the inbox is
\* lost: it is with the server, or queued in memory and in the registry file,
\* for any number of insights, receipts, failed writes, partial answers and
\* crashes (produce_pending, record_prompt_receipt, flush).
THEOREM NothingIsLost == Spec => []NothingLost
<1>1. Init => Inv
  BY InitInv
<1>2. Inv /\ [Next]_vars => Inv'
  <2> SUFFICES ASSUME Inv, [Next]_vars PROVE Inv'
    OBVIOUS
  <2>1. CASE UNCHANGED vars
    BY <2>1, QuietStep
    DEF vars, Inv, Shapes, AckedIsTaken
  <2>2. CASE Next
    BY <2>2, EnqueueInv, AuditInv, CheckpointInv, MarkInv, FlushInv,
       SaveElsewhereInv, RestartInv
    DEF Next, ProducerStep, ReceiptStep, FlushStep, Callers
  <2> QED
    BY <2>1, <2>2
<1>3. Inv => NothingLost
  BY DEF Inv, SettledIsSafe, Safe, NothingLost
<1> QED
  BY <1>1, <1>2, <1>3, PTL DEF Spec

-----------------------------------------------------------------------------
(* Sums over finite sets. *)

\* The cells of one argument, and of a function.
Column(size, x) == {x} \X (1 .. size[x])
Cells(size) == UNION {Column(size, x) : x \in DOMAIN size}

LEMMA ColumnFinite ==
    ASSUME NEW x, NEW size, size[x] \in Nat
    PROVE  IsFiniteSet(Column(size, x)) /\ Cardinality(Column(size, x)) = size[x]
<1>1. IsFiniteSet(1 .. size[x]) /\ Cardinality(1 .. size[x]) = size[x]
  BY FS_Interval
<1>2. IsFiniteSet({x}) /\ Cardinality({x}) = 1
  BY FS_Singleton
<1>3. IsFiniteSet(Column(size, x)) /\ Cardinality(Column(size, x)) = 1 * size[x]
  BY <1>1, <1>2, FS_Product DEF Column
<1> QED
  BY <1>3

LEMMA CellsFinite ==
    ASSUME NEW D, IsFiniteSet(D), NEW size \in [D -> Nat]
    PROVE  IsFiniteSet(Cells(size)) /\ Total(size) = Cardinality(Cells(size))
           /\ Total(size) \in Nat
<1> DEFINE F == {Column(size, x) : x \in D}
           f == [x \in D |-> Column(size, x)]
<1>1. f \in Surjection(D, F)
  BY DEF Surjection
<1>2. IsFiniteSet(F)
  BY <1>1, FS_Surjection
<1>3. \A c \in F : IsFiniteSet(c)
  BY ColumnFinite
<1>4. IsFiniteSet(UNION F)
  BY <1>2, <1>3, FS_UNION
<1>5. Cells(size) = UNION F /\ DOMAIN size = D
  BY DEF Cells
<1>6. Total(size) = Cardinality(Cells(size))
  BY DEF Total, Cells, Column
<1> QED
  BY <1>4, <1>5, <1>6, FS_CardinalityType

LEMMA CellsMember ==
    ASSUME NEW D, NEW size \in [D -> Nat], NEW c
    PROVE  c \in Cells(size) <=> \E x \in D : \E b \in 1 .. size[x] : c = <<x, b>>
BY DEF Cells, Column

\* A sum over disjoint parts is the sum of the sums.
LEMMA TotalUnion ==
    ASSUME NEW D, IsFiniteSet(D), NEW E, IsFiniteSet(E), D \cap E = {},
           NEW h \in [D \cup E -> Nat]
    PROVE  Total(h) = Total([x \in D |-> h[x]]) + Total([x \in E |-> h[x]])
<1> DEFINE f == [x \in D |-> h[x]]
           g == [x \in E |-> h[x]]
<1>1. f \in [D -> Nat] /\ g \in [E -> Nat]
  OBVIOUS
<1>2. \A c : c \in Cells(h) <=> \E x \in D \cup E : \E b \in 1 .. h[x] : c = <<x, b>>
  BY CellsMember
<1>3. \A c : c \in Cells(f) <=> \E x \in D : \E b \in 1 .. h[x] : c = <<x, b>>
  BY <1>1, CellsMember
<1>4. \A c : c \in Cells(g) <=> \E x \in E : \E b \in 1 .. h[x] : c = <<x, b>>
  BY <1>1, CellsMember
<1>5. Cells(h) = Cells(f) \cup Cells(g) 
  BY <1>2, <1>3, <1>4
<1>6. Cells(f) \cap Cells(g) = {}
  BY <1>3, <1>4
<1>7. IsFiniteSet(D \cup E)
  BY FS_Union
<1> HIDE DEF f, g
<1>8. /\ IsFiniteSet(Cells(f)) /\ Total(f) = Cardinality(Cells(f)) /\ Total(f) \in Nat
      /\ IsFiniteSet(Cells(g)) /\ Total(g) = Cardinality(Cells(g)) /\ Total(g) \in Nat
      /\ Total(h) = Cardinality(Cells(h))
  BY <1>1, <1>7, CellsFinite
<1>9. Cardinality(Cells(f) \cup Cells(g)) =
        Cardinality(Cells(f)) + Cardinality(Cells(g)) - Cardinality({})
  BY <1>6, <1>8, FS_Union
<1>10. Total(h) = Total(f) + Total(g)
  BY <1>5, <1>8, <1>9, FS_EmptySet
<1> QED
  BY <1>10 DEF f, g

LEMMA TotalEmpty == ASSUME NEW f \in [{} -> Nat] PROVE Total(f) = 0
<1>1. Cells(f) = {}
  BY DEF Cells
<1> QED
  BY <1>1, CellsFinite, FS_EmptySet

LEMMA TotalOne ==
    ASSUME NEW x, NEW f \in [{x} -> Nat]
    PROVE  Total(f) = f[x]
<1>1. Cells(f) = Column(f, x)
  BY DEF Cells
<1> QED
  BY <1>1, CellsFinite, FS_Singleton, ColumnFinite

LEMMA FiniteMax ==
    ASSUME NEW S \in SUBSET Nat, IsFiniteSet(S), S # {}
    PROVE  Max(S) \in S /\ \A s \in S : s <= Max(S)
<1> DEFINE Above(s) == {t \in S : s < t}
           Family == {Above(s) : s \in S}
<1>2. Family \subseteq FiniteSubsetsOf(S) /\ Family # {}
  <2>1. \A s \in S : Above(s) \in SUBSET S /\ IsFiniteSet(Above(s))
    BY FS_Subset
  <2>2. \A A \in Family : A \in FiniteSubsetsOf(S)
    BY <2>1 DEF FiniteSubsetsOf
  <2> QED
    BY <2>2
<1>3. PICK A \in Family : \A B \in Family : ~(<<B, A>> \in StrictSubsetOrdering(S))
  BY <1>2, FS_StrictSubsetOrderingWellFounded, WFMin
<1>4. PICK m \in S : A = Above(m)
  BY <1>3
<1>5. Above(m) = {}
  <2> SUFFICES ASSUME NEW t \in Above(m) PROVE FALSE
    OBVIOUS
  <2>0. t \in S /\ m < t /\ ~(t < t) /\ \A u \in S : t < u => m < u
    OBVIOUS
  <2>1. Above(t) \subseteq Above(m) /\ t \notin Above(t)
    BY <2>0
  <2>2. <<Above(t), Above(m)>> \in StrictSubsetOrdering(S)
    BY <2>1 DEF StrictSubsetOrdering
  <2> QED
    BY <1>3, <1>4, <2>2
<1>6. \A s \in S : m >= s
  BY <1>5
<1> QED
  BY <1>6 DEF Max

\* A sum splits at any subset of its domain.
LEMMA TotalSplit ==
    ASSUME NEW D, IsFiniteSet(D), NEW E \in SUBSET D, NEW h \in [D -> Nat]
    PROVE  /\ Total(h) = Total([x \in E |-> h[x]]) + Total([x \in D \ E |-> h[x]])
           /\ Total([x \in E |-> h[x]]) \in Nat
           /\ Total([x \in D \ E |-> h[x]]) \in Nat
           /\ Total(h) \in Nat
<1>1. IsFiniteSet(E) /\ IsFiniteSet(D \ E) /\ E \cap (D \ E) = {} /\ E \cup (D \ E) = D
  BY FS_Subset, FS_Difference
<1>2. [x \in E |-> h[x]] \in [E -> Nat] /\ [x \in D \ E |-> h[x]] \in [D \ E -> Nat]
  OBVIOUS
<1>3. h \in [E \cup (D \ E) -> Nat]
  BY <1>1
<1>4. Total(h) = Total([x \in E |-> h[x]]) + Total([x \in D \ E |-> h[x]])
  BY <1>1, <1>3, TotalUnion
<1> QED
  BY <1>1, <1>2, <1>4, CellsFinite

-----------------------------------------------------------------------------
(* The bytes of messages, of sources and of reservations. *)

AllBytes == Total(SizeOf)
Weight(S) == Total([s \in S |-> SizeOf[s]])
SourceAt(p, cp) == IF p = Producer THEN cp + 1 ELSE p
DebtAt(C, cp) == Total([p \in C |-> SizeOf[SourceAt(p, cp)]])

LEMMA SourcesFinite == IsFiniteSet(Sources) /\ IsFiniteSet(Callers)
<1>1. IsFiniteSet(1 .. Candidates)
  BY CandidatesAssumption, FS_Interval
<1>2. IsFiniteSet({Producer})
  BY FS_Singleton
<1> QED
  BY <1>1, <1>2, CallersAssumption, FS_Union DEF Sources, Callers

\* Messages: a part of them and the rest.
LEMMA BytesSplit ==
    ASSUME NEW S, IsFiniteSet(S), S \subseteq Item, NEW A \in SUBSET S
    PROVE  /\ Bytes(S) = Bytes(A) + Bytes(S \ A)
           /\ Bytes(A) \in Nat /\ Bytes(S \ A) \in Nat /\ Bytes(S) \in Nat
<1> DEFINE h == [i \in S |-> SizeOfItem(i)]
<1>1. h \in [S -> Nat]
  BY SizeAssumption DEF Item, SizeOfItem
<1>2. /\ [x \in A |-> h[x]] = [i \in A |-> SizeOfItem(i)]
      /\ [x \in S \ A |-> h[x]] = [i \in S \ A |-> SizeOfItem(i)]
  OBVIOUS
<1>3. /\ Total(h) = Total([x \in A |-> h[x]]) + Total([x \in S \ A |-> h[x]])
      /\ Total([x \in A |-> h[x]]) \in Nat
      /\ Total([x \in S \ A |-> h[x]]) \in Nat
      /\ Total(h) \in Nat
  <2> HIDE DEF h
  <2> QED
    BY <1>1, TotalSplit
<1> QED
  BY <1>2, <1>3 DEF Bytes

LEMMA BytesEmpty == Bytes({}) = 0
BY TotalEmpty DEF Bytes

\* One more message.
LEMMA BytesAdd ==
    ASSUME NEW S, IsFiniteSet(S), S \subseteq Item, NEW x \in Item, x \notin S
    PROVE  Bytes(S \cup {x}) = Bytes(S) + SizeOf[x.src]
<1>1. IsFiniteSet(S \cup {x}) /\ S \cup {x} \subseteq Item
  BY FS_AddElement
<1>2. (S \cup {x}) \ S = {x}
  OBVIOUS
<1>3. Bytes(S \cup {x}) = Bytes(S) + Bytes({x})
  BY <1>1, <1>2, BytesSplit
<1>4. Bytes({x}) = SizeOf[x.src]
  <2> DEFINE f == [i \in {x} |-> SizeOfItem(i)]
  <2>1. f \in [{x} -> Nat] /\ f[x] = SizeOf[x.src]
    BY SizeAssumption DEF Item, SizeOfItem
  <2>2. Total(f) = f[x]
    <3> HIDE DEF f
    <3> QED BY <2>1, TotalOne
  <2> QED
    BY <2>1, <2>2 DEF Bytes
<1> QED
  BY <1>3, <1>4

LEMMA WeightSplit ==
    ASSUME NEW S \in SUBSET Sources, NEW A \in SUBSET S
    PROVE  /\ Weight(S) = Weight(A) + Weight(S \ A)
           /\ Weight(A) \in Nat /\ Weight(S \ A) \in Nat /\ Weight(S) \in Nat
<1> DEFINE h == [s \in S |-> SizeOf[s]]
<1>1. h \in [S -> Nat] /\ IsFiniteSet(S)
  BY SizeAssumption, SourcesFinite, FS_Subset
<1>2. /\ [x \in A |-> h[x]] = [s \in A |-> SizeOf[s]]
      /\ [x \in S \ A |-> h[x]] = [s \in S \ A |-> SizeOf[s]]
  OBVIOUS
<1>3. /\ Total(h) = Total([x \in A |-> h[x]]) + Total([x \in S \ A |-> h[x]])
      /\ Total([x \in A |-> h[x]]) \in Nat
      /\ Total([x \in S \ A |-> h[x]]) \in Nat
      /\ Total(h) \in Nat
  <2> HIDE DEF h
  <2> QED
    BY <1>1, TotalSplit
<1> QED
  BY <1>2, <1>3 DEF Weight

LEMMA WeightOne ==
    ASSUME NEW s \in Sources
    PROVE  Weight({s}) = SizeOf[s] /\ SizeOf[s] \in Nat
<1> DEFINE f == [x \in {s} |-> SizeOf[x]]
<1>1. f \in [{s} -> Nat] /\ f[s] = SizeOf[s]
  BY SizeAssumption
<1>2. Total(f) = f[s]
  <2> HIDE DEF f
  <2> QED BY <1>1, TotalOne
<1> QED
  BY <1>1, <1>2, SizeAssumption DEF Weight

LEMMA WeightAll == Weight(Sources) = AllBytes /\ AllBytes \in Nat
<1>1. [s \in Sources |-> SizeOf[s]] = SizeOf
  BY SizeAssumption
<1> QED
  BY <1>1, WeightSplit DEF Weight, AllBytes

LEMMA WeightBound ==
    ASSUME NEW S \in SUBSET Sources
    PROVE  Weight(S) \in Nat /\ Weight(S) <= AllBytes
<1>1. /\ Weight(Sources) = Weight(S) + Weight(Sources \ S)
      /\ Weight(S) \in Nat /\ Weight(Sources \ S) \in Nat
  BY WeightSplit
<1> QED
  BY <1>1, WeightAll

\* The callers of C hold the checkpoint cp and have something to queue.
CanOwe(C, cp) == /\ C \subseteq Callers
                 /\ cp \in Nat
                 /\ \A p \in C : SourceAt(p, cp) \in Sources

LEMMA DebtSplit ==
    ASSUME NEW C, NEW cp, CanOwe(C, cp), NEW A \in SUBSET C
    PROVE  /\ DebtAt(C, cp) = DebtAt(A, cp) + DebtAt(C \ A, cp)
           /\ DebtAt(A, cp) \in Nat /\ DebtAt(C \ A, cp) \in Nat /\ DebtAt(C, cp) \in Nat
<1> DEFINE h == [p \in C |-> SizeOf[SourceAt(p, cp)]]
<1>1. h \in [C -> Nat] /\ IsFiniteSet(C)
  BY SizeAssumption, SourcesFinite, FS_Subset DEF CanOwe
<1>2. /\ [x \in A |-> h[x]] = [p \in A |-> SizeOf[SourceAt(p, cp)]]
      /\ [x \in C \ A |-> h[x]] = [p \in C \ A |-> SizeOf[SourceAt(p, cp)]]
  OBVIOUS
<1>3. /\ Total(h) = Total([x \in A |-> h[x]]) + Total([x \in C \ A |-> h[x]])
      /\ Total([x \in A |-> h[x]]) \in Nat
      /\ Total([x \in C \ A |-> h[x]]) \in Nat
      /\ Total(h) \in Nat
  <2> HIDE DEF h
  <2> QED
    BY <1>1, TotalSplit
<1> QED
  BY <1>2, <1>3 DEF DebtAt

LEMMA DebtEmpty == ASSUME NEW cp PROVE DebtAt({}, cp) = 0
BY TotalEmpty DEF DebtAt

LEMMA DebtOne ==
    ASSUME NEW p, NEW cp, CanOwe({p}, cp)
    PROVE  DebtAt({p}, cp) = SizeOf[SourceAt(p, cp)]
<1> DEFINE f == [x \in {p} |-> SizeOf[SourceAt(x, cp)]]
<1>1. f \in [{p} -> Nat] /\ f[p] = SizeOf[SourceAt(p, cp)]
  BY SizeAssumption DEF CanOwe
<1>2. Total(f) = f[p]
  <2> HIDE DEF f
  <2> QED BY <1>1, TotalOne
<1> QED
  BY <1>1, <1>2 DEF DebtAt

\* One more caller.
LEMMA DebtAdd ==
    ASSUME NEW C, NEW p, p \notin C, NEW cp, CanOwe(C \cup {p}, cp)
    PROVE  /\ DebtAt(C \cup {p}, cp) = DebtAt(C, cp) + SizeOf[SourceAt(p, cp)]
           /\ DebtAt(C, cp) \in Nat
           /\ SizeOf[SourceAt(p, cp)] \in Nat \ {0}
<1>1. CanOwe({p}, cp) /\ (C \cup {p}) \ C = {p} /\ C \in SUBSET (C \cup {p})
  BY DEF CanOwe
<1>2. DebtAt(C \cup {p}, cp) = DebtAt(C, cp) + DebtAt({p}, cp) /\ DebtAt(C, cp) \in Nat
  BY <1>1, DebtSplit
<1>3. DebtAt({p}, cp) = SizeOf[SourceAt(p, cp)]
  BY <1>1, DebtOne
<1> QED
  BY <1>2, <1>3, SizeAssumption DEF CanOwe

\* Two callers never queue the same message, so together they owe at most
\* everything there is.
LEMMA DebtBound ==
    ASSUME NEW C, NEW cp, CanOwe(C, cp)
    PROVE  DebtAt(C, cp) \in Nat /\ DebtAt(C, cp) <= AllBytes
<1> DEFINE A == C \ {Producer}
<1>1. A \subseteq Receipts /\ A \subseteq Sources
  BY DEF CanOwe, Callers, Sources
<1>2. DebtAt(A, cp) = Weight(A)
  <2>1. [p \in A |-> SizeOf[SourceAt(p, cp)]] = [s \in A |-> SizeOf[s]]
    BY DEF SourceAt
  <2> QED
    BY <2>1 DEF DebtAt, Weight
<1>3. CASE Producer \notin C
  <2>1. A = C
    BY <1>3
  <2> QED
    BY <1>1, <1>2, <2>1, WeightBound
<1>4. CASE Producer \in C
  <2>1. /\ CanOwe(A \cup {Producer}, cp) /\ A \cup {Producer} = C /\ Producer \notin A
        /\ SourceAt(Producer, cp) = cp + 1 /\ cp + 1 \in Sources /\ cp + 1 \in Nat
    BY <1>4 DEF CanOwe, SourceAt
  <2>2. DebtAt(C, cp) = Weight(A) + SizeOf[cp + 1]
    <3> HIDE DEF A
    <3> QED
      BY <1>2, <2>1, DebtAdd
  <2>3. cp + 1 \notin A
    BY <1>1, <2>1, CallersAssumption
  <2>4. A \cup {cp + 1} \in SUBSET Sources /\ (A \cup {cp + 1}) \ A = {cp + 1}
    BY <1>1, <2>1, <2>3
  <2>5. /\ Weight(A \cup {cp + 1}) = Weight(A) + Weight({cp + 1})
        /\ Weight(A \cup {cp + 1}) \in Nat /\ Weight(A \cup {cp + 1}) <= AllBytes
    <3> HIDE DEF A
    <3> QED
      BY <2>4, WeightSplit, WeightBound
  <2>6. Weight({cp + 1}) = SizeOf[cp + 1]
    BY <2>1, WeightOne
  <2> QED
    BY <2>2, <2>5, <2>6
<1> QED
  BY <1>3, <1>4

\* The checkpoint matters to the producer only.
LEMMA DebtSame ==
    ASSUME NEW C, NEW cp, NEW cq, Producer \notin C \/ cp = cq
    PROVE  DebtAt(C, cp) = DebtAt(C, cq)
<1>1. [p \in C |-> SizeOf[SourceAt(p, cp)]] = [p \in C |-> SizeOf[SourceAt(p, cq)]]
  BY DEF SourceAt
<1> QED
  BY <1>1 DEF DebtAt

-----------------------------------------------------------------------------
Budget(f, r) == (1 + f + r) * AllBytes

LEMMA BudgetStep ==
    ASSUME NEW f \in Nat, NEW r \in Nat
    PROVE  /\ Budget(f, r) \in Nat
           /\ Budget(f + 1, r) = Budget(f, r) + AllBytes
           /\ Budget(f, r + 1) = Budget(f, r) + AllBytes
           /\ AllBytes <= Budget(f, r)
<1> DEFINE a == AllBytes
<1>1. a \in Nat
  BY WeightAll
<1> HIDE DEF a
<1>2. \A n \in Nat : n * a \in Nat /\ (1 + n) * a = n * a + a
  BY <1>1
<1>3. (1 + f + r) * a \in Nat /\ (1 + (1 + f + r)) * a = (1 + f + r) * a + a /\ (1 + (f + r)) * a = (f + r) * a + a /\ (f + r) * a \in Nat
  BY <1>2
<1>4. 1 + (1 + f + r) = 1 + (f + 1) + r /\ 1 + (1 + f + r) = 1 + f + (r + 1) /\ 1 + (f + r) = 1 + f + r
  OBVIOUS
<1>5. /\ (1 + f + r) * a \in Nat
      /\ (1 + (f + 1) + r) * a = (1 + f + r) * a + a
      /\ (1 + f + (r + 1)) * a = (1 + f + r) * a + a
      /\ a <= (1 + f + r) * a
  BY <1>1, <1>3, <1>4
<1> QED
  BY <1>5 DEF Budget, a

LEMMA BudgetBound ==
    ASSUME NEW f \in 0 .. MaxFaults, NEW r \in 0 .. MaxRestarts
    PROVE  Budget(f, r) + AllBytes < Wrap
<1> DEFINE a == AllBytes
           n == 2 + f + r
           m == 2 + MaxFaults + MaxRestarts
<1>1. a \in Nat /\ n \in Nat /\ m \in Nat /\ n <= m
  BY WeightAll, BoundsAssumption
<1>2. n * a = Budget(f, r) + a
  <2>1. f \in Nat /\ r \in Nat /\ 1 + (f + 1) + r = n
    OBVIOUS
  <2>2. Budget(f + 1, r) = Budget(f, r) + a
    BY <2>1, BudgetStep
  <2>3. Budget(f + 1, r) = (1 + (f + 1) + r) * a
    BY DEF Budget
  <2> QED
    BY <2>1, <2>2, <2>3
<1>3. m * a < Wrap
  BY WidthAssumption DEF AllBytes
<1> HIDE DEF a, n, m
<1>4. n * a <= m * a
  <2>1. (m - n) \in Nat /\ m = n + (m - n)
    BY <1>1
  <2>2. m * a = n * a + (m - n) * a /\ (m - n) * a \in Nat /\ n * a \in Nat
    BY <1>1, <2>1
  <2> QED
    BY <2>2
<1>5. n * a \in Nat /\ m * a \in Nat /\ Wrap \in Nat
  BY <1>1, LimitsAssumption
<1>6. n * a < Wrap
  BY <1>3, <1>4, <1>5
<1> QED
  BY <1>2, <1>6 DEF a

-----------------------------------------------------------------------------
(* The ledger of the outbox. *)

Steps == {"idle", "count", "reserve", "store", "rollback", "audit", "checkpoint", "mark",
          "ended"}
AtRest == {"idle", "ended"}
BeforeStore == {"idle", "count", "reserve", "store", "rollback"}

\* The callers at some steps.
At(steps) == {q \in Callers : pc[q] \in steps}

\* The checkpoint has passed s, or its caller is past its store or has returned.
PastStore(s) ==
    \/ s \in 1 .. mem.checkpoint
    \/ s = mem.checkpoint + 1 /\ pc[Producer] \in {"audit", "checkpoint"}
    \/ s \in Receipts /\ pc[s] \in {"mark", "ended"}
Outstanding == {s \in Sources : ~PastStore(s)}

OutboxesFinite == IsFiniteSet(mem.outbox) /\ IsFiniteSet(disk.outbox)

\* A call in progress has something to queue.
BusyHasWork == \A p \in Callers : pc[p] # "idle" => HasWork(p)

\* A flush works on messages that are queued.
FlushOfQueued == /\ flush # "idle" => batch \subseteq mem.outbox
                 /\ flush \in {"idle", "sent"} => acked = {}

\* Whoever is under way has passed reconcile_pending_bytes.
QuietUntilReconciled ==
    ~reconciled => flush = "idle" /\ \A p \in Callers : pc[p] \in AtRest

\* Every source is pushed once, and once more for each fault and each crash.
WithinBudget ==
    /\ Bytes(mem.outbox) + Weight(Outstanding) <= Budget(faults, restarts)
    /\ Bytes(disk.outbox) <= Budget(faults, restarts)


\* The copies of each source that are queued, with the one its caller still owes.
Due(s) == IF s \in Outstanding THEN 1 ELSE 0
CopiesWithin ==
    \A s \in Sources : /\ Copies(s, mem) + Due(s) <= 1 + faults + restarts
                       /\ Copies(s, disk) <= 1 + faults + restarts

Base == TypeOK /\ OutboxesFinite /\ BusyHasWork /\ FlushOfQueued
        /\ QuietUntilReconciled /\ WithinBudget /\ CopiesWithin
Ledger == Base /\ BytesExact /\ WithinByteCap

\* Callers with work owe for a source.
LEMMA BusyCanOwe ==
    ASSUME TypeOK, BusyHasWork, NEW p \in Callers, pc[p] # "idle"
    PROVE  /\ Source(p) \in Sources
           /\ Source(p) = SourceAt(p, mem.checkpoint)
           /\ mem.checkpoint \in Nat
           /\ ~PastStore(Source(p)) \/ pc[p] \in {"audit", "checkpoint", "mark", "ended"}
           /\ SizeOf[Source(p)] \in Nat \ {0}
<1>1. mem.checkpoint \in 0 .. Candidates /\ mem.done \subseteq Receipts /\ mem.checkpoint \in Nat
  BY CandidatesAssumption DEF TypeOK, Registry
<1>2. HasWork(p)
  BY DEF BusyHasWork
<1>3. CASE p = Producer
  BY <1>1, <1>2, <1>3, CallersAssumption, CandidatesAssumption, SizeAssumption
  DEF HasWork, Source, SourceAt, Sources, PastStore
<1>4. CASE p # Producer
  BY <1>1, <1>2, <1>4, CallersAssumption, CandidatesAssumption, SizeAssumption
  DEF HasWork, Source, SourceAt, Sources, PastStore, Callers
<1> QED
  BY <1>3, <1>4

LEMMA ReservedIsDebt ==
    ASSUME TypeOK, BusyHasWork, NEW steps, "idle" \notin steps
    PROVE  /\ CanOwe(At(steps), mem.checkpoint)
           /\ Reserved(steps) = DebtAt(At(steps), mem.checkpoint)
           /\ Reserved(steps) \in Nat
           /\ Reserved(steps) <= AllBytes
<1>1. mem.checkpoint \in Nat
  BY CandidatesAssumption DEF TypeOK, Registry
<1>2. CanOwe(At(steps), mem.checkpoint)
  BY <1>1, BusyCanOwe DEF CanOwe, At
<1>3. Reserved(steps) = DebtAt(At(steps), mem.checkpoint)
  BY DEF Reserved, DebtAt, At, Source, SourceAt
<1> QED
  BY <1>2, <1>3, DebtBound

\* The quantities of the ledger and how they compare.
Sums ==
    /\ Bytes(mem.outbox) \in Nat
    /\ Bytes(disk.outbox) \in Nat
    /\ Weight(Outstanding) \in Nat /\ Weight(Outstanding) <= AllBytes
    /\ Leaving \subseteq mem.outbox
    /\ Bytes(Leaving) \in Nat /\ Bytes(mem.outbox \ Leaving) \in Nat
    /\ Bytes(mem.outbox) = Bytes(Leaving) + Bytes(mem.outbox \ Leaving)
    /\ Reserved({"store", "rollback"}) \in Nat
    /\ Reserved({"store", "rollback"}) <= AllBytes
    /\ Reserved({"store"}) \in Nat
    /\ Reserved({"store"}) <= Reserved({"store", "rollback"})
    /\ AllBytes \in Nat
    /\ Bytes(mem.outbox) + AllBytes < Wrap
    /\ Budget(faults, restarts) \in Nat
    /\ Wrap \in Nat

LEMMA Quantities == Base => Sums
<1> SUFFICES ASSUME Base PROVE Sums
  OBVIOUS
<1> USE DEF Base
<1>1. mem.outbox \subseteq Item /\ disk.outbox \subseteq Item
  BY DEF TypeOK, Registry
<1>2. Bytes(disk.outbox) \in Nat
  BY <1>1, BytesSplit DEF OutboxesFinite
<1>3. Weight(Outstanding) \in Nat /\ Weight(Outstanding) <= AllBytes
  BY WeightBound DEF Outstanding
<1>4. Leaving \subseteq mem.outbox
  BY DEF Leaving, FlushOfQueued, TypeOK
<1>5. /\ Bytes(Leaving) \in Nat /\ Bytes(mem.outbox \ Leaving) \in Nat /\ Bytes(mem.outbox) \in Nat
      /\ Bytes(mem.outbox) = Bytes(Leaving) + Bytes(mem.outbox \ Leaving)
  BY <1>1, <1>4, BytesSplit DEF OutboxesFinite
<1>6. /\ Reserved({"store", "rollback"}) \in Nat
      /\ Reserved({"store", "rollback"}) <= AllBytes
      /\ Reserved({"store"}) \in Nat
  BY ReservedIsDebt
<1>7. Reserved({"store"}) <= Reserved({"store", "rollback"})
  <2>1. /\ CanOwe(At({"store", "rollback"}), mem.checkpoint)
        /\ Reserved({"store", "rollback"}) = DebtAt(At({"store", "rollback"}), mem.checkpoint)
        /\ Reserved({"store"}) = DebtAt(At({"store"}), mem.checkpoint)
    BY ReservedIsDebt
  <2>2. At({"store"}) \in SUBSET At({"store", "rollback"})
    BY DEF At
  <2>3. \E n \in Nat : DebtAt(At({"store", "rollback"}), mem.checkpoint)
                         = DebtAt(At({"store"}), mem.checkpoint) + n
    BY <2>1, <2>2, DebtSplit
  <2> QED
    BY <1>6, <2>1, <2>3
<1>8. AllBytes \in Nat
  BY WeightAll
<1>9. faults \in Nat /\ restarts \in Nat /\ Budget(faults, restarts) \in Nat
      /\ Budget(faults, restarts) + AllBytes < Wrap
  <2>1. /\ faults \in 0 .. MaxFaults /\ restarts \in 0 .. MaxRestarts
        /\ faults \in Nat /\ restarts \in Nat
    BY BoundsAssumption DEF TypeOK
  <2> QED
    BY <2>1, BudgetStep, BudgetBound
<1>10. Bytes(mem.outbox) + AllBytes < Wrap
  BY <1>3, <1>5, <1>8, <1>9, LimitsAssumption DEF WithinBudget
<1> QED
  BY <1>2, <1>3, <1>4, <1>5, <1>6, <1>7, <1>8, <1>9, <1>10, LimitsAssumption DEF Sums

LEMMA QuantitiesAfter == Base' => Sums'
BY Quantities, PTL

\* A call that goes from one step to another, with the checkpoint unmoved,
\* changes what is reserved at some steps by its own bytes or not at all.
LEMMA CallMoves ==
    ASSUME TypeOK, BusyHasWork, NEW p \in Callers, NEW step, Goto(p, step),
           mem'.checkpoint = mem.checkpoint,
           NEW steps, "idle" \notin steps
    PROVE  /\ (pc[p] \in steps <=> step \in steps) => Reserved(steps)' = Reserved(steps)
           /\ pc[p] # "idle" /\ pc[p] \notin steps /\ step \in steps =>
                Reserved(steps)' = Reserved(steps) + SizeOf[Source(p)]
           /\ pc[p] \in steps /\ step \notin steps =>
                Reserved(steps) = Reserved(steps)' + SizeOf[Source(p)]
<1> DEFINE cp == mem.checkpoint
           C == At(steps)
           D == At(steps)'
<1>1. /\ CanOwe(C, cp) /\ Reserved(steps) = DebtAt(C, cp)
      /\ pc[p] # "idle" => /\ Source(p) \in Sources /\ Source(p) = SourceAt(p, cp)
  BY ReservedIsDebt, BusyCanOwe
<1>2. Reserved(steps)' = DebtAt(D, cp)
  BY DEF Reserved, DebtAt, At, Source, SourceAt
<1>3. /\ p \in D <=> step \in steps
      /\ p \in C <=> pc[p] \in steps
      /\ \A q \in Callers \ {p} : q \in D <=> q \in C
      /\ D \subseteq Callers /\ C \subseteq Callers
  BY DEF At, Goto, TypeOK
<1>4. CASE pc[p] \in steps <=> step \in steps
  <2>1. C = D
    BY <1>3, <1>4
  <2> HIDE DEF C, D
  <2> QED
    BY <1>1, <1>2, <1>4, <2>1
<1>5. CASE pc[p] # "idle" /\ pc[p] \notin steps /\ step \in steps
  <2>1. D = C \cup {p} /\ p \notin C
    BY <1>3, <1>5
  <2> HIDE DEF C, D
  <2>2. CanOwe(C \cup {p}, cp)
    BY <1>1, <1>5 DEF CanOwe
  <2>3. DebtAt(C \cup {p}, cp) = DebtAt(C, cp) + SizeOf[SourceAt(p, cp)]
    BY <2>1, <2>2, DebtAdd
  <2> QED
    BY <1>1, <1>2, <1>5, <2>1, <2>3
<1>6. CASE pc[p] \in steps /\ step \notin steps
  <2>1. C = D \cup {p} /\ p \notin D
    BY <1>3, <1>6
  <2> HIDE DEF C, D
  <2>2. CanOwe(D \cup {p}, cp)
    BY <1>1, <2>1
  <2>3. DebtAt(D \cup {p}, cp) = DebtAt(D, cp) + SizeOf[SourceAt(p, cp)]
    BY <2>1, <2>2, DebtAdd
  <2>4. pc[p] # "idle"
    BY <1>6
  <2> QED
    BY <1>1, <1>2, <1>6, <2>1, <2>3, <2>4
<1> QED
  BY <1>4, <1>5, <1>6

LEMMA CopiesNat ==
    ASSUME NEW reg, IsFiniteSet(reg.outbox), NEW s
    PROVE  Copies(s, reg) \in Nat
<1>1. IsFiniteSet({i \in reg.outbox : i.src = s})
  BY FS_Subset
<1> QED
  BY <1>1, FS_CardinalityType DEF Copies

\* One more message is one more copy of its source only.
\* What is outstanding only shrinks, so the queued messages stay within bounds.
LEMMA FewerOutstanding ==
    ASSUME Base, Outstanding' \subseteq Outstanding,
           UNCHANGED <<mem, disk, faults, restarts>>
    PROVE  WithinBudget' /\ CopiesWithin'
<1>1. /\ Outstanding \in SUBSET Sources /\ Outstanding' \in SUBSET Outstanding
  BY DEF Outstanding
<1>2. /\ Weight(Outstanding)' \in Nat /\ Weight(Outstanding) \in Nat
      /\ Weight(Outstanding)' <= Weight(Outstanding)
  <2> DEFINE S == Outstanding
             A == Outstanding'
  <2>1. S \in SUBSET Sources /\ A \in SUBSET S
    BY <1>1
  <2> HIDE DEF S, A
  <2>2. /\ Weight(S) = Weight(A) + Weight(S \ A)
        /\ Weight(A) \in Nat /\ Weight(S \ A) \in Nat /\ Weight(S) \in Nat
    BY <2>1, WeightSplit
  <2>3. Weight(A) <= Weight(S)
    BY <2>2
  <2>4. Weight(Outstanding)' = Weight(A)
    BY DEF A, Weight
  <2> QED
    BY <2>2, <2>3, <2>4 DEF S
<1>3. WithinBudget'
  <2>1. /\ Bytes(mem.outbox) \in Nat /\ Budget(faults, restarts) \in Nat
        /\ Bytes(mem.outbox) + Weight(Outstanding) <= Budget(faults, restarts)
        /\ Bytes(disk.outbox) <= Budget(faults, restarts)
    BY Quantities DEF Sums, Base, WithinBudget
  <2>2. Bytes(mem.outbox) + Weight(Outstanding)' <= Budget(faults, restarts)
    BY <1>2, <2>1
  <2> QED
    BY <2>1, <2>2 DEF WithinBudget
<1>4. CopiesWithin'
  <2>1. /\ faults \in Nat /\ restarts \in Nat
        /\ \A s \in Sources : /\ Copies(s, mem) \in Nat
                              /\ Due(s) \in Nat /\ Due(s)' \in Nat /\ Due(s)' <= Due(s)
                              /\ Copies(s, mem) + Due(s) <= 1 + faults + restarts
                              /\ Copies(s, disk) <= 1 + faults + restarts
    <3>1. \A s \in Sources : Copies(s, mem) \in Nat
      BY CopiesNat DEF Base, OutboxesFinite
    <3>2. \A s \in Sources : Due(s) \in Nat /\ Due(s)' \in Nat /\ Due(s)' <= Due(s)
      BY <1>1 DEF Due
    <3> QED
      BY <3>1, <3>2, BoundsAssumption DEF Base, CopiesWithin, TypeOK
  <2>2. \A s \in Sources : Copies(s, mem) + Due(s)' <= 1 + faults + restarts
    BY <2>1
  <2>3. \A s \in Sources : Copies(s, mem)' = Copies(s, mem) /\ Copies(s, disk)' = Copies(s, disk)
    BY DEF Copies
  <2> QED
    BY <2>1, <2>2, <2>3 DEF CopiesWithin
<1> QED
  BY <1>3, <1>4

\* A call moves among the steps before its store or, if it is an answer, returns,
\* and nothing else than the counter changes.
LEMMA EarlyMove ==
    ASSUME Base, NEW p \in Callers, NEW step \in BeforeStore \cup {"ended"}, Goto(p, step),
           pc[p] \in BeforeStore, HasWork(p), step = "ended" => p # Producer,
           UNCHANGED <<mem, disk, flushVars, historyVars, lostSave, faults>>,
           bytes' \in 0 .. Wrap - 1, reconciled' = TRUE
    PROVE  /\ Base'
           /\ Bytes(mem.outbox)' = Bytes(mem.outbox)
           /\ Bytes(Leaving)' = Bytes(Leaving)
           /\ Bytes(mem.outbox \ Leaving)' = Bytes(mem.outbox \ Leaving)
<1> USE DEF flushVars, historyVars
<1>1. TypeOK'
  BY DEF Base, TypeOK, Goto, BeforeStore
<1>2. OutboxesFinite' /\ FlushOfQueued' /\ QuietUntilReconciled'
  BY DEF Base, OutboxesFinite, FlushOfQueued, QuietUntilReconciled
<1>3. \A q \in Callers : pc'[q] = IF q = p THEN step ELSE pc[q]
  BY DEF Base, TypeOK, Goto
<1>4. BusyHasWork'
  BY <1>3 DEF Base, BusyHasWork, HasWork
<1>5. Outstanding' \subseteq Outstanding
  BY <1>3, CallersAssumption DEF Outstanding, PastStore, Callers, BeforeStore
<1>6. WithinBudget' /\ CopiesWithin'
  BY <1>5, FewerOutstanding
<1> QED
  BY <1>1, <1>2, <1>4, <1>6 DEF Base, Leaving

LEMMA BeginLedger ==
    ASSUME Ledger, NEW p \in Callers, Begin(p)
    PROVE  Ledger'
<1>1. Base /\ BytesExact /\ WithinByteCap
  BY DEF Ledger
<1>2. /\ pc[p] = "idle" /\ HasWork(p) /\ Goto(p, "count") /\ reconciled' = TRUE
      /\ bytes' = IF reconciled THEN bytes ELSE Bytes(mem.outbox)
      /\ UNCHANGED <<mem, disk, flushVars, historyVars, lostSave, faults>>
  BY DEF Begin, Reconcile
<1>3. bytes' \in 0 .. Wrap - 1
  <2>1. bytes \in 0 .. Wrap - 1
    BY <1>1 DEF Base, TypeOK
  <2>2. /\ Bytes(mem.outbox) \in Nat /\ Wrap \in Nat /\ AllBytes \in Nat
        /\ Bytes(mem.outbox) + AllBytes < Wrap
    BY <1>1, Quantities DEF Sums
  <2> QED
    BY <1>2, <2>1, <2>2
<1>4. /\ Base' /\ Bytes(mem.outbox)' = Bytes(mem.outbox) /\ Bytes(Leaving)' = Bytes(Leaving)
      /\ Bytes(mem.outbox \ Leaving)' = Bytes(mem.outbox \ Leaving)
  BY <1>1, <1>2, <1>3, EarlyMove DEF BeforeStore
<1>5. /\ Reserved({"store", "rollback"})' = Reserved({"store", "rollback"})
      /\ Reserved({"store"})' = Reserved({"store"})
  BY <1>1, <1>2, CallMoves DEF Base
<1>6. ~reconciled => Bytes(Leaving) = 0 /\ Reserved({"store", "rollback"}) = 0
  <2> SUFFICES ASSUME ~reconciled
               PROVE  Bytes(Leaving) = 0 /\ Reserved({"store", "rollback"}) = 0
    OBVIOUS
  <2>1. flush = "idle" /\ At({"store", "rollback"}) = {}
    BY <1>1 DEF Base, QuietUntilReconciled, At, AtRest
  <2>2. Reserved({"store", "rollback"}) = DebtAt({}, mem.checkpoint)
    BY <1>1, <2>1, ReservedIsDebt DEF Base
  <2> QED
    BY <2>1, <2>2, DebtEmpty, BytesEmpty DEF Leaving
<1>7. BytesExact'
  <2>1. Bytes(mem.outbox) \in Nat
    BY <1>1, Quantities DEF Sums
  <2> QED
    BY <1>1, <1>2, <1>4, <1>5, <1>6, <2>1 DEF BytesExact
<1>8. WithinByteCap'
  BY <1>1, <1>2, <1>4, <1>5 DEF WithinByteCap
<1> QED
  BY <1>4, <1>7, <1>8 DEF Ledger

LEMMA CountCheckLedger ==
    ASSUME Ledger, NEW p \in Callers, CountCheck(p)
    PROVE  Ledger'
<1>1. Base /\ BytesExact /\ WithinByteCap
  BY DEF Ledger
<1>2. PICK step \in {"idle", "ended", "reserve"} :
         Goto(p, step) /\ (step = "ended" => p # Producer)
  BY DEF CountCheck, Returned
<1>3. /\ pc[p] = "count" /\ bytes' = bytes /\ reconciled' = reconciled
      /\ UNCHANGED <<mem, disk, flushVars, historyVars, lostSave, faults>>
  BY DEF CountCheck, counterVars
<1>4. reconciled = TRUE /\ HasWork(p) /\ bytes \in 0 .. Wrap - 1
  BY <1>1, <1>3 DEF Base, QuietUntilReconciled, BusyHasWork, TypeOK, AtRest
<1>5. /\ Base' /\ Bytes(mem.outbox)' = Bytes(mem.outbox) /\ Bytes(Leaving)' = Bytes(Leaving)
      /\ Bytes(mem.outbox \ Leaving)' = Bytes(mem.outbox \ Leaving)
  BY <1>1, <1>2, <1>3, <1>4, EarlyMove DEF BeforeStore
<1>6. /\ Reserved({"store", "rollback"})' = Reserved({"store", "rollback"})
      /\ Reserved({"store"})' = Reserved({"store"})
  BY <1>1, <1>2, <1>3, CallMoves DEF Base
<1>7. BytesExact' /\ WithinByteCap'
  BY <1>1, <1>3, <1>5, <1>6 DEF BytesExact, WithinByteCap
<1> QED
  BY <1>5, <1>7 DEF Ledger

LEMMA ModWidth ==
    ASSUME NEW w \in Nat \ {0}, NEW n \in Nat
    PROVE  /\ n % w \in 0 .. w - 1
           /\ n < w => n % w = n
           /\ n >= w /\ n < 2 * w => n % w = n - w
OBVIOUS

LEMMA ReserveLedger ==
    ASSUME Ledger, NEW p \in Callers, Reserve(p)
    PROVE  Ledger'
<1> DEFINE size == SizeOf[Source(p)]
           both == {"store", "rollback"}
<1>1. Base /\ BytesExact /\ WithinByteCap
  BY DEF Ledger
<1>2. /\ pc[p] = "reserve" /\ bytes' = (bytes + size) % Wrap /\ reconciled' = reconciled
      /\ UNCHANGED <<mem, disk, flushVars, historyVars, lostSave, faults>>
  BY DEF Reserve
<1>3. PICK step \in {"rollback", "store"} :
         Goto(p, step) /\ (step = "store" => ~(bytes' > MaxBytes))
  BY DEF Reserve
<1>4. reconciled = TRUE /\ HasWork(p) /\ bytes \in 0 .. Wrap - 1
  BY <1>1, <1>2 DEF Base, QuietUntilReconciled, BusyHasWork, TypeOK, AtRest
<1>5. size \in Nat \ {0}
  BY <1>1, <1>2, BusyCanOwe DEF Base
<1> HIDE DEF size
<1>6. Wrap \in Nat \ {0}
  BY LimitsAssumption
<1>7. bytes' \in 0 .. Wrap - 1 /\ (bytes + size < Wrap => bytes' = bytes + size)
  <2>1. bytes + size \in Nat
    BY <1>4, <1>5, <1>6
  <2> QED
    BY <1>2, <1>6, <2>1, ModWidth
<1>8. /\ Base' /\ Bytes(mem.outbox)' = Bytes(mem.outbox) /\ Bytes(Leaving)' = Bytes(Leaving)
      /\ Bytes(mem.outbox \ Leaving)' = Bytes(mem.outbox \ Leaving)
  BY <1>1, <1>2, <1>3, <1>4, <1>7, EarlyMove DEF BeforeStore
<1>9. Reserved(both)' = Reserved(both) + size
  BY <1>1, <1>2, <1>3, CallMoves DEF Base, size
<1>10. step = "rollback" => Reserved({"store"})' = Reserved({"store"})
  BY <1>1, <1>2, <1>3, CallMoves DEF Base
<1>11. /\ Reserved(both)' <= AllBytes /\ Reserved({"store"})' <= Reserved(both)'
       /\ Reserved(both)' \in Nat /\ Reserved({"store"})' \in Nat
  BY <1>8, QuantitiesAfter DEF Sums
<1>12. /\ Bytes(mem.outbox) \in Nat /\ Bytes(Leaving) \in Nat /\ Bytes(mem.outbox \ Leaving) \in Nat
       /\ Bytes(mem.outbox) = Bytes(Leaving) + Bytes(mem.outbox \ Leaving)
       /\ Bytes(mem.outbox) + AllBytes < Wrap /\ AllBytes \in Nat
       /\ Reserved(both) \in Nat
  BY <1>1, Quantities DEF Sums
<1> HIDE DEF both
<1>13. ~lostSave => bytes' + Bytes(Leaving) = Bytes(mem.outbox) + Reserved(both)'
  <2> SUFFICES ASSUME ~lostSave
               PROVE  bytes' + Bytes(Leaving) = Bytes(mem.outbox) + Reserved(both)'
    OBVIOUS
  <2>1. bytes + Bytes(Leaving) = Bytes(mem.outbox) + Reserved(both)
    BY <1>1, <1>4 DEF BytesExact, both
  <2>2. bytes + size < Wrap
    BY <2>1, <1>4, <1>5, <1>6, <1>9, <1>11, <1>12
  <2> QED
    BY <2>1, <2>2, <1>4, <1>5, <1>6, <1>7, <1>9, <1>12
<1>14. BytesExact'
  BY <1>2, <1>8, <1>13 DEF BytesExact, both
<1>15. WithinByteCap'
  <2>1. CASE step = "rollback"
    BY <2>1, <1>1, <1>2, <1>8, <1>10 DEF WithinByteCap
  <2>2. CASE step = "store"
    <3> SUFFICES ASSUME ~lostSave
                 PROVE  Bytes(mem.outbox \ Leaving) + Reserved({"store"})' <= MaxBytes
      BY <1>2, <1>8 DEF WithinByteCap
    <3>1. bytes' <= MaxBytes
      BY <2>2, <1>3, <1>6, <1>7, LimitsAssumption
    <3> QED
      BY <3>1, <1>6, <1>7, <1>11, <1>12, <1>13, LimitsAssumption
  <2> QED
    BY <2>1, <2>2
<1> QED
  BY <1>8, <1>14, <1>15 DEF Ledger

LEMMA RollbackLedger ==
    ASSUME Ledger, NEW p \in Callers, Rollback(p)
    PROVE  Ledger'
<1> DEFINE size == SizeOf[Source(p)]
           both == {"store", "rollback"}
<1>1. Base /\ BytesExact /\ WithinByteCap
  BY DEF Ledger
<1>0. PICK step \in AtRest : Goto(p, step) /\ (step = "ended" => p # Producer)
  BY DEF Rollback, Returned, AtRest
<1>2. /\ pc[p] = "rollback" /\ bytes' = (bytes + Wrap - size) % Wrap /\ reconciled' = reconciled
      /\ UNCHANGED <<mem, disk, flushVars, historyVars, lostSave, faults>>
  BY DEF Rollback
<1>3. reconciled = TRUE /\ HasWork(p) /\ bytes \in 0 .. Wrap - 1
  BY <1>1, <1>2 DEF Base, QuietUntilReconciled, BusyHasWork, TypeOK, AtRest
<1>4. size \in Nat \ {0}
  BY <1>1, <1>2, BusyCanOwe DEF Base
<1> HIDE DEF size
<1>5. Wrap \in Nat \ {0}
  BY LimitsAssumption
<1>6. Reserved(both) = Reserved(both)' + size /\ Reserved({"store"})' = Reserved({"store"})
  BY <1>0, <1>1, <1>2, CallMoves DEF Base, size, AtRest
<1>7. /\ Bytes(mem.outbox) \in Nat /\ Bytes(Leaving) \in Nat /\ Bytes(mem.outbox \ Leaving) \in Nat
      /\ Bytes(mem.outbox) = Bytes(Leaving) + Bytes(mem.outbox \ Leaving)
      /\ Bytes(mem.outbox) + AllBytes < Wrap /\ AllBytes \in Nat
      /\ Reserved(both) \in Nat /\ Reserved(both) <= AllBytes
  BY <1>1, Quantities DEF Sums
<1>8. size <= AllBytes
  <2>1. CanOwe(At({"rollback"}), mem.checkpoint) /\ {p} \in SUBSET At({"rollback"})
    BY <1>1, <1>2, ReservedIsDebt DEF Base, At
  <2>2. CanOwe({p}, mem.checkpoint)
    BY <2>1 DEF CanOwe
  <2>3. DebtAt({p}, mem.checkpoint) = size
    BY <1>1, <1>2, <2>2, DebtOne, BusyCanOwe DEF size, Base
  <2> QED
    BY <2>2, <2>3, DebtBound
<1>9. /\ bytes + Wrap - size \in Nat /\ bytes' \in 0 .. Wrap - 1
      /\ size <= bytes => bytes' = bytes - size
  <2>1. PICK n \in Nat : n = bytes + Wrap - size /\ n < 2 * Wrap
    BY <1>3, <1>4, <1>5, <1>7, <1>8
  <2>2. /\ n % Wrap \in 0 .. Wrap - 1
        /\ n >= Wrap /\ n < 2 * Wrap => n % Wrap = n - Wrap
    BY <1>5, ModWidth
  <2>3. size <= bytes => n >= Wrap /\ n - Wrap = bytes - size
    BY <1>3, <1>4, <1>5, <2>1
  <2> QED
    BY <1>2, <2>1, <2>2, <2>3
<1>10. /\ Base' /\ Bytes(mem.outbox)' = Bytes(mem.outbox) /\ Bytes(Leaving)' = Bytes(Leaving)
       /\ Bytes(mem.outbox \ Leaving)' = Bytes(mem.outbox \ Leaving)
  BY <1>0, <1>1, <1>2, <1>3, <1>9, EarlyMove DEF BeforeStore, AtRest
<1>11. Reserved(both)' \in Nat
  BY <1>10, QuantitiesAfter DEF Sums
<1> HIDE DEF both
<1>12. ~lostSave => bytes' + Bytes(Leaving) = Bytes(mem.outbox) + Reserved(both)'
  <2> SUFFICES ASSUME ~lostSave
               PROVE  bytes' + Bytes(Leaving) = Bytes(mem.outbox) + Reserved(both)'
    OBVIOUS
  <2>1. bytes + Bytes(Leaving) = Bytes(mem.outbox) + Reserved(both)
    BY <1>1, <1>3 DEF BytesExact, both
  <2>2. size <= bytes
    BY <2>1, <1>3, <1>4, <1>6, <1>7, <1>11
  <2> QED
    BY <2>1, <2>2, <1>3, <1>4, <1>6, <1>7, <1>9, <1>11
<1>13. BytesExact'
  BY <1>2, <1>10, <1>12 DEF BytesExact, both
<1>14. WithinByteCap'
  BY <1>1, <1>2, <1>6, <1>10 DEF WithinByteCap
<1> QED
  BY <1>10, <1>13, <1>14 DEF Ledger

LEMMA CopiesAdd ==
    ASSUME NEW reg, NEW more, IsFiniteSet(reg.outbox), NEW x, x \notin reg.outbox,
           more.outbox = reg.outbox \cup {x}, NEW s
    PROVE  Copies(s, more) = Copies(s, reg) + (IF x.src = s THEN 1 ELSE 0)
<1> DEFINE A == {i \in reg.outbox : i.src = s}
           B == {i \in more.outbox : i.src = s}
<1>1. IsFiniteSet(A) /\ Cardinality(A) \in Nat
  BY FS_Subset, FS_CardinalityType
<1>2. CASE x.src = s
  <2>1. B = A \cup {x} /\ x \notin A
    BY <1>2
  <2>2. Cardinality(A \cup {x}) = Cardinality(A) + 1
    <3> HIDE DEF A
    <3> QED
      BY <1>1, <2>1, FS_AddElement
  <2> QED
    BY <1>2, <2>1, <2>2 DEF Copies
<1>3. CASE x.src # s
  <2>1. B = A
    BY <1>3
  <2>2. Copies(s, more) = Cardinality(A) /\ Copies(s, reg) = Cardinality(A)
    BY <2>1 DEF Copies
  <2> HIDE DEF A
  <2> QED
    BY <1>1, <1>3, <2>2
<1> QED
  BY <1>2, <1>3

LEMMA CopiesFewer ==
    ASSUME NEW reg, NEW less, IsFiniteSet(reg.outbox), less.outbox \subseteq reg.outbox, NEW s
    PROVE  Copies(s, less) <= Copies(s, reg)
<1> DEFINE A == {i \in reg.outbox : i.src = s}
           B == {i \in less.outbox : i.src = s}
<1>1. IsFiniteSet(A) /\ B \in SUBSET A
  BY FS_Subset
<1>2. Cardinality(B) <= Cardinality(A)
  <2> HIDE DEF A, B
  <2> QED
    BY <1>1, FS_Subset
<1> QED
  BY <1>2 DEF Copies

\* A push makes a message that was not queued.
LEMMA PushedIsNew ==
    ASSUME TypeOK, OutboxesFinite, NEW s \in Sources
    PROVE  Pushed(s) \in Item /\ Pushed(s) \notin mem.outbox /\ Pushed(s).src = s
<1> DEFINE P == {i.pos : i \in mem.outbox}
           f == [i \in mem.outbox |-> i.pos]
<1>1. mem.outbox \subseteq Item
  BY DEF TypeOK, Registry
<1>2. f \in Surjection(mem.outbox, P)
  BY DEF Surjection
<1>3. IsFiniteSet(P)
  BY <1>2, FS_Surjection DEF OutboxesFinite
<1>4. IsFiniteSet(P \cup {0}) /\ P \cup {0} \in SUBSET Nat
  BY <1>1, <1>3, FS_AddElement DEF Item
<1>5. Max(P \cup {0}) \in Nat /\ \A x \in P : x <= Max(P \cup {0})
  <2> HIDE DEF P
  <2> QED
    BY <1>4, FiniteMax
<1>6. \A i \in mem.outbox : i.pos \in Nat /\ i.pos <= Max(P \cup {0})
  BY <1>1, <1>5 DEF Item
<1>7. \A i \in mem.outbox : i.pos # 1 + Max(P \cup {0})
  BY <1>5, <1>6
<1> QED
  BY <1>5, <1>7 DEF Pushed, Item

\* A write of a registry, saved or not, keeps the budget when the outbox and what
\* is outstanding fit it before the write, or after it with one more fault.
LEMMA WriteBase ==
    ASSUME Base, NEW reg \in Registry, IsFiniteSet(reg.outbox), restarts' = restarts,
           \/ /\ Saved(reg)
              /\ Bytes(reg.outbox) + Weight(Outstanding)' <= Budget(faults, restarts)
              /\ \A s \in Sources : Copies(s, reg) + Due(s)' <= 1 + faults + restarts
           \/ /\ NotSaved(reg)
              /\ Bytes(reg.outbox) + Weight(Outstanding)' <= Budget(faults, restarts) + AllBytes
              /\ \A s \in Sources : Copies(s, reg) + Due(s)' <= 2 + faults + restarts
    PROVE  /\ mem' = reg /\ mem' \in Registry /\ disk' \in Registry
           /\ faults' \in 0 .. MaxFaults
           /\ OutboxesFinite' /\ WithinBudget' /\ CopiesWithin'
<1>1. mem' = reg /\ disk' \in {reg, disk}
  BY DEF Saved, NotSaved
<1>2. OutboxesFinite' /\ mem' \in Registry /\ disk' \in Registry
  BY <1>1 DEF Base, OutboxesFinite, TypeOK
<1>3. faults \in 0 .. MaxFaults /\ faults \in Nat /\ restarts \in Nat /\ MaxFaults \in Nat
  BY BoundsAssumption DEF Base, TypeOK
<1>4. faults' \in 0 .. MaxFaults
  BY <1>3 DEF Saved, NotSaved
<1>5. /\ Budget(faults, restarts) \in Nat /\ AllBytes \in Nat
      /\ Budget(faults + 1, restarts) = Budget(faults, restarts) + AllBytes
  BY <1>3, BudgetStep, WeightAll
<1>6. Bytes(reg.outbox) \in Nat
  BY BytesSplit DEF Registry
<1>7. Weight(Outstanding)' \in Nat
  BY WeightBound DEF Outstanding
<1>8. Bytes(disk.outbox) \in Nat /\ Bytes(disk.outbox) <= Budget(faults, restarts)
  BY Quantities DEF Sums, Base, WithinBudget
<1>9. \A s \in Sources : /\ Copies(s, reg) \in Nat /\ Copies(s, disk) \in Nat
                         /\ Due(s)' \in Nat /\ Copies(s, disk) <= 1 + faults + restarts
  BY CopiesNat DEF Base, CopiesWithin, Due, OutboxesFinite
<1>10. CASE /\ Saved(reg)
            /\ Bytes(reg.outbox) + Weight(Outstanding)' <= Budget(faults, restarts)
            /\ \A s \in Sources : Copies(s, reg) + Due(s)' <= 1 + faults + restarts
  <2>1. mem' = reg /\ disk' = reg /\ faults' = faults
    BY <1>10 DEF Saved
  <2>2. Bytes(reg.outbox) <= Budget(faults, restarts)
    BY <1>5, <1>6, <1>7, <1>10
  <2>3. WithinBudget'
    BY <1>10, <2>1, <2>2 DEF WithinBudget
  <2>4. \A s \in Sources : Copies(s, reg) <= 1 + faults + restarts
    BY <1>3, <1>9, <1>10
  <2>5. CopiesWithin'
    BY <1>10, <2>1, <2>4 DEF CopiesWithin
  <2> QED
    BY <1>2, <1>4, <2>1, <2>3, <2>5
<1>11. CASE /\ NotSaved(reg)
            /\ Bytes(reg.outbox) + Weight(Outstanding)' <= Budget(faults, restarts) + AllBytes
            /\ \A s \in Sources : Copies(s, reg) + Due(s)' <= 2 + faults + restarts
  <2>1. mem' = reg /\ disk' = disk /\ faults' = faults + 1
    BY <1>11 DEF NotSaved
  <2>2. Bytes(disk.outbox) <= Budget(faults, restarts) + AllBytes
    BY <1>5, <1>8
  <2>3. WithinBudget'
    BY <1>5, <1>11, <2>1, <2>2 DEF WithinBudget
  <2>4. \A s \in Sources : /\ Copies(s, reg) + Due(s)' <= 1 + (faults + 1) + restarts
                           /\ Copies(s, disk) <= 1 + (faults + 1) + restarts
    BY <1>3, <1>9, <1>11
  <2>5. CopiesWithin'
    BY <2>1, <2>4 DEF CopiesWithin
  <2> QED
    BY <1>2, <1>4, <2>1, <2>3, <2>5
<1> QED
  BY <1>10, <1>11

LEMMA StoreLedger ==
    ASSUME Ledger, NEW p \in Callers, Store(p)
    PROVE  Ledger'
<1> DEFINE src == Source(p)
           size == SizeOf[src]
           both == {"store", "rollback"}
           item == Pushed(src)
           reg == [mem EXCEPT !.outbox = @ \cup {item}]
<1> USE DEF flushVars, historyVars, counterVars
<1>1. Base /\ BytesExact /\ WithinByteCap /\ TypeOK /\ BusyHasWork /\ OutboxesFinite
  BY DEF Ledger, Base
<1>2. /\ pc[p] = "store"
      /\ UNCHANGED <<bytes, reconciled, flush, batch, acked, taken, restarts>>
  BY DEF Store
<1>3. PICK step \in {"audit", "mark", "rollback"} :
         /\ Goto(p, step)
         /\ step = "rollback" => NotSaved(reg) /\ lostSave' = TRUE
         /\ step # "rollback" => Saved(reg) /\ lostSave' = lostSave
         /\ step = "audit" => p = Producer
         /\ step = "mark" => p # Producer
  BY DEF Store
<1>4. /\ src \in Sources /\ size \in Nat \ {0} /\ ~PastStore(src)
  BY <1>1, <1>2, BusyCanOwe
<1>5. item \in Item /\ item \notin mem.outbox /\ item.src = src
  <2> HIDE DEF src
  <2> QED
    BY <1>1, <1>4, PushedIsNew
<1>6. mem \in Registry /\ mem.outbox \subseteq Item /\ IsFiniteSet(mem.outbox)
  BY <1>1 DEF TypeOK, Registry, OutboxesFinite
<1> HIDE DEF item, size
<1>7. /\ reg \in Registry /\ reg.outbox = mem.outbox \cup {item}
      /\ reg.checkpoint = mem.checkpoint /\ reg.done = mem.done
  BY <1>5, <1>6 DEF Registry
<1> HIDE DEF reg
<1>8. IsFiniteSet(reg.outbox) /\ Bytes(reg.outbox) = Bytes(mem.outbox) + size
  BY <1>5, <1>6, <1>7, FS_AddElement, BytesAdd DEF size
<1>9. mem' = reg
  BY <1>3 DEF Saved, NotSaved
<1>10. \A q \in Callers : pc'[q] = IF q = p THEN step ELSE pc[q]
  BY <1>1, <1>3 DEF TypeOK, Goto
<1>11. Weight(Outstanding) \in Nat /\ Bytes(mem.outbox) \in Nat /\ Budget(faults, restarts) \in Nat
       /\ Bytes(mem.outbox) + Weight(Outstanding) <= Budget(faults, restarts)
       /\ AllBytes \in Nat
  BY <1>1, Quantities DEF Sums, Base, WithinBudget
<1>12. step = "rollback" => Outstanding' = Outstanding
  BY <1>2, <1>7, <1>9, <1>10, CallersAssumption
  DEF Outstanding, PastStore, Callers
<1>13. step # "rollback" => Outstanding' = Outstanding \ {src}
  <2> SUFFICES ASSUME step # "rollback" PROVE Outstanding' = Outstanding \ {src}
    OBVIOUS
  <2>1. CASE p = Producer
    BY <2>1, <1>2, <1>3, <1>7, <1>9, <1>10, CallersAssumption
    DEF Outstanding, PastStore, Callers, Source
  <2>2. CASE p # Producer
    BY <2>2, <1>2, <1>3, <1>7, <1>9, <1>10, CallersAssumption
    DEF Outstanding, PastStore, Callers, Source
  <2> QED
    BY <2>1, <2>2
<1>14. size <= AllBytes /\ Weight(Outstanding) = size + Weight(Outstanding \ {src})
       /\ Weight(Outstanding \ {src}) \in Nat
  <2>1. {src} \in SUBSET Outstanding /\ Outstanding \in SUBSET Sources
    BY <1>4 DEF Outstanding
  <2>2. Weight({src}) = size /\ Weight({src}) <= AllBytes
    BY <1>4, WeightOne, WeightBound DEF size
  <2> QED
    BY <2>1, <2>2, WeightSplit
<1>15. \/ /\ Saved(reg)
          /\ Bytes(reg.outbox) + Weight(Outstanding)' <= Budget(faults, restarts)
          /\ \A s \in Sources : Copies(s, reg) + Due(s)' <= 1 + faults + restarts
       \/ /\ NotSaved(reg)
          /\ Bytes(reg.outbox) + Weight(Outstanding)' <= Budget(faults, restarts) + AllBytes
          /\ \A s \in Sources : Copies(s, reg) + Due(s)' <= 2 + faults + restarts
  <2>1. /\ faults \in Nat /\ restarts \in Nat
        /\ src \in Outstanding
        /\ \A s \in Sources : /\ Copies(s, mem) \in Nat
                              /\ Copies(s, reg) = Copies(s, mem) + (IF src = s THEN 1 ELSE 0)
                              /\ Copies(s, mem) + Due(s) <= 1 + faults + restarts
    BY <1>1, <1>4, <1>5, <1>6, <1>7, CopiesNat, CopiesAdd, BoundsAssumption
    DEF Base, CopiesWithin, TypeOK, Outstanding
  <2>2. CASE step = "rollback"
    <3>1. Weight(Outstanding)' = Weight(Outstanding) /\ \A s \in Sources : Due(s)' = Due(s)
      BY <1>12, <2>2 DEF Due
    <3>2. \A s \in Sources : Copies(s, reg) + Due(s)' <= 2 + faults + restarts
      BY <2>1, <3>1 DEF Due
    <3> QED
      BY <2>2, <3>1, <3>2, <1>3, <1>4, <1>8, <1>11, <1>14
  <2>3. CASE step # "rollback"
    <3>1. Weight(Outstanding)' = Weight(Outstanding \ {src})
      BY <1>13, <2>3
    <3>2. \A s \in Sources : Copies(s, reg) + Due(s)' <= 1 + faults + restarts
      BY <1>13, <2>1, <2>3 DEF Due
    <3> QED
      BY <2>3, <3>1, <3>2, <1>3, <1>4, <1>8, <1>11, <1>14
  <2> QED
    BY <2>2, <2>3
<1>16. /\ mem' \in Registry /\ disk' \in Registry /\ faults' \in 0 .. MaxFaults
       /\ OutboxesFinite' /\ WithinBudget' /\ CopiesWithin'
  BY <1>1, <1>2, <1>7, <1>8, <1>15, WriteBase
<1>17. TypeOK'
  <2>1. pc' \in [Callers -> Steps]
    BY <1>1, <1>3 DEF TypeOK, Goto, Steps
  <2>2. lostSave' \in BOOLEAN
    BY <1>1, <1>3 DEF TypeOK
  <2> QED
    BY <1>1, <1>2, <1>16, <2>1, <2>2 DEF TypeOK, Steps
<1>18. BusyHasWork' /\ FlushOfQueued' /\ QuietUntilReconciled'
  BY <1>1, <1>2, <1>7, <1>9, <1>10
  DEF Base, BusyHasWork, HasWork, FlushOfQueued, QuietUntilReconciled, AtRest
<1>19. Base'
  BY <1>16, <1>17, <1>18 DEF Base
<1>20. step # "rollback" => /\ Reserved(both) = Reserved(both)' + size
                            /\ Reserved({"store"}) = Reserved({"store"})' + size
  BY <1>1, <1>2, <1>3, <1>7, <1>9, CallMoves DEF size
<1>21. /\ Reserved(both)' \in Nat /\ Reserved({"store"})' \in Nat
  BY <1>19, QuantitiesAfter DEF Sums
<1>22. Leaving' = Leaving /\ Leaving \subseteq mem.outbox /\ IsFiniteSet(mem.outbox \ Leaving)
  BY <1>1, <1>2, <1>6, Quantities, FS_Difference DEF Sums, Leaving
<1>23. /\ Bytes(mem.outbox)' = Bytes(mem.outbox) + size
       /\ Bytes(mem.outbox \ Leaving)' = Bytes(mem.outbox \ Leaving) + size
  <2>1. reg.outbox \ Leaving = (mem.outbox \ Leaving) \cup {item}
    BY <1>5, <1>7, <1>22
  <2>2. Bytes((mem.outbox \ Leaving) \cup {item}) = Bytes(mem.outbox \ Leaving) + size
    BY <1>5, <1>6, <1>22, BytesAdd DEF size
  <2> QED
    BY <1>8, <1>9, <1>22, <2>1, <2>2
<1>24. /\ bytes \in Nat /\ Bytes(Leaving) \in Nat /\ Bytes(mem.outbox \ Leaving) \in Nat
  <2>1. bytes \in Nat
    BY <1>1, LimitsAssumption DEF TypeOK
  <2> QED
    BY <1>1, <2>1, Quantities DEF Sums
<1> HIDE DEF both
<1>25. BytesExact'
  <2> SUFFICES ASSUME step # "rollback", reconciled, ~lostSave
               PROVE  bytes + Bytes(Leaving) = Bytes(mem.outbox) + size + Reserved(both)'
    BY <1>2, <1>3, <1>22, <1>23 DEF BytesExact, both
  <2>1. bytes + Bytes(Leaving) = Bytes(mem.outbox) + Reserved(both)
    BY <1>1 DEF BytesExact, both
  <2> QED
    BY <2>1, <1>4, <1>11, <1>20, <1>21, <1>24
<1>26. WithinByteCap'
  <2> SUFFICES ASSUME step # "rollback", ~lostSave
               PROVE  Bytes(mem.outbox \ Leaving) + size + Reserved({"store"})' <= MaxBytes
    BY <1>3, <1>23 DEF WithinByteCap
  <2>1. Reserved({"store"}) > 0
    BY <1>4, <1>20, <1>21
  <2>2. Bytes(mem.outbox \ Leaving) + Reserved({"store"}) <= MaxBytes
    BY <1>1, <2>1 DEF WithinByteCap
  <2> QED
    BY <2>2, <1>4, <1>20, <1>21, <1>24
<1> QED
  BY <1>19, <1>25, <1>26 DEF Ledger

\* A write that leaves the outbox, the counter, the flush and the reservations
\* alone.  What is outstanding grows only when the write fails.
LEMMA OutboxKept ==
    ASSUME Ledger, NEW reg \in Registry, reg.outbox = mem.outbox,
           \/ Saved(reg) /\ Outstanding' = Outstanding
           \/ NotSaved(reg),
           UNCHANGED <<counterVars, flushVars, historyVars, lostSave>>,
           pc' \in [Callers -> Steps], BusyHasWork',
           \A q \in Callers : pc[q] \in AtRest => pc'[q] = pc[q],
           Reserved({"store", "rollback"})' = Reserved({"store", "rollback"}),
           Reserved({"store"})' = Reserved({"store"})
    PROVE  Ledger'
<1> USE DEF flushVars, historyVars, counterVars
<1>1. Base /\ BytesExact /\ WithinByteCap /\ TypeOK /\ IsFiniteSet(mem.outbox)
  BY DEF Ledger, Base, OutboxesFinite
<1>2. /\ Weight(Outstanding) \in Nat /\ Bytes(mem.outbox) \in Nat
      /\ Budget(faults, restarts) \in Nat /\ AllBytes \in Nat
      /\ Bytes(mem.outbox) + Weight(Outstanding) <= Budget(faults, restarts)
  BY <1>1, Quantities DEF Sums, Base, WithinBudget
<1>3. Weight(Outstanding)' \in Nat /\ Weight(Outstanding)' <= AllBytes
  BY WeightBound DEF Outstanding
<1>4. \/ /\ Saved(reg)
         /\ Bytes(reg.outbox) + Weight(Outstanding)' <= Budget(faults, restarts)
         /\ \A s \in Sources : Copies(s, reg) + Due(s)' <= 1 + faults + restarts
      \/ /\ NotSaved(reg)
         /\ Bytes(reg.outbox) + Weight(Outstanding)' <= Budget(faults, restarts) + AllBytes
         /\ \A s \in Sources : Copies(s, reg) + Due(s)' <= 2 + faults + restarts
  <2>1. Bytes(reg.outbox) = Bytes(mem.outbox) /\ \A s : Copies(s, reg) = Copies(s, mem)
    BY DEF Copies
  <2>2. /\ faults \in Nat /\ restarts \in Nat
        /\ \A s \in Sources : /\ Copies(s, mem) \in Nat
                              /\ Due(s) \in {0, 1} /\ Due(s)' \in {0, 1}
                              /\ Copies(s, mem) + Due(s) <= 1 + faults + restarts
    BY <1>1, CopiesNat, BoundsAssumption DEF Base, CopiesWithin, TypeOK, Due
  <2>3. CASE Saved(reg) /\ Outstanding' = Outstanding
    <3>1. \A s \in Sources : Copies(s, reg) + Due(s)' <= 1 + faults + restarts
      BY <2>1, <2>2, <2>3 DEF Due
    <3> QED
      BY <1>2, <2>1, <2>3, <3>1
  <2>4. CASE NotSaved(reg)
    <3>1. \A s \in Sources : Copies(s, reg) + Due(s)' <= 2 + faults + restarts
      BY <2>1, <2>2
    <3> QED
      BY <1>2, <1>3, <2>1, <2>4, <3>1
  <2> QED
    BY <2>3, <2>4
<1>5. /\ mem' = reg /\ mem' \in Registry /\ disk' \in Registry /\ faults' \in 0 .. MaxFaults
      /\ OutboxesFinite' /\ WithinBudget' /\ CopiesWithin'
  BY <1>1, <1>4, WriteBase
<1>6. TypeOK'
  BY <1>1, <1>5 DEF TypeOK, Steps
<1>7. FlushOfQueued' /\ QuietUntilReconciled'
  BY <1>1, <1>5 DEF Base, FlushOfQueued, QuietUntilReconciled
<1>8. Base'
  BY <1>5, <1>6, <1>7 DEF Base
<1>9. mem'.outbox = mem.outbox /\ Leaving' = Leaving
  BY <1>5 DEF Leaving
<1>10. BytesExact' /\ WithinByteCap'
  BY <1>1, <1>9 DEF BytesExact, WithinByteCap
<1> QED
  BY <1>8, <1>10 DEF Ledger

\* A step that writes nothing and moves one call past its store.
LEMMA OutboxUntouched ==
    ASSUME Ledger, UNCHANGED <<mem, disk, faults>>,
           UNCHANGED <<counterVars, flushVars, historyVars, lostSave>>,
           Outstanding' = Outstanding,
           pc' \in [Callers -> Steps], BusyHasWork',
           \A q \in Callers : pc[q] \in AtRest => pc'[q] = pc[q],
           Reserved({"store", "rollback"})' = Reserved({"store", "rollback"}),
           Reserved({"store"})' = Reserved({"store"})
    PROVE  Ledger'
<1> USE DEF flushVars, historyVars, counterVars
<1>1. Base /\ BytesExact /\ WithinByteCap
  BY DEF Ledger
<1>2. WithinBudget' /\ CopiesWithin'
  BY <1>1, FewerOutstanding
<1>3. TypeOK' /\ OutboxesFinite' /\ FlushOfQueued' /\ QuietUntilReconciled'
  BY <1>1 DEF Base, TypeOK, Steps, OutboxesFinite, FlushOfQueued, QuietUntilReconciled
<1>4. Base'
  BY <1>2, <1>3 DEF Base
<1>5. mem'.outbox = mem.outbox /\ Leaving' = Leaving
  BY DEF Leaving
<1>6. BytesExact' /\ WithinByteCap'
  BY <1>1, <1>5 DEF BytesExact, WithinByteCap
<1> QED
  BY <1>4, <1>6 DEF Ledger

LEMMA AuditLedger ==
    ASSUME Ledger, Audit
    PROVE  Ledger'
<1>1. TypeOK /\ BusyHasWork /\ Producer \in Callers /\ mem \in Registry
  BY DEF Ledger, Base, Callers, TypeOK
<1>2. /\ pc[Producer] = "audit"
      /\ UNCHANGED <<counterVars, flushVars, historyVars, lostSave>>
  BY DEF Audit
<1>3. PICK step \in {"checkpoint", "idle"} :
         /\ Goto(Producer, step)
         /\ step = "checkpoint" => Saved(mem) \/ NoWrite
         /\ step = "idle" => NotSaved(mem)
  BY DEF Audit
<1>4. mem' = mem
  BY <1>3 DEF Saved, NotSaved, NoWrite
<1>5. \A q \in Callers : pc'[q] = IF q = Producer THEN step ELSE pc[q]
  BY <1>1, <1>3 DEF TypeOK, Goto
<1>6. step = "checkpoint" => Outstanding' = Outstanding
  BY <1>1, <1>2, <1>4, <1>5, CallersAssumption DEF Outstanding, PastStore, Callers
<1>7. pc' \in [Callers -> Steps]
  BY <1>1, <1>3 DEF TypeOK, Goto, Steps
<1>8. BusyHasWork' /\ \A q \in Callers : pc[q] \in AtRest => pc'[q] = pc[q]
  BY <1>1, <1>2, <1>4, <1>5 DEF BusyHasWork, HasWork, AtRest
<1>9. /\ Reserved({"store", "rollback"})' = Reserved({"store", "rollback"})
      /\ Reserved({"store"})' = Reserved({"store"})
  BY <1>1, <1>2, <1>3, <1>4, CallMoves
<1>10. CASE step = "checkpoint" /\ NoWrite
  BY <1>2, <1>6, <1>7, <1>8, <1>9, <1>10, OutboxUntouched DEF NoWrite
<1>11. CASE (Saved(mem) /\ step = "checkpoint") \/ NotSaved(mem)
  BY <1>1, <1>2, <1>6, <1>7, <1>8, <1>9, <1>11, OutboxKept
<1> QED
  BY <1>3, <1>10, <1>11

LEMMA CheckpointLedger ==
    ASSUME Ledger, Checkpoint
    PROVE  Ledger'
<1> DEFINE reg == [mem EXCEPT !.checkpoint = @ + 1]
<1>1. TypeOK /\ BusyHasWork /\ Producer \in Callers /\ mem \in Registry
  BY DEF Ledger, Base, Callers, TypeOK
<1>2. /\ pc[Producer] = "checkpoint" /\ Goto(Producer, "idle")
      /\ Saved(reg) \/ NotSaved(reg)
      /\ UNCHANGED <<counterVars, flushVars, historyVars, lostSave>>
  BY DEF Checkpoint
<1>3. mem.checkpoint \in 0 .. Candidates /\ mem.checkpoint < Candidates
  BY <1>1, <1>2 DEF BusyHasWork, HasWork, Registry
<1>4. /\ reg \in Registry /\ reg.outbox = mem.outbox /\ reg.done = mem.done
      /\ reg.checkpoint = mem.checkpoint + 1
  BY <1>1, <1>3, CandidatesAssumption DEF Registry
<1> HIDE DEF reg
<1>5. mem' = reg
  BY <1>2 DEF Saved, NotSaved
<1>6. \A q \in Callers : pc'[q] = IF q = Producer THEN "idle" ELSE pc[q]
  BY <1>1, <1>2 DEF TypeOK, Goto
<1>7. Outstanding' = Outstanding
  <2>1. \A s \in Sources : s \in 1 .. mem.checkpoint + 1 <=>
                             s \in 1 .. mem.checkpoint \/ s = mem.checkpoint + 1
    BY <1>3, CandidatesAssumption
  <2>2. \A s \in Sources : PastStore(s)' <=> PastStore(s)
    BY <2>1, <1>1, <1>2, <1>4, <1>5, <1>6, CallersAssumption
    DEF PastStore, Callers
  <2> QED
    BY <2>2 DEF Outstanding
<1>8. pc' \in [Callers -> Steps]
  BY <1>1, <1>2 DEF TypeOK, Goto, Steps
<1>9. BusyHasWork' /\ \A q \in Callers : pc[q] \in AtRest => pc'[q] = pc[q]
  BY <1>1, <1>2, <1>4, <1>5, <1>6 DEF BusyHasWork, HasWork, AtRest
<1>10. ASSUME NEW steps, "idle" \notin steps, "checkpoint" \notin steps
       PROVE  Reserved(steps)' = Reserved(steps)
  <2>1. At(steps)' = At(steps) /\ Producer \notin At(steps)
    BY <1>2, <1>6, <1>10 DEF At
  <2>2. Reserved(steps)' = DebtAt(At(steps)', mem'.checkpoint)
    BY DEF Reserved, DebtAt, At, Source, SourceAt
  <2>3. Reserved(steps) = DebtAt(At(steps), mem.checkpoint)
    BY DEF Reserved, DebtAt, At, Source, SourceAt
  <2> QED
    BY <2>1, <2>2, <2>3, DebtSame
<1>11. /\ Reserved({"store", "rollback"})' = Reserved({"store", "rollback"})
       /\ Reserved({"store"})' = Reserved({"store"})
  BY <1>10
<1> QED
  BY <1>2, <1>4, <1>7, <1>8, <1>9, <1>11, OutboxKept

LEMMA MarkLedger ==
    ASSUME Ledger, NEW r \in Receipts, Mark(r)
    PROVE  Ledger'
<1> DEFINE reg == [mem EXCEPT !.done = @ \cup {r}]
<1>1. TypeOK /\ BusyHasWork /\ r \in Callers /\ r # Producer /\ mem \in Registry
  BY CallersAssumption DEF Ledger, Base, Callers, TypeOK
<1>2. /\ pc[r] = "mark" /\ Goto(r, "ended")
      /\ Saved(reg) \/ NotSaved(reg) \/ NoWrite
      /\ UNCHANGED <<counterVars, flushVars, historyVars, lostSave>>
  BY <1>1 DEF Mark, Returned
<1>3. /\ reg \in Registry /\ reg.outbox = mem.outbox /\ reg.checkpoint = mem.checkpoint
  BY <1>1 DEF Registry
<1> HIDE DEF reg
<1>4. mem'.checkpoint = mem.checkpoint
  BY <1>2, <1>3 DEF Saved, NotSaved, NoWrite
<1>5. \A q \in Callers : pc'[q] = IF q = r THEN "ended" ELSE pc[q]
  BY <1>1, <1>2 DEF TypeOK, Goto
<1>6. Outstanding' = Outstanding
  <2>1. \A s \in Sources : PastStore(s)' <=> PastStore(s)
    BY <1>1, <1>2, <1>4, <1>5, CallersAssumption DEF PastStore, Callers
  <2> QED
    BY <2>1 DEF Outstanding
<1>7. pc' \in [Callers -> Steps]
  BY <1>1, <1>2 DEF TypeOK, Goto, Steps
<1>8. BusyHasWork' /\ \A q \in Callers : pc[q] \in AtRest => pc'[q] = pc[q]
  BY <1>1, <1>2, <1>4, <1>5 DEF BusyHasWork, HasWork, AtRest
<1>9. /\ Reserved({"store", "rollback"})' = Reserved({"store", "rollback"})
      /\ Reserved({"store"})' = Reserved({"store"})
  BY <1>1, <1>2, <1>4, CallMoves
<1>10. CASE NoWrite
  BY <1>2, <1>6, <1>7, <1>8, <1>9, <1>10, OutboxUntouched DEF NoWrite
<1>11. CASE Saved(reg) \/ NotSaved(reg)
  BY <1>2, <1>3, <1>6, <1>7, <1>8, <1>9, <1>11, OutboxKept
<1> QED
  BY <1>2, <1>10, <1>11

LEMMA SaveElsewhereLedger ==
    ASSUME Ledger, SaveElsewhere
    PROVE  Ledger'
<1>1. TypeOK /\ BusyHasWork /\ mem \in Registry
  BY DEF Ledger, Base, TypeOK
<1>2. /\ Saved(mem) /\ pc' = pc
      /\ UNCHANGED <<counterVars, flushVars, historyVars, lostSave>>
  BY DEF SaveElsewhere
<1>3. mem' = mem
  BY <1>2 DEF Saved
<1>4. Outstanding' = Outstanding /\ BusyHasWork' /\ pc' \in [Callers -> Steps]
  BY <1>1, <1>2, <1>3
  DEF Outstanding, PastStore, BusyHasWork, HasWork, TypeOK, Steps
<1>5. /\ Reserved({"store", "rollback"})' = Reserved({"store", "rollback"})
      /\ Reserved({"store"})' = Reserved({"store"})
  BY <1>2, <1>3 DEF Reserved, Source
<1> QED
  BY <1>1, <1>2, <1>4, <1>5, OutboxKept

\* A step of the flush, up to its delete: the registry and the calls stay.
LEMMA FlushMoves ==
    ASSUME Base, UNCHANGED <<mem, disk, pc, restarts, lostSave, faults>>,
           bytes' \in 0 .. Wrap - 1, reconciled' = TRUE,
           flush' \in {"idle", "sent", "decrement", "delete"},
           batch' \subseteq Item, acked' \subseteq batch', taken' \subseteq Sources,
           FlushOfQueued'
    PROVE  /\ Base'
           /\ Reserved({"store", "rollback"})' = Reserved({"store", "rollback"})
           /\ Reserved({"store"})' = Reserved({"store"})
<1>1. TypeOK'
  BY DEF Base, TypeOK
<1>2. OutboxesFinite' /\ BusyHasWork' /\ QuietUntilReconciled'
  BY DEF Base, OutboxesFinite, BusyHasWork, HasWork, QuietUntilReconciled
<1>3. Outstanding' = Outstanding
  BY DEF Outstanding, PastStore
<1>4. WithinBudget' /\ CopiesWithin'
  BY <1>3 DEF Base, WithinBudget, CopiesWithin, Due, Copies
<1> QED
  BY <1>1, <1>2, <1>4 DEF Base, Reserved, Source

LEMMA SendLedger ==
    ASSUME Ledger, Send
    PROVE  Ledger'
<1>1. Base /\ BytesExact /\ WithinByteCap
  BY DEF Ledger
<1>2. /\ flush = "idle" /\ flush' = "sent" /\ batch' = Oldest /\ acked' = acked
      /\ taken' = taken /\ reconciled' = TRUE
      /\ bytes' = IF reconciled THEN bytes ELSE Bytes(mem.outbox)
      /\ UNCHANGED <<mem, disk, pc, restarts, lostSave, faults>>
  BY DEF Send, Reconcile, historyVars
<1>3. /\ bytes \in 0 .. Wrap - 1 /\ acked = {} /\ taken \subseteq Sources
      /\ mem.outbox \subseteq Item
  BY <1>1, <1>2 DEF Base, TypeOK, FlushOfQueued, Registry
<1>4. /\ Bytes(mem.outbox) \in Nat /\ Wrap \in Nat /\ AllBytes \in Nat
      /\ Bytes(mem.outbox) + AllBytes < Wrap
  BY <1>1, Quantities DEF Sums
<1>5. bytes' \in 0 .. Wrap - 1
  BY <1>2, <1>3, <1>4
<1>6. batch' \subseteq mem.outbox /\ FlushOfQueued'
  BY <1>2, <1>3 DEF FlushOfQueued, Oldest
<1>7. /\ Base'
      /\ Reserved({"store", "rollback"})' = Reserved({"store", "rollback"})
      /\ Reserved({"store"})' = Reserved({"store"})
  BY <1>1, <1>2, <1>3, <1>5, <1>6, FlushMoves
<1>8. Leaving' = Leaving /\ Leaving = {}
  BY <1>2 DEF Leaving
<1>9. ~reconciled => Reserved({"store", "rollback"}) = 0
  <2> SUFFICES ASSUME ~reconciled PROVE Reserved({"store", "rollback"}) = 0
    OBVIOUS
  <2>1. At({"store", "rollback"}) = {}
    BY <1>1 DEF Base, QuietUntilReconciled, At, AtRest
  <2>2. Reserved({"store", "rollback"}) = DebtAt({}, mem.checkpoint)
    BY <1>1, <2>1, ReservedIsDebt DEF Base
  <2> QED
    BY <2>2, DebtEmpty
<1>10. BytesExact'
  BY <1>1, <1>2, <1>4, <1>7, <1>8, <1>9, BytesEmpty DEF BytesExact
<1>11. WithinByteCap'
  BY <1>1, <1>2, <1>7, <1>8 DEF WithinByteCap
<1> QED
  BY <1>7, <1>10, <1>11 DEF Ledger

LEMMA RespondLedger ==
    ASSUME Ledger, NEW got \in SUBSET batch, NEW named \in SUBSET got, Respond(got, named)
    PROVE  Ledger'
<1>1. Base /\ BytesExact /\ WithinByteCap
  BY DEF Ledger
<1>2. /\ flush = "sent" /\ bytes' = bytes /\ reconciled' = reconciled
      /\ taken' = taken \cup {i.src : i \in got}
      /\ \/ flush' = "idle" /\ batch' = {} /\ acked' = {}
         \/ flush' = "decrement" /\ acked' = named /\ batch' = batch
      /\ UNCHANGED <<mem, disk, pc, restarts, lostSave, faults>>
  BY DEF Respond, EndFlush, counterVars
<1>3. /\ bytes \in 0 .. Wrap - 1 /\ taken \subseteq Sources /\ reconciled = TRUE
      /\ batch \subseteq Item /\ batch \subseteq mem.outbox
  BY <1>1, <1>2 DEF Base, TypeOK, FlushOfQueued, QuietUntilReconciled
<1>4. FlushOfQueued' /\ taken' \subseteq Sources
  BY <1>2, <1>3 DEF FlushOfQueued, Item
<1>5. /\ Base'
      /\ Reserved({"store", "rollback"})' = Reserved({"store", "rollback"})
      /\ Reserved({"store"})' = Reserved({"store"})
  BY <1>1, <1>2, <1>3, <1>4, FlushMoves
<1>6. Leaving' = Leaving
  BY <1>2 DEF Leaving
<1>7. BytesExact' /\ WithinByteCap'
  BY <1>1, <1>2, <1>5, <1>6 DEF BytesExact, WithinByteCap
<1> QED
  BY <1>5, <1>7 DEF Ledger

LEMMA DecrementLedger ==
    ASSUME Ledger, Decrement
    PROVE  Ledger'
<1> DEFINE both == {"store", "rollback"}
<1>1. Base /\ BytesExact /\ WithinByteCap
  BY DEF Ledger
<1>2. /\ flush = "decrement" /\ flush' = "delete" /\ reconciled' = reconciled
      /\ bytes' = IF Bytes(acked) > bytes THEN 0 ELSE bytes - Bytes(acked)
      /\ UNCHANGED <<mem, disk, pc, restarts, lostSave, faults, batch, acked, taken>>
  BY DEF Decrement, historyVars
<1>3. /\ bytes \in 0 .. Wrap - 1 /\ taken \subseteq Sources /\ reconciled = TRUE
      /\ batch \subseteq Item /\ batch \subseteq mem.outbox /\ acked \subseteq batch
      /\ mem.outbox \subseteq Item /\ IsFiniteSet(mem.outbox)
  BY <1>1, <1>2 DEF Base, TypeOK, FlushOfQueued, QuietUntilReconciled, OutboxesFinite, Registry
<1>4. /\ Bytes(mem.outbox) = Bytes(acked) + Bytes(mem.outbox \ acked)
      /\ Bytes(acked) \in Nat /\ Bytes(mem.outbox \ acked) \in Nat /\ Bytes(mem.outbox) \in Nat
  BY <1>3, BytesSplit
<1>5. Wrap \in Nat /\ Reserved(both) \in Nat /\ Reserved({"store"}) \in Nat
  BY <1>1, Quantities DEF Sums
<1>6. bytes' \in 0 .. Wrap - 1
  BY <1>2, <1>3, <1>4, <1>5
<1>7. FlushOfQueued'
  BY <1>2, <1>3 DEF FlushOfQueued
<1>8. /\ Base' /\ Reserved(both)' = Reserved(both) /\ Reserved({"store"})' = Reserved({"store"})
  BY <1>1, <1>2, <1>3, <1>6, <1>7, FlushMoves
<1>9. Leaving = {} /\ Leaving' = acked /\ mem.outbox \ Leaving = mem.outbox
  BY <1>2 DEF Leaving
<1> HIDE DEF both
<1>10. ~lostSave => bytes' + Bytes(acked) = Bytes(mem.outbox) + Reserved(both)
  <2> SUFFICES ASSUME ~lostSave
               PROVE  bytes' + Bytes(acked) = Bytes(mem.outbox) + Reserved(both)
    OBVIOUS
  <2>1. bytes + 0 = Bytes(mem.outbox) + Reserved(both)
    BY <1>1, <1>3, <1>9, BytesEmpty DEF BytesExact, both
  <2> QED
    BY <2>1, <1>2, <1>3, <1>4, <1>5
<1>11. BytesExact'
  BY <1>2, <1>8, <1>9, <1>10 DEF BytesExact, both
<1>12. WithinByteCap'
  <2> SUFFICES ASSUME Reserved({"store"}) > 0, ~lostSave
               PROVE  Bytes(mem.outbox \ acked) + Reserved({"store"}) <= MaxBytes
    BY <1>2, <1>8, <1>9 DEF WithinByteCap
  <2>1. Bytes(mem.outbox) + Reserved({"store"}) <= MaxBytes
    BY <1>1, <1>9 DEF WithinByteCap
  <2> QED
    BY <2>1, <1>4, <1>5, LimitsAssumption
<1> QED
  BY <1>8, <1>11, <1>12 DEF Ledger

LEMMA DeleteLedger ==
    ASSUME Ledger, Delete
    PROVE  Ledger'
<1> DEFINE reg == [mem EXCEPT !.outbox = @ \ acked]
<1>1. Base /\ BytesExact /\ WithinByteCap /\ TypeOK
  BY DEF Ledger, Base
<1>2. /\ flush = "delete" /\ flush' = "idle" /\ batch' = {} /\ acked' = {}
      /\ Saved(reg) \/ NotSaved(reg)
      /\ UNCHANGED <<bytes, reconciled, pc, taken, restarts, lostSave>>
  BY DEF Delete, EndFlush, counterVars, historyVars
<1>3. /\ acked \subseteq mem.outbox /\ mem \in Registry
      /\ mem.outbox \subseteq Item /\ IsFiniteSet(mem.outbox)
  BY <1>1, <1>2 DEF Base, TypeOK, FlushOfQueued, OutboxesFinite, Registry
<1>4. /\ reg \in Registry /\ reg.outbox = mem.outbox \ acked
      /\ reg.checkpoint = mem.checkpoint /\ reg.done = mem.done
  BY <1>3 DEF Registry
<1> HIDE DEF reg
<1>5. mem' = reg
  BY <1>2 DEF Saved, NotSaved
<1>6. IsFiniteSet(reg.outbox)
  BY <1>3, <1>4, FS_Difference
<1>7. /\ Bytes(mem.outbox) = Bytes(acked) + Bytes(reg.outbox)
      /\ Bytes(acked) \in Nat /\ Bytes(reg.outbox) \in Nat /\ Bytes(mem.outbox) \in Nat
  <2>1. /\ Bytes(mem.outbox) = Bytes(acked) + Bytes(mem.outbox \ acked)
        /\ Bytes(acked) \in Nat /\ Bytes(mem.outbox \ acked) \in Nat
        /\ Bytes(mem.outbox) \in Nat
    BY <1>3, BytesSplit
  <2> QED
    BY <1>4, <2>1
<1>8. Outstanding' = Outstanding
  BY <1>2, <1>4, <1>5 DEF Outstanding, PastStore
<1>9. /\ Weight(Outstanding) \in Nat /\ Budget(faults, restarts) \in Nat /\ AllBytes \in Nat
      /\ Bytes(mem.outbox) + Weight(Outstanding) <= Budget(faults, restarts)
      /\ Reserved({"store", "rollback"}) \in Nat
  BY <1>1, Quantities DEF Sums, Base, WithinBudget
<1>10. /\ Bytes(reg.outbox) + Weight(Outstanding)' <= Budget(faults, restarts)
       /\ Bytes(reg.outbox) + Weight(Outstanding)' <= Budget(faults, restarts) + AllBytes
       /\ \A s \in Sources : /\ Copies(s, reg) + Due(s)' <= 1 + faults + restarts
                             /\ Copies(s, reg) + Due(s)' <= 2 + faults + restarts
  <2>1. Weight(Outstanding)' = Weight(Outstanding) /\ \A s \in Sources : Due(s)' = Due(s)
    BY <1>8 DEF Due
  <2>2. /\ faults \in Nat /\ restarts \in Nat
        /\ \A s \in Sources : /\ Copies(s, mem) \in Nat /\ Copies(s, reg) \in Nat
                              /\ Copies(s, reg) <= Copies(s, mem) /\ Due(s) \in Nat
                              /\ Copies(s, mem) + Due(s) <= 1 + faults + restarts
    <3>1. faults \in Nat /\ restarts \in Nat
      BY <1>1, BoundsAssumption DEF TypeOK
    <3>2. ASSUME NEW s \in Sources
          PROVE  /\ Copies(s, mem) \in Nat /\ Copies(s, reg) \in Nat
                 /\ Copies(s, reg) <= Copies(s, mem)
      BY <1>3, <1>4, <1>6, CopiesNat, CopiesFewer
    <3>3. \A s \in Sources : /\ Due(s) \in Nat
                             /\ Copies(s, mem) + Due(s) <= 1 + faults + restarts
      BY <1>1 DEF Base, CopiesWithin, Due
    <3> QED
      BY <3>1, <3>2, <3>3
  <2>3. \A s \in Sources : /\ Copies(s, reg) + Due(s)' <= 1 + faults + restarts
                           /\ Copies(s, reg) + Due(s)' <= 2 + faults + restarts
    BY <2>1, <2>2
  <2> QED
    BY <2>1, <2>3, <1>7, <1>9
<1>11. /\ mem' \in Registry /\ disk' \in Registry /\ faults' \in 0 .. MaxFaults
       /\ OutboxesFinite' /\ WithinBudget' /\ CopiesWithin'
  BY <1>1, <1>2, <1>4, <1>6, <1>10, WriteBase
<1>12. TypeOK'
  BY <1>1, <1>2, <1>11 DEF TypeOK
<1>13. BusyHasWork' /\ FlushOfQueued' /\ QuietUntilReconciled'
  BY <1>1, <1>2, <1>4, <1>5
  DEF Base, BusyHasWork, HasWork, FlushOfQueued, QuietUntilReconciled
<1>14. Base'
  BY <1>11, <1>12, <1>13 DEF Base
<1>15. /\ Reserved({"store", "rollback"})' = Reserved({"store", "rollback"})
       /\ Reserved({"store"})' = Reserved({"store"})
  BY <1>2, <1>4, <1>5 DEF Reserved, Source
<1>16. Leaving = acked /\ Leaving' = {} /\ mem'.outbox = mem.outbox \ acked
  BY <1>2, <1>4, <1>5 DEF Leaving
<1>17. bytes \in Nat
  BY <1>1, LimitsAssumption DEF TypeOK
<1>18. BytesExact'
  <2> SUFFICES ASSUME reconciled, ~lostSave
               PROVE  bytes + 0 = Bytes(reg.outbox) + Reserved({"store", "rollback"})
    BY <1>2, <1>5, <1>15, <1>16, BytesEmpty DEF BytesExact
  <2>1. bytes + Bytes(acked) = Bytes(mem.outbox) + Reserved({"store", "rollback"})
    BY <1>1, <1>16 DEF BytesExact
  <2> QED
    BY <2>1, <1>7, <1>9, <1>17
<1>19. WithinByteCap'
  <2>1. mem'.outbox \ Leaving' = mem.outbox \ Leaving
    BY <1>16
  <2> QED
    BY <2>1, <1>1, <1>2, <1>15 DEF WithinByteCap
<1> QED
  BY <1>14, <1>18, <1>19 DEF Ledger

LEMMA RestartLedger ==
    ASSUME Ledger, Restart
    PROVE  Ledger'
<1>1. Base /\ TypeOK
  BY DEF Ledger, Base
<1>2. /\ restarts < MaxRestarts /\ restarts' = restarts + 1 /\ mem' = disk /\ disk' = disk
      /\ bytes' = 0 /\ reconciled' = FALSE
      /\ pc' = [p \in Callers |-> IF pc[p] = "idle" THEN "idle" ELSE Returned(p)]
      /\ flush' = "idle" /\ batch' = {} /\ acked' = {} /\ lostSave' = FALSE
      /\ taken' = taken /\ faults' = faults
  BY DEF Restart, EndFlush
<1>0. /\ pc' \in [Callers -> Steps]
      /\ \A p \in Callers : pc'[p] \in AtRest /\ (p = Producer => pc'[p] = "idle")
  BY <1>2 DEF Steps, AtRest, Returned
<1>3. TypeOK'
  <2>1. bytes' \in 0 .. Wrap - 1 /\ restarts' \in 0 .. MaxRestarts
    BY <1>1, <1>2, LimitsAssumption, BoundsAssumption DEF TypeOK
  <2> QED
    BY <1>0, <1>1, <1>2, <2>1 DEF TypeOK, Steps
<1>4. OutboxesFinite' /\ BusyHasWork' /\ FlushOfQueued' /\ QuietUntilReconciled'
  BY <1>0, <1>1, <1>2
  DEF Base, OutboxesFinite, BusyHasWork, HasWork, FlushOfQueued, QuietUntilReconciled
<1>5. WithinBudget'
  <2>1. Bytes(disk.outbox) \in Nat /\ Bytes(disk.outbox) <= Budget(faults, restarts)
        /\ Budget(faults, restarts) \in Nat /\ AllBytes \in Nat
    BY <1>1, Quantities DEF Sums, Base, WithinBudget
  <2>2. Budget(faults, restarts + 1) = Budget(faults, restarts) + AllBytes
    <3>1. faults \in Nat /\ restarts \in Nat
      BY <1>1, BoundsAssumption DEF TypeOK
    <3> QED
      BY <3>1, BudgetStep
  <2>3. Weight(Outstanding)' \in Nat /\ Weight(Outstanding)' <= AllBytes
    BY WeightBound DEF Outstanding
  <2>4. /\ Bytes(disk.outbox) + Weight(Outstanding)' <= Budget(faults, restarts + 1)
        /\ Bytes(disk.outbox) <= Budget(faults, restarts + 1)
    BY <2>1, <2>2, <2>3
  <2> QED
    BY <1>2, <2>4 DEF WithinBudget
<1>6. CopiesWithin'
  <2>1. /\ faults \in Nat /\ restarts \in Nat
        /\ \A s \in Sources : /\ Copies(s, disk) \in Nat /\ Due(s)' \in {0, 1}
                              /\ Copies(s, disk) <= 1 + faults + restarts
    BY <1>1, CopiesNat, BoundsAssumption DEF Base, CopiesWithin, TypeOK, Due, OutboxesFinite
  <2>2. \A s \in Sources : /\ Copies(s, disk) + Due(s)' <= 1 + faults + (restarts + 1)
                           /\ Copies(s, disk) <= 1 + faults + (restarts + 1)
    BY <2>1
  <2> QED
    BY <1>2, <2>2 DEF CopiesWithin
<1>7. Base'
  BY <1>3, <1>4, <1>5, <1>6 DEF Base
<1>8. BytesExact'
  BY <1>2 DEF BytesExact
<1>9. WithinByteCap'
  <2>1. [p \in {q \in Callers : pc'[q] \in {"store"}} |-> SizeOf[Source(p)']] \in [{} -> Nat]
    BY <1>0 DEF AtRest
  <2>2. Reserved({"store"})' = 0
    BY <2>1, TotalEmpty DEF Reserved
  <2> QED
    BY <2>2 DEF WithinByteCap
<1> QED
  BY <1>7, <1>8, <1>9 DEF Ledger

LEMMA InitLedger == Init => Ledger
<1> SUFFICES ASSUME Init PROVE Ledger
  OBVIOUS
<1>1. /\ mem = EmptyRegistry /\ disk = EmptyRegistry /\ bytes = 0 /\ reconciled = FALSE
      /\ pc = [p \in Callers |-> "idle"] /\ flush = "idle" /\ batch = {} /\ acked = {}
      /\ taken = {} /\ lostSave = FALSE /\ faults = 0 /\ restarts = 0
  BY DEF Init
<1>2. TypeOK
  <2>1. EmptyRegistry \in Registry
    BY CandidatesAssumption DEF EmptyRegistry, Registry
  <2>2. bytes \in 0 .. Wrap - 1 /\ faults \in 0 .. MaxFaults /\ restarts \in 0 .. MaxRestarts
    BY <1>1, LimitsAssumption, BoundsAssumption
  <2> QED
    BY <1>1, <2>1, <2>2 DEF TypeOK
<1>3. mem.outbox = {} /\ disk.outbox = {}
  BY <1>1 DEF EmptyRegistry
<1>4. OutboxesFinite /\ BusyHasWork /\ FlushOfQueued /\ QuietUntilReconciled
  BY <1>1, <1>3, FS_EmptySet
  DEF OutboxesFinite, BusyHasWork, FlushOfQueued, QuietUntilReconciled, AtRest
<1>5. WithinBudget
  <2>1. Budget(0, 0) \in Nat /\ AllBytes <= Budget(0, 0) /\ AllBytes \in Nat
    BY BudgetStep, WeightAll
  <2>2. Weight(Outstanding) \in Nat /\ Weight(Outstanding) <= AllBytes
    BY WeightBound DEF Outstanding
  <2> QED
    BY <1>1, <1>3, <2>1, <2>2, BytesEmpty DEF WithinBudget
<1>6. CopiesWithin
  <2>1. \A s : Copies(s, mem) = 0 /\ Copies(s, disk) = 0
    BY <1>3, FS_EmptySet DEF Copies
  <2> QED
    BY <1>1, <2>1 DEF CopiesWithin, Due
<1>7. BytesExact
  BY <1>1 DEF BytesExact
<1>8. WithinByteCap
  <2>1. At({"store"}) = {}
    BY <1>1 DEF At
  <2>2. Reserved({"store"}) = 0
    BY <1>2, <1>4, <2>1, ReservedIsDebt, DebtEmpty
  <2> QED
    BY <2>2 DEF WithinByteCap
<1> QED
  BY <1>2, <1>4, <1>5, <1>6, <1>7, <1>8 DEF Ledger, Base

LEMMA LedgerStep == Ledger /\ [Next]_vars => Ledger'
<1> SUFFICES ASSUME Ledger, [Next]_vars PROVE Ledger'
  OBVIOUS
<1>1. CASE UNCHANGED vars
  BY <1>1
  DEF vars, Ledger, Base, TypeOK, OutboxesFinite, BusyHasWork, HasWork, FlushOfQueued,
      QuietUntilReconciled, WithinBudget, CopiesWithin, Due, Copies, Outstanding, PastStore, BytesExact,
      WithinByteCap, Leaving, Reserved, Source
<1>2. ASSUME NEW p \in Callers, Enqueue(p) PROVE Ledger'
  BY <1>2, BeginLedger, CountCheckLedger, ReserveLedger, StoreLedger, RollbackLedger
  DEF Enqueue
<1>3. CASE Next
  BY <1>2, <1>3, AuditLedger, CheckpointLedger, MarkLedger, SendLedger, RespondLedger,
     DecrementLedger, DeleteLedger, SaveElsewhereLedger, RestartLedger
  DEF Next, ProducerStep, ReceiptStep, FlushStep, Callers
<1> QED
  BY <1>1, <1>3

LEMMA LedgerHolds == Spec => []Ledger
BY InitLedger, LedgerStep, PTL DEF Spec

\* Types of the outbox model: in particular pending_bytes stays a usize and the
\* sum that reconcile_pending_bytes stores fits it, for any messages and caps.
THEOREM TypeCorrect == Spec => []TypeOK
<1>1. Ledger => TypeOK
  BY DEF Ledger, Base
<1> QED
  BY <1>1, LedgerHolds, PTL

\* pending_bytes is exactly what the outbox holds and what enqueues in progress
\* have reserved, for any callers, sizes and interleaving with a flush, unless a
\* store's write failed since the launch (enqueue_message, flush,
\* reconcile_pending_bytes).
THEOREM CounterIsExact == Spec => []BytesExact
<1>1. Ledger => BytesExact
  BY DEF Ledger
<1> QED
  BY <1>1, LedgerHolds, PTL

\* What is queued and what has passed the byte cap fit the cap together, whatever
\* enqueues pass it at once (enqueue_message).
THEOREM CapIsKept == Spec => []WithinByteCap
<1>1. Ledger => WithinByteCap
  BY DEF Ledger
<1> QED
  BY <1>1, LedgerHolds, PTL

\* An insight is queued once, and at most once more for each failed write and
\* each crash, for any number of insights (produce_pending, enqueue_message).
THEOREM CopiesAreBounded == Spec => []CopiesBounded
<1>1. Ledger => CopiesBounded
  <2> SUFFICES ASSUME Ledger, NEW s \in Sources
               PROVE  Copies(s, mem) <= 1 + faults + restarts
    BY DEF CopiesBounded, Sources
  <2>1. Copies(s, mem) \in Nat /\ Due(s) \in {0, 1}
    BY CopiesNat DEF Ledger, Base, OutboxesFinite, Due
  <2>2. faults \in Nat /\ restarts \in Nat
    BY BoundsAssumption DEF Ledger, Base, TypeOK
  <2>3. Copies(s, mem) + Due(s) <= 1 + faults + restarts
    BY DEF Ledger, Base, CopiesWithin
  <2> QED
    BY <2>1, <2>2, <2>3
<1> QED
  BY <1>1, LedgerHolds, PTL
=============================================================================

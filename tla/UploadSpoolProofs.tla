-------------------------- MODULE UploadSpoolProofs --------------------------
(***************************************************************************)
(* Proofs about the upload spool, for any capture loops, limits and        *)
(* batch sizes: its types, that the queue's counter is right whenever      *)
(* nobody is in the middle of a change, that a row is stamped as sent only *)
(* when its event was uploaded or retired, and by how much the queue can   *)
(* outgrow its capacity.                                                   *)
(***************************************************************************)
EXTENDS UploadSpool, FiniteSetTheorems, SequenceTheorems, TLAPS

\* A loop that is enqueueing has an event to enqueue.
ItemsReady == \A l \in Loops : pc[l] \in {"saved", "pop", "sub", "push"} => item[l] \in Events

TypeInv == TypeOK /\ ItemsReady

LEMMA LoopsFinite == IsFiniteSet(Loops) /\ Sync \in Loops /\ Producers \subseteq Loops
BY SpoolAssumption, FS_AddElement DEF Loops

LEMMA LoadIsNat == ASSUME size \in Int PROVE Load \in Nat
BY SpoolAssumption DEF Load

LEMMA TypeInit == Init => TypeInv
<1> SUFFICES ASSUME Init PROVE TypeInv
  OBVIOUS
<1>1. /\ \A l \in Loops : pc[l] \in {"start", "idle"}
      /\ pc \in [Loops -> Steps] /\ item \in [Loops -> 0 .. MaxEvents]
  BY SpoolAssumption DEF Init, Steps
<1>2. stopping \in BOOLEAN /\ consented \in BOOLEAN /\ flag \in BOOLEAN
  BY Zenon DEF Init
<1>3. queue \in Seq(Events) /\ batch \in Seq(Events)
  BY EmptySeq DEF Init
<1>4. row \in [Events -> {"none", "unsent", "sent"}]
  BY DEF Init
<1> QED
  BY <1>1, <1>2, <1>3, <1>4, SpoolAssumption DEF Init, TypeInv, TypeOK, ItemsReady

LEMMA ProduceTypes ==
    ASSUME TypeInv, NEW p \in Producers, Produce(p)
    PROVE  TypeInv'
<1> p \in Loops
  BY LoopsFinite
<1> USE SpoolAssumption DEF TypeInv, TypeOK, ItemsReady, GoTo, store, cursor, consent, history
<1>1. CASE Save(p)
  <2>1. made + 1 \in Events /\ made' \in 0 .. MaxEvents
    BY <1>1 DEF Save, Events
  <2>2. row' \in [Events -> {"none", "unsent", "sent"}]
    BY <1>1, <2>1 DEF Save
  <2>3. pc' \in [Loops -> Steps] /\ item' \in [Loops -> 0 .. MaxEvents]
    BY <1>1, <2>1 DEF Save, Steps, Events
  <2>4. ItemsReady'
    BY <1>1, <2>1 DEF Save
  <2> QED
    BY <1>1, <2>1, <2>2, <2>3, <2>4 DEF Save
<1>2. CASE Blocked(p)
  BY <1>2 DEF Blocked, Steps
<1>3. CASE Enqueue(p)
  BY <1>3 DEF Enqueue, Room, Steps
<1> QED
  BY <1>1, <1>2, <1>3 DEF Produce

LEMMA EnqueueTypes ==
    ASSUME TypeInv, NEW l \in Loops, EnqueueStep(l)
    PROVE  TypeInv'
<1> USE SpoolAssumption DEF TypeInv, TypeOK, ItemsReady, GoTo, store, cursor, consent, history
<1>1. CASE Pop(l)
  <2>1. queue' \in Seq(Events)
    BY <1>1, HeadTailProperties DEF Pop
  <2> QED
    BY <1>1, <2>1 DEF Pop, Steps
<1>2. CASE Sub(l)
  BY <1>2 DEF Sub, Steps
<1>3. CASE Push(l)
  <2>1. queue' \in Seq(Events)
    BY <1>3, AppendProperties DEF Push
  <2> QED
    BY <1>3, <2>1 DEF Push, Steps
<1>4. CASE Add(l)
  BY <1>4 DEF Add, Steps
<1> QED
  BY <1>1, <1>2, <1>3, <1>4 DEF EnqueueStep

LEMMA SyncTypes ==
    ASSUME TypeInv, SyncStep
    PROVE  TypeInv'
<1> Sync \in Loops
  BY LoopsFinite
<1> Load \in Nat
  BY LoadIsNat DEF TypeInv, TypeOK
<1> Len(batch) \in Nat /\ Items(batch) \subseteq Events
  BY LenProperties DEF TypeInv, TypeOK, Items
<1> USE SpoolAssumption DEF TypeInv, TypeOK, ItemsReady, GoTo, store, cursor, consent, history
<1>1. CASE NoRePrime
  BY <1>1 DEF NoRePrime, Steps
<1>2. CASE RePrime
  BY <1>2 DEF RePrime, Steps, Unsent
<1>3. CASE PrimeEnqueue
  BY <1>3 DEF PrimeEnqueue, Room, Steps, Events
<1>4. CASE PrimeBlocked
  BY <1>4 DEF PrimeBlocked
<1>5. CASE PrimeDone
  BY <1>5 DEF PrimeDone, Steps
<1>6. CASE Retire
  BY <1>6 DEF Retire, Steps, MarkAsSent
<1>7. CASE FlushSkipped
  BY <1>7 DEF FlushSkipped, Steps, After
<1>8. CASE FlushStart
  <2>1. want' \in Nat
    BY <1>8 DEF FlushStart, Least, BatchSize
  <2> QED
    BY <1>8, <2>1 DEF FlushStart, Steps
<1>9. CASE DrainPop
  <2>1. queue' \in Seq(Events) /\ batch' \in Seq(Events)
    BY <1>9, HeadTailProperties, AppendProperties DEF DrainPop
  <2> QED
    BY <1>9, <2>1 DEF DrainPop
<1>10. CASE DrainDone
  BY <1>10 DEF DrainDone, Steps, After
<1>11. CASE Drained
  BY <1>11 DEF Drained, Steps
<1>12. CASE UploadOk
  BY <1>12 DEF UploadOk, Steps
<1>13. CASE UploadFails
  BY <1>13 DEF UploadFails, Steps
<1>14. CASE UploadRejected
  BY <1>14, EmptySeq DEF UploadRejected, Steps, After
<1>15. CASE Mark
  BY <1>15, EmptySeq DEF Mark, Steps, MarkAsSent
<1>16. CASE ReLoad
  <2>1. (Load + Len(batch)) % Width \in Nat
    OBVIOUS
  <2>2. want' \in Nat
    BY <1>16, <2>1 DEF ReLoad
  <2> QED
    BY <1>16, <2>2 DEF ReLoad, Steps
<1>17. CASE RePop
  <2>1. queue' \in Seq(Events)
    BY <1>17, HeadTailProperties DEF RePop
  <2> QED
    BY <1>17, <2>1 DEF RePop
<1>18. CASE RePopDone
  BY <1>18 DEF RePopDone, Steps
<1>19. CASE ReSub
  BY <1>19 DEF ReSub, Steps
<1>20. CASE RePush
  <2>1. batch[moved + 1] \in Events
    BY <1>20, ElementOfSeq DEF RePush
  <2>2. queue' \in Seq(Events)
    BY <1>20, <2>1, AppendProperties DEF RePush
  <2> QED
    BY <1>20, <2>2 DEF RePush
<1>21. CASE ReAdd
  BY <1>21, EmptySeq DEF ReAdd, Steps, After
<1>22. CASE Retain
  BY <1>22 DEF Retain, Steps
<1>23. CASE Shutdown
  BY <1>23 DEF Shutdown, Steps
<1> QED
  BY <1>1, <1>2, <1>3, <1>4, <1>5, <1>6, <1>7, <1>8, <1>9, <1>10, <1>11, <1>12, <1>13, <1>14,
     <1>15, <1>16, <1>17, <1>18, <1>19, <1>20, <1>21, <1>22, <1>23 DEF SyncStep

LEMMA TypeStep == TypeInv /\ [Next]_vars => TypeInv'
<1> SUFFICES ASSUME TypeInv, [Next]_vars PROVE TypeInv'
  OBVIOUS
<1> USE SpoolAssumption DEF store, cursor, consent, history
<1>1. CASE Relaunch
  <2>1. /\ \A l \in Loops : pc'[l] \in {"start", "idle"}
        /\ pc' \in [Loops -> Steps] /\ item' \in [Loops -> 0 .. MaxEvents]
    BY <1>1 DEF Relaunch, Steps
  <2>2. stopping' \in BOOLEAN /\ flag' \in BOOLEAN
    BY <1>1, Zenon DEF Relaunch
  <2>3. queue' \in Seq(Events) /\ batch' \in Seq(Events)
    BY <1>1, EmptySeq DEF Relaunch
  <2> QED
    BY <1>1, <2>1, <2>2, <2>3 DEF Relaunch, WipeRows, TypeInv, TypeOK, ItemsReady
<1>2. CASE Revoke
  <2>1. consented' \in BOOLEAN /\ flag' \in BOOLEAN
    BY <1>2, Zenon DEF Revoke
  <2> QED
    BY <1>2, <2>1 DEF Revoke, TypeInv, TypeOK, ItemsReady
<1>3. CASE Wipe
  BY <1>3 DEF Wipe, WipeRows, TypeInv, TypeOK, ItemsReady
<1>4. CASE Grant
  <2>1. consented' \in BOOLEAN /\ flag' \in BOOLEAN
    BY <1>4, Zenon DEF Grant
  <2> QED
    BY <1>4, <2>1 DEF Grant, TypeInv, TypeOK, ItemsReady
<1>5. CASE UNCHANGED vars
  BY <1>5 DEF vars, TypeInv, TypeOK, ItemsReady
<1> QED
  BY <1>1, <1>2, <1>3, <1>4, <1>5, ProduceTypes, EnqueueTypes, SyncTypes DEF Next

\* The spool's state keeps its types, and no loop enqueues without an event.
THEOREM SpoolTypes == Spec => []TypeOK
<1>1. TypeInv => TypeOK
  BY DEF TypeInv
<1> QED
  BY <1>1, TypeInit, TypeStep, PTL DEF Spec

-----------------------------------------------------------------------------
(* The counter.                                                            *)

At(s) == {l \in Loops : pc[l] = s}

\* What the sync loop took out of the queue and has not subtracted yet, or put
\* back and has not added yet.
InHand == CASE pc[Sync] \in {"drain", "drained"} -> Len(batch)
            [] pc[Sync] \in {"repop", "resub"}   -> moved
            [] pc[Sync] = "repush"               -> 0 - moved
            [] OTHER                             -> 0

Carrying == {"drain", "drained", "upload", "mark", "reload", "repop", "resub", "repush"}

BatchInv == pc[Sync] \notin Carrying => batch = <<>>

CounterInv == size = Len(queue) - Cardinality(At("add")) + Cardinality(At("sub")) + InHand

SpoolInv == TypeInv /\ BatchInv /\ CounterInv

LEMMA AtFinite == ASSUME NEW s PROVE IsFiniteSet(At(s)) /\ Cardinality(At(s)) \in Nat
<1>1. At(s) \subseteq Loops
  BY DEF At
<1> QED
  BY <1>1, LoopsFinite, FS_Subset, FS_CardinalityType

\* A loop that moves counts at its new step and no longer at its old one.
LEMMA Counts ==
    ASSUME TypeOK, NEW l \in Loops, NEW from, NEW to, GoTo(l, from, to), from # to, NEW s
    PROVE  Cardinality(At(s))' = Cardinality(At(s)) + (IF s = to THEN 1 ELSE 0)
                                                    - (IF s = from THEN 1 ELSE 0)
<1>1. \A k \in Loops : pc'[k] = IF k = l THEN to ELSE pc[k]
  BY DEF GoTo, TypeOK
<1>2. pc[l] = from
  BY DEF GoTo
<1>3. CASE s = to
  <2>1. At(s)' = At(s) \cup {l} /\ l \notin At(s)
    BY <1>1, <1>2, <1>3 DEF At
  <2>2. Cardinality(At(s) \cup {l}) = Cardinality(At(s)) + 1 /\ Cardinality(At(s)) \in Nat
    BY <2>1, AtFinite, FS_AddElement
  <2> QED
    BY <2>1, <2>2, <1>3
<1>4. CASE s = from
  <2>1. At(s)' = At(s) \ {l} /\ l \in At(s)
    BY <1>1, <1>2, <1>4 DEF At
  <2>2. Cardinality(At(s) \ {l}) = Cardinality(At(s)) - 1 /\ Cardinality(At(s)) \in Nat
    BY <2>1, AtFinite, FS_RemoveElement
  <2> QED
    BY <2>1, <2>2, <1>4
<1>5. CASE s # to /\ s # from
  <2>1. At(s)' = At(s)
    BY <1>1, <1>2, <1>5 DEF At
  <2> QED
    BY <2>1, <1>5, AtFinite
<1> QED
  BY <1>3, <1>4, <1>5

LEMMA SpoolInit == Init => SpoolInv
<1> SUFFICES ASSUME Init PROVE SpoolInv
  OBVIOUS
<1>1. pc[Sync] = "start" /\ \A l \in Loops : pc[l] \in {"start", "idle"}
  BY LoopsFinite DEF Init
<1>2. At("add") = {} /\ At("sub") = {}
  BY <1>1 DEF At
<1>3. Len(queue) = 0
  BY EmptySeq DEF Init
<1>4. Cardinality(At("add")) = 0 /\ Cardinality(At("sub")) = 0
  BY <1>2, FS_EmptySet
<1>5. InHand = 0 /\ size = 0 /\ batch = <<>>
  BY <1>1 DEF InHand, Init
<1> QED
  BY <1>3, <1>4, <1>5, TypeInit DEF SpoolInv, BatchInv, CounterInv

\* A producer's step outside the queue, and the steps of a loop in enqueue.
LEMMA ProduceCounts ==
    ASSUME SpoolInv, NEW p \in Producers, Produce(p)
    PROVE  BatchInv' /\ CounterInv'
<1> p \in Loops /\ p # Sync /\ Sync \in Loops
  BY LoopsFinite, SpoolAssumption
<1>1. PICK to \in {"saved", "idle", "pop", "push"}, from \in {"saved", "idle"} :
        GoTo(p, from, to) /\ from # to
  BY DEF Produce, Save, Blocked, Enqueue, Room
<1>2. UNCHANGED <<queue, size, batch, moved>>
  BY DEF Produce, Save, Blocked, Enqueue, cursor
<1>3. pc'[Sync] = pc[Sync]
  BY <1>1 DEF GoTo, SpoolInv, TypeInv, TypeOK
<1>4. Cardinality(At("add"))' = Cardinality(At("add"))
  BY <1>1, Counts, AtFinite DEF SpoolInv, TypeInv
<1>5. Cardinality(At("sub"))' = Cardinality(At("sub"))
  BY <1>1, Counts, AtFinite DEF SpoolInv, TypeInv
<1> QED
  BY <1>2, <1>3, <1>4, <1>5 DEF SpoolInv, BatchInv, CounterInv, InHand

LEMMA EnqueueCounts ==
    ASSUME SpoolInv, NEW l \in Loops, EnqueueStep(l)
    PROVE  BatchInv' /\ CounterInv'
<1> Sync \in Loops
  BY LoopsFinite
<1> Len(queue) \in Nat
  BY LenProperties DEF SpoolInv, TypeInv, TypeOK
<1> Cardinality(At("add")) \in Nat /\ Cardinality(At("sub")) \in Nat
  BY AtFinite
<1>1. UNCHANGED <<batch, moved>>
  BY DEF EnqueueStep, Pop, Sub, Push, Add, cursor
<1>2. PICK from \in {"pop", "sub", "push", "add"},
           to \in {"sub", "push", "add", "prime", "idle"} : GoTo(l, from, to) /\ from # to
  BY DEF EnqueueStep, Pop, Sub, Push, Add
<1>3. \/ pc'[Sync] = pc[Sync]
      \/ /\ pc[Sync] \in {"pop", "sub", "push", "add"}
         /\ pc'[Sync] \in {"sub", "push", "add", "prime", "idle"}
  BY <1>2 DEF GoTo, SpoolInv, TypeInv, TypeOK
<1>4. InHand' = InHand /\ BatchInv'
  BY <1>1, <1>3 DEF InHand, SpoolInv, BatchInv, Carrying
<1> InHand \in Int
  BY LenProperties DEF InHand, SpoolInv, TypeInv, TypeOK
<1>5. CASE Pop(l) /\ queue # <<>>
  <2>1. Len(queue') = Len(queue) - 1 /\ size' = size
    BY <1>5, HeadTailProperties DEF Pop, SpoolInv, TypeInv, TypeOK
  <2>2. GoTo(l, "pop", "sub")
    BY <1>5 DEF Pop
  <2>3. Cardinality(At("add"))' = Cardinality(At("add"))
    BY <2>2, Counts DEF SpoolInv, TypeInv
  <2>4. Cardinality(At("sub"))' = Cardinality(At("sub")) + 1
    BY <2>2, Counts DEF SpoolInv, TypeInv
  <2> QED
    BY <1>4, <2>1, <2>3, <2>4 DEF SpoolInv, CounterInv
<1>6. CASE Pop(l) /\ queue = <<>>
  <2>1. GoTo(l, "pop", "push") /\ UNCHANGED <<queue, size>>
    BY <1>6 DEF Pop
  <2>2. Cardinality(At("add"))' = Cardinality(At("add"))
    BY <2>1, Counts DEF SpoolInv, TypeInv
  <2>3. Cardinality(At("sub"))' = Cardinality(At("sub"))
    BY <2>1, Counts DEF SpoolInv, TypeInv
  <2> QED
    BY <1>4, <2>1, <2>2, <2>3 DEF SpoolInv, CounterInv
<1>7. CASE Sub(l)
  <2>1. GoTo(l, "sub", "push") /\ size' = size - 1 /\ queue' = queue
    BY <1>7 DEF Sub
  <2>2. Cardinality(At("add"))' = Cardinality(At("add"))
    BY <2>1, Counts DEF SpoolInv, TypeInv
  <2>3. Cardinality(At("sub"))' = Cardinality(At("sub")) - 1
    BY <2>1, Counts DEF SpoolInv, TypeInv
  <2> QED
    BY <1>4, <2>1, <2>2, <2>3 DEF SpoolInv, CounterInv
<1>8. CASE Push(l)
  <2>1. Len(queue') = Len(queue) + 1 /\ size' = size /\ GoTo(l, "push", "add")
    BY <1>8, AppendProperties DEF Push, GoTo, SpoolInv, TypeInv, TypeOK, ItemsReady
  <2>2. Cardinality(At("add"))' = Cardinality(At("add")) + 1
    BY <2>1, Counts DEF SpoolInv, TypeInv
  <2>3. Cardinality(At("sub"))' = Cardinality(At("sub"))
    BY <2>1, Counts DEF SpoolInv, TypeInv
  <2> QED
    BY <1>4, <2>1, <2>2, <2>3 DEF SpoolInv, CounterInv
<1>9. CASE Add(l)
  <2>1. /\ size' = size + 1 /\ queue' = queue
        /\ \E next \in {"prime", "idle"} : GoTo(l, "add", next)
    BY <1>9 DEF Add
  <2>2. Cardinality(At("add"))' = Cardinality(At("add")) - 1
    BY <2>1, Counts DEF SpoolInv, TypeInv
  <2>3. Cardinality(At("sub"))' = Cardinality(At("sub"))
    BY <2>1, Counts DEF SpoolInv, TypeInv
  <2> QED
    BY <1>4, <2>1, <2>2, <2>3 DEF SpoolInv, CounterInv
<1> QED
  BY <1>5, <1>6, <1>7, <1>8, <1>9 DEF EnqueueStep

\* The sync loop's steps outside enqueue leave the loops inside it alone.
LEMMA SyncMoves ==
    ASSUME TypeOK, NEW from, NEW to, GoTo(Sync, from, to),
           from \notin {"add", "sub"}, to \notin {"add", "sub"}
    PROVE  /\ pc[Sync] = from /\ pc'[Sync] = to
           /\ Cardinality(At("add"))' = Cardinality(At("add"))
           /\ Cardinality(At("sub"))' = Cardinality(At("sub"))
<1> Sync \in Loops
  BY LoopsFinite
<1>1. pc[Sync] = from /\ pc'[Sync] = to
  BY DEF GoTo, TypeOK
<1>2. CASE from = to
  <2>1. At("add")' = At("add") /\ At("sub")' = At("sub")
    BY <1>2 DEF GoTo, TypeOK, At
  <2> QED
    BY <1>1, <2>1
<1>3. CASE from # to
  BY <1>1, <1>3, Counts, AtFinite
<1> QED
  BY <1>2, <1>3

\* A step of the sync loop that touches neither the queue nor the counter.
LEMMA SyncRests ==
    ASSUME SpoolInv, NEW from, NEW to, GoTo(Sync, from, to),
           from \notin {"add", "sub"}, to \notin {"add", "sub"},
           UNCHANGED <<queue, size>>, InHand' = InHand, BatchInv'
    PROVE  BatchInv' /\ CounterInv'
BY SyncMoves DEF SpoolInv, TypeInv, CounterInv

\* What is taken from one place and put into another leaves the sum.
LEMMA Carry ==
    ASSUME NEW s \in Int, NEW a \in Int, NEW c \in Int, NEW q \in Int, NEW h \in Int,
           NEW d \in Int, s = q - a + c + h
    PROVE  s = (q - d) - a + c + (h + d)
OBVIOUS

\* What the counter is told of changes what is in hand by as much.
LEMMA Count ==
    ASSUME NEW s \in Int, NEW a \in Int, NEW c \in Int, NEW q \in Int, NEW h \in Int,
           s = q - a + c + h
    PROVE  s - h = q - a + c + 0
OBVIOUS

LEMMA SyncCounts ==
    ASSUME SpoolInv, SyncStep
    PROVE  BatchInv' /\ CounterInv'
<1> Sync \in Loops
  BY LoopsFinite
<1> TypeOK
  BY DEF SpoolInv, TypeInv
<1> Len(queue) \in Nat /\ Len(batch) \in Nat /\ moved \in Nat /\ size \in Int
  BY LenProperties DEF TypeOK
<1> Cardinality(At("add")) \in Nat /\ Cardinality(At("sub")) \in Nat
  BY AtFinite
<1> USE DEF cursor
\* Between the flushes there is no batch.
<1>1. CASE \/ NoRePrime \/ RePrime \/ PrimeEnqueue \/ PrimeDone \/ Retire
           \/ FlushSkipped \/ Retain \/ Shutdown
  <2>1. PICK from \in {"start", "prime", "retire", "idle", "retain"},
             to \in {"idle", "prime", "pop", "push", "retire", "retain", "ended"} :
          GoTo(Sync, from, to)
    BY <1>1 DEF NoRePrime, RePrime, PrimeEnqueue, PrimeDone, Retire, FlushSkipped, Retain,
                Shutdown, Room, After
  <2>2. UNCHANGED <<queue, size, batch, moved>>
    BY <1>1 DEF NoRePrime, RePrime, PrimeEnqueue, PrimeDone, Retire, FlushSkipped, Retain,
                Shutdown
  <2>3. pc[Sync] = from /\ pc'[Sync] = to
    BY <2>1, SyncMoves
  <2>4. InHand' = InHand /\ BatchInv'
    BY <2>2, <2>3 DEF InHand, SpoolInv, BatchInv, Carrying
  <2> QED
    BY <2>1, <2>2, <2>4, SyncRests
<1>2. CASE PrimeBlocked
  <2>1. UNCHANGED <<queue, size, pc, batch, moved>>
    BY <1>2 DEF PrimeBlocked
  <2> QED
    BY <2>1 DEF SpoolInv, BatchInv, CounterInv, InHand, At
<1>3. CASE FlushStart
  <2>1. GoTo(Sync, "idle", "drain") /\ UNCHANGED <<queue, size, batch, moved>>
    BY <1>3 DEF FlushStart
  <2>2. pc[Sync] = "idle" /\ pc'[Sync] = "drain"
    BY <2>1, SyncMoves
  <2>3. batch = <<>> /\ Len(batch) = 0
    BY <2>2, EmptySeq DEF SpoolInv, BatchInv, Carrying
  <2>4. InHand' = InHand /\ BatchInv'
    BY <2>1, <2>2, <2>3 DEF InHand, BatchInv, Carrying
  <2> QED
    BY <2>1, <2>4, SyncRests
<1>4. CASE DrainPop
  <2>1. pc' = pc /\ pc[Sync] = "drain" /\ size' = size
    BY <1>4 DEF DrainPop
  <2>2. Len(queue') = Len(queue) - 1 /\ Len(batch') = Len(batch) + 1
    BY <1>4, HeadTailProperties, AppendProperties DEF DrainPop, TypeOK
  <2>3. InHand = Len(batch) /\ InHand' = Len(batch')
    BY <2>1 DEF InHand
  <2>4. At("add")' = At("add") /\ At("sub")' = At("sub") /\ BatchInv'
    BY <2>1 DEF At, BatchInv, Carrying
  <2>5. size = Len(queue) - Cardinality(At("add")) + Cardinality(At("sub")) + InHand
    BY DEF SpoolInv, CounterInv
  <2>6. size' = Len(queue') - Cardinality(At("add")) + Cardinality(At("sub")) + InHand'
    <3>1. InHand \in Int /\ InHand' = InHand + 1 /\ Len(queue') = Len(queue) - 1
      BY <2>2, <2>3
    <3> QED
      BY <2>1, <2>5, <3>1, Carry
  <2> QED
    BY <2>4, <2>6 DEF CounterInv
<1>5. CASE DrainDone
  <2>1. /\ \E to \in {"ended", "retain", "drained"} :
              GoTo(Sync, "drain", to) /\ (to = "drained" <=> batch # <<>>)
        /\ UNCHANGED <<queue, size, batch, moved>>
    BY <1>5 DEF DrainDone, After
  <2>2. PICK to \in {"ended", "retain", "drained"} :
          GoTo(Sync, "drain", to) /\ (to = "drained" <=> batch # <<>>)
    BY <2>1
  <2>3. pc[Sync] = "drain" /\ pc'[Sync] = to
    BY <2>2, SyncMoves
  <2>4. InHand' = InHand /\ BatchInv'
    BY <2>1, <2>2, <2>3, EmptySeq DEF InHand, BatchInv, Carrying
  <2> QED
    BY <2>1, <2>2, <2>4, SyncRests
<1>6. CASE Drained
  <2>1. GoTo(Sync, "drained", "upload") /\ size' = size - Len(batch) /\ UNCHANGED <<queue, batch>>
    BY <1>6 DEF Drained
  <2>2. InHand = Len(batch) /\ InHand' = 0 /\ BatchInv'
    BY <2>1, SyncMoves DEF InHand, BatchInv, Carrying
  <2>3. size' = size - InHand /\ Len(queue') = Len(queue)
    BY <2>1, <2>2
  <2>4. size = Len(queue) - Cardinality(At("add")) + Cardinality(At("sub")) + InHand
    BY DEF SpoolInv, CounterInv
  <2>5. size' = Len(queue') - Cardinality(At("add")) + Cardinality(At("sub")) + InHand'
    BY <2>2, <2>3, <2>4, Count
  <2> QED
    BY <2>1, <2>2, <2>5, SyncMoves DEF CounterInv
\* The upload and the stamp.
<1>7. CASE UploadOk \/ UploadFails
  <2>1. PICK to \in {"mark", "upload", "reload"} : GoTo(Sync, "upload", to)
    BY <1>7 DEF UploadOk, UploadFails
  <2>2. UNCHANGED <<queue, size, batch, moved>>
    BY <1>7 DEF UploadOk, UploadFails
  <2>3. pc[Sync] = "upload" /\ pc'[Sync] = to
    BY <2>1, SyncMoves
  <2>4. InHand' = InHand /\ BatchInv'
    BY <2>2, <2>3 DEF InHand, BatchInv, Carrying
  <2> QED
    BY <2>1, <2>2, <2>4, SyncRests
<1>8. CASE UploadRejected \/ Mark
  <2>1. PICK from \in {"upload", "mark"}, to \in {"ended", "retain", "idle"} :
          GoTo(Sync, from, to)
    BY <1>8 DEF UploadRejected, Mark, After
  <2>2. UNCHANGED <<queue, size>> /\ batch' = <<>>
    BY <1>8 DEF UploadRejected, Mark
  <2>3. pc[Sync] = from /\ pc'[Sync] = to
    BY <2>1, SyncMoves
  <2>4. InHand' = InHand /\ BatchInv'
    BY <2>2, <2>3 DEF InHand, BatchInv, Carrying
  <2> QED
    BY <2>1, <2>2, <2>4, SyncRests
\* The requeue.
<1>9. CASE ReLoad
  <2>1. GoTo(Sync, "reload", "repop") /\ UNCHANGED <<queue, size, batch>> /\ moved' = 0
    BY <1>9 DEF ReLoad
  <2>2. InHand = 0 /\ InHand' = 0 /\ BatchInv'
    BY <2>1, SyncMoves DEF InHand, BatchInv, Carrying
  <2> QED
    BY <2>1, <2>2, SyncRests
<1>10. CASE RePop
  <2>1. pc' = pc /\ pc[Sync] = "repop" /\ size' = size /\ moved' = moved + 1
    BY <1>10 DEF RePop
  <2>2. Len(queue') = Len(queue) - 1
    BY <1>10, HeadTailProperties DEF RePop, TypeOK
  <2>3. InHand = moved /\ InHand' = moved'
    BY <2>1 DEF InHand
  <2>4. At("add")' = At("add") /\ At("sub")' = At("sub") /\ BatchInv'
    BY <2>1 DEF At, BatchInv, Carrying
  <2>5. size = Len(queue) - Cardinality(At("add")) + Cardinality(At("sub")) + InHand
    BY DEF SpoolInv, CounterInv
  <2>6. size' = Len(queue') - Cardinality(At("add")) + Cardinality(At("sub")) + InHand'
    <3>1. InHand \in Int /\ InHand' = InHand + 1 /\ Len(queue') = Len(queue) - 1
      BY <2>1, <2>2, <2>3
    <3> QED
      BY <2>1, <2>5, <3>1, Carry
  <2> QED
    BY <2>4, <2>6 DEF CounterInv
<1>11. CASE RePopDone
  <2>1. GoTo(Sync, "repop", "resub") /\ UNCHANGED <<queue, size, batch, moved>>
    BY <1>11 DEF RePopDone
  <2>2. InHand' = InHand /\ BatchInv'
    BY <2>1, SyncMoves DEF InHand, BatchInv, Carrying
  <2> QED
    BY <2>1, <2>2, SyncRests
<1>12. CASE ReSub
  <2>1. /\ GoTo(Sync, "resub", "repush") /\ size' = size - moved /\ moved' = 0
        /\ UNCHANGED <<queue, batch>>
    BY <1>12 DEF ReSub
  <2>2. InHand = moved /\ InHand' = 0 /\ BatchInv'
    BY <2>1, SyncMoves DEF InHand, BatchInv, Carrying
  <2>3. size' = size - InHand /\ Len(queue') = Len(queue)
    BY <2>1, <2>2
  <2>4. size = Len(queue) - Cardinality(At("add")) + Cardinality(At("sub")) + InHand
    BY DEF SpoolInv, CounterInv
  <2>5. size' = Len(queue') - Cardinality(At("add")) + Cardinality(At("sub")) + InHand'
    BY <2>2, <2>3, <2>4, Count
  <2> QED
    BY <2>1, <2>2, <2>5, SyncMoves DEF CounterInv
<1>13. CASE RePush
  <2>1. /\ pc' = pc /\ pc[Sync] = "repush" /\ size' = size /\ moved' = moved + 1
        /\ moved + 1 \in 1 .. Len(batch) /\ queue' = Append(queue, batch[moved + 1])
    BY <1>13 DEF RePush
  <2>2. Len(queue') = Len(queue) + 1
    BY <2>1, ElementOfSeq, AppendProperties DEF TypeOK
  <2>3. InHand = 0 - moved /\ InHand' = 0 - moved'
    BY <2>1 DEF InHand
  <2>4. At("add")' = At("add") /\ At("sub")' = At("sub") /\ BatchInv'
    BY <2>1 DEF At, BatchInv, Carrying
  <2>5. size = Len(queue) - Cardinality(At("add")) + Cardinality(At("sub")) + InHand
    BY DEF SpoolInv, CounterInv
  <2>6. size' = Len(queue') - Cardinality(At("add")) + Cardinality(At("sub")) + InHand'
    <3>1. InHand \in Int /\ InHand' = InHand + (0 - 1) /\ Len(queue') = Len(queue) - (0 - 1)
      BY <2>1, <2>2, <2>3
    <3> QED
      BY <2>1, <2>5, <3>1, Carry
  <2> QED
    BY <2>4, <2>6 DEF CounterInv
<1>14. CASE ReAdd
  <2>1. PICK to \in {"ended", "retain"} : GoTo(Sync, "repush", to)
    BY <1>14 DEF ReAdd, After
  <2>2. size' = size + moved /\ queue' = queue /\ batch' = <<>>
    BY <1>14 DEF ReAdd
  <2>3. InHand = 0 - moved /\ InHand' = 0 /\ BatchInv'
    BY <2>1, <2>2, SyncMoves DEF InHand, BatchInv, Carrying
  <2>4. InHand \in Int /\ size' = size - InHand /\ Len(queue') = Len(queue)
    BY <2>2, <2>3
  <2>5. size = Len(queue) - Cardinality(At("add")) + Cardinality(At("sub")) + InHand
    BY DEF SpoolInv, CounterInv
  <2>6. size' = Len(queue') - Cardinality(At("add")) + Cardinality(At("sub")) + InHand'
    BY <2>3, <2>4, <2>5, Count
  <2> QED
    BY <2>1, <2>3, <2>6, SyncMoves DEF CounterInv
<1> QED
  BY <1>1, <1>2, <1>3, <1>4, <1>5, <1>6, <1>7, <1>8, <1>9, <1>10, <1>11, <1>12, <1>13, <1>14
     DEF SyncStep

LEMMA SpoolStep == SpoolInv /\ [Next]_vars => SpoolInv'
<1> SUFFICES ASSUME SpoolInv, [Next]_vars PROVE BatchInv' /\ CounterInv'
  BY TypeStep DEF SpoolInv
<1>1. CASE Relaunch
  <2>1. pc'[Sync] = "start" /\ \A l \in Loops : pc'[l] \in {"start", "idle"}
    BY <1>1, LoopsFinite DEF Relaunch
  <2>2. At("add")' = {} /\ At("sub")' = {}
    BY <2>1 DEF At
  <2>3. Cardinality(At("add")') = 0 /\ Cardinality(At("sub")') = 0
    BY <2>2, FS_EmptySet
  <2>4. Len(queue') = 0 /\ size' = 0 /\ batch' = <<>>
    BY <1>1, EmptySeq DEF Relaunch
  <2>5. InHand' = 0
    BY <2>1 DEF InHand
  <2> QED
    BY <2>3, <2>4, <2>5 DEF BatchInv, CounterInv
<1>2. CASE Revoke \/ Wipe \/ Grant \/ UNCHANGED vars
  <2>1. UNCHANGED <<queue, size, pc, batch, moved>>
    BY <1>2 DEF Revoke, Wipe, Grant, vars, cursor
  <2> QED
    BY <2>1 DEF SpoolInv, BatchInv, CounterInv, InHand, At
<1> QED
  BY <1>1, <1>2, ProduceCounts, EnqueueCounts, SyncCounts DEF Next

\* For any number of capture loops, and whatever a flush or a requeue is doing when
\* they evict and push, the counter is the length of the queue as soon as nobody
\* is between the two (enqueue, drop_oldest, flush, requeue_failed_events).
THEOREM CounterIsRight == Spec => []CounterSettles
<1>1. SpoolInv => CounterSettles
  <2> SUFFICES ASSUME SpoolInv, Settled PROVE size = Len(queue)
    BY DEF CounterSettles
  <2>1. At("add") = {} /\ At("sub") = {}
    BY DEF Settled, At
  <2>2. Cardinality(At("add")) = 0 /\ Cardinality(At("sub")) = 0
    BY <2>1, FS_EmptySet
  <2>3. InHand = 0
    BY DEF Settled, InHand
  <2>4. Len(queue) \in Nat
    BY LenProperties DEF SpoolInv, TypeInv, TypeOK
  <2> QED
    BY <2>2, <2>3, <2>4 DEF SpoolInv, CounterInv
<1> QED
  BY <1>1, SpoolInit, SpoolStep, PTL DEF Spec

-----------------------------------------------------------------------------
(* The stamps.                                                             *)

\* A flush that goes on to stamp its rows had them accepted.
SentInv == SentWasUploaded /\ (pc[Sync] = "mark" => Items(batch) \subseteq uploaded)

LEMMA SentInit == Init => SentInv
BY LoopsFinite DEF Init, SentInv, SentWasUploaded

LEMMA SentStep == TypeOK /\ SentInv /\ [Next]_vars => SentInv'
<1> SUFFICES ASSUME TypeOK, SentInv, [Next]_vars PROVE SentInv'
  OBVIOUS
<1> Sync \in Loops /\ Sync \notin Producers /\ Producers \subseteq Loops
  BY LoopsFinite, SpoolAssumption
<1> USE DEF SentInv, SentWasUploaded, store, cursor, consent, history
<1>1. CASE \E p \in Producers : Produce(p)
  <2>1. PICK p \in Producers : Produce(p)
    BY <1>1
  <2>2. pc'[Sync] = pc[Sync] /\ UNCHANGED <<batch, uploaded, retired>>
    BY <2>1 DEF Produce, Save, Blocked, Enqueue, GoTo, TypeOK
  <2>3. \A e \in Events : row'[e] = "sent" => row[e] = "sent"
    BY <2>1 DEF Produce, Save, Blocked, Enqueue, TypeOK
  <2> QED
    BY <2>2, <2>3
<1>2. CASE \E l \in Loops : EnqueueStep(l)
  <2>1. PICK l \in Loops : EnqueueStep(l)
    BY <1>2
  <2>2. UNCHANGED <<row, batch, uploaded, retired>>
    BY <2>1 DEF EnqueueStep, Pop, Sub, Push, Add
  <2>3. pc'[Sync] = "mark" => pc[Sync] = "mark"
    BY <2>1 DEF EnqueueStep, Pop, Sub, Push, Add, GoTo, TypeOK
  <2> QED
    BY <2>2, <2>3
<1>3. CASE Retire
  <2>1. pc'[Sync] = "idle"
    BY <1>3 DEF Retire, GoTo, TypeOK
  <2>2. /\ uploaded' = uploaded /\ retired \subseteq retired'
        /\ \A e \in Events : row'[e] = "sent" => row[e] = "sent" \/ e \in retired'
    BY <1>3 DEF Retire, MarkAsSent
  <2> QED
    BY <2>1, <2>2
<1>4. CASE UploadOk \/ UploadFails
  <2>1. uploaded \subseteq uploaded' /\ UNCHANGED <<row, retired, batch>>
    BY <1>4 DEF UploadOk, UploadFails
  <2>2. pc'[Sync] = "mark" => UploadOk
    BY <1>4 DEF UploadFails, GoTo, TypeOK
  <2>3. pc'[Sync] = "mark" => Items(batch) \subseteq uploaded'
    BY <2>2 DEF UploadOk
  <2> QED
    BY <2>1, <2>3 DEF Items
<1>5. CASE Mark
  <2>1. pc[Sync] = "mark" /\ pc'[Sync] # "mark" /\ UNCHANGED <<uploaded, retired>>
    BY <1>5 DEF Mark, GoTo, TypeOK
  <2>2. \A e \in Events : row'[e] = "sent" => row[e] = "sent" \/ e \in Items(batch)
    BY <1>5 DEF Mark, MarkAsSent
  <2> QED
    BY <2>1, <2>2
<1>6. CASE Retain
  <2>1. pc'[Sync] = "idle" /\ UNCHANGED <<uploaded, retired>>
    BY <1>6 DEF Retain, GoTo, TypeOK
  <2>2. \A e \in Events : row'[e] = "sent" => row[e] = "sent"
    BY <1>6 DEF Retain
  <2> QED
    BY <2>1, <2>2
<1>7. CASE \/ NoRePrime \/ RePrime \/ PrimeEnqueue \/ PrimeBlocked \/ PrimeDone
           \/ FlushSkipped \/ FlushStart \/ DrainPop \/ DrainDone \/ Drained
           \/ UploadRejected \/ ReLoad \/ RePop \/ RePopDone \/ ReSub \/ RePush \/ ReAdd
           \/ Shutdown
  <2>1. UNCHANGED <<row, uploaded, retired>>
    BY <1>7 DEF NoRePrime, RePrime, PrimeEnqueue, PrimeBlocked, PrimeDone, FlushSkipped,
                FlushStart, DrainPop, DrainDone, Drained, UploadRejected, ReLoad, RePop,
                RePopDone, ReSub, RePush, ReAdd, Shutdown
  <2>2. pc'[Sync] # "mark"
    BY <1>7 DEF NoRePrime, RePrime, PrimeEnqueue, PrimeBlocked, PrimeDone, FlushSkipped,
                FlushStart, DrainPop, DrainDone, Drained, UploadRejected, ReLoad, RePop,
                RePopDone, ReSub, RePush, ReAdd, Shutdown, GoTo, TypeOK, After, Room
  <2> QED
    BY <2>1, <2>2
<1>8. CASE Relaunch
  <2>1. pc'[Sync] = "start" /\ UNCHANGED <<uploaded, retired>>
    BY <1>8 DEF Relaunch
  <2>2. \A e \in Events : row'[e] = "sent" => row[e] = "sent"
    BY <1>8 DEF Relaunch, WipeRows
  <2> QED
    BY <2>1, <2>2
<1>9. CASE Revoke \/ Wipe \/ Grant \/ UNCHANGED vars
  <2>1. UNCHANGED <<pc, batch, uploaded, retired>>
    BY <1>9 DEF Revoke, Wipe, Grant, vars
  <2>2. \A e \in Events : row'[e] = "sent" => row[e] = "sent"
    BY <1>9 DEF Revoke, Wipe, WipeRows, Grant, vars
  <2> QED
    BY <2>1, <2>2 DEF Items
<1> QED
  BY <1>1, <1>2, <1>3, <1>4, <1>5, <1>6, <1>7, <1>8, <1>9 DEF Next, SyncStep

\* Whatever is evicted, requeued, rejected or lost in a crash, and however often an
\* event is re-primed, its row is stamped as sent only after the server accepted
\* the event or the policy blocked it (flush, mark_as_sent, reprime_pending_uploads).
THEOREM SentIsUploaded == Spec => []SentWasUploaded
<1>1. SentInv => SentWasUploaded
  BY DEF SentInv
<1> QED
  BY <1>1, SentInit, SentStep, SpoolTypes, PTL DEF Spec

-----------------------------------------------------------------------------
(* The overshoot.  A queue that is checked before it is pushed to can grow past its    *)
(* capacity; by how much is a matter of who may have looked at the counter before the  *)
(* others moved it.                                                                    *)

\* The longest batch that a flush can take (compute_batch_size).
LargestBatch == IF SmallQueue > 2 * MaxBatch THEN SmallQueue ELSE 2 * MaxBatch

Among(S) == {l \in Loops : pc[l] \in S}

LEMMA AmongFinite == ASSUME NEW S PROVE IsFiniteSet(Among(S)) /\ Cardinality(Among(S)) \in Nat
<1>1. Among(S) \subseteq Loops
  BY DEF Among
<1> QED
  BY <1>1, LoopsFinite, FS_Subset, FS_CardinalityType

\* A loop that moves leaves one group of steps and enters another.
LEMMA AmongMoves ==
    ASSUME TypeOK, NEW l \in Loops, NEW from, NEW to, GoTo(l, from, to), NEW S
    PROVE  Cardinality(Among(S))' = Cardinality(Among(S)) + (IF to \in S THEN 1 ELSE 0)
                                                          - (IF from \in S THEN 1 ELSE 0)
<1>1. pc[l] = from /\ \A k \in Loops : pc'[k] = IF k = l THEN to ELSE pc[k]
  BY DEF GoTo, TypeOK
<1>2. IsFiniteSet(Among(S)) /\ Cardinality(Among(S)) \in Nat
  BY AmongFinite
<1>3. CASE (to \in S) <=> (from \in S)
  <2>1. Among(S)' = Among(S)
    BY <1>1, <1>3 DEF Among
  <2> QED
    BY <1>2, <1>3, <2>1
<1>4. CASE to \in S /\ from \notin S
  <2>1. Among(S)' = Among(S) \cup {l} /\ l \notin Among(S)
    BY <1>1, <1>4 DEF Among
  <2>2. Cardinality(Among(S) \cup {l}) = Cardinality(Among(S)) + 1
    BY <1>2, <2>1, FS_AddElement
  <2> QED
    BY <1>2, <1>4, <2>1, <2>2
<1>5. CASE to \notin S /\ from \in S
  <2>1. Among(S)' = Among(S) \ {l} /\ l \in Among(S)
    BY <1>1, <1>5 DEF Among
  <2>2. Cardinality(Among(S) \ {l}) = Cardinality(Among(S)) - 1
    BY <1>2, <2>1, FS_RemoveElement
  <2> QED
    BY <1>2, <1>5, <2>1, <2>2
<1> QED
  BY <1>3, <1>4, <1>5

Waiting == Cardinality(At("push"))
Counting == Cardinality(At("add"))
Evicting == Cardinality(At("sub"))

\* How many can be inside enqueue, past its check.
LEMMA InsideEnqueue ==
    ASSUME TypeOK
    PROVE  /\ Waiting \in Nat /\ Counting \in Nat /\ Evicting \in Nat
           /\ Cardinality(Producers) \in Nat
           /\ Waiting + Counting + Evicting <= Cardinality(Producers) + 1
           /\ \A l \in Loops : pc[l] \notin {"push", "add", "sub"} =>
                 Waiting + Counting + Evicting <= Cardinality(Producers)
           /\ \A p \in Producers :
                 pc[Sync] \notin {"push", "add", "sub"} /\ pc[p] \notin {"push", "add", "sub"}
                 => Waiting + Counting + Evicting <= Cardinality(Producers) - 1
<1> DEFINE n == Cardinality(Producers)
           A == At("push") \cup At("add")
           B == A \cup At("sub")
<1>1. /\ IsFiniteSet(At("push")) /\ IsFiniteSet(At("add")) /\ IsFiniteSet(At("sub"))
      /\ Waiting \in Nat /\ Counting \in Nat /\ Evicting \in Nat
  BY AtFinite DEF Waiting, Counting, Evicting
<1>2. IsFiniteSet(A) /\ Cardinality(A) = Waiting + Counting
  <2>1. At("push") \cap At("add") = {}
    BY DEF At
  <2>2. Cardinality(At("push") \cap At("add")) = 0
    BY <2>1, FS_EmptySet
  <2>3. /\ IsFiniteSet(At("push") \cup At("add"))
        /\ Cardinality(At("push") \cup At("add"))
             = Cardinality(At("push")) + Cardinality(At("add")) - Cardinality(At("push") \cap At("add"))
    BY <1>1, FS_Union
  <2> QED
    BY <1>1, <2>2, <2>3 DEF Waiting, Counting
<1>3. IsFiniteSet(B) /\ Cardinality(B) = Waiting + Counting + Evicting
  <2>1. A \cap At("sub") = {}
    BY DEF At
  <2>2. Cardinality(A \cap At("sub")) = 0
    BY <2>1, FS_EmptySet
  <2> HIDE DEF A
  <2>3. /\ IsFiniteSet(A \cup At("sub"))
        /\ Cardinality(A \cup At("sub"))
             = Cardinality(A) + Cardinality(At("sub")) - Cardinality(A \cap At("sub"))
    BY <1>1, <1>2, FS_Union
  <2> QED
    BY <1>1, <1>2, <2>2, <2>3 DEF Evicting
<1>4. \A l \in Loops : l \in B <=> pc[l] \in {"push", "add", "sub"}
  BY DEF At
<1>5. B \subseteq Loops
  BY DEF At
<1> HIDE DEF A, B
<1>6. n \in Nat /\ Cardinality(Loops) = n + 1
  BY SpoolAssumption, FS_CardinalityType, FS_AddElement DEF Loops
<1>7. Cardinality(B) <= n + 1
  BY <1>5, <1>6, LoopsFinite, FS_Subset
<1>8. ASSUME NEW l \in Loops, l \notin B PROVE Cardinality(B) <= n
  <2>1. B \subseteq Loops \ {l}
    BY <1>5, <1>8
  <2>2. IsFiniteSet(Loops \ {l}) /\ Cardinality(Loops \ {l}) = n
    BY <1>6, LoopsFinite, FS_RemoveElement
  <2> QED
    BY <2>1, <2>2, FS_Subset
<1>9. ASSUME NEW p \in Producers, p \notin B, Sync \notin B PROVE Cardinality(B) <= n - 1
  <2>1. B \subseteq Producers \ {p}
    BY <1>5, <1>9 DEF Loops
  <2>2. IsFiniteSet(Producers \ {p}) /\ Cardinality(Producers \ {p}) = n - 1
    BY SpoolAssumption, FS_RemoveElement
  <2> QED
    BY <2>1, <2>2, FS_Subset
<1> QED
  BY <1>1, <1>3, <1>4, <1>6, <1>7, <1>8, <1>9, LoopsFinite

-----------------------------------------------------------------------------
(* The counter stays within a usize: it counts events that were captured or re-primed. *)

Busy == {"saved", "pop", "sub", "push", "add"}

\* What a flush has subtracted and a requeue may add again.
Carried == IF pc[Sync] \in {"upload", "reload", "repop", "resub", "repush"} THEN Len(batch) ELSE 0

Tickets == size + Cardinality(Among(Busy)) + Carried + Cardinality(todo)

Issued == made + (IF pc[Sync] = "start" THEN 0 ELSE MaxEvents)

TicketInv == Tickets <= Issued

LEMMA TodoFinite ==
    ASSUME NEW t \in SUBSET Events
    PROVE  IsFiniteSet(t) /\ Cardinality(t) \in Nat /\ Cardinality(t) <= MaxEvents
<1>1. IsFiniteSet(Events) /\ Cardinality(Events) = MaxEvents
  BY SpoolAssumption, FS_Interval DEF Events
<1> QED
  BY <1>1, FS_Subset, FS_CardinalityType

\* The numbers behind the tickets.
LEMMA TicketTypes ==
    ASSUME TypeOK
    PROVE  /\ size \in Int /\ Cardinality(Among(Busy)) \in Nat /\ Carried \in Nat
           /\ Len(batch) \in Nat /\ IsFiniteSet(todo) /\ Cardinality(todo) \in Nat
           /\ Cardinality(todo) <= MaxEvents /\ made \in Nat /\ MaxEvents \in Nat /\ moved \in Nat
           /\ Issued \in Nat
<1>1. Len(batch) \in Nat /\ size \in Int /\ moved \in Nat
  BY LenProperties DEF TypeOK
<1>2. IsFiniteSet(todo) /\ Cardinality(todo) \in Nat /\ Cardinality(todo) <= MaxEvents
  BY TodoFinite DEF TypeOK
<1>3. made \in Nat /\ MaxEvents \in Nat
  BY SpoolAssumption DEF TypeOK
<1> QED
  BY <1>1, <1>2, <1>3, AmongFinite DEF Carried, Issued

\* No step adds more to the counter than was issued.
LEMMA TicketStep == SpoolInv /\ TicketInv /\ [Next]_vars => TicketInv'
<1> SUFFICES ASSUME SpoolInv, TicketInv, [Next]_vars PROVE TicketInv'
  OBVIOUS
<1> DEFINE busy == Cardinality(Among(Busy))
           left == Cardinality(todo)
<1>0. TypeOK /\ TypeOK' /\ Sync \in Loops /\ Sync \notin Producers /\ Producers \subseteq Loops
  BY SpoolAssumption, LoopsFinite, TypeStep DEF SpoolInv, TypeInv
<1>1. /\ size \in Int /\ busy \in Nat /\ Carried \in Nat /\ Len(batch) \in Nat /\ left \in Nat
      /\ left <= MaxEvents /\ IsFiniteSet(todo) /\ made \in Nat /\ MaxEvents \in Nat
      /\ moved \in Nat /\ Issued \in Nat
  BY <1>0, TicketTypes
<1>2. size + busy + Carried + left <= Issued
  BY DEF TicketInv, Tickets
<1> USE DEF cursor, store
<1>3. ASSUME NEW p \in Producers, Produce(p) PROVE TicketInv'
  <2>1. /\ UNCHANGED <<size, batch, todo>> /\ pc'[Sync] = pc[Sync]
        /\ \/ GoTo(p, "idle", "saved") /\ made' = made + 1
           \/ GoTo(p, "saved", "idle") /\ made' = made
           \/ \E to \in {"pop", "push"} : GoTo(p, "saved", to) /\ made' = made
    BY <1>0, <1>3 DEF Produce, Save, Blocked, Enqueue, Room, GoTo, TypeOK
  <2>2. Carried' = Carried
    BY <2>1 DEF Carried
  <2>3. \/ busy' = busy + 1 /\ made' = made + 1
        \/ busy' \in {busy, busy - 1} /\ made' = made
    <3>1. ASSUME NEW from, NEW to, GoTo(p, from, to)
          PROVE  busy' = busy + (IF to \in Busy THEN 1 ELSE 0) - (IF from \in Busy THEN 1 ELSE 0)
      BY <1>0, <3>1, AmongMoves
    <3> HIDE DEF busy
    <3> QED
      BY <1>1, <2>1, <3>1 DEF Busy
  <2> HIDE DEF busy
  <2>4. size + busy' + Carried + left <= Issued'
    BY <1>1, <1>2, <2>1, <2>3 DEF Issued
  <2> QED
    BY <2>1, <2>2, <2>4 DEF TicketInv, Tickets, busy
<1>4. ASSUME NEW l \in Loops, EnqueueStep(l) PROVE TicketInv'
  <2>1. /\ UNCHANGED <<batch, todo, made>>
        /\ \/ size' \in {size, size - 1}
              /\ \E from, to \in Busy : GoTo(l, from, to)
           \/ size' = size + 1
              /\ \E to \in {"prime", "idle"} : GoTo(l, "add", to)
    BY <1>4 DEF EnqueueStep, Pop, Sub, Push, Add, Busy
  <2>2. Carried' = Carried /\ Issued' = Issued
    BY <1>0, <2>1 DEF Carried, Issued, GoTo, TypeOK, Busy
  <2>3. \/ size' \in {size, size - 1} /\ busy' = busy
        \/ size' = size + 1 /\ busy' = busy - 1
    <3>1. ASSUME NEW from, NEW to, GoTo(l, from, to)
          PROVE  busy' = busy + (IF to \in Busy THEN 1 ELSE 0) - (IF from \in Busy THEN 1 ELSE 0)
      BY <1>0, <3>1, AmongMoves
    <3>2. "add" \in Busy /\ "prime" \notin Busy /\ "idle" \notin Busy
      BY DEF Busy
    <3> HIDE DEF busy
    <3> QED
      BY <1>1, <2>1, <3>1, <3>2
  <2> HIDE DEF busy
  <2>4. size' + busy' + Carried + left <= Issued
    BY <1>1, <1>2, <2>3
  <2> QED
    BY <2>1, <2>2, <2>4 DEF TicketInv, Tickets, busy
<1>5. CASE SyncStep
  <2>0. ASSUME NEW from, NEW to, GoTo(Sync, from, to)
        PROVE  /\ pc[Sync] = from /\ pc'[Sync] = to
               /\ busy' = busy + (IF to \in Busy THEN 1 ELSE 0) - (IF from \in Busy THEN 1 ELSE 0)
    <3>1. pc[Sync] = from /\ pc'[Sync] = to
      BY <1>0, <2>0 DEF GoTo, TypeOK
    <3>2. busy' = busy + (IF to \in Busy THEN 1 ELSE 0) - (IF from \in Busy THEN 1 ELSE 0)
      BY <1>0, <2>0, AmongMoves
    <3> QED
      BY <3>1, <3>2
  <2>01. "pop" \in Busy /\ "push" \in Busy
         /\ \A s \in {"idle", "start", "prime", "retire", "drain", "drained", "upload", "mark",
                      "reload", "repop", "resub", "repush", "retain", "ended"} : s \notin Busy
    BY DEF Busy
  <2>1. CASE NoRePrime
    <3>1. GoTo(Sync, "start", "idle") /\ UNCHANGED <<size, batch, todo, made>>
      BY <2>1 DEF NoRePrime
    <3>2. pc[Sync] = "start" /\ pc'[Sync] = "idle" /\ busy' = busy + 0 - 0
      BY <2>0, <2>01, <3>1
    <3>3. Carried' = Carried
      BY <3>1, <3>2 DEF Carried
    <3> HIDE DEF busy
    <3>4. size + busy' + Carried + left <= Issued'
      BY <1>1, <1>2, <3>1, <3>2 DEF Issued
    <3> QED
      BY <3>1, <3>3, <3>4 DEF TicketInv, Tickets, busy
  <2>2. CASE RePrime
    <3>1. GoTo(Sync, "start", "prime") /\ UNCHANGED <<size, batch, made>> /\ todo' \subseteq Events
      BY <2>2 DEF RePrime, Unsent
    <3>2. pc[Sync] = "start" /\ pc'[Sync] = "prime" /\ busy' = busy + 0 - 0
      BY <2>0, <2>01, <3>1
    <3>3. Carried' = Carried
      BY <3>1, <3>2 DEF Carried
    <3>4. left' \in Nat /\ left' <= MaxEvents
      BY <3>1, TodoFinite
    <3>6. Issued = made + 0 /\ Issued' = made + MaxEvents
      BY <3>1, <3>2 DEF Issued
    <3> HIDE DEF busy, left
    <3>5. size + busy' + Carried + left' <= Issued'
      <4>1. busy' = busy
        BY <1>1, <3>2
      <4>2. size + busy + Carried <= made
        BY <1>1, <1>2, <3>6
      <4>3. \A k \in Nat : k <= MaxEvents => size + busy + Carried + k <= made + MaxEvents
        BY <1>1, <4>2
      <4>4. size + busy + Carried + left' <= made + MaxEvents
        BY <3>4, <4>3
      <4> QED
        BY <3>6, <4>1, <4>4
    <3> QED
      BY <3>1, <3>3, <3>5 DEF TicketInv, Tickets, busy, left
  <2>3. CASE PrimeEnqueue
    <3>1. /\ UNCHANGED <<size, batch, made>>
          /\ \E e \in todo : todo' = todo \ {e}
          /\ \E to \in {"pop", "push"} : GoTo(Sync, "prime", to)
      BY <2>3 DEF PrimeEnqueue, Room
    <3>2. left' = left - 1
      BY <1>1, <3>1, FS_RemoveElement
    <3>3. pc[Sync] = "prime" /\ pc'[Sync] \in {"pop", "push"} /\ busy' = busy + 1 - 0
      BY <2>0, <2>01, <3>1
    <3>4. Carried' = Carried /\ Issued' = Issued
      BY <3>1, <3>3 DEF Carried, Issued
    <3> HIDE DEF busy, left
    <3>5. size + busy' + Carried + left' <= Issued
      BY <1>1, <1>2, <3>2, <3>3
    <3> QED
      BY <3>1, <3>4, <3>5 DEF TicketInv, Tickets, busy, left
  <2>4. CASE PrimeBlocked
    <3>1. UNCHANGED <<size, batch, made, pc>> /\ \E e \in todo : todo' = todo \ {e}
      BY <2>4 DEF PrimeBlocked
    <3>2. left' = left - 1
      BY <1>1, <3>1, FS_RemoveElement
    <3>3. busy' = busy /\ Carried' = Carried /\ Issued' = Issued
      BY <3>1 DEF Among, Carried, Issued
    <3> HIDE DEF busy, left
    <3>4. size + busy + Carried + left' <= Issued
      BY <1>1, <1>2, <3>2
    <3> QED
      BY <3>1, <3>3, <3>4 DEF TicketInv, Tickets, busy, left
  <2>5. CASE \/ PrimeDone \/ Retire \/ FlushSkipped \/ FlushStart \/ DrainDone \/ Retain
             \/ Shutdown \/ Mark \/ UploadOk \/ UploadFails \/ UploadRejected \/ ReLoad
             \/ RePopDone \/ DrainPop \/ RePop \/ RePush
    <3>1. UNCHANGED <<size, todo, made>>
      BY <2>5 DEF PrimeDone, Retire, FlushSkipped, FlushStart, DrainDone, Retain, Shutdown,
                  Mark, UploadOk, UploadFails, UploadRejected, ReLoad, RePopDone, DrainPop,
                  RePop, RePush
    <3>2. CASE \/ PrimeDone \/ Retire \/ FlushSkipped \/ FlushStart \/ DrainDone \/ Retain
               \/ Shutdown \/ Mark
      <4>1. \E from \in {"prime", "retire", "idle", "drain", "retain", "mark"},
               to \in {"idle", "retire", "ended", "retain", "drain", "drained"} :
               GoTo(Sync, from, to)
        BY <3>2 DEF PrimeDone, Retire, FlushSkipped, FlushStart, DrainDone, Retain, Shutdown,
                    Mark, After
      <4>2. /\ busy' = busy + 0 - 0
            /\ pc[Sync] \in {"prime", "retire", "idle", "drain", "retain", "mark"}
            /\ pc'[Sync] \in {"idle", "retire", "ended", "retain", "drain", "drained"}
        BY <2>0, <2>01, <4>1
      <4>3. Carried' = Carried /\ Issued' = Issued
        BY <3>1, <4>2 DEF Carried, Issued
      <4> HIDE DEF busy
      <4> QED
        BY <1>1, <1>2, <3>1, <4>2, <4>3 DEF TicketInv, Tickets, busy
    <3>3. CASE UploadOk \/ UploadFails \/ UploadRejected \/ ReLoad \/ RePopDone
      <4>1. /\ \E from \in {"upload", "reload", "repop"},
                  to \in {"mark", "upload", "reload", "ended", "retain", "repop", "resub"} :
                  GoTo(Sync, from, to)
            /\ batch' = batch \/ UploadRejected
        BY <3>3 DEF UploadOk, UploadFails, UploadRejected, ReLoad, RePopDone, After
      <4>2. /\ busy' = busy + 0 - 0
            /\ pc[Sync] \in {"upload", "reload", "repop"}
            /\ pc'[Sync] \in {"mark", "upload", "reload", "ended", "retain", "repop", "resub"}
        BY <2>0, <2>01, <4>1
      <4>3. UploadRejected => pc'[Sync] \in {"ended", "retain"}
        BY <2>0 DEF UploadRejected, After
      <4>4. Carried' \in {0, Carried} /\ Issued' = Issued
        BY <3>1, <4>1, <4>2, <4>3 DEF Carried, Issued
      <4> HIDE DEF busy, left
      <4>5. size + busy' + Carried' + left <= Issued
        <5>1. busy' = busy + 0 - 0 /\ (Carried' = 0 \/ Carried' = Carried)
          BY <4>2, <4>4
        <5> QED
          BY <1>1, <1>2, <5>1
      <4> QED
        BY <3>1, <4>4, <4>5 DEF TicketInv, Tickets, busy, left
    <3>4. CASE DrainPop \/ RePop \/ RePush
      <4>1. pc' = pc /\ (batch' = batch \/ pc[Sync] = "drain")
        BY <3>4 DEF DrainPop, RePop, RePush
      <4>2. busy' = busy /\ Carried' = Carried /\ Issued' = Issued
        BY <3>1, <4>1 DEF Among, Carried, Issued
      <4> HIDE DEF busy
      <4> QED
        BY <1>2, <3>1, <4>2 DEF TicketInv, Tickets, busy
    <3> QED
      BY <2>5, <3>2, <3>3, <3>4
  <2>6. CASE Drained
    <3>1. GoTo(Sync, "drained", "upload") /\ size' = size - Len(batch)
          /\ UNCHANGED <<batch, todo, made>>
      BY <2>6 DEF Drained
    <3>2. pc[Sync] = "drained" /\ pc'[Sync] = "upload" /\ busy' = busy + 0 - 0
      BY <2>0, <2>01, <3>1
    <3>3. Carried = 0 /\ Carried' = Len(batch) /\ Issued' = Issued
      BY <3>1, <3>2 DEF Carried, Issued
    <3> HIDE DEF busy, left
    <3>4. size' + busy' + Carried' + left <= Issued
      BY <1>1, <1>2, <3>1, <3>2, <3>3
    <3> QED
      BY <3>1, <3>3, <3>4 DEF TicketInv, Tickets, busy, left
  <2>7. CASE ReSub
    <3>1. GoTo(Sync, "resub", "repush") /\ size' = size - moved /\ UNCHANGED <<batch, todo, made>>
      BY <2>7 DEF ReSub
    <3>2. pc[Sync] = "resub" /\ pc'[Sync] = "repush" /\ busy' = busy + 0 - 0
      BY <2>0, <2>01, <3>1
    <3>3. Carried' = Carried /\ Issued' = Issued
      BY <3>1, <3>2 DEF Carried, Issued
    <3> HIDE DEF busy, left
    <3>4. size' + busy' + Carried' + left <= Issued
      BY <1>1, <1>2, <3>1, <3>2, <3>3
    <3> QED
      BY <3>1, <3>3, <3>4 DEF TicketInv, Tickets, busy, left
  <2>8. CASE ReAdd
    <3>1. /\ \E to \in {"ended", "retain"} : GoTo(Sync, "repush", to)
          /\ size' = size + Len(batch) /\ UNCHANGED <<todo, made>>
      BY <2>8 DEF ReAdd, After
    <3>2. pc[Sync] = "repush" /\ pc'[Sync] \in {"ended", "retain"} /\ busy' = busy + 0 - 0
      BY <2>0, <2>01, <3>1
    <3>3. Carried = Len(batch) /\ Carried' = 0 /\ Issued' = Issued
      BY <3>1, <3>2 DEF Carried, Issued
    <3> HIDE DEF busy, left
    <3>4. size' + busy' + Carried' + left <= Issued
      BY <1>1, <1>2, <3>1, <3>2, <3>3
    <3> QED
      BY <3>1, <3>3, <3>4 DEF TicketInv, Tickets, busy, left
  <2> QED
    BY <1>5, <2>1, <2>2, <2>3, <2>4, <2>5, <2>6, <2>7, <2>8 DEF SyncStep
<1>6. CASE Relaunch
  <2>1. /\ size' = 0 /\ todo' = {} /\ made' = made
        /\ pc'[Sync] = "start" /\ \A l \in Loops : pc'[l] \in {"start", "idle"}
    BY <1>0, <1>6 DEF Relaunch
  <2>2. Among(Busy)' = {}
    BY <2>1 DEF Among, Busy
  <2>3. busy' = 0 /\ left' = 0 /\ Carried' = 0 /\ Issued' = made + 0
    BY <2>1, <2>2, FS_EmptySet DEF Carried, Issued
  <2> HIDE DEF busy, left
  <2> QED
    BY <1>1, <2>1, <2>3 DEF TicketInv, Tickets, busy, left
<1>7. CASE Revoke \/ Wipe \/ Grant \/ UNCHANGED vars
  <2>1. UNCHANGED <<size, pc, batch, todo, made>>
    BY <1>7 DEF Revoke, Wipe, Grant, vars
  <2> QED
    BY <2>1 DEF TicketInv, Tickets, Issued, Among, Carried
<1> QED
  BY <1>3, <1>4, <1>5, <1>6, <1>7 DEF Next
LEMMA TicketInit == Init => TicketInv
<1> SUFFICES ASSUME Init PROVE TicketInv
  OBVIOUS
<1>1. /\ size = 0 /\ todo = {} /\ made = 0
      /\ pc[Sync] = "start" /\ \A l \in Loops : pc[l] \in {"start", "idle"}
  BY LoopsFinite DEF Init
<1>2. Among(Busy) = {}
  BY <1>1 DEF Among, Busy
<1>3. Cardinality(Among(Busy)) = 0 /\ Cardinality(todo) = 0 /\ Carried = 0 /\ Issued = 0
  BY <1>1, <1>2, FS_EmptySet DEF Carried, Issued
<1> QED
  BY <1>1, <1>3 DEF TicketInv, Tickets

\* What a load makes of a number below a width.
LEMMA ModWidth ==
    ASSUME NEW w \in Nat \ {0}, NEW s \in Int, s < w
    PROVE  /\ s % w \in 0 .. w - 1 /\ s % w >= s
           /\ 0 <= s => s % w = s
           /\ s < 0 /\ 0 - w <= s => s % w = s + w
OBVIOUS

LEMMA ModTwice ==
    ASSUME NEW w \in Nat \ {0}, NEW s \in Int, s < w
    PROVE  0 <= s => (s + w) % w = s
OBVIOUS

\* The counter, and what a requeue adds to it, is a usize: a load is never less.
LEMMA LoadIsEnough ==
    ASSUME SpoolInv, TicketInv
    PROVE  /\ Load \in Nat /\ size <= Load
           /\ pc[Sync] = "reload" => (Load + Len(batch)) % Width >= size + Len(batch)
<1> DEFINE n == Cardinality(Producers)
           busy == Cardinality(Among(Busy))
           left == Cardinality(todo)
           b == Len(batch)
<1>1. /\ size \in Int /\ busy \in Nat /\ Carried \in Nat /\ b \in Nat /\ left \in Nat
      /\ made \in Nat /\ made <= MaxEvents /\ MaxEvents \in Nat /\ Width \in Nat \ {0}
  <2>1. made <= MaxEvents /\ Width \in Nat \ {0}
    BY SpoolAssumption DEF SpoolInv, TypeInv, TypeOK
  <2> QED
    BY <2>1, TicketTypes DEF SpoolInv, TypeInv
<1>2. size + busy + Carried + left <= Issued
  BY DEF TicketInv, Tickets
<1>3. Issued \in Nat /\ Issued <= 2 * MaxEvents
  BY <1>1 DEF Issued
<1> HIDE DEF busy, left, b
<1>4. size + Carried < Width /\ size < Width
  BY <1>1, <1>2, <1>3, WidthAssumption
<1>5. Load \in Nat /\ size <= Load
  BY <1>1, <1>4, ModWidth DEF Load
<1>6. ASSUME pc[Sync] = "reload" PROVE (Load + b) % Width >= size + b
  <2>1. Carried = b
    BY <1>6 DEF Carried, b
  <2>2. /\ Len(queue) \in Nat /\ Counting \in Nat /\ Evicting \in Nat /\ n \in Nat
        /\ Waiting \in Nat /\ Waiting + Counting + Evicting <= n
    BY <1>6, InsideEnqueue, LenProperties, LoopsFinite DEF SpoolInv, TypeInv, TypeOK
  <2>3. size = Len(queue) - Counting + Evicting + 0
    BY <1>6 DEF SpoolInv, CounterInv, InHand, Counting, Evicting
  <2>4. n < Width
    BY WidthAssumption
  <2> HIDE DEF n
  <2>5. 0 - Width <= size
    BY <1>1, <2>2, <2>3, <2>4
  <2>6. size + b \in Int /\ size + b < Width
    BY <1>1, <1>4, <2>1
  <2>7. CASE 0 <= size
    <3>1. Load = size
      BY <1>1, <1>4, <2>7, ModWidth DEF Load
    <3> QED
      BY <1>1, <2>6, <3>1, ModWidth
  <2>8. CASE size < 0
    <3>1. Load = size + Width
      BY <1>1, <1>4, <2>5, <2>8, ModWidth DEF Load
    <3>2. Load + b = (size + b) + Width
      BY <1>1, <3>1
    <3>3. CASE 0 <= size + b
      <4>1. ((size + b) + Width) % Width = size + b
        BY <1>1, <2>6, <3>3, ModTwice
      <4> QED
        BY <2>6, <3>2, <4>1
    <3>4. CASE size + b < 0
      <4>1. (Load + b) % Width \in Nat
        BY <1>1, <1>5
      <4> QED
        BY <2>6, <3>4, <4>1
    <3> QED
      BY <2>6, <3>3, <3>4
  <2> QED
    BY <1>1, <2>7, <2>8
<1> QED
  BY <1>5, <1>6 DEF b

-----------------------------------------------------------------------------
(* A batch, while it is filled and while it is put back.                               *)

BatchBound == /\ Len(batch) <= LargestBatch
              /\ pc[Sync] = "drain" => Len(batch) + want <= LargestBatch
              /\ pc[Sync] = "repush" => moved <= Len(batch)

LEMMA LargestIsNat == LargestBatch \in Nat /\ LargestBatch >= 2
BY SpoolAssumption DEF LargestBatch

LEMMA BatchInit == Init => BatchBound
<1> SUFFICES ASSUME Init PROVE BatchBound
  OBVIOUS
<1>1. batch = <<>> /\ pc[Sync] = "start"
  BY LoopsFinite DEF Init
<1>2. Len(batch) = 0
  BY <1>1, EmptySeq
<1> QED
  BY <1>1, <1>2, LargestIsNat DEF BatchBound

LEMMA BatchStep == SpoolInv /\ BatchBound /\ [Next]_vars => BatchBound'
<1> SUFFICES ASSUME SpoolInv, BatchBound, [Next]_vars PROVE BatchBound'
  OBVIOUS
<1>0. TypeOK /\ Sync \in Loops /\ Sync \notin Producers
  BY SpoolAssumption, LoopsFinite DEF SpoolInv, TypeInv
<1>1. Len(batch) \in Nat /\ want \in Nat /\ moved \in Nat /\ LargestBatch \in Nat
  BY <1>0, LenProperties, LargestIsNat DEF TypeOK
<1>2. Len(<<>>) = 0
  BY EmptySeq
<1> USE DEF cursor
\* A step that does not touch the batch, nor take the loop to where it is filled or put back.
<1>3. ASSUME UNCHANGED batch, pc'[Sync] \notin {"drain", "repush"} PROVE BatchBound'
  BY <1>3 DEF BatchBound
<1>4. ASSUME UNCHANGED <<batch, want, moved>>, pc'[Sync] = pc[Sync] PROVE BatchBound'
  BY <1>4 DEF BatchBound
<1>5. ASSUME batch' = <<>>, pc'[Sync] \notin {"drain", "repush"} PROVE BatchBound'
  BY <1>1, <1>2, <1>5 DEF BatchBound
<1>6. ASSUME NEW p \in Producers, Produce(p) PROVE BatchBound'
  <2>1. UNCHANGED <<batch, want, moved>> /\ pc'[Sync] = pc[Sync]
    BY <1>0, <1>6 DEF Produce, Save, Blocked, Enqueue, GoTo, TypeOK
  <2> QED
    BY <1>4, <2>1
<1>7. ASSUME NEW l \in Loops, EnqueueStep(l) PROVE BatchBound'
  <2>1. /\ UNCHANGED <<batch, want, moved>>
        /\ pc'[Sync] = pc[Sync] \/ pc'[Sync] \in {"push", "sub", "add", "prime"}
    BY <1>0, <1>7 DEF EnqueueStep, Pop, Sub, Push, Add, GoTo, TypeOK
  <2> QED
    BY <1>3, <1>4, <2>1
<1>8. CASE \/ NoRePrime \/ RePrime \/ PrimeEnqueue \/ PrimeDone \/ Retire \/ FlushSkipped
           \/ DrainDone \/ Drained \/ UploadOk \/ UploadFails \/ ReLoad \/ RePopDone
           \/ Retain \/ Shutdown
  <2>1. UNCHANGED batch
    BY <1>8 DEF NoRePrime, RePrime, PrimeEnqueue, PrimeDone, Retire, FlushSkipped, DrainDone,
                Drained, UploadOk, UploadFails, ReLoad, RePopDone, Retain, Shutdown
  <2>2. pc'[Sync] \notin {"drain", "repush"}
    BY <1>0, <1>8 DEF NoRePrime, RePrime, PrimeEnqueue, PrimeDone, Retire, FlushSkipped,
                      DrainDone, Drained, UploadOk, UploadFails, ReLoad, RePopDone, Retain,
                      Shutdown, GoTo, TypeOK, After, Room
  <2> QED
    BY <1>3, <2>1, <2>2
<1>9. CASE PrimeBlocked \/ RePop
  <2>1. UNCHANGED <<batch, pc>> /\ pc[Sync] \in {"prime", "repop"}
    BY <1>9 DEF PrimeBlocked, RePop
  <2> QED
    BY <1>3, <2>1
<1>10. CASE FlushStart
  <2>1. /\ pc[Sync] = "idle" /\ pc'[Sync] = "drain" /\ batch' = batch
        /\ want' = Least(Load, BatchSize(Load))
    BY <1>0, <1>10 DEF FlushStart, GoTo, TypeOK
  <2>2. Len(batch) = 0
    BY <1>2, <2>1 DEF SpoolInv, BatchInv, Carrying
  <2>3. Load \in Nat
    BY <1>0, LoadIsNat DEF TypeOK
  <2>4. want' \in Nat /\ want' <= LargestBatch
    BY <2>1, <2>3, SpoolAssumption DEF Least, BatchSize, LargestBatch
  <2> QED
    BY <1>1, <2>1, <2>2, <2>4 DEF BatchBound
<1>11. CASE DrainPop
  <2>1. /\ pc[Sync] = "drain" /\ pc' = pc /\ queue # <<>> /\ batch' = Append(batch, Head(queue))
        /\ want' = want - 1
    BY <1>11 DEF DrainPop
  <2>2. Head(queue) \in Events
    BY <1>0, <2>1, HeadTailProperties DEF TypeOK
  <2>3. Len(batch') = Len(batch) + 1
    BY <1>0, <2>1, <2>2, AppendProperties DEF TypeOK
  <2>4. want > 0
    BY <1>11 DEF DrainPop
  <2> QED
    BY <1>1, <2>1, <2>3, <2>4 DEF BatchBound
<1>12. CASE UploadRejected \/ Mark \/ ReAdd
  <2>1. batch' = <<>> /\ pc'[Sync] \notin {"drain", "repush"}
    BY <1>0, <1>12 DEF UploadRejected, Mark, ReAdd, GoTo, TypeOK, After
  <2> QED
    BY <1>5, <2>1
<1>13. CASE ReSub
  <2>1. pc'[Sync] = "repush" /\ moved' = 0 /\ batch' = batch
    BY <1>0, <1>13 DEF ReSub, GoTo, TypeOK
  <2> QED
    BY <1>1, <2>1 DEF BatchBound
<1>14. CASE RePush
  <2>1. pc[Sync] = "repush" /\ pc' = pc /\ moved' = moved + 1 /\ batch' = batch
        /\ moved < Len(batch)
    BY <1>14 DEF RePush
  <2> QED
    BY <1>1, <2>1 DEF BatchBound
<1>15. CASE Relaunch
  <2>1. batch' = <<>> /\ pc'[Sync] = "start"
    BY <1>0, <1>15 DEF Relaunch
  <2> QED
    BY <1>5, <2>1
<1>16. CASE Revoke \/ Wipe \/ Grant \/ UNCHANGED vars
  <2>1. UNCHANGED <<batch, want, moved, pc>>
    BY <1>16 DEF Revoke, Wipe, Grant, vars
  <2> QED
    BY <1>4, <2>1
<1> QED
  BY <1>6, <1>7, <1>8, <1>9, <1>10, <1>11, <1>12, <1>13, <1>14, <1>15, <1>16 DEF Next, SyncStep

-----------------------------------------------------------------------------
(* The queue with what is on its way into it.                                          *)

\* What a requeue will put back beyond what it still means to evict.
Owed == CASE pc[Sync] = "repop"  -> IF want > Len(batch) THEN 0 ELSE Len(batch) - want
          [] pc[Sync] = "resub"  -> Len(batch)
          [] pc[Sync] = "repush" -> Len(batch) - moved
          [] OTHER               -> 0

\* A loop at "sub" has made room for the event that it will push.
Claimed == Len(queue) + Waiting + Evicting + Owed

Capacity == MaxQueue + Cardinality(Producers) + LargestBatch - 1

QueueInv == Claimed <= Capacity

\* The parts of the claim, and who can be inside enqueue beside a requeue.
LEMMA ClaimTypes ==
    ASSUME SpoolInv, BatchBound
    PROVE  /\ Len(queue) \in Nat /\ Waiting \in Nat /\ Counting \in Nat /\ Evicting \in Nat
           /\ Owed \in Nat /\ Owed <= LargestBatch /\ InHand \in Int /\ size \in Int
           /\ Owed - InHand <= LargestBatch
           /\ pc[Sync] \notin {"repop", "resub", "repush"} => Owed = 0 /\ Owed - InHand <= 0
           /\ MaxQueue \in Nat /\ MaxQueue >= 1 /\ Cardinality(Producers) \in Nat
           /\ LargestBatch \in Nat /\ LargestBatch >= 2 /\ Len(batch) \in Nat
           /\ Len(batch) <= LargestBatch /\ want \in Nat /\ moved \in Nat
           /\ Len(queue) = size + Counting - Evicting - InHand
<1>1. TypeOK
  BY DEF SpoolInv, TypeInv
<1>2. /\ Len(queue) \in Nat /\ Len(batch) \in Nat /\ want \in Nat /\ moved \in Nat
      /\ size \in Int /\ LargestBatch \in Nat /\ LargestBatch >= 2
  BY <1>1, LenProperties, LargestIsNat DEF TypeOK
<1>3. /\ Waiting \in Nat /\ Counting \in Nat /\ Evicting \in Nat
      /\ Cardinality(Producers) \in Nat
  BY <1>1, InsideEnqueue
<1>4. Len(batch) <= LargestBatch /\ (pc[Sync] = "repush" => moved <= Len(batch))
  BY DEF BatchBound
<1>5. /\ Owed \in Nat /\ Owed <= LargestBatch /\ InHand \in Int
      /\ Owed - InHand <= LargestBatch
      /\ pc[Sync] \notin {"repop", "resub", "repush"} => Owed = 0 /\ Owed - InHand <= 0
  <2>1. CASE pc[Sync] = "repop"
    <3>1. Owed = (IF want > Len(batch) THEN 0 ELSE Len(batch) - want) /\ InHand = moved
      BY <2>1 DEF Owed, InHand
    <3> QED
      BY <1>2, <1>4, <2>1, <3>1
  <2>2. CASE pc[Sync] = "resub"
    <3>1. Owed = Len(batch) /\ InHand = moved
      BY <2>2 DEF Owed, InHand
    <3> QED
      BY <1>2, <1>4, <2>2, <3>1
  <2>3. CASE pc[Sync] = "repush"
    <3>1. Owed = Len(batch) - moved /\ InHand = 0 - moved
      BY <2>3 DEF Owed, InHand
    <3> QED
      BY <1>2, <1>4, <2>3, <3>1
  <2>4. CASE pc[Sync] \notin {"repop", "resub", "repush"}
    <3>1. Owed = 0 /\ (InHand = Len(batch) \/ InHand = 0)
      BY <2>4 DEF Owed, InHand
    <3> QED
      BY <1>2, <3>1
  <2> QED
    BY <2>1, <2>2, <2>3, <2>4
<1>6. Len(queue) = size + Counting - Evicting - InHand
  <2>1. size = Len(queue) - Counting + Evicting + InHand
    BY DEF SpoolInv, CounterInv, Counting, Evicting
  <2> QED
    BY <1>2, <1>3, <1>5, <2>1
<1> QED
  BY <1>2, <1>3, <1>4, <1>5, <1>6, SpoolAssumption

\* What a loop's move does to the two counts.
LEMMA ClaimMoves ==
    ASSUME TypeOK, NEW l \in Loops, NEW from, NEW to, GoTo(l, from, to), from # to
    PROVE  /\ Waiting' = Waiting + (IF to = "push" THEN 1 ELSE 0) - (IF from = "push" THEN 1 ELSE 0)
           /\ Evicting' = Evicting + (IF to = "sub" THEN 1 ELSE 0) - (IF from = "sub" THEN 1 ELSE 0)
<1>1. ASSUME NEW s
      PROVE  Cardinality(At(s))' = Cardinality(At(s)) + (IF s = to THEN 1 ELSE 0)
                                                      - (IF s = from THEN 1 ELSE 0)
  BY Counts
<1>2. Waiting' = Waiting + (IF "push" = to THEN 1 ELSE 0) - (IF "push" = from THEN 1 ELSE 0)
  BY <1>1 DEF Waiting
<1>3. Evicting' = Evicting + (IF "sub" = to THEN 1 ELSE 0) - (IF "sub" = from THEN 1 ELSE 0)
  BY <1>1 DEF Evicting
<1> QED
  BY <1>2, <1>3

\* The sync loop's own steps leave the two counts alone.
LEMMA ClaimRests ==
    ASSUME TypeOK, NEW from, NEW to, GoTo(Sync, from, to),
           from \notin {"push", "sub"}, to \notin {"push", "sub"}
    PROVE  Waiting' = Waiting /\ Evicting' = Evicting
<1>1. At("push")' = At("push") /\ At("sub")' = At("sub")
  BY LoopsFinite DEF GoTo, TypeOK, At
<1> QED
  BY <1>1 DEF Waiting, Evicting

\* A loop that finds room by the counter: the one place where the claim grows.
LEMMA RoomIsThere ==
    ASSUME SpoolInv, TicketInv, BatchBound, NEW l \in Loops,
           pc[l] \notin {"push", "add", "sub"}, l = Sync => pc[l] = "prime", Load < MaxQueue
    PROVE  Claimed + 1 <= Capacity
<1> DEFINE n == Cardinality(Producers)
<1>1. /\ Len(queue) \in Nat /\ Waiting \in Nat /\ Counting \in Nat /\ Evicting \in Nat
      /\ Owed \in Nat /\ InHand \in Int /\ size \in Int
      /\ Owed - InHand <= LargestBatch /\ MaxQueue \in Nat /\ n \in Nat
      /\ LargestBatch \in Nat /\ LargestBatch >= 2
      /\ Len(queue) = size + Counting - Evicting - InHand
  BY ClaimTypes
<1>2. TypeOK /\ Sync \in Loops
  BY LoopsFinite DEF SpoolInv, TypeInv
<1>3. size < MaxQueue
  <2>1. Load \in Nat /\ size <= Load
    BY LoadIsEnough
  <2> QED
    BY <1>1, <2>1
<1>4. Waiting + Counting + Evicting <= n
  BY <1>2, InsideEnqueue
<1>5. CASE pc[Sync] \in {"repop", "resub", "repush"}
  <2>1. l \in Producers /\ pc[Sync] \notin {"push", "add", "sub"}
    BY <1>5 DEF Loops
  <2>2. Waiting + Counting + Evicting <= n - 1
    BY <1>2, <2>1, InsideEnqueue
  <2> HIDE DEF n
  <2>3. Len(queue) + Waiting + Evicting + Owed + 1 <= MaxQueue + n + LargestBatch - 1
    BY <1>1, <1>3, <2>2
  <2> QED
    BY <2>3 DEF Claimed, Capacity, n
<1>6. CASE pc[Sync] \notin {"repop", "resub", "repush"}
  <2>1. Owed - InHand <= 0
    BY <1>6, ClaimTypes
  <2> HIDE DEF n
  <2>2. Len(queue) + Waiting + Evicting + Owed + 1 <= MaxQueue + n + LargestBatch - 1
    BY <1>1, <1>3, <1>4, <2>1
  <2> QED
    BY <2>2 DEF Claimed, Capacity, n
<1> QED
  BY <1>5, <1>6

\* No step takes the queue and the claims on it over the capacity.
LEMMA QueueStep ==
    SpoolInv /\ TicketInv /\ BatchBound /\ QueueInv /\ [Next]_vars => QueueInv'
<1> SUFFICES ASSUME SpoolInv, TicketInv, BatchBound, QueueInv, [Next]_vars PROVE QueueInv'
  OBVIOUS
<1> DEFINE n == Cardinality(Producers)
           q == Len(queue)
           b == Len(batch)
<1>0. TypeOK /\ TypeOK' /\ Sync \in Loops /\ Sync \notin Producers /\ Producers \subseteq Loops
  BY SpoolAssumption, LoopsFinite, TypeStep DEF SpoolInv, TypeInv
<1>1. /\ q \in Nat /\ Waiting \in Nat /\ Counting \in Nat /\ Evicting \in Nat /\ Owed \in Nat
      /\ Owed <= LargestBatch /\ MaxQueue \in Nat /\ MaxQueue >= 1 /\ n \in Nat /\ size \in Int
      /\ LargestBatch \in Nat /\ LargestBatch >= 2 /\ b \in Nat /\ b <= LargestBatch
      /\ want \in Nat /\ moved \in Nat /\ InHand \in Int
      /\ q = size + Counting - Evicting - InHand
  BY ClaimTypes
<1>2. q + Waiting + Evicting + Owed <= MaxQueue + n + LargestBatch - 1
  BY DEF QueueInv, Claimed, Capacity
<1>3. ASSUME q' + Waiting' + Evicting' + Owed' <= MaxQueue + n + LargestBatch - 1
      PROVE  QueueInv'
  BY <1>3 DEF QueueInv, Claimed, Capacity
<1>4. queue # <<>> => Len(Tail(queue)) = q - 1
  BY <1>0, HeadTailProperties DEF TypeOK
<1>5. queue = <<>> => q = 0
  BY EmptySeq
<1> USE DEF cursor
\* A step that changes nothing of the claim.
<1>6. ASSUME UNCHANGED <<queue, Waiting, Evicting, Owed>> PROVE QueueInv'
  BY <1>6 DEF QueueInv, Claimed, Capacity
<1>7. ASSUME NEW p \in Producers, Produce(p) PROVE QueueInv'
  <2>1. /\ UNCHANGED <<queue, batch, want, moved>> /\ pc'[Sync] = pc[Sync]
        /\ \E from \in {"idle", "saved"}, to \in {"saved", "idle", "pop", "push"} :
              /\ GoTo(p, from, to) /\ from # to
              /\ to = "push" => from = "saved" /\ ~(Load >= MaxQueue)
    BY <1>0, <1>7 DEF Produce, Save, Blocked, Enqueue, Room, GoTo, TypeOK
  <2>2. PICK from \in {"idle", "saved"}, to \in {"saved", "idle", "pop", "push"} :
              /\ GoTo(p, from, to) /\ from # to
              /\ to = "push" => from = "saved" /\ ~(Load >= MaxQueue)
    BY <2>1
  <2>3. /\ Waiting' = Waiting + (IF to = "push" THEN 1 ELSE 0) - (IF from = "push" THEN 1 ELSE 0)
        /\ Evicting' = Evicting + (IF to = "sub" THEN 1 ELSE 0) - (IF from = "sub" THEN 1 ELSE 0)
    BY <1>0, <2>2, ClaimMoves
  <2>4. Owed' = Owed
    BY <2>1 DEF Owed
  <2>5. CASE to # "push"
    <3>1. Waiting' = Waiting /\ Evicting' = Evicting
      BY <1>1, <2>2, <2>3, <2>5
    <3> QED
      BY <1>6, <2>1, <2>4, <3>1
  <2>6. CASE to = "push"
    <3>1. pc[p] = "saved" /\ Load < MaxQueue
      <4>1. Load \in Nat
        BY <1>1, LoadIsNat
      <4> QED
        BY <1>1, <2>2, <2>6, <4>1 DEF GoTo
    <3>2. Claimed + 1 <= Capacity
      BY <1>0, <3>1, RoomIsThere
    <3>3. Waiting' = Waiting + 1 /\ Evicting' = Evicting
      BY <1>1, <2>2, <2>3, <2>6
    <3> QED
      <4>1. q' = q
        BY <2>1
      <4>2. q + Waiting + Evicting + Owed + 1 <= MaxQueue + n + LargestBatch - 1
        BY <3>2 DEF Claimed, Capacity
      <4> HIDE DEF q, n
      <4>3. q' + Waiting' + Evicting' + Owed' <= MaxQueue + n + LargestBatch - 1
        BY <1>1, <2>4, <3>3, <4>1, <4>2
      <4> QED
        BY <1>3, <4>3
  <2> QED
    BY <2>5, <2>6
<1>8. ASSUME NEW l \in Loops, EnqueueStep(l) PROVE QueueInv'
  <2>0. UNCHANGED <<batch, want, moved>> /\ pc[l] \in {"pop", "sub", "push", "add"}
    BY <1>8 DEF EnqueueStep, Pop, Sub, Push, Add, GoTo
  <2>1. Owed' = Owed
    <3>1. CASE l = Sync
      <4>1. pc[Sync] \notin {"repop", "resub", "repush"}
        BY <2>0, <3>1
      <4>2. pc'[Sync] \notin {"repop", "resub", "repush"}
        BY <1>0, <1>8, <3>1 DEF EnqueueStep, Pop, Sub, Push, Add, GoTo, TypeOK
      <4> QED
        BY <4>1, <4>2 DEF Owed
    <3>2. CASE l # Sync
      <4>1. pc'[Sync] = pc[Sync]
        BY <1>0, <1>8, <3>2 DEF EnqueueStep, Pop, Sub, Push, Add, GoTo, TypeOK
      <4> QED
        BY <2>0, <4>1 DEF Owed
    <3> QED
      BY <3>1, <3>2
  <2>2. CASE Pop(l) /\ queue # <<>>
    <3>1. GoTo(l, "pop", "sub") /\ queue' = Tail(queue)
      BY <2>2 DEF Pop
    <3>2. Waiting' = Waiting + 0 - 0 /\ Evicting' = Evicting + 1 - 0
      BY <1>0, <3>1, ClaimMoves
    <3>3. q' = q - 1
      BY <1>4, <2>2, <3>1
    <3> HIDE DEF q, n
    <3>4. q' + Waiting' + Evicting' + Owed' <= MaxQueue + n + LargestBatch - 1
      BY <1>1, <1>2, <2>1, <3>2, <3>3
    <3> QED
      BY <1>3, <3>4
  <2>3. CASE Pop(l) /\ queue = <<>>
    <3>1. GoTo(l, "pop", "push") /\ queue' = queue /\ pc[l] = "pop"
      BY <2>3 DEF Pop, GoTo
    <3>2. Waiting' = Waiting + 1 - 0 /\ Evicting' = Evicting + 0 - 0
      BY <1>0, <3>1, ClaimMoves
    <3>3. q' = 0
      BY <1>5, <2>3, <3>1
    <3>4. Waiting + Counting + Evicting <= n
      BY <1>0, <3>1, InsideEnqueue
    <3>5. pc[Sync] \in {"repop", "resub", "repush"} => Waiting + Counting + Evicting <= n - 1
      <4>1. ASSUME pc[Sync] \in {"repop", "resub", "repush"}
            PROVE  l \in Producers /\ pc[Sync] \notin {"push", "add", "sub"}
        BY <3>1, <4>1 DEF Loops
      <4> QED
        BY <1>0, <3>1, <4>1, InsideEnqueue
    <3>6. pc[Sync] \notin {"repop", "resub", "repush"} => Owed = 0
      BY ClaimTypes
    <3> HIDE DEF q, n
    <3>7. q' + Waiting' + Evicting' + Owed' <= MaxQueue + n + LargestBatch - 1
      <4>1. Waiting + Evicting + Owed <= n - 1 + LargestBatch \/ Waiting + Evicting + Owed <= n
        BY <1>1, <3>4, <3>5, <3>6
      <4> QED
        BY <1>1, <2>1, <3>2, <3>3, <4>1
    <3> QED
      BY <1>3, <3>7
  <2>4. CASE Sub(l)
    <3>1. GoTo(l, "sub", "push") /\ queue' = queue
      BY <2>4 DEF Sub
    <3>2. Waiting' = Waiting + 1 - 0 /\ Evicting' = Evicting + 0 - 1
      BY <1>0, <3>1, ClaimMoves
    <3>3. q' = q
      BY <3>1
    <3> HIDE DEF q, n
    <3>4. q' + Waiting' + Evicting' + Owed' <= MaxQueue + n + LargestBatch - 1
      BY <1>1, <1>2, <2>1, <3>2, <3>3
    <3> QED
      BY <1>3, <3>4
  <2>5. CASE Push(l)
    <3>1. GoTo(l, "push", "add") /\ queue' = Append(queue, item[l]) /\ item[l] \in Events
      BY <2>5 DEF Push, GoTo, SpoolInv, TypeInv, ItemsReady
    <3>2. Waiting' = Waiting + 0 - 1 /\ Evicting' = Evicting + 0 - 0
      BY <1>0, <3>1, ClaimMoves
    <3>3. q' = q + 1
      BY <1>0, <3>1, AppendProperties DEF TypeOK
    <3> HIDE DEF q, n
    <3>4. q' + Waiting' + Evicting' + Owed' <= MaxQueue + n + LargestBatch - 1
      BY <1>1, <1>2, <2>1, <3>2, <3>3
    <3> QED
      BY <1>3, <3>4
  <2>6. CASE Add(l)
    <3>1. PICK to \in {"prime", "idle"} : GoTo(l, "add", to)
      BY <2>6 DEF Add
    <3>2. Waiting' = Waiting + 0 - 0 /\ Evicting' = Evicting + 0 - 0
      BY <1>0, <3>1, ClaimMoves
    <3>3. queue' = queue
      BY <2>6 DEF Add
    <3> QED
      BY <1>1, <1>6, <2>1, <3>2, <3>3
  <2> QED
    BY <1>8, <2>2, <2>3, <2>4, <2>5, <2>6 DEF EnqueueStep
<1>9. CASE PrimeEnqueue
  <2>1. PICK to \in {"pop", "push"} :
          GoTo(Sync, "prime", to) /\ (to = "push" => ~(Load >= MaxQueue))
    BY <1>9 DEF PrimeEnqueue, Room
  <2>2. UNCHANGED queue /\ pc[Sync] = "prime" /\ pc'[Sync] = to
    BY <1>0, <1>9, <2>1 DEF PrimeEnqueue, GoTo, TypeOK
  <2>3. Owed' = Owed
    BY <2>2 DEF Owed
  <2>4. /\ Waiting' = Waiting + (IF to = "push" THEN 1 ELSE 0) - (IF "prime" = "push" THEN 1 ELSE 0)
        /\ Evicting' = Evicting + (IF to = "sub" THEN 1 ELSE 0) - (IF "prime" = "sub" THEN 1 ELSE 0)
    BY <1>0, <2>1, ClaimMoves
  <2>5. CASE to = "pop"
    <3>1. Waiting' = Waiting /\ Evicting' = Evicting
      BY <1>1, <2>4, <2>5
    <3> QED
      BY <1>6, <2>2, <2>3, <3>1
  <2>6. CASE to = "push"
    <3>1. Load < MaxQueue
      <4>1. Load \in Nat
        BY <1>1, LoadIsNat
      <4> QED
        BY <1>1, <2>1, <2>6, <4>1
    <3>2. Claimed + 1 <= Capacity
      BY <1>0, <2>2, <3>1, RoomIsThere
    <3>3. Waiting' = Waiting + 1 /\ Evicting' = Evicting
      BY <1>1, <2>4, <2>6
    <3>4. q' = q
      BY <2>2
    <3>5. q + Waiting + Evicting + Owed + 1 <= MaxQueue + n + LargestBatch - 1
      BY <3>2 DEF Claimed, Capacity
    <3> HIDE DEF q, n
    <3>6. q' + Waiting' + Evicting' + Owed' <= MaxQueue + n + LargestBatch - 1
      BY <1>1, <2>3, <3>3, <3>4, <3>5
    <3> QED
      BY <1>3, <3>6
  <2> QED
    BY <2>5, <2>6
\* The sync loop outside a requeue owes nothing and only takes from the queue.
<1>10. CASE \/ NoRePrime \/ RePrime \/ PrimeBlocked \/ PrimeDone \/ Retire
            \/ FlushSkipped \/ FlushStart \/ DrainDone \/ Drained
            \/ UploadOk \/ UploadFails \/ UploadRejected \/ Mark \/ Retain \/ Shutdown
  <2>1. UNCHANGED queue
    BY <1>10 DEF NoRePrime, RePrime, PrimeBlocked, PrimeDone, Retire, FlushSkipped, FlushStart,
                 DrainDone, Drained, UploadOk, UploadFails, UploadRejected, Mark, Retain, Shutdown
  <2>2. \E from, to \in {"start", "prime", "retire", "idle", "drain", "drained", "upload", "mark",
                         "reload", "retain", "ended"} :
           GoTo(Sync, from, to) \/ (pc' = pc /\ pc[Sync] = "prime" /\ from = to)
    BY <1>10 DEF NoRePrime, RePrime, PrimeBlocked, PrimeDone, Retire, FlushSkipped, FlushStart,
                 DrainDone, Drained, UploadOk, UploadFails, UploadRejected, Mark, Retain, Shutdown,
                 After
  <2>4. CASE \E from, to \in {"start", "prime", "retire", "idle", "drain", "drained", "upload",
                              "mark", "reload", "retain", "ended"} : GoTo(Sync, from, to)
    <3>1. PICK from, to \in {"start", "prime", "retire", "idle", "drain", "drained", "upload",
                             "mark", "reload", "retain", "ended"} : GoTo(Sync, from, to)
      BY <2>4
    <3>2. Waiting' = Waiting /\ Evicting' = Evicting
      BY <1>0, <3>1, ClaimRests
    <3>3. pc[Sync] = from /\ pc'[Sync] = to
      BY <1>0, <3>1 DEF GoTo, TypeOK
    <3>4. Owed' = Owed
      BY <3>1, <3>3 DEF Owed
    <3> QED
      BY <1>6, <2>1, <3>2, <3>4
  <2>5. CASE pc' = pc /\ pc[Sync] = "prime"
    <3>1. Owed' = Owed /\ Waiting' = Waiting /\ Evicting' = Evicting
      BY <2>5 DEF Owed, Waiting, Evicting, At
    <3> QED
      BY <1>6, <2>1, <3>1
  <2> QED
    BY <2>2, <2>4, <2>5
<1>11. CASE DrainPop
  <2>1. pc' = pc /\ pc[Sync] = "drain" /\ queue # <<>> /\ queue' = Tail(queue)
    BY <1>11 DEF DrainPop
  <2>2. Owed' = Owed /\ Waiting' = Waiting /\ Evicting' = Evicting
    BY <2>1 DEF Owed, Waiting, Evicting, At
  <2>3. q' = q - 1
    BY <1>4, <2>1
  <2> HIDE DEF q, n
  <2>4. q' + Waiting' + Evicting' + Owed' <= MaxQueue + n + LargestBatch - 1
    BY <1>1, <1>2, <2>2, <2>3
  <2> QED
    BY <1>3, <2>4
\* A requeue means to evict what the counter and its batch make too many.
<1>12. CASE ReLoad
  <2> DEFINE after == (Load + b) % Width
  <2>1. /\ GoTo(Sync, "reload", "repop") /\ queue' = queue /\ batch' = batch
        /\ want' = IF after > MaxQueue THEN after - MaxQueue ELSE 0
    BY <1>12 DEF ReLoad
  <2>2. pc[Sync] = "reload" /\ pc'[Sync] = "repop"
    BY <1>0, <2>1 DEF GoTo, TypeOK
  <2>3. Waiting' = Waiting /\ Evicting' = Evicting
    BY <1>0, <2>1, ClaimRests
  <2>4. after >= size + b
    BY <2>2, LoadIsEnough
  <2>5. after \in Nat
    BY <1>1, LoadIsNat, SpoolAssumption
  <2>6. Owed = 0 /\ InHand = 0
    BY <2>2 DEF Owed, InHand
  <2>7. Owed' = IF want' > b THEN 0 ELSE b - want'
    BY <2>1, <2>2 DEF Owed
  <2>8. Waiting + Counting + Evicting <= n
    BY <1>0, <2>2, InsideEnqueue
  <2>9. q' = q
    BY <2>1
  <2> HIDE DEF q, n, b, after
  <2>10. want' \in Nat /\ want' >= size + b - MaxQueue
    <3>1. CASE after > MaxQueue
      <4>1. want' = after - MaxQueue
        BY <2>1, <3>1
      <4> QED
        BY <1>1, <2>4, <2>5, <3>1, <4>1
    <3>2. CASE ~(after > MaxQueue)
      <4>1. want' = 0
        BY <2>1, <3>2
      <4> QED
        BY <1>1, <2>4, <2>5, <3>2, <4>1
    <3> QED
      BY <3>1, <3>2
  <2>11. Owed' = 0 \/ (Owed' <= MaxQueue - size /\ Owed' \in Int)
    <3>1. \A k \in Nat : k >= size + b - MaxQueue => b - k \in Int /\ b - k <= MaxQueue - size
      BY <1>1
    <3> QED
      BY <2>7, <2>10, <3>1
  <2>12. q' + Waiting' + Evicting' + Owed' <= MaxQueue + n + LargestBatch - 1
    <3>1. CASE Owed' = 0
      BY <1>1, <1>2, <2>3, <2>6, <2>9, <3>1
    <3>2. CASE Owed' <= MaxQueue - size /\ Owed' \in Int
      <4>1. q = size + Counting - Evicting
        BY <1>1, <2>6
      <4>2. \A k \in Int : k <= MaxQueue - size
               => q + Waiting + Evicting + k <= MaxQueue + n + LargestBatch - 1
        BY <1>1, <2>8, <4>1
      <4> QED
        BY <2>3, <2>9, <3>2, <4>2
    <3> QED
      BY <2>11, <3>1, <3>2
  <2> QED
    BY <1>3, <2>12
<1>13. CASE RePop
  <2>1. /\ pc' = pc /\ pc[Sync] = "repop" /\ queue # <<>> /\ queue' = Tail(queue)
        /\ batch' = batch /\ want' = want - 1 /\ want > 0
    BY <1>13 DEF RePop
  <2>2. Waiting' = Waiting /\ Evicting' = Evicting
    BY <2>1 DEF Waiting, Evicting, At
  <2>3. q' = q - 1
    BY <1>4, <2>1
  <2>4. /\ Owed = IF want > b THEN 0 ELSE b - want
        /\ Owed' = IF want' > b THEN 0 ELSE b - want'
    BY <2>1 DEF Owed
  <2> HIDE DEF q, n, b
  <2>5. Owed' \in Int /\ Owed' <= Owed + 1
    <3>1. want' + 1 = want /\ want' \in Nat
      BY <1>1, <2>1
    <3>2. \A w \in Nat : (IF w > b THEN 0 ELSE b - w) <= (IF w + 1 > b THEN 0 ELSE b - (w + 1)) + 1
      BY <1>1
    <3>3. (IF want' > b THEN 0 ELSE b - want') \in Int
      BY <1>1, <3>1
    <3> QED
      BY <2>4, <3>1, <3>2, <3>3
  <2>6. q' + Waiting' + Evicting' + Owed' <= MaxQueue + n + LargestBatch - 1
    <3>1. \A k \in Int : k <= Owed + 1
             => (q - 1) + Waiting + Evicting + k <= MaxQueue + n + LargestBatch - 1
      BY <1>1, <1>2
    <3> QED
      BY <2>2, <2>3, <2>5, <3>1
  <2> QED
    BY <1>3, <2>6
<1>14. CASE RePopDone
  <2>1. /\ GoTo(Sync, "repop", "resub") /\ queue' = queue /\ batch' = batch
        /\ want = 0 \/ queue = <<>>
    BY <1>14 DEF RePopDone
  <2>2. pc[Sync] = "repop" /\ pc'[Sync] = "resub"
    BY <1>0, <2>1 DEF GoTo, TypeOK
  <2>3. Waiting' = Waiting /\ Evicting' = Evicting
    BY <1>0, <2>1, ClaimRests
  <2>4. (Owed = IF want > b THEN 0 ELSE b - want) /\ Owed' = b
    BY <2>1, <2>2 DEF Owed
  <2>5. Waiting + Counting + Evicting <= n
    BY <1>0, <2>2, InsideEnqueue
  <2>6. q' = q /\ (want = 0 \/ q = 0)
    BY <1>5, <2>1
  <2> HIDE DEF q, n, b
  <2>7. q' + Waiting' + Evicting' + Owed' <= MaxQueue + n + LargestBatch - 1
    BY <1>1, <1>2, <2>3, <2>4, <2>5, <2>6
  <2> QED
    BY <1>3, <2>7
<1>15. CASE ReSub
  <2>1. GoTo(Sync, "resub", "repush") /\ queue' = queue /\ batch' = batch /\ moved' = 0
    BY <1>15 DEF ReSub
  <2>2. pc[Sync] = "resub" /\ pc'[Sync] = "repush"
    BY <1>0, <2>1 DEF GoTo, TypeOK
  <2>3. Waiting' = Waiting /\ Evicting' = Evicting
    BY <1>0, <2>1, ClaimRests
  <2>4. Owed = b /\ Owed' = b - 0
    BY <2>1, <2>2 DEF Owed
  <2> QED
    BY <1>1, <1>6, <2>1, <2>3, <2>4
<1>16. CASE RePush
  <2>1. /\ pc' = pc /\ pc[Sync] = "repush" /\ moved < b /\ moved' = moved + 1 /\ batch' = batch
        /\ queue' = Append(queue, batch[moved + 1])
    BY <1>16 DEF RePush
  <2>2. Waiting' = Waiting /\ Evicting' = Evicting
    BY <2>1 DEF Waiting, Evicting, At
  <2>3. batch[moved + 1] \in Events
    BY <1>0, <1>1, <2>1, ElementOfSeq DEF TypeOK
  <2>4. q' = q + 1
    BY <1>0, <2>1, <2>3, AppendProperties DEF TypeOK
  <2>5. Owed = b - moved /\ Owed' = b - (moved + 1)
    BY <2>1 DEF Owed
  <2> HIDE DEF q, n, b
  <2>6. q' + Waiting' + Evicting' + Owed' <= MaxQueue + n + LargestBatch - 1
    BY <1>1, <1>2, <2>2, <2>4, <2>5
  <2> QED
    BY <1>3, <2>6
<1>17. CASE ReAdd
  <2>1. PICK to \in {"ended", "retain"} : GoTo(Sync, "repush", to)
    BY <1>17 DEF ReAdd, After
  <2>2. moved = b /\ queue' = queue /\ pc[Sync] = "repush" /\ pc'[Sync] = to
    BY <1>0, <1>17, <2>1 DEF ReAdd, GoTo, TypeOK
  <2>3. Waiting' = Waiting /\ Evicting' = Evicting
    BY <1>0, <2>1, ClaimRests
  <2>4. Owed = b - moved /\ Owed' = 0
    BY <2>2 DEF Owed
  <2>5. Owed = 0
    BY <1>1, <2>2, <2>4
  <2> QED
    BY <1>6, <2>2, <2>3, <2>4, <2>5
<1>18. CASE Relaunch
  <2>1. /\ queue' = <<>> /\ pc'[Sync] = "start" /\ \A l \in Loops : pc'[l] \in {"start", "idle"}
    BY <1>0, <1>18 DEF Relaunch
  <2>2. At("push")' = {} /\ At("sub")' = {}
    BY <2>1 DEF At
  <2>3. Waiting' = 0 /\ Evicting' = 0 /\ Owed' = 0
    BY <2>1, <2>2, FS_EmptySet DEF Waiting, Evicting, Owed
  <2>4. q' = 0
    BY <2>1, EmptySeq
  <2> HIDE DEF q, n
  <2>5. q' + Waiting' + Evicting' + Owed' <= MaxQueue + n + LargestBatch - 1
    BY <1>1, <2>3, <2>4
  <2> QED
    BY <1>3, <2>5
<1>19. CASE Revoke \/ Wipe \/ Grant \/ UNCHANGED vars
  <2>1. UNCHANGED <<queue, batch, want, moved, pc>>
    BY <1>19 DEF Revoke, Wipe, Grant, vars
  <2>2. Owed' = Owed /\ Waiting' = Waiting /\ Evicting' = Evicting
    BY <2>1 DEF Owed, Waiting, Evicting, At
  <2> QED
    BY <1>6, <2>1, <2>2
<1> QED
  BY <1>7, <1>8, <1>9, <1>10, <1>11, <1>12, <1>13, <1>14, <1>15, <1>16, <1>17, <1>18, <1>19
     DEF Next, SyncStep

LEMMA QueueInit == Init => QueueInv
<1> SUFFICES ASSUME Init PROVE QueueInv
  OBVIOUS
<1>1. pc[Sync] = "start" /\ \A l \in Loops : pc[l] \in {"start", "idle"}
  BY LoopsFinite DEF Init
<1>2. At("push") = {} /\ At("sub") = {}
  BY <1>1 DEF At
<1>3. Waiting = 0 /\ Evicting = 0 /\ Owed = 0
  BY <1>1, <1>2, FS_EmptySet DEF Waiting, Evicting, Owed
<1>4. Len(queue) = 0
  BY EmptySeq DEF Init
<1>5. MaxQueue \in Nat /\ Cardinality(Producers) \in Nat /\ LargestBatch \in Nat /\ LargestBatch >= 2
  BY SpoolAssumption, FS_CardinalityType, LargestIsNat
<1> QED
  BY <1>3, <1>4, <1>5 DEF QueueInv, Claimed, Capacity

\* The queue's capacity is checked on a counter that others move, one step before the
\* push; a requeue makes its room on such a load as well.  However these interleave,
\* and though the counter may wrap, the queue never holds more than its capacity,
\* one event for each capture loop and one batch less one (enqueue,
\* requeue_failed_events): memory stays bounded.
THEOREM QueueIsBounded ==
    Spec => [](Len(queue) <= MaxQueue + Cardinality(Producers) + LargestBatch - 1)
<1> DEFINE All == SpoolInv /\ TicketInv /\ BatchBound /\ QueueInv
<1>1. Init => All
  BY SpoolInit, TicketInit, BatchInit, QueueInit
<1>2. All /\ [Next]_vars => All'
  BY SpoolStep, TicketStep, BatchStep, QueueStep
<1>3. All => Len(queue) <= MaxQueue + Cardinality(Producers) + LargestBatch - 1
  <2> SUFFICES ASSUME SpoolInv, BatchBound, QueueInv
               PROVE  Len(queue) <= MaxQueue + Cardinality(Producers) + LargestBatch - 1
    OBVIOUS
  <2>1. /\ Len(queue) \in Nat /\ Waiting \in Nat /\ Evicting \in Nat /\ Owed \in Nat
        /\ MaxQueue \in Nat /\ Cardinality(Producers) \in Nat /\ LargestBatch \in Nat
    BY ClaimTypes
  <2> QED
    BY <2>1 DEF QueueInv, Claimed, Capacity
<1> HIDE DEF All
<1> QED
  BY <1>1, <1>2, <1>3, PTL DEF Spec
=============================================================================

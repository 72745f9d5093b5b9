---------------------- MODULE ErasurePropagationProofs ----------------------
(***************************************************************************)
(* Proofs about the announcement of erasures, for any set of peers, both   *)
(* callers, any number of rows, revocations, wipes and restarts, and every *)
(* failure of the transport, the store and the ledger the model has.       *)
(***************************************************************************)
EXTENDS ErasurePropagation, TLAPS

\* A call that is past its push.
Pushed == {"record", "persist", "mirror"}

\* A call that pushes an erasure has an id; only the ids of revocations reach the
\* mirror.  Every stamp is a write's or a wipe's.  With this the types are
\* inductive.
CarriesId == \A c \in Callers :
                 /\ pc[c] \in {"anchor", "push"} \cup Pushed => job[c].id # 0
                 /\ pc[c] = "mirror" => job[c].id # WebId
StampsCounted == clock - wipes <= MaxWrites
TypeInv == TypeOK /\ CarriesId /\ StampsCounted

\* The inductive strengthening: from its confirmed push to its last step, a call
\* carries an id that some peer has confirmed, so that what it writes to the
\* ledger, the store and the mirror was confirmed.
CarriedWasConfirmed == \A c \in Callers : pc[c] \in Pushed => job[c].id \in confirmed
LedgeredWasConfirmed == ledger \subseteq confirmed
GateInv == TypeInv /\ CarriedWasConfirmed /\ LedgeredWasConfirmed /\ MarkedWasConfirmed

LEMMA IdsAreNumbers == MaxRevokes \in Nat /\ WebId \in Nat /\ WebId = MaxRevokes + 1
BY PropagationAssumption DEF WebId

LEMMA StampsAreNumbers ==
    /\ MaxWrites \in Nat /\ MaxWipes \in Nat /\ Stamps = 0 .. MaxWrites + MaxWipes
    /\ 0 \in Stamps /\ NoRows \in Rows /\ \A k \in Keys : NoRows[k] = 0
BY PropagationAssumption DEF Stamps, Rows, NoRows

LEMMA NoJobIsJob == NoJob \in Jobs /\ NoJob.id = 0 /\ NoJob.rows = NoRows
BY StampsAreNumbers, IdsAreNumbers DEF NoJob, Jobs

LEMMA TypeInvInit == Init => TypeInv
<1> SUFFICES ASSUME Init PROVE TypeInv
  OBVIOUS
<1>0. FlagTypes
  BY Zenon DEF Init, FlagTypes
<1>1. ConsentTypes /\ StoreTypes /\ GateTypes /\ StampsCounted
  BY IdsAreNumbers, StampsAreNumbers
     DEF Init, ConsentTypes, StoreTypes, GateTypes, StampsCounted
<1>2. CallTypes /\ CarriesId
  BY NoJobIsJob DEF Init, CallTypes, CarriesId, Steps, Pushed
<1>3. /\ PeerTypes /\ confirmed \in SUBSET Ids /\ ledger \in SUBSET Ids
      /\ restarts \in 0 .. MaxRestarts
  BY PropagationAssumption, StampsAreNumbers DEF Init, PeerTypes
<1> QED
  BY <1>0, <1>1, <1>2, <1>3 DEF TypeInv, TypeOK

LEMMA GateInvInit == Init => GateInv
BY TypeInvInit, IdsAreNumbers
   DEF Init, GateInv, CarriedWasConfirmed, LedgeredWasConfirmed, MarkedWasConfirmed, Pushed

-----------------------------------------------------------------------------
(* Types *)

\* What a step leaves alone keeps its types.
LEMMA Unchanged ==
    /\ UNCHANGED consentVars /\ ConsentTypes => ConsentTypes'
    /\ UNCHANGED storeVars /\ StoreTypes /\ StampsCounted => StoreTypes' /\ StampsCounted'
    /\ UNCHANGED gateVars /\ GateTypes => GateTypes'
    /\ UNCHANGED callVars /\ CallTypes /\ CarriesId => CallTypes' /\ CarriesId'
    /\ UNCHANGED peerVars /\ PeerTypes => PeerTypes'
BY DEF consentVars, ConsentTypes, storeVars, StoreTypes, StampsCounted, gateVars, GateTypes, callVars,
       CallTypes, CarriesId, peerVars, PeerTypes

\* Ending a call, or moving it to a step that carries nothing.
LEMMA FinishTypes ==
    ASSUME CallTypes, CarriesId, NEW c \in Callers, Finish(c)
    PROVE  CallTypes' /\ CarriesId'
BY NoJobIsJob DEF Finish, CallTypes, CarriesId, Steps, Pushed

\* A peer's merge of an event or of data leaves it with rows it had or was sent.
LEMMA EventTypes ==
    ASSUME PeerTypes, NEW bound, NEW applied, DeliverEvent(bound, applied)
    PROVE  /\ PeerTypes'
           /\ \A p \in Peers, k \in Keys : peerRows'[p][k] \in {0, peerRows[p][k]}
<1>1. \A p \in Peers, k \in Keys : /\ peerRows[p][k] \in Stamps /\ peerTombs[p][k] \in Stamps
                                   /\ Later(peerRows[p][k], peerTombs[p][k]) \in Stamps
  BY DEF PeerTypes, Rows, Later
<1> QED
  BY <1>1, StampsAreNumbers DEF PeerTypes, Rows, DeliverEvent

LEMMA DataTypes ==
    ASSUME PeerTypes, NEW rows \in Rows, NEW tombs \in Rows, NEW applied,
           DeliverData(rows, tombs, applied)
    PROVE  /\ PeerTypes'
           /\ \A p \in Peers, k \in Keys : peerRows'[p][k] \in {0, peerRows[p][k], rows[k]}
<1> DEFINE Merged(p, k) == AfterRow(AfterTomb(p, k, tombs[k]), rows[k])
<1>1. ASSUME NEW p \in Peers, NEW k \in Keys
      PROVE  /\ Merged(p, k).row \in {0, peerRows[p][k], rows[k]}
             /\ Merged(p, k).tomb \in {0, peerTombs[p][k], tombs[k]}
             /\ peerRows[p][k] \in Stamps /\ peerTombs[p][k] \in Stamps
             /\ rows[k] \in Stamps /\ tombs[k] \in Stamps
  BY DEF PeerTypes, Rows, AfterRow, AfterTomb, Later
<1>2. /\ peerRows' = [p \in Peers |-> [k \in Keys |->
                        IF p \in applied THEN Merged(p, k).row ELSE peerRows[p][k]]]
      /\ peerTombs' = [p \in Peers |-> [k \in Keys |->
                        IF p \in applied THEN Merged(p, k).tomb ELSE peerTombs[p][k]]]
  BY DEF DeliverData
<1>3. ASSUME NEW p \in Peers, NEW k \in Keys
      PROVE  /\ peerRows'[p][k] \in {0, peerRows[p][k], rows[k]}
             /\ peerRows'[p][k] \in Stamps /\ peerTombs'[p][k] \in Stamps
  <2> HIDE DEF Merged
  <2>1. /\ peerRows'[p][k] \in {Merged(p, k).row, peerRows[p][k]}
        /\ peerTombs'[p][k] \in {Merged(p, k).tomb, peerTombs[p][k]}
    BY <1>2
  <2>2. 0 \in Stamps
    BY StampsAreNumbers
  <2> QED
    BY <1>1, <2>1, <2>2
<1>4. PeerTypes'
  <2>1. /\ peerRows' \in [Peers -> [Keys -> Stamps]]
        /\ peerTombs' \in [Peers -> [Keys -> Stamps]]
    <3> HIDE DEF Merged
    <3> QED
      BY <1>2, <1>3
  <2> QED
    BY <2>1 DEF PeerTypes, Rows
<1> QED
  BY <1>3, <1>4

\* The records with a Boolean field.
LEMMA RecordTypes ==
    /\ \A i \in 0 .. MaxRevokes :
         /\ [granted |-> FALSE, id |-> i] \in [granted : BOOLEAN, id : 0 .. MaxRevokes]
         /\ [granted |-> TRUE, id |-> i] \in [granted : BOOLEAN, id : 0 .. MaxRevokes]
    /\ \A i \in 0 .. WebId :
         /\ [id |-> i, waiting |-> FALSE] \in [id : 0 .. WebId, waiting : BOOLEAN]
         /\ [id |-> i, waiting |-> TRUE] \in [id : 0 .. WebId, waiting : BOOLEAN]
OBVIOUS

\* The flags stay Booleans.
LEMMA FlagStep == FlagTypes /\ ConsentTypes /\ [Next]_vars => FlagTypes'
<1> SUFFICES ASSUME FlagTypes, ConsentTypes, [Next]_vars
             PROVE  FlagTypes'
  OBVIOUS
<1> USE DEF FlagTypes, consentVars, storeVars, webVars, gateVars
<1>1. ASSUME NEW c \in Callers, Step(c) PROVE FlagTypes'
  <2>1. CASE Decide(c) \/ ReadAnchor(c) \/ PushEvent(c) \/ PushEventFails(c)
    BY <2>1, Zenon DEF Decide, ReadAnchor, PushEvent, PushEventFails
  <2>2. CASE RecordEvent(c) \/ PersistEvent(c) \/ PersistFails(c) \/ MirrorEvent(c)
    BY <2>2, Zenon DEF RecordEvent, PersistEvent, PersistFails, MirrorEvent
  <2>3. CASE Gate(c) \/ Extract(c) \/ Send(c)
    BY <2>3, Zenon DEF Gate, Extract, Send
  <2> QED
    BY <1>1, <2>1, <2>2, <2>3 DEF Step
<1>2. CASE (\E k \in Keys : WriteRow(k)) \/ Revoke \/ Grant
  BY <1>2, Zenon DEF WriteRow, Revoke, Grant
<1>3. CASE Wipe \/ WebErase \/ WebRequest
  BY <1>3, Zenon DEF Wipe, WebErase, WebRequest, WipeTables
<1>4. CASE LoopTick \/ IpcStart \/ (\E p \in Peers : PeerPull(p)) \/ BackoffElapses
  BY <1>4, Zenon DEF LoopTick, IpcStart, PeerPull, BackoffElapses
<1>5. CASE Restart
  <2>1. file.granted \in BOOLEAN
    BY DEF ConsentTypes
  <2> QED
    BY <1>5, <2>1, Zenon DEF Restart
<1>6. CASE UNCHANGED vars
  BY <1>6, Zenon DEF vars
<1> QED
  BY <1>1, <1>2, <1>3, <1>4, <1>5, <1>6 DEF Next

LEMMA TypeInvStep == TypeInv /\ [Next]_vars => TypeInv'
<1> SUFFICES ASSUME TypeInv, [Next]_vars
             PROVE  TypeInv'
  OBVIOUS
<1> USE IdsAreNumbers, PropagationAssumption
<1>t. /\ ConsentTypes /\ StoreTypes /\ GateTypes /\ CallTypes /\ PeerTypes
      /\ confirmed \in SUBSET Ids /\ ledger \in SUBSET Ids
      /\ restarts \in 0 .. MaxRestarts /\ CarriesId /\ StampsCounted
  BY DEF TypeInv, TypeOK
<1>f. FlagTypes'
  BY FlagStep DEF TypeInv, TypeOK
<1>0. SUFFICES /\ ConsentTypes' /\ StoreTypes' /\ GateTypes' /\ CallTypes' /\ PeerTypes'
               /\ confirmed' \in SUBSET Ids /\ ledger' \in SUBSET Ids
               /\ restarts' \in 0 .. MaxRestarts
               /\ CarriesId' /\ StampsCounted'
  BY <1>f DEF TypeInv, TypeOK
<1>1. CASE \E c \in Callers : Step(c)
  <2>1. PICK c \in Callers : Step(c)
    BY <1>1
  <2>2. CASE Decide(c)
    <3>1. DueId \in 0 .. WebId
      BY <1>t DEF DueId, ConsentTypes
    <3>2. CallTypes' /\ CarriesId'
      BY <1>t, <2>2, <3>1 DEF Decide, CallTypes, CarriesId, Steps, Jobs, Pushed
    <3> QED
      BY <1>t, <2>2, <3>2, Unchanged DEF Decide
  <2>3. CASE ReadAnchor(c)
    <3>1. CallTypes' /\ CarriesId'
      <4>1. PICK bound \in Stamps : job' = [job EXCEPT ![c].bound = bound]
        BY <1>t, <2>3, StampsAreNumbers DEF ReadAnchor, StoreTypes
      <4>2. job' \in [Callers -> Jobs] /\ \A d \in Callers : job'[d].id = job[d].id
        BY <1>t, <4>1 DEF CallTypes, Jobs
      <4> QED
        BY <1>t, <2>3, <4>2 DEF ReadAnchor, GoOn, CallTypes, CarriesId, Steps, Pushed
    <3> QED
      BY <1>t, <2>3, <3>1, Unchanged DEF ReadAnchor
  <2>4. CASE PushEvent(c) \/ PushEventFails(c)
    <3>1. PeerTypes'
      BY <1>t, <2>4, EventTypes DEF PushEvent, PushEventFails
    <3>2. CallTypes' /\ CarriesId'
      <4>1. CASE PushEvent(c)
        <5>1. 0 \in Stamps
          BY StampsAreNumbers
        <5>2. job' \in [Callers -> Jobs] /\ \A d \in Callers : job'[d].id = job[d].id
          BY <1>t, <4>1, <5>1 DEF PushEvent, CallTypes, Jobs
        <5> QED
          BY <1>t, <4>1, <5>2 DEF PushEvent, GoOn, CallTypes, CarriesId, Steps, Pushed
      <4>2. CASE PushEventFails(c)
        BY <1>t, <4>2, FinishTypes DEF PushEventFails
      <4> QED
        BY <2>4, <4>1, <4>2
    <3>3. GateTypes'
      <4>1. job[c].id \in 0 .. WebId
        BY <1>t DEF CallTypes, Jobs
      <4>2. /\ UNCHANGED <<stored, lastPushed>>
            /\ \/ backoff' = [id |-> 0, waiting |-> FALSE]
               \/ backoff' = [id |-> job[c].id, waiting |-> TRUE]
        BY <2>4 DEF PushEvent, PushEventFails
      <4>3. 0 \in 0 .. WebId
        OBVIOUS
      <4>4. backoff' \in [id : 0 .. WebId, waiting : BOOLEAN]
        BY <4>1, <4>2, <4>3, RecordTypes, Zenon
      <4> QED
        BY <1>t, <4>2, <4>4 DEF GateTypes
    <3>4. confirmed' \in SUBSET Ids
      <4>1. job[c].id \in Ids
        BY <1>t, <2>4 DEF PushEvent, PushEventFails, CallTypes, CarriesId, Jobs, Ids
      <4> QED
        BY <1>t, <2>4, <4>1 DEF PushEvent, PushEventFails
    <3> QED
      BY <1>t, <2>4, <3>1, <3>2, <3>3, <3>4, Unchanged DEF PushEvent, PushEventFails
  <2>5. CASE RecordEvent(c)
    <3>1. CallTypes' /\ CarriesId'
      BY <1>t, <2>5 DEF RecordEvent, GoOn, CallTypes, CarriesId, Steps, Pushed
    <3>2. job[c].id \in Ids
      BY <1>t, <2>5 DEF RecordEvent, CallTypes, CarriesId, Jobs, Ids, Pushed
    <3>3. ledger' \in SUBSET Ids
      BY <1>t, <2>5, <3>2 DEF RecordEvent
    <3> QED
      BY <1>t, <2>5, <3>1, <3>3, Unchanged DEF RecordEvent
  <2>6. CASE PersistEvent(c)
    <3>1. CallTypes' /\ CarriesId'
      <4>1. CASE job[c].id = WebId
        BY <1>t, <2>6, <4>1, FinishTypes DEF PersistEvent
      <4>2. CASE job[c].id # WebId
        BY <1>t, <2>6, <4>2
           DEF PersistEvent, GoOn, CallTypes, CarriesId, Steps, Pushed
      <4> QED
        BY <4>1, <4>2
    <3>2. GateTypes'
      BY <1>t, <2>6 DEF PersistEvent, GateTypes, CallTypes, Jobs
    <3> QED
      BY <1>t, <2>6, <3>1, <3>2, Unchanged DEF PersistEvent
  <2>7. CASE MirrorEvent(c)
    <3>1. GateTypes'
      BY <1>t, <2>7 DEF MirrorEvent, GateTypes, CallTypes, CarriesId, Jobs
    <3> QED
      BY <1>t, <2>7, <3>1, FinishTypes, Unchanged DEF MirrorEvent
  <2>8. CASE PersistFails(c)
    BY <1>t, <2>8, FinishTypes, Unchanged DEF PersistFails
  <2>9. CASE Gate(c)
    <3>1. CallTypes' /\ CarriesId'
      BY <1>t, <2>9, FinishTypes DEF Gate, GoOn, CallTypes, CarriesId, Steps, Pushed
    <3> QED
      BY <1>t, <2>9, <3>1, Unchanged DEF Gate
  <2>10. CASE Extract(c)
    <3>1. CallTypes' /\ CarriesId'
      <4>1. CASE ~unsent
        BY <1>t, <2>10, <4>1, FinishTypes DEF Extract
      <4>2. CASE unsent
        BY <1>t, <2>10, <4>2
           DEF Extract, GoOn, StoreTypes, CallTypes, CarriesId, Steps, Jobs, Pushed
      <4> QED
        BY <4>1, <4>2
    <3> QED
      BY <1>t, <2>10, <3>1, Unchanged DEF Extract
  <2>11. CASE Send(c)
    <3>1. job[c].rows \in Rows /\ job[c].tombs \in Rows
      BY <1>t DEF CallTypes, Jobs
    <3>2. PeerTypes'
      BY <1>t, <2>11, <3>1, DataTypes DEF Send
    <3>3. CallTypes' /\ CarriesId'
      BY <1>t, <2>11, FinishTypes, NoJobIsJob
         DEF Send, GoOn, CallTypes, CarriesId, Steps, Pushed
    <3> QED
      BY <1>t, <2>11, <3>2, <3>3, Unchanged DEF Send
  <2> QED
    BY <2>1, <2>2, <2>3, <2>4, <2>5, <2>6, <2>7, <2>8, <2>9, <2>10, <2>11 DEF Step
<1>2. CASE LoopTick \/ IpcStart
  <2>1. CallTypes' /\ CarriesId'
    BY <1>t, <1>2 DEF LoopTick, IpcStart, GoOn, CallTypes, CarriesId, Steps, Pushed
  <2> QED
    BY <1>t, <1>2, <2>1, Unchanged DEF LoopTick, IpcStart
<1>3. CASE Restart
  <2>1. CallTypes' /\ CarriesId'
    BY <1>t, <1>3, NoJobIsJob DEF Restart, CallTypes, CarriesId, Steps, Pushed
  <2>2. ConsentTypes'
    BY <1>t, <1>3 DEF Restart, ConsentTypes
  <2>3. GateTypes' /\ restarts' \in 0 .. MaxRestarts
    BY <1>t, <1>3 DEF Restart, GateTypes
  <2> QED
    BY <1>t, <1>3, <2>1, <2>2, <2>3, Unchanged DEF Restart
<1>4. CASE Revoke \/ Grant
  <2>1. ASSUME Grant PROVE ConsentTypes'
    <3>1. 0 \in 0 .. MaxRevokes
      OBVIOUS
    <3>2. file' = [granted |-> TRUE, id |-> 0] /\ UNCHANGED <<pendingId, revokes, wipeOf>>
      BY <2>1 DEF Grant
    <3>3. file' \in [granted : BOOLEAN, id : 0 .. MaxRevokes]
      BY <3>1, <3>2, RecordTypes, Zenon
    <3> QED
      BY <1>t, <3>2, <3>3 DEF ConsentTypes
  <2>2. ASSUME Revoke PROVE ConsentTypes'
    <3>1. \/ UNCHANGED <<revokes, pendingId, file>>
          \/ /\ revokes < MaxRevokes
             /\ revokes' = revokes + 1
             /\ pendingId' = revokes + 1
             /\ file' = [granted |-> FALSE, id |-> revokes + 1]
      BY <2>2 DEF Revoke
    <3>2. wipeOf' = wipeOf
      BY <2>2 DEF Revoke
    <3>3. \/ UNCHANGED <<revokes, pendingId, file>>
          \/ /\ revokes' \in 0 .. MaxRevokes /\ pendingId' \in 0 .. MaxRevokes
             /\ file' \in [granted : BOOLEAN, id : 0 .. MaxRevokes]
      <4>1. revokes < MaxRevokes => revokes + 1 \in 0 .. MaxRevokes
        BY <1>t DEF ConsentTypes
      <4> QED
        BY <3>1, <4>1, RecordTypes, Zenon
    <3> QED
      BY <1>t, <3>2, <3>3 DEF ConsentTypes
  <2>3. ConsentTypes'
    BY <1>4, <2>1, <2>2
  <2> QED
    BY <1>t, <1>4, <2>3, Unchanged DEF Revoke, Grant
<1>5. CASE \E p \in Peers : PeerPull(p)
  <2>1. local \in Rows /\ outbox \in Rows
    BY <1>t DEF StoreTypes
  <2>2. PeerTypes'
    BY <1>t, <1>5, <2>1, DataTypes DEF PeerPull
  <2> QED
    BY <1>t, <1>5, <2>2, Unchanged DEF PeerPull
<1>6. CASE \E k \in Keys : WriteRow(k)
  <2>1. PICK k \in Keys : WriteRow(k)
    BY <1>6
  <2>2. clock + 1 \in Stamps /\ StampsCounted' /\ clock' = clock + 1
    BY <1>t, <2>1, StampsAreNumbers DEF WriteRow, StoreTypes, StampsCounted
  <2>3. StoreTypes'
    BY <1>t, <2>1, <2>2 DEF WriteRow, StoreTypes, Rows
  <2> QED
    BY <1>t, <2>1, <2>2, <2>3, Unchanged DEF WriteRow
<1>7. CASE Wipe \/ WebErase
  <2>a. WipeTables
    BY <1>7 DEF Wipe, WebErase
  <2>0. clock + 1 \in Stamps /\ StampsCounted' /\ wipes' \in 0 .. MaxWipes
    BY <1>t, <2>a, StampsAreNumbers DEF WipeTables, StoreTypes, StampsCounted
  <2>1. StoreTypes'
    BY <1>t, <2>a, <2>0, StampsAreNumbers DEF WipeTables, StoreTypes, Rows
  <2>2. ConsentTypes'
    <3>1. CASE Wipe
      <4>1. /\ UNCHANGED <<file, pendingId, revokes>>
            /\ wipeOf' = [i \in 1 .. MaxRevokes |->
                            IF i <= revokes /\ wipeOf[i] = 0 THEN clock + 1 ELSE wipeOf[i]]
        BY <3>1 DEF Wipe
      <4>2. wipeOf' \in [1 .. MaxRevokes -> Stamps]
        BY <1>t, <2>0, <4>1 DEF ConsentTypes
      <4> QED
        BY <1>t, <4>1, <4>2 DEF ConsentTypes
    <3>2. CASE WebErase
      BY <1>t, <3>2, Unchanged DEF WebErase
    <3> QED
      BY <1>7, <3>1, <3>2
  <2>3. GateTypes'
    BY <1>t, <1>7 DEF Wipe, WebErase, GateTypes, gateVars
  <2> QED
    BY <1>t, <1>7, <2>0, <2>1, <2>2, <2>3, Unchanged DEF Wipe, WebErase
<1>8. CASE BackoffElapses \/ WebRequest
  <2>1. GateTypes'
    BY <1>t, <1>8 DEF BackoffElapses, WebRequest, GateTypes
  <2> QED
    BY <1>t, <1>8, <2>1, Unchanged DEF BackoffElapses, WebRequest
<1>9. CASE UNCHANGED vars
  BY <1>t, <1>9, Unchanged
     DEF vars, consentVars, storeVars, gateVars, callVars, peerVars
<1> QED
  BY <1>1, <1>2, <1>3, <1>4, <1>5, <1>6, <1>7, <1>8, <1>9 DEF Next

-----------------------------------------------------------------------------
(* What is marked was confirmed *)

\* A step that adds nothing to the ledger, the store and the mirror, and takes
\* no call past its push, preserves the invariant.
LEMMA QuietStep ==
    ASSUME GateInv, TypeInv', confirmed \subseteq confirmed',
           UNCHANGED <<stored, lastPushed, ledger>>,
           \A c \in Callers : pc'[c] \in Pushed => pc[c] \in Pushed /\ job'[c].id = job[c].id
    PROVE  GateInv'
BY DEF GateInv, CarriedWasConfirmed, LedgeredWasConfirmed, MarkedWasConfirmed

\* Only a confirmed push changes what is confirmed.
LEMMA OnlyPushConfirms ==
    ASSUME [Next]_vars, \A c \in Callers : ~PushEvent(c)
    PROVE  confirmed' = confirmed
BY DEF Next, Step, vars, WriteRow, Revoke, Grant, Wipe, WebErase, WebRequest, LoopTick, IpcStart,
       Decide, ReadAnchor, PushEventFails, RecordEvent, PersistEvent, PersistFails,
       MirrorEvent, Gate, Extract, Send, PeerPull, BackoffElapses, Restart

\* Ending call c takes no call past its push.
LEMMA FinishIsQuiet ==
    ASSUME GateInv, NEW c \in Callers, Finish(c)
    PROVE  \A d \in Callers : pc'[d] \in Pushed => pc[d] \in Pushed /\ job'[d].id = job[d].id
BY DEF GateInv, TypeInv, TypeOK, CallTypes, Finish, Pushed

LEMMA GateInvStep == GateInv /\ [Next]_vars => GateInv'
<1> SUFFICES ASSUME GateInv, [Next]_vars
             PROVE  GateInv'
  OBVIOUS
<1>t. TypeInv' /\ CallTypes /\ CarriesId
  BY TypeInvStep DEF GateInv, TypeInv, TypeOK
<1>1. ASSUME NEW c \in Callers, PushEvent(c)
      PROVE  GateInv'
  <2>1. confirmed' = confirmed \cup {job[c].id}
    BY <1>1 DEF PushEvent
  <2>2. /\ UNCHANGED <<stored, lastPushed, ledger>>
        /\ \A d \in Callers : /\ d # c => pc'[d] = pc[d]
                              /\ job'[d].id = job[d].id
    BY <1>t, <1>1 DEF PushEvent, GoOn, CallTypes, Jobs
  <2> QED
    BY <1>t, <2>1, <2>2
       DEF GateInv, CarriedWasConfirmed, LedgeredWasConfirmed, MarkedWasConfirmed
<1>2. ASSUME NEW c \in Callers, PushEventFails(c)
      PROVE  GateInv'
  BY <1>t, <1>2, FinishIsQuiet, QuietStep DEF PushEventFails
<1>3. CASE \A c \in Callers : ~PushEvent(c) /\ ~PushEventFails(c)
  <2>d. confirmed' = confirmed
    BY <1>3, OnlyPushConfirms
  <2>1. ASSUME NEW c \in Callers, RecordEvent(c)
        PROVE  GateInv'
    <3>1. job[c].id \in confirmed
      BY <2>1 DEF RecordEvent, GateInv, CarriedWasConfirmed, Pushed
    <3>2. /\ UNCHANGED <<stored, lastPushed, job>>
          /\ \A d \in Callers : d # c => pc'[d] = pc[d]
          /\ ledger' \subseteq ledger \cup {job[c].id}
      BY <1>t, <2>1 DEF RecordEvent, GoOn, CallTypes, gateVars
    <3> QED
      BY <1>t, <2>d, <3>1, <3>2
         DEF GateInv, CarriedWasConfirmed, LedgeredWasConfirmed, MarkedWasConfirmed
  <2>2. ASSUME NEW c \in Callers, PersistEvent(c)
        PROVE  GateInv'
    <3>1. job[c].id \in confirmed
      BY <2>2 DEF PersistEvent, GateInv, CarriedWasConfirmed, Pushed
    <3>2. CASE job[c].id = WebId
      BY <1>t, <2>2, <2>d, <3>2, FinishIsQuiet, QuietStep DEF PersistEvent
    <3>3. CASE job[c].id # WebId
      <4>1. /\ UNCHANGED <<lastPushed, job, ledger>>
            /\ \A d \in Callers : d # c => pc'[d] = pc[d]
            /\ stored' = job[c].id
        BY <1>t, <2>2, <3>3 DEF PersistEvent, GoOn, CallTypes
      <4> QED
        BY <1>t, <2>d, <3>1, <4>1
           DEF GateInv, CarriedWasConfirmed, LedgeredWasConfirmed, MarkedWasConfirmed
    <3> QED
      BY <3>2, <3>3
  <2>3. ASSUME NEW c \in Callers, MirrorEvent(c)
        PROVE  GateInv'
    <3>1. job[c].id \in confirmed
      BY <2>3 DEF MirrorEvent, GateInv, CarriedWasConfirmed, Pushed
    <3>2. /\ UNCHANGED <<stored, ledger>> /\ lastPushed' = job[c].id
          /\ \A d \in Callers : pc'[d] \in Pushed => pc[d] \in Pushed /\ job'[d].id = job[d].id
      BY <2>3, FinishIsQuiet DEF MirrorEvent
    <3> QED
      BY <1>t, <2>d, <3>1, <3>2
         DEF GateInv, CarriedWasConfirmed, LedgeredWasConfirmed, MarkedWasConfirmed
  <2>4. ASSUME NEW c \in Callers,
               PersistFails(c) \/ Gate(c) \/ Extract(c) \/ Send(c)
        PROVE  GateInv'
    <3>1. \A d \in Callers : pc'[d] \in Pushed => pc[d] \in Pushed /\ job'[d].id = job[d].id
      BY <1>t, <2>4, FinishIsQuiet
         DEF PersistFails, Gate, Extract, Send, GoOn, CallTypes, Jobs, Pushed
    <3> QED
      BY <1>t, <2>4, <2>d, <3>1, QuietStep
         DEF PersistFails, Gate, Extract, Send, gateVars
  <2>5. ASSUME NEW c \in Callers, Decide(c) \/ ReadAnchor(c)
        PROVE  GateInv'
    <3>1. \A d \in Callers : pc'[d] \in Pushed => pc[d] \in Pushed /\ job'[d].id = job[d].id
      BY <1>t, <2>5 DEF Decide, ReadAnchor, GoOn, CallTypes, Jobs, Pushed
    <3> QED
      BY <1>t, <2>5, <2>d, <3>1, QuietStep DEF Decide, ReadAnchor, gateVars
  <2>6. CASE LoopTick \/ IpcStart
    <3>1. \A d \in Callers : pc'[d] \in Pushed => pc[d] \in Pushed /\ job'[d].id = job[d].id
      BY <1>t, <2>6 DEF LoopTick, IpcStart, GoOn, CallTypes, Pushed
    <3> QED
      BY <1>t, <2>6, <2>d, <3>1, QuietStep DEF LoopTick, IpcStart, gateVars
  <2>7. CASE Restart
    <3>1. /\ lastPushed' = stored /\ UNCHANGED <<stored, ledger>>
          /\ \A d \in Callers : pc'[d] \notin Pushed
      BY <2>7 DEF Restart, Pushed
    <3> QED
      BY <1>t, <2>d, <3>1
         DEF GateInv, CarriedWasConfirmed, LedgeredWasConfirmed, MarkedWasConfirmed
  <2>8. CASE \/ (\E k \in Keys : WriteRow(k)) \/ Revoke \/ Grant \/ Wipe \/ WebErase \/ WebRequest \/ BackoffElapses
             \/ (\E p \in Peers : PeerPull(p)) \/ UNCHANGED vars
    <3>1. UNCHANGED <<stored, lastPushed, ledger, pc, job>>
      BY <2>8 DEF WriteRow, Revoke, Grant, Wipe, WebErase, WebRequest, BackoffElapses, PeerPull, vars,
                  gateVars, callVars
    <3> QED
      BY <1>t, <2>d, <3>1, QuietStep
  <2> QED
    BY <1>3, <2>1, <2>2, <2>3, <2>4, <2>5, <2>6, <2>7, <2>8 DEF Next, Step
<1> QED
  BY <1>1, <1>2, <1>3

\* The variables of the engine keep their types: in particular the durable gate
\* only ever holds the id of a revocation, never that of a web erasure.
THEOREM EngineTypes == Spec => []TypeOK
<1>1. TypeInv => TypeOK
  BY DEF TypeInv
<1> QED
  BY <1>1, TypeInvInit, TypeInvStep, PTL DEF Spec

\* Whoever calls the engine, whatever fails and whenever the process restarts: an
\* erasure is struck off, durably or in memory, only after a peer confirmed it.
THEOREM MarkedIsConfirmed == Spec => []MarkedWasConfirmed
<1>1. GateInv => MarkedWasConfirmed
  BY DEF GateInv
<1> QED
  BY <1>1, GateInvInit, GateInvStep, PTL DEF Spec

-----------------------------------------------------------------------------
(* The engine implements ErasureDelivery *)

\* Every step of the engine is a step of ErasureDelivery, or one it does not see.
LEMMA StepImplements == GateInv /\ [Next]_vars => [Delivery!Next]_(Delivery!vars)
<1> SUFFICES ASSUME GateInv, [Next]_vars
             PROVE  Delivery!Next \/ UNCHANGED <<confirmed, ledger, stored>>
  BY DEF Delivery!vars
<1>i. ASSUME NEW c \in Callers, pc[c] \in {"push"} \cup Pushed
      PROVE  job[c].id \in Ids
  BY <1>i, IdsAreNumbers DEF GateInv, TypeInv, TypeOK, CallTypes, CarriesId, Jobs, Ids
<1>1. ASSUME NEW c \in Callers, PushEvent(c)
      PROVE  Delivery!Next \/ UNCHANGED <<confirmed, ledger, stored>>
  <2>1. job[c].id \in Ids /\ UNCHANGED <<ledger, stored>>
    BY <1>1, <1>i DEF PushEvent
  <2>2. Delivery!Deliver(job[c].id)
    BY <1>1, <2>1 DEF PushEvent, Delivery!Deliver
  <2> QED
    BY <2>1, <2>2 DEF Delivery!Next
<1>2. CASE \A c \in Callers : ~PushEvent(c)
  <2>d. confirmed' = confirmed
    BY <1>2, OnlyPushConfirms
  <2>1. ASSUME NEW c \in Callers, RecordEvent(c)
        PROVE  Delivery!Next \/ UNCHANGED <<confirmed, ledger, stored>>
    <3>1. job[c].id \in Ids /\ job[c].id \in confirmed /\ UNCHANGED stored
      BY <1>i, <2>1 DEF RecordEvent, GateInv, CarriedWasConfirmed, Pushed, gateVars
    <3>2. Delivery!Audit(job[c].id) \/ UNCHANGED ledger
      BY <2>1, <2>d, <3>1 DEF RecordEvent, Delivery!Audit
    <3> QED
      BY <2>d, <3>1, <3>2 DEF Delivery!Next
  <2>2. ASSUME NEW c \in Callers, PersistEvent(c)
        PROVE  Delivery!Next \/ UNCHANGED <<confirmed, ledger, stored>>
    <3>1. job[c].id \in Ids /\ job[c].id \in confirmed /\ UNCHANGED ledger
      BY <1>i, <2>2 DEF PersistEvent, GateInv, CarriedWasConfirmed, Pushed
    <3>2. Delivery!Mark(job[c].id) \/ UNCHANGED stored
      BY <2>2, <2>d, <3>1 DEF PersistEvent, Delivery!Mark
    <3> QED
      BY <2>d, <3>1, <3>2 DEF Delivery!Next
  <2>3. CASE \A c \in Callers : ~RecordEvent(c) /\ ~PersistEvent(c)
    <3>1. UNCHANGED <<ledger, stored>>
      BY <1>2, <2>3
         DEF Next, Step, vars, gateVars, WriteRow, Revoke, Grant, Wipe, WebErase, WebRequest,
             LoopTick, IpcStart, Decide, ReadAnchor, PushEventFails, PersistFails, MirrorEvent, Gate, Extract,
             Send, PeerPull, BackoffElapses, Restart
    <3> QED
      BY <2>d, <3>1
  <2> QED
    BY <2>1, <2>2, <2>3
<1> QED
  BY <1>1, <1>2

\* Whatever fails and whoever calls, the engine only does what ErasureDelivery
\* allows: the ledger and the durable gate name events a peer confirmed, and
\* neither a confirmation nor an entry of the ledger is ever taken back.
THEOREM EngineImplementsDelivery == Spec => ImplementsDelivery
<1>1. Init => Delivery!Init
  BY DEF Init, Delivery!Init
<1> QED
  BY <1>1, GateInvInit, GateInvStep, StepImplements, PTL
     DEF Spec, ImplementsDelivery, Delivery!Spec

-----------------------------------------------------------------------------
(* Erased rows stay covered *)

\* The inductive strengthening: a stamp of key k that is about, here, on its way
\* or at a peer, is covered, and one above the outbox's is of a key this device
\* still has a row of, so that the next wipe will cover it.
Known(k, stamp) == /\ Covered(k, stamp) /\ stamp <= clock
                   /\ stamp > outbox[k] => local[k] # 0
CoverInv == /\ TypeInv /\ anchor <= clock
            /\ \A k \in Keys : /\ Known(k, local[k])
                               /\ \A p \in Peers : Known(k, peerRows[p][k])
                               /\ \A c \in Callers : Known(k, job[c].rows[k])

\* With the store as it is, steps that move known rows about keep the invariant.
LEMMA MovesKnown ==
    ASSUME CoverInv, TypeInv', UNCHANGED storeVars,
           \A p \in Peers, k \in Keys : Known(k, peerRows'[p][k]),
           \A c \in Callers, k \in Keys : Known(k, job'[c].rows[k])
    PROVE  CoverInv'
BY DEF CoverInv, Known, Covered, storeVars

\* No row is known.
LEMMA NothingKnown == ASSUME CoverInv, NEW k \in Keys PROVE Known(k, 0)
BY StampsAreNumbers DEF CoverInv, TypeInv, TypeOK, StoreTypes, Rows, Known, Covered

LEMMA CoverInvStep == CoverInv /\ [Next]_vars => CoverInv'
<1> SUFFICES ASSUME CoverInv, [Next]_vars
             PROVE  CoverInv'
  OBVIOUS
<1>t. TypeInv' /\ TypeInv /\ PeerTypes /\ CallTypes /\ StoreTypes
  BY TypeInvStep DEF CoverInv, TypeInv, TypeOK
<1>n. /\ \A p \in Peers, k \in Keys : Known(k, peerRows[p][k])
      /\ \A c \in Callers, k \in Keys : Known(k, job[c].rows[k])
      /\ \A k \in Keys : Known(k, local[k]) /\ Known(k, 0)
  BY NothingKnown DEF CoverInv
<1>1. ASSUME NEW k \in Keys, WriteRow(k)
      PROVE  CoverInv'
  <2>1. /\ clock' = clock + 1 /\ local' = [local EXCEPT ![k] = clock + 1]
        /\ UNCHANGED <<anchor, outbox, peerRows, job>>
        /\ clock \in Nat /\ anchor \in Nat /\ anchor <= clock
        /\ \A h \in Keys : local[h] \in Nat /\ outbox[h] \in Nat
    BY <1>1, <1>t, StampsAreNumbers
       DEF WriteRow, StoreTypes, Rows, CoverInv, peerVars, callVars
  <2>2. \A h \in Keys : local'[h] = IF h = k THEN clock + 1 ELSE local[h]
    BY <1>t, <2>1 DEF StoreTypes, Rows
  <2>3. ASSUME NEW h \in Keys, NEW s \in Stamps, Known(h, s)
        PROVE  Known(h, s)'
    BY <2>1, <2>2, <2>3, StampsAreNumbers DEF Known, Covered
  <2>4. Known(k, clock)'
    BY <2>1, <2>2 DEF Known, Covered
  <2>5. \A h \in Keys : Known(h, local[h])'
    <3> SUFFICES ASSUME NEW h \in Keys PROVE Known(h, local[h])'
      OBVIOUS
    <3>1. CASE h = k
      BY <2>1, <2>2, <2>4, <3>1
    <3>2. CASE h # k
      BY <1>n, <1>t, <2>2, <2>3, <3>2 DEF StoreTypes, Rows
    <3> QED
      BY <3>1, <3>2
  <2>6. \A h \in Keys : /\ \A p \in Peers : Known(h, peerRows[p][h])'
                        /\ \A c \in Callers : Known(h, job[c].rows[h])'
    BY <1>n, <1>t, <2>1, <2>3 DEF PeerTypes, CallTypes, Jobs, Rows
  <2> QED
    BY <1>t, <2>1, <2>5, <2>6 DEF CoverInv
<1>2. CASE Wipe \/ WebErase
  <2>1. /\ clock' = clock + 1 /\ anchor' = clock + 1 /\ local' = NoRows
        /\ outbox' = [k \in Keys |-> IF local[k] # 0 THEN clock + 1 ELSE outbox[k]]
        /\ UNCHANGED <<peerRows, job>>
        /\ clock \in Nat /\ \A h \in Keys : local[h] \in Nat /\ outbox[h] \in Nat
    BY <1>2, <1>t, StampsAreNumbers
       DEF Wipe, WebErase, WipeTables, StoreTypes, Rows, peerVars, callVars
  <2>2. ASSUME NEW h \in Keys, NEW s \in Stamps, Known(h, s)
        PROVE  Known(h, s)'
    <3>1. outbox'[h] = IF local[h] # 0 THEN clock + 1 ELSE outbox[h]
      BY <2>1
    <3>2. s <= outbox'[h]
      BY <2>1, <2>2, <3>1, StampsAreNumbers DEF Known
    <3>3. outbox'[h] \in Nat /\ s \in Nat
      BY <2>1, <3>1, StampsAreNumbers
    <3> QED
      BY <2>1, <2>2, <3>2, <3>3 DEF Known, Covered
  <2>3. \A h \in Keys : Known(h, local[h])'
    BY <1>n, <2>1, <2>2, StampsAreNumbers
  <2>4. \A h \in Keys : /\ \A p \in Peers : Known(h, peerRows[p][h])'
                        /\ \A c \in Callers : Known(h, job[c].rows[h])'
    BY <1>n, <1>t, <2>1, <2>2 DEF PeerTypes, CallTypes, Jobs, Rows
  <2> QED
    BY <1>t, <2>1, <2>3, <2>4 DEF CoverInv
<1>3. ASSUME NEW c \in Callers, PushEvent(c) \/ PushEventFails(c)
      PROVE  CoverInv'
  <2>1. \A p \in Peers, k \in Keys : peerRows'[p][k] \in {0, peerRows[p][k]}
    BY <1>3, <1>t, EventTypes DEF PushEvent, PushEventFails
  <2>2. \A d \in Callers : job'[d].rows \in {job[d].rows, NoRows}
    BY <1>3, <1>t, NoJobIsJob DEF PushEvent, PushEventFails, Finish, CallTypes, Jobs
  <2>3. UNCHANGED storeVars
    BY <1>3 DEF PushEvent, PushEventFails
  <2> QED
    BY <1>n, <1>t, <2>1, <2>2, <2>3, StampsAreNumbers, MovesKnown
<1>4. ASSUME NEW c \in Callers, Send(c)
      PROVE  CoverInv'
  <2>1. \A p \in Peers, k \in Keys : peerRows'[p][k] \in {0, peerRows[p][k], job[c].rows[k]}
    BY <1>4, <1>t, DataTypes DEF Send, CallTypes, Jobs
  <2>2. \A d \in Callers : job'[d].rows \in {job[d].rows, NoRows}
    BY <1>4, <1>t, NoJobIsJob DEF Send, Finish, CallTypes
  <2>3. UNCHANGED storeVars
    BY <1>4 DEF Send
  <2> QED
    BY <1>n, <1>t, <2>1, <2>2, <2>3, StampsAreNumbers, MovesKnown
<1>5. ASSUME NEW q \in Peers, PeerPull(q)
      PROVE  CoverInv'
  <2>1. \A p \in Peers, k \in Keys : peerRows'[p][k] \in {0, peerRows[p][k], local[k]}
    BY <1>5, <1>t, DataTypes DEF PeerPull, StoreTypes
  <2>2. UNCHANGED storeVars /\ job' = job
    BY <1>5 DEF PeerPull, callVars
  <2> QED
    BY <1>n, <1>t, <2>1, <2>2, MovesKnown
<1>6. ASSUME NEW c \in Callers, Extract(c)
      PROVE  CoverInv'
  <2>1. \A d \in Callers : job'[d].rows \in {job[d].rows, local, NoRows}
    BY <1>6, <1>t, NoJobIsJob DEF Extract, Finish, CallTypes, Jobs
  <2>2. UNCHANGED storeVars /\ peerRows' = peerRows
    BY <1>6 DEF Extract, peerVars
  <2> QED
    BY <1>n, <1>t, <2>1, <2>2, StampsAreNumbers, MovesKnown
<1>7. ASSUME NEW c \in Callers,
             \/ Decide(c) \/ ReadAnchor(c) \/ RecordEvent(c) \/ PersistEvent(c)
             \/ PersistFails(c) \/ MirrorEvent(c) \/ Gate(c)
      PROVE  CoverInv'
  <2>1. \A d \in Callers : job'[d].rows \in {job[d].rows, NoRows}
    BY <1>7, <1>t, NoJobIsJob
       DEF Decide, ReadAnchor, RecordEvent, PersistEvent, PersistFails, MirrorEvent, Gate,
           Finish, CallTypes, Jobs
  <2>2. UNCHANGED storeVars /\ peerRows' = peerRows
    BY <1>7 DEF Decide, ReadAnchor, RecordEvent, PersistEvent, PersistFails, MirrorEvent, Gate,
                peerVars
  <2> QED
    BY <1>n, <1>t, <2>1, <2>2, StampsAreNumbers, MovesKnown
<1>8. CASE Restart
  <2>1. \A d \in Callers : job'[d].rows = NoRows
    BY <1>8, NoJobIsJob DEF Restart
  <2>2. UNCHANGED storeVars /\ peerRows' = peerRows
    BY <1>8 DEF Restart, peerVars
  <2> QED
    BY <1>n, <1>t, <2>1, <2>2, StampsAreNumbers, MovesKnown
<1>9. CASE \/ Revoke \/ Grant \/ WebRequest \/ LoopTick \/ IpcStart \/ BackoffElapses
           \/ UNCHANGED vars
  <2>1. UNCHANGED storeVars /\ peerRows' = peerRows /\ job' = job
    BY <1>9 DEF Revoke, Grant, WebRequest, LoopTick, IpcStart, BackoffElapses, vars, storeVars,
                peerVars, callVars
  <2> QED
    BY <1>n, <1>t, <2>1, MovesKnown
<1> QED
  BY <1>1, <1>2, <1>3, <1>4, <1>5, <1>6, <1>7, <1>8, <1>9 DEF Next, Step

\* However late a changeset arrives, for any peers, rows, wipes and restarts: of
\* every erased row that a peer holds or that is on its way to one, this device
\* keeps a tombstone that strikes it (delete_all_data, get_local_changes_since,
\* apply_changes).
THEOREM ErasedIsCovered == Spec => []ErasedStaysCovered
<1>1. Init => CoverInv
  <2> SUFFICES ASSUME Init PROVE CoverInv
    OBVIOUS
  <2>1. \A k \in Keys : /\ local[k] = 0 /\ outbox[k] = 0
                        /\ \A p \in Peers : peerRows[p][k] = 0
                        /\ \A c \in Callers : job[c].rows[k] = 0
    BY StampsAreNumbers, NoJobIsJob DEF Init
  <2>2. anchor = 0 /\ clock = 0
    BY DEF Init
  <2>3. \A k \in Keys : Known(k, 0)
    BY <2>1, <2>2 DEF Known, Covered
  <2> QED
    BY <2>1, <2>2, <2>3, TypeInvInit DEF CoverInv
<1>2. CoverInv => ErasedStaysCovered
  BY DEF CoverInv, ErasedStaysCovered, Known
<1> QED
  BY <1>1, <1>2, CoverInvStep, PTL DEF Spec
=============================================================================

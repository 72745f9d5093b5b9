------------------------ MODULE ConsentErasureProofs ------------------------
(***************************************************************************)
(* Proofs about ConsentManager's transitions, for any number of commands   *)
(* that grant and withdraw consent at the same time, and for a crash at    *)
(* any point.                                                              *)
(***************************************************************************)
EXTENDS ConsentErasure, FiniteSetTheorems, TLAPS

\* What MemoryMatchesDisk states of a free guard.
Match == /\ consent = "granted" <=> disk.rec = "granted"
         /\ disk.rec = "revoked" => erasureId = disk.id

Inside == {"persist", "commit"}

\* The strengthening that is inductive.  Memory and file may differ only while
\* the command that holds the guard is between its write and its commit, and
\* then the file already holds what the commit will make of memory.
Holder == \A c \in Commands : pc[c] \in Inside <=> guard = c
FreeMatches == guard = Nobody => Match
EnteredMatches == \A c \in Commands : pc[c] = "persist" => Match
GrantWritten == \A g \in Granters : pc[g] = "commit" => disk.rec = "granted"
RevokeWritten == \A w \in Erasers : pc[w] = "commit" =>
                    IF consent = "granted"
                    THEN disk.rec = "revoked" /\ disk.id = grants
                    ELSE Match
GuardInv == /\ pc \in [Commands -> Steps]
            /\ guard \in Commands \cup {Nobody}
            /\ consent \in {"granted", "none"}
            /\ pc[Boot] \notin Inside \cup {"lock"}
            /\ Holder /\ FreeMatches /\ EnteredMatches /\ GrantWritten /\ RevokeWritten

LEMMA GuardInvInit == Init => GuardInv
BY ConsentAssumption
   DEF Init, GuardInv, Holder, FreeMatches, EnteredMatches, GrantWritten, RevokeWritten,
       Match, Inside, Commands, Steps

\* A step that moves one command between steps outside the guard, and leaves the
\* record, the file and the guard alone, preserves the invariant.
LEMMA OutsideStep ==
    ASSUME GuardInv, NEW c \in Commands, NEW from, NEW to \in Steps \ Inside,
           GoTo(c, from, to), from \notin Inside, c = Boot => to # "lock",
           UNCHANGED <<mem, disk, guard, grants>>
    PROVE  GuardInv'
<1>1. /\ pc' \in [Commands -> Steps]
      /\ \A d \in Commands : pc'[d] = IF d = c THEN to ELSE pc[d]
      /\ pc[c] \notin Inside
  BY DEF GoTo, GuardInv
<1>2. UNCHANGED Match
  BY DEF Match, mem
<1>3. Boot \in Commands /\ Granters \subseteq Commands /\ Erasers \subseteq Commands
  BY DEF Commands
<1> QED
  BY <1>1, <1>2, <1>3, ConsentAssumption
     DEF GuardInv, Holder, FreeMatches, EnteredMatches, GrantWritten, RevokeWritten,
         Inside, Steps, mem

\* A step that moves no command preserves it too.
LEMMA BesideStep ==
    ASSUME GuardInv, UNCHANGED <<mem, disk, guard, grants, pc>>
    PROVE  GuardInv'
BY DEF GuardInv, Holder, FreeMatches, EnteredMatches, GrantWritten, RevokeWritten, Match,
       Inside, mem

LEMMA GuardInvStep == GuardInv /\ [Next]_vars => GuardInv'
<1> SUFFICES ASSUME GuardInv, [Next]_vars
             PROVE  GuardInv'
  OBVIOUS
<1>sub. /\ Boot \in Commands /\ Granters \subseteq Commands /\ Erasers \subseteq Commands
        /\ Wipers \subseteq Commands
        /\ Nobody \notin Commands /\ Boot \notin Erasers \cup Granters
        /\ Erasers \cap Granters = {}
  BY ConsentAssumption DEF Commands, Wipers
<1>1. ASSUME NEW c \in Erasers \cup Granters, TakeGuard(c)
      PROVE  GuardInv'
  <2>1. /\ pc' \in [Commands -> Steps]
        /\ \A d \in Commands : pc'[d] = IF d = c THEN "persist" ELSE pc[d]
        /\ guard = Nobody /\ guard' = c
        /\ UNCHANGED <<mem, disk, grants>>
    BY <1>1, <1>sub DEF TakeGuard, GoTo, GuardInv, Steps
  <2>2. Match /\ UNCHANGED Match
    BY <2>1 DEF GuardInv, FreeMatches, Match, mem
  <2> QED
    BY <2>1, <2>2, <1>sub
       DEF GuardInv, Holder, FreeMatches, EnteredMatches, GrantWritten, RevokeWritten,
           Inside, mem
<1>2. ASSUME NEW c \in Erasers \cup Granters, PersistFails(c)
      PROVE  GuardInv'
  <2>1. /\ pc' \in [Commands -> Steps]
        /\ \A d \in Commands : pc'[d] = IF d = c THEN "idle" ELSE pc[d]
        /\ pc[c] = "persist" /\ guard' = Nobody
        /\ UNCHANGED <<mem, disk, grants>>
    BY <1>2, <1>sub DEF PersistFails, GoTo, GuardInv, Steps
  <2>2. Match /\ UNCHANGED Match
    BY <2>1, <1>sub DEF GuardInv, EnteredMatches, Match, mem
  <2> QED
    BY <2>1, <2>2, <1>sub
       DEF GuardInv, Holder, FreeMatches, EnteredMatches, GrantWritten, RevokeWritten,
           Inside, mem
<1>3. ASSUME NEW g \in Granters, GrantPersist(g)
      PROVE  GuardInv'
  <2>1. /\ pc' \in [Commands -> Steps]
        /\ \A d \in Commands : pc'[d] = IF d = g THEN "commit" ELSE pc[d]
        /\ pc[g] = "persist" /\ guard' = guard
        /\ disk'.rec = "granted"
        /\ UNCHANGED mem
    BY <1>3, <1>sub DEF GrantPersist, GoTo, GuardInv, Steps
  <2>2. guard = g
    BY <2>1, <1>sub DEF GuardInv, Holder, Inside
  <2> QED
    BY <2>1, <2>2, <1>sub
       DEF GuardInv, Holder, FreeMatches, EnteredMatches, GrantWritten, RevokeWritten,
           Inside, mem
<1>4. ASSUME NEW g \in Granters, GrantCommit(g)
      PROVE  GuardInv'
  <2>1. /\ pc' \in [Commands -> Steps]
        /\ \A d \in Commands : pc'[d] = IF d = g THEN "flag" ELSE pc[d]
        /\ pc[g] = "commit" /\ guard' = Nobody
        /\ consent' = "granted"
        /\ UNCHANGED <<disk, erasureId, grants>>
    BY <1>4, <1>sub DEF GrantCommit, GoTo, GuardInv, Steps
  <2>2. Match'
    BY <2>1, <1>sub DEF GuardInv, GrantWritten, Match
  <2> QED
    BY <2>1, <2>2, <1>sub
       DEF GuardInv, Holder, FreeMatches, EnteredMatches, GrantWritten, RevokeWritten, Inside
<1>5. ASSUME NEW w \in Erasers, RevokePersist(w)
      PROVE  GuardInv'
  <2>1. /\ pc' \in [Commands -> Steps]
        /\ \A d \in Commands : pc'[d] = IF d = w THEN "commit" ELSE pc[d]
        /\ pc[w] = "persist" /\ guard' = guard
        /\ disk' = IF consent = "granted" THEN [rec |-> "revoked", id |-> grants] ELSE disk
        /\ UNCHANGED <<mem, grants>>
    BY <1>5, <1>sub DEF RevokePersist, GoTo, GuardInv, Steps
  <2>2. guard = w /\ Match
    BY <2>1, <1>sub DEF GuardInv, Holder, EnteredMatches, Inside
  <2>3. IF consent' = "granted" THEN disk'.rec = "revoked" /\ disk'.id = grants' ELSE Match'
    BY <2>1, <2>2 DEF Match, mem
  <2> QED
    BY <2>1, <2>2, <2>3, <1>sub
       DEF GuardInv, Holder, FreeMatches, EnteredMatches, GrantWritten, RevokeWritten,
           Inside, mem
<1>6. ASSUME NEW w \in Erasers, RevokeCommit(w)
      PROVE  GuardInv'
  <2>1. /\ pc' \in [Commands -> Steps]
        /\ \A d \in Commands : pc'[d] = IF d = w THEN "flag" ELSE pc[d]
        /\ pc[w] = "commit" /\ guard' = Nobody
        /\ consent' = "none"
        /\ erasureId' = IF consent = "granted" THEN grants ELSE erasureId
        /\ UNCHANGED <<disk, grants>>
    BY <1>6, <1>sub DEF RevokeCommit, GoTo, GuardInv, Steps
  <2>2. Match'
    BY <2>1, <1>sub DEF GuardInv, RevokeWritten, Match
  <2> QED
    BY <2>1, <2>2, <1>sub
       DEF GuardInv, Holder, FreeMatches, EnteredMatches, GrantWritten, RevokeWritten, Inside
<1>7. ASSUME NEW c \in Erasers \cup Granters,
             StartGrant(c) \/ GrantFlag(c) \/ StartWithdraw(c) \/ RevokeFlag(c)
      PROVE  GuardInv'
  BY <1>7, <1>sub, OutsideStep
     DEF StartGrant, GrantFlag, StartWithdraw, RevokeFlag, Steps, Inside
<1>8. ASSUME NEW w \in Wipers, EraseStep(w)
      PROVE  GuardInv'
  <2>1. PICK from, to : /\ GoTo(w, from, to)
                        /\ from \notin Inside /\ to \in Steps \ Inside /\ to # "lock"
                        /\ UNCHANGED <<mem, disk, guard, grants>>
    BY <1>8
       DEF EraseStep, OpenWindow, WriteMarker, Phase1, Phase1Fails, Phase2, Phase2Partial,
           Phase2Fails, Phase3, Phase3Partial, Phase3Skipped, Phase3Fails, Phase4, Phase4Fails, ClearMarker,
           ClearMarkerFails, CloseWindow, Wipes, PhaseFails, Steps, Inside
  <2> QED
    BY <2>1, <1>sub, OutsideStep
<1>9. CASE Relaunch
  <2>1. /\ pc' \in [Commands -> Steps]
        /\ \A c \in Commands : pc'[c] \notin Inside \cup {"lock"}
    BY <1>9 DEF Relaunch, Steps, Inside
  <2>2. Match'
    BY <1>9 DEF Relaunch, Match
  <2> QED
    BY <1>9, <2>1, <2>2, <1>sub
       DEF Relaunch, GuardInv, Holder, FreeMatches, EnteredMatches, GrantWritten,
           RevokeWritten, Inside
<1>10. CASE \/ \E f \in Funnels : WriterStart(f) \/ WriterLock(f) \/ WriterCommit(f)
            \/ MirrorGate \/ MirrorLock \/ MirrorRead \/ MirrorWrite \/ WriteEvidence
            \/ UNCHANGED vars
  BY <1>10, BesideStep
     DEF WriterStart, WriterLock, WriterCommit, MirrorGate, MirrorLock, MirrorRead,
         MirrorWrite, WriteEvidence, vars, mem
<1> QED
  BY <1>1, <1>2, <1>3, <1>4, <1>5, <1>6, <1>7, <1>8, <1>9, <1>10 DEF Next

\* Grants and withdrawals, however many and however they interleave, fail or are
\* cut short, never leave memory and consent.json in disagreement once the
\* writer guard is free: a relaunch finds the consent the process had.
THEOREM MemoryAndDiskAgree == Spec => []MemoryMatchesDisk
<1>1. GuardInv => MemoryMatchesDisk
  BY DEF GuardInv, FreeMatches, Match, MemoryMatchesDisk
<1> QED
  BY <1>1, GuardInvInit, GuardInvStep, PTL DEF Spec

-----------------------------------------------------------------------------
(* Types.  Only one bound needs an argument: the number of grants, which names *)
(* the erasures in memory and in the file, counts the grants that are still on *)
(* their way to the file.                                                      *)

OnTheWay == {h \in Granters : pc[h] \in {"lock", "persist"}}
GrantsCounted == /\ IsFiniteSet(OnTheWay)
                 /\ grants + Cardinality(OnTheWay) <= MaxGrants
TypeInv == TypeOK /\ GrantsCounted

\* A command moves and stays on its way, or stays off it.
LEMMA SameOnTheWay ==
    ASSUME TypeInv, NEW c \in Commands, NEW from, NEW to, GoTo(c, from, to),
           c \in Granters => (from \in {"lock", "persist"} <=> to \in {"lock", "persist"}),
           grants' = grants
    PROVE  GrantsCounted'
<1>1. /\ pc \in [Commands -> Steps] /\ pc[c] = from
      /\ \A d \in Commands : pc'[d] = IF d = c THEN to ELSE pc[d]
  BY DEF TypeInv, TypeOK, GoTo
<1>2. OnTheWay' = OnTheWay
  BY <1>1 DEF OnTheWay, Commands
<1> QED
  BY <1>2 DEF TypeInv, GrantsCounted

LEMMA GrantStepTypes ==
    ASSUME TypeInv, NEW g \in Granters,
           \/ StartGrant(g) \/ TakeGuard(g) \/ GrantPersist(g)
           \/ GrantCommit(g) \/ GrantFlag(g) \/ PersistFails(g)
    PROVE  TypeInv'
<1> USE DEF mem, signals, work
<1>1. /\ g \in Commands /\ TypeOK /\ GrantsCounted /\ pc \in [Commands -> Steps]
      /\ grants \in Nat /\ MaxGrants \in Nat /\ grants \in 0 .. MaxGrants
  BY ConsentAssumption DEF TypeInv, TypeOK, Commands
<1>2. IsFiniteSet(OnTheWay) /\ Cardinality(OnTheWay) \in Nat
  BY <1>1, FS_CardinalityType DEF GrantsCounted
<1>3. ASSUME NEW from, NEW to, GoTo(g, from, to)
      PROVE  \A h \in Granters : pc'[h] = IF h = g THEN to ELSE pc[h]
  BY <1>1, <1>3 DEF GoTo, Commands
<1>4. CASE StartGrant(g)
  <2>1. GoTo(g, "idle", "lock") /\ grants + Cardinality(OnTheWay) < MaxGrants
        /\ grants' = grants
    BY <1>4 DEF StartGrant, OnTheWay
  <2>2. OnTheWay' = OnTheWay \cup {g}
    BY <1>3, <2>1 DEF OnTheWay
  <2>3. GrantsCounted'
    BY <1>1, <1>2, <2>1, <2>2, FS_AddElement DEF GrantsCounted
  <2>4. TypeOK'
    BY <1>1, <1>4 DEF StartGrant, TypeOK, GoTo, Steps
  <2> QED
    BY <2>3, <2>4 DEF TypeInv
<1>5. CASE TakeGuard(g)
  <2>1. GrantsCounted'
    BY <1>1, <1>5, SameOnTheWay DEF TakeGuard
  <2>2. TypeOK'
    BY <1>1, <1>5 DEF TakeGuard, TypeOK, GoTo, Steps
  <2> QED
    BY <2>1, <2>2 DEF TypeInv
<1>6. CASE GrantPersist(g)
  <2>1. GoTo(g, "persist", "commit") /\ grants' = grants + 1
    BY <1>6 DEF GrantPersist
  <2>2. OnTheWay' = OnTheWay \ {g} /\ g \in OnTheWay
    <3>1. \A h \in Granters : pc'[h] = IF h = g THEN "commit" ELSE pc[h]
      BY <1>3, <2>1
    <3>2. pc[g] = "persist"
      BY <2>1 DEF GoTo
    <3>3. g \in OnTheWay
      BY <3>2 DEF OnTheWay
    <3>4. \A h : h \in OnTheWay' <=> h \in OnTheWay /\ h # g
      BY <3>1 DEF OnTheWay
    <3> QED
      BY <3>3, <3>4
  <2>3. IsFiniteSet(OnTheWay') /\ Cardinality(OnTheWay') = Cardinality(OnTheWay) - 1
    BY <1>2, <2>2, FS_RemoveElement
  <2>4. Cardinality(OnTheWay') \in Nat
    BY <2>3, FS_CardinalityType
  <2>5. GrantsCounted' /\ grants' \in 0 .. MaxGrants
    BY <1>1, <1>2, <2>1, <2>3, <2>4 DEF GrantsCounted
  <2>6. TypeOK'
    BY <1>1, <1>6, <2>5 DEF GrantPersist, TypeOK, GoTo, Steps
  <2> QED
    BY <2>5, <2>6 DEF TypeInv
<1>7. CASE GrantCommit(g)
  <2>1. GrantsCounted'
    BY <1>1, <1>7, SameOnTheWay DEF GrantCommit
  <2>2. TypeOK'
    BY <1>1, <1>7 DEF GrantCommit, TypeOK, GoTo, Steps
  <2> QED
    BY <2>1, <2>2 DEF TypeInv
<1>8. CASE GrantFlag(g)
  <2>1. GrantsCounted'
    BY <1>1, <1>8, SameOnTheWay DEF GrantFlag
  <2>2. TypeOK'
    BY <1>1, <1>8 DEF GrantFlag, TypeOK, GoTo, Steps
  <2> QED
    BY <2>1, <2>2 DEF TypeInv
<1>9. CASE PersistFails(g)
  <2>1. GoTo(g, "persist", "idle") /\ grants' = grants
    BY <1>9 DEF PersistFails
  <2>2. OnTheWay' = OnTheWay \ {g} /\ g \in OnTheWay
    <3>1. \A h \in Granters : pc'[h] = IF h = g THEN "idle" ELSE pc[h]
      BY <1>3, <2>1
    <3>2. pc[g] = "persist"
      BY <2>1 DEF GoTo
    <3>3. g \in OnTheWay
      BY <3>2 DEF OnTheWay
    <3>4. \A h : h \in OnTheWay' <=> h \in OnTheWay /\ h # g
      BY <3>1 DEF OnTheWay
    <3> QED
      BY <3>3, <3>4
  <2>3. IsFiniteSet(OnTheWay') /\ Cardinality(OnTheWay') = Cardinality(OnTheWay) - 1
    BY <1>2, <2>2, FS_RemoveElement
  <2>4. GrantsCounted'
    BY <1>1, <1>2, <2>1, <2>3 DEF GrantsCounted
  <2>5. TypeOK'
    BY <1>1, <1>9 DEF PersistFails, TypeOK, GoTo, Steps
  <2> QED
    BY <2>4, <2>5 DEF TypeInv
<1> QED
  BY <1>4, <1>5, <1>6, <1>7, <1>8, <1>9

LEMMA WithdrawStepTypes ==
    ASSUME TypeInv, NEW w \in Erasers,
           \/ StartWithdraw(w) \/ TakeGuard(w) \/ RevokePersist(w)
           \/ RevokeCommit(w) \/ RevokeFlag(w) \/ PersistFails(w)
    PROVE  TypeInv'
<1> USE DEF mem, signals, work
<1>1. w \in Commands /\ w \notin Granters /\ TypeOK
  BY ConsentAssumption DEF TypeInv, Commands
<1>2. GrantsCounted'
  BY <1>1, SameOnTheWay
  DEF StartWithdraw, TakeGuard, RevokePersist, RevokeCommit, RevokeFlag, PersistFails
<1>3. TypeOK'
  <2>1. CASE StartWithdraw(w) \/ TakeGuard(w) \/ PersistFails(w)
    BY <1>1, <2>1 DEF StartWithdraw, TakeGuard, PersistFails, TypeOK, GoTo, Steps
  <2>2. CASE RevokePersist(w)
    BY <1>1, <2>2 DEF RevokePersist, TypeOK, GoTo, Steps
  <2>3. CASE RevokeCommit(w)
    BY <1>1, <2>3 DEF RevokeCommit, TypeOK, GoTo, Steps
  <2>4. CASE RevokeFlag(w)
    BY <1>1, <2>4 DEF RevokeFlag, TypeOK, GoTo, Steps
  <2> QED
    BY <2>1, <2>2, <2>3, <2>4
<1> QED
  BY <1>2, <1>3 DEF TypeInv

LEMMA EraseStepTypes ==
    ASSUME TypeInv, NEW w \in Wipers, EraseStep(w)
    PROVE  TypeInv'
<1> USE DEF mem, signals, work
<1>1. w \in Commands /\ w \notin Granters /\ TypeOK
  BY ConsentAssumption DEF TypeInv, Commands, Wipers
<1>2. \E from, to \in Steps : GoTo(w, from, to) /\ grants' = grants
  BY DEF EraseStep, OpenWindow, WriteMarker, Phase1, Phase1Fails, Phase2, Phase2Partial,
         Phase2Fails, Phase3, Phase3Partial, Phase3Skipped, Phase3Fails, Phase4, Phase4Fails, ClearMarker,
         ClearMarkerFails, CloseWindow, Wipes, PhaseFails, Steps
<1>3. GrantsCounted' /\ pc' \in [Commands -> Steps]
  BY <1>1, <1>2, SameOnTheWay DEF TypeOK, GoTo
<1>4. /\ erasing' \in BOOLEAN /\ marker' \in BOOLEAN /\ up' \in BOOLEAN
      /\ holds' \in [Stores -> BOOLEAN] /\ swept' \subseteq Wipers
      /\ UNCHANGED <<mem, disk, guard, flag, work, grants>>
  <2>1. CASE \/ OpenWindow(w) \/ WriteMarker(w) \/ Phase1Fails(w) \/ Phase2Partial(w)
             \/ Phase3Partial(w) \/ Phase3Skipped(w) \/ ClearMarker(w) \/ ClearMarkerFails(w) \/ CloseWindow(w)
    BY <1>1, <2>1 DEF OpenWindow, WriteMarker, Phase1Fails, Phase2Partial, Phase3Partial,
                      Phase3Skipped, ClearMarker,
                      ClearMarkerFails, CloseWindow, TypeOK
  <2>2. CASE Phase1(w) \/ Phase2(w) \/ Phase3(w) \/ Phase4(w)
    <3>1. /\ \E s \in Stores : \E from, to : Wipes(w, s, from, to)
          /\ swept' \in {swept, swept \cup {w}}
      BY <2>2 DEF Phase1, Phase2, Phase3, Phase4, Stores, Funnels
    <3> QED
      BY <1>1, <3>1 DEF Wipes, TypeOK
  <2>3. CASE Phase2Fails(w) \/ Phase3Fails(w) \/ Phase4Fails(w)
    <3>1. \E from : PhaseFails(w, from)
      BY <2>3 DEF Phase2Fails, Phase3Fails, Phase4Fails
    <3> QED
      BY <1>1, <3>1 DEF PhaseFails, TypeOK
  <2> QED
    BY <2>1, <2>2, <2>3 DEF EraseStep
<1>5. TypeOK'
  BY <1>1, <1>3, <1>4 DEF TypeOK
<1> QED
  BY <1>3, <1>5 DEF TypeInv

LEMMA BesideStepTypes ==
    ASSUME TypeInv,
           \/ \E f \in Funnels : WriterStart(f) \/ WriterLock(f) \/ WriterCommit(f)
           \/ MirrorGate \/ MirrorLock \/ MirrorRead \/ MirrorWrite
           \/ WriteEvidence \/ UNCHANGED vars
    PROVE  TypeInv'
<1> USE DEF mem, signals, work
<1>1. UNCHANGED <<mem, disk, guard, signals, marker, pc, up, grants, swept>>
  BY DEF WriterStart, WriterLock, WriterCommit, MirrorGate, MirrorLock, MirrorRead,
         MirrorWrite, WriteEvidence, vars
<1>2. GrantsCounted'
  BY <1>1 DEF TypeInv, GrantsCounted, OnTheWay
<1>3. /\ holds' \in [Stores -> BOOLEAN]
      /\ writer' \in [Funnels -> {"idle", "inflight", "holding"}]
      /\ mirror' \in {"idle", "gated", "locked", "read"}
      /\ seen' \in BOOLEAN
  <2>1. TypeOK /\ Funnels \subseteq Stores /\ "evidence" \in Stores /\ "vault" \in Stores
        /\ "db" \in Stores
    BY DEF TypeInv, Stores, Funnels
  <2>2. ASSUME NEW f \in Funnels, WriterStart(f) \/ WriterLock(f) \/ WriterCommit(f)
        PROVE  <1>3!:
    BY <2>1, <2>2 DEF WriterStart, WriterLock, WriterCommit, TypeOK
  <2>3. CASE MirrorGate \/ MirrorLock \/ MirrorRead
    BY <2>1, <2>3 DEF MirrorGate, MirrorLock, MirrorRead, TypeOK
  <2>4. CASE MirrorWrite
    BY <2>1, <2>4 DEF MirrorWrite, TypeOK
  <2>5. CASE WriteEvidence \/ UNCHANGED vars
    BY <2>1, <2>5 DEF WriteEvidence, vars, TypeOK
  <2> QED
    BY <2>2, <2>3, <2>4, <2>5
<1>4. TypeOK'
  BY <1>1, <1>3 DEF TypeInv, TypeOK
<1> QED
  BY <1>2, <1>4 DEF TypeInv

LEMMA RelaunchTypes ==
    ASSUME TypeInv, Relaunch
    PROVE  TypeInv'
<1>1. TypeOK'
  <2>1. TypeOK /\ 0 \in 0 .. MaxGrants
    BY ConsentAssumption DEF TypeInv
  <2>2. /\ consent' \in {"granted", "none"} /\ pending' \in BOOLEAN
        /\ erasureId' \in 0 .. MaxGrants
        /\ guard' \in Commands \cup {Nobody}
        /\ flag' \in BOOLEAN /\ erasing' \in BOOLEAN
    BY <2>1 DEF TypeOK, Relaunch
  <2>3. /\ pc' \in [Commands -> Steps]
        /\ writer' \in [Funnels -> {"idle", "inflight", "holding"}]
        /\ mirror' \in {"idle", "gated", "locked", "read"}
    BY DEF Relaunch, Steps
  <2>4. seen' \in BOOLEAN /\ up' \in BOOLEAN /\ swept' = {}
    BY DEF Relaunch
  <2>5. UNCHANGED <<disk, marker, holds, grants>>
    BY DEF Relaunch
  <2> QED
    BY <2>1, <2>2, <2>3, <2>4, <2>5 DEF TypeOK
<1>2. OnTheWay' = {} /\ grants' = grants
  BY ConsentAssumption DEF Relaunch, OnTheWay, Commands
<1>3. grants \in 0 .. MaxGrants /\ MaxGrants \in Nat
  BY ConsentAssumption DEF TypeInv, TypeOK
<1>4. GrantsCounted'
  BY <1>2, <1>3, FS_EmptySet DEF GrantsCounted
<1> QED
  BY <1>1, <1>4 DEF TypeInv

\* Types of the consent model: in particular an erasure id, in memory or in
\* consent.json, always names a grant that was made, however many commands
\* overlap and wherever the process dies (grant_consent, revoke_consent).
THEOREM TypeCorrect == Spec => []TypeOK
<1>1. Init => TypeInv
  <2> SUFFICES ASSUME Init PROVE TypeInv
    OBVIOUS
  <2>1. TypeOK
    <3>1. 0 \in 0 .. MaxGrants
      BY ConsentAssumption
    <3>2. pc \in [Commands -> Steps]
      BY DEF Init, Steps
    <3>3. /\ holds \in [Stores -> BOOLEAN]
          /\ writer \in [Funnels -> {"idle", "inflight", "holding"}]
          /\ disk \in [rec : {"absent", "granted", "revoked"}, id : 0 .. MaxGrants]
      BY <3>1 DEF Init
    <3> QED
      BY <3>1, <3>2, <3>3 DEF Init, TypeOK
  <2>2. OnTheWay = {} /\ grants = 0
    BY DEF Init, OnTheWay, Commands
  <2>3. GrantsCounted
    BY <2>2, ConsentAssumption, FS_EmptySet DEF GrantsCounted
  <2> QED
    BY <2>1, <2>3 DEF TypeInv
<1>2. TypeInv /\ [Next]_vars => TypeInv'
  BY GrantStepTypes, WithdrawStepTypes, EraseStepTypes, BesideStepTypes, RelaunchTypes
  DEF Next
<1>3. TypeInv => TypeOK
  BY DEF TypeInv
<1> QED
  BY <1>1, <1>2, <1>3, PTL DEF Spec
=============================================================================

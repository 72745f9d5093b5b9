------------------------ MODULE ErasureWindowProofs ------------------------
(***************************************************************************)
(* Proof that what a local erasure wiped does not come back before its     *)
(* window closes, for any number of grants during it, when withdrawals do  *)
(* not overlap.  With two that do the code breaks it, since all erasures   *)
(* share one erasing signal.                                               *)
(***************************************************************************)
EXTENDS ConsentErasure, TLAPS

\* Withdrawals do not overlap.
OneEraser == \A v, w \in Erasers : v = w

InWindow == {"marker", "phase1", "phase2", "phase3", "phase4", "clear",
             "closeErr", "closeOk"}
PastDb     == {"phase2", "phase3", "phase4", "clear", "closeOk"}
PastFrames == {"phase3", "phase4", "clear", "closeOk"}
PastVault  == {"phase4", "clear", "closeOk"}

WindowTypes == /\ pc \in [Commands -> Steps]
               /\ holds \in [Stores -> BOOLEAN]
               /\ writer \in [Funnels -> {"idle", "inflight", "holding"}]
               /\ mirror \in {"idle", "gated", "locked", "read"}
               /\ swept \subseteq Wipers

\* The startup retry runs before commands are served.
BootAlone == /\ pc[Boot] \in InWindow \cup {"idle", "window"}
             /\ pc[Boot] # "idle" => ~up /\ \A c \in Commands \ {Boot} : pc[c] = "idle"

\* An erasure in its window has the signal up.
WindowOpen == \A w \in Wipers : pc[w] \in InWindow => erasing

\* No writer is inside a funnel behind the phase that took the funnel's lock:
\* the signal turns away every writer that comes for the lock after it.
FunnelsShut == \A w \in Wipers : /\ pc[w] \in PastDb => writer["db"] # "holding"
                                 /\ pc[w] \in PastFrames => writer["frames"] # "holding"

\* What the mirror cycle read before Phase-1 it wrote before Phase-3 got the root
\* lock; what it reads afterwards is empty.  An erasure counts as swept only
\* behind its Phase-3, so behind its Phase-1.
RowsGone   == \A w \in Wipers : pc[w] \in PastDb => holds["db"] = FALSE
SweptQuiet == \A w \in swept : /\ pc[w] \in PastVault \cup {"closeErr"}
                               /\ holds["db"] = FALSE /\ writer["db"] # "holding"
                               /\ seen = FALSE
SeenInRead == mirror # "read" => seen = FALSE

WindowInv == /\ WindowTypes /\ BootAlone /\ WindowOpen
             /\ FunnelsShut /\ RowsGone /\ SweptQuiet /\ SeenInRead

LEMMA CommandSets ==
    /\ Boot \in Commands /\ Boot \in Wipers /\ Wipers \subseteq Commands
    /\ Erasers \subseteq Wipers /\ Granters \subseteq Commands
    /\ \A w \in Wipers : w = Boot \/ w \in Erasers
    /\ Boot \notin Erasers \cup Granters /\ Erasers \cap Granters = {}
    /\ \A g \in Granters : g \notin Wipers
    /\ "db" \in Stores /\ "frames" \in Stores /\ "vault" \in Stores /\ "evidence" \in Stores
    /\ "db" \in Funnels /\ "frames" \in Funnels
BY ConsentAssumption DEF Commands, Wipers, Stores, Funnels

LEMMA WindowInvInit == Init => WindowInv
BY CommandSets
   DEF Init, WindowInv, WindowTypes, BootAlone, WindowOpen, FunnelsShut, RowsGone, SweptQuiet,
       SeenInRead, InWindow, PastDb, PastFrames, PastVault, Steps

\* A command that moves between steps outside the window disturbs nothing.
LEMMA BeforeWindow ==
    ASSUME WindowInv, NEW c \in Erasers \cup Granters, NEW from, NEW to \in Steps \ InWindow,
           GoTo(c, from, to), from \notin InWindow, from = "idle" => up,
           UNCHANGED <<erasing, holds, writer, mirror, seen, up, swept>>
    PROVE  WindowInv'
<1>1. /\ pc' \in [Commands -> Steps] /\ c \in Commands
      /\ \A d \in Commands : pc'[d] = IF d = c THEN to ELSE pc[d]
      /\ pc[c] = from
  BY CommandSets DEF GoTo, WindowInv, WindowTypes
<1>2. BootAlone'
  BY <1>1, CommandSets DEF WindowInv, BootAlone
<1>3. \A w \in Wipers : pc'[w] \in InWindow => pc[w] = pc'[w]
  BY <1>1, CommandSets
<1>4. SweptQuiet'
  BY <1>1, CommandSets DEF WindowInv, WindowTypes, SweptQuiet, PastVault, InWindow
<1> QED
  BY <1>1, <1>2, <1>3, <1>4
     DEF WindowInv, WindowTypes, WindowOpen, FunnelsShut, RowsGone, SweptQuiet, SeenInRead,
         InWindow, PastDb, PastFrames, PastVault

\* While one erasure is in its window, no other is.
LEMMA Alone ==
    ASSUME OneEraser, WindowInv, NEW w \in Wipers, pc[w] # "idle", NEW v \in Wipers, v # w
    PROVE  pc[v] = "idle"
BY CommandSets DEF OneEraser, WindowInv, BootAlone

LEMMA EraseStepKeeps ==
    ASSUME OneEraser, WindowInv, NEW w \in Wipers, EraseStep(w)
    PROVE  WindowInv'
<1>0. \A v \in Wipers : v # w => pc[v] = "idle"
  <2>1. pc[w] # "idle"
    BY DEF EraseStep, OpenWindow, WriteMarker, Phase1, Phase1Fails, Phase2, Phase2Partial,
           Phase2Fails, Phase3, Phase3Partial, Phase3Skipped, Phase3Fails, Phase4,
           Phase4Fails, ClearMarker,
           ClearMarkerFails, CloseWindow, Wipes, PhaseFails, GoTo
  <2> QED
    BY <2>1, Alone
<1>0a. /\ \A v \in swept : pc[v] \in PastVault \cup {"closeErr"}
       /\ \A from, to : GoTo(w, from, to) /\ w \in swept => from \in PastVault \cup {"closeErr"}
  BY DEF WindowInv, SweptQuiet, GoTo
<1>1. ASSUME NEW from, NEW to \in InWindow, GoTo(w, from, to), from \in InWindow \cup {"window"},
             from = "window" => erasing', from # "window" => erasing' = erasing,
             UNCHANGED <<writer, mirror, seen, up>>,
             holds' \in [Stores -> BOOLEAN],
             \A s \in Stores : holds'[s] = TRUE => holds[s] = TRUE,
             to \in PastDb => /\ from \in PastDb \/ writer["db"] # "holding"
                              /\ from \in PastDb \/ holds'["db"] = FALSE,
             to \in PastFrames => from \in PastFrames \/ writer["frames"] # "holding",
             swept' \subseteq swept \cup {w},
             w \in swept' => \/ (from \in PastVault /\ w \in swept)
                             \/ (from = "phase3" /\ to = "phase4" /\ mirror # "read"),
             from \in PastVault => to \in PastVault \cup {"closeErr"}
      PROVE  WindowInv'
  <2>1. /\ pc' \in [Commands -> Steps] /\ w \in Commands
        /\ \A d \in Commands : pc'[d] = IF d = w THEN to ELSE pc[d]
        /\ pc[w] = from
    BY <1>1, CommandSets DEF GoTo, WindowInv, WindowTypes, InWindow, Steps
  <2>2. BootAlone'
    BY <1>1, <2>1, CommandSets DEF WindowInv, BootAlone, InWindow
  <2>3. WindowOpen'
    BY <1>0, <1>1, <2>1, CommandSets DEF WindowInv, WindowOpen, InWindow
  <2>4. FunnelsShut'
    BY <1>0, <1>1, <2>1, CommandSets DEF WindowInv, FunnelsShut, PastDb, PastFrames
  <2>5. RowsGone'
    BY <1>0, <1>1, <2>1, CommandSets DEF WindowInv, RowsGone, PastDb
  <2>6. SweptQuiet'
    <3> SUFFICES ASSUME NEW v \in swept'
                 PROVE  /\ pc'[v] \in PastVault \cup {"closeErr"}
                        /\ holds'["db"] = FALSE /\ writer'["db"] # "holding"
                        /\ seen' = FALSE
      BY DEF SweptQuiet
    <3>1. v = w
      BY <1>0, <1>1, CommandSets DEF WindowInv, WindowTypes, SweptQuiet, PastVault
    <3>2. holds["db"] = FALSE /\ writer["db"] # "holding" /\ seen = FALSE
      BY <1>1, <2>1, <3>1, CommandSets
         DEF WindowInv, SweptQuiet, SeenInRead, RowsGone, FunnelsShut, PastDb
    <3>3. holds'["db"] = FALSE
      BY <1>1, <3>2, CommandSets DEF WindowInv, WindowTypes
    <3> QED
      BY <1>1, <2>1, <3>1, <3>2, <3>3, CommandSets DEF PastVault
  <2> QED
    BY <1>1, <2>1, <2>2, <2>3, <2>4, <2>5, <2>6, CommandSets DEF WindowInv, WindowTypes, SeenInRead
<1>2. CASE OpenWindow(w)
  BY <1>0a, <1>1, <1>2 DEF OpenWindow, work, WindowInv, WindowTypes, InWindow, PastDb, PastFrames, PastVault
<1>3. CASE WriteMarker(w) \/ Phase1Fails(w)
  BY <1>0a, <1>1, <1>3
     DEF WriteMarker, Phase1Fails, work, signals, WindowInv, WindowTypes, InWindow, PastDb,
         PastFrames, PastVault
<1>4. CASE Phase1(w)
  BY <1>0a, <1>1, <1>4, CommandSets
     DEF Phase1, Wipes, ConnFree, work, signals, WindowInv, WindowTypes, InWindow, PastDb,
         PastFrames, PastVault
<1>5. CASE Phase2(w)
  BY <1>0a, <1>1, <1>5, CommandSets
     DEF Phase2, Wipes, FramesFree, work, signals, WindowInv, WindowTypes, InWindow, PastDb,
         PastFrames, PastVault
<1>5a. CASE Phase2Partial(w)
  BY <1>0a, <1>1, <1>5a
     DEF Phase2Partial, FramesFree, work, signals, WindowInv, WindowTypes, InWindow, PastDb,
         PastFrames, PastVault
<1>6. CASE Phase3(w)
  BY <1>0a, <1>1, <1>6, CommandSets
     DEF Phase3, Wipes, RootFree, work, signals, WindowInv, WindowTypes, InWindow, PastDb,
         PastFrames, PastVault
<1>6a. CASE Phase3Partial(w)
  BY <1>0a, <1>1, <1>6a, CommandSets
     DEF Phase3Partial, RootFree, work, signals, WindowInv, WindowTypes, InWindow, PastDb,
         PastFrames, PastVault
<1>6b. CASE Phase3Skipped(w)
  BY <1>0a, <1>1, <1>6b, CommandSets
     DEF Phase3Skipped, work, signals, WindowInv, WindowTypes, InWindow, PastDb, PastFrames,
         PastVault
<1>7. CASE Phase4(w)
  BY <1>0a, <1>1, <1>7, CommandSets
     DEF Phase4, Wipes, work, signals, WindowInv, WindowTypes, InWindow, PastDb, PastFrames,
         PastVault
<1>8. CASE Phase2Fails(w) \/ Phase3Fails(w) \/ Phase4Fails(w)
  BY <1>0a, <1>1, <1>8
     DEF Phase2Fails, Phase3Fails, Phase4Fails, PhaseFails, work, signals, WindowInv,
         WindowTypes, InWindow, PastDb, PastFrames, PastVault
<1>9. CASE ClearMarker(w) \/ ClearMarkerFails(w)
  BY <1>0a, <1>1, <1>9
     DEF ClearMarker, ClearMarkerFails, work, signals, WindowInv, WindowTypes, InWindow,
         PastDb, PastFrames, PastVault
<1>10. CASE CloseWindow(w)
  <2>1. /\ pc' \in [Commands -> Steps] /\ w \in Commands
        /\ \A d \in Commands : pc'[d] = IF d = w THEN "idle" ELSE pc[d]
        /\ pc[w] \in InWindow
        /\ UNCHANGED <<holds, writer, mirror, seen>> /\ swept' = swept \ {w}
    BY <1>10, CommandSets DEF CloseWindow, GoTo, WindowInv, WindowTypes, Steps, InWindow, work
  <2>2. \A v \in Wipers : pc'[v] = "idle"
    BY <1>0, <2>1, CommandSets
  <2>3. BootAlone'
    BY <2>2, CommandSets DEF BootAlone
  <2>4. swept' = {}
    BY <1>0, <1>0a, <2>1 DEF WindowInv, WindowTypes, PastVault
  <2> QED
    BY <2>1, <2>2, <2>3, <2>4
       DEF WindowInv, WindowTypes, WindowOpen, FunnelsShut, RowsGone, SweptQuiet, SeenInRead,
           InWindow, PastDb, PastFrames, PastVault
<1> QED
  BY <1>2, <1>3, <1>4, <1>5, <1>5a, <1>6, <1>6a, <1>6b, <1>7, <1>8, <1>9, <1>10 DEF EraseStep

\* A writer gets its lock only while the signal is down, so behind no phase.
LEMMA WriterKeeps ==
    ASSUME WindowInv, NEW f \in Funnels, WriterStart(f) \/ WriterLock(f) \/ WriterCommit(f)
    PROVE  WindowInv'
<1>1. /\ writer' \in [Funnels -> {"idle", "inflight", "holding"}]
      /\ \A h \in Funnels : writer'[h] = "holding" => writer[h] = "holding" \/ ~erasing
      /\ UNCHANGED <<pc, erasing, mirror, seen, up, swept>>
  BY DEF WriterStart, WriterLock, WriterCommit, WindowInv, WindowTypes, signals
<1>2. /\ holds' \in [Stores -> BOOLEAN]
      /\ writer["db"] # "holding" => holds'["db"] = holds["db"]
  BY CommandSets DEF WriterStart, WriterLock, WriterCommit, WindowInv, WindowTypes, Funnels, Stores
<1>3. \A w \in Wipers : pc[w] \in PastDb \cup PastFrames \cup PastVault => erasing
  BY DEF WindowInv, WindowOpen, InWindow, PastDb, PastFrames, PastVault
<1>4. FunnelsShut'
  BY <1>1, <1>3, CommandSets DEF WindowInv, FunnelsShut
<1>5. RowsGone'
  BY <1>1, <1>2 DEF WindowInv, FunnelsShut, RowsGone
<1>6. SweptQuiet'
  <2>1. swept # {} => erasing
    BY DEF WindowInv, WindowTypes, SweptQuiet, WindowOpen, PastVault, InWindow
  <2> QED
    BY <1>1, <1>2, <2>1, CommandSets DEF WindowInv, SweptQuiet
<1> QED
  BY <1>1, <1>2, <1>4, <1>5, <1>6 DEF WindowInv, WindowTypes, BootAlone, WindowOpen, SeenInRead

\* Behind Phase-3 the mirror reads no rows, so it writes none.
LEMMA MirrorKeeps ==
    ASSUME WindowInv, MirrorGate \/ MirrorLock \/ MirrorRead \/ MirrorWrite \/ WriteEvidence
    PROVE  WindowInv'
<1>1. /\ UNCHANGED <<pc, writer, erasing, up, swept>>
      /\ mirror' \in {"idle", "gated", "locked", "read"}
  BY DEF MirrorGate, MirrorLock, MirrorRead, MirrorWrite, WriteEvidence, WindowInv, WindowTypes,
         signals, work
<1>2. /\ holds' \in [Stores -> BOOLEAN]
      /\ holds'["db"] = holds["db"]
  BY CommandSets
     DEF MirrorGate, MirrorLock, MirrorRead, MirrorWrite, WriteEvidence, WindowInv, WindowTypes, Stores
<1>3. /\ seen' = seen \/ seen' = holds["db"] \/ seen' = FALSE
      /\ SeenInRead'
  BY DEF MirrorGate, MirrorLock, MirrorRead, MirrorWrite, WriteEvidence, WindowInv, SeenInRead, work
<1>4. RowsGone' /\ SweptQuiet'
  BY <1>1, <1>2, <1>3 DEF WindowInv, RowsGone, SweptQuiet, PastDb, PastVault
<1> QED
  BY <1>1, <1>2, <1>3, <1>4 DEF WindowInv, WindowTypes, BootAlone, WindowOpen, FunnelsShut

\* A launch starts with no command in a window, the retry at its door at most.
LEMMA RelaunchKeeps == ASSUME WindowInv, Relaunch PROVE WindowInv'
<1>1. /\ pc' \in [Commands -> Steps]
      /\ \A c \in Commands : pc'[c] = IF c = Boot /\ marker THEN "window" ELSE "idle"
  BY DEF Relaunch, Steps
<1>2. BootAlone'
  BY <1>1, CommandSets DEF Relaunch, BootAlone
<1>3. \A w \in Wipers : pc'[w] \notin InWindow
  BY <1>1, CommandSets DEF InWindow
<1> QED
  BY <1>1, <1>2, <1>3
     DEF Relaunch, WindowInv, WindowTypes, WindowOpen, FunnelsShut, RowsGone, SweptQuiet,
         SeenInRead, InWindow, PastDb, PastFrames, PastVault

LEMMA WindowInvStep ==
    ASSUME OneEraser
    PROVE  WindowInv /\ [Next]_vars => WindowInv'
<1> SUFFICES ASSUME WindowInv, [Next]_vars
             PROVE  WindowInv'
  OBVIOUS
<1>1. ASSUME NEW c \in Erasers \cup Granters,
             \/ StartGrant(c) \/ StartWithdraw(c) \/ TakeGuard(c) \/ PersistFails(c)
             \/ GrantPersist(c) \/ GrantCommit(c) \/ GrantFlag(c)
             \/ RevokePersist(c) \/ RevokeCommit(c) \/ RevokeFlag(c)
      PROVE  WindowInv'
  <2>1. PICK from, to : /\ GoTo(c, from, to) /\ to \in Steps \ InWindow
                        /\ from \notin InWindow /\ (from = "idle" => up)
                        /\ UNCHANGED <<erasing, holds, writer, mirror, seen, up, swept>>
    BY <1>1
       DEF StartGrant, StartWithdraw, TakeGuard, PersistFails, GrantPersist, GrantCommit,
           GrantFlag, RevokePersist, RevokeCommit, RevokeFlag, Steps, InWindow, signals, work
  <2> QED
    BY <2>1, BeforeWindow
<1>2. ASSUME NEW w \in Wipers, EraseStep(w)
      PROVE  WindowInv'
  BY <1>2, EraseStepKeeps
<1>3. CASE UNCHANGED vars
  BY <1>3
     DEF vars, WindowInv, WindowTypes, BootAlone, WindowOpen, FunnelsShut, RowsGone, SweptQuiet,
         SeenInRead
<1> QED
  BY <1>1, <1>2, <1>3, WriterKeeps, MirrorKeeps, RelaunchKeeps DEF Next

\* With withdrawals that do not overlap, the rows stay erased from the commit of
\* Phase-1 until the window closes, and from the moment Phase-3 has the root lock
\* no mirror cycle carries text from before the wipe, for any number of grants,
\* writers and crashes (guarded_connection.rs:60-71,
\* memory_vault_writer.rs:587-594).
THEOREM ErasedStaysErased ==
    ASSUME OneEraser
    PROVE  Spec => []ErasedUntilWindowCloses
<1>1. WindowInv => ErasedUntilWindowCloses
  BY DEF WindowInv, RowsGone, SweptQuiet, ErasedUntilWindowCloses, PastDb
<1> QED
  BY <1>1, WindowInvInit, WindowInvStep, PTL DEF Spec

\* And no step of anyone puts data into a store that the erasure is done with,
\* frames included, nor into a vault whose root lock Phase-3 has held.
THEOREM ErasedGetsNothing ==
    ASSUME OneEraser
    PROVE  Spec => NothingReappears
<1>1. WindowInv /\ [Next]_vars =>
        [\A w \in Wipers, s \in {"db", "frames", "vault"} :
            pc[w] \in Past(s) /\ (s = "vault" => w \in swept) /\ holds'[s] => holds[s]]_vars
  <2> SUFFICES ASSUME WindowInv, Next,
                      NEW w \in Wipers, NEW s \in {"db", "frames", "vault"},
                      pc[w] \in Past(s), s = "vault" => w \in swept, holds'[s] # holds[s]
               PROVE  holds'[s] = FALSE
    BY CommandSets DEF WindowInv, WindowTypes
  <2>1. /\ s \in Stores
        /\ s = "db" => pc[w] \in PastDb
        /\ s = "frames" => pc[w] \in PastFrames
        /\ s = "vault" => pc[w] \in PastVault
    BY CommandSets DEF Past, PastDb, PastFrames, PastVault
  <2>2. ASSUME NEW v \in Wipers, EraseStep(v)
        PROVE  holds'[s] = FALSE
    <3>1. \/ UNCHANGED holds
          \/ \E t \in Stores : holds' = [holds EXCEPT ![t] = FALSE]
      BY <2>2, CommandSets
         DEF EraseStep, OpenWindow, WriteMarker, Phase1, Phase1Fails, Phase2, Phase2Partial,
             Phase2Fails, Phase3, Phase3Partial, Phase3Skipped, Phase3Fails, Phase4,
           Phase4Fails, ClearMarker,
             ClearMarkerFails, CloseWindow, Wipes, PhaseFails
    <3> QED
      BY <2>1, <3>1 DEF WindowInv, WindowTypes
  <2>3. ASSUME NEW f \in Funnels, WriterCommit(f)
        PROVE  FALSE
    <3>1. writer[f] = "holding" /\ s = f
      BY <2>1, <2>3 DEF WriterCommit, WindowInv, WindowTypes
    <3> QED
      BY <2>1, <3>1 DEF Funnels, WindowInv, FunnelsShut
  <2>4. ASSUME MirrorWrite \/ WriteEvidence
        PROVE  FALSE
    <3>1. s = "vault" /\ MirrorWrite
      BY <2>1, <2>4 DEF MirrorWrite, WriteEvidence, WindowInv, WindowTypes
    <3>2. seen = FALSE
      BY <3>1 DEF WindowInv, SweptQuiet
    <3> QED
      BY <2>1, <3>1, <3>2 DEF MirrorWrite, WindowInv, WindowTypes
  <2>5. CASE UNCHANGED holds
    BY <2>5
  <2> QED
    BY <2>2, <2>3, <2>4, <2>5
       DEF Next, StartGrant, StartWithdraw, TakeGuard, PersistFails, GrantPersist, GrantCommit,
           GrantFlag, RevokePersist, RevokeCommit, RevokeFlag, WriterStart, WriterLock,
           MirrorGate, MirrorLock, MirrorRead, Relaunch
<1> QED
  BY <1>1, WindowInvInit, WindowInvStep, PTL DEF Spec, NothingReappears
=============================================================================

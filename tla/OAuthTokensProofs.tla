-------------------------- MODULE OAuthTokensProofs --------------------------
(***************************************************************************)
(* Proofs about the credentials of a provider, for any set of connect      *)
(* flows: their types, that what a revoke deleted is stored again by no    *)
(* refresh and no commit, only by a write that had timed out, and that a   *)
(* refresh token whose replacement is stored or about to be is not sent    *)
(* unless such a write brought it back.                                    *)
(***************************************************************************)
EXTENDS OAuthTokens, TLAPS

Writers == Flows \cup Refreshers

\* Where a writer has a reply, and where a refresher has read the token it sends.
Holding == {"exchanged", "parked", "late"} \cup Writing
Sending == {"sending"} \cup Writing

\* A writer has what its next steps use.
Ready == /\ \A p \in Writers : pc[p] \in Holding => reply[p] \in Replies
         /\ \A r \in Refreshers : pc[r] \in Sending => sent[r] \in Tokens

\* The loop does not start a refresh once its failures have used up their limit.
CountInv == /\ failures = MaxFailures => backoff
            /\ pc[Loop] # "idle" => failures < MaxFailures

TypeInv == TypeOK /\ Ready /\ CountInv

LEMMA Names ==
    /\ Loop \in Refreshers /\ Getter \in Refreshers /\ Loop \notin Flows /\ User \notin Writers
    /\ Writers \subseteq Procs /\ Loop \in Procs /\ Getter \in Procs /\ User \in Procs
    /\ \A f \in Flows : f \notin Refreshers /\ f \in Procs /\ f \in Writers /\ f # Loop
    /\ \A r \in Refreshers : r \in Procs /\ r \in Writers
BY OAuthAssumption DEF Refreshers, Writers, Procs

LEMMA TokenParts ==
    ASSUME NEW t \in Tokens
    PROVE  /\ t # NoToken /\ t = <<t[1], t[2]>>
           /\ t[1] \in Grants /\ t[2] \in 0 .. MaxRotations
BY OAuthAssumption DEF Tokens

LEMMA TypeInit == Init => TypeInv
<1> SUFFICES ASSUME Init PROVE TypeInv
  OBVIOUS
<1>1. /\ access \in Grants \cup {NoToken} /\ refresh \in Tokens \cup {NoToken}
      /\ late \in [Workers -> Calls \cup {NoToken}]
  BY OAuthAssumption DEF Init, Tokens, Grants
<1>2. uiReset \in BOOLEAN /\ inProgress \in BOOLEAN /\ backoff \in BOOLEAN
  BY Zenon DEF Init
<1>3. pc \in [Procs -> Steps] /\ \A p \in Procs : pc[p] = "idle"
  BY DEF Init, Steps
<1>4. /\ sent \in [Refreshers -> Tokens \cup {NoToken}]
      /\ reply \in [Writers -> Replies \cup {NoToken}]
      /\ status \in [Flows -> Statuses]
  BY DEF Init, Writers, Statuses
<1>5. TypeOK
  BY <1>1, <1>2, <1>3, <1>4, OAuthAssumption DEF Init, TypeOK, Writers
<1>6. Ready /\ CountInv
  BY <1>3, Names, OAuthAssumption DEF Init, Ready, CountInv, Holding, Sending, Writing, Writers
<1> QED
  BY <1>5, <1>6 DEF TypeInv

\* The end of a refresher's call: it holds nothing any more.
LEMMA ReturnTypes ==
    ASSUME TypeInv, NEW r \in Refreshers, NEW res, Return(r, res),
           res \in {"fresh", "reauth", "transient"},
           pc[r] # "idle"
    PROVE  /\ pc' \in [Procs -> Steps] /\ lock' \in Procs \cup {Nobody}
           /\ sent' \in [Refreshers -> Tokens \cup {NoToken}]
           /\ reply' \in [Writers -> Replies \cup {NoToken}]
           /\ result' \in {"none", "fresh", "reauth", "transient"}
           /\ Ready' /\ (pc'[Loop] # "idle" => pc[Loop] # "idle")
<1> USE DEF TypeInv, TypeOK, Writers
<1>1. /\ pc' \in [Procs -> Steps] /\ pc'[r] \in {"idle", "result"}
      /\ \A p \in Procs \ {r} : pc'[p] = pc[p]
  BY Names DEF Return, Steps
<1>2. /\ sent' \in [Refreshers -> Tokens \cup {NoToken}]
      /\ \A q \in Refreshers \ {r} : sent'[q] = sent[q]
  BY DEF Return
<1>3. /\ reply' \in [Writers -> Replies \cup {NoToken}]
      /\ \A q \in Writers \ {r} : reply'[q] = reply[q]
  BY DEF Return
<1>4. Ready'
  BY <1>1, <1>2, <1>3, Names DEF Ready, Holding, Sending, Writing
<1> QED
  BY <1>1, <1>2, <1>3, <1>4, Names DEF Return
\* A step that moves one process, to a place where it holds nothing new.
LEMMA MoveReady ==
    ASSUME TypeInv, NEW p \in Procs, NEW to \in Steps,
           pc' = [pc EXCEPT ![p] = to], sent' = sent, reply' = reply,
           to \in Holding => pc[p] \in Holding, to \in Sending => pc[p] \in Sending
    PROVE  /\ pc' \in [Procs -> Steps] /\ Ready'
           /\ p # Loop => pc'[Loop] = pc[Loop]
           /\ p = Loop => pc'[Loop] = to
<1> USE DEF TypeInv, TypeOK
<1>1. /\ pc' \in [Procs -> Steps] /\ pc'[p] = to
      /\ \A q \in Procs \ {p} : pc'[q] = pc[q]
  OBVIOUS
<1>2. Ready'
  BY <1>1, Names DEF Ready
<1> QED
  BY <1>1, <1>2, Names

LEMMA LoopTypes ==
    ASSUME TypeInv, Tick \/ ReadAccess \/ GetToken \/ ApplyResult \/ Reset
    PROVE  TypeInv'
<1> USE DEF TypeInv, keys, stored, flowMap, history, coord
<1>1. CASE Tick
  <2>1. /\ pc' = [pc EXCEPT ![Loop] = "reading"] /\ sent' = sent /\ reply' = reply
        /\ backoff' = backoff /\ failures' = failures /\ ~backoff
    BY <1>1 DEF Tick, GoTo
  <2>2. pc' \in [Procs -> Steps] /\ Ready'
    BY <2>1, Names, MoveReady DEF Steps, Holding, Sending, Writing
  <2>3. CountInv'
    BY <2>1, OAuthAssumption DEF CountInv, TypeOK
  <2>4. inProgress' \in BOOLEAN
    BY <1>1, Zenon DEF Tick
  <2> QED
    BY <1>1, <2>2, <2>3, <2>4 DEF Tick, TypeOK
<1>2. CASE ReadAccess
  <2>1. \E to \in {"locking", "result"} : pc' = [pc EXCEPT ![Loop] = to]
    BY <1>2 DEF ReadAccess, Answer
  <2>2. pc' \in [Procs -> Steps] /\ Ready'
    BY <1>2, <2>1, Names, MoveReady DEF ReadAccess, Steps, Holding, Sending, Writing
  <2>3. CountInv'
    BY <1>2 DEF ReadAccess, CountInv
  <2> QED
    BY <1>2, <2>2, <2>3 DEF ReadAccess, Answer, TypeOK
<1>3. CASE GetToken
  <2>1. pc' = [pc EXCEPT ![Getter] = "locking"] /\ Getter # Loop
    BY <1>3, OAuthAssumption DEF GetToken, GoTo
  <2>2. pc' \in [Procs -> Steps] /\ Ready' /\ pc'[Loop] = pc[Loop]
    BY <1>3, <2>1, Names, MoveReady DEF GetToken, Steps, Holding, Sending, Writing
  <2>3. CountInv'
    BY <1>3, <2>2 DEF GetToken, CountInv
  <2> QED
    BY <1>3, <2>2, <2>3 DEF GetToken, TypeOK
<1>4. CASE ApplyResult
  <2>1. pc[Loop] = "result" /\ pc' = [pc EXCEPT ![Loop] = "idle"] /\ sent' = sent /\ reply' = reply
    BY <1>4 DEF ApplyResult, GoTo
  <2>2. pc' \in [Procs -> Steps] /\ Ready' /\ pc'[Loop] = "idle"
    BY <2>1, Names, MoveReady DEF Steps, Holding, Sending, Writing
  <2>3. failures' \in 0 .. MaxFailures /\ (failures' = MaxFailures => backoff')
    <3>1. failures \in Nat /\ failures < MaxFailures /\ MaxFailures \in Nat \ {0}
      BY <2>1, OAuthAssumption DEF CountInv, TypeOK
    <3>2. CASE result = "transient"
      <4>1. failures' = failures + 1 /\ (backoff' <=> failures + 1 >= MaxFailures)
        BY <1>4, <3>2 DEF ApplyResult, SetCoord, HandleTransientFailure
      <4> QED
        BY <3>1, <4>1
    <3>3. CASE result # "transient"
      <4>1. failures' = 0 \/ failures' = failures
        BY <1>4, <3>3 DEF ApplyResult, SetCoord
      <4> QED
        BY <3>1, <4>1
    <3> QED
      BY <3>2, <3>3
  <2>4. inProgress' \in BOOLEAN /\ backoff' \in BOOLEAN
    <3>1. (failures + 1 >= MaxFailures) \in BOOLEAN
      BY SMT
    <3>2. backoff' = (failures + 1 >= MaxFailures) => backoff' \in BOOLEAN
      BY <3>1, Zenon
    <3> QED
      BY <1>4, <3>2, Zenon DEF ApplyResult, SetCoord, HandleTransientFailure
  <2> QED
    BY <1>4, <2>2, <2>3, <2>4 DEF ApplyResult, TypeOK, CountInv
<1>5. CASE Reset
  <2>1. uiReset' \in BOOLEAN /\ inProgress' \in BOOLEAN /\ backoff' \in BOOLEAN
    BY <1>5, Zenon DEF Reset, SetCoord
  <2> QED
    BY <1>5, <2>1, OAuthAssumption
    DEF Reset, SetCoord, TypeOK, Ready, CountInv
<1> QED
  BY <1>1, <1>2, <1>3, <1>4, <1>5

LEMMA RefreshTypes ==
    ASSUME TypeInv, NEW r \in Refreshers, RefreshStep(r)
    PROVE  TypeInv'
<1> USE DEF TypeInv, keys, stored, flowMap, history, coord
<1>1. ASSUME NEW res \in {"fresh", "reauth", "transient"}, Return(r, res), pc[r] # "idle",
             UNCHANGED <<keys, flowMap, coord, revokes, history>>
      PROVE  TypeInv'
  BY <1>1, ReturnTypes DEF TypeOK, CountInv, Writers
<1>2. CASE TryLock(r)
  <2>1. UNCHANGED <<keys, flowMap, coord, revokes, history>> /\ pc[r] = "locking"
    BY <1>2 DEF TryLock
  <2>2. CASE \E res \in {"fresh", "reauth", "transient"} : Return(r, res)
    BY <1>1, <2>1, <2>2
  <2>3. CASE /\ pc' = [pc EXCEPT ![r] = "sending"]
             /\ sent' = [sent EXCEPT ![r] = refresh]
             /\ lock' = r /\ reply' = reply /\ result' = result /\ refresh # NoToken
    <3>1. refresh \in Tokens
      BY <2>3 DEF TypeOK
    <3>2. /\ pc' \in [Procs -> Steps] /\ pc'[r] = "sending"
          /\ \A q \in Procs \ {r} : pc'[q] = pc[q]
      BY <2>3, Names DEF TypeOK, Steps
    <3>3. /\ sent' \in [Refreshers -> Tokens \cup {NoToken}] /\ sent'[r] = refresh
          /\ \A q \in Refreshers \ {r} : sent'[q] = sent[q]
      BY <2>3, <3>1 DEF TypeOK
    <3>4. Ready'
      BY <2>3, <3>1, <3>2, <3>3, Names DEF Ready, Holding, Sending, Writing
    <3>5. CountInv'
      BY <2>1, <3>2, Names DEF CountInv
    <3> QED
      BY <2>1, <2>3, <3>2, <3>3, <3>4, <3>5, Names DEF TypeOK
  <2> QED
    BY <1>2, <2>2, <2>3 DEF TryLock, ReadRefresh
<1>3. CASE Refreshed(r)
  <2> PICK rt \in BOOLEAN :
          /\ rt => sent[r][2] < MaxRotations
          /\ reply' = [reply EXCEPT ![r] =
                         [tok |-> IF rt THEN Rotated(sent[r]) ELSE sent[r], rt |-> rt]]
          /\ replaced' = IF rt THEN replaced \cup {sent[r]} ELSE replaced
    BY <1>3 DEF Refreshed
  <2>1. sent[r] \in Tokens /\ pc[r] = "sending"
    BY <1>3 DEF Refreshed, Ready, Sending
  <2>2. rt => Rotated(sent[r]) \in Tokens
    BY <2>1, TokenParts, OAuthAssumption DEF Rotated, Tokens
  <2>3. [tok |-> IF rt THEN Rotated(sent[r]) ELSE sent[r], rt |-> rt] \in Replies
    BY <2>1, <2>2 DEF Replies
  <2>4. /\ pc' \in [Procs -> Steps] /\ pc'[r] = "store_access"
        /\ \A q \in Procs \ {r} : pc'[q] = pc[q]
    BY <1>3, Names DEF Refreshed, TypeOK, Steps, Writing
  <2>5. /\ reply' \in [Writers -> Replies \cup {NoToken}] /\ reply'[r] \in Replies
        /\ \A q \in Writers \ {r} : reply'[q] = reply[q]
    BY <2>3, Names DEF TypeOK, Writers
  <2>6. Ready'
    BY <1>3, <2>1, <2>4, <2>5, Names DEF Refreshed, Ready, Holding, Sending, Writing
  <2>7. CountInv'
    BY <1>3, <2>1, <2>4, Names DEF Refreshed, CountInv
  <2>8. replaced' \subseteq Tokens
    BY <2>1 DEF TypeOK
  <2> QED
    BY <1>3, <2>4, <2>5, <2>6, <2>7, <2>8 DEF Refreshed, TypeOK, Writers
<1>4. CASE Refused(r)
  BY <1>1, <1>4 DEF Refused
<1>5. CASE TimedOut(r)
  BY <1>1, <1>5 DEF TimedOut
<1> QED
  BY <1>2, <1>3, <1>4, <1>5 DEF RefreshStep
\* The end of a writer's call, of a refresher or of a flow's commit.
LEMMA EndsTypes ==
    ASSUME TypeInv, NEW p \in Writers, NEW to \in {"completed", "failed"},
           NEW res \in {"fresh", "transient"}, Ends(p, to, res), pc[p] # "idle"
    PROVE  /\ pc' \in [Procs -> Steps] /\ lock' \in Procs \cup {Nobody}
           /\ sent' \in [Refreshers -> Tokens \cup {NoToken}]
           /\ reply' \in [Writers -> Replies \cup {NoToken}]
           /\ result' \in {"none", "fresh", "reauth", "transient"}
           /\ Ready' /\ (pc'[Loop] # "idle" => pc[Loop] # "idle")
<1>1. CASE p \in Refreshers
  BY <1>1, ReturnTypes DEF Ends
<1>2. CASE p \notin Refreshers
  <2> USE DEF TypeInv, TypeOK, Writers
  <2>1. p \in Flows /\ p \in Procs /\ p # Loop
    BY <1>2, Names DEF Refreshers
  <2>2. /\ pc' \in [Procs -> Steps] /\ pc'[p] = to
        /\ \A q \in Procs \ {p} : pc'[q] = pc[q]
    BY <1>2, <2>1 DEF Ends, Steps
  <2>3. /\ reply' \in [Writers -> Replies \cup {NoToken}] /\ sent' = sent
        /\ \A q \in Writers \ {p} : reply'[q] = reply[q]
    BY <1>2 DEF Ends
  <2>4. Ready'
    BY <2>2, <2>3, Names DEF Ready, Holding, Sending, Writing
  <2> QED
    BY <1>2, <2>1, <2>2, <2>3, <2>4, Names DEF Ends
<1> QED
  BY <1>1, <1>2

\* A call that is detached is one.
LEMMA DetachTypes ==
    ASSUME TypeOK, NEW call \in Calls, UNCHANGED late \/ Detach(call)
    PROVE  late' \in [Workers -> Calls \cup {NoToken}]
BY DEF TypeOK, Detach

\* What a call writes is of the key's type.
LEMMA CallParts ==
    ASSUME NEW call \in Calls
    PROVE  /\ call # NoToken /\ call.key \in Keys
           /\ call.key = "access" => call.val \in Grants \cup {NoToken}
           /\ call.key = "refresh" => call.val \in Tokens \cup {NoToken}
BY OAuthAssumption DEF Calls, Keys

LEMMA LateTypes ==
    ASSUME TypeInv, NEW w \in Workers, LateCall(w)
    PROVE  TypeInv'
<1>1. late[w] \in Calls
  BY DEF LateCall, TypeInv, TypeOK
<1>2. late' \in [Workers -> Calls \cup {NoToken}]
  BY DEF LateCall, TypeInv, TypeOK
<1>3. /\ access' \in Grants \cup {NoToken} /\ refresh' \in Tokens \cup {NoToken}
      /\ swept' \subseteq Grants /\ replaced' \subseteq Tokens
  BY <1>1, CallParts DEF LateCall, TypeInv, TypeOK, stored, history
<1> QED
  BY <1>2, <1>3 DEF LateCall, TypeInv, TypeOK, Ready, CountInv, flowMap, coord

LEMMA StoreTypes ==
    ASSUME TypeInv, NEW p \in Writers, StoreStep(p)
    PROVE  TypeInv'
<1> USE DEF TypeInv, keys, stored, flowMap, history, coord
<1>1. CASE StoreFails(p)
  <2>1. Ends(p, "failed", "transient") /\ pc[p] # "idle"
    BY <1>1 DEF StoreFails, Writes
  <2>2. replaced' \subseteq Tokens
    BY <1>1 DEF StoreFails, TypeOK
  <2>3. late' \in [Workers -> Calls \cup {NoToken}]
    BY <1>1, DetachTypes DEF StoreFails
  <2> QED
    BY <1>1, <2>1, <2>2, <2>3, EndsTypes DEF StoreFails, TypeOK, CountInv, Writers
<1>2. CASE StoreAccess(p)
  <2>1. reply[p] \in Replies /\ pc[p] = "store_access"
    BY <1>2 DEF StoreAccess, GoTo, Ready, Holding, Writing
  <2>2. access' \in Grants
    BY <1>2, <2>1, TokenParts DEF StoreAccess, Replies
  <2>3. /\ pc' = [pc EXCEPT ![p] = "store_refresh"] /\ p \in Procs
        /\ sent' = sent /\ reply' = reply
    BY <1>2, Names DEF StoreAccess, GoTo
  <2>4. pc' \in [Procs -> Steps] /\ Ready' /\ (p # Loop => pc'[Loop] = pc[Loop])
    BY <2>1, <2>3, MoveReady DEF Steps, Holding, Sending, Writing
  <2>5. CountInv'
    BY <1>2, <2>1, <2>4 DEF StoreAccess, CountInv
  <2> QED
    BY <1>2, <2>2, <2>4, <2>5 DEF StoreAccess, TypeOK
<1>3. CASE StoreRefresh(p)
  <2>1. reply[p] \in Replies /\ pc[p] = "store_refresh"
    BY <1>3 DEF StoreRefresh, Ready, Holding, Writing
  <2>2. refresh' \in Tokens \cup {NoToken}
    BY <1>3, <2>1 DEF StoreRefresh, Replies, TypeOK
  <2>3. Ends(p, "completed", "fresh") \/ Ends(p, "failed", "transient")
    BY <1>3 DEF StoreRefresh
  <2> QED
    BY <1>3, <2>1, <2>2, <2>3, EndsTypes DEF StoreRefresh, TypeOK, CountInv, Writers
<1> QED
  BY <1>1, <1>2, <1>3 DEF StoreStep

LEMMA FlowTypes ==
    ASSUME TypeInv, NEW f \in Flows, FlowStep(f)
    PROVE  TypeInv'
<1> USE DEF TypeInv, keys, stored, flowMap, history, coord
<1>0. f \in Procs /\ f # Loop /\ f \in Writers /\ f \notin Refreshers
  BY Names
<1>1. CASE Callback(f)
  <2>1. \E to \in {"exchanging", "failed"} : pc' = [pc EXCEPT ![f] = to]
    BY <1>1 DEF Callback
  <2>2. pc' \in [Procs -> Steps] /\ Ready' /\ pc'[Loop] = pc[Loop]
    BY <1>0, <1>1, <2>1, MoveReady DEF Callback, Steps, Holding, Sending, Writing
  <2> QED
    BY <1>1, <2>2 DEF Callback, TypeOK, CountInv
<1>2. CASE ExchangeCode(f)
  <2>1. CASE pc' = [pc EXCEPT ![f] = "failed"] /\ reply' = reply
    <3>1. pc' \in [Procs -> Steps] /\ Ready' /\ pc'[Loop] = pc[Loop]
      BY <1>0, <1>2, <2>1, MoveReady DEF ExchangeCode, Steps, Holding, Sending, Writing
    <3> QED
      BY <1>2, <2>1, <3>1 DEF ExchangeCode, TypeOK, CountInv
  <2>2. CASE /\ pc' = [pc EXCEPT ![f] = "exchanged"]
             /\ \E rt \in BOOLEAN :
                   reply' = [reply EXCEPT ![f] = [tok |-> <<f, 0>>, rt |-> rt]]
    <3>1. <<f, 0>> \in Tokens
      BY OAuthAssumption DEF Tokens, Grants
    <3>2. /\ reply' \in [Writers -> Replies \cup {NoToken}] /\ reply'[f] \in Replies
          /\ \A q \in Writers \ {f} : reply'[q] = reply[q]
      BY <1>0, <2>2, <3>1 DEF TypeOK, Writers, Replies
    <3>3. /\ pc' \in [Procs -> Steps] /\ pc'[f] = "exchanged"
          /\ \A q \in Procs \ {f} : pc'[q] = pc[q]
      BY <1>0, <2>2 DEF TypeOK, Steps
    <3>4. Ready'
      BY <1>0, <1>2, <3>2, <3>3, Names DEF ExchangeCode, Ready, Holding, Sending, Writing
    <3> QED
      BY <1>0, <1>2, <3>2, <3>3, <3>4, Names DEF ExchangeCode, TypeOK, CountInv, Writers
  <2> QED
    BY <1>2, <2>1, <2>2 DEF ExchangeCode
<1>3. CASE CommitLock(f)
  <2>1. pc' \in [Procs -> Steps] /\ Ready' /\ pc'[Loop] = pc[Loop]
    <3>1. /\ pc' = [pc EXCEPT ![f] = "store_access"] /\ reply[f] \in Replies
          /\ sent' = sent /\ reply' = reply
      BY <1>0, <1>3 DEF CommitLock, Ready, Holding
    <3>2. /\ pc' \in [Procs -> Steps]
          /\ \A q \in Procs \ {f} : pc'[q] = pc[q]
      BY <1>0, <3>1 DEF TypeOK, Steps, Writing
    <3>3. Ready'
      BY <1>0, <3>1, <3>2, Names DEF Ready
    <3> QED
      BY <1>0, <3>2, <3>3, Names
  <2> QED
    BY <1>0, <1>3, <2>1 DEF CommitLock, TypeOK, CountInv
<1>4. CASE CommitParks(f)
  <2>1. pc' \in [Procs -> Steps] /\ Ready' /\ pc'[Loop] = pc[Loop]
    BY <1>0, <1>4, MoveReady DEF CommitParks, GoTo, Steps, Holding, Sending, Writing
  <2> QED
    BY <1>4, <2>1 DEF CommitParks, TypeOK, CountInv
<1>5. CASE AbortedRuns(f)
  <2>1. \E to \in {"ended", "late"} :
           /\ pc[f] = "exchanged" /\ pc' = [pc EXCEPT ![f] = to] /\ sent' = sent
           /\ \/ reply' = reply
              \/ to = "ended" /\ reply' = [reply EXCEPT ![f] = NoToken]
    BY <1>5 DEF AbortedRuns, GoTo
  <2>2. /\ reply' \in [Writers -> Replies \cup {NoToken}]
        /\ \A q \in Writers \ {f} : reply'[q] = reply[q]
    BY <2>1 DEF TypeOK, Writers
  <2>3. pc' \in [Procs -> Steps] /\ \A q \in Procs \ {f} : pc'[q] = pc[q]
    BY <1>0, <2>1 DEF TypeOK, Steps
  <2>4. pc'[f] \in Holding => reply'[f] \in Replies
    BY <1>0, <2>1 DEF TypeOK, Ready, Holding, Writing
  <2>5. Ready'
    BY <1>0, <2>1, <2>2, <2>3, <2>4, Names DEF Ready
  <2> QED
    BY <1>0, <1>5, <2>2, <2>3, <2>5, Names DEF AbortedRuns, TypeOK, CountInv, Writers
<1>6. CASE LateWrite(f)
  <2>1. /\ pc[f] = "late" /\ pc' = [pc EXCEPT ![f] = "ended"] /\ reply[f] \in Replies
        /\ reply' = [reply EXCEPT ![f] = NoToken] /\ sent' = sent
    BY <1>0, <1>6 DEF LateWrite, GoTo, Ready, Holding
  <2>2. access' \in Grants
    BY <1>6, <2>1, TokenParts DEF LateWrite, Replies
  <2>3. /\ reply' \in [Writers -> Replies \cup {NoToken}]
        /\ \A q \in Writers \ {f} : reply'[q] = reply[q]
    BY <2>1 DEF TypeOK, Writers
  <2>4. /\ pc' \in [Procs -> Steps] /\ pc'[f] = "ended"
        /\ \A q \in Procs \ {f} : pc'[q] = pc[q]
    BY <1>0, <2>1 DEF TypeOK, Steps
  <2>5. Ready'
    BY <1>0, <2>1, <2>3, <2>4, Names DEF Ready, Holding, Sending, Writing
  <2> QED
    BY <1>0, <1>6, <2>2, <2>3, <2>4, <2>5, Names DEF LateWrite, TypeOK, CountInv, Writers
<1>7. CASE FinishFlow(f)
  <2>1. pc' \in [Procs -> Steps] /\ Ready' /\ pc'[Loop] = pc[Loop]
    BY <1>0, <1>7, MoveReady DEF FinishFlow, Steps, Holding, Sending, Writing
  <2>2. status' \in [Flows -> Statuses]
    BY <1>7 DEF FinishFlow, TypeOK, Statuses
  <2> QED
    BY <1>7, <2>1, <2>2 DEF FinishFlow, TypeOK, CountInv
<1> QED
  BY <1>1, <1>2, <1>3, <1>4, <1>5, <1>6, <1>7 DEF FlowStep

LEMMA UiTypes ==
    ASSUME TypeInv, UiStep
    PROVE  TypeInv'
<1> USE DEF TypeInv, keys, stored, flowMap, history, coord
<1>1. ASSUME NEW f \in Flows, StartFlow(f) PROVE TypeInv'
  <2>1. pc' \in [Procs -> Steps] /\ Ready' /\ pc'[Loop] = pc[Loop]
    BY <1>1, Names, MoveReady DEF StartFlow, GoTo, Steps, Holding, Sending, Writing
  <2> QED
    BY <1>1, <2>1 DEF StartFlow, TypeOK, CountInv
<1>2. ASSUME NEW f \in Flows, InsertFlow(f) \/ CancelFlow(f) PROVE TypeInv'
  <2>1. status' \in [Flows -> Statuses]
    BY <1>2 DEF InsertFlow, CancelFlow, TypeOK, Statuses
  <2> QED
    BY <1>2, <2>1 DEF InsertFlow, CancelFlow, TypeOK, Ready, CountInv
<1>3. ASSUME NEW f \in Flows, FlowStatus(f) PROVE TypeInv'
  <2>1. status' \in [Flows -> Statuses]
    BY <1>3 DEF FlowStatus, TypeOK, Statuses
  <2>2. uiReset' \in BOOLEAN
    BY <1>3, Zenon DEF FlowStatus
  <2> QED
    BY <1>3, <2>1, <2>2 DEF FlowStatus, TypeOK, Ready, CountInv
<1>4. CASE Revoke
  <2>1. pc' \in [Procs -> Steps] /\ Ready' /\ pc'[Loop] = pc[Loop]
    BY <1>4, Names, MoveReady, OAuthAssumption
    DEF Revoke, GoTo, Steps, Holding, Sending, Writing, Refreshers
  <2>2. revokes' \in 0 .. MaxRevokes
    BY <1>4, OAuthAssumption DEF Revoke, TypeOK
  <2> QED
    BY <1>4, <2>1, <2>2 DEF Revoke, TypeOK, CountInv
<1> QED
  BY <1>1, <1>2, <1>3, <1>4, LoopTypes DEF UiStep

LEMMA RevokeTypes ==
    ASSUME TypeInv, RevokeLock \/ DeleteNamespace \/ AbortFlows
    PROVE  TypeInv'
<1> USE DEF TypeInv, keys, stored, flowMap, history, coord
<1>0. User \in Procs /\ User # Loop
  BY Names DEF Writers
<1>1. CASE RevokeLock
  <2>1. pc' \in [Procs -> Steps] /\ Ready' /\ pc'[Loop] = pc[Loop]
    BY <1>0, <1>1, MoveReady DEF RevokeLock, GoTo, Steps, Holding, Sending, Writing
  <2> QED
    BY <1>0, <1>1, <2>1 DEF RevokeLock, TypeOK, CountInv
<1>2. CASE DeleteNamespace
  <2>1. \E to \in {"idle", "aborting"} : pc' = [pc EXCEPT ![User] = to]
    BY <1>2 DEF DeleteNamespace
  <2>2. pc' \in [Procs -> Steps] /\ Ready' /\ pc'[Loop] = pc[Loop]
    BY <1>0, <1>2, <2>1, MoveReady DEF DeleteNamespace, Steps, Holding, Sending, Writing
  <2>3. Granted(refresh) \subseteq Grants
    BY TokenParts DEF Granted, TypeOK
  <2>4. /\ access' \in Grants \cup {NoToken} /\ refresh' \in Tokens \cup {NoToken}
        /\ swept' \subseteq Grants /\ lock' \in Procs \cup {Nobody}
    BY <1>2, <2>3 DEF DeleteNamespace, TypeOK
  <2>5. \A k \in Keys : [key |-> k, val |-> NoToken] \in Calls
    BY DEF Keys, Calls
  <2>6. late' \in [Workers -> Calls \cup {NoToken}]
    BY <1>2, <2>5, DetachTypes DEF DeleteNamespace, TypeOK
  <2> QED
    BY <1>2, <2>2, <2>4, <2>6 DEF DeleteNamespace, TypeOK, CountInv
<1>3. CASE AbortFlows
  <2>1. PICK found \in SUBSET Flows :
          /\ status' = [f \in Flows |-> IF f \in found THEN "none" ELSE status[f]]
          /\ aborted' = aborted \cup {f \in found : pc[f] = "exchanged"}
          /\ pc' = [p \in Procs |-> IF p = User THEN "idle"
                                    ELSE IF p \in found /\ Waiting(p) THEN "ended"
                                    ELSE pc[p]]
          /\ reply' = [p \in Flows \cup Refreshers |->
                         IF p \in found /\ Waiting(p) THEN NoToken ELSE reply[p]]
    BY <1>3 DEF AbortFlows
  <2>2. /\ pc' \in [Procs -> Steps] /\ pc'[Loop] = pc[Loop]
        /\ \A r \in Refreshers : pc'[r] = pc[r]
    BY <1>0, <2>1, Names DEF TypeOK, Steps, Writers
  <2>3. reply' \in [Writers -> Replies \cup {NoToken}]
    BY <2>1 DEF TypeOK, Writers
  <2>4. \A p \in Writers : pc'[p] \in Holding => pc'[p] = pc[p] /\ reply'[p] = reply[p]
    BY <2>1, Names DEF Holding, Writing, Writers
  <2>5. Ready'
    BY <1>3, <2>2, <2>4 DEF AbortFlows, Ready
  <2>6. status' \in [Flows -> Statuses]
    BY <2>1 DEF TypeOK, Statuses
  <2> QED
    BY <1>3, <2>1, <2>2, <2>3, <2>5, <2>6 DEF AbortFlows, TypeOK, CountInv, Writers
<1> QED
  BY <1>1, <1>2, <1>3

\* Every variable keeps its type, the failure counter its limit: the loop asks for
\* a new login after MAX_CONSECUTIVE_FAILURES and counts no further.
THEOREM TypeCorrect == Spec => []TypeOK
<1>1. Init => TypeInv
  BY TypeInit
<1>2. TypeInv /\ [Next]_vars => TypeInv'
  <2> SUFFICES ASSUME TypeInv, [Next]_vars PROVE TypeInv'
    OBVIOUS
  <2>1. CASE UNCHANGED vars
    BY <2>1
    DEF vars, TypeInv, TypeOK, Ready, CountInv, keys, stored, flowMap, coord, history
  <2>2. CASE Next
    BY <2>2, LoopTypes, RefreshTypes, StoreTypes, LateTypes, FlowTypes, UiTypes, RevokeTypes
    DEF Next, Writers
  <2> QED
    BY <2>1, <2>2
<1>3. TypeInv => TypeOK
  BY DEF TypeInv
<1> QED
  BY <1>1, <1>2, <1>3, PTL DEF Spec
-----------------------------------------------------------------------------
(* Safety: the lock, and what it protects.                                 *)

\* Who is past the lock holds it.
Critical == Writing \cup {"sending", "sweeping", "aborting"}
LockInv == \A p \in Procs : pc[p] \in Critical => lock = p

Of(t, g) == t # NoToken /\ t[1] = g

\* Where a flow has written nothing yet, and where it has not stored its refresh token.
Before == {"idle", "callback", "exchanging", "exchanged", "parked", "late"}
Early  == Before \cup Writing

\* What a refresher sends is of a grant that no revoke has swept since, is the newest of
\* that grant, and was stored by the flow that got it.
SentInv ==
    \A r \in Refreshers : pc[r] \in Sending =>
        /\ sent[r][1] \notin swept
        /\ \A t \in replaced : t[1] = sent[r][1] => t[2] <= sent[r][2]
        /\ pc[r] = "sending" \/ ~reply[r].rt => sent[r] \notin replaced
        /\ \A f \in Flows : pc[f] \in Early => sent[r][1] # f
        /\ pc[r] \in Writing =>
              reply[r].tok = IF reply[r].rt THEN Rotated(sent[r]) ELSE sent[r]

\* The grant of a flow is in no key before the flow writes it.
FlowInv ==
    \A f \in Flows :
        /\ pc[f] \in Before => access # f
        /\ pc[f] \in Early => /\ f \notin swept /\ ~Of(refresh, f)
                              /\ \A t \in replaced : t[1] # f
        /\ pc[f] \in Holding => reply[f].tok = <<f, 0>>

\* Nor does a detached worker write it.
LateOf(w, g) == late[w] # NoToken /\ \/ late[w].key = "access" /\ late[w].val = g
                                     \/ late[w].key = "refresh" /\ Of(late[w].val, g)
LateInv == \A w \in Workers, f \in Flows : pc[f] \in Early => ~LateOf(w, f)

\* The stored refresh token is newer than every replaced one of its grant, except for
\* the one whose replacement is being stored.
NewestInv ==
    \A t \in replaced :
        Of(refresh, t[1]) => \/ t[2] < refresh[2]
                             \/ \E r \in Refreshers : pc[r] \in Writing /\ t = sent[r]

CoreInv == LockInv /\ SentInv /\ FlowInv /\ LateInv /\ NewestInv /\ SweptNeverReturns

LEMMA CoreInit == Init => CoreInv
<1> SUFFICES ASSUME Init PROVE CoreInv
  OBVIOUS
<1>1. \A p \in Procs : pc[p] = "idle"
  BY DEF Init
<1>2. \A f \in Flows : access # f /\ ~Of(refresh, f)
  BY OAuthAssumption DEF Init, Of, Grants
<1>3. LockInv /\ SentInv
  BY <1>1, Names DEF LockInv, SentInv, Critical, Sending, Writing
<1>4. FlowInv
  BY <1>1, <1>2, Names DEF Init, FlowInv, Holding, Writing
<1>5. LateInv /\ NewestInv /\ SweptNeverReturns
  BY DEF Init, LateInv, LateOf, NewestInv, SweptNeverReturns
<1> QED
  BY <1>3, <1>4, <1>5 DEF CoreInv

\* Numbers of tokens.
LEMMA Rotations ==
    ASSUME TypeInv
    PROVE  /\ \A t \in replaced : t \in Tokens /\ t[2] \in Nat
           /\ refresh # NoToken => refresh \in Tokens /\ refresh[2] \in Nat
           /\ NoToken \notin replaced
BY TokenParts, OAuthAssumption DEF TypeInv, TypeOK

\* When nobody is storing a refresh, the stored token may be sent.
LEMMA StoredIsNewest ==
    ASSUME TypeInv, CoreInv, refresh # NoToken,
           \A r \in Refreshers : pc[r] \notin Writing
    PROVE  /\ refresh[1] \notin swept /\ refresh \notin replaced
           /\ \A t \in replaced : t[1] = refresh[1] => t[2] <= refresh[2]
           /\ \A f \in Flows : pc[f] \in Early => refresh[1] # f
<1>1. \A t \in replaced : t[1] = refresh[1] => t[2] < refresh[2]
  BY DEF CoreInv, NewestInv, Of
<1>2. refresh \notin replaced /\ \A t \in replaced : t[1] = refresh[1] => t[2] <= refresh[2]
  BY <1>1, Rotations
<1> QED
  BY <1>2 DEF CoreInv, SweptNeverReturns, Granted, FlowInv, Of

\* A step that writes no key keeps the invariant when the writers go on with what
\* they have, a flow stays before its first write, and a refresher that starts
\* sends the stored token.
LEMMA CoreFrame ==
    ASSUME TypeInv, CoreInv, LockInv',
           access' = access, refresh' = refresh, late' = late, swept' = swept,
           replaced' = replaced,
           \A r \in Refreshers : pc'[r] \in Sending =>
               \/ pc'[r] = pc[r] /\ sent'[r] = sent[r] /\ reply'[r] = reply[r]
               \/ /\ pc'[r] = "sending" /\ sent'[r] = refresh /\ refresh # NoToken
                  /\ \A q \in Refreshers : pc[q] \notin Writing,
           \A r \in Refreshers : pc[r] \in Writing => pc'[r] = pc[r] /\ sent'[r] = sent[r],
           \A f \in Flows :
               /\ pc'[f] \in Before => pc[f] \in Before
               /\ pc'[f] \in Early => pc[f] \in Early
               /\ pc'[f] \in Holding => pc[f] \in Holding /\ reply'[f] = reply[f]
    PROVE  CoreInv'
<1>1. SentInv'
  <2> SUFFICES ASSUME NEW r \in Refreshers, pc'[r] \in Sending
               PROVE  /\ sent'[r][1] \notin swept
                      /\ \A t \in replaced : t[1] = sent'[r][1] => t[2] <= sent'[r][2]
                      /\ pc'[r] = "sending" \/ ~reply'[r].rt => sent'[r] \notin replaced
                      /\ \A f \in Flows : pc'[f] \in Early => sent'[r][1] # f
                      /\ pc'[r] \in Writing =>
                            reply'[r].tok = IF reply'[r].rt THEN Rotated(sent[r])' ELSE sent'[r]
    BY DEF SentInv
  <2>1. CASE pc'[r] = pc[r] /\ sent'[r] = sent[r] /\ reply'[r] = reply[r]
    BY <2>1 DEF CoreInv, SentInv, Rotated
  <2>2. CASE /\ pc'[r] = "sending" /\ sent'[r] = refresh /\ refresh # NoToken
             /\ \A q \in Refreshers : pc[q] \notin Writing
    BY <2>2, StoredIsNewest DEF Writing
  <2> QED
    BY <2>1, <2>2
<1>2. FlowInv' /\ LateInv'
  BY DEF CoreInv, FlowInv, LateInv, LateOf, Of
<1>3. NewestInv'
  BY DEF CoreInv, NewestInv, Of
<1>4. SweptNeverReturns'
  BY DEF CoreInv, SweptNeverReturns, Granted
<1> QED
  BY <1>1, <1>2, <1>3, <1>4 DEF CoreInv

\* The lock changes hands only between a process that leaves and one that finds it free.
LEMMA LockFrame ==
    ASSUME TypeInv, LockInv, NEW p \in Procs,
           \A q \in Procs \ {p} : pc'[q] \in Critical => pc[q] \in Critical,
           \/ lock' = lock /\ (pc'[p] \in Critical => pc[p] \in Critical)
           \/ lock = Nobody /\ lock' = p
           \/ lock = p /\ lock' = Nobody /\ pc'[p] \notin Critical
    PROVE  LockInv'
BY OAuthAssumption DEF LockInv, TypeInv, TypeOK

\* One process moves.
LEMMA Moves ==
    ASSUME TypeInv, NEW p \in Procs, NEW to, pc' = [pc EXCEPT ![p] = to]
    PROVE  pc'[p] = to /\ \A q \in Procs \ {p} : pc'[q] = pc[q]
BY DEF TypeInv, TypeOK

\* A process that is not past the lock moves on and nothing else changes.
LEMMA QuietCore ==
    ASSUME TypeInv, CoreInv, NEW p \in Procs, NEW to,
           pc' = [pc EXCEPT ![p] = to], pc[p] \notin Critical, to \notin Critical,
           UNCHANGED <<access, refresh, late, lock, sent, reply, swept, replaced>>,
           p \in Flows => (to \in Before => pc[p] \in Before),
           p \in Flows => (to \in Holding => pc[p] \in Holding)
    PROVE  CoreInv'
<1>1. pc'[p] = to /\ \A q \in Procs \ {p} : pc'[q] = pc[q]
  BY Moves
<1>2. LockInv'
  BY <1>1, LockFrame DEF CoreInv
<1>3. \A r \in Refreshers :
         /\ pc'[r] \in Sending => pc'[r] = pc[r]
         /\ pc[r] \in Writing => pc'[r] = pc[r]
  BY <1>1, Names DEF Critical, Sending, Writing
<1>4. \A f \in Flows :
         /\ pc'[f] \in Before => pc[f] \in Before
         /\ pc'[f] \in Early => pc[f] \in Early
         /\ pc'[f] \in Holding => pc[f] \in Holding
  BY <1>1, Names DEF Critical, Early
<1> QED
  BY <1>2, <1>3, <1>4, CoreFrame

\* Nothing the invariant speaks of changes.
LEMMA StutterCore ==
    ASSUME CoreInv, UNCHANGED <<access, refresh, late, lock, pc, sent, reply, swept, replaced>>
    PROVE  CoreInv'
BY DEF CoreInv, LockInv, SentInv, FlowInv, LateInv, LateOf, NewestInv, SweptNeverReturns,
       Of, Granted, Rotated

LEMMA LoopCore ==
    ASSUME TypeInv, CoreInv, Tick \/ ReadAccess \/ GetToken \/ ApplyResult \/ Reset
    PROVE  CoreInv'
<1> USE Names DEF keys, stored, flowMap, history, coord
<1>1. CASE Tick
  BY <1>1, QuietCore DEF Tick, GoTo, Critical, Writing
<1>2. CASE ReadAccess
  <2>1. \E to \in {"locking", "result"} : pc' = [pc EXCEPT ![Loop] = to]
    BY <1>2 DEF ReadAccess, Answer
  <2> QED
    BY <1>2, <2>1, QuietCore DEF ReadAccess, Critical, Writing
<1>3. CASE GetToken
  BY <1>3, QuietCore, OAuthAssumption DEF GetToken, GoTo, Critical, Writing
<1>4. CASE ApplyResult
  BY <1>4, QuietCore DEF ApplyResult, GoTo, Critical, Writing
<1>5. CASE Reset
  BY <1>5, StutterCore DEF Reset
<1> QED
  BY <1>1, <1>2, <1>3, <1>4, <1>5

LEMMA UiCore ==
    ASSUME TypeInv, CoreInv, UiStep
    PROVE  CoreInv'
<1> USE Names DEF keys, stored, flowMap, history, coord
<1>1. ASSUME NEW f \in Flows, StartFlow(f) PROVE CoreInv'
  BY <1>1, QuietCore DEF StartFlow, GoTo, Critical, Writing, Before, Holding
<1>2. ASSUME NEW f \in Flows, InsertFlow(f) \/ CancelFlow(f) \/ FlowStatus(f) PROVE CoreInv'
  BY <1>2, StutterCore DEF InsertFlow, CancelFlow, FlowStatus
<1>3. CASE Revoke
  BY <1>3, QuietCore DEF Revoke, GoTo, Critical, Writing, Writers
<1> QED
  BY <1>1, <1>2, <1>3, LoopCore DEF UiStep

\* A refresher's call ends.
LEMMA ReturnFrame ==
    ASSUME TypeInv, CoreInv, NEW r \in Refreshers, NEW res, Return(r, res),
           pc[r] \in Sending \cup {"locking"}
    PROVE  /\ pc'[r] \in {"idle", "result"} /\ \A q \in Procs \ {r} : pc'[q] = pc[q]
           /\ \A q \in Refreshers \ {r} : sent'[q] = sent[q]
           /\ \A q \in Writers \ {r} : reply'[q] = reply[q]
           /\ LockInv'
<1>1. /\ pc'[r] \in {"idle", "result"} /\ \A q \in Procs \ {r} : pc'[q] = pc[q]
      /\ \A q \in Refreshers \ {r} : sent'[q] = sent[q]
      /\ \A q \in Writers \ {r} : reply'[q] = reply[q]
      /\ lock' = IF lock = r THEN Nobody ELSE lock
  BY Names DEF Return, TypeInv, TypeOK, Writers
<1>2. LockInv'
  BY <1>1, Names, LockFrame DEF CoreInv, Critical, Writing
<1> QED
  BY <1>1, <1>2

\* It leaves the keys as they are; a replacement it has not stored is not counted.
LEMMA ReturnCore ==
    ASSUME TypeInv, CoreInv, LateInv', NEW r \in Refreshers, NEW res, Return(r, res),
           pc[r] \in Sending \cup {"locking"},
           access' = access, refresh' = refresh, swept' = swept,
           replaced' = IF pc[r] \in Writing THEN replaced \ {sent[r]} ELSE replaced
    PROVE  CoreInv'
<1>1. r \in Procs /\ r \in Writers /\ r \notin Flows
  BY Names
<1>2. /\ pc'[r] \in {"idle", "result"} /\ \A q \in Procs \ {r} : pc'[q] = pc[q]
      /\ \A q \in Refreshers \ {r} : sent'[q] = sent[q]
      /\ \A q \in Writers \ {r} : reply'[q] = reply[q]
      /\ LockInv'
  BY ReturnFrame
<1>3. replaced' \subseteq replaced
  OBVIOUS
<1>4. SentInv'
  <2> SUFFICES ASSUME NEW q \in Refreshers, pc'[q] \in Sending
               PROVE  /\ sent'[q][1] \notin swept
                      /\ \A t \in replaced' : t[1] = sent'[q][1] => t[2] <= sent'[q][2]
                      /\ pc'[q] = "sending" \/ ~reply'[q].rt => sent'[q] \notin replaced'
                      /\ \A f \in Flows : pc'[f] \in Early => sent'[q][1] # f
                      /\ pc'[q] \in Writing =>
                            reply'[q].tok = IF reply'[q].rt THEN Rotated(sent[q])' ELSE sent'[q]
    BY DEF SentInv
  <2>1. q # r /\ pc'[q] = pc[q] /\ sent'[q] = sent[q] /\ reply'[q] = reply[q]
    BY <1>2, Names DEF Sending, Writing
  <2>2. \A f \in Flows : pc'[f] = pc[f]
    BY <1>1, <1>2, Names
  <2> QED
    BY <1>3, <2>1, <2>2 DEF CoreInv, SentInv, Rotated
<1>5. FlowInv'
  BY <1>1, <1>2, <1>3, Names DEF CoreInv, FlowInv, Of
<1>6. NewestInv'
  <2> SUFFICES ASSUME NEW t \in replaced', Of(refresh, t[1])
               PROVE  \/ t[2] < refresh[2]
                      \/ \E q \in Refreshers : pc'[q] \in Writing /\ t = sent'[q]
    BY DEF NewestInv, Of
  <2>1. \/ t[2] < refresh[2]
        \/ \E q \in Refreshers : pc[q] \in Writing /\ t = sent[q]
    BY <1>3 DEF CoreInv, NewestInv
  <2>2. ASSUME NEW q \in Refreshers, pc[q] \in Writing, t = sent[q]
        PROVE  pc'[q] \in Writing /\ t = sent'[q]
    <3>1. q # r
      BY <2>2
    <3> QED
      BY <1>2, <2>2, <3>1, Names
  <2> QED
    BY <2>1, <2>2
<1>7. SweptNeverReturns'
  BY DEF CoreInv, SweptNeverReturns, Granted
<1> QED
  BY <1>2, <1>4, <1>5, <1>6, <1>7 DEF CoreInv

\* The detached calls stay, and the flows where they are.
LEMMA LateFrame ==
    ASSUME CoreInv, late' = late, \A f \in Flows : pc'[f] \in Early => pc[f] \in Early
    PROVE  LateInv'
BY DEF CoreInv, LateInv, LateOf, Of

LEMMA RefreshCore ==
    ASSUME TypeInv, CoreInv, NEW r \in Refreshers, RefreshStep(r)
    PROVE  CoreInv'
<1> USE Names DEF keys, stored, flowMap, history, coord
<1>0. ASSUME NEW res, Return(r, res), pc[r] \in {"locking", "sending"},
             UNCHANGED <<access, refresh, late, swept, replaced>>
      PROVE  CoreInv'
  <2>1. \A f \in Flows : pc'[f] = pc[f]
    BY <1>0, ReturnFrame DEF Sending
  <2>2. LateInv'
    BY <1>0, <2>1, LateFrame
  <2> QED
    BY <1>0, <2>2, ReturnCore DEF Sending, Writing
<1>1. CASE TryLock(r)
  <2>1. /\ pc[r] = "locking" /\ UNCHANGED <<access, refresh, late, swept, replaced>>
    BY <1>1 DEF TryLock
  <2>2. CASE \E res \in {"fresh", "reauth", "transient"} : Return(r, res)
    BY <1>0, <2>1, <2>2
  <2>3. CASE /\ pc' = [pc EXCEPT ![r] = "sending"]
             /\ sent' = [sent EXCEPT ![r] = refresh]
             /\ lock = Nobody /\ lock' = r /\ reply' = reply /\ refresh # NoToken
    <3>1. pc'[r] = "sending" /\ \A q \in Procs \ {r} : pc'[q] = pc[q]
      BY <2>3, Moves
    <3>2. sent'[r] = refresh /\ \A q \in Refreshers \ {r} : sent'[q] = sent[q]
      BY <2>3 DEF TypeInv, TypeOK
    <3>3. LockInv'
      BY <2>3, <3>1, LockFrame DEF CoreInv
    <3>4. \A q \in Refreshers : pc[q] \notin Writing
      BY <2>3, OAuthAssumption DEF CoreInv, LockInv, Critical
    <3>5. \A f \in Flows : pc'[f] = pc[f]
      BY <3>1
    <3> QED
      BY <2>1, <2>3, <3>1, <3>2, <3>3, <3>4, <3>5, CoreFrame
  <2> QED
    BY <1>1, <2>2, <2>3 DEF TryLock, ReadRefresh
<1>2. CASE Refreshed(r)
  <2> PICK rt \in BOOLEAN :
          /\ reply' = [reply EXCEPT ![r] =
                         [tok |-> IF rt THEN Rotated(sent[r]) ELSE sent[r], rt |-> rt]]
          /\ replaced' = IF rt THEN replaced \cup {sent[r]} ELSE replaced
    BY <1>2 DEF Refreshed
  <2>1. /\ pc[r] = "sending" /\ pc' = [pc EXCEPT ![r] = "store_access"]
        /\ UNCHANGED <<access, refresh, late, lock, sent, swept>>
    BY <1>2 DEF Refreshed
  <2>2. pc'[r] = "store_access" /\ \A q \in Procs \ {r} : pc'[q] = pc[q]
    BY <2>1, Moves
  <2>3. /\ reply'[r] = [tok |-> IF rt THEN Rotated(sent[r]) ELSE sent[r], rt |-> rt]
        /\ \A q \in Writers \ {r} : reply'[q] = reply[q]
    BY DEF TypeInv, TypeOK, Writers
  <2>4. /\ sent[r][1] \notin swept /\ sent[r] \in Tokens /\ sent[r] \notin replaced
        /\ sent[r][2] \in Nat
        /\ \A t \in replaced : t[1] = sent[r][1] => t[2] <= sent[r][2]
        /\ \A f \in Flows : pc[f] \in Early => sent[r][1] # f
    BY <2>1, TokenParts DEF CoreInv, SentInv, TypeInv, Ready, Sending
  <2>5. LockInv'
    BY <2>1, <2>2, LockFrame DEF CoreInv, Critical, Writing
  <2>6. \A q \in Refreshers : pc'[q] \in Sending => q = r
    BY <2>1, <2>2 DEF CoreInv, LockInv, Critical, Sending
  <2>7. \A f \in Flows : pc'[f] = pc[f] /\ reply'[f] = reply[f]
    BY <2>2, <2>3
  <2>8. SentInv'
    <3> SUFFICES /\ sent[r][1] \notin swept
                 /\ \A t \in replaced' : t[1] = sent[r][1] => t[2] <= sent[r][2]
                 /\ ~rt => sent[r] \notin replaced'
                 /\ \A f \in Flows : pc'[f] \in Early => sent[r][1] # f
                 /\ reply'[r].tok = IF reply'[r].rt THEN Rotated(sent[r]) ELSE sent[r]
      BY <2>1, <2>2, <2>3, <2>6 DEF SentInv, Rotated, Writing
    <3>1. \A t \in replaced' : t[1] = sent[r][1] => t[2] <= sent[r][2]
      BY <2>4
    <3> QED
      BY <2>3, <2>4, <2>7, <3>1
  <2>9. FlowInv'
    <3> SUFFICES ASSUME NEW f \in Flows
                 PROVE  /\ pc[f] \in Before => access # f
                        /\ pc[f] \in Early => /\ f \notin swept /\ ~Of(refresh, f)
                                              /\ \A t \in replaced' : t[1] # f
                        /\ pc[f] \in Holding => reply[f].tok = <<f, 0>>
      BY <2>1, <2>7 DEF FlowInv, Of
    <3> QED
      BY <2>4 DEF CoreInv, FlowInv
  <2>10. NewestInv'
    <3> SUFFICES ASSUME NEW t \in replaced', Of(refresh, t[1])
                 PROVE  t[2] < refresh[2] \/ t = sent[r]
      BY <2>1, <2>2 DEF NewestInv, Of, Writing
    <3>1. \A q \in Refreshers : pc[q] \notin Writing
      BY <2>1 DEF CoreInv, LockInv, Critical, Writing
    <3> QED
      BY <3>1 DEF CoreInv, NewestInv
  <2>11. LateInv'
    BY <2>1, <2>7, LateFrame
  <2>12. SweptNeverReturns'
    BY <2>1 DEF CoreInv, SweptNeverReturns, Granted
  <2> QED
    BY <2>5, <2>8, <2>9, <2>10, <2>11, <2>12 DEF CoreInv
<1>3. CASE Refused(r) \/ TimedOut(r)
  <2>1. /\ pc[r] = "sending" /\ UNCHANGED <<access, refresh, late, swept, replaced>>
        /\ \E res \in {"reauth", "transient"} : Return(r, res)
    BY <1>3 DEF Refused, TimedOut
  <2> QED
    BY <1>0, <2>1
<1> QED
  BY <1>1, <1>2, <1>3 DEF RefreshStep

\* A detached worker writes or deletes a key behind everyone's back.
LEMMA LateCore ==
    ASSUME TypeInv, CoreInv, NEW w \in Workers, LateCall(w)
    PROVE  CoreInv'
<1>1. late[w] \in Calls /\ UNCHANGED <<lock, pc, sent, reply>>
  BY DEF LateCall, TypeInv, TypeOK
<1>2. \A v \in Workers : late'[v] = late[v] \/ late'[v] = NoToken
  BY DEF LateCall, TypeInv, TypeOK
<1>3. /\ swept' \subseteq swept /\ replaced' \subseteq replaced
      /\ access' \notin swept' /\ Granted(refresh') \cap swept' = {}
      /\ access' = access \/ (late[w].key = "access" /\ access' = late[w].val)
      /\ \/ refresh' = refresh
         \/ late[w].key = "refresh" /\ refresh' = late[w].val
  BY DEF LateCall, CoreInv, SweptNeverReturns, stored, history
<1>4. LockInv' /\ LateInv'
  BY <1>1, <1>2 DEF CoreInv, LockInv, LateInv, LateOf, Of
<1>5. SentInv'
  BY <1>1, <1>3 DEF CoreInv, SentInv, Rotated
<1>6. FlowInv'
  <2> SUFFICES ASSUME NEW f \in Flows
               PROVE  /\ pc[f] \in Before => access' # f
                      /\ pc[f] \in Early => /\ f \notin swept' /\ ~Of(refresh', f)
                                            /\ \A t \in replaced' : t[1] # f
                      /\ pc[f] \in Holding => reply[f].tok = <<f, 0>>
    BY <1>1 DEF FlowInv, Of
  <2>1. pc[f] \in Early => ~LateOf(w, f)
    BY DEF CoreInv, LateInv
  <2> QED
    BY <1>1, <1>3, <2>1, CallParts DEF CoreInv, FlowInv, LateOf, Of, Early
<1>7. NewestInv'
  <2> SUFFICES ASSUME NEW t \in replaced', Of(refresh', t[1])
               PROVE  \/ t[2] < refresh'[2]
                      \/ \E r \in Refreshers : pc[r] \in Writing /\ t = sent[r]
    BY <1>1 DEF NewestInv, Of
  <2>1. CASE refresh' = refresh
    BY <1>3, <2>1 DEF CoreInv, NewestInv
  <2>2. CASE refresh' # refresh
    <3>1. replaced' = {u \in replaced : u[1] \in Granted(late[w].val) => u[2] < late[w].val[2]}
          /\ refresh' = late[w].val
      BY <2>2 DEF LateCall, stored
    <3> QED
      BY <3>1 DEF Of, Granted
  <2> QED
    BY <2>1, <2>2
<1>8. SweptNeverReturns'
  BY <1>3 DEF SweptNeverReturns, Granted
<1> QED
  BY <1>4, <1>5, <1>6, <1>7, <1>8 DEF CoreInv

\* A writer that failed may leave its write to a worker: its grant is that of a flow
\* that has stored its tokens, or of the flow that has just failed.
LEMMA LateFails ==
    ASSUME TypeInv, CoreInv, NEW p \in Writers, NEW call \in Calls, Writes(p, call),
           UNCHANGED late \/ Detach(call),
           p \in Flows => pc'[p] \notin Early,
           \A f \in Flows \ {p} : pc'[f] = pc[f]
    PROVE  LateInv'
<1>1. reply[p].tok \in Tokens /\ pc[p] \in Writing
  BY DEF Writes, TypeInv, Ready, Holding, Writing, Replies
<1>2. \A f \in Flows : pc'[f] \in Early => reply[p].tok[1] # f
  <2>1. CASE p \in Refreshers
    <3>1. /\ reply[p].tok = IF reply[p].rt THEN Rotated(sent[p]) ELSE sent[p]
          /\ \A f \in Flows : pc[f] \in Early => sent[p][1] # f
      BY <1>1, <2>1 DEF CoreInv, SentInv, Sending
    <3>2. reply[p].tok[1] = sent[p][1]
      BY <3>1 DEF Rotated
    <3> QED
      BY <2>1, <3>1, <3>2, Names
  <2>2. CASE p \in Flows
    BY <1>1, <2>2 DEF CoreInv, FlowInv, Holding
  <2> QED
    BY <2>1, <2>2 DEF Writers
<1>3. \A f \in Flows : pc'[f] \in Early =>
         ~(call.key = "access" /\ call.val = f) /\ ~(call.key = "refresh" /\ Of(call.val, f))
  BY <1>2 DEF Writes, Of
<1>4. \A v \in Workers : late'[v] = late[v] \/ late'[v] = call
  BY DEF Detach, TypeInv, TypeOK
<1>5. \A f \in Flows : pc'[f] \in Early => pc[f] \in Early
  OBVIOUS
<1> QED
  BY <1>3, <1>4, <1>5 DEF CoreInv, LateInv, LateOf, Of

\* A flow's commit ends.
LEMMA CommitFrame ==
    ASSUME TypeInv, CoreInv, NEW f \in Flows, NEW to \in {"completed", "failed"}, NEW res,
           Ends(f, to, res), pc[f] \in Writing
    PROVE  /\ pc'[f] = to /\ \A q \in Procs \ {f} : pc'[q] = pc[q]
           /\ sent' = sent /\ \A q \in Writers \ {f} : reply'[q] = reply[q]
           /\ LockInv' /\ \A r \in Refreshers : pc[r] \notin Sending
<1>1. f \in Procs /\ f \notin Refreshers /\ f \in Writers
  BY Names
<1>2. /\ pc' = [pc EXCEPT ![f] = to] /\ lock' = Nobody /\ sent' = sent
      /\ reply' = [reply EXCEPT ![f] = NoToken]
  BY <1>1 DEF Ends
<1>3. pc'[f] = to /\ \A q \in Procs \ {f} : pc'[q] = pc[q]
  BY <1>1, <1>2, Moves
<1>4. \A q \in Writers \ {f} : reply'[q] = reply[q]
  BY <1>2 DEF TypeInv, TypeOK, Writers
<1>5. lock = f
  BY <1>1 DEF CoreInv, LockInv, Critical
<1>6. LockInv'
  BY <1>1, <1>2, <1>3, <1>5, LockFrame DEF CoreInv, Critical, Writing
<1>7. \A r \in Refreshers : pc[r] \notin Sending
  BY <1>1, <1>5, Names DEF CoreInv, LockInv, Critical, Sending
<1> QED
  BY <1>2, <1>3, <1>4, <1>6, <1>7

\* The failed commit of a flow leaves the keys as they are.
LEMMA CommitFails ==
    ASSUME TypeInv, CoreInv, LateInv', NEW f \in Flows, NEW res,
           Ends(f, "failed", res), pc[f] \in Writing,
           access' = access, refresh' = refresh, swept' = swept, replaced' = replaced
    PROVE  CoreInv'
<1>1. /\ pc'[f] = "failed" /\ \A q \in Procs \ {f} : pc'[q] = pc[q]
      /\ \A q \in Writers \ {f} : reply'[q] = reply[q]
      /\ LockInv' /\ \A r \in Refreshers : pc'[r] \notin Sending
  BY CommitFrame, Names
<1>2. SentInv'
  BY <1>1 DEF SentInv
<1>3. FlowInv'
  BY <1>1, Names DEF CoreInv, FlowInv, Of, Early, Before, Holding, Writing
<1>4. NewestInv'
  <2>1. \A r \in Refreshers : pc[r] \notin Writing
    BY <1>1, Names DEF Sending
  <2> QED
    BY <2>1 DEF CoreInv, NewestInv, Of
<1>5. SweptNeverReturns'
  BY DEF CoreInv, SweptNeverReturns, Granted
<1> QED
  BY <1>1, <1>2, <1>3, <1>4, <1>5 DEF CoreInv

LEMMA StoreCore ==
    ASSUME TypeInv, CoreInv, NEW p \in Writers, StoreStep(p)
    PROVE  CoreInv'
<1> USE DEF keys, stored, flowMap, history, coord
<1>0. p \in Procs /\ (p \notin Refreshers => p \in Flows) /\ (p \in Flows => p \notin Refreshers)
  BY Names DEF Writers
<1>1. CASE StoreFails(p)
  <2>1. PICK call \in Calls : Writes(p, call) /\ (UNCHANGED late \/ Detach(call))
    BY <1>1 DEF StoreFails
  <2>2. pc[p] \in Writing /\ UNCHANGED <<access, refresh, swept>>
    BY <1>1, <2>1 DEF StoreFails, Writes, Writing
  <2>3. CASE p \in Refreshers
    <3>1. Return(p, "transient") /\ replaced' = replaced \ {sent[p]}
      BY <1>1, <2>3 DEF StoreFails, Ends
    <3>2. \A f \in Flows : pc'[f] = pc[f]
      BY <2>2, <2>3, <3>1, Names, ReturnFrame DEF Sending
    <3>3. LateInv'
      BY <1>0, <2>1, <2>3, <3>2, LateFails
    <3> QED
      BY <2>2, <2>3, <3>1, <3>3, ReturnCore DEF Sending
  <2>4. CASE p \notin Refreshers
    <3>1. Ends(p, "failed", "transient") /\ replaced' = replaced
      BY <1>1, <2>4 DEF StoreFails
    <3>2. pc'[p] = "failed" /\ \A f \in Flows \ {p} : pc'[f] = pc[f]
      BY <1>0, <2>2, <2>4, <3>1, CommitFrame, Names
    <3>3. LateInv'
      BY <2>1, <3>2, LateFails DEF Early, Before, Writing
    <3> QED
      BY <1>0, <2>2, <2>4, <3>1, <3>3, CommitFails
  <2> QED
    BY <2>3, <2>4
\* What a writer has to store.
<1>2. ASSUME pc[p] \in Writing
      PROVE  /\ lock = p /\ reply[p] \in Replies /\ reply[p].tok \in Tokens
             /\ \A q \in Procs \ {p} : pc[q] \notin Critical
             /\ reply[p].tok[1] \notin swept
             /\ \A f \in Flows \ {p} : pc[f] \in Early => reply[p].tok[1] # f
  <2>1. /\ lock = p /\ reply[p] \in Replies
        /\ \A q \in Procs \ {p} : pc[q] \notin Critical
    BY <1>0, <1>2 DEF CoreInv, LockInv, Critical, TypeInv, Ready, Holding
  <2>2. reply[p].tok \in Tokens
    BY <2>1 DEF Replies
  <2>3. CASE p \in Refreshers
    <3>1. /\ reply[p].tok = IF reply[p].rt THEN Rotated(sent[p]) ELSE sent[p]
          /\ sent[p][1] \notin swept
          /\ \A f \in Flows : pc[f] \in Early => sent[p][1] # f
      BY <1>2, <2>3 DEF CoreInv, SentInv, Sending
    <3>2. reply[p].tok[1] = sent[p][1]
      BY <3>1 DEF Rotated
    <3> QED
      BY <2>1, <2>2, <3>1, <3>2
  <2>4. CASE p \in Flows
    BY <1>2, <2>1, <2>2, <2>4 DEF CoreInv, FlowInv, Holding, Early
  <2> QED
    BY <1>0, <2>3, <2>4
<1>3. CASE StoreAccess(p)
  <2>1. /\ pc[p] = "store_access" /\ pc' = [pc EXCEPT ![p] = "store_refresh"]
        /\ access' = reply[p].tok[1]
        /\ UNCHANGED <<refresh, late, lock, sent, reply, swept, replaced>>
    BY <1>3 DEF StoreAccess, GoTo
  <2>2. pc'[p] = "store_refresh" /\ \A q \in Procs \ {p} : pc'[q] = pc[q]
    BY <1>0, <2>1, Moves
  <2>3. /\ \A q \in Procs : pc'[q] \in Before => q # p /\ pc[q] \in Before
        /\ \A q \in Procs : pc'[q] \in Early <=> pc[q] \in Early
        /\ \A q \in Procs : pc'[q] \in Holding => pc[q] \in Holding
        /\ \A q \in Procs : pc'[q] \in Writing <=> pc[q] \in Writing
        /\ \A q \in Procs : pc'[q] \in Sending <=> pc[q] \in Sending
        /\ \A q \in Procs : pc'[q] = "sending" <=> pc[q] = "sending"
    BY <2>1, <2>2 DEF Before, Early, Holding, Writing, Sending
  <2>4. LockInv'
    BY <1>0, <2>1, <2>2, LockFrame DEF CoreInv, Critical, Writing
  <2>5. SentInv'
    BY <2>1, <2>3, Names DEF CoreInv, SentInv, Rotated
  <2>6. FlowInv' /\ LateInv'
    BY <1>2, <2>1, <2>2, <2>3, Names
    DEF CoreInv, FlowInv, LateInv, LateOf, Of, Early, Writing
  <2>7. NewestInv'
    BY <2>1, <2>3, Names DEF CoreInv, NewestInv, Of
  <2>8. SweptNeverReturns'
    BY <1>2, <2>1 DEF CoreInv, SweptNeverReturns, Granted, Writing
  <2> QED
    BY <2>4, <2>5, <2>6, <2>7, <2>8 DEF CoreInv
<1>4. CASE StoreRefresh(p)
  <2>1. /\ pc[p] = "store_refresh"
        /\ refresh' = IF reply[p].rt THEN reply[p].tok ELSE refresh
        /\ UNCHANGED <<access, late, swept, replaced>>
        /\ Ends(p, "completed", "fresh") \/ Ends(p, "failed", "transient")
    BY <1>4 DEF StoreRefresh
  <2>2. pc[p] \in Writing
    BY <2>1 DEF Writing
  <2>3. /\ p \in Flows => pc'[p] \notin Early /\ pc'[p] \notin Holding
        /\ p \in Refreshers => pc'[p] \in {"idle", "result"}
        /\ \A q \in Procs \ {p} : pc'[q] = pc[q]
        /\ \A q \in Writers \ {p} : reply'[q] = reply[q]
        /\ \A r \in Refreshers \ {p} : pc[r] \notin Sending
        /\ LockInv'
    <3>1. CASE p \in Refreshers
      <4>1. Return(p, "fresh") \/ Return(p, "transient")
        BY <2>1, <3>1 DEF Ends
      <4>2. \A r \in Refreshers \ {p} : pc[r] \notin Sending
        BY <1>2, <2>2, Names DEF Critical, Sending
      <4> QED
        BY <1>0, <2>2, <3>1, <4>1, <4>2, ReturnFrame DEF Sending
    <3>2. CASE p \in Flows
      <4>1. /\ pc'[p] \in {"completed", "failed"}
            /\ \A q \in Procs \ {p} : pc'[q] = pc[q]
            /\ \A q \in Writers \ {p} : reply'[q] = reply[q]
            /\ LockInv' /\ \A r \in Refreshers : pc[r] \notin Sending
        BY <2>1, <2>2, <3>2, CommitFrame
      <4> QED
        BY <1>0, <3>2, <4>1 DEF Early, Before, Holding, Sending, Writing
    <3> QED
      BY <1>0, <3>1, <3>2
  <2>4. SentInv'
    BY <1>0, <2>3, Names DEF SentInv, Sending, Writing
  <2>5. \A f \in Flows : /\ pc'[f] \in Early => f # p /\ pc[f] \in Early
                         /\ pc'[f] \in Before => pc[f] \in Before
                         /\ pc'[f] \in Holding =>
                               f # p /\ pc[f] \in Holding /\ reply'[f] = reply[f]
    BY <1>0, <2>3, Names DEF Early
  <2>6. LateInv'
    BY <2>1, <2>5, LateFrame
  <2>7. FlowInv'
    <3> SUFFICES ASSUME NEW f \in Flows
                 PROVE  /\ pc'[f] \in Before => access # f
                        /\ pc'[f] \in Early => /\ f \notin swept /\ ~Of(refresh', f)
                                               /\ \A t \in replaced : t[1] # f
                        /\ pc'[f] \in Holding => reply'[f].tok = <<f, 0>>
      BY <2>1 DEF FlowInv, Of
    <3>1. pc'[f] \in Early => ~Of(refresh', f)
      BY <1>2, <2>1, <2>2, <2>5 DEF CoreInv, FlowInv, Of
    <3> QED
      BY <2>5, <3>1 DEF CoreInv, FlowInv
  <2>8. NewestInv'
    <3> SUFFICES ASSUME NEW t \in replaced, Of(refresh', t[1])
                 PROVE  t[2] < refresh'[2]
      BY <2>1 DEF NewestInv, Of
    <3>1. \A r \in Refreshers : pc[r] \in Writing => r = p
      BY <2>3 DEF Sending
    <3>2. CASE reply[p].rt /\ p \in Refreshers
      <4>1. refresh' = Rotated(sent[p]) /\ \A u \in replaced : u[1] = sent[p][1] => u[2] <= sent[p][2]
        BY <2>1, <2>2, <3>2 DEF CoreInv, SentInv, Sending
      <4>2. refresh'[1] = sent[p][1] /\ refresh'[2] = sent[p][2] + 1
        BY <4>1 DEF Rotated
      <4>3. t[2] \in Nat /\ sent[p][2] \in Nat
        BY <2>2, <3>2, Rotations, TokenParts DEF TypeInv, Ready, Sending
      <4> QED
        BY <4>1, <4>2, <4>3 DEF Of
    <3>3. CASE reply[p].rt /\ p \in Flows
      BY <2>1, <2>2, <3>3 DEF CoreInv, FlowInv, Of, Early, Holding
    <3>4. CASE ~reply[p].rt
      <4>1. p \in Refreshers => sent[p] \notin replaced
        BY <2>2, <3>4 DEF CoreInv, SentInv, Sending
      <4> QED
        BY <2>1, <3>1, <3>4, <4>1 DEF CoreInv, NewestInv
    <3> QED
      BY <1>0, <3>2, <3>3, <3>4
  <2>9. SweptNeverReturns'
    BY <1>2, <2>1, <2>2 DEF CoreInv, SweptNeverReturns, Granted
  <2> QED
    BY <2>3, <2>4, <2>6, <2>7, <2>8, <2>9 DEF CoreInv
<1> QED
  BY <1>1, <1>3, <1>4 DEF StoreStep

LEMMA FlowCore ==
    ASSUME TypeInv, CoreInv, NEW f \in Flows, FlowStep(f)
    PROVE  CoreInv'
<1> USE DEF keys, stored, flowMap, history, coord
<1>0. f \in Procs /\ f \in Writers /\ f \notin Refreshers
  BY Names
<1>1. CASE Callback(f)
  <2>1. \E to \in {"exchanging", "failed"} : pc' = [pc EXCEPT ![f] = to]
    BY <1>1 DEF Callback
  <2> QED
    BY <1>0, <1>1, <2>1, QuietCore DEF Callback, Critical, Writing, Before, Holding
<1>2. CASE ExchangeCode(f)
  <2>1. CASE pc' = [pc EXCEPT ![f] = "failed"] /\ reply' = reply
    BY <1>0, <1>2, <2>1, QuietCore DEF ExchangeCode, Critical, Writing, Before, Holding
  <2>2. CASE /\ pc' = [pc EXCEPT ![f] = "exchanged"]
             /\ \E rt \in BOOLEAN :
                   reply' = [reply EXCEPT ![f] = [tok |-> <<f, 0>>, rt |-> rt]]
    <3>1. /\ pc[f] = "exchanging"
          /\ UNCHANGED <<access, refresh, late, lock, sent, swept, replaced>>
      BY <1>2 DEF ExchangeCode
    <3>2. pc'[f] = "exchanged" /\ \A q \in Procs \ {f} : pc'[q] = pc[q]
      BY <1>0, <2>2, Moves
    <3>3. reply'[f].tok = <<f, 0>> /\ \A q \in Writers \ {f} : reply'[q] = reply[q]
      BY <1>0, <2>2 DEF TypeInv, TypeOK, Writers
    <3>4. LockInv'
      BY <1>0, <3>1, <3>2, LockFrame DEF CoreInv, Critical, Writing
    <3>5. \A g \in Flows : /\ pc'[g] \in Before => pc[g] \in Before
                           /\ pc'[g] \in Early <=> pc[g] \in Early
      BY <3>1, <3>2, Names DEF Before, Early
    <3>6. \A r \in Refreshers : pc'[r] = pc[r] /\ reply'[r] = reply[r]
      BY <1>0, <3>2, <3>3, Names
    <3>7. SentInv'
      BY <3>1, <3>5, <3>6 DEF CoreInv, SentInv, Rotated
    <3>8. FlowInv'
      <4> SUFFICES ASSUME NEW g \in Flows
                   PROVE  /\ pc'[g] \in Before => access # g
                          /\ pc'[g] \in Early => /\ g \notin swept /\ ~Of(refresh, g)
                                                 /\ \A t \in replaced : t[1] # g
                          /\ pc'[g] \in Holding => reply'[g].tok = <<g, 0>>
        BY <3>1 DEF FlowInv, Of
      <4>1. pc'[g] \in Holding => reply'[g].tok = <<g, 0>>
        BY <3>2, <3>3, Names DEF CoreInv, FlowInv
      <4> QED
        BY <3>5, <4>1 DEF CoreInv, FlowInv
    <3>9. LateInv'
      BY <3>1, <3>5, LateFrame
    <3>10. NewestInv' /\ SweptNeverReturns'
      BY <3>1, <3>6 DEF CoreInv, NewestInv, SweptNeverReturns, Granted, Of
    <3> QED
      BY <3>4, <3>7, <3>8, <3>9, <3>10 DEF CoreInv
  <2> QED
    BY <1>2, <2>1, <2>2 DEF ExchangeCode
<1>3. CASE CommitLock(f)
  <2>1. /\ pc[f] \in {"exchanged", "parked"} /\ pc' = [pc EXCEPT ![f] = "store_access"]
        /\ lock = Nobody /\ lock' = f
        /\ UNCHANGED <<access, refresh, late, sent, reply, swept, replaced>>
    BY <1>3 DEF CommitLock
  <2>2. pc'[f] = "store_access" /\ \A q \in Procs \ {f} : pc'[q] = pc[q]
    BY <1>0, <2>1, Moves
  <2>3. LockInv'
    BY <1>0, <2>1, <2>2, LockFrame DEF CoreInv
  <2>4. \A r \in Refreshers : pc'[r] = pc[r]
    BY <1>0, <2>2, Names
  <2>5. \A g \in Flows : g # f => pc'[g] = pc[g]
    BY <2>2, Names
  <2> QED
    BY <2>1, <2>2, <2>3, <2>4, <2>5, CoreFrame DEF Before, Early, Holding, Writing
<1>4. CASE CommitParks(f)
  BY <1>0, <1>4, QuietCore DEF CommitParks, GoTo, Critical, Writing, Before, Holding
<1>5. CASE AbortedRuns(f)
  <2>1. \E to \in {"ended", "late"} :
           /\ pc[f] = "exchanged" /\ pc' = [pc EXCEPT ![f] = to]
           /\ \/ reply' = reply
              \/ to = "ended" /\ reply' = [reply EXCEPT ![f] = NoToken]
    BY <1>5 DEF AbortedRuns, GoTo
  <2>2. UNCHANGED <<access, refresh, late, lock, sent, swept, replaced>>
    BY <1>5 DEF AbortedRuns
  <2>3. /\ pc[f] = "exchanged" /\ pc'[f] \in {"ended", "late"}
        /\ pc'[f] = "late" => reply' = reply
        /\ \A q \in Procs \ {f} : pc'[q] = pc[q]
        /\ \A q \in Writers \ {f} : reply'[q] = reply[q]
    BY <1>0, <2>1 DEF TypeInv, TypeOK, Writers
  <2>4. LockInv'
    BY <1>0, <2>2, <2>3, LockFrame DEF CoreInv, Critical, Writing
  <2>5. \A r \in Refreshers : pc'[r] = pc[r] /\ reply'[r] = reply[r]
    BY <1>0, <2>3, Names
  <2>6. \A g \in Flows : g # f => pc'[g] = pc[g] /\ reply'[g] = reply[g]
    BY <2>3, Names
  <2> QED
    BY <2>2, <2>3, <2>4, <2>5, <2>6, CoreFrame DEF Before, Early, Holding, Writing
<1>6. CASE LateWrite(f)
  <2>1. /\ pc[f] = "late" /\ pc' = [pc EXCEPT ![f] = "ended"] /\ access' = reply[f].tok[1]
        /\ reply' = [reply EXCEPT ![f] = NoToken]
        /\ UNCHANGED <<refresh, late, lock, sent, swept, replaced>>
    BY <1>6 DEF LateWrite, GoTo
  <2>2. pc'[f] = "ended" /\ \A q \in Procs \ {f} : pc'[q] = pc[q]
    BY <1>0, <2>1, Moves
  <2>3. \A q \in Writers \ {f} : reply'[q] = reply[q]
    BY <2>1 DEF TypeInv, TypeOK, Writers
  <2>4. access' = f /\ f \notin swept
    BY <2>1 DEF CoreInv, FlowInv, Before, Early, Holding
  <2>5. LockInv'
    BY <1>0, <2>1, <2>2, LockFrame DEF CoreInv, Critical, Writing
  <2>6. \A r \in Refreshers : pc'[r] = pc[r] /\ reply'[r] = reply[r]
    BY <1>0, <2>2, <2>3, Names
  <2>7. \A g \in Flows : \/ g # f /\ pc'[g] = pc[g] /\ reply'[g] = reply[g]
                         \/ pc'[g] = "ended"
    BY <2>2, <2>3, Names
  <2>8. SentInv'
    BY <2>1, <2>6, <2>7 DEF CoreInv, SentInv, Rotated, Early, Before, Writing
  <2>9. FlowInv' /\ LateInv'
    BY <2>1, <2>4, <2>7
    DEF CoreInv, FlowInv, LateInv, LateOf, Of, Early, Before, Holding, Writing
  <2>10. NewestInv' /\ SweptNeverReturns'
    BY <2>1, <2>4, <2>6 DEF CoreInv, NewestInv, SweptNeverReturns, Granted, Of
  <2> QED
    BY <2>5, <2>8, <2>9, <2>10 DEF CoreInv
<1>7. CASE FinishFlow(f)
  BY <1>0, <1>7, QuietCore DEF FinishFlow, Critical, Writing, Before, Holding
<1> QED
  BY <1>1, <1>2, <1>3, <1>4, <1>5, <1>6, <1>7 DEF FlowStep

LEMMA RevokeCore ==
    ASSUME TypeInv, CoreInv, RevokeLock \/ DeleteNamespace \/ AbortFlows
    PROVE  CoreInv'
<1> USE DEF keys, stored, flowMap, history, coord
<1>0. User \in Procs /\ User \notin Writers
  BY Names
<1>1. CASE RevokeLock
  <2>1. /\ pc' = [pc EXCEPT ![User] = "sweeping"] /\ lock = Nobody /\ lock' = User
        /\ UNCHANGED <<access, refresh, late, sent, reply, swept, replaced>>
    BY <1>1 DEF RevokeLock, GoTo
  <2>2. pc'[User] = "sweeping" /\ \A q \in Procs \ {User} : pc'[q] = pc[q]
    BY <1>0, <2>1, Moves
  <2>3. LockInv'
    BY <1>0, <2>1, <2>2, LockFrame DEF CoreInv
  <2>4. \A q \in Writers : pc'[q] = pc[q]
    BY <1>0, <2>2, Names
  <2> QED
    BY <2>1, <2>3, <2>4, Names, CoreFrame
<1>2. CASE DeleteNamespace
  <2>1. lock = User /\ \A q \in Procs \ {User} : pc[q] \notin Critical
    BY <1>0, <1>2 DEF DeleteNamespace, CoreInv, LockInv, Critical
  <2>2. /\ \E to \in {"idle", "aborting"} :
              /\ pc' = [pc EXCEPT ![User] = to]
              /\ to = "aborting" => lock' = lock
              /\ to = "idle" => lock' = Nobody
        /\ access' \in {access, NoToken} /\ refresh' \in {refresh, NoToken}
        /\ \/ swept' = swept
           \/ /\ swept' = swept \cup ({access} \ {NoToken}) \cup Granted(refresh)
              /\ access' = NoToken /\ refresh' = NoToken
        /\ UNCHANGED <<sent, reply, replaced>>
    BY <1>2 DEF DeleteNamespace
  <2>3. /\ \A q \in Procs \ {User} : pc'[q] = pc[q]
        /\ pc'[User] = "aborting" => lock' = lock
        /\ pc'[User] # "aborting" => pc'[User] = "idle" /\ lock' = Nobody
    BY <1>0, <2>2, Moves
  <2>4. LockInv'
    BY <1>0, <1>2, <2>1, <2>3, LockFrame DEF CoreInv, DeleteNamespace, Critical, Writing
  <2>5. \A q \in Writers : pc'[q] = pc[q] /\ pc[q] \notin Critical
    BY <1>0, <2>1, <2>3, Names
  <2>6. SentInv'
    BY <2>5, Names DEF SentInv, Critical, Sending, Writing
  <2>7. FlowInv'
    <3> SUFFICES ASSUME NEW f \in Flows
                 PROVE  /\ pc'[f] \in Before => access' # f
                        /\ pc'[f] \in Early => /\ f \notin swept' /\ ~Of(refresh', f)
                                               /\ \A t \in replaced : t[1] # f
                        /\ pc'[f] \in Holding => reply[f].tok = <<f, 0>>
      BY <2>2 DEF FlowInv, Of
    <3>1. pc'[f] = pc[f] /\ pc[f] \notin Writing
      BY <2>5, Names DEF Critical
    <3>2. f # NoToken
      BY OAuthAssumption DEF Grants
    <3>3. pc[f] \in Before => access # f /\ ~Of(refresh, f) /\ f \notin swept
      BY DEF CoreInv, FlowInv, Early
    <3>4. pc[f] \in Before => f \notin swept' /\ access' # f /\ ~Of(refresh', f)
      BY <2>2, <3>2, <3>3 DEF Of, Granted
    <3> QED
      BY <3>1, <3>4 DEF CoreInv, FlowInv, Early
  <2>8. LateInv'
    <3>1. \A v \in Workers : \/ late'[v] = late[v]
                             \/ \E k \in Keys : late'[v] = [key |-> k, val |-> NoToken]
      BY <1>2 DEF DeleteNamespace, Detach, TypeInv, TypeOK
    <3>2. \A f \in Flows : pc'[f] = pc[f] /\ f # NoToken
      BY <2>5, Names, OAuthAssumption DEF Grants
    <3> SUFFICES ASSUME NEW v \in Workers, NEW f \in Flows, pc'[f] \in Early, LateOf(v, f)'
                 PROVE  FALSE
      BY DEF LateInv
    <3>3. ~LateOf(v, f)
      BY <3>2 DEF CoreInv, LateInv
    <3>4. PICK k \in Keys : late'[v] = [key |-> k, val |-> NoToken]
      BY <3>1, <3>3 DEF LateOf
    <3>5. late'[v].val = NoToken
      BY <3>4
    <3> QED
      BY <3>2, <3>5 DEF LateOf, Of
  <2>9. NewestInv'
    <3>1. \A r \in Refreshers : pc[r] \notin Writing
      BY <2>5, Names DEF Critical, Writing
    <3> QED
      BY <2>2, <3>1 DEF CoreInv, NewestInv, Of
  <2>10. SweptNeverReturns'
    <3>1. NoToken \notin swept /\ NoToken \notin Grants
      BY OAuthAssumption DEF TypeInv, TypeOK
    <3>2. Granted(refresh) \subseteq Grants
      BY TokenParts DEF TypeInv, TypeOK, Granted
    <3> QED
      BY <2>2, <3>1, <3>2 DEF CoreInv, SweptNeverReturns, Granted
  <2> QED
    BY <2>4, <2>6, <2>7, <2>8, <2>9, <2>10 DEF CoreInv
<1>3. CASE AbortFlows
  <2>1. PICK found \in SUBSET Flows :
          /\ pc' = [p \in Procs |-> IF p = User THEN "idle"
                                    ELSE IF p \in found /\ Waiting(p) THEN "ended"
                                    ELSE pc[p]]
          /\ reply' = [p \in Flows \cup Refreshers |->
                         IF p \in found /\ Waiting(p) THEN NoToken ELSE reply[p]]
    BY <1>3 DEF AbortFlows
  <2>2. /\ pc[User] = "aborting" /\ lock' = Nobody
        /\ UNCHANGED <<access, refresh, late, sent, swept, replaced>>
    BY <1>3 DEF AbortFlows
  <2>3. /\ pc'[User] = "idle" /\ lock = User
        /\ \A q \in Procs \ {User} : pc'[q] \in Critical => pc[q] \in Critical
    BY <1>0, <2>1, <2>2 DEF CoreInv, LockInv, Critical, Writing
  <2>4. LockInv'
    BY <1>0, <2>2, <2>3, LockFrame DEF CoreInv, Critical, Writing
  <2>5. \A r \in Refreshers : pc'[r] = pc[r] /\ reply'[r] = reply[r]
    BY <1>0, <2>1, Names
  <2>6. \A f \in Flows : \/ pc'[f] = pc[f] /\ reply'[f] = reply[f]
                         \/ pc'[f] = "ended"
    BY <1>0, <2>1, Names
  <2> QED
    BY <2>2, <2>4, <2>5, <2>6, CoreFrame DEF Before, Early, Holding, Writing
<1> QED
  BY <1>1, <1>2, <1>3

LEMMA CoreHolds == Spec => [](TypeInv /\ CoreInv)
<1>1. Init => TypeInv /\ CoreInv
  BY TypeInit, CoreInit
<1>2. TypeInv /\ CoreInv /\ [Next]_vars => (TypeInv /\ CoreInv)'
  <2> SUFFICES ASSUME TypeInv, CoreInv, [Next]_vars PROVE TypeInv' /\ CoreInv'
    OBVIOUS
  <2>1. CASE UNCHANGED vars
    BY <2>1, StutterCore
    DEF vars, TypeInv, TypeOK, Ready, CountInv, keys, stored, flowMap, coord, history
  <2>2. CASE Next
    <3>1. TypeInv'
      BY <2>2, LoopTypes, RefreshTypes, StoreTypes, LateTypes, FlowTypes, UiTypes, RevokeTypes
      DEF Next, Writers
    <3> QED
      BY <2>2, <3>1, LoopCore, RefreshCore, StoreCore, LateCore, FlowCore, UiCore, RevokeCore
      DEF Next, Writers
  <2> QED
    BY <2>1, <2>2
<1> QED
  BY <1>1, <1>2, PTL DEF Spec

\* A grant that was stored when revoke deleted the namespace is stored again by no
\* refresh and no commit (oauth/mod.rs:472-480), only by a write that had timed out: the
\* lock keeps every writer out while revoke sweeps, what a refresher holds was read
\* since, and a flow that has not written holds a new grant.
THEOREM SweptStaysGone == Spec => []SweptNeverReturns
<1>1. TypeInv /\ CoreInv => SweptNeverReturns
  BY DEF CoreInv
<1> QED
  BY <1>1, CoreHolds, PTL

\* No two refreshes send the same refresh token once its replacement is on its way to
\* the store (try_lock_owned, oauth/mod.rs:195, 568): the stored token is the newest of
\* its grant, unless a late write has put an older one back, and is read under the lock.
THEOREM ReplacedIsNotSent == Spec => []ReplacedNotSent
<1>1. TypeInv /\ CoreInv => ReplacedNotSent
  BY DEF CoreInv, SentInv, ReplacedNotSent, Sending
<1> QED
  BY <1>1, CoreHolds, PTL
=============================================================================

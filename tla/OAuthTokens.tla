----------------------------- MODULE OAuthTokens -----------------------------
(***************************************************************************)
(* The credentials of one OAuth provider and everyone who writes them:     *)
(* the background loop with its TokenRefreshCoordinator, the callers of    *)
(* get_access_token, the connect flows that the user starts, cancels and   *)
(* polls, and revoke.  OAuthClient gives each provider one refresh lock;   *)
(* refreshes hold it from their reads to their last write and skip when it *)
(* is taken, a connect flow holds it for its commit and revoke for its     *)
(* sweep, and both wait for it.                                            *)
(*                                                                         *)
(* A token is <<g, n>>: the grant of a connect flow and how often it       *)
(* was rotated.  KEY_EXPIRES_AT and KEY_SCOPES are not kept: an expiry     *)
(* that cannot be read counts as passed, so that whoever looks may find a  *)
(* token due whatever is stored, and any stored one may still be fresh.  A *)
(* short backoff is not kept either: it elapses between two ticks; the one *)
(* of a year does not.  A flow that failed and one that was cancelled      *)
(* differ only in what the UI says.                                        *)
(*                                                                         *)
(* A keychain call that times out fails, and the worker that makes it goes *)
(* on without the caller: its write or its delete lands later, or never.   *)
(***************************************************************************)
EXTENDS Naturals, FiniteSets

CONSTANTS Flows,         \* connect flows
          Earlier,       \* the connection an earlier session may have stored
          Loop,          \* the OAuth refresh loop of the scheduler
          Getter,        \* a caller of get_access_token
          User,          \* whoever calls revoke
          Workers,       \* bound: keychain calls that outlive their timeout at once
          Nobody,        \* the lock is free
          NoToken,       \* an absent key; no reply, no call
          MaxFailures,   \* MAX_CONSECUTIVE_FAILURES
          MaxRotations,  \* bound: rotations of a grant
          MaxRevokes     \* bound: revocations

Refreshers == {Loop, Getter}
Procs      == Flows \cup Refreshers \cup {User}
Grants     == Flows \cup {Earlier}
Tokens     == Grants \X (0 .. MaxRotations)
Keys       == {"access", "refresh"}

\* A keychain call: the write of this value to a key, or its delete.
Calls == [key : {"access"}, val : Grants \cup {NoToken}]
         \cup [key : {"refresh"}, val : Tokens \cup {NoToken}]

ASSUME OAuthAssumption ==
    /\ Loop # Getter /\ User \notin Refreshers
    /\ Flows \cap {Earlier, Loop, Getter, User} = {}
    /\ Nobody \notin Procs /\ NoToken \notin Grants \cup Tokens \cup Calls
    /\ MaxFailures \in Nat \ {0} /\ MaxRotations \in Nat /\ MaxRevokes \in Nat

VARIABLES access,      \* KEY_ACCESS_TOKEN in the secret store: the grant of the token
          refresh,     \* KEY_REFRESH_TOKEN
          late,        \* the call that timed out and that a worker still makes
          lock,        \* the provider's refresh lock
          pc,          \* where each process is
          sent,        \* the refresh token a refresher read and sends
          reply,       \* the TokenExchangeResult a writer is storing
          result,      \* the RefreshResult on its way to the coordinator
          status,      \* active_flows: the status of a flow; unlisted before start_flow
                       \* inserts it, none when it was removed
          aborted,     \* flows aborted while they ran: they die at their next await
          uiReset,     \* the UI saw Completed and has not reset the coordinator yet
          inProgress, failures, backoff,  \* ProviderRefreshState; the backoff of a year
          revokes,     \* revocations so far
          replaced,    \* history: refresh tokens whose replacement is stored or being
                       \* stored, unless a late write put them or an older one back
          swept        \* history: grants that were stored when a revoke deleted the
                       \* namespace, unless a late write put them back

stored  == <<access, refresh>>
keys    == <<stored, late>>
flowMap == <<status, aborted, uiReset>>
coord   == <<inProgress, failures, backoff>>
history == <<replaced, swept>>
vars    == <<keys, lock, pc, sent, reply, result, flowMap, coord, revokes, history>>

Replies  == [tok : Tokens, rt : BOOLEAN]
Statuses == {"unlisted", "none", "pending", "completed", "failed"}
Writing  == {"store_access", "store_refresh"}
Steps    == Writing \cup
            {"idle", "reading", "locking", "sending", "result",
             "callback", "exchanging", "exchanged", "parked", "late",
             "completed", "failed", "ended",
             "waiting", "sweeping", "aborting"}

GoTo(p, from, to) == pc[p] = from /\ pc' = [pc EXCEPT ![p] = to]

\* At launch the provider was never connected, or is since an earlier session.
Init == /\ \/ access = NoToken /\ refresh = NoToken
           \/ access = Earlier /\ refresh = <<Earlier, 0>>
        /\ late = [w \in Workers |-> NoToken]
        /\ lock = Nobody
        /\ pc = [p \in Procs |-> "idle"]
        /\ sent = [r \in Refreshers |-> NoToken]
        /\ reply = [p \in Flows \cup Refreshers |-> NoToken]
        /\ result = "none"
        /\ status = [f \in Flows |-> "unlisted"]
        /\ aborted = {} /\ uiReset = FALSE
        /\ inProgress = FALSE /\ failures = 0 /\ backoff = FALSE
        /\ revokes = 0
        /\ replaced = {} /\ swept = {}

-----------------------------------------------------------------------------
(* The refresh loop: phase 1 of check_and_refresh, and the unlocked read   *)
(* of refresh_access_token.                                                *)

\* A tick finds a backoff still running, and returns, or elapsed, and clears it.
Tick == /\ ~inProgress /\ ~backoff
        /\ GoTo(Loop, "idle", "reading")
        /\ inProgress' = TRUE
        /\ UNCHANGED <<keys, lock, sent, reply, result, flowMap, failures, backoff,
                       revokes, history>>

\* RefreshResult of a call that ends before it has the lock.  Refreshed and AlreadyFresh
\* both lead to an untroubled state, NotAuthenticated and ReauthRequired to a user's login.
Answer(r) == /\ pc' = [pc EXCEPT ![Loop] = "result"]
             /\ result' = r

ReadAccess ==
    /\ pc[Loop] = "reading"
    /\ \/ access # NoToken /\ pc' = [pc EXCEPT ![Loop] = "locking"] /\ UNCHANGED result
       \/ access = NoToken /\ Answer("reauth")
       \/ Answer("transient")        \* the store fails: Err, counted like a transient one
    /\ UNCHANGED <<keys, lock, sent, reply, flowMap, coord, revokes, history>>

(* get_access_token: a stored token that is_token_valid calls expired.     *)

GetToken == /\ access # NoToken
            /\ GoTo(Getter, "idle", "locking")
            /\ UNCHANGED <<keys, lock, sent, reply, result, flowMap, coord, revokes, history>>

-----------------------------------------------------------------------------
(* A refresh, by the loop or by try_refresh.                               *)

\* The call of r ends, its guard and its locals are dropped; only the loop has someone
\* to report to.
Return(r, res) ==
    /\ pc' = [pc EXCEPT ![r] = IF r = Loop THEN "result" ELSE "idle"]
    /\ result' = IF r = Loop THEN res ELSE result
    /\ lock' = IF lock = r THEN Nobody ELSE lock
    /\ sent' = [sent EXCEPT ![r] = NoToken]
    /\ reply' = [reply EXCEPT ![r] = NoToken]

\* With the lock: the loop looks at the expiry, both read the refresh token.
ReadRefresh(r) ==
    \/ r = Loop /\ Return(r, "fresh")
    \/ refresh = NoToken /\ Return(r, "reauth")
    \/ /\ refresh # NoToken
       /\ pc' = [pc EXCEPT ![r] = "sending"]
       /\ sent' = [sent EXCEPT ![r] = refresh]
       /\ lock' = r
       /\ UNCHANGED <<reply, result>>

\* Mutant: get_access_token refreshes without asking for the lock.
TryLockLoopOnly(r) ==
    /\ pc[r] = "locking"
    /\ \/ (lock = Nobody \/ r = Getter) /\ ReadRefresh(r)
       \/ lock # Nobody /\ r = Loop /\ Return(r, "fresh")
    /\ UNCHANGED <<keys, flowMap, coord, revokes, history>>

\* try_lock_owned: a taken lock is a skip, which the loop is told as AlreadyFresh; a
\* read of the store may fail.
TryLock(r) ==
    /\ pc[r] = "locking"
    /\ \/ lock = Nobody /\ ReadRefresh(r)
       \/ lock = Nobody /\ Return(r, "transient")
       \/ lock # Nobody /\ Return(r, "fresh")
    /\ UNCHANGED <<keys, flowMap, coord, revokes, history>>

Rotated(t) == <<t[1], t[2] + 1>>

\* The provider issues an access token, with a new refresh token or without.
Refreshed(r) ==
    /\ pc[r] = "sending"
    /\ \E rt \in BOOLEAN :
          /\ rt => sent[r][2] < MaxRotations
          /\ reply' = [reply EXCEPT ![r] =
                         [tok |-> IF rt THEN Rotated(sent[r]) ELSE sent[r], rt |-> rt]]
          /\ replaced' = IF rt THEN replaced \cup {sent[r]} ELSE replaced
    /\ pc' = [pc EXCEPT ![r] = "store_access"]
    /\ UNCHANGED <<keys, lock, sent, result, flowMap, coord, revokes, swept>>

\* invalid_grant and invalid_client are terminal.
Refused(r) ==
    /\ pc[r] = "sending"
    /\ Return(r, "reauth")
    /\ UNCHANGED <<keys, flowMap, coord, revokes, history>>

\* Mutant: an HTTP client without a timeout waits for an answer.
NoTimeout(r) == FALSE /\ UNCHANGED vars

\* A server error, a connection that fails or the 30 s timeout; whether the provider
\* had replaced the token then, nobody learns.
TimedOut(r) ==
    /\ pc[r] = "sending"
    /\ Return(r, "transient")
    /\ UNCHANGED <<keys, flowMap, coord, revokes, history>>

-----------------------------------------------------------------------------
(* store_tokens_static, by a refresher or a connect flow that has the lock *)

\* The commit of a flow ends the same way.
Ends(p, to, res) ==
    IF p \in Refreshers THEN Return(p, res)
    ELSE /\ pc' = [pc EXCEPT ![p] = to] /\ lock' = Nobody
         /\ reply' = [reply EXCEPT ![p] = NoToken]
         /\ UNCHANGED <<sent, result>>

\* A call outlives its timeout: from here its worker goes on alone.
Detach(call) == \E w \in Workers : late[w] = NoToken /\ late' = [late EXCEPT ![w] = call]

\* What p is writing, if the reply has something to write.
Writes(p, call) ==
    \/ pc[p] = "store_access" /\ call = [key |-> "access", val |-> reply[p].tok[1]]
    \/ pc[p] = "store_refresh" /\ reply[p].rt /\ call = [key |-> "refresh", val |-> reply[p].tok]

\* A failed write ends the call: what was written stays, a replacement of the refresh
\* token that was not is lost.  A write that timed out may still land.
StoreFails(p) ==
    /\ \E call \in Calls : Writes(p, call) /\ (UNCHANGED late \/ Detach(call))
    /\ Ends(p, "failed", "transient")
    /\ replaced' = IF p \in Refreshers THEN replaced \ {sent[p]} ELSE replaced
    /\ UNCHANGED <<stored, flowMap, coord, revokes, swept>>

Granted(t) == IF t = NoToken THEN {} ELSE {t[1]}

\* The worker's call goes through after all, without the lock, or fails.  What a write
\* brings back is no longer counted as swept or replaced.
LateCall(w) ==
    /\ late[w] # NoToken /\ late' = [late EXCEPT ![w] = NoToken]
    /\ LET key == late[w].key
           val == late[w].val
       IN  \/ UNCHANGED <<stored, history>>
           \/ /\ key = "access" /\ access' = val
              /\ swept' = swept \ {val}
              /\ UNCHANGED <<refresh, replaced>>
           \/ /\ key = "refresh" /\ refresh' = val
              /\ swept' = swept \ Granted(val)
              /\ replaced' = {t \in replaced : t[1] \in Granted(val) => t[2] < val[2]}
              /\ UNCHANGED access
    /\ UNCHANGED <<lock, pc, sent, reply, result, flowMap, coord, revokes>>

StoreAccess(p) ==
    /\ GoTo(p, "store_access", "store_refresh")
    /\ access' = reply[p].tok[1]
    /\ UNCHANGED <<refresh, late, lock, sent, reply, result, flowMap, coord, revokes,
                   history>>

\* The refresh token if there is one, then the expiry and the scopes and the loop's read
\* of the new expiry, which may fail, and the return that drops the guard.
StoreRefresh(p) ==
    /\ pc[p] = "store_refresh"
    /\ refresh' = IF reply[p].rt THEN reply[p].tok ELSE refresh
    /\ Ends(p, "completed", "fresh") \/ Ends(p, "failed", "transient")
    /\ UNCHANGED <<access, late, flowMap, coord, revokes, history>>

-----------------------------------------------------------------------------
(* Phase 3 of check_and_refresh.                                           *)

SetCoord(n, b) == failures' = n /\ backoff' = b

\* Mutant: one more attempt before the user is asked.
HandleTransientFailureLate ==
    LET attempt == failures + 1
    IN  SetCoord(attempt, attempt > MaxFailures)

HandleTransientFailure ==
    LET attempt == failures + 1
    IN  SetCoord(attempt, attempt >= MaxFailures)

ApplyResult ==
    /\ GoTo(Loop, "result", "idle")
    /\ inProgress' = FALSE
    /\ \/ result = "fresh" /\ SetCoord(0, FALSE)
       \/ result = "reauth" /\ SetCoord(failures, TRUE)
       \/ result = "transient" /\ HandleTransientFailure
    /\ result' = "none"
    /\ UNCHANGED <<keys, lock, sent, reply, flowMap, revokes, history>>

\* The UI's reset after a flow it saw completed: the whole map is cleared.
Reset ==
    /\ uiReset /\ uiReset' = FALSE
    /\ inProgress' = FALSE /\ SetCoord(0, FALSE)
    /\ UNCHANGED <<keys, lock, pc, sent, reply, result, status, aborted,
                   revokes, history>>

-----------------------------------------------------------------------------
(* A connect flow: callback, exchange, commit, status.                     *)

\* The callback port is bound by one flow at a time.
StartFlow(f) ==
    /\ \A g \in Flows : pc[g] # "callback"
    /\ GoTo(f, "idle", "callback")
    /\ UNCHANGED <<keys, lock, sent, reply, result, flowMap, coord, revokes, history>>

\* The task runs when start_flow inserts the flow, as pending however far the task is.
InsertFlow(f) ==
    /\ pc[f] # "idle" /\ status[f] = "unlisted"
    /\ status' = [status EXCEPT ![f] = "pending"]
    /\ UNCHANGED <<keys, lock, pc, sent, reply, result, aborted, uiReset, coord,
                   revokes, history>>

InMap(f) == status[f] \notin {"unlisted", "none"}

\* The browser calls back, with a code or an error, the five minutes pass, or the
\* cancel signal wins; a callback that is in may still win against the signal.
Callback(f) ==
    /\ pc[f] = "callback"
    /\ \E to \in {"exchanging", "failed"} : pc' = [pc EXCEPT ![f] = to]
    /\ UNCHANGED <<keys, lock, sent, reply, result, flowMap, coord, revokes, history>>

ExchangeCode(f) ==
    /\ pc[f] = "exchanging"
    /\ \/ /\ pc' = [pc EXCEPT ![f] = "exchanged"]
          /\ \E rt \in BOOLEAN :
                reply' = [reply EXCEPT ![f] = [tok |-> <<f, 0>>, rt |-> rt]]
       \/ pc' = [pc EXCEPT ![f] = "failed"] /\ UNCHANGED reply
    /\ UNCHANGED <<keys, lock, sent, result, flowMap, coord, revokes, history>>

\* commit_connect_tokens: lock().await, which returns at once when the lock is free.
CommitLock(f) ==
    /\ pc[f] \in {"exchanged", "parked"} /\ f \notin aborted
    /\ lock = Nobody /\ lock' = f
    /\ pc' = [pc EXCEPT ![f] = "store_access"]
    /\ UNCHANGED <<keys, sent, reply, result, flowMap, coord, revokes, history>>

CommitParks(f) ==
    /\ lock # Nobody /\ f \notin aborted
    /\ GoTo(f, "exchanged", "parked")
    /\ UNCHANGED <<keys, lock, sent, reply, result, flowMap, coord, revokes, history>>

\* An aborted task runs on to its next await.  That is the lock when it is taken;
\* when it is free, the first write, which the blocking pool then does on its own.
AbortedRuns(f) ==
    /\ f \in aborted /\ aborted' = aborted \ {f}
    /\ \/ lock # Nobody /\ GoTo(f, "exchanged", "ended")
          /\ reply' = [reply EXCEPT ![f] = NoToken]
       \/ lock = Nobody /\ GoTo(f, "exchanged", "late") /\ UNCHANGED reply
    /\ UNCHANGED <<keys, lock, sent, result, status, uiReset, coord, revokes, history>>

LateWrite(f) ==
    /\ GoTo(f, "late", "ended")
    /\ access' = reply[f].tok[1]
    /\ reply' = [reply EXCEPT ![f] = NoToken]
    /\ UNCHANGED <<refresh, late, lock, sent, result, flowMap, coord, revokes, history>>

\* Phase 3: the status of a flow that is still in the map.
FinishFlow(f) ==
    /\ pc[f] \in {"completed", "failed"}
    /\ pc' = [pc EXCEPT ![f] = "ended"]
    /\ status' = IF InMap(f) THEN [status EXCEPT ![f] = pc[f]] ELSE status
    /\ UNCHANGED <<keys, lock, sent, reply, result, aborted, uiReset, coord,
                   revokes, history>>

\* cancel_flow gives up the flow whatever its task is doing; only the wait for the
\* callback listens to the signal.
CancelFlow(f) ==
    /\ InMap(f)
    /\ status' = [status EXCEPT ![f] = "failed"]
    /\ UNCHANGED <<keys, lock, pc, sent, reply, result, aborted, uiReset, coord,
                   revokes, history>>

\* oauth_flow_status: a terminal flow leaves the map; Completed leads to a reset.
FlowStatus(f) ==
    /\ status[f] \in {"completed", "failed"}
    /\ status' = [status EXCEPT ![f] = "none"]
    /\ uiReset' = (uiReset \/ status[f] = "completed")
    /\ UNCHANGED <<keys, lock, pc, sent, reply, result, aborted, coord,
                   revokes, history>>

-----------------------------------------------------------------------------
(* revoke                                                                  *)

Revoke == /\ revokes < MaxRevokes /\ revokes' = revokes + 1
          /\ GoTo(User, "idle", "waiting")
          /\ UNCHANGED <<keys, lock, sent, reply, result, flowMap, coord, history>>

\* Mutant: revoke before #9504, which did not take the lock.
RevokeNoLock ==
    /\ GoTo(User, "waiting", "sweeping")
    /\ UNCHANGED <<keys, lock, sent, reply, result, flowMap, coord, revokes, history>>

RevokeLock ==
    /\ lock = Nobody /\ lock' = User
    /\ GoTo(User, "waiting", "sweeping")
    /\ UNCHANGED <<keys, sent, reply, result, flowMap, coord, revokes, history>>

\* delete_namespace deletes every key it can; one that it cannot delete is an error
\* that ends revoke before it looks at the flows.  After the first delete that times out
\* the others of the sweep fail at once.
DeleteNamespace ==
    /\ pc[User] = "sweeping"
    /\ \/ /\ access' = NoToken /\ refresh' = NoToken
          /\ swept' = swept \cup ({access} \ {NoToken}) \cup Granted(refresh)
          /\ pc' = [pc EXCEPT ![User] = "aborting"] /\ UNCHANGED <<late, lock>>
       \/ /\ \E failed \in SUBSET Keys :
                /\ access'  = IF "access" \in failed THEN access ELSE NoToken
                /\ refresh' = IF "refresh" \in failed THEN refresh ELSE NoToken
                /\ \/ UNCHANGED late
                   \/ \E k \in failed : Detach([key |-> k, val |-> NoToken])
          /\ pc' = [pc EXCEPT ![User] = "idle"] /\ lock' = Nobody
          /\ UNCHANGED swept
    /\ UNCHANGED <<sent, reply, result, flowMap, coord, revokes, replaced>>

\* The flows in the map are cancelled and their tasks aborted.  A task that waits dies
\* where it waits, one that runs at its next await.
Waiting(f) == pc[f] \in {"callback", "exchanging", "parked"}

AbortFlows ==
    /\ pc[User] = "aborting" /\ lock' = Nobody
    /\ LET found == {f \in Flows : InMap(f)}
       IN  /\ status' = [f \in Flows |-> IF f \in found THEN "none" ELSE status[f]]
           /\ aborted' = aborted \cup {f \in found : pc[f] = "exchanged"}
           /\ pc' = [p \in Procs |-> IF p = User THEN "idle"
                                     ELSE IF p \in found /\ Waiting(p) THEN "ended"
                                     ELSE pc[p]]
           /\ reply' = [p \in Flows \cup Refreshers |->
                          IF p \in found /\ Waiting(p) THEN NoToken ELSE reply[p]]
    /\ UNCHANGED <<keys, sent, result, uiReset, coord, revokes, history>>

-----------------------------------------------------------------------------
RefreshStep(r) == \/ TryLock(r) \/ Refreshed(r) \/ Refused(r) \/ TimedOut(r)

StoreStep(p) == StoreFails(p) \/ StoreAccess(p) \/ StoreRefresh(p)

FlowStep(f) == \/ Callback(f) \/ ExchangeCode(f) \/ CommitLock(f) \/ CommitParks(f)
               \/ AbortedRuns(f) \/ LateWrite(f) \/ FinishFlow(f)

UiStep == \/ \E f \in Flows : StartFlow(f) \/ InsertFlow(f) \/ CancelFlow(f) \/ FlowStatus(f)
          \/ Reset \/ Revoke

Next == \/ Tick \/ ReadAccess \/ GetToken
        \/ \E r \in Refreshers : RefreshStep(r)
        \/ \E p \in Flows \cup Refreshers : StoreStep(p)
        \/ \E w \in Workers : LateCall(w)
        \/ ApplyResult
        \/ \E f \in Flows : FlowStep(f)
        \/ UiStep
        \/ RevokeLock \/ DeleteNamespace \/ AbortFlows

Spec == Init /\ [][Next]_vars

\* Whoever holds the lock goes on: store calls return, and the HTTP client gives up after
\* 30 s whatever the provider does.  tokio's mutex queues those who wait for it.
HolderProceeds ==
    \/ \E p \in Flows \cup Refreshers :
          lock = p /\ (StoreStep(p) \/ (p \in Refreshers /\ TimedOut(p)))
    \/ DeleteNamespace \/ AbortFlows

Fairness == WF_vars(HolderProceeds) /\ SF_vars(RevokeLock)

FairSpec == Spec /\ Fairness

-----------------------------------------------------------------------------
TypeOK ==
    /\ access \in Grants \cup {NoToken} /\ refresh \in Tokens \cup {NoToken}
    /\ late \in [Workers -> Calls \cup {NoToken}]
    /\ lock \in Procs \cup {Nobody}
    /\ pc \in [Procs -> Steps]
    /\ sent \in [Refreshers -> Tokens \cup {NoToken}]
    /\ reply \in [Flows \cup Refreshers -> Replies \cup {NoToken}]
    /\ result \in {"none", "fresh", "reauth", "transient"}
    /\ status \in [Flows -> Statuses]
    /\ aborted \subseteq Flows /\ uiReset \in BOOLEAN
    /\ inProgress \in BOOLEAN /\ failures \in 0 .. MaxFailures
    /\ backoff \in BOOLEAN /\ revokes \in 0 .. MaxRevokes
    /\ replaced \subseteq Tokens /\ swept \subseteq Grants

\* No commit may "re-persist the just-revoked credentials" (oauth/mod.rs:472-474): a
\* grant that was stored when revoke deleted the namespace is stored again by no refresh
\* that was under way and by no rest of a commit, however many flows, refreshes and
\* failing writes there are.  Only the worker of a write that had timed out, which no
\* lock holds back, can bring it back.
SweptNeverReturns == access \notin swept /\ Granted(refresh) \cap swept = {}

\* A refresh token whose replacement was stored, or is on its way to the store, is
\* never sent to the provider again: the loop, get_access_token and the flows do not
\* refresh with the same token (try_lock_owned, oauth/mod.rs:195, 568), unless a late
\* write has put an older one back.
ReplacedNotSent ==
    \A r \in Refreshers : pc[r] = "sending" => sent[r] \notin replaced

\* "a revoke must wait out an in-flight commit, not be skipped. The wait is bounded by
\* the 30s OAuth http timeout" (oauth/mod.rs:476-477).
RevokeEnds == pc[User] = "waiting" ~> pc[User] = "idle"
=============================================================================

----------------------------- MODULE Quarantine -----------------------------
(***************************************************************************)
(* The quarantine queue of backend/internal/quarantine: held tool calls,    *)
(* the reviewers who approve or deny them, and the replay workers (one per  *)
(* replica) that claim approved entries and POST them to the upstream.      *)
(*                                                                         *)
(* An action is what one process does between two round trips (SQL         *)
(* statement, ledger append, HTTP call).  Every statement commits on its    *)
(* own, so processes interleave between any two of them, and each one can   *)
(* fail, or take effect although its reply is lost.                         *)
(***************************************************************************)
EXTENDS Naturals, FiniteSets

CONSTANTS
    Entries,            \* quarantine rows, numbered in (created_at, id) order
    Workers,            \* replicas, each running one replay worker
    Reviewers,          \* reviewer identities, each in at most one request
    MaxReplayAttempts,  \* Worker.maxReplayAttempts
    BatchSize,          \* Worker.batchSize
    MaxFaults,          \* bound: failed calls, lost replies and crashes
    LockMayDrop,        \* can a live worker lose its advisory-lock session?
    Nobody              \* no worker, no reviewer

ASSUME QuarantineAssumption ==
    /\ Entries \subseteq Nat
    /\ Nobody \notin Workers \cup Reviewers
    /\ MaxReplayAttempts \in Nat
    /\ BatchSize \in Nat \ {0}
    /\ MaxFaults \in Nat
    /\ LockMayDrop \in BOOLEAN

VARIABLES
    \* the quarantine table, one row per entry
    status, attempts, resolvedBy,
    lock,       \* session holding pg_try_advisory_xact_lock(918273646)
    ledger,     \* ledger[e]: decisions recorded in the ledger for entry e
    \* replay workers: program counter, claimed rows not yet processed, and
    \* the claimed row being processed (rows as they were when claimed)
    pc, batch, cur,
    handler,    \* reviewer request whose decision is not ledgered yet
    \* history: since e's latest approval, POSTs sent and replay_started
    \* rows written; 2xx answers ever received; faults so far
    calls, started, accepted, faults

rowVars    == <<status, attempts, resolvedBy>>
workerVars == <<pc, batch, cur>>
histVars   == <<calls, started, accepted>>
vars == <<rowVars, lock, ledger, workerVars, handler, histVars, faults>>

Status == {"absent", "pending", "approved", "replaying", "replayed",
           "replay_failed", "denied"}

Decisions == {"approved", "denied", "replay_started", "approved_replayed",
              "replay_error", "replay_exhausted", "replay_blocked_by_policy"}

Labels == {"idle", "recover", "claim", "drain", "start", "exhausted",
           "blocked", "announce", "defer", "post", "await", "succeeded",
           "release", "log_exhausted", "log_blocked", "log_replayed",
           "log_failed"}

ClaimedRow == [id : Entries, attempts : Nat, by : Reviewers \cup {Nobody}]

NoRow == [id |-> Nobody]

NoRequest == [decision |-> "none"]

Request == [decision : {"approved", "denied"}, id : Entries]

\* Every variable stays within its declared domain.
TypeOK ==
    /\ status \in [Entries -> Status]
    /\ attempts \in [Entries -> Nat]
    /\ resolvedBy \in [Entries -> Reviewers \cup {Nobody}]
    /\ lock \in Workers \cup {Nobody}
    /\ ledger \in [Entries -> SUBSET Decisions]
    /\ pc \in [Workers -> Labels]
    /\ batch \in [Workers -> SUBSET ClaimedRow]
    /\ cur \in [Workers -> ClaimedRow \cup {NoRow}]
    /\ handler \in [Reviewers -> Request \cup {NoRequest}]
    /\ calls \in [Entries -> Nat]
    /\ started \in [Entries -> Nat]
    /\ accepted \in [Entries -> Nat]
    /\ faults \in 0..MaxFaults

Init ==
    /\ status = [e \in Entries |-> "absent"]
    /\ attempts = [e \in Entries |-> 0]
    /\ resolvedBy = [e \in Entries |-> Nobody]
    /\ lock = Nobody
    /\ ledger = [e \in Entries |-> {}]
    /\ pc = [w \in Workers |-> "idle"]
    /\ batch = [w \in Workers |-> {}]
    /\ cur = [w \in Workers |-> NoRow]
    /\ handler = [r \in Reviewers |-> NoRequest]
    /\ calls = [e \in Entries |-> 0]
    /\ started = [e \in Entries |-> 0]
    /\ accepted = [e \in Entries |-> 0]
    /\ faults = 0

-----------------------------------------------------------------------------
(* Faults and ledger appends *)

Fault == faults < MaxFaults /\ faults' = faults + 1

NoFault == UNCHANGED faults

\* ledger.Store.Append as its callers see it: the module Ledger shows that one
\* call adds one row or none, and that an error leaves either possible.
Append(e, d) == ledger' = [ledger EXCEPT ![e] = @ \cup {d}]

-----------------------------------------------------------------------------
(* The proxy holds a request (Store.Create) and reviewers decide it. *)

Create(e) ==
    /\ status[e] = "absent"
    /\ status' = [status EXCEPT ![e] = "pending"]
    /\ UNCHANGED <<attempts, resolvedBy, lock, ledger, workerVars, handler,
                   histVars, faults>>

\* The UPDATE of a reviewer decision took effect.  Its handler goes on to the
\* ledger append, unless it was told that the UPDATE failed.
Decided(r, e, d) ==
    \/ handler' = [handler EXCEPT ![r] = [decision |-> d, id |-> e]]
       /\ NoFault
    \/ UNCHANGED handler /\ Fault

Approve(r, e) ==
    /\ handler[r] = NoRequest
    /\ status[e] \in {"pending", "replay_failed"}
    /\ status' = [status EXCEPT ![e] = "approved"]
    /\ attempts' = [attempts EXCEPT ![e] = 0]
    /\ resolvedBy' = [resolvedBy EXCEPT ![e] = r]
    /\ calls' = [calls EXCEPT ![e] = 0]
    /\ started' = [started EXCEPT ![e] = 0]
    /\ Decided(r, e, "approved")
    /\ UNCHANGED <<lock, ledger, workerVars, accepted>>

\* Mutant: Deny accepts an approved action that is already being replayed.
DenyLate(r, e) ==
    /\ handler[r] = NoRequest
    /\ status[e] \in {"pending", "replay_failed", "approved", "replaying"}
    /\ status' = [status EXCEPT ![e] = "denied"]
    /\ resolvedBy' = [resolvedBy EXCEPT ![e] = r]
    /\ Decided(r, e, "denied")
    /\ UNCHANGED <<attempts, lock, ledger, workerVars, histVars>>

Deny(r, e) ==
    /\ handler[r] = NoRequest
    /\ status[e] \in {"pending", "replay_failed"}
    /\ status' = [status EXCEPT ![e] = "denied"]
    /\ resolvedBy' = [resolvedBy EXCEPT ![e] = r]
    /\ Decided(r, e, "denied")
    /\ UNCHANGED <<attempts, lock, ledger, workerVars, histVars>>

\* Handler.appendLedger; a failed append (or a crash before it) is answered
\* with ErrAuditUnavailable and never retried.
RecordDecision(r) ==
    /\ handler[r] # NoRequest
    /\ handler' = [handler EXCEPT ![r] = NoRequest]
    /\ \/ Append(handler[r].id, handler[r].decision) /\ NoFault
       \/ UNCHANGED ledger /\ Fault
    /\ UNCHANGED <<rowVars, lock, workerVars, histVars>>

-----------------------------------------------------------------------------
(* A replay pass: Worker.ProcessOnce under Store.WithReplayLock *)

Goto(w, label) == pc' = [pc EXCEPT ![w] = label]

\* The deferred Rollback releases the advisory lock on every return path.
EndPass(w) ==
    /\ Goto(w, "idle")
    /\ batch' = [batch EXCEPT ![w] = {}]
    /\ cur' = [cur EXCEPT ![w] = NoRow]
    /\ lock' = IF lock = w THEN Nobody ELSE lock

\* Mutant: the result of pg_try_advisory_xact_lock is ignored.
TryLockIgnored(w) ==
    /\ pc[w] = "idle"
    /\ lock' = w
    /\ Goto(w, "recover")
    /\ UNCHANGED <<rowVars, ledger, batch, cur, handler, histVars, faults>>

TryLock(w) ==
    /\ pc[w] = "idle"
    /\ lock = Nobody
    /\ lock' = w
    /\ Goto(w, "recover")
    /\ UNCHANGED <<rowVars, ledger, batch, cur, handler, histVars, faults>>

Replaying == {e \in Entries : status[e] = "replaying"}

\* Mutants: recovery finds nothing to recover, or does not count the attempt.
RecoverNothing == UNCHANGED <<status, attempts>>

RecoverUncounted ==
    /\ status' = [e \in Entries |->
                    IF e \in Replaying THEN "approved" ELSE status[e]]
    /\ UNCHANGED attempts

\* Every row left in 'replaying' goes back to 'approved', one attempt older.
RecoverStuckReplays ==
    /\ status' = [e \in Entries |->
                    IF e \in Replaying THEN "approved" ELSE status[e]]
    /\ attempts' = [e \in Entries |->
                      IF e \in Replaying THEN attempts[e] + 1 ELSE attempts[e]]

Recover(w) ==
    /\ pc[w] = "recover"
    /\ \/ /\ RecoverStuckReplays
          /\ \/ Goto(w, "claim") /\ UNCHANGED <<lock, batch, cur>> /\ NoFault
             \/ EndPass(w) /\ Fault
       \/ UNCHANGED <<status, attempts>> /\ EndPass(w) /\ Fault
    /\ UNCHANGED <<resolvedBy, ledger, handler, histVars>>

\* Mutant: the claim without its status condition.
ClaimableUnreviewed ==
    {e \in Entries : status[e] \in {"pending", "approved"}}

\* The BatchSize oldest approved rows (ORDER BY created_at, id LIMIT).
Claimable ==
    LET approved == {e \in Entries : status[e] = "approved"}
    IN  {e \in approved : Cardinality({f \in approved : f < e}) < BatchSize}

RowOf(e) == [id |-> e, attempts |-> attempts[e], by |-> resolvedBy[e]]

ClaimApproved ==
    status' = [e \in Entries |->
                 IF e \in Claimable THEN "replaying" ELSE status[e]]

Claim(w) ==
    /\ pc[w] = "claim"
    /\ \/ /\ ClaimApproved
          /\ \/ /\ Goto(w, "drain")
                /\ batch' = [batch EXCEPT ![w] = {RowOf(e) : e \in Claimable}]
                /\ UNCHANGED <<lock, cur>>
                /\ NoFault
             \/ EndPass(w) /\ Fault
       \/ UNCHANGED status /\ EndPass(w) /\ Fault
    /\ UNCHANGED <<attempts, resolvedBy, ledger, handler, histVars>>

\* drainOnce's loop: take any next row (RETURNING has no order), or leave when
\* none is left or when ctx was cancelled with rows still claimed.
Drain(w) ==
    /\ pc[w] = "drain"
    /\ \/ \E row \in batch[w] :
            /\ cur' = [cur EXCEPT ![w] = row]
            /\ batch' = [batch EXCEPT ![w] = @ \ {row}]
            /\ Goto(w, "start")
            /\ UNCHANGED lock
            /\ NoFault
       \/ batch[w] = {} /\ EndPass(w) /\ NoFault
       \/ batch[w] # {} /\ EndPass(w) /\ Fault
    /\ UNCHANGED <<rowVars, ledger, handler, histVars>>

-----------------------------------------------------------------------------
(* Worker.processClaimed: one claimed row *)

\* Back to drainOnce's loop, or on to another step of the same row.
Proceed(w, label) ==
    /\ Goto(w, label)
    /\ cur' = IF label = "drain" THEN [cur EXCEPT ![w] = NoRow] ELSE cur
    /\ UNCHANGED <<lock, batch>>

\* UPDATE ... WHERE id = $1 AND status = 'replaying', through requireAffected:
\* no matching row is ErrStaleTransition.
UpdateClaimed(w, new, inc, onSuccess, onError) ==
    LET e == cur[w].id IN
    \/ /\ status[e] = "replaying"
       /\ status' = [status EXCEPT ![e] = new]
       /\ attempts' = [attempts EXCEPT ![e] = @ + inc]
       /\ \/ Proceed(w, onSuccess) /\ NoFault
          \/ Proceed(w, onError) /\ Fault
    \/ /\ status[e] # "replaying"
       /\ Proceed(w, onError)
       /\ UNCHANGED <<status, attempts, faults>>
    \/ Proceed(w, onError) /\ Fault /\ UNCHANGED <<status, attempts>>

MarkReplayFailed(w, onSuccess, onError) ==
    UpdateClaimed(w, "replay_failed", 0, onSuccess, onError)

MarkReplayed(w, onSuccess, onError) ==
    UpdateClaimed(w, "replayed", 1, onSuccess, onError)

ReturnToApproved(w, onSuccess, onError) ==
    UpdateClaimed(w, "approved", 1, onSuccess, onError)

Exhausted(row) == row.attempts > MaxReplayAttempts

\* Attempt limit first, then the policy re-check, whose verdict is free: deny
\* and every evaluation error block the replay.
StartReplay(w) ==
    /\ pc[w] = "start"
    /\ \/ Exhausted(cur[w]) /\ Proceed(w, "exhausted")
       \/ ~Exhausted(cur[w]) /\ Proceed(w, "blocked")
       \/ ~Exhausted(cur[w]) /\ Proceed(w, "announce")
    /\ UNCHANGED <<rowVars, ledger, handler, histVars, faults>>

ParkExhausted(w) ==
    /\ pc[w] = "exhausted"
    /\ MarkReplayFailed(w, "log_exhausted", "drain")
    /\ UNCHANGED <<resolvedBy, ledger, handler, histVars>>

ParkBlocked(w) ==
    /\ pc[w] = "blocked"
    /\ MarkReplayFailed(w, "log_blocked", "drain")
    /\ UNCHANGED <<resolvedBy, ledger, handler, histVars>>

\* Mutant: the call goes ahead although the append reported an error.
WriteAheadIgnored(w) ==
    LET e == cur[w].id IN
    /\ pc[w] = "announce"
    /\ Proceed(w, "post")
    /\ \/ /\ Append(e, "replay_started")
          /\ started' = [started EXCEPT ![e] = @ + 1]
          /\ NoFault
       \/ Fault /\ UNCHANGED <<ledger, started>>
    /\ UNCHANGED <<rowVars, handler, calls, accepted>>

\* The write-ahead entry.  An append that reports an error defers the replay
\* even when its row was committed.
WriteAhead(w) ==
    LET e == cur[w].id IN
    /\ pc[w] = "announce"
    /\ \/ /\ Append(e, "replay_started")
          /\ started' = [started EXCEPT ![e] = @ + 1]
          /\ \/ Proceed(w, "post") /\ NoFault
             \/ Proceed(w, "defer") /\ Fault
       \/ Proceed(w, "defer") /\ Fault /\ UNCHANGED <<ledger, started>>
    /\ UNCHANGED <<rowVars, handler, calls, accepted>>

Defer(w) ==
    /\ pc[w] = "defer"
    /\ ReturnToApproved(w, "drain", "drain")
    /\ UNCHANGED <<resolvedBy, ledger, handler, histVars>>

\* doReplay up to httpClient.Do, and its two kinds of result.
Post(w) ==
    /\ pc[w] = "post"
    /\ Proceed(w, "await")
    /\ calls' = [calls EXCEPT ![cur[w].id] = @ + 1]
    /\ UNCHANGED <<rowVars, ledger, handler, started, accepted, faults>>

Answered2xx(w) ==
    /\ pc[w] = "await"
    /\ Proceed(w, "succeeded")
    /\ accepted' = [accepted EXCEPT ![cur[w].id] = @ + 1]
    /\ UNCHANGED <<rowVars, ledger, handler, calls, started, faults>>

\* Another status code, a transport error, the 30s timeout or cancellation (the
\* upstream may still have executed the call), or no request could be built.
AnsweredError(w) ==
    /\ \/ pc[w] = "await" /\ NoFault
       \/ pc[w] = "post" /\ Fault
    /\ Proceed(w, "log_failed")
    /\ UNCHANGED <<rowVars, ledger, handler, histVars>>

\* Mutant: success is ledgered although MarkReplayed failed.
SucceedUnchecked(w) ==
    /\ pc[w] = "succeeded"
    /\ MarkReplayed(w, "log_replayed", "log_replayed")
    /\ UNCHANGED <<resolvedBy, ledger, handler, histVars>>

Succeed(w) ==
    /\ pc[w] = "succeeded"
    /\ MarkReplayed(w, "log_replayed", "drain")
    /\ UNCHANGED <<resolvedBy, ledger, handler, histVars>>

\* recordLedger: the append's error is only logged.
RecordOutcome(w, label, d, next) ==
    /\ pc[w] = label
    /\ Proceed(w, next)
    /\ \/ Append(cur[w].id, d) /\ NoFault
       \/ UNCHANGED ledger /\ Fault
    /\ UNCHANGED <<rowVars, handler, histVars>>

\* After a failed call: park the row at the limit, else release it for retry.
Release(w) ==
    /\ pc[w] = "release"
    /\ IF cur[w].attempts >= MaxReplayAttempts
         THEN MarkReplayFailed(w, "drain", "drain")
         ELSE ReturnToApproved(w, "drain", "drain")
    /\ UNCHANGED <<resolvedBy, ledger, handler, histVars>>

-----------------------------------------------------------------------------
(* Crashes and lock sessions *)

\* The process dies; its lock stays until Postgres ends the session.
Crash(w) ==
    /\ pc[w] # "idle"
    /\ Fault
    /\ Goto(w, "idle")
    /\ batch' = [batch EXCEPT ![w] = {}]
    /\ cur' = [cur EXCEPT ![w] = NoRow]
    /\ UNCHANGED <<rowVars, lock, ledger, handler, histVars>>

SessionEnds(w) ==
    /\ lock = w
    /\ \/ pc[w] = "idle" /\ NoFault
       \/ pc[w] # "idle" /\ LockMayDrop /\ Fault
    /\ lock' = Nobody
    /\ UNCHANGED <<rowVars, ledger, workerVars, handler, histVars>>

-----------------------------------------------------------------------------
WorkerStep(w) ==
    \/ TryLock(w)
    \/ Recover(w)
    \/ Claim(w)
    \/ Drain(w)
    \/ StartReplay(w)
    \/ ParkExhausted(w)
    \/ ParkBlocked(w)
    \/ WriteAhead(w)
    \/ Defer(w)
    \/ Post(w)
    \/ Answered2xx(w)
    \/ AnsweredError(w)
    \/ Succeed(w)
    \/ RecordOutcome(w, "log_exhausted", "replay_exhausted", "drain")
    \/ RecordOutcome(w, "log_blocked", "replay_blocked_by_policy", "drain")
    \/ RecordOutcome(w, "log_replayed", "approved_replayed", "drain")
    \/ RecordOutcome(w, "log_failed", "replay_error", "release")
    \/ Release(w)

Next ==
    \/ \E e \in Entries : Create(e)
    \/ \E r \in Reviewers, e \in Entries : Approve(r, e) \/ Deny(r, e)
    \/ \E r \in Reviewers : RecordDecision(r)
    \/ \E w \in Workers : WorkerStep(w) \/ Crash(w) \/ SessionEnds(w)

Spec == Init /\ [][Next]_vars

\* Run ticks every pollInterval, the HTTP client times out and Postgres ends
\* the sessions of dead processes.  Nobody has to review anything.
FairSpec ==
    /\ Spec
    /\ \A w \in Workers : WF_vars(WorkerStep(w)) /\ WF_vars(SessionEnds(w))

-----------------------------------------------------------------------------
(* Properties *)

\* Labels at which the row being processed has not been settled yet.
Unsettled == {"start", "exhausted", "blocked", "announce", "defer", "post",
              "await", "succeeded", "log_failed", "release"}

\* The rows worker w has claimed and not yet settled.
Claims(w) == batch[w] \cup (IF pc[w] \in Unsettled THEN {cur[w]} ELSE {})

\* A claim is exclusive and current: the row is 'replaying', no other worker
\* has claimed it, and the attempts and approver the worker read when it
\* claimed the row (ClaimApproved) are still those of the table when it acts
\* on them (the limit checks, X-Elodea-Approved-By).
ClaimsAreCurrent ==
    \A w \in Workers : \A row \in Claims(w) :
        /\ status[row.id] = "replaying"
        /\ row = RowOf(row.id)
        /\ \A v \in Workers \ {w} : \A other \in Claims(v) :
             other.id # row.id

\* One approval pays for at most maxReplayAttempts + 1 upstream calls, whatever
\* crashes, failed statements and lost replies happen in between
\* (processClaimed's limits together with RecoverStuckReplays' increment).
ReplayBudget == \A e \in Entries : calls[e] <= MaxReplayAttempts + 1

\* Nothing runs unaudited: since the latest approval, at least as many
\* replay_started rows were written for an entry as calls were made for it.
NothingRunsUnaudited == \A e \in Entries : calls[e] <= started[e]

\* The ledger reports only what happened: approved_replayed is recorded only
\* for a 'replayed' row that the upstream answered with 2xx, and denied only
\* for a row that is, and stays, denied.
LedgerTellsTruth ==
    \A e \in Entries :
        /\ "approved_replayed" \in ledger[e] => /\ status[e] = "replayed"
                                               /\ accepted[e] > 0
        /\ "denied" \in ledger[e] => status[e] = "denied"

\* A claimed row changes only by a step of the worker that claimed it: neither
\* crash recovery nor a reviewer touches the claim of a live worker.
OnlyClaimantMovesClaim ==
    [][\A w \in Workers : \A row \in Claims(w) :
         status'[row.id] # status[row.id] => pc'[w] # pc[w]]_vars

\* An approved entry is always settled: replayed, or parked for the reviewers.
\* It is neither forgotten nor wedged in 'replaying'.
ApprovedIsSettled ==
    \A e \in Entries :
        status[e] = "approved" ~> status[e] \in {"replayed", "replay_failed"}

Promise == INSTANCE HeldAction WITH state <- status

\* What a reviewer is promised about a held action: every entry follows the
\* state machine of store.go, is called only while it is being replayed and
\* within the budget of its latest approval, and is 'replayed' only after a call.
KeepsPromise == Promise!Spec

-----------------------------------------------------------------------------
(* The inductive invariant behind the safety properties, for workers that   *)
(* keep their lock session while they run (LockMayDrop = FALSE).             *)

\* Only the worker whose session holds the lock is inside a pass, and it holds
\* rows only in the part of the pass that follows the claim.
PassIsExclusive ==
    \A w \in Workers :
        /\ pc[w] # "idle" => lock = w
        /\ pc[w] \in {"idle", "recover", "claim"} => batch[w] = {}
        /\ pc[w] \notin {"idle", "recover", "claim", "drain"} =>
             cur[w] \in ClaimedRow

\* Claimed rows are 'replaying' and unchanged; the one being processed is no
\* longer among those still to be processed.
ClaimsMatchTable ==
    \A w \in Workers :
        /\ \A row \in batch[w] :
             /\ status[row.id] = "replaying"
             /\ row = RowOf(row.id)
             /\ pc[w] \in Unsettled => row.id # cur[w].id
        /\ pc[w] \in Unsettled =>
             /\ status[cur[w].id] = "replaying"
             /\ cur[w] = RowOf(cur[w].id)

\* attempts accounts for every call: none is unpaid while an entry is approved
\* or claimed and not called yet, at most one while it is 'replaying'.
AttemptsPayForCalls ==
    /\ \A e \in Entries :
         /\ status[e] = "approved" => calls[e] <= attempts[e]
         /\ status[e] = "replaying" => calls[e] <= attempts[e] + 1
         /\ calls[e] <= MaxReplayAttempts + 1
    /\ \A w \in Workers :
         /\ \A row \in batch[w] : calls[row.id] <= row.attempts
         /\ pc[w] \in {"start", "exhausted", "blocked", "announce", "defer",
                       "post"} => calls[cur[w].id] <= cur[w].attempts
         /\ pc[w] \in {"announce", "post"} =>
              cur[w].attempts <= MaxReplayAttempts

\* Between its write-ahead entry and its call a worker is one entry ahead, and
\* it hears an answer only to a call that was made.
AuditIsAhead ==
    /\ \A e \in Entries : calls[e] <= started[e]
    /\ \A w \in Workers :
         /\ pc[w] = "post" => calls[cur[w].id] < started[cur[w].id]
         /\ pc[w] \in {"await", "succeeded"} => calls[cur[w].id] > 0

\* A worker about to ledger approved_replayed got its 2xx answer and marked the
\* row 'replayed', which no step undoes.
OutcomesAreTrue ==
    \A w \in Workers :
        /\ pc[w] \in {"succeeded", "log_replayed"} => accepted[cur[w].id] > 0
        /\ pc[w] = "log_replayed" => status[cur[w].id] = "replayed"

\* A reviewer request about to ledger denied has denied its row, for good.
DenialsAreTrue ==
    \A r \in Reviewers :
        handler[r] # NoRequest /\ handler[r].decision = "denied" =>
            status[handler[r].id] = "denied"

\* TypeOK and the invariants above, preserved together by every step.
IInv ==
    /\ TypeOK
    /\ PassIsExclusive
    /\ ClaimsMatchTable
    /\ AttemptsPayForCalls
    /\ AuditIsAhead
    /\ OutcomesAreTrue
    /\ DenialsAreTrue
    /\ LedgerTellsTruth

-----------------------------------------------------------------------------
(* What the documentation says of the queue, and the code does not keep *)

\* docs/API.md:107, the replay lock: "crash recovery cannot reset another live
\* worker's claim".
RecoveryKeepsLiveClaims ==
    \A w \in Workers : \A row \in Claims(w) : status[row.id] = "replaying"

=============================================================================

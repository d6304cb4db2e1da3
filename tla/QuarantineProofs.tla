-------------------------- MODULE QuarantineProofs --------------------------
(***************************************************************************)
(* Proofs about Quarantine, for every value of its constants.  Workers are   *)
(* assumed to keep their lock session while a pass runs (LockMayDrop =      *)
(* FALSE).  Each conjunct of the inductive invariant IInv has a lemma that   *)
(* says every step preserves it, with one case per action.                  *)
(***************************************************************************)
EXTENDS Quarantine, TLAPS

\* ClaimApproved takes only approved rows, and the copies it returns are rows
\* of the table.
LEMMA ClaimableRows ==
  ASSUME TypeOK
  PROVE  /\ Claimable \subseteq Entries
         /\ \A e \in Claimable :
              status[e] = "approved" /\ RowOf(e) \in ClaimedRow
BY Zenon DEF Claimable, RowOf, ClaimedRow, TypeOK

\* While a worker processes a row, its copy of that row has an id and an
\* attempts count of the table.
LEMMA CurrentRow ==
  ASSUME TypeOK, PassIsExclusive, NEW w \in Workers,
         pc[w] \notin {"idle", "recover", "claim", "drain"}
  PROVE  cur[w].id \in Entries /\ cur[w].attempts \in Nat
BY Zenon DEF PassIsExclusive, ClaimedRow

\* The counters of calls, answers and write-ahead rows after the steps that
\* advance them.
LEMMA CountUp ==
  ASSUME NEW f \in [Entries -> Nat], NEW g, NEW e \in Entries,
         g = [f EXCEPT ![e] = @ + 1]
  PROVE  /\ g \in [Entries -> Nat]
         /\ g[e] = f[e] + 1 /\ g[e] > 0 /\ f[e] \in Nat
         /\ \A d \in Entries \ {e} : g[d] = f[d]
OBVIOUS

\* A POST adds one call to the entry of the claimed row (doReplay).
LEMMA PostCounts ==
  ASSUME TypeOK, PassIsExclusive, NEW w \in Workers, Post(w)
  PROVE  /\ cur[w].id \in Entries
         /\ calls' \in [Entries -> Nat] /\ calls[cur[w].id] \in Nat
         /\ calls'[cur[w].id] = calls[cur[w].id] + 1
         /\ \A e \in Entries \ {cur[w].id} : calls'[e] = calls[e]
<1>1. cur[w].id \in Entries
  BY CurrentRow, Zenon DEF Post
<1>2. calls \in [Entries -> Nat]
  BY Zenon DEF TypeOK
<1> QED
  BY <1>1, <1>2, CountUp, Zenon DEF Post

\* A 2xx answer adds one acceptance to that entry (doReplay).
LEMMA AnswerCounts ==
  ASSUME TypeOK, PassIsExclusive, NEW w \in Workers, Answered2xx(w)
  PROVE  /\ cur[w].id \in Entries
         /\ accepted' \in [Entries -> Nat] /\ accepted'[cur[w].id] > 0
         /\ \A e \in Entries \ {cur[w].id} : accepted'[e] = accepted[e]
<1>1. cur[w].id \in Entries
  BY CurrentRow, Zenon DEF Answered2xx
<1>2. accepted \in [Entries -> Nat]
  BY Zenon DEF TypeOK
<1> QED
  BY <1>1, <1>2, CountUp, Zenon DEF Answered2xx

\* The write-ahead append adds at most one replay_started row to that entry.
LEMMA WriteAheadCounts ==
  ASSUME TypeOK, PassIsExclusive, NEW w \in Workers, WriteAhead(w)
  PROVE  /\ cur[w].id \in Entries /\ calls[cur[w].id] \in Nat
         /\ started[cur[w].id] \in Nat
         /\ UNCHANGED <<calls, cur>>
         /\ \/ UNCHANGED started /\ pc'[w] = "defer"
            \/ /\ pc'[w] \in {"defer", "post"}
               /\ started'[cur[w].id] = started[cur[w].id] + 1
               /\ \A e \in Entries \ {cur[w].id} : started'[e] = started[e]
<1>1. cur[w].id \in Entries
  BY CurrentRow, Zenon DEF WriteAhead
<1>2. started \in [Entries -> Nat] /\ calls \in [Entries -> Nat]
  BY Zenon DEF TypeOK
<1>3. pc \in [Workers -> Labels]
  BY Zenon DEF TypeOK
<1> QED
  BY <1>1, <1>2, <1>3, CountUp DEF WriteAhead, Proceed, Goto

\* Every step keeps the variables in their domains.
LEMMA TypeStep ==
  ASSUME LockMayDrop = FALSE, IInv, [Next]_vars
  PROVE  TypeOK'
<1>a. \A w \in Workers : Post(w) => calls' \in [Entries -> Nat]
  BY PostCounts, Zenon DEF IInv
<1>b. \A w \in Workers : Answered2xx(w) => accepted' \in [Entries -> Nat]
  BY AnswerCounts, Zenon DEF IInv
<1> USE QuarantineAssumption
    DEF IInv, Fault, NoFault, rowVars, workerVars, histVars, TypeOK, Labels
<1>1. CASE \E e \in Entries : Create(e)
  BY <1>1, Zenon DEF Create, Status
<1>2. CASE \E r \in Reviewers, e \in Entries : Approve(r, e)
  BY <1>2 DEF Approve, Decided, Status, Request
<1>3. CASE \E r \in Reviewers, e \in Entries : Deny(r, e)
  BY <1>3 DEF Deny, Decided, Status, Request
<1>4. CASE \E r \in Reviewers : RecordDecision(r)
  BY <1>4 DEF RecordDecision, Append, Request, Decisions
<1>5. ASSUME NEW w \in Workers,
             WorkerStep(w) \/ Crash(w) \/ SessionEnds(w)
      PROVE  TypeOK'
  <2>1. CASE TryLock(w)
    BY <2>1, Zenon DEF TryLock, Goto
  <2>2. CASE Recover(w)
    BY <2>2 DEF Status, Recover, RecoverStuckReplays, Replaying, EndPass, Goto
  <2>3. CASE Claim(w)
    BY ClaimableRows, <2>3 DEF Status, Claim, ClaimApproved, EndPass, Goto
  <2>4. CASE Drain(w)
    BY <2>4 DEF Drain, EndPass, Goto
  <2>5. CASE StartReplay(w)
    BY <2>5, Zenon DEF StartReplay, Exhausted, Proceed, Goto
  <2>6. CASE ParkExhausted(w)
    BY <2>6
    DEF Status, ParkExhausted, MarkReplayFailed, UpdateClaimed, Proceed, Goto
  <2>7. CASE ParkBlocked(w)
    BY <2>7
    DEF Status, ParkBlocked, MarkReplayFailed, UpdateClaimed, Proceed, Goto
  <2>8. CASE WriteAhead(w)
    BY CurrentRow, <2>8 DEF Decisions, WriteAhead, Append, Proceed, Goto
  <2>9. CASE Defer(w)
    <3>1. cur[w].id \in Entries
      BY <2>9, CurrentRow, Zenon DEF Defer
    <3>2. /\ status' \in [Entries -> Status]
          /\ attempts' \in [Entries -> Nat]
      BY <2>9, <3>1 DEF Defer, ReturnToApproved, UpdateClaimed, Status
    <3> QED
      BY <2>9, <3>2 DEF Defer, ReturnToApproved, UpdateClaimed, Proceed, Goto
  <2>10. CASE Post(w)
    BY <1>a, <2>10, Zenon DEF Post, Proceed, Goto
  <2>11. CASE Answered2xx(w)
    BY <1>b, <2>11, Zenon DEF Answered2xx, Proceed, Goto
  <2>12. CASE AnsweredError(w)
    BY <2>12 DEF AnsweredError, Proceed, Goto
  <2>13. CASE Succeed(w)
    BY <2>13 DEF Status, Succeed, MarkReplayed, UpdateClaimed, Proceed, Goto
  <2>14. CASE RecordOutcome(w, "log_exhausted", "replay_exhausted", "drain")
    BY <2>14 DEF Decisions, RecordOutcome, Append, Proceed, Goto
  <2>15. CASE RecordOutcome(w, "log_blocked", "replay_blocked_by_policy", "drain")
    BY <2>15 DEF Decisions, RecordOutcome, Append, Proceed, Goto
  <2>16. CASE RecordOutcome(w, "log_replayed", "approved_replayed", "drain")
    BY <2>16 DEF Decisions, RecordOutcome, Append, Proceed, Goto
  <2>17. CASE RecordOutcome(w, "log_failed", "replay_error", "release")
    BY <2>17 DEF Decisions, RecordOutcome, Append, Proceed, Goto
  <2>18. CASE Release(w)
    BY <2>18
    DEF Status, Release, MarkReplayFailed, ReturnToApproved, UpdateClaimed,
        Proceed,
        Goto
  <2>19. CASE Crash(w)
    BY <2>19 DEF Crash, Goto
  <2>20. CASE SessionEnds(w)
    BY <2>20, Zenon DEF SessionEnds, Goto
  <2> HIDE DEF TypeOK
  <2> QED
    BY <1>5, <2>1, <2>2, <2>3, <2>4, <2>5, <2>6, <2>7, <2>8, <2>9, <2>10,
       <2>11, <2>12, <2>13, <2>14, <2>15, <2>16, <2>17, <2>18, <2>19, <2>20, Zenon
    DEF WorkerStep
<1>6. CASE UNCHANGED vars
  BY <1>6, Zenon DEF vars
<1> HIDE DEF TypeOK
<1> QED
  BY <1>1, <1>2, <1>3, <1>4, <1>5, <1>6, Zenon DEF Next

\* Every step keeps the pass exclusive: TryLock needs a free lock, and only a
\* worker that has left its pass (or, excluded here, lost its session) gives
\* the lock back.
LEMMA PassStep ==
  ASSUME LockMayDrop = FALSE, IInv, [Next]_vars
  PROVE  PassIsExclusive'
<1> USE QuarantineAssumption
    DEF IInv, Fault, NoFault, rowVars, workerVars, histVars, TypeOK,
        PassIsExclusive
<1>1. CASE \E e \in Entries : Create(e)
  BY <1>1, Zenon DEF Create
<1>2. CASE \E r \in Reviewers, e \in Entries : Approve(r, e)
  BY <1>2, Zenon DEF Approve, Decided
<1>3. CASE \E r \in Reviewers, e \in Entries : Deny(r, e)
  BY <1>3, Zenon DEF Deny, Decided
<1>4. CASE \E r \in Reviewers : RecordDecision(r)
  BY <1>4, Zenon DEF RecordDecision, Append, Request
<1>5. ASSUME NEW w \in Workers,
             WorkerStep(w) \/ Crash(w) \/ SessionEnds(w)
      PROVE  PassIsExclusive'
  <2>1. CASE TryLock(w)
    BY <2>1, Zenon DEF TryLock, Goto
  <2>2. CASE Recover(w)
    BY <2>2 DEF Recover, RecoverStuckReplays, Replaying, EndPass, Goto
  <2>3. CASE Claim(w)
    BY ClaimableRows, <2>3 DEF Claim, ClaimApproved, EndPass, Goto
  <2>4. CASE Drain(w)
    BY <2>4 DEF Drain, EndPass, Goto
  <2>5. CASE StartReplay(w)
    BY <2>5, Zenon DEF StartReplay, Exhausted, Proceed, Goto
  <2>6. CASE ParkExhausted(w)
    BY <2>6 DEF ParkExhausted, MarkReplayFailed, UpdateClaimed, Proceed, Goto
  <2>7. CASE ParkBlocked(w)
    BY <2>7 DEF ParkBlocked, MarkReplayFailed, UpdateClaimed, Proceed, Goto
  <2>8. CASE WriteAhead(w)
    BY CurrentRow, <2>8 DEF WriteAhead, Append, Proceed, Goto
  <2>9. CASE Defer(w)
    BY <2>9, Zenon DEF Defer, ReturnToApproved, UpdateClaimed, Proceed, Goto
  <2>10. CASE Post(w)
    BY CurrentRow, <2>10, Zenon DEF Post, Proceed, Goto
  <2>11. CASE Answered2xx(w)
    BY CurrentRow, <2>11, Zenon DEF Answered2xx, Proceed, Goto
  <2>12. CASE AnsweredError(w)
    BY <2>12, Zenon DEF AnsweredError, Proceed, Goto
  <2>13. CASE Succeed(w)
    BY <2>13 DEF Succeed, MarkReplayed, UpdateClaimed, Proceed, Goto
  <2>14. CASE RecordOutcome(w, "log_exhausted", "replay_exhausted", "drain")
    BY <2>14, Zenon DEF RecordOutcome, Append, Proceed, Goto
  <2>15. CASE RecordOutcome(w, "log_blocked", "replay_blocked_by_policy", "drain")
    BY <2>15, Zenon DEF RecordOutcome, Append, Proceed, Goto
  <2>16. CASE RecordOutcome(w, "log_replayed", "approved_replayed", "drain")
    BY <2>16, Zenon DEF RecordOutcome, Append, Proceed, Goto
  <2>17. CASE RecordOutcome(w, "log_failed", "replay_error", "release")
    BY <2>17, Zenon DEF RecordOutcome, Append, Proceed, Goto
  <2>18. CASE Release(w)
    BY <2>18, Zenon
    DEF Release, MarkReplayFailed, ReturnToApproved, UpdateClaimed, Proceed,
        Goto
  <2>19. CASE Crash(w)
    BY <2>19, Zenon DEF Crash, Goto
  <2>20. CASE SessionEnds(w)
    BY <2>20, Zenon DEF SessionEnds, Goto
  <2> HIDE DEF PassIsExclusive
  <2> QED
    BY <1>5, <2>1, <2>2, <2>3, <2>4, <2>5, <2>6, <2>7, <2>8, <2>9, <2>10,
       <2>11, <2>12, <2>13, <2>14, <2>15, <2>16, <2>17, <2>18, <2>19, <2>20, Zenon
    DEF WorkerStep
<1>6. CASE UNCHANGED vars
  BY <1>6, Zenon DEF vars
<1> HIDE DEF PassIsExclusive
<1> QED
  BY <1>1, <1>2, <1>3, <1>4, <1>5, <1>6, Zenon DEF Next

\* Every step keeps claims and table in agreement: reviewers cannot move a
\* 'replaying' row, and RecoverStuckReplays runs only when nobody holds a
\* claim.
LEMMA ClaimsStep ==
  ASSUME LockMayDrop = FALSE, IInv, [Next]_vars
  PROVE  ClaimsMatchTable'
<1> USE QuarantineAssumption
    DEF IInv, Fault, NoFault, rowVars, workerVars, histVars, TypeOK,
        PassIsExclusive, ClaimsMatchTable, ClaimedRow, RowOf, Unsettled
<1>1. CASE \E e \in Entries : Create(e)
  BY <1>1 DEF Create
<1>2. CASE \E r \in Reviewers, e \in Entries : Approve(r, e)
  BY <1>2 DEF Approve, Decided
<1>3. CASE \E r \in Reviewers, e \in Entries : Deny(r, e)
  BY <1>3 DEF Deny, Decided
<1>4. CASE \E r \in Reviewers : RecordDecision(r)
  BY <1>4 DEF RecordDecision, Append, Request
<1>5. ASSUME NEW w \in Workers,
             WorkerStep(w) \/ Crash(w) \/ SessionEnds(w)
      PROVE  ClaimsMatchTable'
  <2>1. CASE TryLock(w)
    BY <2>1 DEF TryLock, Goto
  <2>2. CASE Recover(w)
    BY <2>2 DEF Recover, RecoverStuckReplays, Replaying, EndPass, Goto
  <2>3. CASE Claim(w)
    BY ClaimableRows, <2>3 DEF Claim, ClaimApproved, EndPass, Goto
  <2>4. CASE Drain(w)
    BY <2>4 DEF Drain, EndPass, Goto
  <2>5. CASE StartReplay(w)
    BY <2>5 DEF StartReplay, Exhausted, Proceed, Goto
  <2>6. CASE ParkExhausted(w)
    BY <2>6 DEF ParkExhausted, MarkReplayFailed, UpdateClaimed, Proceed, Goto
  <2>7. CASE ParkBlocked(w)
    BY <2>7 DEF ParkBlocked, MarkReplayFailed, UpdateClaimed, Proceed, Goto
  <2>8. CASE WriteAhead(w)
    BY CurrentRow, <2>8 DEF WriteAhead, Append, Proceed, Goto
  <2>9. CASE Defer(w)
    BY <2>9 DEF Defer, ReturnToApproved, UpdateClaimed, Proceed, Goto
  <2>10. CASE Post(w)
    BY CurrentRow, <2>10 DEF Post, Proceed, Goto
  <2>11. CASE Answered2xx(w)
    BY CurrentRow, <2>11 DEF Answered2xx, Proceed, Goto
  <2>12. CASE AnsweredError(w)
    BY <2>12 DEF AnsweredError, Proceed, Goto
  <2>13. CASE Succeed(w)
    BY <2>13 DEF Succeed, MarkReplayed, UpdateClaimed, Proceed, Goto
  <2>14. CASE RecordOutcome(w, "log_exhausted", "replay_exhausted", "drain")
    BY <2>14 DEF RecordOutcome, Append, Proceed, Goto
  <2>15. CASE RecordOutcome(w, "log_blocked", "replay_blocked_by_policy", "drain")
    BY <2>15 DEF RecordOutcome, Append, Proceed, Goto
  <2>16. CASE RecordOutcome(w, "log_replayed", "approved_replayed", "drain")
    BY <2>16 DEF RecordOutcome, Append, Proceed, Goto
  <2>17. CASE RecordOutcome(w, "log_failed", "replay_error", "release")
    BY <2>17 DEF RecordOutcome, Append, Proceed, Goto
  <2>18. CASE Release(w)
    BY <2>18
    DEF Release, MarkReplayFailed, ReturnToApproved, UpdateClaimed, Proceed,
        Goto
  <2>19. CASE Crash(w)
    BY <2>19 DEF Crash, Goto
  <2>20. CASE SessionEnds(w)
    BY <2>20, Zenon DEF SessionEnds, Goto
  <2> HIDE DEF ClaimsMatchTable
  <2> QED
    BY <1>5, <2>1, <2>2, <2>3, <2>4, <2>5, <2>6, <2>7, <2>8, <2>9, <2>10,
       <2>11, <2>12, <2>13, <2>14, <2>15, <2>16, <2>17, <2>18, <2>19, <2>20, Zenon
    DEF WorkerStep
<1>6. CASE UNCHANGED vars
  BY <1>6 DEF vars
<1> HIDE DEF ClaimsMatchTable
<1> QED
  BY <1>1, <1>2, <1>3, <1>4, <1>5, <1>6, Zenon DEF Next

\* Every step keeps attempts paying for calls: whatever moves a row out of
\* 'replaying' after its call counts the call, or parks the row.
LEMMA BudgetStep ==
  ASSUME LockMayDrop = FALSE, IInv, [Next]_vars
  PROVE  AttemptsPayForCalls'
<1>a. \A e \in Claimable : e \in Entries /\ status[e] = "approved"
  BY ClaimableRows, Zenon DEF IInv
<1> DEFINE Uncalled == {"start", "exhausted", "blocked", "announce", "defer", "post"}
<1>b. /\ pc \in [Workers -> Labels] /\ cur \in [Workers -> ClaimedRow \cup {NoRow}]
      /\ batch \in [Workers -> SUBSET ClaimedRow]
  BY Zenon DEF IInv, TypeOK
<1>c. ASSUME UNCHANGED <<status, attempts, calls>>,
             \A v \in Workers :
               /\ batch'[v] \subseteq batch[v]
               /\ pc'[v] \in Uncalled => pc[v] \in Uncalled /\ cur'[v] = cur[v]
               /\ pc'[v] \in {"announce", "post"} => pc[v] \in {"announce", "post"}
      PROVE  AttemptsPayForCalls'
  BY <1>c, Zenon DEF IInv, AttemptsPayForCalls
<1>d. ASSUME NEW w \in Workers,
             \/ TryLock(w) \/ WriteAhead(w) \/ Answered2xx(w) \/ AnsweredError(w)
             \/ \E label, d, next : /\ RecordOutcome(w, label, d, next)
                                   /\ next \in {"drain", "release"}
             \/ Crash(w) \/ SessionEnds(w)
      PROVE  AttemptsPayForCalls'
  <2>1. UNCHANGED <<status, attempts, calls>>
    BY <1>d, ZenonT(30)
    DEF TryLock, WriteAhead, Answered2xx, AnsweredError, RecordOutcome, Crash,
        SessionEnds, rowVars, histVars
  <2>2. \A v \in Workers : batch'[v] \subseteq batch[v]
    BY <1>b, <1>d, ZenonT(30)
    DEF TryLock, WriteAhead, Answered2xx, AnsweredError, RecordOutcome, Crash,
        SessionEnds, Proceed, workerVars
  <2>3. \A v \in Workers :
          /\ pc'[v] \in Uncalled => pc[v] \in Uncalled /\ cur'[v] = cur[v]
          /\ pc'[v] \in {"announce", "post"} => pc[v] \in {"announce", "post"}
    BY <1>b, <1>d, ZenonT(30)
    DEF TryLock, WriteAhead, Answered2xx, AnsweredError, RecordOutcome, Crash,
        SessionEnds, Proceed, Goto, workerVars
  <2> QED
    BY <1>c, <2>1, <2>2, <2>3, Zenon
<1>e. CASE (\E r \in Reviewers : RecordDecision(r)) \/ UNCHANGED vars
  <2>1. UNCHANGED <<status, attempts, calls, batch, pc, cur>>
    BY <1>e, Zenon DEF RecordDecision, vars, rowVars, workerVars, histVars
  <2> QED
    BY <1>c, <2>1, Zenon
<1> USE QuarantineAssumption
    DEF IInv, Fault, NoFault, rowVars, workerVars, histVars, TypeOK,
        PassIsExclusive, ClaimsMatchTable, AttemptsPayForCalls, ClaimedRow,
        RowOf, Unsettled
<1>1. CASE \E e \in Entries : Create(e)
  BY <1>1 DEF Create
<1>2. CASE \E r \in Reviewers, e \in Entries : Approve(r, e)
  BY <1>2 DEF Approve, Decided
<1>3. CASE \E r \in Reviewers, e \in Entries : Deny(r, e)
  BY <1>3 DEF Deny, Decided
<1>4. ASSUME NEW w \in Workers,
             WorkerStep(w) \/ Crash(w) \/ SessionEnds(w)
      PROVE  AttemptsPayForCalls'
  <2>1. CASE Recover(w)
    BY <2>1 DEF Recover, RecoverStuckReplays, Replaying, EndPass, Goto
  <2>2. CASE Claim(w)
    <3>1. UNCHANGED <<attempts, resolvedBy, calls>>
      BY <2>2, Zenon DEF Claim
    <3>2. \A e \in Entries : status'[e] = "approved" => status[e] = "approved"
      BY <1>a, <2>2 DEF Claim, ClaimApproved
    <3>3. \A e \in Entries : status'[e] = "replaying" =>
              status[e] \in {"approved", "replaying"}
      BY <1>a, <2>2 DEF Claim, ClaimApproved
    <3>4. \A v \in Workers : \A row \in batch'[v] :
              calls[row.id] <= row.attempts
      <4>1. \A e \in Claimable :
              calls[e] <= RowOf(e).attempts /\ RowOf(e).id = e
        BY <1>a, Zenon
      <4>2. batch'[w] \subseteq {RowOf(e) : e \in Claimable}
        BY <2>2 DEF Claim, EndPass
      <4>3. \A v \in Workers \ {w} : batch'[v] = batch[v]
        BY <2>2 DEF Claim, EndPass
      <4> QED
        BY <4>1, <4>2, <4>3
    <3>5. \A v \in Workers : pc'[v] \notin {"idle", "drain"} =>
              pc'[v] = pc[v] /\ cur'[v] = cur[v]
      BY <2>2 DEF Claim, EndPass, Goto
    <3>6. \A e \in Entries :
              /\ status'[e] = "approved" => calls'[e] <= attempts'[e]
              /\ status'[e] = "replaying" => calls'[e] <= attempts'[e] + 1
              /\ calls'[e] <= MaxReplayAttempts + 1
      BY <3>1, <3>2, <3>3
    <3> HIDE DEF TypeOK, PassIsExclusive, ClaimsMatchTable, ClaimedRow, RowOf
    <3> QED
      BY <3>1, <3>4, <3>5, <3>6, Zenon
  <2>3. CASE Drain(w)
    BY <2>3 DEF Drain, EndPass, Goto
  <2>4. CASE StartReplay(w)
    BY <2>4 DEF StartReplay, Exhausted, Proceed, Goto
  <2>5. CASE ParkExhausted(w)
    BY <2>5 DEF ParkExhausted, MarkReplayFailed, UpdateClaimed, Proceed, Goto
  <2>6. CASE ParkBlocked(w)
    BY <2>6 DEF ParkBlocked, MarkReplayFailed, UpdateClaimed, Proceed, Goto
  <2>7. CASE Defer(w)
    BY <2>7 DEF Defer, ReturnToApproved, UpdateClaimed, Proceed, Goto
  <2>8. CASE Post(w)
    BY CurrentRow, <2>8 DEF Post, Proceed, Goto
  <2>9. CASE Succeed(w)
    BY <2>9 DEF Succeed, MarkReplayed, UpdateClaimed, Proceed, Goto
  <2>10. CASE Release(w)
    BY <2>10
    DEF Release, MarkReplayFailed, ReturnToApproved, UpdateClaimed, Proceed,
        Goto
  <2> HIDE DEF AttemptsPayForCalls
  <2> QED
    BY <1>d, <1>4, <2>1, <2>2, <2>3, <2>4, <2>5, <2>6, <2>7, <2>8, <2>9,
       <2>10, Zenon
    DEF WorkerStep
<1> HIDE DEF AttemptsPayForCalls
<1> QED
  BY <1>1, <1>2, <1>3, <1>4, <1>e, Zenon DEF Next

\* Every step keeps replay_started rows ahead of calls.
LEMMA AuditStep ==
  ASSUME LockMayDrop = FALSE, IInv, [Next]_vars
  PROVE  AuditIsAhead'
<1>a. ASSUME NEW w \in Workers, WriteAhead(w)
      PROVE  /\ UNCHANGED <<calls, cur>>
             /\ pc'[w] \in {"post", "defer"}
             /\ \A e \in Entries : calls[e] <= started'[e]
             /\ pc'[w] = "post" => calls[cur[w].id] < started'[cur[w].id]
  BY <1>a, WriteAheadCounts DEF IInv, AuditIsAhead
<1>b. ASSUME NEW w \in Workers, Post(w)
      PROVE  /\ UNCHANGED <<started, cur>>
             /\ pc'[w] = "await"
             /\ \A e \in Entries : calls'[e] <= started[e]
             /\ calls'[cur[w].id] > 0
  <2>1. /\ UNCHANGED <<started, cur>>
        /\ pc[w] = "post" /\ pc'[w] = "await"
    BY <1>b, Zenon DEF Post, Proceed, Goto, IInv, TypeOK
  <2>2. calls[cur[w].id] < started[cur[w].id]
    BY <2>1, Zenon DEF IInv, AuditIsAhead
  <2>3. \A e \in Entries : calls[e] <= started[e] /\ started[e] \in Nat
    BY Zenon DEF IInv, AuditIsAhead, TypeOK
  <2>4. /\ cur[w].id \in Entries /\ calls[cur[w].id] \in Nat
        /\ calls'[cur[w].id] = calls[cur[w].id] + 1
        /\ \A e \in Entries \ {cur[w].id} : calls'[e] = calls[e]
    BY <1>b, PostCounts, Zenon DEF IInv
  <2> QED
    BY <2>1, <2>2, <2>3, <2>4
<1>c. \A v \in Workers : pc[v] # "idle" => lock = v
  BY Zenon DEF IInv, PassIsExclusive
<1>d. pc \in [Workers -> Labels] /\ cur \in [Workers -> ClaimedRow \cup {NoRow}]
  BY Zenon DEF IInv, TypeOK
<1>1. ASSUME UNCHANGED <<calls, started>>,
             \A v \in Workers : pc'[v] \in {"post", "await", "succeeded"} =>
               /\ pc'[v] = pc[v] \/ (pc[v] = "await" /\ pc'[v] = "succeeded")
               /\ cur'[v] = cur[v]
      PROVE  AuditIsAhead'
  BY <1>1, Zenon DEF IInv, AuditIsAhead
<1>2. ASSUME NEW w \in Workers, WriteAhead(w)
      PROVE  AuditIsAhead'
  <2>1. \A v \in Workers \ {w} : pc'[v] = "idle"
    BY <1>2, <1>c, Zenon DEF WriteAhead, Proceed, Goto, IInv, TypeOK
  <2> QED
    BY <1>a, <1>2, <2>1, Zenon DEF AuditIsAhead
<1>3. ASSUME NEW w \in Workers, Post(w)
      PROVE  AuditIsAhead'
  <2>1. \A v \in Workers \ {w} : pc'[v] = "idle"
    BY <1>3, <1>c, Zenon DEF Post, Proceed, Goto, IInv, TypeOK
  <2> QED
    BY <1>b, <1>3, <2>1, Zenon DEF AuditIsAhead
<1>4. ASSUME NEW w \in Workers, Answered2xx(w)
      PROVE  AuditIsAhead'
  <2>1. UNCHANGED <<calls, started, cur>> /\ pc[w] = "await"
    BY <1>4, Zenon DEF Answered2xx, Proceed
  <2>2. \A v \in Workers :
          pc'[v] = pc[v] \/ (pc[v] = "await" /\ pc'[v] = "succeeded")
    BY <1>d, <1>4, Zenon DEF Answered2xx, Proceed, Goto
  <2> QED
    BY <1>1, <2>1, <2>2, Zenon
<1>5. ASSUME NEW w \in Workers, WorkerStep(w) \/ Crash(w) \/ SessionEnds(w),
             ~ WriteAhead(w), ~ Post(w), ~ Answered2xx(w)
      PROVE  AuditIsAhead'
  <2>1. UNCHANGED <<calls, started>>
    BY <1>5, ZenonT(30)
    DEF WorkerStep, TryLock, Recover, Claim, Drain, StartReplay, ParkExhausted,
        ParkBlocked, Defer, AnsweredError, Succeed, RecordOutcome,
        Release, Crash, SessionEnds, histVars
  <2>2. \A v \in Workers : pc'[v] \in {"post", "await", "succeeded"} =>
                            pc'[v] = pc[v] /\ cur'[v] = cur[v]
    BY <1>d, <1>5, ZenonT(30)
    DEF WorkerStep, TryLock, Recover, Claim, Drain, StartReplay, ParkExhausted,
        ParkBlocked, Defer, AnsweredError, Succeed, RecordOutcome, Release,
        Crash, SessionEnds, MarkReplayFailed, ReturnToApproved, MarkReplayed,
        UpdateClaimed, Proceed, Goto, EndPass, workerVars
  <2> QED
    BY <1>1, <2>1, <2>2, Zenon
<1>6. CASE UNCHANGED <<calls, started, pc, cur>>
  <2>1. /\ UNCHANGED <<calls, started>>
        /\ \A v \in Workers : pc'[v] = pc[v] /\ cur'[v] = cur[v]
    BY <1>6, Zenon
  <2> QED
    BY <1>1, <2>1, Zenon
<1>7. ASSUME NEW e \in Entries, Create(e)
      PROVE  AuditIsAhead'
  BY <1>6, <1>7, Zenon DEF workerVars, histVars, Create
<1>8. ASSUME NEW r \in Reviewers, NEW e \in Entries, Approve(r, e)
      PROVE  AuditIsAhead'
  <2>1. /\ status[e] # "replaying" /\ UNCHANGED <<pc, cur>>
        /\ calls' = [calls EXCEPT ![e] = 0] /\ started' = [started EXCEPT ![e] = 0]
    BY <1>8, Zenon DEF Approve, workerVars
  <2>2. calls \in [Entries -> Nat] /\ started \in [Entries -> Nat]
    BY Zenon DEF IInv, TypeOK
  <2>3. /\ calls'[e] = 0 /\ started'[e] = 0
        /\ \A d \in Entries \ {e} : calls'[d] = calls[d] /\ started'[d] = started[d]
    BY <2>1, <2>2, Zenon
  <2>4. \A d \in Entries : calls'[d] <= started'[d]
    BY <2>3 DEF IInv, AuditIsAhead
  <2>5. ASSUME NEW v \in Workers, pc[v] \in {"post", "await", "succeeded"}
        PROVE  cur[v].id \in Entries \ {e}
    BY <2>1, <2>5, CurrentRow, Zenon DEF IInv, ClaimsMatchTable, Unsettled
  <2> QED
    BY <2>1, <2>3, <2>4, <2>5, Zenon DEF IInv, AuditIsAhead
<1>9. ASSUME NEW r \in Reviewers, NEW e \in Entries, Deny(r, e)
      PROVE  AuditIsAhead'
  BY <1>6, <1>9, Zenon DEF workerVars, histVars, Deny
<1>10. ASSUME NEW r \in Reviewers, RecordDecision(r)
      PROVE  AuditIsAhead'
  BY <1>6, <1>10, Zenon DEF workerVars, histVars, RecordDecision
<1>11. CASE UNCHANGED vars
  BY <1>6, <1>11, Zenon DEF workerVars, histVars, vars
<1> QED
  BY <1>2, <1>3, <1>4, <1>5, <1>7, <1>8, <1>9, <1>10, <1>11, Zenon DEF Next

\* 'denied' and 'replayed' are final, and 2xx answers are never taken back.
LEMMA FinalStatesStay ==
  ASSUME IInv, [Next]_vars
  PROVE  \A e \in Entries :
           /\ status[e] \in {"denied", "replayed"} => status'[e] = status[e]
           /\ accepted[e] > 0 => accepted'[e] > 0
<1> DEFINE Stay(e) ==
      /\ status[e] \in {"denied", "replayed"} => status'[e] = status[e]
      /\ accepted[e] > 0 => accepted'[e] > 0
<1> USE DEF IInv, TypeOK, Fault, NoFault, rowVars, workerVars, histVars
<1>1. CASE \E e \in Entries : Create(e)
  BY <1>1, Zenon DEF Create
<1>2. CASE \E r \in Reviewers, e \in Entries : Approve(r, e) \/ Deny(r, e)
  BY <1>2, Zenon DEF Approve, Deny
<1>3. CASE \E r \in Reviewers : RecordDecision(r)
  BY <1>3, Zenon DEF RecordDecision
<1>4. ASSUME NEW w \in Workers, Recover(w) \/ Claim(w)
      PROVE  \A e \in Entries : Stay(e)
  BY <1>4, ClaimableRows, Zenon
  DEF Recover, RecoverStuckReplays, Replaying, Claim, ClaimApproved
<1>5. ASSUME NEW w \in Workers,
             \/ ParkExhausted(w) \/ ParkBlocked(w) \/ Defer(w)
             \/ Succeed(w) \/ Release(w)
      PROVE  \A e \in Entries : Stay(e)
  BY <1>5, Zenon DEF ParkExhausted, ParkBlocked, Defer, Succeed, Release,
              MarkReplayFailed, MarkReplayed, ReturnToApproved, UpdateClaimed
<1>6. ASSUME NEW w \in Workers, Answered2xx(w)
      PROVE  \A e \in Entries : Stay(e)
  BY <1>6, AnswerCounts, Zenon DEF Answered2xx
<1>7. CASE UNCHANGED <<status, accepted>>
  BY <1>7, Zenon
<1>8. ASSUME NEW w \in Workers,
             WorkerStep(w) \/ Crash(w) \/ SessionEnds(w)
      PROVE  \A e \in Entries : Stay(e)
  BY <1>4, <1>5, <1>6, <1>7, <1>8, Zenon
  DEF WorkerStep, TryLock, Drain, StartReplay, WriteAhead, Post,
      AnsweredError,
      RecordOutcome, Crash, SessionEnds
<1> QED
  BY <1>1, <1>2, <1>3, <1>7, <1>8, Zenon DEF Next, vars

\* Every step keeps the denials that wait for their ledger row true.
LEMMA DenialsStep ==
  ASSUME IInv, [Next]_vars
  PROVE  DenialsAreTrue'
<1> USE DEF IInv, TypeOK, Request
<1>1. CASE UNCHANGED handler
  BY <1>1, FinalStatesStay, Zenon DEF DenialsAreTrue
<1>2. CASE \E r \in Reviewers, e \in Entries : Approve(r, e)
  BY <1>2, FinalStatesStay DEF Approve, Decided, DenialsAreTrue
<1>3. CASE \E r \in Reviewers, e \in Entries : Deny(r, e)
  BY <1>3, FinalStatesStay DEF Deny, Decided, DenialsAreTrue
<1>4. CASE \E r \in Reviewers : RecordDecision(r)
  BY <1>4, FinalStatesStay DEF RecordDecision, DenialsAreTrue
<1>5. ASSUME NEW w \in Workers, WorkerStep(w) \/ Crash(w) \/ SessionEnds(w)
      PROVE  UNCHANGED handler
  BY <1>5, Zenon
  DEF WorkerStep, TryLock, Recover, Claim, Drain, StartReplay, ParkExhausted,
      ParkBlocked, WriteAhead, Defer, Post, Answered2xx, AnsweredError, Succeed,
      RecordOutcome, Release, Crash, SessionEnds
<1> QED
  BY <1>1, <1>2, <1>3, <1>4, <1>5, Zenon DEF Next, vars, Create

\* Every step keeps the successes that wait for their ledger row true.
LEMMA OutcomesStep ==
  ASSUME IInv, [Next]_vars
  PROVE  OutcomesAreTrue'
<1> USE DEF IInv, TypeOK, ClaimedRow
<1>1. CASE \A v \in Workers : pc'[v] \in {"succeeded", "log_replayed"} =>
             pc'[v] = pc[v] /\ cur'[v] = cur[v]
  <2> SUFFICES ASSUME NEW v \in Workers,
                      pc'[v] \in {"succeeded", "log_replayed"}
               PROVE  /\ accepted'[cur'[v].id] > 0
                      /\ pc'[v] = "log_replayed" =>
                           status'[cur'[v].id] = "replayed"
    BY Zenon DEF OutcomesAreTrue
  <2>1. pc'[v] = pc[v] /\ cur'[v] = cur[v]
    BY <1>1, Zenon
  <2>2. cur[v].id \in Entries
    BY <2>1, CurrentRow, Zenon
  <2> QED
    BY <2>1, <2>2, FinalStatesStay, Zenon DEF OutcomesAreTrue
<1>2. ASSUME NEW w \in Workers, Answered2xx(w)
      PROVE  OutcomesAreTrue'
  <2>1. cur[w].id \in Entries /\ accepted'[cur[w].id] > 0
    BY <1>2, AnswerCounts, CurrentRow, Zenon DEF Answered2xx
  <2>2. pc'[w] # "log_replayed" /\ cur' = cur
    BY <1>2, Zenon DEF Answered2xx, Proceed, Goto
  <2>3. \A v \in Workers \ {w} : pc'[v] = pc[v] /\ cur'[v] = cur[v]
    BY <1>2, Zenon DEF Answered2xx, Proceed, Goto
  <2>4. \A v \in Workers \ {w} : pc[v] \in {"succeeded", "log_replayed"} =>
                                   cur[v].id \in Entries
    BY CurrentRow, Zenon
  <2> QED
    BY <2>1, <2>2, <2>3, <2>4, FinalStatesStay, Zenon DEF OutcomesAreTrue
<1>3. ASSUME NEW w \in Workers, Succeed(w)
      PROVE  OutcomesAreTrue'
  <2>1. cur[w].id \in Entries /\ accepted[cur[w].id] > 0
    BY <1>3, CurrentRow, Zenon DEF Succeed, OutcomesAreTrue
  <2>2. pc'[w] = "log_replayed" =>
          status'[cur[w].id] = "replayed" /\ cur' = cur
    BY <1>3, <2>1, Zenon DEF Succeed, MarkReplayed, UpdateClaimed, Proceed, Goto
  <2>3. \A v \in Workers \ {w} : pc'[v] = pc[v] /\ cur'[v] = cur[v]
    BY <1>3, Zenon DEF Succeed, MarkReplayed, UpdateClaimed, Proceed, Goto
  <2>4. pc'[w] \in {"log_replayed", "drain"} /\ UNCHANGED accepted
    BY <1>3, Zenon DEF Succeed, MarkReplayed, UpdateClaimed, Proceed, Goto, histVars
  <2>5. \A v \in Workers \ {w} : pc[v] \in {"succeeded", "log_replayed"} =>
                                   cur[v].id \in Entries
    BY CurrentRow, Zenon
  <2>6. \A v \in Workers \ {w} :
          /\ pc'[v] \in {"succeeded", "log_replayed"} => accepted'[cur'[v].id] > 0
          /\ pc'[v] = "log_replayed" => status'[cur'[v].id] = "replayed"
    <3> TAKE v \in Workers \ {w}
    <3>1. pc'[v] = pc[v] /\ cur'[v] = cur[v]
      BY <2>3, Zenon
    <3>2. /\ pc[v] \in {"succeeded", "log_replayed"} => accepted[cur[v].id] > 0
          /\ pc[v] = "log_replayed" => status[cur[v].id] = "replayed"
      BY Zenon DEF OutcomesAreTrue
    <3>3. pc[v] = "log_replayed" => status'[cur[v].id] = "replayed"
      BY <2>5, <3>2, FinalStatesStay, Zenon
    <3> QED
      BY <2>4, <3>1, <3>2, <3>3, Zenon
  <2>7. /\ pc'[w] \in {"succeeded", "log_replayed"} => accepted'[cur'[w].id] > 0
        /\ pc'[w] = "log_replayed" => status'[cur'[w].id] = "replayed"
    <3>1. pc'[w] \in {"succeeded", "log_replayed"} => pc'[w] = "log_replayed"
      BY <2>4, Zenon
    <3> QED
      BY <2>1, <2>2, <2>4, <3>1, Zenon
  <2> QED
    BY <2>6, <2>7, Zenon DEF OutcomesAreTrue
<1>4. ASSUME NEW w \in Workers,
             WorkerStep(w) \/ Crash(w) \/ SessionEnds(w),
             ~ Answered2xx(w), ~ Succeed(w)
      PROVE  \A v \in Workers : pc'[v] \in {"succeeded", "log_replayed"} =>
               pc'[v] = pc[v] /\ cur'[v] = cur[v]
  BY <1>4, ZenonT(30)
  DEF WorkerStep, TryLock, Recover, Claim, Drain, StartReplay, ParkExhausted,
      ParkBlocked, WriteAhead, Defer, Post, AnsweredError, RecordOutcome,
      Release, Crash, SessionEnds, MarkReplayFailed, ReturnToApproved,
      UpdateClaimed, Proceed, Goto, EndPass, workerVars
<1> QED
  BY <1>1, <1>2, <1>3, <1>4, ZenonT(30)
  DEF Next, vars, workerVars, Create, Approve, Deny, RecordDecision

\* Every step keeps the ledger truthful: only RecordDecision and
\* RecordOutcome write the rows it speaks of, after the state they report.
LEMMA LedgerStep ==
  ASSUME IInv, [Next]_vars
  PROVE  LedgerTellsTruth'
<1>0. ledger \in [Entries -> SUBSET Decisions]
  BY Zenon DEF IInv, TypeOK
<1>1. ASSUME \A e \in Entries : \A d \in {"approved_replayed", "denied"} :
               d \in ledger'[e] => d \in ledger[e]
      PROVE  LedgerTellsTruth'
  BY <1>1, FinalStatesStay, Zenon DEF IInv, LedgerTellsTruth
<1>2. CASE \E r \in Reviewers : RecordDecision(r)
  BY <1>2, FinalStatesStay
  DEF RecordDecision, Append, DenialsAreTrue, LedgerTellsTruth, Request,
      histVars, rowVars, IInv, TypeOK
<1>3. ASSUME NEW w \in Workers, NEW label, NEW d, NEW next,
             RecordOutcome(w, label, d, next),
             label \in {"log_exhausted", "log_blocked", "log_failed", "log_replayed"}
      PROVE  /\ pc[w] = label /\ cur[w].id \in Entries
             /\ ledger'[cur[w].id] \subseteq ledger[cur[w].id] \cup {d}
             /\ \A e \in Entries \ {cur[w].id} : ledger'[e] = ledger[e]
  <2>1. pc[w] = label
    BY <1>3, Zenon DEF RecordOutcome
  <2>2. cur[w].id \in Entries
    BY <1>3, <2>1, CurrentRow, Zenon DEF IInv
  <2> QED
    BY <1>0, <1>3, <2>1, <2>2, Zenon DEF RecordOutcome, Append
<1>4. ASSUME NEW w \in Workers,
             RecordOutcome(w, "log_replayed", "approved_replayed", "drain")
      PROVE  LedgerTellsTruth'
  <2> DEFINE i == cur[w].id
  <2>1. /\ pc[w] = "log_replayed" /\ i \in Entries
        /\ ledger'[i] \subseteq ledger[i] \cup {"approved_replayed"}
        /\ \A e \in Entries \ {i} : ledger'[e] = ledger[e]
    BY <1>3, <1>4, Zenon
  <2>2. accepted[i] > 0 /\ status[i] = "replayed"
    BY <2>1, Zenon DEF IInv, OutcomesAreTrue
  <2>3. \A e \in Entries \ {i} : ledger'[e] = ledger[e]
    BY <2>1, Zenon
  <2>4. "denied" \in ledger'[i] => "denied" \in ledger[i]
    BY <2>1
  <2>5. \A e \in Entries : "denied" \in ledger'[e] => status'[e] = "denied"
    BY <2>3, <2>4, FinalStatesStay, Zenon DEF IInv, LedgerTellsTruth
  <2>6. \A e \in Entries : "approved_replayed" \in ledger'[e] =>
                            status'[e] = "replayed" /\ accepted'[e] > 0
    BY <2>2, <2>3, FinalStatesStay, Zenon DEF IInv, LedgerTellsTruth
  <2> QED
    BY <2>5, <2>6, Zenon DEF LedgerTellsTruth
<1>5. ASSUME NEW w \in Workers, WriteAhead(w)
      PROVE  LedgerTellsTruth'
  <2>1. cur[w].id \in Entries
    BY <1>5, CurrentRow, Zenon DEF WriteAhead, IInv
  <2> QED
    BY <1>0, <1>1, <1>5, <2>1, Zenon DEF WriteAhead, Append
<1>6. ASSUME NEW w \in Workers, NEW label, NEW d, NEW next,
             RecordOutcome(w, label, d, next),
             label \in {"log_exhausted", "log_blocked", "log_failed"},
             d \notin {"approved_replayed", "denied"}
      PROVE  LedgerTellsTruth'
  <2>1. /\ ledger'[cur[w].id] \subseteq ledger[cur[w].id] \cup {d}
        /\ \A e \in Entries \ {cur[w].id} : ledger'[e] = ledger[e]
    BY <1>3, <1>6, Zenon
  <2> QED
    BY <1>1, <1>6, <2>1, Zenon
<1>7. CASE UNCHANGED ledger
  BY <1>1, <1>7, Zenon
<1>8. ASSUME NEW w \in Workers, WorkerStep(w) \/ Crash(w) \/ SessionEnds(w)
      PROVE  LedgerTellsTruth'
  BY <1>4, <1>5, <1>6, <1>7, <1>8
  DEF WorkerStep, TryLock, Recover, Claim, Drain, StartReplay, ParkExhausted,
      ParkBlocked, Defer, Post, Answered2xx, AnsweredError, Succeed, Release,
      Crash, SessionEnds
<1> QED
  BY <1>2, <1>7, <1>8, Zenon DEF Next, vars, Create, Approve, Deny

\* The empty queue satisfies the inductive invariant.
LEMMA InitInv == Init => IInv
<1> SUFFICES ASSUME Init PROVE IInv
  BY Zenon
<1> USE QuarantineAssumption DEF Init
<1>1. TypeOK
  BY DEF TypeOK, Status, Decisions, Labels, NoRow, NoRequest
<1>2. PassIsExclusive /\ ClaimsMatchTable
  BY Zenon DEF PassIsExclusive, ClaimsMatchTable, Unsettled
<1>3. AttemptsPayForCalls /\ AuditIsAhead
  BY DEF AttemptsPayForCalls, AuditIsAhead
<1>4. OutcomesAreTrue /\ DenialsAreTrue /\ LedgerTellsTruth
  BY Zenon DEF OutcomesAreTrue, DenialsAreTrue, LedgerTellsTruth
<1> QED
  BY <1>1, <1>2, <1>3, <1>4, Zenon DEF IInv

\* The inductive invariant is preserved by every step.
LEMMA StepInv ==
  ASSUME LockMayDrop = FALSE, IInv, [Next]_vars
  PROVE  IInv'
BY TypeStep, PassStep, ClaimsStep, BudgetStep, AuditStep, OutcomesStep,
   DenialsStep, LedgerStep, Zenon DEF IInv

\* The inductive invariant holds of every queue whose workers keep the
\* session of their advisory lock (Store.WithReplayLock) while a pass runs.
THEOREM Invariance ==
  ASSUME LockMayDrop = FALSE
  PROVE  Spec => []IInv
<1>1. Init => IInv
  BY InitInv, Zenon
<1>2. IInv /\ [Next]_vars => IInv'
  BY StepInv, Zenon
<1> QED
  BY <1>1, <1>2, PTL DEF Spec

\* Type correctness of the queue.
THEOREM TypeCorrect ==
  ASSUME LockMayDrop = FALSE
  PROVE  Spec => []TypeOK
<1>1. IInv => TypeOK
  BY Zenon DEF IInv
<1> QED
  BY <1>1, Invariance, PTL

\* One approval pays for at most maxReplayAttempts + 1 upstream calls, for
\* any number of replicas, reviewers, entries, crashes and failed statements
\* (Worker.processClaimed and Store.RecoverStuckReplays).
THEOREM BudgetHolds ==
  ASSUME LockMayDrop = FALSE
  PROVE  Spec => []ReplayBudget
<1>1. IInv => ReplayBudget
  BY Zenon DEF IInv, AttemptsPayForCalls, ReplayBudget
<1> QED
  BY <1>1, Invariance, PTL

\* Every upstream call follows a replay_started ledger row of its own (the
\* write-ahead entry of Worker.processClaimed).
THEOREM CallsAreAudited ==
  ASSUME LockMayDrop = FALSE
  PROVE  Spec => []NothingRunsUnaudited
<1>1. IInv => NothingRunsUnaudited
  BY Zenon DEF IInv, AuditIsAhead, NothingRunsUnaudited
<1> QED
  BY <1>1, Invariance, PTL

\* approved_replayed is recorded only for replays the upstream accepted,
\* denied only for rows that stay denied.
THEOREM LedgerIsTruthful ==
  ASSUME LockMayDrop = FALSE
  PROVE  Spec => []LedgerTellsTruth
<1>1. IInv => LedgerTellsTruth
  BY Zenon DEF IInv
<1> QED
  BY <1>1, Invariance, PTL

\* At most one worker has claims, and it holds the lock.
LEMMA OneClaimant ==
  ASSUME IInv, NEW w \in Workers, NEW row \in Claims(w)
  PROVE  /\ lock = w
         /\ \A v \in Workers \ {w} : Claims(v) = {} /\ pc[v] = "idle"
<1>1. pc[w] # "idle" /\ lock = w
  BY Zenon DEF IInv, PassIsExclusive, Claims, Unsettled
<1>2. \A v \in Workers \ {w} : pc[v] = "idle"
  BY <1>1, Zenon DEF IInv, PassIsExclusive
<1>3. \A v \in Workers \ {w} : Claims(v) = {}
  BY <1>2, Zenon DEF IInv, PassIsExclusive, Claims, Unsettled
<1> QED
  BY <1>1, <1>2, <1>3, Zenon

\* Claims are exclusive, and the rows a worker acts on are never stale
\* (Store.ClaimApproved, Worker.processClaimed).
THEOREM ClaimsStayCurrent ==
  ASSUME LockMayDrop = FALSE
  PROVE  Spec => []ClaimsAreCurrent
<1>1. IInv => ClaimsAreCurrent
  <2> SUFFICES ASSUME IInv, NEW w \in Workers, NEW row \in Claims(w)
               PROVE  /\ status[row.id] = "replaying"
                      /\ row = RowOf(row.id)
                      /\ \A v \in Workers \ {w} : \A other \in Claims(v) :
                           other.id # row.id
    BY Zenon DEF ClaimsAreCurrent
  <2>1. status[row.id] = "replaying" /\ row = RowOf(row.id)
    BY Zenon DEF IInv, ClaimsMatchTable, Claims
  <2>2. \A v \in Workers \ {w} : Claims(v) = {}
    BY OneClaimant, Zenon
  <2> QED
    BY <2>1, <2>2, Zenon
<1> QED
  BY <1>1, Invariance, PTL

\* Only a step of the claimant changes the status of a claimed row.
LEMMA ClaimantMoves ==
  ASSUME IInv, [Next]_vars, NEW w \in Workers, NEW row \in Claims(w),
         status'[row.id] # status[row.id]
  PROVE  pc'[w] # pc[w]
<1>1. /\ row.id \in Entries /\ status[row.id] = "replaying"
      /\ pc[w] # "idle" /\ \A v \in Workers \ {w} : pc[v] = "idle"
  BY OneClaimant
  DEF IInv, TypeOK, PassIsExclusive, ClaimsMatchTable, Claims, Unsettled,
      ClaimedRow
<1>2. ASSUME NEW v \in Workers, v # w,
             WorkerStep(v) \/ Crash(v) \/ SessionEnds(v)
      PROVE  UNCHANGED status
  BY <1>1, <1>2, ZenonT(30)
  DEF WorkerStep, TryLock, Recover, Claim, Drain, StartReplay, ParkExhausted,
      ParkBlocked, WriteAhead, Defer, Post, Answered2xx, AnsweredError, Succeed,
      RecordOutcome, Release, Crash, SessionEnds, rowVars
<1>3. ASSUME WorkerStep(w) \/ Crash(w) \/ SessionEnds(w)
      PROVE  pc'[w] # pc[w]
  <2> pc \in [Workers -> Labels]
    BY ZenonT(30) DEF IInv, TypeOK
  <2>1. CASE Recover(w) \/ Claim(w)
    BY <2>1, Zenon DEF Recover, Claim, EndPass, Goto
  <2>2. CASE ParkExhausted(w) \/ ParkBlocked(w) \/ Defer(w) \/ Succeed(w)
    BY <2>2, ZenonT(30)
    DEF ParkExhausted, ParkBlocked, Defer, Succeed, MarkReplayFailed,
                MarkReplayed, ReturnToApproved, UpdateClaimed, Proceed, Goto
  <2>3. CASE Release(w)
    BY <2>3, Zenon DEF Release, MarkReplayFailed, ReturnToApproved, UpdateClaimed,
                Proceed, Goto
  <2> QED
    BY <1>3, <2>1, <2>2, <2>3, ZenonT(30)
    DEF WorkerStep, TryLock, Drain, StartReplay, WriteAhead, Post,
        Answered2xx,
        AnsweredError, RecordOutcome, Crash, SessionEnds, rowVars
<1>4. ASSUME NEW r \in Reviewers, NEW e \in Entries,
             Approve(r, e) \/ Deny(r, e)
      PROVE  status'[row.id] = status[row.id]
  BY <1>1, <1>4, Zenon DEF Approve, Deny, IInv, TypeOK
<1>5. ASSUME NEW e \in Entries, Create(e)
      PROVE  status'[row.id] = status[row.id]
  BY <1>1, <1>5, Zenon DEF Create, IInv, TypeOK
<1> QED
  BY <1>2, <1>3, <1>4, <1>5, Zenon DEF Next, vars, rowVars, RecordDecision

\* Neither crash recovery nor a reviewer moves the claim of a live worker
\* (Store.RecoverStuckReplays, Store.Approve, Store.Deny).
THEOREM ClaimsAreLeftAlone ==
  ASSUME LockMayDrop = FALSE
  PROVE  Spec => OnlyClaimantMovesClaim
<1>1. IInv /\ [Next]_vars =>
        [\A w \in Workers : \A row \in Claims(w) :
           status'[row.id] # status[row.id] => pc'[w] # pc[w]]_vars
  BY ClaimantMoves, Zenon
<1> QED
  BY <1>1, Invariance, PTL DEF Spec, OnlyClaimantMovesClaim

\* Every step of the queue is a step of HeldAction, or leaves it unchanged.
LEMMA PromiseStep ==
  ASSUME LockMayDrop = FALSE, IInv, Next
  PROVE  Promise!Next
<1> USE
    DEF IInv, TypeOK, rowVars, histVars, Promise!Moves, Promise!Transition,
            Promise!Approval, Promise!Call, Promise!EntryStep
<1>1. /\ status' \in [Entries -> Promise!States]
      /\ calls' \in [Entries -> Nat]
  BY TypeStep, Zenon DEF Promise!States, Status
<1>2. CASE \E e \in Entries : Create(e)
  BY <1>1, <1>2, Zenon DEF Create, Promise!Next
<1>3. CASE \E r \in Reviewers, e \in Entries : Approve(r, e)
  BY <1>1, <1>3, Zenon DEF Approve, Promise!Next
<1>4. CASE \E r \in Reviewers, e \in Entries : Deny(r, e)
  BY <1>1, <1>4, Zenon DEF Deny, Promise!Next
<1>5. ASSUME NEW w \in Workers, Recover(w)
      PROVE  Promise!Next
  BY <1>1, <1>5, Zenon DEF Recover, RecoverStuckReplays, Replaying, Promise!Next
<1>6. ASSUME NEW w \in Workers, Claim(w)
      PROVE  Promise!Next
  BY <1>1, <1>6, ClaimableRows, Zenon DEF Claim, ClaimApproved, Promise!Next
<1>7. ASSUME NEW w \in Workers,
             ParkExhausted(w) \/ ParkBlocked(w) \/ Defer(w) \/ Release(w)
      PROVE  Promise!Next
  BY <1>1, <1>7, Zenon
  DEF ParkExhausted, ParkBlocked, Defer, Release, MarkReplayFailed,
      ReturnToApproved, UpdateClaimed, Promise!Next
<1>8. ASSUME NEW w \in Workers, Succeed(w)
      PROVE  Promise!Next
  BY <1>1, <1>8, Zenon
  DEF Succeed, MarkReplayed, UpdateClaimed, AuditIsAhead, Promise!Next
<1>9. ASSUME NEW w \in Workers, Post(w)
      PROVE  Promise!Next
  <2>1. /\ cur[w].id \in Entries
        /\ calls[cur[w].id] <= cur[w].attempts
        /\ cur[w].attempts <= MaxReplayAttempts
        /\ cur[w].attempts \in Nat /\ calls[cur[w].id] \in Nat
        /\ status[cur[w].id] = "replaying"
    BY <1>9, CurrentRow, Zenon
    DEF Post, AttemptsPayForCalls, ClaimsMatchTable, Unsettled
  <2>2. calls[cur[w].id] <= MaxReplayAttempts
    BY <2>1, QuarantineAssumption
  <2> QED
    BY <1>1, <1>9, <2>1, <2>2, Zenon DEF Post, Promise!Next
<1>10. CASE UNCHANGED <<status, calls>>
  BY <1>1, <1>10, Zenon DEF Promise!Next
<1> QED
  BY <1>2, <1>3, <1>4, <1>5, <1>6, <1>7, <1>8, <1>9, <1>10, Zenon
  DEF Next, RecordDecision, WorkerStep, TryLock, Drain, StartReplay,
      WriteAhead,
      Answered2xx, AnsweredError, RecordOutcome, Crash, SessionEnds

\* The queue implements HeldAction, the promise made to reviewers: the state
\* machine of store.go and the budget of calls per approval.
THEOREM QueueKeepsPromise ==
  ASSUME LockMayDrop = FALSE
  PROVE  Spec => KeepsPromise
<1>1. Init => Promise!Init
  BY Zenon DEF Init, Promise!Init
<1>2. IInv /\ [Next]_vars => [Promise!Next]_(Promise!vars)
  BY PromiseStep, Zenon DEF vars, rowVars, histVars, Promise!vars
<1> QED
  BY <1>1, <1>2, Invariance, PTL DEF Spec, KeepsPromise, Promise!Spec

====

------------------------------- MODULE Ledger -------------------------------
(***************************************************************************)
(* Store.Append of backend/internal/ledger/ledger.go: concurrent appends to *)
(* one hash chain from any number of replicas.  Every call is a process;    *)
(* its step is one statement of appendOnce, and its INSERT is visible to    *)
(* others only once it commits.                                            *)
(***************************************************************************)
EXTENDS LedgerChain

CONSTANTS
    Calls,          \* calls of Append, each with an entry of its own
    Times,          \* readings of the clock
    PolicyVersions, \* policy_version of an entry, "" when unset
    MaxRetries,     \* maxRetries of appendWithRetry
    MaxFaults,      \* bound: failed statements and lost replies
    Nobody

ASSUME LedgerAssumption ==
    /\ Nobody \notin Calls
    /\ Times \subseteq Nat
    /\ MaxRetries \in Nat \ {0}
    /\ MaxFaults \in Nat

VARIABLES
    table,    \* committed rows
    lock,     \* transaction holding pg_advisory_xact_lock(918273647)
    pc, tip, row, attempt,
    faults

vars == <<table, lock, pc, tip, row, attempt, faults>>

Labels == {"idle", "begin", "lock", "read", "insert", "commit", "backoff",
           "ok", "error"}

NoRow == [seq |-> 0]

\* Every variable stays within its declared domain.
TypeOK ==
    /\ \A r \in table : r.seq \in Nat \ {0} /\ r.data \in Calls
    /\ lock \in Calls \cup {Nobody}
    /\ pc \in [Calls -> Labels]
    /\ tip = [c \in Calls |-> tip[c]] /\ row = [c \in Calls |-> row[c]]
    /\ \A c \in Calls : tip[c].seq \in Nat /\ row[c].seq \in Nat
    /\ attempt \in [Calls -> 0 .. MaxRetries - 1]
    /\ faults \in 0 .. MaxFaults

Init ==
    /\ table = {}
    /\ lock = Nobody
    /\ pc = [c \in Calls |-> "idle"]
    /\ tip = [c \in Calls |-> NoTip]
    /\ row = [c \in Calls |-> NoRow]
    /\ attempt = [c \in Calls |-> 0]
    /\ faults = 0

Fault == faults < MaxFaults /\ faults' = faults + 1

Goto(c, label) == pc' = [pc EXCEPT ![c] = label]

\* Mutant: the lock belongs to the session and outlives the transaction.
EndTxKeepsLock(c) ==
    /\ UNCHANGED lock
    /\ tip' = [tip EXCEPT ![c] = NoTip]
    /\ row' = [row EXCEPT ![c] = NoRow]

\* COMMIT or the deferred Rollback: the lock lives as long as the transaction.
EndTx(c) ==
    /\ lock' = IF lock = c THEN Nobody ELSE lock
    /\ tip' = [tip EXCEPT ![c] = NoTip]
    /\ row' = [row EXCEPT ![c] = NoRow]

-----------------------------------------------------------------------------
Call(c) ==
    /\ pc[c] = "idle"
    /\ Goto(c, "begin")
    /\ UNCHANGED <<table, lock, tip, row, attempt, faults>>

BeginTx(c) ==
    /\ pc[c] = "begin"
    /\ Goto(c, "lock")
    /\ UNCHANGED <<table, lock, tip, row, attempt, faults>>

\* Waits until the holder's transaction ends.
Lock(c) ==
    /\ pc[c] = "lock"
    /\ lock = Nobody
    /\ lock' = c
    /\ Goto(c, "read")
    /\ UNCHANGED <<table, tip, row, attempt, faults>>

ReadTip(c) ==
    /\ pc[c] = "read"
    /\ tip' = [tip EXCEPT ![c] = GetLatestLedgerEntry(table)]
    /\ Goto(c, "insert")
    /\ UNCHANGED <<table, lock, row, attempt, faults>>

\* Mutant: the hash is computed before PrevHash is set.
NewEntryHashedEarly(c, t, v) ==
    LET entry == [seq |-> tip[c].seq + 1, ts |-> normalizeTimestamp(t),
                  data |-> c, version |-> v, prev |-> <<>>]
    IN  [seq |-> entry.seq, ts |-> Stored(entry.ts), data |-> c, version |-> v,
         prev |-> tip[c].hash, hash |-> calculateHash(entry)]

\* The entry as appendOnce completes it, and the row its INSERT stores.
NewEntry(c, t, v) ==
    LET entry == [seq |-> tip[c].seq + 1, ts |-> normalizeTimestamp(t),
                  data |-> c, version |-> v, prev |-> tip[c].hash]
    IN  [seq |-> entry.seq, ts |-> Stored(entry.ts), data |-> c, version |-> v,
         prev |-> entry.prev, hash |-> calculateHash(entry)]

\* The primary key: a committed row with this seq_num is a duplicate key error
\* (SQLSTATE 23505, not retried), an uncommitted one makes the INSERT wait.
Insert(c) ==
    /\ pc[c] = "insert"
    /\ \A d \in Calls : row[d].seq # tip[c].seq + 1
    /\ IF \E r \in table : r.seq = tip[c].seq + 1
       THEN /\ Goto(c, "error")
            /\ EndTx(c)
       ELSE /\ Goto(c, "commit")
            /\ \E t \in Times, v \in PolicyVersions :
                 row' = [row EXCEPT ![c] = NewEntry(c, t, v)]
            /\ UNCHANGED <<lock, tip>>
    /\ UNCHANGED <<table, attempt, faults>>

\* Mutants: a lost reply is retried, and a failed commit is not noticed.
CommitRetried(c) ==
    /\ pc[c] = "commit"
    /\ table' = table \cup {row[c]}
    /\ EndTx(c)
    /\ \/ Goto(c, "ok") /\ UNCHANGED faults
       \/ Goto(c, "backoff") /\ Fault
    /\ UNCHANGED attempt

CommitUnchecked(c) ==
    /\ pc[c] = "commit"
    /\ EndTx(c)
    /\ Goto(c, "ok")
    /\ \/ table' = table \cup {row[c]} /\ UNCHANGED faults
       \/ UNCHANGED table /\ Fault
    /\ UNCHANGED attempt

\* The commit takes effect; its reply may be lost.
Commit(c) ==
    /\ pc[c] = "commit"
    /\ table' = table \cup {row[c]}
    /\ EndTx(c)
    /\ \/ Goto(c, "ok") /\ UNCHANGED faults
       \/ Goto(c, "error") /\ Fault
    /\ UNCHANGED attempt

InTx == {"begin", "lock", "read", "insert", "commit"}

\* A statement fails for good, ctx is cancelled, or the session or the process
\* dies: Postgres rolls the transaction back.
Abort(c) ==
    /\ pc[c] \in InTx \cup {"backoff"}
    /\ Goto(c, "error")
    /\ EndTx(c)
    /\ Fault
    /\ UNCHANGED <<table, attempt>>

\* SQLSTATE 40001, which Postgres reports only for a transaction it rolled back.
SerializationFailure(c) ==
    /\ pc[c] \in InTx \ {"begin"}
    /\ EndTx(c)
    /\ Fault
    /\ IF attempt[c] < MaxRetries - 1
       THEN /\ Goto(c, "backoff")
            /\ attempt' = [attempt EXCEPT ![c] = @ + 1]
       ELSE Goto(c, "error") /\ UNCHANGED attempt
    /\ UNCHANGED table

Retry(c) ==
    /\ pc[c] = "backoff"
    /\ Goto(c, "begin")
    /\ UNCHANGED <<table, lock, tip, row, attempt, faults>>

-----------------------------------------------------------------------------
Step(c) ==
    \/ BeginTx(c) \/ Lock(c) \/ ReadTip(c) \/ Insert(c) \/ Commit(c) \/ Retry(c)

Next ==
    \E c \in Calls : Call(c) \/ Step(c) \/ Abort(c) \/ SerializationFailure(c)

Spec == Init /\ [][Next]_vars

\* Statements return and the backoff timer fires; nobody has to call Append.
FairSpec == Spec /\ \A c \in Calls : WF_vars(Step(c))

Returned(c) == pc[c] \in {"ok", "error"}

-----------------------------------------------------------------------------
(* Properties *)

RowsOf(c) == {r \in table : r.data = c}

\* The committed rows form one chain: numbered 1, 2, ... without a gap or a
\* fork, every row linked to the hash of its predecessor, and every hash the
\* one VerifyChain recomputes from the stored row.
ChainIntact ==
    \A r \in table :
        /\ r.hash = calculateHash(r)
        /\ \A s \in table : s.seq = r.seq => s = r
        /\ IF r.seq = 1 THEN r.prev = <<>>
           ELSE \E p \in table : p.seq + 1 = r.seq /\ r.prev = p.hash

\* Append answers truthfully: a call that returned nil is recorded exactly
\* once, one that has not returned is not recorded, and retries and lost
\* replies never record an entry twice.
RecordedOnce ==
    \A c \in Calls :
        /\ pc[c] = "ok" => \E r \in table : r.data = c
        /\ ~Returned(c) => RowsOf(c) = {}
        /\ \A r, s \in RowsOf(c) : r = s

OnlyFaultsFail ==
    Cardinality({c \in Calls : pc[c] = "error"}) <= faults

\* Every call of Append returns, and appends queue on the lock instead of failing:
\* without a fault none ends in an error, in particular not in a duplicate key.
AppendReturns ==
    /\ \A c \in Calls : []<>(pc[c] = "idle" \/ Returned(c))
    /\ []OnlyFaultsFail

\* The abstract log is the rows read in seq_num order.
Promise == INSTANCE AuditLog WITH
    log  <- [i \in 1 .. Cardinality(table) |->
               (CHOOSE r \in table : r.seq = i).data],
    call <- [c \in Calls |->
               CASE pc[c] = "idle" -> "idle"
                 [] Returned(c)    -> pc[c]
                 [] OTHER          -> "running"]

\* Append keeps the promise of module AuditLog: the log grows only at its end,
\* by the entry of a running call, in the step in which that call returns.
KeepsPromise == Promise!Spec

-----------------------------------------------------------------------------
(* The inductive invariant behind ChainIntact, RecordedOnce and KeepsPromise *)

\* Only the transaction that holds the lock is between reading and committing.
LockIsHeld ==
    \A c \in Calls : pc[c] \in {"read", "insert", "commit"} <=> lock = c

\* The rows are numbered from 1 to their number.
Numbered ==
    /\ IsFiniteSet(table)
    /\ \A r \in table : r.seq \in 1 .. Cardinality(table)
    /\ \A i \in 1 .. Cardinality(table) : \E r \in table : r.seq = i

\* The tip a transaction has read is still the head of the chain.
TipIsHead ==
    \A c \in Calls : pc[c] \in {"insert", "commit"} =>
        /\ tip[c].seq = Cardinality(table)
        /\ IF table = {} THEN tip[c].hash = <<>>
           ELSE \E r \in table : r.seq = tip[c].seq /\ r.hash = tip[c].hash

\* The row waiting for its commit continues the chain.
RowIsNext ==
    \A c \in Calls : pc[c] = "commit" =>
        /\ row[c].seq = tip[c].seq + 1
        /\ row[c].prev = tip[c].hash
        /\ row[c].data = c
        /\ row[c].hash = calculateHash(row[c])

\* TypeOK and the invariants above, preserved together by every step.
IInv ==
    /\ TypeOK
    /\ LockIsHeld
    /\ Numbered
    /\ TipIsHead
    /\ RowIsNext
    /\ ChainIntact
    /\ RecordedOnce

\* Behind OnlyFaultsFail: the calls that failed are finitely many, no more than
\* the faults.
FaultsCover ==
    LET errors == {c \in Calls : pc[c] = "error"}
    IN  IsFiniteSet(errors) /\ Cardinality(errors) <= faults

=============================================================================

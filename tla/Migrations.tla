----------------------------- MODULE Migrations -----------------------------
(***************************************************************************)
(* db.Migrate of backend/internal/db/migrate.go: every replica applies the  *)
(* migrations embedded in its binary when it starts, in one transaction      *)
(* under one advisory lock.  During a rollout the binaries differ.          *)
(***************************************************************************)
EXTENDS Integers, Sequences

CONSTANTS
    Replicas,
    Embedded,   \* Embedded[r]: names of the migrations in r's binary
    Nobody,     \* no holder of the lock
    Dead        \* the session of a process that is gone

VARIABLES
    lock,       \* holder of pg_advisory_xact_lock(918273645)
    applied,    \* table schema_migrations, in the order of application
    tx          \* tx[r]: what r's open transaction has applied

migrationVars == <<lock, applied, tx>>

\* A name is the sequence of its leading digits, <<>> for an unnumbered file, whose
\* number is the largest there is.
MaxInt == 2147483647

migrationNumber(name) ==
    IF name = <<>> THEN MaxInt
    ELSE LET n[i \in 0 .. Len(name)] == IF i = 0 THEN 0 ELSE 10 * n[i - 1] + name[i]
         IN n[Len(name)]

\* Names compared as strings; the character after the digits sorts after them.
Lexically(a, b) ==
    LET s == Append(a, 10)  t == Append(b, 10) IN
    \E i \in DOMAIN s \cap DOMAIN t :
        s[i] < t[i] /\ \A j \in 1 .. i - 1 : s[j] = t[j]

\* The order of sortMigrations.
Before(a, b) ==
    \/ migrationNumber(a) < migrationNumber(b)
    \/ migrationNumber(a) = migrationNumber(b) /\ Lexically(a, b)

MigrationsInit ==
    /\ lock = Nobody
    /\ applied = <<>>
    /\ tx = [r \in Replicas |-> <<>>]

\* Mutant: replicas do not wait for one another.
LockIgnored(r) == UNCHANGED migrationVars

\* BeginTx, and the wait for the advisory lock.
Lock(r) ==
    /\ lock = Nobody
    /\ lock' = r
    /\ UNCHANGED <<applied, tx>>

Names(seq) == {seq[i] : i \in DOMAIN seq}

\* The names still to do: one that is in the table is skipped.
Pending(r) == Embedded[r] \ (Names(applied) \cup Names(tx[r]))

\* The first of them is applied.
Apply(r) ==
    /\ \E n \in Pending(r) :
         /\ \A m \in Pending(r) \ {n} : Before(n, m)
         /\ tx' = [tx EXCEPT ![r] = Append(@, n)]
    /\ UNCHANGED <<lock, applied>>

\* The end of the transaction ends the lock, whichever way it ends.
Release(r) ==
    /\ lock' = IF lock = r THEN Nobody ELSE lock
    /\ tx' = [tx EXCEPT ![r] = <<>>]

Commit(r) ==
    /\ Pending(r) = {}
    /\ applied' = applied \o tx[r]
    /\ Release(r)

Rollback(r) == UNCHANGED applied /\ Release(r)

\* A crash: Postgres keeps the session, and the lock, until it notices.
Orphan(r) ==
    /\ lock' = IF lock = r THEN Dead ELSE lock
    /\ tx' = [tx EXCEPT ![r] = <<>>]
    /\ UNCHANGED applied

SessionEnds ==
    /\ lock = Dead
    /\ lock' = Nobody
    /\ UNCHANGED <<applied, tx>>

=============================================================================

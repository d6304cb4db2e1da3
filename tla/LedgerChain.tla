----------------------------- MODULE LedgerChain -----------------------------
(***************************************************************************)
(* The hash chain of backend/internal/ledger: the pure part of ledger.go.   *)
(*                                                                         *)
(* A row is [seq, ts, data, version, prev, hash].  data stands for the       *)
(* fields agent .. request_id, SHA-256 is taken to be injective: a hash is   *)
(* the list of fields it was computed from, and "" is <<>>.                *)
(***************************************************************************)
EXTENDS Naturals, Sequences, FiniteSets

\* Timestamps count half microseconds, the coarsest unit finer than the column.
Micro == 2

\* Mutant: the time is hashed with the precision of the clock.
normalizeNothing(t) == t

normalizeTimestamp(t) == t - (t % Micro)

\* What the timestamptz column returns: Postgres rounds to the microsecond.
Stored(t) == ((t + 1) \div Micro) * Micro

\* Mutant: the link to the previous entry is left out of the hash.
hashUnlinked(e) == <<e.seq, normalizeTimestamp(e.ts), e.data, e.version>>

\* policy_version joins the hash only when it is set.
calculateHash(e) ==
    LET fields == <<e.seq, normalizeTimestamp(e.ts), e.data, e.prev>>
    IN  IF e.version = "" THEN fields ELSE Append(fields, e.version)

\* A table is a set of rows with distinct seq (the primary key).
NoTip == [seq |-> 0, hash |-> <<>>]

\* SELECT hash, seq_num ... ORDER BY seq_num DESC LIMIT 1, or the zero row.
GetLatestLedgerEntry(table) ==
    IF table = {} THEN NoTip
    ELSE LET r == CHOOSE r \in table : \A s \in table : s.seq <= r.seq
         IN  [seq |-> r.seq, hash |-> r.hash]

=============================================================================

---------------------------- MODULE LedgerVerify ----------------------------
(***************************************************************************)
(* What VerifyChain (ledger.go) finds out about a table that was changed     *)
(* behind the application's back, by transactions that opted in with        *)
(* ledger_maintenance = 'on' (migration 005): edited, renumbered and deleted *)
(* rows, with or without links and hashes brought up to date.               *)
(***************************************************************************)
EXTENDS LedgerScan

CONSTANTS
    Length,         \* length of the chain as it was appended
    Data,           \* contents of an entry
    Versions,       \* policy_version, "" when unset
    MaxChanges      \* bound: changes made to the table

ASSUME VerifyAssumption == Length \in Nat /\ MaxChanges \in Nat

VARIABLES original, stored, changes

tamperVars == <<original, stored, changes>>

\* The row appendOnce writes with number i behind a row with hash prev.
RowBehind(prev, i, content) ==
    LET entry == [seq |-> i, ts |-> 0, data |-> content.data,
                  version |-> content.version, prev |-> prev]
    IN  [seq |-> i, ts |-> 0, data |-> entry.data, version |-> entry.version,
         prev |-> entry.prev, hash |-> calculateHash(entry)]

\* The rows appendOnce wrote for the given contents, in order.
ChainOf(contents) ==
    LET row[i \in 1 .. Length] ==
          RowBehind(IF i = 1 THEN <<>> ELSE row[i - 1].hash, i, contents[i])
    IN  row

TamperInit ==
    /\ \E contents \in [1 .. Length ->
                          [data : Data, version : Versions]] :
         original = {ChainOf(contents)[i] : i \in 1 .. Length}
    /\ stored = original
    /\ changes = 0

\* The primary key refuses a seq_num that is taken.
Update(r, new) ==
    /\ new.seq = r.seq \/ \A s \in stored : s.seq # new.seq
    /\ stored' = (stored \ {r}) \cup {new}

Edit(r) ==
    \E d \in Data, v \in Versions :
        Update(r, [r EXCEPT !.data = d, !.version = v])

Renumber(r) ==
    \E n \in 0 .. Length + 1 : Update(r, [r EXCEPT !.seq = n])

Relink(r) ==
    LET before == GetLatestLedgerEntry({s \in stored : s.seq < r.seq})
    IN  Update(r, [r EXCEPT !.prev = before.hash])

Rehash(r) == Update(r, [r EXCEPT !.hash = calculateHash(r)])

Delete(r) == stored' = stored \ {r}

TamperNext ==
    /\ changes < MaxChanges /\ changes' = changes + 1
    /\ UNCHANGED original
    /\ \E r \in stored :
         Edit(r) \/ Renumber(r) \/ Relink(r) \/ Rehash(r) \/ Delete(r)

TamperSpec == TamperInit /\ [][TamperNext]_tamperVars

-----------------------------------------------------------------------------
(* Properties *)

AnchorOf(r) == [seq |-> r.seq, hash |-> r.hash]

Upto(rows, n) == {r \in rows : r.seq <= n}

\* An anchor protects everything up to it: a table that verifies against the
\* head recorded at entry n still holds the entries 1 .. n as appended.
AnchorProtectsPrefix ==
    \A a \in original :
        VerifyChain(stored, AnchorOf(a)).valid =>
            Upto(stored, a.seq) = Upto(original, a.seq)

\* Reference definition: row i of the stream is sound.
Sound(rows, i) ==
    /\ rows[i].hash = calculateHash(rows[i])
    /\ rows[i].prev = IF i = 1 THEN <<>> ELSE rows[i - 1].hash

\* Without an anchor the report is exact: valid if and only if every row is
\* sound, else it names the first row that is not, and counts the rows read.
ReportIsExact ==
    LET rows   == Stream(stored, 0)
        report == VerifyChain(stored, NoAnchor)
        bad    == {i \in 1 .. Len(rows) : ~Sound(rows, i)}
    IN  /\ report.valid <=> bad = {}
        /\ report.valid => report.entries = Len(rows)
        /\ ~report.valid =>
             /\ report.entries \in bad
             /\ \A i \in bad : report.entries <= i
             /\ report.firstInvalidSeq = rows[report.entries].seq

-----------------------------------------------------------------------------
(* The inductive invariant behind AnchorProtectsPrefix and ReportIsExact *)

IsRow(r) ==
    /\ r.seq \in Nat
    /\ r = [seq |-> r.seq, ts |-> 0, data |-> r.data, version |-> r.version,
            prev |-> r.prev, hash |-> r.hash]

\* rows are a table: finitely many, no number twice.
IsTable(rows) ==
    /\ IsFiniteSet(rows)
    /\ \A r \in rows : IsRow(r)
    /\ \A r, s \in rows : r.seq = s.seq => r = s

\* rows are chained from number 1 on.
IsChain(rows) ==
    \A r \in rows :
        /\ r.seq # 0 /\ r.hash = calculateHash(r)
        /\ IF r.seq = 1 THEN r.prev = <<>>
           ELSE \E p \in rows : p.seq + 1 = r.seq /\ r.prev = p.hash

TamperInv == IsTable(original) /\ IsChain(original) /\ IsTable(stored)

=============================================================================

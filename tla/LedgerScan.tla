----------------------------- MODULE LedgerScan ------------------------------
(***************************************************************************)
(* What backend/internal/ledger/ledger.go reads back from the table: Stream, *)
(* Page and VerifyChain.                                                   *)
(***************************************************************************)
EXTENDS LedgerChain

\* rows arranged by seq_num: entry i is the row with i rows up to its own.
OrderBySeq(rows) ==
    [i \in 1 .. Cardinality(rows) |->
       CHOOSE r \in rows : Cardinality({s \in rows : s.seq <= r.seq}) = i]

\* Mutant: a resumed stream repeats the row it resumes after.
StreamInclusive(table, afterSeq) ==
    OrderBySeq({r \in table : afterSeq > 0 => r.seq >= afterSeq})

\* SELECT ... [WHERE seq_num > afterSeq] ORDER BY seq_num ASC
Stream(table, afterSeq) ==
    OrderBySeq({r \in table : afterSeq > 0 => r.seq > afterSeq})

\* ListLedgerPage without filters: newest first, before <= 0 starts at the head.
Page(table, before, limit) ==
    LET older == OrderBySeq({r \in table : before <= 0 \/ r.seq < before})
        size  == Len(older)
    IN  [i \in 1 .. IF size < limit THEN size ELSE limit |-> older[size + 1 - i]]

NoAnchor == NoTip

\* Mutant: the link to the previous row is not compared.
VerifyEntryUnlinked(report, e, anchor) ==
    LET fail(why) == [report EXCEPT !.valid = FALSE, !.entries = @ + 1,
                                    !.firstInvalidSeq = e.seq, !.reason = why]
    IN  IF ~report.valid THEN report
        ELSE IF e.hash # calculateHash(e) THEN fail("hash")
        ELSE IF anchor # NoAnchor /\ e.seq = anchor.seq /\ e.hash # anchor.hash
             THEN fail("anchor")
        ELSE [report EXCEPT !.entries = @ + 1,
                            !.headSeq = e.seq, !.headHash = e.hash,
                            !.anchorSeen = @ \/ e.seq = anchor.seq]

\* One call of the callback VerifyChain passes to Stream; an invalid report is
\* one that has stopped the stream.
VerifyEntry(report, e, anchor) ==
    LET fail(why) == [report EXCEPT !.valid = FALSE, !.entries = @ + 1,
                                    !.firstInvalidSeq = e.seq, !.reason = why]
    IN  IF ~report.valid THEN report
        ELSE IF e.prev # report.headHash THEN fail("link")
        ELSE IF e.hash # calculateHash(e) THEN fail("hash")
        ELSE IF anchor # NoAnchor /\ e.seq = anchor.seq /\ e.hash # anchor.hash
             THEN fail("anchor")
        ELSE [report EXCEPT !.entries = @ + 1,
                            !.headSeq = e.seq, !.headHash = e.hash,
                            !.anchorSeen = @ \/ e.seq = anchor.seq]

FreshReport ==
    [valid |-> TRUE, entries |-> 0, headSeq |-> 0, headHash |-> <<>>,
     firstInvalidSeq |-> 0, reason |-> "", anchorSeen |-> FALSE]

\* The report after each row of the stream.
Reports(rows, anchor) ==
    LET report[i \in 0 .. Len(rows)] ==
          IF i = 0 THEN FreshReport
          ELSE VerifyEntry(report[i - 1], rows[i], anchor)
    IN  report

VerifyChain(table, anchor) ==
    LET rows   == Stream(table, 0)
        report == Reports(rows, anchor)[Len(rows)]
    IN  IF report.valid /\ anchor # NoAnchor /\ ~report.anchorSeen
        THEN [report EXCEPT !.valid = FALSE, !.firstInvalidSeq = anchor.seq,
                            !.reason = "missing"]
        ELSE report

=============================================================================

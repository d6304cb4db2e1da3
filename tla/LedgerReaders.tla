---------------------------- MODULE LedgerReaders ----------------------------
(***************************************************************************)
(* The readers of backend/internal/ledger/handler.go beside concurrent      *)
(* appends: resumable exports and verifications behind the fullScan gate of  *)
(* their replica, and clients that follow X-Next-Before from page to page.   *)
(* A SELECT sees the rows committed when it starts.                         *)
(***************************************************************************)
EXTENDS Ledger, LedgerScan

CONSTANTS
    Clients,    \* clients of export and verify
    Replicas,   \* processes, each with a Handler of its own
    PageSize    \* limit of a paging client

ASSUME ReadersAssumption == PageSize \in Nat \ {0}

VARIABLES
    fullScan,   \* fullScan[p]: Handler.fullScan of replica p
    scan,       \* scan[x]: the full scan a client is served, if any
    seen,       \* seen[x]: the rows a client has exported, in order
    pages       \* a paging client: rows received, next before, first head

readerVars == <<fullScan, scan, seen, pages>>
allVars == <<vars, readerVars>>

NoScan == [kind |-> "none"]

\* before = 0: the next request starts a listing at the head.
NoPages == [rows |-> <<>>, before |-> 0, head |-> 0, done |-> FALSE]

ReadersInit ==
    /\ Init
    /\ fullScan = [p \in Replicas |-> FALSE]
    /\ scan = [x \in Clients |-> NoScan]
    /\ seen = [x \in Clients |-> <<>>]
    /\ pages = NoPages

-----------------------------------------------------------------------------
LastSeq(rows) == IF rows = <<>> THEN 0 ELSE rows[Len(rows)].seq

\* acquireFullScan; a client that finds the gate taken gets 429 and nothing
\* changes.  An export resumes after the last row received.
StartScan(x, p, kind) ==
    /\ scan[x] = NoScan
    /\ ~fullScan[p]
    /\ fullScan' = [fullScan EXCEPT ![p] = TRUE]
    /\ scan' = [scan EXCEPT ![x] =
                  [kind |-> kind, replica |-> p,
                   rows |-> Stream(table, IF kind = "export"
                                          THEN LastSeq(seen[x]) ELSE 0)]]
    /\ UNCHANGED <<seen, pages>>

ExportRow(x) ==
    /\ scan[x].kind = "export"
    /\ scan[x].rows # <<>>
    /\ seen' = [seen EXCEPT ![x] = Append(@, Head(scan[x].rows))]
    /\ scan' = [scan EXCEPT ![x].rows = Tail(@)]
    /\ UNCHANGED <<fullScan, pages>>

\* Mutant: a scan that is cut short leaves the gate closed.
EndScanLeaks(x) ==
    /\ scan[x].kind # "none"
    /\ scan' = [scan EXCEPT ![x] = NoScan]
    /\ fullScan' = [fullScan EXCEPT ![scan[x].replica] = scan[x].rows # <<>>]
    /\ UNCHANGED <<seen, pages>>

\* The scan ends, with all rows or cut short (client gone, query failed); the
\* deferred Store opens the gate on every path.
EndScan(x) ==
    /\ scan[x].kind # "none"
    /\ scan' = [scan EXCEPT ![x] = NoScan]
    /\ fullScan' = [fullScan EXCEPT ![scan[x].replica] = FALSE]
    /\ UNCHANGED <<seen, pages>>

\* Mutant: the cursor handed out is the one before the last row.
NextBeforeSkips(page) ==
    IF Len(page) = PageSize THEN page[Len(page)].seq - 1 ELSE 0

\* handleQuery: X-Next-Before is set when the page is full.
NextBefore(page) ==
    IF Len(page) = PageSize THEN page[Len(page)].seq ELSE 0

FetchPage ==
    /\ ~pages.done
    /\ LET page == Page(table, pages.before, PageSize)
       IN  pages' = [rows   |-> pages.rows \o page,
                     before |-> NextBefore(page),
                     head   |-> IF pages.before = 0
                                THEN GetLatestLedgerEntry(table).seq
                                ELSE pages.head,
                     done   |-> NextBefore(page) = 0]
    /\ UNCHANGED <<fullScan, scan, seen>>

-----------------------------------------------------------------------------
ReaderStep ==
    \/ \E x \in Clients :
         \/ \E p \in Replicas, kind \in {"export", "verify"} :
              StartScan(x, p, kind)
         \/ ExportRow(x)
         \/ EndScan(x)
    \/ FetchPage

ReadersNext ==
    \/ Next /\ UNCHANGED readerVars
    \/ ReaderStep /\ UNCHANGED vars

ReadersSpec == ReadersInit /\ [][ReadersNext]_allVars

\* Readers read when they like; of the appends the same is assumed as in Ledger.
FairReadersSpec == ReadersSpec /\ \A c \in Calls : WF_vars(Step(c))

-----------------------------------------------------------------------------
(* Properties *)

\* What a client has exported, over any number of interrupted and resumed
\* requests, is a prefix of the chain: no row is missing, repeated or out of
\* order.  A row never commits behind one that was already exported.
ExportMissesNothing ==
    LET chain == Stream(table, 0) IN
    \A x \in Clients :
        /\ Len(seen[x]) <= Len(chain)
        /\ \A i \in DOMAIN seen[x] : seen[x][i] = chain[i]

\* A finished listing holds every entry up to the head of its first page once,
\* newest first, whatever was appended meanwhile.
PagingIsComplete ==
    pages.done =>
        /\ Len(pages.rows) = pages.head
        /\ \A i \in DOMAIN pages.rows : pages.rows[i].seq = pages.head + 1 - i

\* The gate of a replica is closed exactly while one scan runs on it.
GateMatchesScans ==
    \A p \in Replicas :
        LET running == {x \in Clients : scan[x].kind # "none"
                                        /\ scan[x].replica = p}
        IN  Cardinality(running) = IF fullScan[p] THEN 1 ELSE 0

\* The chain verifies at every moment, against the head recorded at any earlier
\* moment (Head, VerifyChain).
AlwaysVerifies ==
    /\ VerifyChain(table, NoAnchor).valid
    /\ \A r \in table :
         VerifyChain(table, [seq |-> r.seq, hash |-> r.hash]).valid

-----------------------------------------------------------------------------
(* The inductive invariant behind them, beside IInv of Ledger *)

Scans == [kind : {"export", "verify"}, replica : Replicas, rows : Seq(table)]

\* x is being served a scan on replica p.
Runs(x, p) == scan[x].kind # "none" /\ scan[x].replica = p

\* Every scan closed the gate of its replica, for itself alone.
GateInv ==
    /\ fullScan \in [Replicas -> BOOLEAN]
    /\ \A p \in Replicas : fullScan[p] <=> \E x \in Clients : Runs(x, p)
    /\ \A p \in Replicas : \A x, y \in Clients : Runs(x, p) /\ Runs(y, p) => x = y

\* rows are numbered n + 1, n + 2, ...
Follows(rows, n) == \A i \in 1 .. Len(rows) : rows[i].seq = n + i

\* What a client has received starts at the first row; the rest of its export
\* goes on with the next one.
ExportInv ==
    /\ scan \in [Clients -> {NoScan} \cup Scans] /\ seen \in [Clients -> Seq(table)]
    /\ \A x \in Clients :
         /\ Follows(seen[x], 0)
         /\ scan[x].kind = "export" => Follows(scan[x].rows, Len(seen[x]))

\* rows are numbered n, n - 1, ...
Descends(rows, n) == \A i \in 1 .. Len(rows) : rows[i].seq = n + 1 - i

\* The pages so far run from the head down to the cursor.
PagesInv ==
    /\ pages \in [rows : Seq(table), before : Nat,
                  head : 0 .. Cardinality(table), done : BOOLEAN]
    /\ Descends(pages.rows, pages.head)
    /\ pages.done => Len(pages.rows) = pages.head
    /\ ~pages.done /\ pages.before = 0 => pages.rows = <<>>
    /\ pages.before > 0 => pages.before + Len(pages.rows) = pages.head + 1

ReadersInv == IInv /\ GateInv /\ ExportInv /\ PagesInv

=============================================================================

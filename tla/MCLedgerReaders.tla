--------------------------- MODULE MCLedgerReaders ---------------------------
(* Instances of LedgerReaders, and of Ledger with it, for TLC. *)
EXTENDS LedgerReaders

CONSTANTS c1, c2, c3, x1, x2, p1

=============================================================================

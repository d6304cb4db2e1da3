---------------------------- MODULE MCQuarantine ----------------------------
(* Instances of Quarantine for TLC. *)
EXTENDS Quarantine, TLC

CONSTANTS w1, w2, r1

MCWorkers == {w1, w2}
MCReviewers == {r1}

Symmetry == Permutations(MCWorkers)

=============================================================================

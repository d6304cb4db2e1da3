----------------------------- MODULE MCSlackApp -----------------------------
(* Instances of SlackApp for TLC. *)
EXTENDS SlackApp

CONSTANTS e1, u1

=============================================================================

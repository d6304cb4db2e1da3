--------------------------- MODULE MCPolicyEngine ---------------------------
(* Instances of PolicyEngine for TLC. *)
EXTENDS PolicyEngine

CONSTANTS watcher, admin, r1

=============================================================================

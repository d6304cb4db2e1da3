----------------------------- MODULE HeldAction -----------------------------
(***************************************************************************)
(* What the quarantine promises about each held action, seen from outside:  *)
(* its state, and the upstream calls made since its latest approval.        *)
(* Entries move independently of one another, several in one step.          *)
(***************************************************************************)
EXTENDS Naturals

CONSTANTS Entries, MaxReplayAttempts

VARIABLES state, calls

vars == <<state, calls>>

States == {"absent", "pending", "approved", "replaying", "replayed",
           "replay_failed", "denied"}

Init ==
    /\ state = [e \in Entries |-> "absent"]
    /\ calls = [e \in Entries |-> 0]

Moves(e, from, to) == state[e] \in from /\ state'[e] = to

\* The state machine of store.go, with the transitions of its UPDATEs.
Transition(e) ==
    \/ Moves(e, {"absent"}, "pending")
    \/ Moves(e, {"pending", "replay_failed"}, "denied")
    \/ Moves(e, {"approved"}, "replaying")
    \/ Moves(e, {"replaying"}, "replayed") /\ calls[e] > 0
    \/ Moves(e, {"replaying"}, "replay_failed")
    \/ Moves(e, {"replaying"}, "approved")

\* Only a reviewer's approval opens a new budget of calls.
Approval(e) ==
    /\ Moves(e, {"pending", "replay_failed"}, "approved")
    /\ calls'[e] = 0

\* A call is made only while the entry is being replayed and within budget.
Call(e) ==
    /\ state[e] = "replaying"
    /\ calls[e] <= MaxReplayAttempts
    /\ calls'[e] = calls[e] + 1

EntryStep(e) ==
    \/ Transition(e) /\ calls'[e] = calls[e]
    \/ Approval(e)
    \/ Call(e) /\ state'[e] = state[e]
    \/ state'[e] = state[e] /\ calls'[e] = calls[e]

Next ==
    /\ state' \in [Entries -> States]
    /\ calls' \in [Entries -> Nat]
    /\ \A e \in Entries : EntryStep(e)

Spec == Init /\ [][Next]_vars

=============================================================================

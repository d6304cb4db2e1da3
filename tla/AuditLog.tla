------------------------------ MODULE AuditLog ------------------------------
(***************************************************************************)
(* What Append promises its callers: a log that only grows at its end, in   *)
(* which a call is recorded at most once, between its start and its return,  *)
(* and always when it returns without an error.  After an error the caller  *)
(* cannot know.                                                            *)
(***************************************************************************)
EXTENDS Sequences

CONSTANT Calls

VARIABLES log, call

vars == <<log, call>>

Init == log = <<>> /\ call = [c \in Calls |-> "idle"]

Start(c) ==
    /\ call[c] = "idle"
    /\ call' = [call EXCEPT ![c] = "running"]
    /\ UNCHANGED log

Succeed(c) ==
    /\ call[c] = "running"
    /\ call' = [call EXCEPT ![c] = "ok"]
    /\ log' = Append(log, c)

Fail(c) ==
    /\ call[c] = "running"
    /\ call' = [call EXCEPT ![c] = "error"]
    /\ log' \in {log, Append(log, c)}

Next == \E c \in Calls : Start(c) \/ Succeed(c) \/ Fail(c)

Spec == Init /\ [][Next]_vars

=============================================================================

------------------------------ MODULE MCNotify ------------------------------
(* Instances of Notify for TLC. *)
EXTENDS Notify

CONSTANTS a1, a2, a3, slack, webhook, w1, w2

MCWorkers == {w1, w2}

\* All replicas have the same channels.
Alike == [w \in MCWorkers |-> Channels]

\* A rollout that adds the webhook has reached w1 and not w2.
Rollout == [w \in MCWorkers |-> IF w = w1 THEN Channels ELSE {slack}]

=============================================================================

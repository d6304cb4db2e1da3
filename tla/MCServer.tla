------------------------------ MODULE MCServer ------------------------------
(* Instances of Server for TLC. *)
EXTENDS Server, TLC

CONSTANTS r1, r2

Is(n) == [name |-> n, caps |-> FALSE, pad |-> FALSE]

Ann == [Is("ann") EXCEPT !.caps = TRUE]

Config(agents, reviewing, admins, sso, slack) ==
    [APIKeys |-> agents, ReviewerAPIKeys |-> reviewing, AdminAPIKeys |-> admins,
     sso |-> sso, slack |-> slack]

\* With everything set up, and an agent's address between spaces among the reviewers;
\* with keys only; and what Validate has to refuse: an agent that reviews by key or
\* in Slack, a shared token, a role without keys.
SomeConfigs ==
    {Config("k1" :> Ann, "k2" :> Is("rae"), << >>, TRUE,
            {Is("zoe"), [Is("ann") EXCEPT !.pad = TRUE]}),
     Config("k1" :> Ann, << >>, "k2" :> Is("ann"), FALSE, {}),
     Config("k1" :> Ann, "k2" :> Ann, << >>, TRUE, {Is("zoe")}),
     Config("k1" :> Ann, << >>, << >>, TRUE, {Is("ann")}),
     Config("k1" :> Ann, "k1" :> Is("rae"), << >>, FALSE, {}),
     Config("k1" :> Ann, << >>, << >>, FALSE, {}),
     Config(<< >>, "k2" :> Is("rae"), << >>, FALSE, {})}

Sessions == {[id |-> Is("sam"), role |-> "reviewer"]}

Emails == {Is("zoe"), Is("ann"), Is("eve")}

\* r1 runs the old version, r2 the new one.
Rollout ==
    [r \in Replicas |-> {<<0, 0, 1>>} \cup IF r = r2 THEN {<<0, 0, 1, 0>>} ELSE {}]

=============================================================================

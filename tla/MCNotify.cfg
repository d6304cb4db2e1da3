\* Two replicas during a rollout that adds a channel, with sends
\* and pauses that a lease may or may not outlast.
SPECIFICATION FairSpec
CONSTANTS
    a1 = a1
    a2 = a2
    a3 = a3
    slack = slack
    webhook = webhook
    w1 = w1
    w2 = w2
    Actions = {a1}
    Channels = {slack, webhook}
    Workers <- MCWorkers
    Configured <- Rollout
    MaxAttempts = 2
    BatchSize = 2
    Lease = 2
    SendTimeout = 1
    BackoffBase = 1
    BackoffCap = 4
    MaxSkew = 1
    MaxFaults = 1
INVARIANTS
    SendBudget
    LeaseIsExclusive
PROPERTIES
    NotSentAgain
    Announced

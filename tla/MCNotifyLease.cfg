\* The sends of a batch may outlast the lease, as 25 sends of 10 s outlast 2 min.
SPECIFICATION Spec
CONSTANTS
    a1 = a1
    a2 = a2
    a3 = a3
    slack = slack
    webhook = webhook
    w1 = w1
    w2 = w2
    Actions = {a1, a2, a3}
    Channels = {slack}
    Workers <- MCWorkers
    Configured <- Alike
    MaxAttempts = 2
    BatchSize = 3
    Lease = 2
    SendTimeout = 1
    BackoffBase = 1
    BackoffCap = 4
    MaxSkew = 0
    MaxFaults = 0
INVARIANTS
    NeverConcurrent

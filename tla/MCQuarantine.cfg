\* Two replicas and two entries: interleavings, a crash or a lost reply.
SPECIFICATION FairSpec
CONSTANTS
    w1 = w1
    w2 = w2
    r1 = r1
    Nobody = Nobody
    Entries = {1, 2}
    Workers <- MCWorkers
    Reviewers <- MCReviewers
    MaxReplayAttempts = 1
    BatchSize = 2
    MaxFaults = 1
    LockMayDrop = FALSE
INVARIANTS
    ClaimsAreCurrent
    ReplayBudget
    NothingRunsUnaudited
    LedgerTellsTruth
PROPERTIES
    OnlyClaimantMovesClaim
    KeepsPromise
    ApprovedIsSettled

\* A worker outlives the session that holds its advisory lock.
SPECIFICATION Spec
CONSTANTS
    w1 = w1
    w2 = w2
    r1 = r1
    Nobody = Nobody
    Entries = {1, 2}
    Workers <- MCWorkers
    Reviewers <- MCReviewers
    MaxReplayAttempts = 1
    BatchSize = 2
    MaxFaults = 1
    LockMayDrop = TRUE
SYMMETRY Symmetry
INVARIANTS
    RecoveryKeepsLiveClaims

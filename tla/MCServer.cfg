\* A replica of the old version and one of the new, started twice in all.
SPECIFICATION FairSpec
CONSTANTS
    r1 = r1
    r2 = r2
    Nobody = Nobody
    Dead = Dead
    Replicas = {r1, r2}
    Embedded <- Rollout
    Requests = {1, 2}
    Configs <- SomeConfigs
    Bearers = {"k1", "k2", "unknown", "malformed", "none"}
    SessionIdentities <- Sessions
    SlackEmails <- Emails
    Burst = 1
    Token = 2
    RPS = 1
    MaxAttempts = 2
    MaxStarts = 2
    MaxTime = 2
    MaxFaults = 1
CHECK_DEADLOCK FALSE
INVARIANTS
    RolloutIsSafe
    RateIsExact
    DutiesAreSeparate
PROPERTIES
    StartsAndStops

\* One person, listed or not, and two requests for one action.
SPECIFICATION Spec
CONSTANTS
    e1 = e1
    u1 = u1
    None = None
    Entries = {e1}
    MaxReplayAttempts = 0
    Users = {u1}
    Emails = {"listed", "other"}
    Reviewers = {"listed"}
    Requests = {1, 2}
    emailCacheTTL = 1
    maxSignatureAge = 0
    callTimeout = 1
    MaxTime = 2
    MaxChanges = 1
    MaxFaults = 2
CHECK_DEADLOCK FALSE
INVARIANTS
    SlackTellsTruth
    DecidesForReviewers
PROPERTIES
    ButtonsFollowDecision

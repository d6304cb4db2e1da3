\* One request of every kind, with failing statements, a silent upstream and a crash.
SPECIFICATION Spec
CONSTANTS
    r1 = r1
    Requests = {r1}
    Inputs <- ManyInputs
    Versions = {"p1", "p2"}
    MaxFaults = 2
CHECK_DEADLOCK FALSE
INVARIANTS
    EffectsAreRecorded
    AnswersAreTrue
    ExecutesWhatPolicySaw

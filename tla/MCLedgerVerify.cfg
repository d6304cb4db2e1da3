\* Three entries, entries with and without a policy version.
SPECIFICATION TamperSpec
CONSTANTS
    Length = 3
    Data = {"a"}
    Versions = {"", "v1"}
    MaxChanges = 6
CHECK_DEADLOCK FALSE
INVARIANTS
    AnchorProtectsPrefix
    ReportIsExact

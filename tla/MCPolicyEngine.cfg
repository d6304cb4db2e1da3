\* A watcher and an admin reload while files are edited and a request evaluated.
SPECIFICATION FairSpec
CONSTANTS
    watcher = watcher
    admin = admin
    r1 = r1
    NumFiles = 2
    InUse = {"v1", "legacy", "broken"}
    Reloaders = {watcher, admin}
    Watcher = watcher
    Requests = {r1}
    MaxEdits = 1
    MaxFaults = 1
INVARIANTS
    DecisionIsSnapshot
    ExactWhenUndisturbed
PROPERTIES
    ReloadIsFaithful
    WatcherConverges

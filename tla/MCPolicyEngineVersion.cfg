\* An edit between the fingerprint and the load.
SPECIFICATION Spec
CONSTANTS
    watcher = watcher
    admin = admin
    r1 = r1
    NumFiles = 2
    InUse = {"v1", "v2"}
    Reloaders = {watcher, admin}
    Watcher = watcher
    Requests = {r1}
    MaxEdits = 1
    MaxFaults = 0
INVARIANTS
    VersionIsExact

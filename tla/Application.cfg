SPECIFICATION ScenarioSpec
CONSTANTS
    Steps = 2
    Dedup = TRUE
    Trail = FALSE
    MaxRetries = 1
    MaxReplaced = 1
    MaxCrashes = 2
    MaxFaults = 2
    MaxTrouble = 2
    Threads = {t1, t2}
    NoThread = NoThread
    Ids = {1, 2}
    MaxGets = 2
    MaxLosses = 1
    Buffer = 1
    MaxDrops = 1
    MaxTimeouts = 2
    MaxProcCrashes = 1
    MaxErrors = 1
    Apps = {"a1", "a2"}
    Funs = {"f", "g"}
    Messages = {"a", "b", "c"}
    Wanted = {"a", "c"}
    Named = {"b", "c"}
    Limits = {0, 1, 2}
    MaxRuns = 2
    MaxInterrupted = 1
INVARIANT StepAfterReturn Covered ClientRight ConnectionsRight Registration MigrateRight
PROPERTY Settles
CHECK_DEADLOCK FALSE

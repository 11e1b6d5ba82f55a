SPECIFICATION Spec
CONSTANTS
    Messages = {"a", "b", "c"}
    Wanted = {"a", "c"}
    Named = {"b", "c"}
    Limits = {0, 1, 2}
    MaxRuns = 2
    MaxCrashes = 1
INVARIANT NothingLost
CHECK_DEADLOCK FALSE

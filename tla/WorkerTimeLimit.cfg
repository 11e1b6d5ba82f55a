CONSTANTS
    t = t
    u = u
    Tasks = {t}
    Options <- LimitOptions
    Ends = {"success", "requeue", "exit"}
    Concurrency = 1
    CancelOnLoss = FALSE
    None = None
    MaxDeliveries = 2
    MaxDrops = 1
    MaxCrashes = 0
SPECIFICATION LiveSpec
INVARIANT TimeLimitArmed
CHECK_DEADLOCK FALSE

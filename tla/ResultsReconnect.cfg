CONSTANTS
    None = None
    Threads = {t1}
    Tasks = {a}
    Task <- OneTask
    MaxGets = 1
    Timeouts = TRUE
    MaxLosses = 1
SPECIFICATION FairSpec
PROPERTY GetReturns
CHECK_DEADLOCK FALSE

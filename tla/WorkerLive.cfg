CONSTANTS
    t = t
    u = u
    Tasks = {t}
    Options <- LiveOptions
    Ends = {"success", "requeue", "exit"}
    Concurrency = 1
    CancelOnLoss = FALSE
    None = None
    MaxDeliveries = 2
    MaxDrops = 1
    MaxCrashes = 1
SPECIFICATION LiveSpec
PROPERTY AllSettled
CHECK_DEADLOCK FALSE

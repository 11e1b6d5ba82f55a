CONSTANTS
    t = t
    u = u
    Tasks = {t, u}
    Options <- AllOptions
    Ends <- AllEnds
    Concurrency = 1
    CancelOnLoss = TRUE
    None = None
    MaxDeliveries = 3
    MaxDrops = 2
    MaxCrashes = 1
SPECIFICATION ScenarioSpec
INVARIANT TablesAgree NoOrphan LateAckNotLost NoSlotLeak 
CHECK_DEADLOCK FALSE

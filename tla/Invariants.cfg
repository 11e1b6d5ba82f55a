SPECIFICATION ScenarioSpec
CONSTANTS
    Nil = Nil
    t1 = t1
    t2 = t2
    any = any
    Hub = TRUE
    Threads = {}
    BufferLimit = 2
    Groups0 = {"worker"}
    MaxEvents = 4
    MaxLosses = 2
    MaxCommands = 4
INVARIANT EventsKept MonitorRight RunsAsWritten StampsRight ConfigurationStable SignalsRight
    SentAsMeant
PROPERTY StoresRight
CHECK_DEADLOCK FALSE

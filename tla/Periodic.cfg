SPECIFICATION ScenarioSpec
CONSTANTS
    a = a
    b = b
    cleanup = cleanup
    None = None
    Units = 2
    Minutes = 2
    Hours = 2
    Week = 3
    MonthDays <- TwoMonths
    Years = 2
    Fields <- CronFields
    Deadlines = {None, 3}
INVARIANT CronExact
PROPERTY BeatRight
CHECK_DEADLOCK FALSE

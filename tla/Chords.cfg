CONSTANTS
    Parts = {p, q}
    Extra = {e}
    MaxAgain = 1
    MaxRuns = 3
    Duplicates = TRUE
    MaxCrashes = 2
    MaxFaults = 1
    MaxLostReplies = 1
    Members = {m, n}
    Workers = {v, w}
SPECIFICATION EitherSpec
INVARIANT BodyAfterAll BodyOnce
PROPERTY ImplementsChord
CHECK_DEADLOCK FALSE

SPECIFICATION ScenarioSpec
CONSTANTS
    Items = {x, y, z}
    MaxLen = 2
    MinLen = 1
    Expires = 1
    Overload = 15
    MaxClock = 2
    MaxSeq = 3
    MaxOther = 2
    w1 = w1
    w2 = w2
    w3 = w3
    id1 = id1
    id2 = id2
INVARIANT HeapCoversData RevokedAgreed
PROPERTY PurgeLeavesNoExpired NothingHangs GossipRight
CHECK_DEADLOCK FALSE

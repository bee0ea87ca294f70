SPECIFICATION FairSpec
CONSTANTS
    p1 = p1
    p2 = p2
    Polls = {p1, p2}
    MaxTasks = 2
    MaxEvents = 2
    MaxFailures = 1
CHECK_DEADLOCK FALSE
INVARIANTS
    WatermarkIsNewestShown
    NoGapInEventList
PROPERTIES
    PollingStops

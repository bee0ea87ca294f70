SPECIFICATION Spec
CONSTANTS
    p1 = p1
    p2 = p2
    Polls = {p1, p2}
    MaxTasks = 1
    MaxEvents = 2
    MaxFailures = 0
CHECK_DEADLOCK FALSE
SYMMETRY Symmetry
INVARIANTS
    QuietPageShowsEveryEvent

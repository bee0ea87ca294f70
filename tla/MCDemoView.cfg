SPECIFICATION FairSpec
CONSTANTS
    Polls = {p1, p2}
    MaxStarts = 2
    Interactive = {2}
    MaxFailures = 1
CHECK_DEADLOCK FALSE
INVARIANTS
    DisabledStartIsAttended
    GreenNeedsAPassedRun
PROPERTIES
    StartComesBack

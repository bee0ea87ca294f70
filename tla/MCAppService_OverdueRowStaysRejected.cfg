SPECIFICATION Spec
CONSTANTS
    t1 = t1
    u1 = u1
    u2 = u2
    Tasks = {t1}
    Users = {u1}
    MaxApprovals = 1
    MaxDecisions = 1
    MaxCrashes = 0
CHECK_DEADLOCK FALSE
INVARIANTS
    OverdueRowStaysRejected

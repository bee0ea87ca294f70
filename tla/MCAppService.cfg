SPECIFICATION FairSpec
CONSTANTS
    t1 = t1
    u1 = u1
    u2 = u2
    Tasks = {t1}
    Users = {u1, u2}
    MaxApprovals = 2
    MaxDecisions = 1
    MaxCrashes = 1
CHECK_DEADLOCK FALSE
INVARIANTS
    NoLostWakeup
    OutcomeHasACause
    ResolvedIsSettled
PROPERTIES
    TaskSettles
    GateImplemented

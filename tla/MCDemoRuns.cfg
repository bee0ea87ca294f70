SPECIFICATION Spec
CONSTANTS
    r1 = r1
    r2 = r2
    w1 = w1
    w2 = w2
    s1 = s1
    s2 = s2
    Runs = {r1, r2}
    Workers = {w1, w2}
    Scenarios = {s1, s2}
    Outcomes = {"COMPLETED", "FAILED"}
    MaxEvents = 1
SYMMETRY Symmetry
INVARIANTS
    LiveRunKeepsItsWorkspace
    RunsItsOwnScenario
    DoneAnswerIsFinal
    SweepReclaimsSettledRuns
    DirectoryStaysReclaimable

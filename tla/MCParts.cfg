SPECIFICATION PartsSpec
CONSTANTS
    git = git
    py = py
    py3 = py3
    rm = rm
    Procs = {p1, p2}
    Keys = {k1}
    Runnable <- CommandNames
    Names <- MCNames
    Tools <- MCTools
    Argv0s = {git, py, py3, rm}
    PythonFamily = {py3}
    Python = py
    Allowlist = {git, py, py3}
    RuleLists <- MCRuleLists
    Actions <- MCActions
    Defaults <- MCDefaults
INVARIANTS
    VerdictIsMostRestrictive
    MoreArgumentsNeverRelax
    AbbreviationNeverRelaxes
    SpellingsJudgedAlike
    RunExitCodeIsTrue
    AcceptanceIsGroundTruth
    UndisturbedDemoPasses
    RefusedActionsNeverRun

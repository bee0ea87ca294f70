SPECIFICATION FairSpec
CONSTANTS
    tests = tests
    write = write
    rewrite = rewrite
    push = push
    unknown = unknown
    finish = finish
    Actions = {tests, write, rewrite, push, unknown, finish}
    Finish = finish
    Registered = {tests, write, rewrite, push, finish}
    Fenced = {write}
    Policy <- MCPolicy
    Outcomes <- MCOutcomes
    MaxSteps = 3
    MaxFailures = 2
    NoProgressLimit = 2
    ActionRetryLimit = 2
    LlmMaxRetries = 1
INVARIANTS
    StopHonoured
    OnlyProposedActionsRun
    AuditJustifiesExecution
    ExecutionsAudited
    TerminationIsLast
    SummaryShowsWhatRan
    WorkBounded
    PromptShowsEveryStep
PROPERTIES
    RunIsGoverned
    RunTerminates

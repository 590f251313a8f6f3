SPECIFICATION FairSpec
CONSTANTS
    NumJobs = 1
    Resources <- MCResources
    Needs <- MCNeeds
    Worktree <- MCWorktree
    Writers = {1}
    TaskResources = {}
    GateCommands <- MCGates
    Installs = {1}
    MaxActive = 1
    CleanupMayFail = TRUE
    MaxRevision <- MCFirstJob
    MaxRestarts = 2
INVARIANTS
    ExitedMeansGone
    RecordsAgree
PROPERTIES
    CancelledJobsEnd
    DispatchedJobsEnd
    TerminalStatesAreFinal
    GateOpensOnlyEnrolled
    AppliesOnlyCleanDelta
CHECK_DEADLOCK FALSE

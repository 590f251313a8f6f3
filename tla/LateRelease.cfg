SPECIFICATION Spec
CONSTANTS
    NumJobs = 1
    Resources <- MCResources
    Needs <- MCNeeds
    Worktree <- MCWorktree
    Writers = {}
    TaskResources = {}
    GateCommands <- MCNoGates
    Installs = {}
    MaxActive = 1
    CleanupMayFail = FALSE
    MaxRevision <- MCNever
    MaxRestarts = 0
INVARIANTS
    RunningJobKeepsReservations
CHECK_DEADLOCK FALSE

SPECIFICATION Spec
CONSTANTS
    NumJobs = 2
    Resources <- MCResources
    Needs <- MCTaskNeeds
    Worktree <- MCWorktree
    Writers = {}
    TaskResources = {"task"}
    GateCommands <- MCNoGates
    Installs = {}
    MaxActive = 1
    CleanupMayFail = FALSE
    MaxRevision <- MCNever
    MaxRestarts = 2
INVARIANTS
    DependentsAreCancelledOnRestart
CHECK_DEADLOCK FALSE

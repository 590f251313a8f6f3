SPECIFICATION FairSpec
CONSTANTS
    NumJobs = 2
    Resources <- MCResources
    Needs <- MCApartNeeds
    Worktree <- MCApartWorktree
    Writers = {}
    TaskResources = {}
    GateCommands <- MCNoGates
    Installs = {}
    MaxActive = 1
    CleanupMayFail = FALSE
    MaxRevision <- MCNever
    MaxRestarts = 1
INVARIANTS
    CapacityBound
PROPERTIES
    QueueDrains
CHECK_DEADLOCK FALSE

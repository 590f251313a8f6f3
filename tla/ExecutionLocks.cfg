SPECIFICATION Spec
CONSTANTS
    NumJobs = 2
    Resources <- MCResources
    Needs <- MCTaskNeeds
    Worktree <- MCWorktree
    Writers = {1}
    TaskResources = {"task"}
    GateCommands <- MCNoGates
    Installs = {}
    MaxActive = 2
    CleanupMayFail = TRUE
    MaxRevision <- MCFirstJob
    MaxRestarts = 2
INVARIANTS
    DependentsAreNotResumed
    ReservationsFenceExecution
PROPERTIES
    ImplementsReservation
CHECK_DEADLOCK FALSE

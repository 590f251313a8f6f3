SPECIFICATION Spec
CONSTANTS
    w1 = w1
    w2 = w2
    NoWorktree = NoWorktree
    NumTasks = 3
    Bounds <- MCBounds
    Worktrees = {w1, w2}
    ReadOnly = {3}
    MaxQueued = 9
    Outcomes = {"blocked", "completed", "checkpointed"}
    ControlKinds = {"instruction", "pause", "resume"}
INVARIANTS
    ControlsInOrder
    InstructionsReachWork
    WorkingHasExecution
    OwnershipFollowsTask
    FloorIsBounded
PROPERTIES
    CheckpointKeepsWorktree
SYMMETRY Interchangeable
CHECK_DEADLOCK FALSE

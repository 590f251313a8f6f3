SPECIFICATION Spec
CONSTANTS
    canonical = canonical
    isolated = isolated
    l1 = l1
    l2 = l2
    Jobs = {1, 2, 3}
    Trees = {canonical, isolated}
    Private = {isolated}
    Cwd <- MCCwd
    Visible <- MCVisible
    Candidate <- MCCandidate
    Locks = {l1, l2}
    Networks = {{1, 2, 3}, {}}
    MaxEdits = 2
    MaxUpgrades = 1
    MaxCrashes = 1
INVARIANTS
    MountsMatchLock
    ChangesSurvive
    GuardHasHolder
SYMMETRY MCSymmetry
CHECK_DEADLOCK FALSE

SPECIFICATION FairSpec
CONSTANTS
    verify = verify
    deploy = deploy
    other = other
    candidate = candidate
    staging = staging
    production = production
    gv = gv
    gd = gd
    p1 = p1
    p2 = p2
    Ops = {verify, deploy}
    Candidates = {candidate}
    Targets = {staging, production}
    Grants = {gv, gd}
    Procs = {p1}
    CandidateOf <- MCProofCandidateOf
    TargetOf <- MCProofTargetOf
    Mutating = {deploy}
    Covers <- MCProofCovers
    Expiring = {gv, gd}
    Drifting = {candidate}
    NoProc = NoProc
    Free = Free
    MaxAttempts = 1
    MaxStarts = 2
INVARIANTS
    MutationFollowsVerification
PROPERTIES
    DispatchIsPermitted
    ExecutionIsObserved
CHECK_DEADLOCK FALSE

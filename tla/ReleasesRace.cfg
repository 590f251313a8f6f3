SPECIFICATION Spec
CONSTANTS
    verify = verify
    deploy = deploy
    other = other
    candidate = candidate
    staging = staging
    production = production
    gv = gv
    gd = gd
    p1 = p1
    p2 = p2
    Ops = {deploy, other}
    Candidates = {candidate}
    Targets = {production}
    Grants = {gd}
    Procs = {p1, p2}
    CandidateOf <- MCRaceCandidateOf
    TargetOf <- MCRaceTargetOf
    Mutating = {}
    Covers <- MCRaceCovers
    Expiring = {}
    Drifting = {}
    NoProc = NoProc
    Free = Free
    MaxAttempts = 2
    MaxStarts = 2
INVARIANTS
    TargetsAreFenced
    CommandsAreFenced
    NotAppliedIsProof
    AtMostOneEffect
PROPERTIES
    OutcomesAreFinal
SYMMETRY Interchangeable
CHECK_DEADLOCK FALSE

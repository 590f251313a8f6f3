SPECIFICATION Spec
CONSTANTS
    Jobs = {1, 2, 3, 4}
    Setups <- MCSetups
    MaxTier = 3
    Default = 2
    PromotePairs = 2
    DemoteMinObservations = 2
    DemoteGoodProbes = 1
INVARIANTS
    LedgerIsAuthoritative
    PromotionsRestOnEvidence
CHECK_DEADLOCK FALSE

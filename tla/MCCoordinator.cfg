CONSTANTS
    r1 = r1
    r2 = r2
    Requests = {r1, r2}
    NoTag = NoTag
    NoTxn = NoTxn
    NoEpoch = NoEpoch
    NoSnapshot = NoSnapshot
    PublishBeforeEmit = TRUE
    PageCount = 2
    PageSize = 2
    Totals = {2}
    MaxBlocks = 2
    MaxVersion = 2
    MaxLife = 1
    MaxReload = 0
SYMMETRY RequestSymmetry
SPECIFICATION Spec
INVARIANTS
    CoordinatorAudit
    PreflightSuffices
    LostRepliesInert
    BlocksCommittedOnce
    CoordinatesNeverReused
PROPERTY ImplementsFencedVerdicts
CHECK_DEADLOCK FALSE

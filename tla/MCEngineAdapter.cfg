CONSTANTS
    r1 = r1
    r2 = r2
    Requests = {r1, r2}
    NoTag = NoTag
    NoTxn = NoTxn
    NoEpoch = NoEpoch
    NoSnapshot = NoSnapshot
    PublishBeforeEmit = TRUE
    PageCount = 2
    PageSize = 2
    Totals = {2}
    MaxBlocks = 2
    MaxVersion = 2
    MaxLife = 0
    MaxReload = 0
    Buckets <- SmallShapes
SYMMETRY RequestSymmetry
VIEW WithoutAnsweredCommands
SPECIFICATION AdapterSpec
INVARIANTS
    AdapterAudit
    BackendAgrees
CHECK_DEADLOCK FALSE

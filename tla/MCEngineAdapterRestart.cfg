CONSTANTS
    r1 = r1
    Requests = {r1}
    NoTag = NoTag
    NoTxn = NoTxn
    NoEpoch = NoEpoch
    NoSnapshot = NoSnapshot
    PublishBeforeEmit = TRUE
    PageCount = 3
    PageSize = 2
    Totals = {3}
    MaxBlocks = 3
    MaxVersion = 3
    MaxLife = 2
    MaxReload = 0
    Buckets <- SmallShapes
SPECIFICATION AdapterFairSpec
INVARIANT AdapterAudit
PROPERTY EveryRowSettles
CHECK_DEADLOCK FALSE

CONSTANTS
    r1 = r1
    Requests = {r1}
    NoTag = NoTag
    NoTxn = NoTxn
    NoEpoch = NoEpoch
    NoSnapshot = NoSnapshot
    PublishBeforeEmit = TRUE
    PageCount = 3
    PageSize = 2
    Totals = {3}
    MaxBlocks = 3
    MaxVersion = 3
    MaxLife = 2
    MaxReload = 1
SPECIFICATION FairSpec
PROPERTY EveryAttemptSettles
CHECK_DEADLOCK FALSE

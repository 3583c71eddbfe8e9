CONSTANTS
    r1 = r1
    Requests = {r1}
    NoTag = NoTag
    NoTxn = NoTxn
    NoEpoch = NoEpoch
    NoSnapshot = NoSnapshot
    PublishBeforeEmit = FALSE
    PageCount = 3
    PageSize = 2
    Totals = {3}
    MaxBlocks = 3
    MaxVersion = 2
    MaxLife = 1
    MaxReload = 0
SPECIFICATION Spec
INVARIANT LostRepliesInert
CHECK_DEADLOCK FALSE

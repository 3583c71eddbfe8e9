CONSTANTS
    r1 = r1
    r2 = r2
    o1 = o1
    o2 = o2
    Requests = {r1}
    Outcomes = {o1, o2}
    NoTxn = NoTxn
    PageCount = 3
    PageSize = 2
    MaxBlocks = 3
    MaxAppended = 2
    MaxVersion = 2
    MaxRound = 1
    MaxGeneration = 2
    MaxPools = 1
SYMMETRY ClientSymmetry
VIEW WithoutUsedCheckpoint
SPECIFICATION Spec
INVARIANTS
    LedgerAudit
    ClosedEpochsStayClosed
    StaleHandlesInert
PROPERTY CommittedPrefixStable
CHECK_DEADLOCK FALSE

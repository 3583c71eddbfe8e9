CONSTANTS
    r1 = r1
    r2 = r2
    Requests = {r1, r2}
    NoTag = NoTag
    PublishBeforeEmit = TRUE
    MaxRound = 1
    MaxVersion = 2
    MaxLife = 2
    MaxAccepted = 1
SYMMETRY RequestSymmetry
SPECIFICATION Spec
INVARIANTS
    TypeOK
    CheckpointNeverRejected
    CommandsNeverReissued
    LostRepliesFenced
    VerdictOnce
    OnlyNewestCommandMatches
PROPERTY ImplementsFencedVerdicts
CHECK_DEADLOCK FALSE

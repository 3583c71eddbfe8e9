CONSTANTS
    Jobs = {1, 2, 3}
    Workers = {1, 2}
    Inputs <- SmallInputs
    Services = {0, 2}
    RetryDelays = {0, 3}
    MaxBatch = 2
    Window = 1
    Capacity = 1
    MaxRetries = 1
SPECIFICATION FairSpec
INVARIANT ServiceAudit
PROPERTIES
    WorkConserving
    Termination
CHECK_DEADLOCK FALSE

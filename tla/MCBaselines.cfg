CONSTANTS
    Requests = {1, 2, 3}
    MaxBatch = 2
    Traces <- SmallTraces
    Schedulers <- SmallSchedulers
    Costs <- SmallCosts
SPECIFICATION Spec
INVARIANTS
    DraftsMatchWaits
    NothingStarves
PROPERTY TraceCompletes

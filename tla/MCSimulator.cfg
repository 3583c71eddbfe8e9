CONSTANTS
    Requests = {1, 2, 3}
    MaxBatch = 2
    Workloads <- SmallWorkloads
    Profiles <- SmallProfiles
    Policies <- AllPolicies
SPECIFICATION Spec
INVARIANTS
    RowsCurrent
    HoldsKept
PROPERTY EveryRequestCompletes

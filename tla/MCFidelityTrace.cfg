CONSTANTS
    Traces <- MCTraces
    CostModels <- MCCosts
    Classes <- MCClasses
    Fanout = 2
    BranchSizes = {2, 3, 11}
    TargetBatchSize = 2
    ByteBudget = 9
    PageBytes = 2
SPECIFICATION Spec
INVARIANTS
    RoundAudit
    PopularBranchesLast

SPECIFICATION Spec
CONSTANTS
    A = A
    B = B
    C = C
    H = H
    Null = Null
    PendingNextAll = PendingNextAll
    Task <- ThreeTasks
    Handle <- OneHandle
SYMMETRY Symmetric
INVARIANTS ListIsSound IterIsExact GetMeetsTheRun NoNestedRun WaitsOnlyUnderRemoval NothingLeaks
PROPERTIES ClearLeavesNothing

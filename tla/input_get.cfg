SPECIFICATION Spec
CONSTANTS
    A = A
    B = B
    C = C
    H = H
    Null = Null
    PendingNextAll = PendingNextAll
    Task <- TwoTasks
    Handle <- NoHandle
SYMMETRY Symmetric
INVARIANT GetReadsParameter

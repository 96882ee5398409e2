SPECIFICATION FairSpec
CONSTANTS
    A = A
    B = B
    X = X
    Y = Y
    None = None
    Self = Self
    Task <- TwoTasks
    Thread <- TwoThreads
INVARIANTS CellIsExclusive ParkedIsCovered SpawnedAreCovered
PROPERTIES WokenIsPolled

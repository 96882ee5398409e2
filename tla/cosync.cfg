SPECIFICATION CosyncFairSpec
CONSTANTS
    A = A
    B = B
    X = X
    H = H
    None = None
    Input = Input
    Owner_ = Owner
    IdSpace = 2
    Task <- TwoTasks
    Waker <- OneWaker
    Handle <- HandleAndInput
    WakesPerPoll = 1
INVARIANTS CosyncTypeOK RunStartsAll OnePlace FifoPerActor
PROPERTIES IdsGrow QueuedIsStarted IsExecutor

SPECIFICATION SerialFairSpec
CONSTANTS
    A = A
    B = B
    C = C
    X = X
    H = H
    None = None
    Input = Input
    Mine = Mine
    Owner_ = Owner
    IdSpace = 4
    Task <- TwoTasks
    Waker <- OneWaker
    Handle <- ThreeActors
    WakesPerPoll = 1
INVARIANTS OneAtATime CompletesInOrder ReadyMeansDone
PROPERTIES SerialReturns IsExecutor

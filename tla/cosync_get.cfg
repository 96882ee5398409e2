SPECIFICATION CosyncSpec
CONSTANTS
    A = A
    B = B
    X = X
    H = H
    None = None
    Input = Input
    Owner_ = Owner
    IdSpace = 4
    Task <- TwoTasks
    Waker <- NoWaker
    Handle <- HandleAndInput
    WakesPerPoll = 1
INVARIANTS InputIsUsable

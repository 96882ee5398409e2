SPECIFICATION CosyncSpec
CONSTANTS
    A = A
    B = B
    X = X
    H = H
    None = None
    Input = Input
    Owner_ = Owner
    IdSpace = 4
    Task <- TwoTasks
    Waker <- NoWaker
    Handle <- OnlyInput
    WakesPerPoll = 1
PROPERTIES RunsInQueueOrder

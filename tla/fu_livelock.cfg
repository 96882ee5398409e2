SPECIFICATION FairSpec
CONSTANTS
    A = A
    B = B
    X = X
    Y = Y
    None = None
    Task <- TwoTasks
    Waker <- OneWaker
    WakesPerPoll = 1
PROPERTY AlwaysReturns

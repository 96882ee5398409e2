SPECIFICATION Spec
CONSTANTS
    A = A
    B = B
    X = X
    Y = Y
    None = None
    Task <- TwoTasks
    Waker <- TwoWakers
    WakesPerPoll = 1
INVARIANT NoAbortInClear

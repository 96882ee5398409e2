SPECIFICATION FairRaceFreeSpec
CONSTANTS
    A = A
    B = B
    X = X
    Y = Y
    None = None
    Task <- TwoTasks
    Waker <- TwoWakers
    WakesPerPoll = 2
INVARIANTS TypeOK QueuedOnce RefCount NoLostWake DueArePolled NoAbortInDrop NothingLeftInQueue
PROPERTIES PollNextReturns WokenIsPolled

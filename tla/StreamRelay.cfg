SPECIFICATION Spec
CONSTANTS
    Paths <- AllPaths
    MaxFrames <- FrameBounds
    MaxAttempts = 2
    MaxUnlawful = 1
INVARIANTS
    WellFormed EndsOnce EndIsTold CompletionIsGenuine TokensTold RetryInvisible
CHECK_DEADLOCK FALSE

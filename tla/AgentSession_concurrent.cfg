CONSTANTS
    c1 = c1
    c2 = c2
    Callers = {c1, c2}
    QueueCap = 1
    MaxStarts = 2
    MaxFeeds = 3
    MaxReply = 1
    SpeechStartFrames = 1
    SilenceEndFrames = 1
    MinTurnDuration = 1
    MaxTurnDuration = 1
SPECIFICATION Spec
SYMMETRY CallerSymmetry
INVARIANTS
    LiveLoopIsReachable
    BusyMeansTurn
    HeardOnce

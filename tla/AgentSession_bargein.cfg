CONSTANTS
    c1 = c1
    Callers = {c1}
    QueueCap = 2
    MaxStarts = 2
    MaxFeeds = 4
    MaxReply = 2
    SpeechStartFrames = 1
    SilenceEndFrames = 1
    MinTurnDuration = 1
    MaxTurnDuration = 2
SPECIFICATION FairSpec
INVARIANT PlaybackListens

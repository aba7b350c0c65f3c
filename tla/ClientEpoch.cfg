CONSTANTS
    a = a
    p = p
    Channel <- OneChannel
    Pos <- OnePosition
    None = None
    Floor = 2
    Deadline = 2
    MaxTime = 4
    MaxEpisodes = 2
    QMax = 1
SPECIFICATION EpochSpec
INVARIANTS EpochTypeOK PausedIffBlocked NeverSleepsThroughAll
CHECK_DEADLOCK FALSE

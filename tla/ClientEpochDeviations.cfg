CONSTANTS
    a = a
    p = p
    Channel <- OneChannel
    Pos <- OnePosition
    None = None
    Floor = 2
    Deadline = 2
    MaxTime = 4
    MaxEpisodes = 2
    QMax = 1
SPECIFICATION EpochSpec
\* Each of these is violated on its own: keep one of them at a time.
INVARIANTS
    NotedIsDelivered
    InterruptionsAreRaised
    TimerOnTime
CHECK_DEADLOCK FALSE

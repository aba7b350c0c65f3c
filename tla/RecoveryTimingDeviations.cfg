CONSTANTS
    a = a
    p = p
    Channel <- OneChannel
    Pos <- OnePosition
    None = None
    Floor = 3
    Deadline = 2
    MaxTime = 6
    MaxEpisodes = 1
SPECIFICATION TimingSpec
\* Each of these is violated on its own: keep one of them at a time.
PROPERTIES
    FloorPerChannel
    SilenceIsTheServers
CHECK_DEADLOCK FALSE

CONSTANTS
    a = a
    b = b
    Channel <- TwoChannels
    Pos <- Positions
    None = None
    Floor = 2
    Deadline = 2
    MaxTime = 4
    MaxEpisodes = 1
    MaxPos = 3
    StaleReplies = TRUE
    LaterLoss = TRUE
SYMMETRY Symmetry
SPECIFICATION GapSpec
\* Each of these is violated on its own: keep one of them at a time.
INVARIANTS
    NoSilentLoss
    RecoveryWatched
    DirectLossReported
    InterruptionsRaised
    PossibleGapsPut
CHECK_DEADLOCK FALSE

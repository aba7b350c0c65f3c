CONSTANTS
    a = a
    b = b
    Channel <- TwoChannels
    Pos <- Positions
    None = None
    Floor = 2
    Deadline = 2
    MaxTime = 4
    MaxEpisodes = 1
    MaxPos = 3
    StaleReplies = FALSE
    LaterLoss = FALSE
SYMMETRY Symmetry
SPECIFICATION GapSpec
INVARIANTS NoSilentLoss RecoveryWatched DirectLossReported

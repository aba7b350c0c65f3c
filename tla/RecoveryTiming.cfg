CONSTANTS
    a = a
    p = p
    Channel <- OneChannel
    Pos <- OnePosition
    None = None
    Floor = 3
    Deadline = 2
    MaxTime = 6
    MaxEpisodes = 2
SPECIFICATION TimingSpec
INVARIANTS TypeOK PhasesConsistent
PROPERTIES DueMakesProgress FloorPerConnection InterruptedAfterSilence

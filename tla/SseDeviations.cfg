CONSTANTS
    Caller = {k1}
    None = None
    MaxLog = 2
    MaxDevice = 1
    Redirects = TRUE
    MaxQueue = 1
    MaxWire = 2
    MaxDrops = 1
    Cuts = TRUE
SPECIFICATION SseSpec
\* Each of these is violated on its own: keep one of them at a time.
INVARIANTS
    NothingLostSilently
    OnlyCloseEnds
    AnswerIsTrue
    FailureIsTyped
PROPERTIES
    KeepsOpenStream
CHECK_DEADLOCK FALSE

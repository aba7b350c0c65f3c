CONSTANTS
    Caller = {k1}
    None = None
    MaxLog = 3
    MaxDevice = 1
    Redirects = FALSE
    MaxQueue = 1
    MaxWire = 2
    MaxDrops = 1
    Cuts = FALSE
SPECIFICATION SseSpec
INVARIANTS NothingLostSilently InOrderOnce AnswerIsTrue
PROPERTIES EventuallyKnown
CHECK_DEADLOCK FALSE

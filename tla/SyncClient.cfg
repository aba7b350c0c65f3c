CONSTANTS
    w1 = w1
    w2 = w2
    s = s
    k1 = k1
    k2 = k2
    Worker <- Workers
    Timed <- TimedWorkers
    Streamer <- Streamers
    Closer <- Closers
SPECIFICATION SyncSpec
PROPERTIES TornDown TimedCallsReturn
CHECK_DEADLOCK FALSE

CONSTANTS
    Interval = 3
    Timeout = 2
    Latency = 1
    Stalls = TRUE
    MaxTime = 12
    MaxUnread = 3
    None = None
    Status = {401, 429}
    ServerCode = {1001, 4000, 4001}
    Pauses = TRUE
SPECIFICATION WsSpec
INVARIANT PausedPumpSeesClose
CHECK_DEADLOCK FALSE

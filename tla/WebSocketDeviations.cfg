CONSTANTS
    Interval = 3
    Timeout = 2
    Latency = 1
    Stalls = TRUE
    MaxTime = 12
    MaxUnread = 3
    None = None
    Status = {401, 429}
    ServerCode = {1001, 4000, 4001}
    Pauses = FALSE
SPECIFICATION WsSpec
\* Each of these is violated on its own: keep one of them at a time.
INVARIANTS
    AliveIsKept
    SilenceBounded
    RefusalIsReported
CHECK_DEADLOCK FALSE

CONSTANTS
    a = a
    b = b
    k1 = k1
    k2 = k2
    Channel = {a}
    Connector = {k1, k2}
    None = None
    Attempts = 0
    MaxExponent = 3
    MaxId = 1
    LateConnect = TRUE
SPECIFICATION Spec
\* Each of these is violated on its own: keep one of them at a time.
INVARIANTS
    UnlimitedRetries
    LiveServesDesired
    ConnectMeansConnected
    ClosedStaysClosed
    EveryCloseWaits
    CloseCompletes
    CancelIsRaised
    ConnectedMeansRunning
PROPERTIES
    RefusedIsFinal
CHECK_DEADLOCK FALSE

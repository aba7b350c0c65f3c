CONSTANTS
    a = a
    b = b
    k1 = k1
    k2 = k2
    Channel = {a, b}
    Connector = {k1, k2}
    None = None
    Attempts = 2
    MaxExponent = 3
    MaxId = 1
    LateConnect = FALSE
SPECIFICATION Spec
INVARIANTS BounceConsumed RetryBudget CursorCarried StopsForAReason StateHonest
CHECK_DEADLOCK FALSE
PROPERTIES
    ConnectAnswered
    CloseAnswered
    ParkWakes

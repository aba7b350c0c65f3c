CONSTANTS
    a = a
    b = b
    k1 = k1
    k2 = k2
    Channel = {a}
    Connector = {k1}
    None = None
    Attempts = 2
    MaxExponent = 3
    MaxId = 1
    LateConnect = FALSE
SPECIFICATION Spec
INVARIANT NeverRedialsEmpty
CHECK_DEADLOCK FALSE

CONSTANTS
    a = a
    b = b
    Channel <- TwoChannels
    MaxWire = 2
SYMMETRY Symmetry
SPECIFICATION Spec
\* Each of these is violated on its own: keep one of them at a time.
INVARIANTS
    DesiredIsWanted
    OnlyFilteredReported
CHECK_DEADLOCK FALSE

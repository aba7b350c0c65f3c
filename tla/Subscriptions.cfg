CONSTANTS
    a = a
    b = b
    Channel <- TwoChannels
    MaxWire = 2
SYMMETRY Symmetry
SPECIFICATION Spec
INVARIANTS TypeOK GrantedIsServed DesiredIsServed NothingUnwantedResumed

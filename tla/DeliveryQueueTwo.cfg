CONSTANTS
    c1 = c1
    c2 = c2
    Consumer = {c1, c2}
    None = None
    MaxSize = 2
    MaxItems = 6
SPECIFICATION Spec
PROPERTY EveryConsumerEnds
CHECK_DEADLOCK FALSE

CONSTANTS
    c1 = c1
    c2 = c2
    Consumer = {c1}
    None = None
    MaxSize = 2
    MaxItems = 6
SPECIFICATION Spec
INVARIANT EveryItemAccountedFor
PROPERTIES EveryConsumerEnds FeedSpec
CHECK_DEADLOCK FALSE

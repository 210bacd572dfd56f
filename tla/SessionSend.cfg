SPECIFICATION Spec
CONSTANTS
    p1 = p1
    p2 = p2
    Posters = {p1, p2}
    BearableErrors <- Limits
    MaxPosts = 3
    MaxUses = 2
CHECK_DEADLOCK FALSE
INVARIANTS
    OneWriteInUse
    WireOfThisUse
    RemainIsUnsent
    ErrorsBorne
PROPERTIES
    ImplementsStream
    AllSentInUse

SPECIFICATION FairSpec
CONSTANTS
    BufferSize = 7
    MaxLength = 3
    MaxBacklog = 5
    MaxBytes = 14
    MaxQueued = 5
    Posters = {p1, p2}
    Faults = TRUE
CHECK_DEADLOCK FALSE
INVARIANTS
    TypeOK
    OneWrite
    WireInOrder
    SendingMeansWriting
PROPERTIES
    ImplementsStream
    AllSent

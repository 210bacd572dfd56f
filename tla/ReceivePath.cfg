SPECIFICATION PathSpec
CONSTANTS
    BufferSize = 4
    WriteOnceMax = 2
    MaxBytes = 5
    Int16Max = 3
    PacketSizes <- SmallAndTooBig
    GarbageSizes <- OneAndWrapped
    Rows = 2
    RowSize = 3
    MaxSize = 2
    MaxPackets = 2
    MaxReceived = 6
    ReqCloseSize = 2
CHECK_DEADLOCK FALSE
INVARIANTS
    ReadBehindWrite
    StoreTypeOK
    IntactUntilOvertaken
PROPERTIES
    HandlerEnds

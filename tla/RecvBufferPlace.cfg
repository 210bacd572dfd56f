SPECIFICATION Spec
CONSTANTS
    BufferSize = 7
    WriteOnceMax = 2
    MaxBytes = 10
    Int16Max = 11
    PacketSizes <- SmallPackets
    GarbageSizes <- OddSizes
CHECK_DEADLOCK FALSE
INVARIANTS
    ReceiveInsideBuffer

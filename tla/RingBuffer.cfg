SPECIFICATION RingSpec
CONSTANTS
    BufferSize = 5
    WriteOnceMax = 2
    MaxBytes = 14
INVARIANTS
    RingTypeOK
    Contents
PROPERTIES
    RefusedOnlyWhenFull

SPECIFICATION NetSpec
CONSTANTS
    MaxSessions = 2
    Addresses <- TwoHosts
    Ids <- TwoIds
    Keys <- OneKey
    SendRows = 2
    SendRowSize = 3
    MaxLength = 2
    IoThreads = 2
    MaxDatagrams = 2
    MaxSends = 3
    MaxWork = 10
CHECK_DEADLOCK FALSE
INVARIANTS
    OneReceive
    HandedTogether
    OneHolder
    WholeUntilLapped
    EverySessionOnce
PROPERTIES
    NothingPendingWhenReplaced
    ImplementsRegistry

SPECIFICATION FairSpec
CONSTANTS
    io1 = io1
    io2 = io2
    main = main
    Main = main
    IOThreads <- OneThread
    MaxAccept = 1
    MaxConnect = 0
    MaxPackets = 3
    MaxConnections <- OneEach
    MaxImitations <- NoImitation
    MayStop = TRUE
    MayBindUDP = FALSE
    Faults <- NoFaults
CHECK_DEADLOCK FALSE
PROPERTIES
    ReleaseReturns

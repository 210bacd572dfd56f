SPECIFICATION FairPeersSpec
CONSTANTS
    io1 = io1
    io2 = io2
    main = main
    Main = main
    IOThreads <- OneThread
    MaxAccept = 1
    MaxConnect = 1
    MaxPackets = 2
    MaxConnections <- OneEach
    MaxImitations <- NoImitation
    MayStop = TRUE
    MayBindUDP = TRUE
    Faults <- ErrorsAndThrows
CHECK_DEADLOCK FALSE
INVARIANTS
    CloseExclusive
    OneReceiveChain
    SharedIdsHarmless
PROPERTIES
    ConnectSessionSpent
    CloseReported
    MainReturns
    ReleaseReturns

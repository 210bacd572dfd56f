SPECIFICATION Spec
CONSTANTS
    io1 = io1
    io2 = io2
    main = main
    Main = main
    IOThreads <- TwoThreads
    MaxAccept = 2
    MaxConnect = 0
    MaxPackets = 2
    MaxConnections <- OnceThenTwice
    MaxImitations <- OfTheFirst
    MayStop = TRUE
    MayBindUDP = FALSE
    Faults <- AllFaults
SYMMETRY ThreadSymmetry
CHECK_DEADLOCK FALSE
INVARIANTS
    TypeOK
    SingleOwner
    ReuseNeverRefused
    NotificationOrder
PROPERTIES
    ImplementsPool

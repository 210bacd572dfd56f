SPECIFICATION Spec
CONSTANTS
    io1 = io1
    io2 = io2
    main = main
    Main = main
    IOThreads <- TwoThreads
    MaxAccept = 2
    MaxConnect = 0
    MaxPackets = 3
    MaxConnections <- TwoEach
    MaxImitations <- NoImitation
    MayStop = FALSE
    MayBindUDP = FALSE
    Faults <- NoFaults
SYMMETRY ThreadSymmetry
CHECK_DEADLOCK FALSE
INVARIANTS
    EverySessionComesBack

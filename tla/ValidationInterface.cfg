SPECIFICATION FairSpec
CONSTANTS
    w1 = w1
    w2 = w2
    p1 = p1
    p2 = p2
    main = main
    Workers = {w1, w2}
    Producers = {p1, p2}
    Importers = {}
    Main = main
    PendingLimit = 0
    MaxCallbacks = 3
INVARIANTS
    PromiseMeansFinished
PROPERTIES
    ImplementsSerialQueue
    AllDelivered
    CleanExit
CHECK_DEADLOCK FALSE

SPECIFICATION FairSpec
CONSTANTS
    w1 = w1
    w2 = w2
    p1 = p1
    p2 = p2
    main = main
    Workers = {w1}
    Producers = {p1}
    Importers = {p1}
    Main = main
    PendingLimit = 0
    MaxCallbacks = 3
PROPERTY
    CleanExit
CHECK_DEADLOCK FALSE

SPECIFICATION FairSpec
CONSTANTS
    t1 = t1
    t2 = t2
    once = once
    every = every
    Threads = {t1, t2}
    Tasks = {once, every}
    Period <- OneRepeats
    MaxTime = 1
INVARIANTS
    CalledOnce
PROPERTIES
    ServesDue
    AllStop
CHECK_DEADLOCK FALSE

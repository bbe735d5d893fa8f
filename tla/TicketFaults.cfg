SPECIFICATION FairServiceSpec
CONSTANTS
    None = None  Garbage = Garbage
    Servers = {s1, s2}
    Clients = {c1, c2}
    Pids = {c1, c2}
    PidOf <- OwnPid
    MaxThreads = 2
    UINT = 8
    Counts = {1}
    Interruptible = {s1, c1}
INVARIANTS OneHandlerPerRequest PrintsItsAnswer ReachableUnlessTakenAway
PROPERTIES EveryRequestAnswered
CHECK_DEADLOCK FALSE

SPECIFICATION FairSpec
CONSTANTS
    s1 = s1  s2 = s2  s3 = s3  c1 = c1  c2 = c2  c3 = c3
    None = None  Garbage = Garbage
    Servers = {s1}
    Clients = {c1, c2}
    Pids = {c1, c2}
    PidOf <- OwnPid
    MaxThreads = 1
    UINT = 8
    Counts = {1, 3}
    Interruptible = {}
PROPERTIES EveryRequestAnswered
CHECK_DEADLOCK FALSE

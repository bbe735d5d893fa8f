SPECIFICATION Spec
CONSTANTS
    s1 = s1  c1 = c1  c2 = c2  c3 = c3  p1 = p1  p2 = p2
    None = None  Garbage = Garbage
    Servers = {s1}
    Clients = {c1, c2, c3}
    Pids = {p1}
    PidOf <- SamePid
    MaxThreads = 3
    UINT = 8
    Counts = {1}
    Interruptible = {c1}
INVARIANTS ResponseToItsClient
CHECK_DEADLOCK FALSE

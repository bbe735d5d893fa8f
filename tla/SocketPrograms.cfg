SPECIFICATION FairSpec
CONSTANTS
    s1 = s1
    s2 = s2
    c1 = c1
    c2 = c2
    p1 = p1
    p2 = p2
    Servers = {s1, s2}
    Clients = {c1, c2}
    Pids = {p1, p2}
    BUF_SIZE = 3
    BACKLOG = 0
    QueueLimit = 0
    Arguments <- SampleArguments
    MayDie = {s1, c1}
    None = None
INVARIANTS Delivered EndsExplained
CHECK_DEADLOCK FALSE
PROPERTIES EveryClientEnds

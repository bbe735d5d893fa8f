SPECIFICATION FairSpec
CONSTANTS
    w1 = w1
    w2 = w2
    w3 = w3
    r1 = r1
    Writers = {w1, w2, w3}
    Readers = {r1}
    Length <- TwoAndOne
    Programs <- AllPrograms
    MaxFailures = 1
    None = None
INVARIANTS OneInside FaultNeedsTwoLengths WholeList NoGapOncePublished
PROPERTIES AllEnd
CHECK_DEADLOCK FALSE

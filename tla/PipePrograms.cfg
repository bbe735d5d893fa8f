SPECIFICATION FairSpec
CONSTANTS
    NumChildren = 3
    MayDie = {1, 2}
    CAPACITY = 2
    LIMIT = 3
    Texts <- SampleTexts
    MayEndEarly = {"parent", "child"}
    MaxCount = 3
    MayVanish = {2}
    Runs = {1, 2, 3}
    Numbers = 2
    Interruptible = {1}
    None = None
    CopyRuns = {1, 2}
    CHUNK_SIZE = 2
INVARIANTS MessagesTrue DataArrives
PROPERTIES AllEnd

SPECIFICATION FairProgramSpec
CONSTANTS
    Clients = {1, 2, 3, 4}
    Pids = {1, 2}
    MaxMsg = 2
    MaxDeaths = 3
    MaxFaults = 1
    Runs = {r1, r2, r3}
    MayFail = {r1}
    None = None
INVARIANTS ToolsTrue OneCopy WrongResponseExplained QueuesBelongToTheLiving StuckOnlyByTheDead
PROPERTIES AnsweredAtLast
ACTION_CONSTRAINT InOrder
CHECK_DEADLOCK FALSE

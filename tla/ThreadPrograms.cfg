SPECIFICATION FairSpec
CONSTANTS
    BUFFER_SIZE = 2
    ITEMS = 6
    MAX_BUFFER_SIZE = 10
    N = 2
    INT = 16
    Programs <- AllPrograms
    None = None
INVARIANTS EachItemOnce NeverBothAsleep FinalValue
PROPERTIES PollingIsABuffer ProgramsEnd

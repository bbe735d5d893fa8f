SPECIFICATION FairSpec
CONSTANTS
    MAX_BUFFER_SIZE = 5
INVARIANTS TypeOK NoLostWakeup
PROPERTIES ImplementsFairBuffer

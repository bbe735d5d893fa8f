SPECIFICATION Spec
CONSTANTS
    MAX_BUFFER_SIZE = 5
INVARIANTS UnitsProtected

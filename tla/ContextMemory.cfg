CONSTANTS
    Pressure = 2
    Starts <- MCStarts
SPECIFICATION MemorySpec
INVARIANTS
    MemoryConsistent
PROPERTIES
    HumanEditStands
    MemorySettles
CHECK_DEADLOCK FALSE

CONSTANTS
    MaxEphemeral = 1
    MaxRuns = 2
    MaxChanges = 2
    Mixes <- SmallMixes
SPECIFICATION Spec
INVARIANTS
    ProcessesConsistent
    NoOrphan
    AccessApplied
PROPERTIES
    AllEnds
CHECK_DEADLOCK FALSE

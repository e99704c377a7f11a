\* Two messages, one /new, one rejected persist.  Symmetry: the messages are
\* interchangeable and no property here is a liveness property.
CONSTANTS
    m1 = m1
    m2 = m2
    Messages = {m1, m2}
    MaxResets = 1
    MaxFailures = 1
    MaxCrashes = 0
SPECIFICATION Spec
SYMMETRY Symmetry
INVARIANTS
    RunsConsistent
PROPERTIES
    BoundaryHolds
\* Every message is settled and nothing is left to do.
CHECK_DEADLOCK FALSE

\* Every plan, one rejected persist, one session that is gone; late is configured
\* after the message was prepared.
CONSTANTS
    a = a
    b = b
    c = c
    late = late
    Agents = {a, b, c, late}
    Late = {late}
    Plans <- AllPlans
    MaxTurns = 4
    MaxFailures = 1
    MaxMissing = 1
SPECIFICATION Spec
INVARIANTS
    DeliveryConsistent
    RelayEndsVisibly
PROPERTIES
    DeliveryEnds
\* The delivery is over.
CHECK_DEADLOCK FALSE

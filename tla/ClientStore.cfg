\* The browser against the host: every mix of MCClientStore.
CONSTANTS
    q1 = q1
    q2 = q2
    Requests = {q1, q2}
    Mixes <- SmallMixes
SPECIFICATION ClientSpec
INVARIANTS
    ClientTypeOK
PROPERTIES
    ShownMovesForward
    CatchesUp
\* Nothing more happens at the host or in the browser.
CHECK_DEADLOCK FALSE

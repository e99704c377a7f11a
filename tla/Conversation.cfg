\* Two sends of one submission and two other sends; each kind of failure and a
\* process death once.
CONSTANTS
    s1 = s1
    s2 = s2
    s3 = s3
    s4 = s4
    x = x
    y = y
    z = z
    Sends = {s1, s2, s3, s4}
    Submissions = {x, y, z}
    SubmissionOf <- FourSends
    MaxFailures = 1
    MaxLateFailures = 1
    MaxRemoveFailures = 1
    MaxCrashes = 1
SPECIFICATION Spec
INVARIANTS
    QueueConsistent
    AcceptedOnce
PROPERTIES
    RemovedNeverStarts
    QueueMoves
\* Every send is settled and the loop is over.
CHECK_DEADLOCK FALSE

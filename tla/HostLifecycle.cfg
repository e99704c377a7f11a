\* Three messages, one import, a run that asks once, one failing persist.
CONSTANTS
    s1 = s1
    s2 = s2
    s3 = s3
    i1 = i1
    Sends = {s1, s2, s3}
    Imports = {i1}
    MaxQuestions = 1
    MaxFailures = 1
SPECIFICATION Spec
INVARIANTS
    HostConsistent
    ClosedIsQuiet
PROPERTIES
    StopsFinish
\* A closed host does nothing more.
CHECK_DEADLOCK FALSE

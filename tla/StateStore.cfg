\* Three changes, two process deaths, state.json unreadable up to twice.
CONSTANTS
    c1 = c1
    c2 = c2
    c3 = c3
    Changes = {c1, c2, c3}
    MaxCrashes = 2
    MaxDamage = 2
SPECIFICATION Spec
INVARIANTS
    StoreConsistent
    AckedSurvives
    DamageLosesAtMostOne
PROPERTIES
    EveryCallerAnswered
    ImplementsDurableLog
\* All changes settled, or a refused start: the model has nothing left to do.
CHECK_DEADLOCK FALSE

CONSTANTS
    daily = daily
    once = once
    Schedules = {daily, once}
    Cron = {daily}
    Period = 2
    Horizon = 5
    Starts <- MCStarts
SPECIFICATION Spec
INVARIANTS
    SchedulesConsistent
PROPERTIES
    SendsWhatIsSaved
    DueIsServed
CHECK_DEADLOCK FALSE

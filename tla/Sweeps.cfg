CONSTANTS
    People = {a, p, q}
    Author = a
    Msgs = {1, 2}
    Hands = {1, 2}
    Notes = {n, o}
    None = None
    FirstWindow = 1
    Limit = 1
    EscalateAfter = 0
    Expiry = 2
    MaxTime = 2
    Events = {e}
    Meetings = {m, k}
    Titles = {x, y}
    Todos = {t}
    Unset = Unset
    DayLength = 2
    Morning = 1
    Default = {1, 2}
    Choices = {3}
    MaxSteps = 2
    LastMinute = 4

SPECIFICATION SweepsSpec
SYMMETRY Alike
CONSTRAINTS
    OneQuestion
    OneAtATime
    EndsInSight
INVARIANTS
    HandoverTypeOK
    VerdictIsOfNote
    LossIsExplained
    AlarmedOnce
    RemindersTypeOK
    FlagMeansTold
PROPERTIES
    RemindedInTime
CHECK_DEADLOCK FALSE

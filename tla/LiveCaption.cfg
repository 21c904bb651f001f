CONSTANTS
    MaxWords = 4
    Backlog = 2
    MaxSessions = 2

SPECIFICATION Spec
INVARIANTS
    ShownIsKept
    TwiceIfTorn
    GapIfIdled
CHECK_DEADLOCK FALSE

CONSTANTS
    Tabs = {a, b}
    Edits = {e, f}
    None = None
    Torn = Torn
    MaxFaults = 1

SPECIFICATION Spec
INVARIANTS
    Converged
    GoneStaysGone
PROPERTY
    SavedStays
    Durable
CHECK_DEADLOCK FALSE

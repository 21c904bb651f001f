CONSTANTS
    People = {a, p}
    Creator = a
    Patience = 1
    MaxRev = 3
    MaxUploads = 2

SPECIFICATION Spec
CONSTRAINT FewAtATime
INVARIANTS
    SignaturesKept
    NoVersionLost
    ResetIsTold
PROPERTY
    EveryoneIsAsked
CHECK_DEADLOCK FALSE

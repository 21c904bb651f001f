\* Three messages, three seconds; or a message and a stretch of speech, or two
\* of speech, two seconds.
CONSTANTS
    Words = {w, x, y}
    Chunks = {c, d}
    Runs = {k, l}
    None = None
    Pad = 1
    FirstWindow = 2
    MaxChat = 2
    MaxRows = 2
    MaxTime = 2
    MaxRestarts = 1

SPECIFICATION Spec
VIEW SafetyView
SYMMETRY Alike
CONSTRAINT FewSaid
INVARIANTS
    HeardTwiceByOverlap
    NoRepeat
    NothingElseEvaporates
PROPERTY
    ImplementsTimer
CHECK_DEADLOCK FALSE

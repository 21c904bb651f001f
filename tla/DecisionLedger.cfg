\* One recap of up to two decisions, a host and a member, two sentences; days
\* 1 and 2 are those of the automatic sweep and of the soft reminder, day 3 of neither.
CONSTANTS
    Recaps = {1}
    MaxLines = 2
    Texts = {x, y}
    NoText = NoText
    People = {h, a}
    Host = h
    Managers = {h}
    SoftAfter = 1
    SoftUntil = 2
    AutoEvery = 1
    AutoUntil = 3
    Never = Never
    MaxAge = 3
    MaxRevs = 2

SPECIFICATION Spec
VIEW SafetyView
SYMMETRY Sentences
CONSTRAINT SecondInBrief
INVARIANTS
    SignaturesKept
    HistoryReplays
    SilenceIsBroken
CHECK_DEADLOCK FALSE

\* A call of two people, one of them in two tabs: room creations racing (two
\* at once), sockets lost while a room is created, kicks and locks.
CONSTANTS
    h = h
    a = a
    sh = sh
    sa = sa
    sb = sb
    Users = {h, a}
    Sockets = {sh, sa, sb}
    UserOf <- TwoTabs
    Host = h
    Managers = {h}
    RoomIds = {1, 2, 3, 4}
    NoRoom = NoRoom
    NoTimer = NoTimer
    Runs = {}
    MaxCreating = 2
    MaxRestarts = 0
SPECIFICATION Spec
VIEW SafetyView
CONSTRAINT OneHasty
INVARIANT
    NoTimerWhileRoomOpen
PROPERTIES
    EmptiedOnlyOfForgotten
    SplitOnlyByRace
    GateHolds
CHECK_DEADLOCK FALSE

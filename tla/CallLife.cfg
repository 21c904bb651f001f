\* Two people who may open their call at once, with tabs that leave before their
\* join is answered, one recap run at once, one restart.
CONSTANTS
    h = h
    a = a
    sh = sh
    sa = sa
    sb = sb
    Users = {h, a}
    Sockets = {sh, sa}
    UserOf <- TwoPeople
    Host = h
    Managers = {h}
    RoomIds = {1, 2, 3}
    NoRoom = NoRoom
    NoTimer = NoTimer
    Runs = {1}
    MaxCreating = 2
    MaxRestarts = 1
SPECIFICATION Spec
VIEW LifeView
PROPERTIES
    ImplementsCall
    SpinnerResolves
CHECK_DEADLOCK FALSE

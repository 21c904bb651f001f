CONSTANTS
    Titles = {t, u}
    Items = {1, 2}
    Recaps = {r, s}
    AutoRecord = AutoRecord
    Decisions <- Citing
    Gens = {g, h}
    None = None
    CarryMax = 1
    AgendaMax = 1
    CacheLife = 1

SPECIFICATION Spec
VIEW AgendaView
SYMMETRY AlikeInAgenda
CONSTRAINT FewAwait
INVARIANTS
    NoDuplicateOpen
    CarriedIsCounted
    LinkIsLastVerdict
    RevivedByOverlapOnly
CHECK_DEADLOCK FALSE

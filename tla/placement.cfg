SPECIFICATION Spec
CONSTANTS
    s1 = s1
    s2 = s2
    none = none
    NoPlayer = none
    NoSession = none
    MaxPlayers = 2
    NumZones = 2
    Cells <- MCCells
    Sections = {"a", "b"}
    SectionOf <- MCSectionOf
    Blocked <- MCBlocked
    Spawn = "spawn"
    Sessions = {s1, s2}
    MaxLogins = 1
    MaxTeleports = 0
    MaxQueue = 2
    Portals = {}
    Resets = {}
SYMMETRY Symmetry
INVARIANTS
    TypeOK
    GridMatchesPosition
    ListedOnce
    PooledUnused
CHECK_DEADLOCK FALSE

SPECIFICATION Spec
CONSTANTS
    s1 = s1
    s2 = s2
    none = none
    NoPlayer = none
    NoSession = none
    MaxPlayers = 2
    NumZones = 1
    Cells <- MCFewCells
    Sections = {"a", "b"}
    SectionOf <- MCFewSectionOf
    Blocked <- MCBlocked
    Spawn = "spawn"
    Sessions = {s1, s2}
    MaxLogins = 1
    MaxTeleports = 1
    MaxQueue = 1
    Portals = {0}
    Resets = {s2}
INVARIANT
    RosterComplementsPool
PROPERTY
    CrashNeedsEnterWindow
CHECK_DEADLOCK FALSE

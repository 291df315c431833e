SPECIFICATION Spec
CONSTANTS
    s1 = s1
    s2 = s2
    none = none
    NoPlayer = none
    NoSession = none
    MaxPlayers = 2
    NumZones = 2
    Cells <- MCCells
    Sections = {"a", "b"}
    SectionOf <- MCSectionOf
    Blocked <- MCBlocked
    Spawn = "spawn"
    Sessions = {s1}
    MaxLogins = 1
    MaxTeleports = 1
    MaxQueue = 1
    Portals = {1}
    Resets = {}
INVARIANT
    TeleportDespawnsOld
CHECK_DEADLOCK FALSE

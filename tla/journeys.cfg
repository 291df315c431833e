SPECIFICATION FairSpec
CONSTANTS
    s1 = s1
    s2 = s2
    none = none
    NoPlayer = none
    NoSession = none
    MaxPlayers = 1
    NumZones = 2
    Cells <- MCFewCells
    Sections = {"a", "b"}
    SectionOf <- MCFewSectionOf
    Blocked <- MCBlocked
    Spawn = "spawn"
    Sessions = {s1}
    MaxLogins = 1
    MaxTeleports = 2
    MaxQueue = 1
    Portals = {0, 1}
    Resets = {}
PROPERTIES
    ZoneQueuesAreMailboxes
    EnteredGetsIn
    TeleportArrives
    DisconnectedLeaves
CHECK_DEADLOCK FALSE

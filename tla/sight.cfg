SPECIFICATION BoundedSpec
CONSTANTS
    Players = {11, 12}
    Monsters = {13}
    Clients = {1, 2, 3}
    Nobody = 0
    Corridor <- ThreeCells
    Cells <- ThreeCells
    Sections <- MCSections
    SectionOf <- MCSectionOf
    Adjacent <- MCAdjacent
    InView <- MCInView
    InReach <- MCInReach
    Spawn <- MCSpawn
    Address <- MCAddress
    SpawnLimit = 2
    MaxTeleports = 1
    Zones = {0, 1}
    EntryZone = 1
    MonsterZone = 1
    Portals = {0}
INVARIANTS  ShowsOnlyTheViewport ShowsTheViewport
PROPERTY NearbyIsSeen
CHECK_DEADLOCK FALSE

SPECIFICATION MonsterSpec
CONSTANTS
    Height = 3
    Width = 3
    Infinity = 1000
    SEARCH_CELL_DISTANCE = 1
    CHASE_CELL_DISTANCE = 6
    SKILL_DISTANCE = 1
    Spawn <- MCSpawn
    MaxWaiting = 1
    Corridor <- MCCorridor
INVARIANTS FindsTheWay TraceNeverCircles
PROPERTIES ChaseEnds  ShownWhereItStands
CHECK_DEADLOCK FALSE

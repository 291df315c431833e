SPECIFICATION Spec
CONSTANTS
    Word = 256
    SECTION_SIZE = 3
    Maps <- MCMaps
    MaxSize = 8
    MaxRange = 4
INVARIANTS LookupsAreRight SeesInland

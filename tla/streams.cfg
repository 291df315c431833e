SPECIFICATION FairSpec
CONSTANTS
    Capacity = 7
    HeaderSize = 2
    Sizes = {2, 3}
    ClientCapacity = 4
    ClientSizes = {2, 3, 4}
    MaxPackets = 4
INVARIANTS
    StaysFramed
    ServerCountsPackets
    DropsOnlyWhenFull
PROPERTIES
    EveryPacketHandled
    ReceivesPackets
CHECK_DEADLOCK FALSE

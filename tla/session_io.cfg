SPECIFICATION FairSpec
CONSTANTS
    Workers = {w1, w2}
    Senders = {t1, t2}
    MaxSends = 3
    MaxPackets = 2
INVARIANTS OneReceive DeafNeedsReset FaultsNeedOverlap
PROPERTY
    CloseIsSeen
CHECK_DEADLOCK FALSE

SPECIFICATION ClientSpec
CONSTANTS
    Clicks <- MCClicks
    Login = "login"
    Enter = "enter"
    Notices <- MCNotices
    LogsOnly <- MCLogsOnly
    Faulty <- MCFaulty
    Players = {p1, p2}
    Nobody = nobody
    Cells <- MCCells
    Spawn <- MCSpawn
    MaxRequests = 2
    MaxNotices = 1
INVARIANTS
    SentInOrder
    HandledOnceInOrder
    HangNeedsEarlyClick
    OthersShownRight
PROPERTIES
    Delivered
    Reconciled
CHECK_DEADLOCK FALSE

SPECIFICATION FairSpec
CONSTANTS
    Clients = {c1}
    Ids = {id}
    Passwords = {p1, p2}
    Long = {p2}
    Workers = {w1, w2}
    MaxRequests = 3
INVARIANTS JoinedCanLogIn CrashNeedsSqlFailure
PROPERTIES ServesAccounts Answered
CHECK_DEADLOCK FALSE

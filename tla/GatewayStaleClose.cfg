SPECIFICATION Spec
CONSTANTS
    c1 = c1
    c2 = c2
    c3 = c3
    s1 = s1
    s2 = s2
    u1 = u1
    u2 = u2
    NoConn = NoConn
    NoTask = NoTask
    Conn <- MCConns
    SessionID <- MCIDs
    User <- MCUsers
    SidOf <- MCSameID
    UserOf <- MCSameUser
    MaxConnectionsPerUser = 2
    SubscriptionResults = {"valid"}
    Quiet = {s1, s2}
    MayStop = TRUE
PROPERTY
    CloseFindsOwnSession
\* Every connection is served once: the instance ends when all have been.
CHECK_DEADLOCK FALSE

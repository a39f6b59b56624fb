SPECIFICATION TurnsSpec
CONSTANTS
    c1 = c1
    c2 = c2
    c3 = c3
    s1 = s1
    s2 = s2
    u1 = u1
    u2 = u2
    NoConn = NoConn
    NoTask = NoTask
    Conn <- MCThreeConns
    SessionID <- MCIDs
    User <- MCUsers
    SidOf <- MCReusedID
    UserOf <- MCOneUser
    MaxConnectionsPerUser = 1
    SubscriptionResults = {"valid"}
    Quiet = {s1}
    MayStop = TRUE
SYMMETRY MCReconnects
INVARIANTS
    TypeOK
    UserIndexExact
    EndedLeavesNothing
PROPERTIES
    LeaseSpec
\* Every connection is served once: the instance ends when all have been.
CHECK_DEADLOCK FALSE

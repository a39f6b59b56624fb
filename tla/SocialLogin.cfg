SPECIFICATION FairLoginSpec
CONSTANTS
    r1 = r1
    r2 = r2
    i1 = i1
    i2 = i2
    f1 = f1
    f2 = f2
    a1 = a1
    b1 = b1
    b2 = b2
    p1 = p1
    p2 = p2
    NoOne = NoOne
    Refresh <- MCRefreshes
    SignIn <- MCCalls
    Flow <- MCFlows
    Allowed <- MCAllowed
    Seed <- MCSeeds
    Account <- MCAccounts
    AccountOf <- MCShared
    MaxOpenConns = 2
    Browser <- MCBrowsers
    State <- MCStates
    StateOf <- MCOwnStates
INVARIANTS
    LoginTypeOK
    NoOrphanUser
    OneUserPerAccount
    AnsweredIsStored
    ShownWhereAsked
    ShownSignedIn
    CodeSignsInOnce
PROPERTIES
    RequestsEnd
    LoginAnswered
\* Every call and every request runs once.
CHECK_DEADLOCK FALSE

SPECIFICATION FairSpec
CONSTANTS
    c1 = c1
    c2 = c2
    Number <- MCNumber
    Client <- MCClient
    TargetOf <- MCTargetOf
    Directory <- MCDirectory
    Names <- MCNames
    Bundle <- MCBundle
    MaxBuilds <- MCMaxBuilds
    MaxRestarts = 1
INVARIANTS
    TypeOK
    OfferIsOfOneRelease
PROPERTIES
    OfferedInstalls
    ClientsConverge
    UpdatesStop

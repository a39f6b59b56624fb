\* A capacity below the number of items: results are dropped.
SPECIFICATION FairSpec
CONSTANTS
    MaxItems = 3
    ResultCap = 1
INVARIANTS
    TypeOK
    TextIsContiguous
PROPERTIES
    SettledTextIsWhole
    StopEnds
    GoroutinesEnd
    DictationSpec
\* One session: the instance ends when it has been closed.
CHECK_DEADLOCK FALSE

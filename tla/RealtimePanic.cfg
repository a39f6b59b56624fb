SPECIFICATION Spec
CONSTANTS
    MaxItems = 3
    ResultCap = 1
INVARIANT
    SendOnClosedIsHandled
\* One session: the instance ends when it has been closed.
CHECK_DEADLOCK FALSE

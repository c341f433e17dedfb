SPECIFICATION FairSpec
CONSTANTS
    Conns = {c1, c2}
    Restored = {r}
    None = None
    Other = Other
    SendBuffer = 1
INVARIANTS
    TypeOK
    CurrentHasHandler
    OfflineSessionsExpire
    CurrentConnHasWriter
PROPERTIES
    OfflineIsResolved
    ClosedConnsAreDetached
CHECK_DEADLOCK FALSE

SPECIFICATION FairSpec
CONSTANTS
    Rooms = {r1}
    NoRoom = NoRoom
    NoSnapshot = NoSnapshot
    PodCount = 1
    Loops = {1}
    MaxRetries = 2
    MaxProcesses = 2
    Commands = {"leave", "shutdown"}
    Faults = {"late", "redis", "crash"}
INVARIANT
    AcceptedWhereAssigned
PROPERTY
    StartsEnd
CHECK_DEADLOCK FALSE

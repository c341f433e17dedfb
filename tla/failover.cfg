SPECIFICATION FairSpec
CONSTANTS
    Rooms = {r1}
    NoRoom = NoRoom
    NoSnapshot = NoSnapshot
    PodCount = 2
    Loops = {}
    MaxRetries = 1
    MaxProcesses = 1
    Commands = {"leave", "shutdown"}
    Faults = {"redis", "crash"}
INVARIANTS
    TypeOK
    AcceptedWhereAssigned
    SnapshotsNameHosts
PROPERTIES
    StartupSparesTheTarget
    LostRoomsAreRetried
    ImplementsPlaces
CHECK_DEADLOCK FALSE

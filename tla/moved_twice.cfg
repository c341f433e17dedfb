SPECIFICATION Spec
CONSTANTS
    Rooms = {r1}
    NoRoom = NoRoom
    NoSnapshot = NoSnapshot
    PodCount = 2
    Loops = {1}
    MaxRetries = 1
    MaxProcesses = 1
    Commands = {}
    Faults = {}
INVARIANT
    SnapshotsFollowMoves
CHECK_DEADLOCK FALSE

SPECIFICATION Spec
CONSTANTS
    Rooms = {r1}
    NoRoom = NoRoom
    NoSnapshot = NoSnapshot
    PodCount = 2
    Loops = {}
    MaxRetries = 1
    MaxProcesses = 1
    Commands = {}
    Faults = {}
INVARIANT
    MovedRoomsKeepTheirSnapshot
CHECK_DEADLOCK FALSE

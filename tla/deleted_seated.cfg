SPECIFICATION Spec
CONSTANTS
    Players = {1, 2}
    Rooms = {r1}
    NoRoom = NoRoom
    Loops = {1, 2}
    PlayerOf <- OneLoopEach
    Matcher = Matcher
    Commands = {"create", "join", "leave"}
    Faults = {}
    MaxPlayersPerRoom = 2
    MaxRetries = 2
    MatchQueueSize = 1
INVARIANT
    DeletedRoomsAreEmpty
CHECK_DEADLOCK FALSE

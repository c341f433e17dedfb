SPECIFICATION Spec
CONSTANTS
    Players = {1, 2}
    Rooms = {r1, r2}
    NoRoom = NoRoom
    Loops = {1, 2, 11}
    PlayerOf <- Takeover
    Matcher = Matcher
    Commands = {"create", "leave", "match"}
    Faults = {}
    MaxPlayersPerRoom = 2
    MaxRetries = 1
    MatchQueueSize = 2
SYMMETRY RoomSymmetry
INVARIANTS
    TypeOK
    RoomIDImpliesMember
CHECK_DEADLOCK FALSE

SPECIFICATION Spec
CONSTANTS
    Players = {1, 2}
    Rooms = {r1}
    NoRoom = NoRoom
    Loops = {1, 2, 11}
    PlayerOf <- Takeover
    Matcher = Matcher
    Commands = {"create", "join", "leave", "start", "choose", "battle"}
    Faults = {"refused"}
    MaxPlayersPerRoom = 2
    MaxRetries = 2
    MatchQueueSize = 1
INVARIANTS
    ReadyAreMembers
    SendersAreInLineup
CHECK_DEADLOCK FALSE

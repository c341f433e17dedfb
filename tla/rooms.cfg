SPECIFICATION FairSpec
CONSTANTS
    Players = {1, 2, 3}
    Rooms = {r1}
    NoRoom = NoRoom
    Loops = {1, 2, 3}
    PlayerOf <- OneLoopEach
    Matcher = Matcher
    Commands = {"create", "join", "leave", "start"}
    Faults = {"nonode", "refused", "lostreply", "timeout", "deleted"}
    MaxPlayersPerRoom = 2
    MaxRetries = 2
    MatchQueueSize = 1
INVARIANTS
    SingleStart
    LineupCoversMembers
    BattleHasTwoSides
    PlayingIsBacked
    CapacityRespected
    EmptyRoomsAreBeingDeleted
PROPERTIES
    ConfirmedBattleNeverReopens
    ImplementsLife
    EmptiedRoomIsRemoved
CHECK_DEADLOCK FALSE

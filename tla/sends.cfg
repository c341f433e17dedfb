SPECIFICATION Spec
CONSTANTS
    Players = {p1}
    Rooms = {r1}
    SendBuffer = 1
    MatchQueueSize = 1
    Helpers = {h1}
    Commands = {"create", "join", "leave", "start", "choose", "battle", "list", "match"}
    Tasks = {"return", "sync", "outcome", "expire", "reassign", "create", "join", "list"}
    Nobody = Nobody
INVARIANTS
    TypeOK
    StuckMeansUnread
CHECK_DEADLOCK FALSE

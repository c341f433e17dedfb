SPECIFICATION FairSpec
CONSTANTS
    Players = {p1, p2}
    Rooms = {r1}
    SendBuffer = 1
    MatchQueueSize = 1
    Helpers = {h1}
    Commands = {"create"}
    Tasks = {"return"}
    Nobody = Nobody
PROPERTY
    ReturnsAreServed
CHECK_DEADLOCK FALSE

SPECIFICATION FairSpec
CONSTANTS
    PodCount = 2
    Replicas = 2
    ProbeAhead = 1
    Loops = {1, 2}
    Failing = {1}
    MaxOutages = 2
INVARIANTS
    TypeOK
    AddressedNodesAreConnected
    FlagIsCleared
    SteadyNodesStay
PROPERTIES
    UpPodsAreServed
    GonePodsAreDropped
CHECK_DEADLOCK FALSE

SPECIFICATION FairSpec
CONSTANTS
    Addrs = {1}
    Handles = {1, 2, 3}
    Peers = {p1, p2}
    p1 = p1
    p2 = p2
    Worlds <- TheWorlds
    None = None
    MaxObjects = 2
    MaxLoops = 2
    MaxStops = 2
INVARIANTS
    NothingLeaks
    KnowsItsSockets
PROPERTIES
    StopWakes
    ServesTheQueue
CHECK_DEADLOCK FALSE

SPECIFICATION FairSpec
CONSTANTS
    c1 = c1
    c2 = c2
    q = q
    n = n
    NoCall = NoCall
    Calls = {c1, c2}
    Requests = {q}
    Notices = {n}
    MaxSn = 3
    Worlds <- AllWorlds
INVARIANTS
    OwnResponse
    StartsAlone
    NothingStuck
PROPERTIES
    KeepsPromise
    CallsReturn
CHECK_DEADLOCK FALSE

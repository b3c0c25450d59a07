SPECIFICATION FairSpec
CONSTANTS
    Fibers = {f1}
    Handles = {h1}
    Contexts = {c1}
    Workers = {w1}
    Worlds <- Overtaking
    None = None
    MaxCalls = 1
    MaxObjects = 1
    MaxCloses = 0
PROPERTIES
    CallsReturn
CHECK_DEADLOCK FALSE

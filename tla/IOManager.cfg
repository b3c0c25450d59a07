SPECIFICATION Spec
CONSTANTS
    Fibers = {f1, f2}
    Handles = {h1}
    Contexts = {c1, c2}
    Workers = {w1, w2}
    Worlds <- TheWorlds
    None = None
    MaxCalls = 2
    MaxObjects = 2
    MaxCloses = 1
SYMMETRY Alike
INVARIANTS
    PendingExact
    RegisteredAwaits
    NobodyForgotten
PROPERTIES
    OwnResult
CHECK_DEADLOCK FALSE

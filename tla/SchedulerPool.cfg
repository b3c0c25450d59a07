SPECIFICATION FairSpec
CONSTANTS
    Threads = {w1, w2}
    Fibers = {f1}
    Callbacks = {c1}
    Holders = {}
    Twice = {}
    Pins = {AnyThread, w1}
    Spawning = TRUE
    MaxYields = 2
    MaxStarts = 1
    AnyThread = AnyThread
    NoItem = NoItem
INVARIANTS
    TakesOnlySuspended
    ExecWhileRunning
    StopDrains
PROPERTIES
    PoolFinishes

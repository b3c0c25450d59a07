SPECIFICATION Spec
CONSTANTS
    Threads = {w1, w2}
    Fibers = {f1, f2}
    Callbacks = {}
    Holders = {f1, f2}
    Twice = {}
    Pins = {AnyThread, w1}
    Spawning = FALSE
    MaxYields = 2
    MaxStarts = 1
    AnyThread = AnyThread
    NoItem = NoItem
INVARIANTS
    CountsExact
    ReleasedIsResumable

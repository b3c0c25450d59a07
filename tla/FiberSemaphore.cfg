SPECIFICATION FairSpec
CONSTANTS
    Fibers = {f1, f2, f3, f4}
    Initial = 1
    MaxPermits = 2
INVARIANTS
    NoPermitWhileWaiting
PROPERTIES
    FirstComeFirstServed
    KeepsPromise

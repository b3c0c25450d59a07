SPECIFICATION BufferSpec
CONSTANTS
    Base = 3
    Radix = 4
    Strings <- SomeStrings
    Most = 8
    MaxOps = 4
INVARIANTS
    SameAsLoops
    RoundTrips
PROPERTIES
    ActsAsBuffer
CHECK_DEADLOCK FALSE

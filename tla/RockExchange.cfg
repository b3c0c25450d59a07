SPECIFICATION Spec
CONSTANTS
    Base = 8
    Radix = 4
    Texts <- SomeTexts
    Limits <- SomeLimits
    MAX_LEN = 6
    BuffSize = 4
    MaxTexts = 2
INVARIANTS
    FramesInStep
    RefusedForCause
PROPERTIES
    Echoes
CHECK_DEADLOCK FALSE

SPECIFICATION FairSpec
CONSTANTS
    Timers = {1, 2}
    Recurring = {2}
    c1 = c1
    c2 = c2
    w1 = w1
    w2 = w2
    Callers = {c1, c2}
    Workers = {w1, w2}
    Worlds <- TheWorlds
    Periods = {1}
    Hour = 2
    MaxTimeout = 2
    MaxClock = 4
    MaxPosted = 2
INVARIANTS
    NoOversleep
    OneOutcome
PROPERTIES
    NeverEarly
    TimersEnd

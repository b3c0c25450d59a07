SPECIFICATION Spec
CONSTANTS
    Worlds <- TheWorlds
    Callers = {c1, c2}
    Events = {e1}
    c1 = c1
    c2 = c2
    e1 = e1
    Names = {"app"}
    Patterns <- ThePatterns
    DefaultPattern <- TheDefault
    Letters = {"m", "p", "x"}
    Refused = {"UPPER"}
    ItemNames <- TheItemNames
    None = None
INVARIANTS
    OldStaysStored
    LoggersFollow
    NeverMixed
    LatestTakesEffect
    ModulesAgree
    TextsAreKept
CHECK_DEADLOCK FALSE

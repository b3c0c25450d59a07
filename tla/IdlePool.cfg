SPECIFICATION Spec
CONSTANTS
    Workers = {w1, w2}
    Tasks = {t1, t2, t3}
    Pinned = {t2}
    Home = w1
    Outside = {t3}
    MaxPosted = 2
INVARIANTS
    NoSleepOnWork
    AllTasksRun
CHECK_DEADLOCK FALSE

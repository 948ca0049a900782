SPECIFICATION FairSpec
CONSTANTS
    t1 = t1
    t2 = t2
    Timers = {t1, t2}
    Periodic = {t2}
    Timeouts = {1, 3}
    Word = 5
    MaxSleep = 2
    MaxTime = 6
    MaxStarts = 2
    MaxPosts = 1
INVARIANTS
    TypeOK
    ListOK
    NeverEarly
    NoOversleep
    OncePerStart
PROPERTIES
    Expires
CHECK_DEADLOCK FALSE

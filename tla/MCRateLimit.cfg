CONSTANTS
    r1 = r1
    r2 = r2
    r3 = r3
    r4 = r4
    Requests = {r1, r2, r3, r4}
    Rates = {0, 2}
    Window = 2
    MaxTime = 4
SPECIFICATION FairSpec
INVARIANTS
    TwiceTheRateAtMost
    LongRunRate
PROPERTIES
    RefusedOnlyWhenFull
    EveryRequestSettled
CHECK_DEADLOCK FALSE

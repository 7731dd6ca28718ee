\* A copy of the settings with three requests, two saves, a validity of three
\* ticks; or two limits, two administrators and the timer, two changes, one
\* failing refresh.  MCNext stops when the clock does.
SPECIFICATION MCSpec
CONSTANTS
    q1 = q1
    q2 = q2
    q3 = q3
    Slots = {q1, q2, q3}
    TTL = 3
    QueryTime = 2
    MaxVer = 2
    MaxTime = 7
    k1 = k1
    k2 = k2
    a1 = a1
    a2 = a2
    timer = timer
    l1 = l1
    l2 = l2
    Keys = {k1, k2}
    Limits = {l1, l2}
    Admins = {a1, a2}
    Timer = timer
    MaxWrites = 2
    MaxFaults = 1
INVARIANTS
    TypeOK
    OldRulesExpire
    SavesTakeEffect
    LimitsTypeOK
PROPERTIES
    CountersSurvive
    EveryLimitApplied
CHECK_DEADLOCK FALSE

\* One limit, one change of its skip flags.
SPECIFICATION LimitsSpec
CONSTANTS
    k1 = k1
    a1 = a1
    a2 = a2
    timer = timer
    l1 = l1
    l2 = l2
    Keys = {k1}
    Limits = {l1, l2}
    Admins = {a1, a2}
    Timer = timer
    MaxWrites = 1
    MaxFaults = 1
PROPERTIES
    EverySkipFlagApplied

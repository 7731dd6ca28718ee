SPECIFICATION TabSpec
CONSTANTS
    c1 = c1
    me = me
    t1 = t1
    k1 = k1
    k2 = k2
    k3 = k3
    k4 = k4
    k5 = k5
    Calls = {c1}
    Me = me
    Timers = {t1}
    Tokens = {k1, k2, k3, k4, k5}
    Void = Void
INVARIANTS
    TabTypeOK
    QueueHasALeader
    LogoutSticks
PROPERTIES
    TimerBringsNothingBack
    EveryCallSettles

\* Two requests in flight; MaxNow is past every bound that is checked.
SPECIFICATION Spec
CONSTANTS
    q1 = q1
    q2 = q2
    Reqs = {q1, q2}
    TTL = 1
    Latency = 1
    MaxTv = 1
    MaxWrites = 2
    MaxNow = 4
SYMMETRY Symmetry
INVARIANTS
    TypeOK
    BoundedStaleness
    SessionStaleness
    GateHolds
CHECK_DEADLOCK FALSE

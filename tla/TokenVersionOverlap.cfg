\* A second revocation may run between the read and the save of the first.
SPECIFICATION Spec
CONSTANTS
    u1 = u1
    q1 = q1
    q2 = q2
    Users = {u1}
    Reqs = {q1, q2}
    Allow <- OverlapWorkload
    MaxRevocations = 2
INVARIANTS
    LiveTokensPostdateRevocations
CHECK_DEADLOCK FALSE

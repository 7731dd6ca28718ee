\* The same instance, for a link that two resetPasswords use.
SPECIFICATION Spec
CONSTANTS
    q1 = q1
    q2 = q2
    q3 = q3
    Reqs = {q1, q2, q3}
    MaxAttempts = 2
    MaxLocks = 1
    MaxSecrets = 2
    MaxAsks = 3
    MaxFaults = 1
SYMMETRY Symmetry
CONSTRAINT OnePart
INVARIANTS
    LinksAreOneTime
CHECK_DEADLOCK FALSE

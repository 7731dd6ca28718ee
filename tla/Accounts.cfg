\* Three handlers in flight; two failures lock the account, and a lock runs
\* out; two secrets; three reset requests.
SPECIFICATION Spec
CONSTANTS
    q1 = q1
    q2 = q2
    q3 = q3
    Reqs = {q1, q2, q3}
    MaxAttempts = 2
    MaxLocks = 1
    MaxSecrets = 2
    MaxAsks = 3
    MaxFaults = 1
SYMMETRY Symmetry
CONSTRAINT OnePart
INVARIANTS
    TypeOK
    GuessesAreBounded
    FactorWorks
    LinksAreApproved
CHECK_DEADLOCK FALSE

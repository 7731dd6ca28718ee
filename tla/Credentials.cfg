\* One account with three requests in flight, its revocations one at a time; or
\* two devices with two refreshes in flight (of one device or of both) and a
\* limit of one session.  MCNext stops when the only account has been rejected or
\* a bound is reached.
SPECIFICATION MCSpec
CONSTANTS
    u1 = u1
    q1 = q1
    q2 = q2
    q3 = q3
    Users = {u1}
    Reqs = {q1, q2, q3}
    Allow <- SerialWorkload
    MaxRevocations = 2
    d1 = d1
    d2 = d2
    r1 = r1
    r2 = r2
    Devices = {d1, d2}
    Refreshes = {r1, r2}
    MaxSessions = 1
    SameSecond = FALSE
    MaxFaults = 1
    MaxLogins = 2
    MaxSec = 4
    MaxTv = 1
SYMMETRY Symmetry
INVARIANTS
    TypeOK
    LiveTokensPostdateRevocations
    PendingSignInsPostdateRevocations
    SessionsTypeOK
    SessionLimit
    ExchangedTokensAreDead
    SteadyDevicesKeepTheirSession
PROPERTIES
    RevokedForGood
    RefinesRevocation
    EndedDevicesCannotRefresh
CHECK_DEADLOCK FALSE

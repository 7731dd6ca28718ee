\* Two users, two requests in flight, room for one comment and a race, replies
\* one level deep.
SPECIFICATION Spec
CONSTANTS
    u1 = u1
    u2 = u2
    q1 = q1
    q2 = q2
    Users = {u1, u2}
    Reqs = {q1, q2}
    MaxCount = 1
    MaxDepth = 2
    MaxComments = 3
    MaxNotes = 1
SYMMETRY Symmetry
INVARIANTS
    TypeOK
    LikeCountsMatch
    ThreadIsBounded
CHECK_DEADLOCK FALSE

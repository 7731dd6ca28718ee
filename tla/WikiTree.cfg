\* Three pages, two transactions, both isolation levels; a walk that sees two
\* ancestors, and so may be cut off.
SPECIFICATION Spec
CONSTANTS
    p1 = p1
    p2 = p2
    p3 = p3
    q1 = q1
    q2 = q2
    t1 = t1
    t2 = t2
    Pages = {p1, p2, p3}
    Reqs = {q1, q2}
    Texts = {t1, t2}
    MaxWalk = 2
SYMMETRY Symmetry
INVARIANTS
    TypeOK
    SerialTree
    UnmovedPagesHaveParents
    RevisionsMatch
CHECK_DEADLOCK FALSE

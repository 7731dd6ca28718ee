\* Two posts, two boards, two requests and the purge, two files.
SPECIFICATION Spec
CONSTANTS
    p1 = p1
    p2 = p2
    f1 = f1
    f2 = f2
    b1 = b1
    b2 = b2
    q1 = q1
    q2 = q2
    cron = cron
    PostIds = {p1, p2}
    Boards = {b1, b2}
    Files = {f1, f2}
    Reqs = {q1, q2}
    Cron = cron
    MaxUploads = 1
    MaxFileCount = 1
    Batch = 1
    MaxFaults = 2
CONSTRAINT OneOrTwo
INVARIANTS
    TypeOK
    AttachmentsExist
    NothingForgotten
PROPERTIES
    EveryDeletedFileGoes
CHECK_DEADLOCK FALSE

------------------------------- MODULE Posts -------------------------------
(***************************************************************************)
(* Posts and the files attached to them.                                   *)
(*                                                                         *)
(* A post's row names its files; the files lie in the uploads directory.   *)
(* No transaction spans the two.  A create or an update arrives with its   *)
(* uploads already on disk and unlinks them when it fails; an update works *)
(* out the new list and the files to unlink from a row it read without a   *)
(* lock, commits under a row lock, and unlinks after the commit.  deletePost *)
(* moves a row to the trash and unlinks; a timer purges the trash, batch by *)
(* batch, and unlinks at the end; deleteBoard removes every row of a board *)
(* and unlinks the files of those it had read before.  The server may stop *)
(* between any two steps.                                                  *)
(*                                                                         *)
(* Source: services/post.service.ts, services/board.service.ts,            *)
(* controllers/post.controller.ts, routes/post.routes.ts,                  *)
(* middlewares/upload, models/Post.ts, index.ts.                           *)
(***************************************************************************)
EXTENDS Naturals, FiniteSets

CONSTANTS
    PostIds,
    Boards,
    Files,
    Reqs,           \* slots for requests in flight
    Cron,           \* the slot of the purge timer
    MaxUploads,     \* files a request may carry: 5, as multer was set up when
                    \* the routes were loaded, whatever the settings say since
    MaxFileCount,   \* settings.maxFileCount, which updatePost alone looks at
    Batch,          \* rows that one transaction of the purge deletes: 500
    MaxFaults       \* bound on stops of the server and failing statements

ASSUME PostsAssumption ==
    /\ MaxUploads \in Nat /\ MaxFileCount \in Nat /\ Batch \in Nat \ {0}
    /\ MaxFaults \in Nat
ASSUME CronAssumption == Cron \notin Reqs

VARIABLES
    open,     \* the boards that exist
    row,      \* the posts table: state, board, attachments
    disk,     \* the files in the uploads directory
    req,      \* what each request in flight holds
    stale,    \* history: files a commit left to a row from an outdated read
    leaked,   \* history: files no row names any more and no step will unlink
    faults    \* history: stops of the server and failing statements

vars == <<open, row, disk, req, stale, leaked, faults>>

Slots == Reqs \cup {Cron}
Unborn == [st |-> "unborn"]
Gone   == [st |-> "gone"]      \* the row was deleted for good
Row    == [st : {"live", "trash"}, board : Boards, files : SUBSET Files]
Idle   == [op |-> "none"]
\* posts: the rows it is about, those left of a purge; seen: the files of the
\* row it read; put: the list it will save; fresh: its uploads; drop: what it
\* will unlink.
Work   == [op : {"create", "update", "delete", "purge", "board"},
           posts : SUBSET PostIds, board : Boards, to : Boards,
           seen : SUBSET Files, put : SUBSET Files, fresh : SUBSET Files,
           drop : SUBSET Files]
Unlinking == [op : {"unlink"}, drop : SUBSET Files]

\* A list that a create or an update may save.
AtMost(n, files) == IsFiniteSet(files) /\ Cardinality(files) <= n
Admitted(files)  == AtMost(MaxUploads, files) \/ AtMost(MaxFileCount, files)

\* A row names as many files as one request may bring or the settings allow.
TypeOK ==
    /\ open \subseteq Boards
    /\ row \in [PostIds -> Row \cup {Unborn, Gone}]
    /\ disk \subseteq Files
    /\ req \in [Slots -> Work \cup Unlinking \cup {Idle}]
    /\ \A q \in Reqs : req[q].op # "purge"
    /\ \A p \in PostIds : row[p] \in Row => Admitted(row[p].files)
    /\ stale \subseteq Files /\ leaked \subseteq Files
    /\ faults \in 0 .. MaxFaults

----------------------------------------------------------------------------
Rows     == {p \in PostIds : row[p].st \in {"live", "trash"}}
Live     == {p \in PostIds : row[p].st = "live"}
Trash    == {p \in PostIds : row[p].st = "trash"}
FilesOf(ps) == UNION {row[p].files : p \in ps}
Named    == FilesOf(Rows)
Busy     == {q \in Slots : req[q] # Idle}
Working  == {q \in Busy : req[q].op # "unlink"}
InFlight == (UNION {req[q].drop : q \in Busy}) \cup (UNION {req[q].fresh : q \in Working})

\* multer gives every upload a name of its own.
Unused == Files \ (disk \cup Named \cup InFlight \cup stale \cup leaked)

\* The transaction is over; what is left is to unlink the files of f.
ThenUnlink(q, f) ==
    req' = [req EXCEPT ![q] = IF f = {} THEN Idle ELSE [op |-> "unlink", drop |-> f]]

NoHistory == UNCHANGED <<stale, leaked, faults>>
Fault == faults < MaxFaults /\ faults' = faults + 1

Begin(q, work) == req[q] = Idle /\ req' = [req EXCEPT ![q] = work]

Request(op, ps, b) == [op |-> op, posts |-> ps, board |-> b, to |-> b,
                       seen |-> {}, put |-> {}, fresh |-> {}, drop |-> {}]

----------------------------------------------------------------------------
(* createPost: the list is what multer let through.                         *)

CreateBegin(q, p, b, new) ==
    /\ row[p] = Unborn /\ \A r \in Working : p \notin req[r].posts
    /\ new \subseteq Unused /\ AtMost(MaxUploads, new)
    /\ disk' = disk \cup new
    /\ Begin(q, [Request("create", {p}, b) EXCEPT !.put = new, !.fresh = new])
    /\ UNCHANGED <<open, row>> /\ NoHistory

\* Post.create: the foreign key wants its board.
CreateCommit(q) ==
    /\ req[q].op = "create" /\ req[q].board \in open
    /\ row' = [p \in PostIds |-> IF p \in req[q].posts
                 THEN [st |-> "live", board |-> req[q].board, files |-> req[q].put]
                 ELSE row[p]]
    /\ req' = [req EXCEPT ![q] = Idle]
    /\ UNCHANGED <<open, disk>> /\ NoHistory

----------------------------------------------------------------------------
(* updatePost                                                               *)

\* A list that is not cut.
CutNothing(kept, new) == {{}}

\* A list with new files is cut at maxFileCount from its end: the kept files
\* come first.  Without new files it stays as long as it is.
Cut(kept, new) ==
    {c \in SUBSET (kept \cup new) :
       IF new = {} THEN c = {}
       ELSE LET left == Cardinality((kept \cup new) \ c) IN
              /\ left <= MaxFileCount /\ (c # {} => left = MaxFileCount)
              /\ (c \cap kept # {} => new \subseteq c)}

\* An update that unlinks before its transaction has committed.
UpdateBeginUnlinks(q, p, b, to, kept, new, cut) ==
    /\ p \in Live /\ row[p].board = b
    /\ kept \subseteq row[p].files
    /\ new \subseteq Unused /\ AtMost(MaxUploads, new)
    /\ cut \in Cut(kept, new)
    /\ disk' = (disk \cup new) \ ((row[p].files \ kept) \cup cut)
    /\ Begin(q, [Request("update", {p}, b) EXCEPT
                   !.to = to, !.seen = row[p].files, !.fresh = new,
                   !.put = (kept \cup new) \ cut])
    /\ UNCHANGED <<open, row>> /\ NoHistory

\* The unlocked read: of its files the client keeps some (deletedFileNames,
\* keepExistingFiles); `to' is targetBoardType.
UpdateBegin(q, p, b, to, kept, new, cut) ==
    /\ p \in Live /\ row[p].board = b
    /\ kept \subseteq row[p].files
    /\ new \subseteq Unused /\ AtMost(MaxUploads, new)
    /\ cut \in Cut(kept, new)
    /\ disk' = disk \cup new
    /\ Begin(q, [Request("update", {p}, b) EXCEPT
                   !.to = to, !.seen = row[p].files, !.fresh = new,
                   !.put = (kept \cup new) \ cut,
                   !.drop = (row[p].files \ kept) \cup cut])
    /\ UNCHANGED <<open, row>> /\ NoHistory

\* The read under LOCK.UPDATE leaves trashed rows out and refuses a post that
\* was moved meanwhile; it does not look at the attachments.
Lockable(p, b) == p \in Live /\ row[p].board = b

\* The commit.  A move wants the target board, which the foreign key keeps.
UpdateCommit(q) ==
    /\ req[q].op = "update"
    /\ \E p \in req[q].posts :
        /\ Lockable(p, req[q].board) /\ req[q].to \in open
        /\ row' = [row EXCEPT ![p] = [st |-> "live", board |-> req[q].to,
                                      files |-> req[q].put]]
        /\ ThenUnlink(q, req[q].drop)
        /\ stale' = stale \cup ((req[q].put \ req[q].fresh) \ row[p].files)
        /\ leaked' = leaked \cup (row[p].files \ req[q].seen)
        /\ UNCHANGED <<open, disk, faults>>

\* An error answer that forgets the uploads.
RefuseOnly(q) ==
    /\ \/ req[q].op = "create" \/ req[q].op = "update"
    /\ req' = [req EXCEPT ![q] = Idle]
    /\ UNCHANGED <<open, row, disk>> /\ NoHistory

\* Uploads that are not what they claim, and any error of create or update,
\* before the commit or in its place: the validator or the controller unlinks.
Refuse(q) ==
    /\ \/ req[q].op = "create" \/ req[q].op = "update"
    /\ ThenUnlink(q, req[q].fresh)
    /\ UNCHANGED <<open, row, disk>> /\ NoHistory

\* An error of the validator itself, whose chmod may fail: it answers 500 and
\* leaves the uploads where they are.
ValidatorFails(q) ==
    /\ \/ req[q].op = "create" \/ req[q].op = "update"
    /\ Fault
    /\ leaked' = leaked \cup req[q].fresh
    /\ req' = [req EXCEPT ![q] = Idle]
    /\ UNCHANGED <<open, row, disk, stale>>

----------------------------------------------------------------------------
(* deletePost and purgeExpiredPosts                                         *)

DeleteBegin(q, p, b) ==
    /\ p \in Live /\ row[p].board = b
    /\ Begin(q, [Request("delete", {p}, b) EXCEPT !.drop = row[p].files])
    /\ UNCHANGED <<open, row, disk>> /\ NoHistory

\* post.destroy sets deletedAt, on a row in the trash once more; a row that is
\* gone is not touched.  The files are those of the read before.
DeleteCommit(q) ==
    /\ req[q].op = "delete"
    /\ row' = [p \in PostIds |-> IF p \in req[q].posts \cap Live
                                 THEN [row[p] EXCEPT !.st = "trash"] ELSE row[p]]
    /\ ThenUnlink(q, req[q].drop)
    /\ UNCHANGED <<open, disk>> /\ NoHistory

\* A purge is not about a board.
AnyBoard == CHOOSE b \in Boards : TRUE

\* A purge that leaves the files to deletePost.
PurgeBeginRows(expired) ==
    /\ expired # {} /\ expired \subseteq Trash
    /\ Begin(Cron, Request("purge", expired, AnyBoard))
    /\ UNCHANGED <<open, row, disk>> /\ NoHistory

\* The rows whose retention is over, and what they name.
PurgeBegin(expired) ==
    /\ expired # {} /\ expired \subseteq Trash
    /\ Begin(Cron, [Request("purge", expired, AnyBoard) EXCEPT
                      !.drop = FilesOf(expired)])
    /\ UNCHANGED <<open, row, disk>> /\ NoHistory

\* What one transaction takes of the rows that are left.
Batches(left) == {b \in SUBSET left : /\ b # {} /\ AtMost(Batch, b)
                                      /\ b # left => Cardinality(b) = Batch}

\* Each batch is a transaction; the files wait for the last.
PurgeBatch(rows) ==
    LET left == req[Cron].posts \ rows IN
      /\ req[Cron].op = "purge" /\ rows \in Batches(req[Cron].posts)
      /\ row' = [p \in PostIds |-> IF p \in rows THEN Gone ELSE row[p]]
      /\ IF left = {} THEN ThenUnlink(Cron, req[Cron].drop)
         ELSE req' = [req EXCEPT ![Cron].posts = left]
      /\ UNCHANGED <<open, disk>> /\ NoHistory

\* A batch fails: those before it have been committed, and nobody will unlink
\* what their rows named.
PurgeFails ==
    /\ req[Cron].op = "purge" /\ Fault
    /\ leaked' = leaked \cup ((req[Cron].drop \cap disk) \ Named)
    /\ req' = [req EXCEPT ![Cron] = Idle]
    /\ UNCHANGED <<open, row, disk, stale>>

----------------------------------------------------------------------------
(* deleteBoard                                                              *)

\* The posts of the board, trashed ones included, and what they name.
Collected(b) == {p \in Rows : row[p].board = b}

BoardBegin(q, b) ==
    /\ b \in open
    /\ Begin(q, [Request("board", Collected(b), b) EXCEPT
                   !.drop = FilesOf(Collected(b))])
    /\ UNCHANGED <<open, row, disk>> /\ NoHistory

\* The rows go by their board, the files by what was read: a post that was
\* moved away meanwhile stays, one that came to the board is not in the list.
BoardCommit(q) ==
    LET b == req[q].board
        there == {p \in Rows : row[p].board = b}
        away == {p \in req[q].posts \cap Rows : row[p].board # b} IN
      /\ req[q].op = "board"
      /\ row' = [p \in PostIds |-> IF p \in there THEN Gone ELSE row[p]]
      /\ open' = open \ {b}
      /\ ThenUnlink(q, req[q].drop)
      /\ leaked' = leaked \cup (FilesOf(there) \ req[q].drop)
      /\ stale' = stale \cup (FilesOf(away) \cap req[q].drop)
      /\ UNCHANGED <<disk, faults>>

----------------------------------------------------------------------------
(* The unlinks after a transaction, and failures                            *)

Unlink(q) ==
    /\ req[q].op = "unlink"
    /\ disk' = disk \ req[q].drop
    /\ req' = [req EXCEPT ![q] = Idle]
    /\ UNCHANGED <<open, row>> /\ NoHistory

\* Files that cannot be unlinked are logged and forgotten.
UnlinkFails(q, stuck) ==
    /\ req[q].op = "unlink" /\ Fault
    /\ stuck # {} /\ stuck \subseteq req[q].drop
    /\ disk' = disk \ (req[q].drop \ stuck)
    /\ leaked' = leaked \cup (stuck \ Named)
    /\ req' = [req EXCEPT ![q] = Idle]
    /\ UNCHANGED <<open, row, stale>>

\* A deletion of a post or a board whose transaction fails changes nothing.
Rollback(q) ==
    /\ \/ req[q].op = "delete" \/ req[q].op = "board"
    /\ Fault
    /\ req' = [req EXCEPT ![q] = Idle]
    /\ UNCHANGED <<open, row, disk, stale, leaked>>

\* process.exit, whoever is in flight; the next boot starts with no requests.
Stop ==
    /\ Busy # {} /\ Fault
    /\ leaked' = leaked \cup (InFlight \ Named)
    /\ req' = [q \in Slots |-> Idle]
    /\ UNCHANGED <<open, row, disk, stale>>

----------------------------------------------------------------------------
Init ==
    /\ open = Boards
    /\ row = [p \in PostIds |-> Unborn]
    /\ disk = {}
    /\ req = [q \in Slots |-> Idle]
    /\ stale = {} /\ leaked = {} /\ faults = 0

Next ==
    \/ \E q \in Reqs, p \in PostIds, b \in Boards :
         \/ \E new \in SUBSET Unused : CreateBegin(q, p, b, new)
         \/ \E new \in SUBSET Unused, to \in Boards : p \in Live /\
              \E kept \in SUBSET row[p].files, cut \in SUBSET (new \cup row[p].files) :
                UpdateBegin(q, p, b, to, kept, new, cut)
         \/ DeleteBegin(q, p, b)
    \/ \E q \in Reqs, b \in Boards : BoardBegin(q, b)
    \/ \E q \in Reqs : \/ CreateCommit(q) \/ UpdateCommit(q) \/ Refuse(q)
                       \/ ValidatorFails(q) \/ DeleteCommit(q) \/ BoardCommit(q)
                       \/ Rollback(q)
    \/ \E rows \in SUBSET PostIds : PurgeBegin(rows) \/ PurgeBatch(rows)
    \/ PurgeFails
    \/ \E q \in Slots : Unlink(q) \/ \E stuck \in SUBSET Files : UnlinkFails(q, stuck)
    \/ Stop

\* A request in flight goes on; the purge runs every 24 hours and finds a row
\* that stays in the trash.
Fairness ==
    /\ \A q \in Reqs : WF_vars(CreateCommit(q) \/ UpdateCommit(q) \/ Refuse(q)
                               \/ DeleteCommit(q) \/ BoardCommit(q))
    /\ WF_vars(\E rows \in SUBSET PostIds : PurgeBatch(rows))
    /\ \A q \in Slots : WF_vars(Unlink(q))
    /\ \A p \in PostIds :
         WF_vars(\E expired \in SUBSET PostIds : p \in expired /\ PurgeBegin(expired))

Spec == Init /\ [][Next]_vars /\ Fairness

----------------------------------------------------------------------------
(* Properties                                                               *)

\* A file that a live post names is on disk, whatever fails and whenever the
\* server stops (updatePost and deletePost unlink after their commit), unless
\* an update or a board deletion that had read an older row is to blame.
AttachmentsExist == \A p \in Live : row[p].files \ disk \subseteq stale

\* A file on disk is named by a post, or some request still has it in hand, or
\* it is one of those known to be lost: left over by a stop, a failing unlink, a
\* failing validator, a purge that failed between two batches, or an update or
\* board deletion that had not seen it.
NothingForgotten == disk \subseteq Named \cup InFlight \cup leaked

\* The files of a deleted post leave the disk: from the trash by the purge if
\* not before, and from a board that is deleted, unless they were lost.
EveryDeletedFileGoes ==
    \A f \in Files : (f \notin FilesOf(Live) \cup leaked)
                       ~> (f \notin disk \/ f \in leaked \/ \E p \in Live : f \in row[p].files)
=============================================================================

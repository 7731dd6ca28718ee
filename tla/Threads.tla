------------------------------ MODULE Threads ------------------------------
(***************************************************************************)
(* What hangs on a post: its comments, their likes and the denormalised    *)
(* likeCount, the likes of the post, the notifications that point at it.   *)
(*                                                                         *)
(* A controller reads the post (or the comment and its post) without a     *)
(* lock and then calls a service, whose transaction locks the comment or   *)
(* the post it changes; under READ COMMITTED the other statements of the   *)
(* transaction see what has committed by then.  createComment counts       *)
(* before it inserts; deletePost removes children statement by statement,  *)
(* the post last; notifications are created after the transaction, and     *)
(* nobody waits for them.                                                  *)
(*                                                                         *)
(* Source: services/comment.service.ts, services/commentLike.service.ts,   *)
(* services/like.service.ts, services/post.service.ts (deletePost, purge), *)
(* services/board.service.ts (deleteBoard), services/user.service.ts and   *)
(* the controllers of comments and likes.                                  *)
(***************************************************************************)
EXTENDS Naturals, FiniteSets

CONSTANTS
    Users,         \* who comments and likes: not the author of the post
    Reqs,          \* slots for requests in flight
    MaxCount,      \* comment settings: comments per post
    MaxDepth,      \* comment settings: levels of replies
    MaxComments,   \* bound on the comments that are created
    MaxNotes       \* bound on the notifications that are kept

ASSUME ThreadsAssumption ==
    /\ IsFiniteSet(Users) /\ IsFiniteSet(Reqs) /\ Reqs # {}
    /\ MaxCount \in Nat /\ MaxDepth \in Nat \ {0}
    /\ MaxComments \in Nat /\ MaxNotes \in Nat

VARIABLES
    post,      \* the post: live, in the trash, or gone
    cm,        \* the comments table
    likes,     \* CommentLikes: pairs of a comment and a user
    plikes,    \* PostLikes: the users who like the post
    notes,     \* notifications with relatedId the post
    user,      \* users: active, inactive, or destroyed
    req,       \* what each request in flight holds
    escaped,   \* history: requests in flight at the deletion that may still add
    lost       \* history: like rows that went with their user

vars == <<post, cm, likes, plikes, notes, user, req, escaped, lost>>

Comments == 1 .. MaxComments
Unborn   == [st |-> "unborn"]
Gone     == [st |-> "gone"]
Row      == [st : {"live", "deleted"}, depth : 0 .. MaxDepth - 1, likeCount : Nat]
Idle     == [op |-> "idle"]
Request  == [op : {"comment", "insert"}, user : Users, parent : 0 .. MaxComments]
              \cup [op : {"like"}, user : Users, comment : Comments]
              \cup [op : {"postLike"}, user : Users]
              \cup [op : {"remove"}, comment : Comments]
              \cup [op : {"deleting"}, likes : SUBSET (Comments \X Users),
                    postLikes : SUBSET Users]
              \cup [op : {"delete", "notify"}]

\* maxDepth bounds every comment, and a like is of a comment that was created.
TypeOK ==
    /\ post \in {"live", "trash", "gone"}
    /\ cm \in [Comments -> Row \cup {Unborn, Gone}]
    /\ likes \subseteq {c \in Comments : cm[c] \in Row} \X Users
    /\ plikes \subseteq Users
    /\ notes \in 0 .. MaxNotes
    /\ user \in [Users -> {"active", "inactive", "destroyed"}]
    /\ req \in [Reqs -> Request \cup {Idle}]
    /\ escaped \in Nat /\ lost \subseteq Comments \X Users

----------------------------------------------------------------------------
Live == {c \in Comments : cm[c].st = "live"}
Rows == {c \in Comments : cm[c].st \in {"live", "deleted"}}
LikesOf(c) == {l \in likes : l[1] = c}

Op(q) == req[q].op
Then(q, r) == req' = [req EXCEPT ![q] = r]
End(q) == Then(q, Idle)
Begin(q, r) == Op(q) = "idle" /\ Then(q, r)

\* The rows a deletePost has deleted and not committed are locked.
Deleting == {q \in Reqs : Op(q) = "deleting"}
Locked(c, u) == \E q \in Deleting : <<c, u>> \in req[q].likes
LockedLike(u) == \E q \in Deleting : u \in req[q].postLikes

Table == <<post, cm, likes, plikes, notes, user>>
History == <<escaped, lost>>

----------------------------------------------------------------------------
(* createComment                                                            *)

\* The controller finds the post.
CommentBegin(q, u, parent) ==
    /\ post = "live" /\ user[u] = "active"
    /\ Begin(q, [op |-> "comment", user |-> u, parent |-> parent])
    /\ UNCHANGED <<Table, History>>

\* A count whose result is ignored.
CommentCountAny(q) ==
    /\ Op(q) = "comment"
    /\ Then(q, [req[q] EXCEPT !.op = "insert"])
    /\ UNCHANGED <<Table, History>>

\* The transaction counts the comments that are not deleted.
CommentCount(q) ==
    /\ Op(q) = "comment" /\ Cardinality(Live) < MaxCount
    /\ Then(q, [req[q] EXCEPT !.op = "insert"])
    /\ UNCHANGED <<Table, History>>

MayReply(parent) == \/ parent = 0
                    \/ parent \in Live /\ cm[parent].depth < MaxDepth - 1

\* The parent is locked while the row is inserted; the foreign keys want the
\* rows of the post, a trashed one will do, and of the user.
CommentInsert(q) ==
    LET id == Cardinality({c \in Comments : cm[c] # Unborn}) + 1
        parent == req[q].parent IN
      /\ Op(q) = "insert" /\ MayReply(parent)
      /\ post # "gone" /\ user[req[q].user] # "destroyed" /\ id \in Comments
      /\ cm' = [cm EXCEPT ![id] =
                  [st |-> "live", likeCount |-> 0,
                   depth |-> IF parent = 0 THEN 0 ELSE cm[parent].depth + 1]]
      /\ Then(q, [op |-> "notify"])
      /\ UNCHANGED <<post, likes, plikes, notes, user, History>>

CommentRefused(q) ==
    /\ \/ Op(q) = "comment" /\ Cardinality(Live) >= MaxCount
       \/ Op(q) = "insert" /\ (\/ ~MayReply(req[q].parent)
                               \/ post = "gone" \/ user[req[q].user] = "destroyed")
    /\ End(q)
    /\ UNCHANGED <<Table, History>>

\* notificationService.create, not waited for: the rows of one comment or like
\* count as one.
Notify(q) ==
    /\ Op(q) = "notify" /\ notes < MaxNotes
    /\ notes' = notes + 1
    /\ End(q)
    /\ UNCHANGED <<post, cm, likes, plikes, user, History>>

\* It fails, and that is logged.
NotifyFails(q) ==
    /\ Op(q) = "notify"
    /\ End(q)
    /\ UNCHANGED <<Table, History>>

\* The author deletes the notifications.
ClearNotes ==
    /\ notes # 0 /\ notes' = 0
    /\ UNCHANGED <<post, cm, likes, plikes, user, req, History>>

----------------------------------------------------------------------------
(* toggleLike of a comment and of the post; deleteComment                   *)

LikeBegin(q, u, c) ==
    /\ post = "live" /\ c \in Live /\ user[u] = "active"
    /\ Begin(q, [op |-> "like", user |-> u, comment |-> c])
    /\ UNCHANGED <<Table, History>>

\* A toggle that has looked for the row before the lock, and adds it again.
LikeToggleBlind(q) ==
    LET c == req[q].comment
        l == <<c, req[q].user>> IN
      /\ Op(q) = "like" /\ c \in Live /\ ~Locked(c, req[q].user)
      /\ user[req[q].user] # "destroyed"
      /\ likes' = likes \cup {l}
      /\ cm' = [cm EXCEPT ![c].likeCount = @ + 1]
      /\ End(q)
      /\ UNCHANGED <<post, plikes, notes, user, History>>

\* The comment is locked, then the row, then both are changed.  A like, not its
\* withdrawal, is notified.
LikeToggle(q) ==
    LET c == req[q].comment
        l == <<c, req[q].user>> IN
      /\ Op(q) = "like" /\ c \in Live /\ ~Locked(c, req[q].user)
      /\ \/ /\ l \in likes /\ likes' = likes \ {l} /\ End(q)
            /\ cm' = [cm EXCEPT ![c].likeCount = @ - 1]
         \/ /\ l \notin likes /\ user[req[q].user] # "destroyed"
            /\ likes' = likes \cup {l} /\ Then(q, [op |-> "notify"])
            /\ cm' = [cm EXCEPT ![c].likeCount = @ + 1]
      /\ UNCHANGED <<post, plikes, notes, user, History>>

LikeRefused(q) ==
    /\ Op(q) = "like"
    /\ req[q].comment \notin Live \/ user[req[q].user] = "destroyed"
    /\ End(q)
    /\ UNCHANGED <<Table, History>>

PostLikeBegin(q, u) ==
    /\ post = "live" /\ user[u] = "active"
    /\ Begin(q, [op |-> "postLike", user |-> u])
    /\ UNCHANGED <<Table, History>>

\* The post is locked, then the row.
PostLikeToggle(q) ==
    LET u == req[q].user IN
      /\ Op(q) = "postLike" /\ post = "live" /\ ~LockedLike(u)
      /\ \/ u \in plikes /\ plikes' = plikes \ {u} /\ End(q)
         \/ /\ u \notin plikes /\ user[u] # "destroyed"
            /\ plikes' = plikes \cup {u} /\ Then(q, [op |-> "notify"])
      /\ UNCHANGED <<post, cm, likes, notes, user, History>>

PostLikeRefused(q) ==
    /\ Op(q) = "postLike" /\ (post # "live" \/ user[req[q].user] = "destroyed")
    /\ End(q)
    /\ UNCHANGED <<Table, History>>

RemoveBegin(q, c) ==
    /\ post = "live" /\ c \in Live
    /\ Begin(q, [op |-> "remove", comment |-> c])
    /\ UNCHANGED <<Table, History>>

\* The comment is locked; its likes go with it, its likeCount stays.
RemoveCommit(q) ==
    LET c == req[q].comment IN
      /\ Op(q) = "remove" /\ c \in Live /\ \A u \in Users : ~Locked(c, u)
      /\ likes' = likes \ LikesOf(c)
      /\ cm' = [cm EXCEPT ![c].st = "deleted"]
      /\ End(q)
      /\ UNCHANGED <<post, plikes, notes, user, History>>

RemoveRefused(q) ==
    /\ Op(q) = "remove" /\ req[q].comment \notin Live
    /\ End(q)
    /\ UNCHANGED <<Table, History>>

----------------------------------------------------------------------------
(* deletePost, purgeExpiredPosts, deleteBoard                               *)

\* Who may still add a comment or a notification.
Adding == {q \in Reqs : Op(q) \in {"comment", "insert", "notify"}}

\* Looking at the requests from the deletion on.
Overtakes == escaped' = IF post = "live" THEN Cardinality(Adding) ELSE escaped

DeleteBegin(q) ==
    /\ post = "live"
    /\ Begin(q, [op |-> "delete"])
    /\ UNCHANGED <<Table, History>>

\* The statements that delete the likes: rows locked by another deletion wait.
DeleteLikes(q) ==
    /\ Op(q) = "delete" /\ Deleting = {}
    /\ Then(q, [op |-> "deleting", likes |-> likes, postLikes |-> plikes])
    /\ UNCHANGED <<Table, History>>

\* The comments and the notifications, the post, the commit.
DeleteCommit(q) ==
    /\ Op(q) = "deleting"
    /\ likes' = likes \ req[q].likes /\ plikes' = plikes \ req[q].postLikes
    /\ cm' = [c \in Comments |-> IF c \in Live THEN [cm[c] EXCEPT !.st = "deleted"]
                                 ELSE cm[c]]
    /\ notes' = 0
    /\ post' = IF post = "live" THEN "trash" ELSE post
    /\ Overtakes
    /\ End(q)
    /\ UNCHANGED <<user, lost>>

DeleteFails(q) ==
    /\ Op(q) \in {"delete", "deleting"}
    /\ End(q)
    /\ UNCHANGED <<Table, History>>

\* A deletion of the comments that no foreign key follows.
NoRowsLeftOrphans ==
    /\ cm' = [c \in Comments |-> IF c \in Rows THEN Gone ELSE cm[c]]
    /\ UNCHANGED likes /\ plikes' = {} /\ post' = "gone"

\* The rows of the comments go for good, and their likes by the foreign key.
NoRowsLeft ==
    /\ cm' = [c \in Comments |-> IF c \in Rows THEN Gone ELSE cm[c]]
    /\ likes' = {} /\ plikes' = {} /\ post' = "gone"

Purge ==
    /\ post = "trash" /\ Deleting = {}
    /\ NoRowsLeft
    /\ UNCHANGED <<notes, user, req, escaped, lost>>

BoardDelete ==
    /\ post \in {"live", "trash"} /\ Deleting = {}
    /\ NoRowsLeft /\ notes' = 0 /\ Overtakes
    /\ UNCHANGED <<user, req, lost>>

----------------------------------------------------------------------------
(* Users: deactivateUser, approveUser, rejectUser                           *)

Deactivate(u) ==
    /\ user[u] = "active" /\ user' = [user EXCEPT ![u] = "inactive"]
    /\ UNCHANGED <<post, cm, likes, plikes, notes, req, History>>

Approve(u) ==
    /\ user[u] = "inactive" /\ user' = [user EXCEPT ![u] = "active"]
    /\ UNCHANGED <<post, cm, likes, plikes, notes, req, History>>

\* The row of an inactive account is destroyed, one that has been in use
\* included; its likes go by the foreign key.
Reject(u) ==
    /\ user[u] = "inactive"
    /\ ~LockedLike(u) /\ \A c \in Comments : ~Locked(c, u)
    /\ user' = [user EXCEPT ![u] = "destroyed"]
    /\ likes' = {l \in likes : l[2] # u} /\ plikes' = plikes \ {u}
    /\ lost' = lost \cup {l \in likes : l[2] = u}
    /\ UNCHANGED <<post, cm, notes, req, escaped>>

----------------------------------------------------------------------------
Init ==
    /\ post = "live"
    /\ cm = [c \in Comments |-> Unborn]
    /\ likes = {} /\ plikes = {} /\ notes = 0
    /\ user = [u \in Users |-> "active"]
    /\ req = [q \in Reqs |-> Idle]
    /\ escaped = 0 /\ lost = {}

CommentStep(q) ==
    \/ \E u \in Users, parent \in 0 .. MaxComments : CommentBegin(q, u, parent)
    \/ CommentCount(q) \/ CommentInsert(q) \/ CommentRefused(q)
    \/ Notify(q) \/ NotifyFails(q)
    \/ \E c \in Comments : RemoveBegin(q, c)
    \/ RemoveCommit(q) \/ RemoveRefused(q)

LikeStep(q) ==
    \/ \E u \in Users : \/ PostLikeBegin(q, u)
                       \/ \E c \in Comments : LikeBegin(q, u, c)
    \/ LikeToggle(q) \/ LikeRefused(q) \/ PostLikeToggle(q) \/ PostLikeRefused(q)

DeleteStep(q) == DeleteBegin(q) \/ DeleteLikes(q) \/ DeleteCommit(q) \/ DeleteFails(q)

Next ==
    \/ \E q \in Reqs : CommentStep(q) \/ LikeStep(q) \/ DeleteStep(q)
    \/ \E u \in Users : Deactivate(u) \/ Approve(u) \/ Reject(u)
    \/ ClearNotes \/ Purge \/ BoardDelete

Spec == Init /\ [][Next]_vars

----------------------------------------------------------------------------
(* Properties                                                               *)

\* toggleLike keeps likeCount equal to the rows of CommentLikes for every
\* comment that shows, deletePosts under way included: it is out by the likes
\* that rejectUser's foreign key took with a user, and by nothing else.
LikeCountsMatch ==
    \A c \in Live : cm[c].likeCount = Cardinality(LikesOf(c))
                                        + Cardinality({l \in lost : l[1] = c})

\* "Always equal to the number of CommentLike rows"
\* (commentLike.service.ts:11-12, :40): no comment's likeCount is out.
LikeCountsAlwaysMatch == \A c \in Live : cm[c].likeCount = Cardinality(LikesOf(c))

\* A live post has at most the comments the settings allow and one more for
\* every other create in flight (counted before the insert); a deleted post
\* keeps no comment and no notification but those of requests that were in
\* flight when deletePost or deleteBoard committed.
ThreadIsBounded ==
    IF post = "live" THEN Cardinality(Live) <= MaxCount + Cardinality(Reqs) - 1
    ELSE Cardinality(Live) <= escaped /\ notes <= escaped
=============================================================================

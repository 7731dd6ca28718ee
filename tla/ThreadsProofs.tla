--------------------------- MODULE ThreadsProofs ---------------------------
(***************************************************************************)
(* Proofs about Threads, for any number of users, of requests in flight,   *)
(* of comments, and any settings.                                          *)
(***************************************************************************)
EXTENDS Threads, FiniteSetTheorems, TLAPS

----------------------------------------------------------------------------
(* The inductive invariant                                                  *)

Doing(ops) == {q \in Reqs : Op(q) \in ops}
Inserting  == Doing({"insert"})
Commenting == Doing({"comment", "insert"})
LostOf(c)  == {l \in lost : l[1] = c}

\* Comments are numbered as they come; a like in flight is of one that came.
Numbered == \E k \in 0 .. MaxComments : {c \in Comments : cm[c] # Unborn} = 1 .. k
Named    == \A q \in Reqs : Op(q) = "like" => cm[req[q].comment] # Unborn

\* Whose likes there are, and whose went with their user.
LostInv ==
    /\ \A l \in lost : l[2] \in Users /\ cm[l[1]] # Unborn /\ user[l[2]] = "destroyed"
    /\ \A l \in likes : user[l[2]] # "destroyed"

\* While the post is live every insert in flight has counted before; after that
\* whoever may still add was in flight when the post went, and no like finds
\* its comment.
Bounded ==
    IF post = "live"
    THEN Cardinality(Live) + Cardinality(Inserting) <= MaxCount + Cardinality(Reqs) - 1
    ELSE /\ Cardinality(Live) + Cardinality(Commenting) <= escaped
         /\ notes + Cardinality(Adding) <= escaped
         /\ \A q \in Reqs : Op(q) = "like" => req[q].comment \notin Live

IInv == TypeOK /\ Numbered /\ Named /\ LostInv /\ LikeCountsMatch /\ Bounded

----------------------------------------------------------------------------
(* Types and sets                                                           *)

Places == Request \cup {Idle}

LEMMA Constants ==
    /\ IsFiniteSet(Reqs) /\ Cardinality(Reqs) \in Nat /\ Cardinality(Reqs) >= 1
    /\ IsFiniteSet(Users) /\ MaxCount \in Nat
    /\ MaxDepth \in Nat /\ MaxDepth >= 1 /\ MaxComments \in Nat /\ MaxNotes \in Nat
<1>1. Cardinality(Reqs) \in Nat /\ Cardinality(Reqs) # 0
  BY ThreadsAssumption, FS_CardinalityType, FS_EmptySet
<1> QED
  BY <1>1, ThreadsAssumption

LEMMA ReqSets ==
    ASSUME NEW S \in SUBSET Reqs
    PROVE  /\ IsFiniteSet(S) /\ Cardinality(S) \in Nat
           /\ Cardinality(S) <= Cardinality(Reqs)
BY Constants, FS_Subset, FS_CardinalityType

LEMMA CommentSets ==
    ASSUME NEW S \in SUBSET Comments
    PROVE  IsFiniteSet(S) /\ Cardinality(S) \in Nat
<1>1. IsFiniteSet(Comments)
  BY Constants, FS_Interval DEF Comments
<1> QED
  BY <1>1, FS_Subset, FS_CardinalityType

LEMMA LikeSets ==
    ASSUME NEW S \in SUBSET (Comments \X Users)
    PROVE  IsFiniteSet(S) /\ Cardinality(S) \in Nat
<1>1. IsFiniteSet(Comments)
  BY CommentSets
<1>2. IsFiniteSet(Comments \X Users)
  BY <1>1, Constants, FS_Product
<1> QED
  BY <1>2, FS_Subset, FS_CardinalityType

\* What a slot holds, by what it does.
LEMMA SlotTypes ==
    ASSUME TypeOK, NEW q \in Reqs
    PROVE  /\ Op(q) \in {"comment", "insert"} =>
                /\ req[q] = [op |-> Op(q), user |-> req[q].user, parent |-> req[q].parent]
                /\ req[q].user \in Users /\ req[q].parent \in 0 .. MaxComments
           /\ Op(q) = "like" => req[q].user \in Users /\ req[q].comment \in Comments
           /\ Op(q) = "postLike" => req[q].user \in Users
           /\ Op(q) = "remove" => req[q].comment \in Comments
           /\ Op(q) = "deleting" => req[q].likes \subseteq Comments \X Users
                                    /\ req[q].postLikes \subseteq Users
<1>1. req[q] \in Places
  BY DEF TypeOK, Places
<1> QED
  BY <1>1 DEF Places, Idle, Request, Op

LEMMA PlaceTypes ==
    /\ Idle \in Places /\ Idle.op = "idle"
    /\ \A op \in {"delete", "notify"} : [op |-> op] \in Places
    /\ \A op \in {"comment", "insert"}, u \in Users, p \in 0 .. MaxComments :
         [op |-> op, user |-> u, parent |-> p] \in Places
    /\ \A u \in Users, c \in Comments : [op |-> "like", user |-> u, comment |-> c] \in Places
    /\ \A u \in Users : [op |-> "postLike", user |-> u] \in Places
    /\ \A c \in Comments : [op |-> "remove", comment |-> c] \in Places
    /\ \A L \in SUBSET (Comments \X Users), P \in SUBSET Users :
         [op |-> "deleting", likes |-> L, postLikes |-> P] \in Places
BY DEF Places, Idle, Request

LEMMA ThenType ==
    ASSUME TypeOK, NEW q \in Reqs, NEW r \in Places, Then(q, r)
    PROVE  /\ req' \in [Reqs -> Places]
           /\ req'[q] = r
           /\ \A p \in Reqs \ {q} : req'[p] = req[p]
BY DEF TypeOK, Then, Places

\* Where a request that moves is counted.
LEMMA Moves ==
    ASSUME TypeOK, NEW q \in Reqs, NEW r \in Places, Then(q, r), NEW ops
    PROVE  Doing(ops)' = IF r.op \in ops THEN Doing(ops) \cup {q} ELSE Doing(ops) \ {q}
<1>1. /\ req'[q] = r
      /\ \A p \in Reqs \ {q} : req'[p] = req[p]
  BY ThenType
<1>2. Op(q)' = r.op /\ \A p \in Reqs \ {q} : Op(p)' = Op(p)
  BY <1>1 DEF Op
<1> QED
  BY <1>2 DEF Doing

\* ... and how often.
LEMMA Counts ==
    ASSUME TypeOK, NEW q \in Reqs, NEW r \in Places, Then(q, r), NEW ops
    PROVE  /\ Cardinality(Doing(ops)) \in Nat /\ Cardinality(Doing(ops)') \in Nat
           /\ (r.op \in ops <=> Op(q) \in ops) =>
                Cardinality(Doing(ops)') = Cardinality(Doing(ops))
           /\ r.op \notin ops /\ Op(q) \in ops =>
                Cardinality(Doing(ops)') = Cardinality(Doing(ops)) - 1
           /\ r.op \in ops /\ Op(q) \notin ops =>
                Cardinality(Doing(ops)') = Cardinality(Doing(ops)) + 1
<1>1. Doing(ops) \in SUBSET Reqs /\ (q \in Doing(ops) <=> Op(q) \in ops)
  BY DEF Doing
<1>2. IsFiniteSet(Doing(ops)) /\ Cardinality(Doing(ops)) \in Nat
  BY <1>1, ReqSets
<1>3. /\ Cardinality(Doing(ops) \cup {q}) = IF q \in Doing(ops) THEN Cardinality(Doing(ops))
                                            ELSE Cardinality(Doing(ops)) + 1
      /\ Cardinality(Doing(ops) \ {q}) = IF q \in Doing(ops) THEN Cardinality(Doing(ops)) - 1
                                         ELSE Cardinality(Doing(ops))
  BY <1>2, FS_AddElement, FS_RemoveElement
<1>4. Doing(ops)' = IF r.op \in ops THEN Doing(ops) \cup {q} ELSE Doing(ops) \ {q}
  BY Moves
<1>5. Cardinality(Doing(ops)') \in Nat
  BY <1>1, <1>4, ReqSets
<1> QED
  BY <1>1, <1>2, <1>3, <1>4, <1>5

LEMMA AddingIs ==
    /\ Adding = Doing({"comment", "insert", "notify"})
    /\ Adding' = Doing({"comment", "insert", "notify"})'
BY DEF Adding, Doing

----------------------------------------------------------------------------
(* Steps that only move a request                                           *)

\* What nothing but the four tables and the history touches.
LEMMA Frame ==
    ASSUME IInv, UNCHANGED <<cm, likes, user, lost>>
    PROVE  Numbered' /\ LostInv' /\ LikeCountsMatch' /\ Live' = Live /\ Rows' = Rows
BY DEF IInv, Numbered, LostInv, LikeCountsMatch, Live, Rows, LikesOf

\* A request may begin to add only while the post is live, and to insert only
\* after it has counted.
LEMMA RequestStep ==
    ASSUME IInv, NEW q \in Reqs, NEW r \in Places, Then(q, r),
           UNCHANGED <<Table, History>>,
           r.op = "like" => post = "live" /\ r.comment \in Live,
           r.op = "comment" => post = "live",
           r.op = "insert" => Op(q) = "comment" /\ Cardinality(Live) < MaxCount,
           r.op # "notify"
    PROVE  IInv'
<1>1. Numbered' /\ LostInv' /\ LikeCountsMatch' /\ Live' = Live
  BY Frame DEF Table, History
<1>2. req' \in [Reqs -> Places] /\ req'[q] = r /\ \A p \in Reqs \ {q} : req'[p] = req[p]
  BY ThenType DEF IInv
<1>3. TypeOK'
  BY <1>2 DEF IInv, TypeOK, Table, History, Places
<1>4. Named'
  BY <1>2 DEF IInv, Named, Op, Live, Table, Unborn
<1>5. Bounded'
  <2> DEFINE Ins == Cardinality(Inserting)
             Com == Cardinality(Commenting)
             Add == Cardinality(Adding)
  <2>1. /\ Ins \in Nat /\ Ins' \in Nat
        /\ r.op # "insert" => Ins' <= Ins
    BY Counts DEF IInv, Inserting
  <2>2. CASE post = "live"
    <3>1. Cardinality(Live) \in Nat
      BY CommentSets DEF Live
    <3>2. Ins' <= Cardinality(Reqs)
      BY ReqSets DEF Inserting, Doing
    <3>3. CASE r.op = "insert"
      BY <1>1, <2>1, <2>2, <3>1, <3>2, <3>3, Constants DEF Bounded, Table
    <3>4. CASE r.op # "insert"
      BY <1>1, <2>1, <2>2, <3>1, <3>4, Constants DEF IInv, Bounded, Table
    <3> QED
      BY <3>3, <3>4
  <2>3. CASE post # "live"
    <3>1. Com \in Nat /\ Com' \in Nat /\ Com' <= Com
      BY <2>3, Counts DEF IInv, Commenting
    <3>2. Add \in Nat /\ Add' \in Nat /\ Add' <= Add
      BY <2>3, Counts, AddingIs DEF IInv
    <3>3. \A p \in Reqs : Op(p)' = "like" => req'[p].comment \notin Live'
      BY <1>1, <1>2, <2>3 DEF IInv, Bounded, Op
    <3>4. notes \in Nat /\ escaped \in Nat /\ Cardinality(Live) \in Nat
      BY CommentSets, Constants DEF IInv, TypeOK, Live
    <3> QED
      BY <1>1, <2>3, <3>1, <3>2, <3>3, <3>4 DEF IInv, Bounded, Table, History
  <2> QED
    BY <2>2, <2>3
<1> QED
  BY <1>1, <1>3, <1>4, <1>5 DEF IInv

LEMMA RequestSteps ==
    ASSUME IInv, NEW q \in Reqs,
           \/ \E u \in Users, parent \in 0 .. MaxComments : CommentBegin(q, u, parent)
           \/ CommentCount(q) \/ CommentRefused(q) \/ NotifyFails(q)
           \/ \E c \in Comments : RemoveBegin(q, c)
           \/ RemoveRefused(q)
           \/ \E u \in Users : \/ PostLikeBegin(q, u)
                               \/ \E c \in Comments : LikeBegin(q, u, c)
           \/ LikeRefused(q) \/ PostLikeRefused(q)
           \/ DeleteBegin(q) \/ DeleteLikes(q) \/ DeleteFails(q)
    PROVE  IInv'
<1>1. CASE \E u \in Users, parent \in 0 .. MaxComments : CommentBegin(q, u, parent)
  <2>1. PICK u \in Users, parent \in 0 .. MaxComments : CommentBegin(q, u, parent)
    BY <1>1
  <2>2. [op |-> "comment", user |-> u, parent |-> parent] \in Places
    BY PlaceTypes
  <2> QED
    BY <2>1, <2>2, RequestStep DEF CommentBegin, Begin
<1>2. CASE CommentCount(q)
  <2>1. /\ req[q] = [op |-> "comment", user |-> req[q].user, parent |-> req[q].parent]
        /\ req[q].user \in Users /\ req[q].parent \in 0 .. MaxComments
    BY <1>2, SlotTypes DEF IInv, CommentCount
  <2>2. [req[q] EXCEPT !.op = "insert"]
          = [op |-> "insert", user |-> req[q].user, parent |-> req[q].parent]
    BY <2>1
  <2>3. [op |-> "insert", user |-> req[q].user, parent |-> req[q].parent] \in Places
    BY <2>1, PlaceTypes
  <2> QED
    BY <1>2, <2>2, <2>3, RequestStep DEF CommentCount
<1>3. CASE CommentRefused(q) \/ NotifyFails(q) \/ RemoveRefused(q) \/ LikeRefused(q)
           \/ PostLikeRefused(q) \/ DeleteFails(q)
  <2>1. Then(q, Idle) /\ UNCHANGED <<Table, History>>
    BY <1>3 DEF CommentRefused, NotifyFails, RemoveRefused, LikeRefused, PostLikeRefused,
                DeleteFails, End
  <2> QED
    BY <2>1, PlaceTypes, RequestStep
<1>4. CASE \E c \in Comments : RemoveBegin(q, c)
  <2>1. PICK c \in Comments : RemoveBegin(q, c)
    BY <1>4
  <2>2. [op |-> "remove", comment |-> c] \in Places
    BY PlaceTypes
  <2> QED
    BY <2>1, <2>2, RequestStep DEF RemoveBegin, Begin
<1>5. CASE \E u \in Users : PostLikeBegin(q, u)
  <2>1. PICK u \in Users : PostLikeBegin(q, u)
    BY <1>5
  <2>2. [op |-> "postLike", user |-> u] \in Places
    BY PlaceTypes
  <2> QED
    BY <2>1, <2>2, RequestStep DEF PostLikeBegin, Begin
<1>6. CASE \E u \in Users, c \in Comments : LikeBegin(q, u, c)
  <2>1. PICK u \in Users, c \in Comments : LikeBegin(q, u, c)
    BY <1>6
  <2>2. [op |-> "like", user |-> u, comment |-> c] \in Places
    BY PlaceTypes
  <2> QED
    BY <2>1, <2>2, RequestStep DEF LikeBegin, Begin
<1>7. CASE DeleteBegin(q)
  <2>1. [op |-> "delete"] \in Places
    BY PlaceTypes
  <2> QED
    BY <1>7, <2>1, RequestStep DEF DeleteBegin, Begin
<1>8. CASE DeleteLikes(q)
  <2>1. likes \subseteq Comments \X Users /\ plikes \subseteq Users
    BY DEF IInv, TypeOK
  <2>2. [op |-> "deleting", likes |-> likes, postLikes |-> plikes] \in Places
    BY <2>1, PlaceTypes
  <2> QED
    BY <1>8, <2>2, RequestStep DEF DeleteLikes
<1> QED
  BY <1>1, <1>2, <1>3, <1>4, <1>5, <1>6, <1>7, <1>8

----------------------------------------------------------------------------
(* The bound, when nothing is added                                         *)

\* A step after which less is there or on its way keeps the bound.
LEMMA BoundKept ==
    ASSUME IInv, TypeOK', (post = "live") = (post' = "live"), escaped' = escaped,
           Live' \subseteq Live, notes' <= notes,
           \A q \in Reqs : Op(q)' \in {"comment", "insert", "notify"} => Op(q)' = Op(q),
           \A q \in Reqs : Op(q)' = "like" => req'[q] = req[q]
    PROVE  Bounded'
<1> DEFINE Three == {"comment", "insert", "notify"}
<1>1. /\ Doing({"insert"})' \subseteq Doing({"insert"})
      /\ Doing({"comment", "insert"})' \subseteq Doing({"comment", "insert"})
      /\ Doing(Three)' \subseteq Doing(Three)
  BY DEF Doing
<1>2. Doing({"insert"}) \subseteq Reqs /\ Doing({"comment", "insert"}) \subseteq Reqs
      /\ Doing(Three) \subseteq Reqs
  BY DEF Doing
<1>3. /\ Cardinality(Inserting) \in Nat /\ Cardinality(Inserting') \in Nat
      /\ Cardinality(Inserting') <= Cardinality(Inserting)
  BY <1>1, <1>2, ReqSets, FS_Subset DEF Inserting
<1>4. /\ Cardinality(Commenting) \in Nat /\ Cardinality(Commenting') \in Nat
      /\ Cardinality(Commenting') <= Cardinality(Commenting)
  BY <1>1, <1>2, ReqSets, FS_Subset DEF Commenting
<1>5. /\ Cardinality(Adding) \in Nat /\ Cardinality(Adding') \in Nat
      /\ Cardinality(Adding') <= Cardinality(Adding)
  BY <1>1, <1>2, ReqSets, FS_Subset, AddingIs
<1>6. /\ Cardinality(Live) \in Nat /\ Cardinality(Live') \in Nat
      /\ Cardinality(Live') <= Cardinality(Live)
  <2>1. Live \subseteq Comments
    BY DEF Live
  <2> QED
    BY <2>1, CommentSets, FS_Subset
<1>7. notes \in Nat /\ notes' \in Nat /\ escaped \in Nat
  BY Constants DEF IInv, TypeOK
<1>8. CASE post = "live"
  BY <1>3, <1>6, <1>8, Constants DEF IInv, Bounded
<1>9. CASE post # "live"
  <2>1. \A q \in Reqs : Op(q)' = "like" => req'[q].comment \notin Live'
    BY <1>9 DEF IInv, Bounded, Op
  <2> QED
    BY <1>4, <1>5, <1>6, <1>7, <1>9, <2>1 DEF IInv, Bounded
<1> QED
  BY <1>8, <1>9

\* While the post is live only the inserts count.
LEMMA BoundLive ==
    ASSUME IInv, post = "live", post' = "live", Live' \subseteq Live,
           \A q \in Reqs : Op(q)' = "insert" => Op(q) = "insert"
    PROVE  Bounded'
<1>1. Inserting' \subseteq Inserting /\ Inserting \subseteq Reqs /\ Live \subseteq Comments
  BY DEF Inserting, Doing, Live
<1>2. /\ Cardinality(Inserting) \in Nat /\ Cardinality(Inserting') \in Nat
      /\ Cardinality(Inserting') <= Cardinality(Inserting)
  BY <1>1, ReqSets, FS_Subset
<1>3. /\ Cardinality(Live) \in Nat /\ Cardinality(Live') \in Nat
      /\ Cardinality(Live') <= Cardinality(Live)
  BY <1>1, CommentSets, FS_Subset
<1> QED
  BY <1>2, <1>3, Constants DEF IInv, Bounded

\* A deletion that commits leaves what was in flight.
LEMMA BoundDeleted ==
    ASSUME IInv, post' # "live", Live' = {}, notes' = 0, Overtakes,
           \A q \in Reqs : Op(q)' \in {"comment", "insert", "notify"} => Op(q)' = Op(q)
    PROVE  Bounded'
<1>1. /\ Commenting' \subseteq Commenting /\ Commenting \subseteq Adding
      /\ Adding' \subseteq Adding /\ Adding \subseteq Reqs
  BY DEF Commenting, Doing, Adding
<1>2. /\ Cardinality(Commenting') \in Nat /\ Cardinality(Commenting) \in Nat
      /\ Cardinality(Adding') \in Nat /\ Cardinality(Adding) \in Nat
      /\ Cardinality(Commenting') <= Cardinality(Commenting)
      /\ Cardinality(Commenting) <= Cardinality(Adding)
      /\ Cardinality(Adding') <= Cardinality(Adding)
  <2>1. IsFiniteSet(Commenting) /\ IsFiniteSet(Adding)
    BY <1>1, ReqSets
  <2>2. /\ Cardinality(Commenting') \in Nat /\ Cardinality(Commenting) \in Nat
        /\ Cardinality(Adding') \in Nat /\ Cardinality(Adding) \in Nat
    BY <1>1, ReqSets
  <2> QED
    BY <1>1, <2>1, <2>2, FS_Subset
<1>3. Cardinality(Live') = 0
  BY FS_EmptySet
<1>4. Cardinality(Adding) <= escaped'
  <2>1. CASE post = "live"
    BY <1>2, <2>1 DEF Overtakes
  <2>2. CASE post # "live"
    BY <1>2, <2>2, Constants DEF IInv, TypeOK, Bounded, Overtakes
  <2> QED
    BY <2>1, <2>2
<1>5. escaped' \in Nat
  BY <1>2 DEF IInv, TypeOK, Overtakes
<1> QED
  BY <1>2, <1>3, <1>4, <1>5 DEF Bounded

----------------------------------------------------------------------------
(* Steps that change the tables                                             *)

\* A request that ends or notifies, seen by Bounded and Named.
LEMMA EndType ==
    ASSUME TypeOK, NEW q \in Reqs, NEW r \in Places, Then(q, r)
    PROVE  /\ \A p \in Reqs : Op(p)' = IF p = q THEN r.op ELSE Op(p)
           /\ \A p \in Reqs \ {q} : req'[p] = req[p]
           /\ req' \in [Reqs -> Places]
BY ThenType DEF Op

LEMMA NotifyStep ==
    ASSUME IInv, NEW q \in Reqs, Notify(q)
    PROVE  IInv'
<1>1. Then(q, Idle) /\ Idle \in Places /\ Idle.op = "idle"
  BY PlaceTypes DEF Notify, End
<1>2. Numbered' /\ LostInv' /\ LikeCountsMatch' /\ Live' = Live
  BY Frame DEF Notify, History
<1>3. /\ \A p \in Reqs : Op(p)' = IF p = q THEN "idle" ELSE Op(p)
      /\ \A p \in Reqs \ {q} : req'[p] = req[p]
      /\ req' \in [Reqs -> Places]
  BY <1>1, EndType DEF IInv
<1>4. TypeOK'
  BY <1>3, Constants DEF IInv, TypeOK, Notify, Places, History
<1>5. Named'
  BY <1>3 DEF IInv, Named, Notify
<1>6. Bounded'
  <2>1. CASE post = "live"
    BY <1>2, <1>3, <2>1, BoundLive DEF Notify
  <2>2. CASE post # "live"
    <3>1. Cardinality(Adding') = Cardinality(Adding) - 1 /\ Cardinality(Adding) \in Nat
      BY <1>1, AddingIs, Counts DEF IInv, Notify
    <3>2. Cardinality(Commenting') = Cardinality(Commenting)
      BY <1>1, Counts DEF IInv, Notify, Commenting
    <3>3. notes \in Nat /\ notes' = notes + 1
      BY Constants DEF IInv, TypeOK, Notify
    <3>4. \A p \in Reqs : Op(p)' = "like" => req'[p].comment \notin Live'
      BY <1>2, <1>3, <2>2 DEF IInv, Bounded
    <3>5. escaped \in Nat /\ escaped' = escaped /\ post' = post
      BY DEF IInv, TypeOK, Notify, History
    <3> QED
      BY <1>2, <2>2, <3>1, <3>2, <3>3, <3>4, <3>5 DEF IInv, Bounded
  <2> QED
    BY <2>1, <2>2
<1> QED
  BY <1>2, <1>4, <1>5, <1>6 DEF IInv

LEMMA ClearNotesStep ==
    ASSUME IInv, ClearNotes
    PROVE  IInv'
<1>1. Numbered' /\ LostInv' /\ LikeCountsMatch' /\ Live' = Live
  BY Frame DEF ClearNotes, History
<1>2. TypeOK' /\ notes \in Nat /\ notes' = 0
  BY Constants DEF IInv, TypeOK, ClearNotes, History
<1>3. Named' /\ \A q \in Reqs : Op(q)' = Op(q) /\ req'[q] = req[q]
  BY DEF IInv, Named, ClearNotes, Op
<1>4. Bounded'
  BY <1>1, <1>2, <1>3, BoundKept DEF ClearNotes, History
<1> QED
  BY <1>1, <1>2, <1>3, <1>4 DEF IInv

LEMMA RowTypes ==
    /\ Unborn \notin Row /\ Gone \notin Row /\ Unborn # Gone
    /\ Unborn.st = "unborn" /\ Gone.st = "gone"
    /\ \A x \in Row : x.st \in {"live", "deleted"} /\ x.likeCount \in Nat
                      /\ x.depth \in 0 .. MaxDepth - 1 /\ x # Unborn /\ x # Gone
                      /\ x = [st |-> x.st, depth |-> x.depth, likeCount |-> x.likeCount]
    /\ \A s \in {"live", "deleted"}, d \in 0 .. MaxDepth - 1, n \in Nat :
         [st |-> s, depth |-> d, likeCount |-> n] \in Row
BY DEF Unborn, Gone, Row

LEMMA LiveTypes ==
    ASSUME TypeOK
    PROVE  /\ \A c \in Comments : cm[c] \in Row <=> cm[c].st \in {"live", "deleted"}
           /\ Live \subseteq Comments /\ \A c \in Live : cm[c] \in Row
BY RowTypes DEF TypeOK, Live

LEMMA CommentInsertStep ==
    ASSUME IInv, NEW q \in Reqs, CommentInsert(q)
    PROVE  IInv'
<1> DEFINE parent == req[q].parent
           born == {c \in Comments : cm[c] # Unborn}
           id == Cardinality(born) + 1
           row == [st |-> "live", likeCount |-> 0,
                   depth |-> IF parent = 0 THEN 0 ELSE cm[parent].depth + 1]
<1>1. /\ Op(q) = "insert" /\ MayReply(parent) /\ id \in Comments
      /\ cm' = [cm EXCEPT ![id] = row] /\ Then(q, [op |-> "notify"])
      /\ UNCHANGED <<post, likes, plikes, notes, user, escaped, lost>>
  BY DEF CommentInsert, History
<1>2. [op |-> "notify"] \in Places /\ [op |-> "notify"].op = "notify"
  BY PlaceTypes
<1>3. /\ \A p \in Reqs : Op(p)' = IF p = q THEN "notify" ELSE Op(p)
      /\ \A p \in Reqs \ {q} : req'[p] = req[p]
      /\ req' \in [Reqs -> Places]
  BY <1>1, <1>2, EndType DEF IInv
<1>4. PICK k \in 0 .. MaxComments : born = 1 .. k
  BY DEF IInv, Numbered
<1> DEFINE n == k + 1
<1>5. k \in Nat /\ n \in Nat /\ n # 0 /\ id = n
  <2>1. k \in Nat
    BY Constants
  <2>2. Cardinality(1 .. k) = IF 1 > k THEN 0 ELSE k - 1 + 1
    BY <2>1, FS_Interval
  <2>3. Cardinality(1 .. k) = k
    BY <2>1, <2>2
  <2>4. Cardinality(born) = k
    BY <1>4, <2>3, Zenon
  <2> QED
    BY <2>1, <2>4
<1> HIDE DEF id
<1>6. n \in Comments /\ cm' = [cm EXCEPT ![n] = row] /\ cm[n] = Unborn
  <2>1. n \in Comments /\ cm' = [cm EXCEPT ![n] = row]
    BY <1>1, <1>5
  <2>2. n \notin 1 .. k
    BY <1>5
  <2>3. n \notin born
    BY <1>4, <2>2
  <2> QED
    BY <2>1, <2>3
<1>7. row \in Row
  <2>1. row = [st |-> "live", depth |-> IF parent = 0 THEN 0 ELSE cm[parent].depth + 1,
               likeCount |-> 0]
    OBVIOUS
  <2>2. CASE parent = 0
    BY <2>1, <2>2, RowTypes, Constants
  <2>3. CASE parent # 0
    <3>1. parent \in Live /\ cm[parent].depth < MaxDepth - 1
      BY <1>1, <2>3 DEF MayReply
    <3>2. cm[parent].depth \in 0 .. MaxDepth - 1
      BY <3>1, LiveTypes, RowTypes DEF IInv
    <3>3. cm[parent].depth + 1 \in 0 .. MaxDepth - 1
      BY <3>1, <3>2, Constants
    <3> QED
      BY <2>1, <2>3, <3>3, RowTypes
  <2> QED
    BY <2>2, <2>3
<1>8. /\ cm'[n] = row /\ \A c \in Comments \ {n} : cm'[c] = cm[c]
      /\ cm' \in [Comments -> Row \cup {Unborn, Gone}]
  BY <1>6, <1>7 DEF IInv, TypeOK
<1>9. TypeOK'
  <2>1. \A c \in Comments : cm[c] \in Row => cm'[c] \in Row
    BY <1>7, <1>8
  <2>2. likes' \subseteq {c \in Comments : cm'[c] \in Row} \X Users
    BY <1>1, <2>1 DEF IInv, TypeOK
  <2> QED
    BY <1>1, <1>3, <1>8, <2>2 DEF IInv, TypeOK, Places
<1>10. Numbered'
  <2>1. {c \in Comments : cm'[c] # Unborn} = 1 .. (k + 1)
    BY <1>4, <1>5, <1>6, <1>7, <1>8, RowTypes DEF Comments
  <2>2. k + 1 \in 0 .. MaxComments
    BY <1>5, <1>6 DEF Comments
  <2> QED
    BY <2>1, <2>2 DEF Numbered
<1>11. Named'
  <2>1. SUFFICES ASSUME NEW p \in Reqs, Op(p)' = "like"
                 PROVE  cm'[req'[p].comment] # Unborn
    BY DEF Named
  <2>2. p # q /\ Op(p) = "like" /\ req'[p] = req[p]
    BY <1>3, <2>1
  <2>3. req[p].comment \in Comments /\ cm[req[p].comment] # Unborn
    BY <2>2, SlotTypes DEF IInv, Named
  <2> QED
    BY <1>6, <1>8, <2>2, <2>3
<1>12. LostInv'
  BY <1>1, <1>7, <1>8, RowTypes DEF IInv, LostInv, TypeOK
<1>13. Live' = Live \cup {n} /\ n \notin Live /\ row.likeCount = 0
  BY <1>1, <1>6, <1>7, <1>8, RowTypes DEF Live
<1>14. LikeCountsMatch'
  <2>1. LikesOf(n)' = {} /\ {l \in lost' : l[1] = n} = {}
    BY <1>1, <1>6, RowTypes DEF IInv, TypeOK, LostInv, LikesOf
  <2>2. Cardinality({}) = 0
    BY FS_EmptySet
  <2>3. ASSUME NEW c \in Live
        PROVE  /\ cm'[c].likeCount = cm[c].likeCount
               /\ LikesOf(c)' = LikesOf(c)
    BY <1>1, <1>8, <1>13, LiveTypes DEF IInv, LikesOf
  <2>4. SUFFICES ASSUME NEW c \in Live'
                 PROVE  cm'[c].likeCount = Cardinality(LikesOf(c)')
                                             + Cardinality({l \in lost' : l[1] = c})
    BY DEF LikeCountsMatch, LikesOf
  <2>5. CASE c = n
    <3>1. LikesOf(c)' = {} /\ {l \in lost' : l[1] = c} = {}
      BY <2>1, <2>5 DEF LikesOf
    <3>2. cm'[c].likeCount = 0
      BY <1>8, <1>13, <2>5
    <3>3. Cardinality(LikesOf(c)') = 0 /\ Cardinality({l \in lost' : l[1] = c}) = 0
      BY <2>2, <3>1
    <3> QED
      BY <3>2, <3>3
  <2>6. CASE c # n
    BY <1>1, <1>13, <2>3, <2>6 DEF IInv, LikeCountsMatch
  <2> QED
    BY <2>5, <2>6
<1>15. Bounded'
  <2>1. IsFiniteSet(Live) /\ Cardinality(Live) \in Nat
    BY LiveTypes, CommentSets DEF IInv
  <2>2. Cardinality(Live') = Cardinality(Live) + 1
    BY <1>13, <2>1, FS_AddElement
  <2>3. Cardinality(Inserting') = Cardinality(Inserting) - 1
        /\ Cardinality(Inserting) \in Nat
    BY <1>1, <1>2, Counts DEF IInv, Inserting
  <2>4. Cardinality(Commenting') = Cardinality(Commenting) - 1
        /\ Cardinality(Commenting) \in Nat
    BY <1>1, <1>2, Counts DEF IInv, Commenting
  <2>5. Cardinality(Adding') = Cardinality(Adding)
    BY <1>1, <1>2, Counts, AddingIs DEF IInv
  <2>6. CASE post = "live"
    BY <1>1, <2>1, <2>2, <2>3, <2>6, Constants DEF IInv, Bounded
  <2>7. CASE post # "live"
    <3>1. \A p \in Reqs : Op(p)' = "like" => req'[p].comment \notin Live'
      BY <1>3, <1>6, <1>13, <2>7 DEF IInv, Bounded, Named
    <3>2. escaped \in Nat
      BY DEF IInv, TypeOK
    <3> QED
      BY <1>1, <2>1, <2>2, <2>4, <2>5, <2>7, <3>1, <3>2 DEF IInv, Bounded
  <2> QED
    BY <2>6, <2>7
<1> QED
  BY <1>9, <1>10, <1>11, <1>12, <1>14, <1>15 DEF IInv

\* What one like more or less does to the comments: the rows stay rows.
LEMMA RowChange ==
    ASSUME IInv, NEW c \in Live, NEW n \in Nat, cm' = [cm EXCEPT ![c].likeCount = n]
    PROVE  /\ cm' \in [Comments -> Row \cup {Unborn, Gone}]
           /\ cm'[c] \in Row /\ cm'[c].likeCount = n
           /\ \A d \in Comments \ {c} : cm'[d] = cm[d]
           /\ \A d \in Comments : cm[d] \in Row => cm'[d] \in Row
           /\ \A d \in Comments : cm'[d] = Unborn <=> cm[d] = Unborn
           /\ Live' = Live
<1>1. c \in Comments /\ cm[c] \in Row /\ cm[c].st = "live"
  BY LiveTypes DEF IInv, Live
<1>2. cm'[c] = [cm[c] EXCEPT !.likeCount = n] /\ \A d \in Comments \ {c} : cm'[d] = cm[d]
  BY <1>1 DEF IInv, TypeOK
<1>3. cm'[c] \in Row /\ cm'[c].likeCount = n /\ cm'[c].st = "live"
  BY <1>1, <1>2 DEF Row
<1>4. cm' \in [Comments -> Row \cup {Unborn, Gone}]
  BY <1>1, <1>2, <1>3 DEF IInv, TypeOK
<1> QED
  BY <1>1, <1>2, <1>3, <1>4, RowTypes DEF Live

LEMMA LikeToggleStep ==
    ASSUME IInv, NEW q \in Reqs, LikeToggle(q)
    PROVE  IInv'
<1>1. /\ Op(q) = "like" /\ req[q].comment \in Live
      /\ UNCHANGED <<post, plikes, notes, user, escaped, lost>>
  BY DEF LikeToggle, History
<1>2. req[q].comment \in Comments /\ req[q].user \in Users
  BY <1>1, SlotTypes DEF IInv
<1>3. PICK c \in Live, u \in Users : c = req[q].comment /\ u = req[q].user
  BY <1>1, <1>2
<1> DEFINE l == <<c, u>>
<1>4. post = "live" /\ post' = "live"
  BY <1>1 DEF IInv, Bounded
<1>5. PICK r \in {Idle, [op |-> "notify"]}, n \in Nat :
        /\ Then(q, r) /\ cm' = [cm EXCEPT ![c].likeCount = n]
        /\ \/ l \in likes /\ likes' = likes \ {l} /\ n = cm[c].likeCount - 1
           \/ /\ l \notin likes /\ user[u] # "destroyed"
              /\ likes' = likes \cup {l} /\ n = cm[c].likeCount + 1
  <2>1. cm[c].likeCount \in Nat
    BY LiveTypes, RowTypes DEF IInv
  <2>2. CASE l \in likes /\ likes' = likes \ {l} /\ End(q)
             /\ cm' = [cm EXCEPT ![c].likeCount = @ - 1]
    <3>1. LikesOf(c) \subseteq Comments \X Users /\ l \in LikesOf(c)
      BY <2>2 DEF IInv, TypeOK, LikesOf
    <3>2. Cardinality(LikesOf(c)) \in Nat /\ Cardinality(LikesOf(c)) # 0
      BY <3>1, LikeSets, FS_EmptySet
    <3>3. Cardinality({k \in lost : k[1] = c}) \in Nat
      BY LikeSets DEF IInv, TypeOK
    <3>4. cm[c].likeCount # 0
      BY <3>2, <3>3 DEF IInv, LikeCountsMatch
    <3>5. cm[c].likeCount - 1 \in Nat
      BY <2>1, <3>4
    <3> QED
      BY <2>2, <3>5 DEF End
  <2>3. CASE /\ l \notin likes /\ user[u] # "destroyed"
             /\ likes' = likes \cup {l} /\ Then(q, [op |-> "notify"])
             /\ cm' = [cm EXCEPT ![c].likeCount = @ + 1]
    <3>1. cm[c].likeCount + 1 \in Nat
      BY <2>1
    <3> QED
      BY <2>3, <3>1
  <2> QED
    BY <1>3, <2>2, <2>3 DEF LikeToggle
<1>6. r \in Places /\ r.op \in {"idle", "notify"}
  BY PlaceTypes
<1>7. /\ \A p \in Reqs : Op(p)' = IF p = q THEN r.op ELSE Op(p)
      /\ \A p \in Reqs \ {q} : req'[p] = req[p]
      /\ req' \in [Reqs -> Places]
  BY <1>5, <1>6, EndType DEF IInv
<1>8. /\ cm' \in [Comments -> Row \cup {Unborn, Gone}]
      /\ cm'[c] \in Row /\ cm'[c].likeCount = n
      /\ \A d \in Comments \ {c} : cm'[d] = cm[d]
      /\ \A d \in Comments : cm[d] \in Row => cm'[d] \in Row
      /\ \A d \in Comments : cm'[d] = Unborn <=> cm[d] = Unborn
      /\ Live' = Live
  BY <1>5, RowChange
<1>9. c \in Comments /\ l \in Comments \X Users
  BY DEF Live
<1>10. TypeOK'
  <2>1. likes' \subseteq {d \in Comments : cm'[d] \in Row} \X Users
    BY <1>5, <1>8, <1>9 DEF IInv, TypeOK
  <2> QED
    BY <1>1, <1>7, <1>8, <2>1 DEF IInv, TypeOK, Places
<1>11. Numbered'
  <2>1. {d \in Comments : cm'[d] # Unborn} = {d \in Comments : cm[d] # Unborn}
    BY <1>8
  <2> QED
    BY <2>1 DEF IInv, Numbered
<1>12. Named'
  <2>1. SUFFICES ASSUME NEW p \in Reqs, Op(p)' = "like"
                 PROVE  cm'[req'[p].comment] # Unborn
    BY DEF Named
  <2>2. Op(p) = "like" /\ req'[p] = req[p]
    BY <1>6, <1>7, <2>1
  <2> QED
    BY <1>8, <2>2, SlotTypes DEF IInv, Named
<1>13. LostInv'
  <2>1. \A k \in lost : k[1] \in Comments
    BY DEF IInv, TypeOK
  <2>2. \A k \in likes' : user[k[2]] # "destroyed"
    BY <1>5 DEF IInv, LostInv
  <2> QED
    BY <1>1, <1>8, <2>1, <2>2 DEF IInv, LostInv
<1>14. LikeCountsMatch'
  <2>1. SUFFICES ASSUME NEW d \in Live
                 PROVE  cm'[d].likeCount = Cardinality(LikesOf(d)')
                                             + Cardinality({k \in lost : k[1] = d})
    BY <1>1, <1>8 DEF LikeCountsMatch, LikesOf
  <2>2. /\ IsFiniteSet(LikesOf(d)) /\ Cardinality(LikesOf(d)) \in Nat
        /\ Cardinality({k \in lost : k[1] = d}) \in Nat
    <3>1. LikesOf(d) \subseteq Comments \X Users
      BY DEF IInv, TypeOK, LikesOf
    <3>2. {k \in lost : k[1] = d} \subseteq Comments \X Users
      BY DEF IInv, TypeOK
    <3> QED
      BY <3>1, <3>2, LikeSets
  <2>3. cm[d].likeCount = Cardinality(LikesOf(d)) + Cardinality({k \in lost : k[1] = d})
    BY DEF IInv, LikeCountsMatch
  <2>4. CASE d # c
    <3>1. LikesOf(d)' = LikesOf(d)
      BY <1>5, <2>4 DEF LikesOf
    <3> QED
      BY <1>8, <2>3, <2>4, <3>1 DEF Live
  <2>5. CASE d = c /\ l \in likes
    <3>1. LikesOf(d)' = LikesOf(d) \ {l} /\ l \in LikesOf(d)
      BY <1>5, <2>5 DEF LikesOf
    <3>2. Cardinality(LikesOf(d) \ {l}) = Cardinality(LikesOf(d)) - 1
      BY <2>2, <3>1, FS_RemoveElement
    <3> QED
      BY <1>5, <1>8, <2>2, <2>3, <2>5, <3>1, <3>2
  <2>6. CASE d = c /\ l \notin likes
    <3>1. LikesOf(d)' = LikesOf(d) \cup {l} /\ l \notin LikesOf(d)
      BY <1>5, <2>6 DEF LikesOf
    <3>2. Cardinality(LikesOf(d) \cup {l}) = Cardinality(LikesOf(d)) + 1
      BY <2>2, <3>1, FS_AddElement
    <3> QED
      BY <1>5, <1>8, <2>2, <2>3, <2>6, <3>1, <3>2
  <2> QED
    BY <2>4, <2>5, <2>6
<1>15. Bounded'
  <2>1. \A p \in Reqs : Op(p)' = "insert" => Op(p) = "insert"
    BY <1>6, <1>7
  <2> QED
    BY <1>4, <1>8, <2>1, BoundLive
<1> QED
  BY <1>10, <1>11, <1>12, <1>13, <1>14, <1>15 DEF IInv

LEMMA PostLikeToggleStep ==
    ASSUME IInv, NEW q \in Reqs, PostLikeToggle(q)
    PROVE  IInv'
<1>1. Numbered' /\ LostInv' /\ LikeCountsMatch' /\ Live' = Live
  BY Frame DEF PostLikeToggle, History
<1>2. /\ post = "live" /\ Op(q) = "postLike"
      /\ UNCHANGED <<post, cm, likes, notes, user, escaped, lost>>
  BY DEF PostLikeToggle, History
<1>3. PICK r \in {Idle, [op |-> "notify"]} : Then(q, r)
  BY DEF PostLikeToggle, End
<1>4. r \in Places /\ r.op \in {"idle", "notify"}
  BY PlaceTypes
<1>5. /\ \A p \in Reqs : Op(p)' = IF p = q THEN r.op ELSE Op(p)
      /\ \A p \in Reqs \ {q} : req'[p] = req[p]
      /\ req' \in [Reqs -> Places]
  BY <1>3, <1>4, EndType DEF IInv
<1>6. TypeOK'
  <2>1. req[q].user \in Users
    BY <1>2, SlotTypes DEF IInv
  <2>2. plikes' \subseteq Users
    BY <2>1 DEF IInv, TypeOK, PostLikeToggle
  <2> QED
    BY <1>2, <1>5, <2>2 DEF IInv, TypeOK, Places
<1>7. Named'
  BY <1>2, <1>4, <1>5 DEF IInv, Named
<1>8. Bounded'
  <2>1. \A p \in Reqs : Op(p)' = "insert" => Op(p) = "insert"
    BY <1>4, <1>5
  <2> QED
    BY <1>1, <1>2, <2>1, BoundLive
<1> QED
  BY <1>1, <1>6, <1>7, <1>8 DEF IInv

LEMMA RemoveCommitStep ==
    ASSUME IInv, NEW q \in Reqs, RemoveCommit(q)
    PROVE  IInv'
<1>1. /\ Op(q) = "remove" /\ req[q].comment \in Live
      /\ likes' = likes \ LikesOf(req[q].comment)
      /\ cm' = [cm EXCEPT ![req[q].comment].st = "deleted"]
      /\ Then(q, Idle)
      /\ UNCHANGED <<post, plikes, notes, user, escaped, lost>>
  BY DEF RemoveCommit, History, End
<1>2. PICK c \in Live : c = req[q].comment
  BY <1>1
<1>3. c \in Comments /\ cm[c] \in Row
  BY LiveTypes DEF IInv
<1>4. /\ \A p \in Reqs : Op(p)' = IF p = q THEN "idle" ELSE Op(p)
      /\ \A p \in Reqs \ {q} : req'[p] = req[p]
      /\ req' \in [Reqs -> Places]
  BY <1>1, EndType, PlaceTypes DEF IInv
<1>5. /\ cm' \in [Comments -> Row \cup {Unborn, Gone}]
      /\ cm'[c] \in Row /\ cm'[c].st = "deleted"
      /\ \A d \in Comments \ {c} : cm'[d] = cm[d]
  <2>1. cm'[c] = [cm[c] EXCEPT !.st = "deleted"] /\ \A d \in Comments \ {c} : cm'[d] = cm[d]
    BY <1>1, <1>2, <1>3 DEF IInv, TypeOK
  <2>2. cm'[c] \in Row /\ cm'[c].st = "deleted"
    BY <1>3, <2>1 DEF Row
  <2> QED
    BY <1>1, <1>2, <1>3, <2>1, <2>2 DEF IInv, TypeOK
<1>6. Live' = Live \ {c}
  BY <1>5 DEF Live
<1>7. \A d \in Comments : cm'[d] = Unborn <=> cm[d] = Unborn
  BY <1>3, <1>5, RowTypes
<1>8. TypeOK'
  <2>1. likes' \subseteq {d \in Comments : cm'[d] \in Row} \X Users
    BY <1>1, <1>5 DEF IInv, TypeOK
  <2> QED
    BY <1>1, <1>4, <1>5, <2>1 DEF IInv, TypeOK, Places
<1>9. Numbered'
  <2>1. {d \in Comments : cm'[d] # Unborn} = {d \in Comments : cm[d] # Unborn}
    BY <1>7
  <2> QED
    BY <2>1 DEF IInv, Numbered
<1>10. Named'
  <2>1. SUFFICES ASSUME NEW p \in Reqs, Op(p)' = "like"
                 PROVE  cm'[req'[p].comment] # Unborn
    BY DEF Named
  <2>2. Op(p) = "like" /\ req'[p] = req[p]
    BY <1>4, <2>1
  <2> QED
    BY <1>7, <2>2, SlotTypes DEF IInv, Named
<1>11. LostInv'
  <2>1. \A k \in lost : k[1] \in Comments
    BY DEF IInv, TypeOK
  <2> QED
    BY <1>1, <1>7, <2>1 DEF IInv, LostInv
<1>12. LikeCountsMatch'
  <2>1. ASSUME NEW d \in Live \ {c}
        PROVE  LikesOf(d)' = LikesOf(d) /\ cm'[d] = cm[d]
    BY <1>1, <1>2, <1>5 DEF LikesOf, Live
  <2> QED
    BY <1>1, <1>6, <2>1 DEF IInv, LikeCountsMatch, LikesOf
<1>13. Bounded'
  <2>1. notes' <= notes
    BY <1>1, Constants DEF IInv, TypeOK
  <2> QED
    BY <1>1, <1>4, <1>6, <1>8, <2>1, BoundKept DEF Op
<1> QED
  BY <1>8, <1>9, <1>10, <1>11, <1>12, <1>13 DEF IInv

LEMMA DeleteCommitStep ==
    ASSUME IInv, NEW q \in Reqs, DeleteCommit(q)
    PROVE  IInv'
<1>1. /\ Op(q) = "deleting"
      /\ likes' = likes \ req[q].likes /\ plikes' = plikes \ req[q].postLikes
      /\ cm' = [c \in Comments |-> IF c \in Live THEN [cm[c] EXCEPT !.st = "deleted"]
                                   ELSE cm[c]]
      /\ notes' = 0 /\ post' = (IF post = "live" THEN "trash" ELSE post)
      /\ Overtakes /\ Then(q, Idle) /\ UNCHANGED <<user, lost>>
  BY DEF DeleteCommit, End
<1>2. /\ \A p \in Reqs : Op(p)' = IF p = q THEN "idle" ELSE Op(p)
      /\ \A p \in Reqs \ {q} : req'[p] = req[p]
      /\ req' \in [Reqs -> Places]
  BY <1>1, EndType, PlaceTypes DEF IInv
<1>3. /\ \A c \in Live : cm'[c] \in Row /\ cm'[c].st = "deleted"
      /\ \A c \in Comments \ Live : cm'[c] = cm[c]
  <2>1. \A c \in Live : c \in Comments /\ cm[c] \in Row
    BY LiveTypes DEF IInv
  <2>2. \A c \in Live : cm'[c] = [cm[c] EXCEPT !.st = "deleted"]
    BY <1>1, <2>1
  <2> QED
    BY <1>1, <2>1, <2>2 DEF Row
<1>4. cm' \in [Comments -> Row \cup {Unborn, Gone}]
  <2>1. \A c \in Comments : cm'[c] \in Row \cup {Unborn, Gone}
    BY <1>3 DEF IInv, TypeOK
  <2>2. cm' = [c \in Comments |-> cm'[c]]
    BY <1>1
  <2> QED
    BY <2>1, <2>2
<1>5. Live' = {}
  BY <1>3 DEF Live
<1>6. /\ \A c \in Comments : cm[c] \in Row => cm'[c] \in Row
      /\ \A c \in Comments : cm'[c] = Unborn <=> cm[c] = Unborn
  BY <1>3, LiveTypes, RowTypes DEF IInv
<1>7. escaped' \in Nat
  <2>1. Adding \in SUBSET Reqs
    BY DEF Adding
  <2> QED
    BY <1>1, <2>1, ReqSets DEF IInv, TypeOK, Overtakes
<1>8. TypeOK'
  <2>1. likes' \subseteq {d \in Comments : cm'[d] \in Row} \X Users
    BY <1>1, <1>6 DEF IInv, TypeOK
  <2>2. 0 \in 0 .. MaxNotes
    BY Constants
  <2> QED
    BY <1>1, <1>2, <1>4, <1>7, <2>1, <2>2 DEF IInv, TypeOK, Places
<1>9. Numbered'
  <2>1. {d \in Comments : cm'[d] # Unborn} = {d \in Comments : cm[d] # Unborn}
    BY <1>6
  <2> QED
    BY <2>1 DEF IInv, Numbered
<1>10. Named'
  <2>1. SUFFICES ASSUME NEW p \in Reqs, Op(p)' = "like"
                 PROVE  cm'[req'[p].comment] # Unborn
    BY DEF Named
  <2>2. Op(p) = "like" /\ req'[p] = req[p]
    BY <1>2, <2>1
  <2> QED
    BY <1>6, <2>2, SlotTypes DEF IInv, Named
<1>11. LostInv'
  <2>1. \A k \in lost : k[1] \in Comments
    BY DEF IInv, TypeOK
  <2> QED
    BY <1>1, <1>6, <2>1 DEF IInv, LostInv
<1>12. LikeCountsMatch'
  BY <1>5 DEF LikeCountsMatch
<1>13. Bounded'
  BY <1>1, <1>2, <1>5, BoundDeleted
<1> QED
  BY <1>8, <1>9, <1>10, <1>11, <1>12, <1>13 DEF IInv

\* purgeExpiredPosts and deleteBoard.
LEMMA NoRowsLeftStep ==
    ASSUME IInv, NoRowsLeft, UNCHANGED <<user, req, lost>>,
           \/ notes' = notes /\ post # "live" /\ escaped' = escaped
           \/ notes' = 0 /\ Overtakes
    PROVE  IInv'
<1>1. /\ cm' = [c \in Comments |-> IF c \in Rows THEN Gone ELSE cm[c]]
      /\ likes' = {} /\ plikes' = {} /\ post' = "gone"
  BY DEF NoRowsLeft
<1>2. /\ \A c \in Comments : cm'[c] \in {Gone, Unborn}
      /\ \A c \in Comments : cm'[c] = Unborn <=> cm[c] = Unborn
  BY <1>1, RowTypes DEF IInv, TypeOK, Rows
<1>3. cm' \in [Comments -> Row \cup {Unborn, Gone}]
  BY <1>1, <1>2
<1>4. Live' = {}
  BY <1>2, RowTypes DEF Live
<1>5. escaped' \in Nat
  <2>1. Adding \in SUBSET Reqs
    BY DEF Adding
  <2> QED
    BY <2>1, ReqSets DEF IInv, TypeOK, Overtakes
<1>6. TypeOK'
  BY <1>1, <1>3, <1>5, Constants DEF IInv, TypeOK
<1>7. Numbered'
  <2>1. {d \in Comments : cm'[d] # Unborn} = {d \in Comments : cm[d] # Unborn}
    BY <1>2
  <2> QED
    BY <2>1 DEF IInv, Numbered
<1>8. Named'
  BY <1>2, SlotTypes DEF IInv, Named, Op
<1>9. LostInv'
  <2>1. \A k \in lost : k[1] \in Comments
    BY DEF IInv, TypeOK
  <2> QED
    BY <1>1, <1>2, <2>1 DEF IInv, LostInv
<1>10. LikeCountsMatch'
  BY <1>4 DEF LikeCountsMatch
<1>11. Bounded'
  <2>1. CASE notes' = 0 /\ Overtakes
    BY <1>1, <1>4, <2>1, BoundDeleted DEF Op
  <2>2. CASE notes' = notes /\ post # "live" /\ escaped' = escaped
    <3>1. notes' <= notes
      BY <2>2, Constants DEF IInv, TypeOK
    <3> QED
      BY <1>1, <1>4, <1>6, <2>2, <3>1, BoundKept DEF Op
  <2> QED
    BY <2>1, <2>2
<1> QED
  BY <1>6, <1>7, <1>8, <1>9, <1>10, <1>11 DEF IInv

LEMMA DisjointUnion ==
    ASSUME NEW S, NEW T, IsFiniteSet(S), IsFiniteSet(T), S \cap T = {},
           NEW U, U = S \cup T
    PROVE  Cardinality(U) = Cardinality(S) + Cardinality(T)
<1>1. Cardinality(S \cup T) = Cardinality(S) + Cardinality(T) - Cardinality(S \cap T)
  BY FS_Union
<1>2. Cardinality(S \cap T) = 0
  BY FS_EmptySet
<1>3. Cardinality(S) \in Nat /\ Cardinality(T) \in Nat
  BY FS_CardinalityType
<1> QED
  BY <1>1, <1>2, <1>3

\* The foreign key takes the likes of a destroyed user, and nobody else's.
LEMMA RejectStep ==
    ASSUME IInv, NEW u \in Users, Reject(u)
    PROVE  IInv'
<1> DEFINE taken == {l \in likes : l[2] = u}
<1>1. /\ user[u] = "inactive" /\ user' = [user EXCEPT ![u] = "destroyed"]
      /\ likes' = {l \in likes : l[2] # u} /\ plikes' = plikes \ {u}
      /\ lost' = lost \cup taken
      /\ UNCHANGED <<post, cm, notes, req, escaped>>
  BY DEF Reject
<1>2. /\ user'[u] = "destroyed" /\ \A v \in Users \ {u} : user'[v] = user[v]
      /\ user' \in [Users -> {"active", "inactive", "destroyed"}]
  BY <1>1 DEF IInv, TypeOK
<1>3. /\ \A l \in likes : l[1] \in Comments /\ l[2] \in Users /\ cm[l[1]] \in Row
      /\ \A l \in lost : l[1] \in Comments /\ l[2] \in Users /\ l[2] # u
      /\ likes \subseteq Comments \X Users /\ lost \subseteq Comments \X Users
  BY <1>1 DEF IInv, TypeOK, LostInv
<1>4. TypeOK'
  BY <1>1, <1>2, <1>3 DEF IInv, TypeOK
<1>5. Numbered' /\ Named' /\ Live' = Live
  BY <1>1 DEF IInv, Numbered, Named, Live, Op
<1>6. LostInv'
  <2>1. \A l \in lost' : l[2] \in Users /\ cm[l[1]] # Unborn /\ user'[l[2]] = "destroyed"
    BY <1>1, <1>2, <1>3, RowTypes DEF IInv, LostInv
  <2>2. \A l \in likes' : user'[l[2]] # "destroyed"
    BY <1>1, <1>2, <1>3 DEF IInv, LostInv
  <2> QED
    BY <1>1, <2>1, <2>2 DEF LostInv
<1>7. LikeCountsMatch'
  <2>1. SUFFICES ASSUME NEW c \in Live
                 PROVE  cm[c].likeCount = Cardinality(LikesOf(c)')
                                            + Cardinality({l \in lost' : l[1] = c})
    BY <1>1, <1>5 DEF LikeCountsMatch, LikesOf
  <2> DEFINE gone == {l \in taken : l[1] = c}
             old == {l \in lost : l[1] = c}
             new == {l \in lost' : l[1] = c}
             kept == {l \in likes : l[2] # u /\ l[1] = c}
  <2>2. LikesOf(c)' = kept /\ LikesOf(c) = kept \cup gone /\ new = old \cup gone
    BY <1>1 DEF LikesOf
  <2>3. kept \cap gone = {} /\ old \cap gone = {}
    BY <1>3
  <2>4. /\ IsFiniteSet(kept) /\ IsFiniteSet(gone) /\ IsFiniteSet(old)
        /\ Cardinality(kept) \in Nat /\ Cardinality(gone) \in Nat /\ Cardinality(old) \in Nat
    <3>1. /\ kept \subseteq Comments \X Users /\ gone \subseteq Comments \X Users
          /\ old \subseteq Comments \X Users
      BY <1>3
    <3> QED
      BY <3>1, LikeSets
  <2>5. Cardinality(LikesOf(c)) = Cardinality(kept) + Cardinality(gone)
    BY <2>2, <2>3, <2>4, DisjointUnion
  <2>6. Cardinality(new) = Cardinality(old) + Cardinality(gone)
    BY <2>2, <2>3, <2>4, DisjointUnion
  <2>7. cm[c].likeCount = Cardinality(LikesOf(c)) + Cardinality(old)
    BY DEF IInv, LikeCountsMatch
  <2>8. Cardinality(LikesOf(c)') = Cardinality(kept)
    BY <2>2
  <2> QED
    BY <2>4, <2>5, <2>6, <2>7, <2>8
<1>8. Bounded'
  <2>1. notes' <= notes
    BY <1>1, Constants DEF IInv, TypeOK
  <2> QED
    BY <1>1, <1>4, <1>5, <2>1, BoundKept DEF Op
<1> QED
  BY <1>4, <1>5, <1>6, <1>7, <1>8 DEF IInv

LEMMA UserStep ==
    ASSUME IInv, NEW u \in Users, Deactivate(u) \/ Approve(u)
    PROVE  IInv'
<1>1. /\ user[u] # "destroyed"
      /\ \E s \in {"active", "inactive"} : user' = [user EXCEPT ![u] = s]
      /\ UNCHANGED <<post, cm, likes, plikes, notes, req, escaped, lost>>
  BY DEF Deactivate, Approve, History
<1>2. /\ user' \in [Users -> {"active", "inactive", "destroyed"}]
      /\ \A v \in Users : user'[v] = "destroyed" <=> user[v] = "destroyed"
  BY <1>1 DEF IInv, TypeOK
<1>3. TypeOK'
  BY <1>1, <1>2 DEF IInv, TypeOK
<1>4. LostInv'
  <2>1. \A l \in likes : l[2] \in Users
    BY DEF IInv, TypeOK
  <2> QED
    BY <1>1, <1>2, <2>1 DEF IInv, LostInv
<1>5. Numbered' /\ Named' /\ LikeCountsMatch' /\ Live' = Live
  BY <1>1 DEF IInv, Numbered, Named, LikeCountsMatch, LikesOf, Live, Op
<1>6. Bounded'
  <2>1. notes' <= notes
    BY <1>1, Constants DEF IInv, TypeOK
  <2> QED
    BY <1>1, <1>3, <1>5, <2>1, BoundKept DEF Op
<1> QED
  BY <1>3, <1>4, <1>5, <1>6 DEF IInv

----------------------------------------------------------------------------
(* The theorems                                                             *)

LEMMA Start ==
    ASSUME Init
    PROVE  IInv
<1>1. \A q \in Reqs : Op(q) = "idle"
  BY DEF Init, Op, Idle
<1>2. Live = {} /\ Inserting = {}
  BY <1>1 DEF Init, Live, Inserting, Doing, Unborn
<1>3. TypeOK
  BY Constants DEF Init, TypeOK
<1>4. Numbered
  <2>1. {c \in Comments : cm[c] # Unborn} = 1 .. 0
    BY DEF Init
  <2> QED
    BY <2>1, Constants DEF Numbered
<1>5. Named /\ LostInv /\ LikeCountsMatch
  BY <1>1, <1>2 DEF Init, Named, LostInv, LikeCountsMatch
<1>6. Bounded
  <2>1. Cardinality(Live) = 0 /\ Cardinality(Inserting) = 0
    BY <1>2, FS_EmptySet
  <2> QED
    BY <2>1, Constants DEF Init, Bounded
<1> QED
  BY <1>3, <1>4, <1>5, <1>6 DEF IInv

LEMMA Stutter ==
    ASSUME IInv, UNCHANGED vars
    PROVE  IInv'
<1>1. UNCHANGED <<post, cm, likes, plikes, notes, user, req, escaped, lost>>
  BY DEF vars
<1>2. TypeOK' /\ Numbered' /\ Named' /\ LostInv' /\ LikeCountsMatch'
  BY <1>1 DEF IInv, TypeOK, Numbered, Named, LostInv, LikeCountsMatch, LikesOf, Live, Op
<1>3. Bounded'
  BY <1>1 DEF IInv, Bounded, Live, Inserting, Commenting, Adding, Doing, Op
<1> QED
  BY <1>2, <1>3 DEF IInv

LEMMA Step ==
    ASSUME IInv, Next
    PROVE  IInv'
<1>1. CASE \E q \in Reqs : CommentStep(q)
  BY <1>1, RequestSteps, CommentInsertStep, NotifyStep, RemoveCommitStep DEF CommentStep
<1>2. CASE \E q \in Reqs : LikeStep(q)
  BY <1>2, RequestSteps, LikeToggleStep, PostLikeToggleStep DEF LikeStep
<1>3. CASE \E q \in Reqs : DeleteStep(q)
  BY <1>3, RequestSteps, DeleteCommitStep DEF DeleteStep
<1>4. CASE \E u \in Users : Deactivate(u) \/ Approve(u) \/ Reject(u)
  BY <1>4, UserStep, RejectStep
<1>5. CASE ClearNotes
  BY <1>5, ClearNotesStep
<1>6. CASE Purge
  BY <1>6, NoRowsLeftStep DEF Purge
<1>7. CASE BoardDelete
  BY <1>7, NoRowsLeftStep DEF BoardDelete
<1> QED
  BY <1>1, <1>2, <1>3, <1>4, <1>5, <1>6, <1>7 DEF Next

\* The strengthening of the three invariants, from createComment's count before
\* the insert to the foreign keys of rejectUser, is kept by every handler.
THEOREM Invariance == Spec => []IInv
<1>1. Init => IInv
  BY Start
<1>2. IInv /\ [Next]_vars => IInv'
  BY Step, Stutter
<1> QED
  BY <1>1, <1>2, PTL DEF Spec

\* Every comment of createComment is shallower than the configured depth, and no
\* like of toggleLike outlives its comment's row.
THEOREM TypesHold == Spec => []TypeOK
<1>1. IInv => TypeOK
  BY DEF IInv
<1> QED
  BY <1>1, Invariance, PTL

\* The denormalised likeCount equals the rows it counts, and those a rejected
\* user took along.
THEOREM LikeCountsStayRight == Spec => []LikeCountsMatch
<1>1. IInv => LikeCountsMatch
  BY DEF IInv
<1> QED
  BY <1>1, Invariance, PTL

\* However many createComments overlap, and with deletePost, deleteBoard and the
\* notifications that nobody waits for, what is there stays bounded.
THEOREM ThreadsStayBounded == Spec => []ThreadIsBounded
<1>1. IInv => ThreadIsBounded
  <2> SUFFICES ASSUME IInv PROVE ThreadIsBounded
    OBVIOUS
  <2>1. Inserting \in SUBSET Reqs /\ Commenting \in SUBSET Reqs /\ Adding \in SUBSET Reqs
    BY DEF Inserting, Commenting, Adding, Doing
  <2>2. /\ Cardinality(Inserting) \in Nat /\ Cardinality(Commenting) \in Nat
        /\ Cardinality(Adding) \in Nat
    BY <2>1, ReqSets
  <2>3. Cardinality(Live) \in Nat /\ notes \in Nat /\ escaped \in Nat
    BY LiveTypes, CommentSets, Constants DEF IInv, TypeOK
  <2> QED
    BY <2>2, <2>3, Constants DEF IInv, Bounded, ThreadIsBounded
<1> QED
  BY <1>1, Invariance, PTL
=============================================================================

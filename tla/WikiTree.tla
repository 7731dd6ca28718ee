------------------------------ MODULE WikiTree ------------------------------
(***************************************************************************)
(* The tree of wiki pages and the revision log, under concurrent editors.  *)
(*                                                                         *)
(* Each operation is a transaction.  It locks one row (the parent of a     *)
(* page to be created, else the page itself) and reads the others without  *)
(* a lock; what it writes is seen when it commits.  On SQLite transactions *)
(* are IMMEDIATE and run one after the other; on MySQL, MariaDB and        *)
(* PostgreSQL they are READ COMMITTED, and every read is of its moment.    *)
(* Nothing but these checks keeps the tree a tree: parentId has no foreign *)
(* key.                                                                    *)
(*                                                                         *)
(* Source: services/wiki.service.ts, models/WikiPage.ts,                   *)
(* models/WikiRevision.ts, models/index.ts, config/sequelize.ts.           *)
(***************************************************************************)
EXTENDS Naturals, FiniteSets

CONSTANTS
    Pages,    \* page ids; an id is not given out twice
    Reqs,     \* slots for transactions
    Texts,    \* values of a title or a content
    MaxWalk   \* how many ancestors updatePage looks at: 100

\* Where a page without a parent is; and the parentId of an update without one.
Top  == "top"
Keep == "keep"
\* Ids that have no row yet, or no longer.
Unborn == "unborn"
Gone   == "gone"
\* The newest revision of a page that has none: it has no fields.
None   == [f \in {} |-> f]

ASSUME PagesAssumption == Pages \cap {Top, Keep, Unborn, Gone} = {}
ASSUME WalkAssumption  == MaxWalk \in Nat

VARIABLES
    iso,     \* "immediate" or "readCommitted"
    parent,  \* WikiPages.parentId
    text,    \* WikiPages.title and WikiPages.content
    last,    \* the newest revision of each page
    req,     \* transactions
    moved,   \* history: pages that updatePage has put under another page
    cut      \* history: one of them, where transactions run one after the other,
             \* after a walk that was cut off

vars == <<iso, parent, text, last, req, moved, cut>>
page == <<parent, text, last, moved, cut>>

Fields == {"title", "content"}
Text   == [Fields -> Texts]

\* lock: the row locked, Top if none.  to: the parent to be set.  cur, seen:
\* the walk up from there.  read: the page as read under the lock.
Txn  == [step : {"parent", "walk", "save", "insert", "count", "destroy"},
         lock : Pages \cup {Top}, to : Pages \cup {Top, Keep},
         cur : Pages \cup {Top}, seen : SUBSET Pages, read : Text]
Idle == [step |-> "idle"]

TypeOK ==
    /\ iso \in {"immediate", "readCommitted"}
    /\ parent \in [Pages -> Pages \cup {Top, Unborn, Gone}]
    /\ text \in [Pages -> Text]
    /\ last \in [Pages -> Text \cup {None}]
    /\ req \in [Reqs -> Txn \cup {Idle}]
    /\ moved \subseteq Pages /\ cut \in BOOLEAN

----------------------------------------------------------------------------
At(q, s)    == req[q].step = s
Put(q, r)   == req' = [req EXCEPT ![q] = r]
Finish(q)   == Put(q, Idle)
Exists(p)   == parent[p] \notin {Unborn, Gone}
Children(p) == {c \in Pages : parent[c] = p}

Unlocked(p) == \A q \in Reqs : req[q] # Idle => req[q].lock # p

\* A transaction begins.
Enter(q) ==
    /\ req[q] = Idle
    /\ iso = "immediate" => \A r \in Reqs : req[r] = Idle

\* findOne or findByPk with LOCK.UPDATE: waits for the row's lock, and finds
\* the row if it is still there.
Lock(p) == Exists(p) /\ Unlocked(p)

\* A transaction that holds the lock of a page (Top: of none).
Holding(q, step, lock, to, read) ==
    Put(q, [step |-> step, lock |-> lock, to |-> to,
            cur |-> IF to = Keep THEN Top ELSE to, seen |-> {}, read |-> read])

----------------------------------------------------------------------------
(* createPage.                                                              *)

\* The parent is looked up without a lock.
CreateBeginUnlocked(q, to) ==
    /\ Enter(q)
    /\ to # Top => Exists(to)
    /\ \E read \in Text : Holding(q, "insert", Top, to, read)
    /\ UNCHANGED <<iso, page>>

\* The parent, if there is to be one, is locked; read is the text sent.
CreateBegin(q, to) ==
    /\ Enter(q)
    /\ to # Top => Lock(to)
    /\ \E read \in Text : Holding(q, "insert", to, to, read)
    /\ UNCHANGED <<iso, page>>

\* The page and its first revision.
Insert(q) ==
    /\ At(q, "insert")
    /\ \E x \in Pages :
         /\ parent[x] = Unborn
         /\ parent' = [parent EXCEPT ![x] = req[q].to]
         /\ text' = [text EXCEPT ![x] = req[q].read]
         /\ last' = [last EXCEPT ![x] = req[q].read]
    /\ Finish(q)
    /\ UNCHANGED <<iso, moved, cut>>

----------------------------------------------------------------------------
(* updatePage.                                                              *)

\* The page is read without a lock.
UpdateBeginUnlocked(q, p, to) ==
    /\ Enter(q)
    /\ Exists(p)
    /\ to # p
    /\ Holding(q, IF to \in Pages THEN "parent" ELSE "save", p, to, text[p])
    /\ UNCHANGED <<iso, page>>

UpdateBegin(q, p, to) ==
    /\ Enter(q)
    /\ Lock(p)
    /\ to # p
    /\ Holding(q, IF to \in Pages THEN "parent" ELSE "save", p, to, text[p])
    /\ UNCHANGED <<iso, page>>

\* The new parent has to exist; its row is not locked.
CheckParent(q) ==
    /\ At(q, "parent")
    /\ IF Exists(req[q].to) THEN req' = [req EXCEPT ![q].step = "walk"] ELSE Finish(q)
    /\ UNCHANGED <<iso, page>>

WalkEnds(q) ==
    \/ req[q].cur = Top
    \/ Cardinality(req[q].seen) >= MaxWalk
    \/ req[q].cur \in req[q].seen

\* Mutant of Walk: the ancestors are not compared with the page.
WalkBlind(q) ==
    /\ At(q, "walk")
    /\ LET r == req[q]
           up == parent[r.cur] IN
         IF WalkEnds(q) \/ ~Exists(r.cur) THEN Put(q, [r EXCEPT !.step = "save"])
         ELSE Put(q, [step |-> "walk", lock |-> r.lock, to |-> r.to, cur |-> up,
                      seen |-> r.seen \cup {r.cur}, read |-> r.read])
    /\ UNCHANGED <<iso, page>>

\* One step up: the page itself must not be among the ancestors of its parent.
Walk(q) ==
    /\ At(q, "walk")
    /\ LET r == req[q]
           up == parent[r.cur] IN
         \/ /\ WalkEnds(q)
            /\ Put(q, [r EXCEPT !.step = "save"])
         \/ /\ ~WalkEnds(q)
            /\ r.cur = r.lock
            /\ Finish(q)
         \/ /\ ~WalkEnds(q)
            /\ r.cur # r.lock
            /\ IF Exists(r.cur)
               THEN Put(q, [step |-> "walk", lock |-> r.lock, to |-> r.to, cur |-> up,
                            seen |-> r.seen \cup {r.cur}, read |-> r.read])
               ELSE Put(q, [r EXCEPT !.step = "save"])
    /\ UNCHANGED <<iso, page>>

\* Mutant of Edited: only the fields that were sent.
EditedOnly(old, new, F) == [f \in F |-> new[f]]

Edited(old, new, F) == [f \in Fields |-> IF f \in F THEN new[f] ELSE old[f]]

\* A walk that stopped after MaxWalk ancestors, with others still above them.
CutOff(q) ==
    LET r == req[q] IN
      r.cur # Top /\ r.cur \notin r.seen /\ Cardinality(r.seen) >= MaxWalk

\* The fields F that were sent are updated; a revision of the page as the
\* transaction has it is written when the title or the content was sent.
Save(q) ==
    /\ At(q, "save")
    /\ LET r == req[q]
           p == r.lock IN
         /\ parent' = IF r.to = Keep THEN parent ELSE [parent EXCEPT ![p] = r.to]
         /\ moved' = IF r.to \in Pages THEN moved \cup {p} ELSE moved
         /\ cut' = (cut \/ (iso = "immediate" /\ r.to \in Pages /\ CutOff(q)))
         /\ \E F \in SUBSET Fields, new \in Text :
              /\ text' = [text EXCEPT ![p] = Edited(@, new, F)]
              /\ last' = IF F = {} THEN last ELSE [last EXCEPT ![p] = Edited(r.read, new, F)]
    /\ Finish(q)
    /\ UNCHANGED iso

----------------------------------------------------------------------------
(* deletePage.                                                              *)

DeleteBegin(q, p) ==
    /\ Enter(q)
    /\ Lock(p)
    /\ Holding(q, "count", p, Keep, text[p])
    /\ UNCHANGED <<iso, page>>

CountChildren(q) ==
    /\ At(q, "count")
    /\ IF Children(req[q].lock) = {} THEN req' = [req EXCEPT ![q].step = "destroy"]
       ELSE Finish(q)
    /\ UNCHANGED <<iso, page>>

\* The hooks of the association destroy the revisions, too.
Destroy(q) ==
    /\ At(q, "destroy")
    /\ parent' = [parent EXCEPT ![req[q].lock] = Gone]
    /\ last' = [last EXCEPT ![req[q].lock] = None]
    /\ Finish(q)
    /\ UNCHANGED <<iso, text, moved, cut>>

\* A slug that is taken, or an error: nothing is written.
Rollback(q) ==
    /\ req[q] # Idle
    /\ Finish(q)
    /\ UNCHANGED <<iso, page>>

----------------------------------------------------------------------------
Init ==
    /\ iso \in {"immediate", "readCommitted"}
    /\ parent = [p \in Pages |-> Unborn]
    /\ \E t \in Text : text = [p \in Pages |-> t]
    /\ last = [p \in Pages |-> None]
    /\ req = [q \in Reqs |-> Idle]
    /\ moved = {} /\ cut = FALSE

Next ==
    \E q \in Reqs :
        \/ \E to \in Pages \cup {Top} : CreateBegin(q, to)
        \/ \E p \in Pages, to \in Pages \cup {Top, Keep} : UpdateBegin(q, p, to)
        \/ \E p \in Pages : DeleteBegin(q, p)
        \/ Insert(q) \/ CheckParent(q) \/ Walk(q) \/ Save(q)
        \/ CountChildren(q) \/ Destroy(q) \/ Rollback(q)

Spec == Init /\ [][Next]_vars

----------------------------------------------------------------------------
(* Properties.                                                              *)

\* No pages lie in a circle, where no path from the top reaches them.
Acyclic ==
    \A S \in SUBSET Pages : S # {} => \E p \in S : parent[p] \notin S

NoOrphans == \A p \in Pages : parent[p] \in Pages => Exists(parent[p])

\* One transaction at a time, updatePage's walk and deletePage's count keep
\* the pages a tree: every page is under a page that exists, and no page is
\* its own ancestor, as long as no page was moved under one that has more than
\* MaxWalk ancestors.
SerialTree == iso = "immediate" => NoOrphans /\ (~cut => Acyclic)

\* Concurrent transactions too: a page that was never moved has its parent,
\* since createPage locks the parent and deletePage counts under that lock.
UnmovedPagesHaveParents ==
    \A p \in Pages \ moved : parent[p] \in Pages => Exists(parent[p])

\* The newest revision is the page as it is, although two editors may each
\* send one of its fields and the revision is made from the copy each has read;
\* and no revision is written for a page that a deletion has taken meanwhile.
RevisionsMatch ==
    \A p \in Pages : last[p] = IF Exists(p) THEN text[p] ELSE None
=============================================================================

--------------------------- MODULE WikiTreeProofs ---------------------------
(***************************************************************************)
(* Proofs about WikiTree, for every set of pages, transactions and texts.  *)
(*                                                                         *)
(* Locked is what the row locks give at any isolation level: two           *)
(* transactions never lock the same page, a locked page exists and is as   *)
(* its transaction has read it, and a page about to be destroyed has no    *)
(* child that was created under it.  Serial is what one transaction at a   *)
(* time adds: the walk has seen a set of pages that is closed upwards as   *)
(* far as the walk has come, and the page is not among them.               *)
(***************************************************************************)
EXTENDS WikiTree, TLAPS

Running(q) == req[q] # Idle

LockKinds ==
    \A q \in Reqs : Running(q) =>
        /\ ~At(q, "insert") => req[q].lock \in Pages /\ req[q].to # req[q].lock
        /\ At(q, "insert") => req[q].to = req[q].lock
        /\ At(q, "parent") \/ At(q, "walk") => req[q].to \in Pages

LocksApart ==
    \A q, r \in Reqs :
        (Running(q) /\ Running(r) /\ q # r /\ req[q].lock \in Pages)
            => req[q].lock # req[r].lock

LocksExist ==
    \A q \in Reqs : Running(q) /\ req[q].lock \in Pages => Exists(req[q].lock)

ReadsCurrent ==
    \A q \in Reqs :
        At(q, "parent") \/ At(q, "walk") \/ At(q, "save")
            => req[q].read = text[req[q].lock]

Childless ==
    \A q \in Reqs : At(q, "destroy") =>
        \A c \in Pages \ moved : parent[c] # req[q].lock

Locked == /\ TypeOK
          /\ LockKinds /\ LocksApart /\ LocksExist
          /\ ReadsCurrent /\ Childless
          /\ UnmovedPagesHaveParents /\ RevisionsMatch

Alone == \A q, r \in Reqs : Running(q) /\ Running(r) => q = r

\* A is closed upwards, but for the way on from cur, and without p.
Above(A, cur, p) ==
    /\ p \notin A
    /\ \A x \in A : parent[x] \in A \cup {Top, cur}

\* What the walk has seen is the way from the new parent to the top, and the
\* page is not on it.
ClosedWithout(q) ==
    req[q].to \in req[q].seen /\ Above(req[q].seen, Top, req[q].lock)

Walked ==
    \A q \in Reqs :
        /\ At(q, "parent") => req[q].seen = {} /\ req[q].cur = req[q].to
        /\ At(q, "walk") =>
             /\ Exists(req[q].to)
             /\ req[q].to \in req[q].seen \cup {req[q].cur}
             /\ req[q].cur \in Pages => Exists(req[q].cur)
             /\ Above(req[q].seen, req[q].cur, req[q].lock)
        /\ At(q, "save") /\ req[q].to \in Pages =>
             /\ Exists(req[q].to)
             /\ CutOff(q) \/ ClosedWithout(q)

Counted ==
    \A q \in Reqs : At(q, "destroy") => \A c \in Pages : parent[c] # req[q].lock

Serial == iso = "immediate" =>
    Alone /\ Walked /\ Counted /\ NoOrphans /\ (~cut => Acyclic)

----------------------------------------------------------------------------
\* Init satisfies the invariant of the locks.
LEMMA InitLocked == Init => Locked
  <1> SUFFICES ASSUME Init PROVE Locked
    OBVIOUS
  <1> USE DEF Init, Idle
  <1>1. TypeOK
    BY DEF TypeOK
  <1>2. LockKinds /\ LocksApart /\ LocksExist
    BY DEF LockKinds, LocksApart, LocksExist, Running
  <1>3. ReadsCurrent /\ Childless
    BY DEF ReadsCurrent, Childless, At
  <1>4. UnmovedPagesHaveParents
    BY PagesAssumption DEF UnmovedPagesHaveParents, Unborn
  <1>5. RevisionsMatch
    BY DEF RevisionsMatch, Exists
  <1> QED
    BY <1>1, <1>2, <1>3, <1>4, <1>5 DEF Locked

\* Every step keeps the types.
LEMMA TypeStep == TypeOK /\ LockKinds /\ [Next]_vars => TypeOK'
  <1> SUFFICES ASSUME TypeOK, LockKinds, [Next]_vars PROVE TypeOK'
    OBVIOUS
  <1> USE DEF TypeOK, page, At, Put, Finish, Holding
  <1>1. ASSUME NEW q \in Reqs, NEW to \in Pages \cup {Top}, CreateBegin(q, to) PROVE TypeOK'
    <2>1. to # Keep
      BY PagesAssumption DEF Top, Keep
    <2>2. PICK read \in Text : Holding(q, "insert", to, to, read)
      BY <1>1 DEF CreateBegin
    <2> QED
      BY <1>1, <2>1, <2>2 DEF CreateBegin, Txn
  <1>2. ASSUME NEW q \in Reqs, NEW p \in Pages, NEW to \in Pages \cup {Top, Keep},
               UpdateBegin(q, p, to)
        PROVE TypeOK'
    <2>1. (IF to = Keep THEN Top ELSE to) \in Pages \cup {Top}
      OBVIOUS
    <2>2. text[p] \in Text
      OBVIOUS
    <2> QED
      BY <1>2, <2>1, <2>2 DEF UpdateBegin, Txn
  <1>3. ASSUME NEW q \in Reqs, NEW p \in Pages, DeleteBegin(q, p) PROVE TypeOK'
    BY <1>3 DEF DeleteBegin, Txn
  <1>4. ASSUME NEW q \in Reqs, Insert(q) PROVE TypeOK'
    <2>1. req[q] \in Txn /\ req[q].to \in Pages \cup {Top}
      BY <1>4 DEF Insert, Idle, Txn, LockKinds, Running
    <2> QED
      BY <1>4, <2>1 DEF Insert, Txn
  <1>5. ASSUME NEW q \in Reqs, CheckParent(q) PROVE TypeOK'
    BY <1>5 DEF CheckParent, Txn, Idle
  <1>6. ASSUME NEW q \in Reqs, Walk(q) PROVE TypeOK'
    <2>1. req[q] \in Txn
      BY <1>6 DEF Walk, Idle
    <2>2. ASSUME Put(q, [req[q] EXCEPT !.step = "save"]) PROVE TypeOK'
      BY <1>6, <2>1, <2>2 DEF Walk, Txn
    <2>3. ASSUME ~WalkEnds(q), Exists(req[q].cur),
                 Put(q, [step |-> "walk", lock |-> req[q].lock, to |-> req[q].to,
                         cur |-> parent[req[q].cur],
                         seen |-> req[q].seen \cup {req[q].cur}, read |-> req[q].read])
          PROVE TypeOK'
      <3>1. req[q].cur \in Pages /\ parent[req[q].cur] \in Pages \cup {Top}
        BY <2>1, <2>3 DEF WalkEnds, Exists, Txn
      <3> QED
        BY <1>6, <2>1, <2>3, <3>1 DEF Walk, Txn
    <2>4. ASSUME Finish(q) PROVE TypeOK'
      BY <1>6, <2>4 DEF Walk
    <2> QED
      BY <1>6, <2>2, <2>3, <2>4 DEF Walk
  <1>7. ASSUME NEW q \in Reqs, Save(q) PROVE TypeOK'
    <2>1. req[q] \in Txn /\ req[q].lock \in Pages
      BY <1>7 DEF Save, Idle, LockKinds, Running
    <2>2. PICK F \in SUBSET Fields, new \in Text :
            /\ text' = [text EXCEPT ![req[q].lock] = Edited(@, new, F)]
            /\ last' = IF F = {} THEN last
                       ELSE [last EXCEPT ![req[q].lock] = Edited(req[q].read, new, F)]
      BY <1>7 DEF Save
    <2>3. Edited(text[req[q].lock], new, F) \in Text /\ Edited(req[q].read, new, F) \in Text
      BY <2>1 DEF Edited, Text, Txn
    <2>4. text' \in [Pages -> Text] /\ last' \in [Pages -> Text \cup {None}]
      BY <2>2, <2>3
    <2>5. parent' \in [Pages -> Pages \cup {Top, Unborn, Gone}] /\ moved' \subseteq Pages
      BY <1>7, <2>1 DEF Save, Txn
    <2> QED
      BY <1>7, <2>4, <2>5 DEF Save
  <1>8. ASSUME NEW q \in Reqs, CountChildren(q) PROVE TypeOK'
    BY <1>8 DEF CountChildren, Txn, Idle
  <1>9. ASSUME NEW q \in Reqs, Destroy(q) PROVE TypeOK'
    BY <1>9 DEF Destroy
  <1>10. ASSUME NEW q \in Reqs, Rollback(q) PROVE TypeOK'
    BY <1>10 DEF Rollback
  <1>11. CASE UNCHANGED vars
    BY <1>11 DEF vars
  <1> QED
    BY <1>1, <1>2, <1>3, <1>4, <1>5, <1>6, <1>7, <1>8, <1>9, <1>10, <1>11 DEF Next

\* A transaction that begins has locked what nobody else has.
LEMMA BeginStep ==
    ASSUME Locked, TypeOK', NEW q \in Reqs, Enter(q), UNCHANGED <<iso, page>>,
           NEW step, NEW lock \in Pages \cup {Top}, NEW to, NEW read,
           step \in {"insert", "parent", "save", "count"},
           Holding(q, step, lock, to, read),
           lock \in Pages => Lock(lock),
           step = "insert" => to = lock,
           step # "insert" => lock \in Pages /\ to # lock /\ read = text[lock],
           step = "parent" => to \in Pages
    PROVE  Locked'
  <1> USE DEF Locked
  <1>1. /\ Running(q)' /\ req'[q].step = step /\ req'[q].lock = lock
        /\ req'[q].to = to /\ req'[q].read = read
    BY DEF Holding, Put, Running, Idle, TypeOK
  <1>2. \A r \in Reqs : r # q => req'[r] = req[r]
    BY DEF Holding, Put, TypeOK
  <1>3. UNCHANGED <<iso, parent, text, last, moved>>
    BY DEF page
  <1>4. LockKinds'
    BY <1>1, <1>2 DEF LockKinds, Running, At
  <1>5. LocksApart' /\ LocksExist'
    BY <1>1, <1>2, <1>3 DEF LocksApart, LocksExist, Running, Lock, Unlocked, Exists
  <1>6. ReadsCurrent' /\ Childless'
    BY <1>1, <1>2, <1>3 DEF ReadsCurrent, Childless, At
  <1>7. UnmovedPagesHaveParents' /\ RevisionsMatch'
    BY <1>3 DEF UnmovedPagesHaveParents, RevisionsMatch, Exists
  <1> QED
    BY <1>4, <1>5, <1>6, <1>7

\* A transaction that goes on keeps its lock; one that ends lets go of it.
LEMMA GoOnStep ==
    ASSUME Locked, TypeOK', NEW q \in Reqs, Running(q), UNCHANGED <<iso, page>>,
           NEW r, Put(q, r),
           \/ r = Idle
           \/ /\ r.step \in {"parent", "walk", "save", "destroy"}
              /\ ~At(q, "insert") /\ r # Idle
              /\ r.lock = req[q].lock /\ r.to = req[q].to /\ r.read = req[q].read
              /\ r.step \in {"parent", "walk"} => r.to \in Pages
              /\ r.step = "save" => At(q, "walk")
              /\ r.step = "walk" => At(q, "parent") \/ At(q, "walk")
              /\ r.step # "parent"
              /\ r.step = "destroy" => Children(r.lock) = {}
    PROVE  Locked'
  <1> USE DEF Locked
  <1>1. req'[q] = r
    BY DEF Put, TypeOK
  <1>2. \A p \in Reqs : p # q => req'[p] = req[p]
    BY DEF Put, TypeOK
  <1>3. UNCHANGED <<iso, parent, text, last, moved>>
    BY DEF page
  <1>4. LockKinds'
    BY <1>1, <1>2 DEF LockKinds, Running, At, Idle
  <1>5. LocksApart' /\ LocksExist'
    BY <1>1, <1>2, <1>3 DEF LocksApart, LocksExist, Running, Exists
  <1>6. ReadsCurrent'
    BY <1>1, <1>2, <1>3 DEF ReadsCurrent, At, Idle
  <1>7. Childless'
    BY <1>1, <1>2, <1>3 DEF Childless, At, Idle, Children
  <1>8. UnmovedPagesHaveParents' /\ RevisionsMatch'
    BY <1>3 DEF UnmovedPagesHaveParents, RevisionsMatch, Exists
  <1> QED
    BY <1>4, <1>5, <1>6, <1>7, <1>8

\* A new page is under a page that its transaction has locked.
LEMMA InsertStep ==
    ASSUME Locked, TypeOK', NEW q \in Reqs, Insert(q)
    PROVE  Locked'
  <1> USE DEF Locked
  <1>1. PICK x \in Pages :
          /\ parent[x] = Unborn
          /\ parent' = [parent EXCEPT ![x] = req[q].to]
          /\ text' = [text EXCEPT ![x] = req[q].read]
          /\ last' = [last EXCEPT ![x] = req[q].read]
    BY DEF Insert
  <1>2. /\ Running(q) /\ At(q, "insert") /\ req[q] \in Txn
        /\ req[q].to = req[q].lock /\ req'[q] = Idle /\ moved' = moved
    BY DEF Insert, Running, At, Idle, LockKinds, Finish, Put, TypeOK
  <1>3. \A r \in Reqs : r # q => req'[r] = req[r]
    BY DEF Insert, Finish, Put, TypeOK
  <1>4. \A r \in Reqs : Running(r) => req[r].lock # x
    BY <1>1 DEF LocksExist, Exists
  <1>5. parent'[x] = req[q].to /\ \A y \in Pages : y # x => parent'[y] = parent[y]
    BY <1>1 DEF TypeOK
  <1>6. LockKinds' /\ LocksApart'
    BY <1>2, <1>3 DEF LockKinds, LocksApart, Running, At, Idle
  <1>7. LocksExist'
    BY <1>2, <1>3, <1>4, <1>5 DEF LocksExist, Running, Exists, Idle
  <1>8. ReadsCurrent'
    <2> SUFFICES ASSUME NEW r \in Reqs,
                        (At(r, "parent") \/ At(r, "walk") \/ At(r, "save"))'
                 PROVE  req'[r].read = text'[req'[r].lock]
      BY DEF ReadsCurrent
    <2>1. r # q /\ req'[r] = req[r] /\ Running(r)
      BY <1>2, <1>3 DEF At, Idle, Running
    <2>2. req[r].lock \in Pages /\ req[r].lock # x
      BY <2>1, <1>4 DEF LockKinds, At
    <2> QED
      BY <2>1, <2>2, <1>1 DEF ReadsCurrent, At, TypeOK
  <1>9. Childless'
    <2> SUFFICES ASSUME NEW r \in Reqs, At(r, "destroy")', NEW c \in Pages \ moved
                 PROVE  parent'[c] # req'[r].lock
      BY <1>2 DEF Childless
    <2>1. r # q /\ req'[r] = req[r] /\ At(r, "destroy") /\ Running(r)
      BY <1>2, <1>3 DEF At, Idle, Running
    <2>2. req[r].lock \in Pages /\ req[r].lock # req[q].lock
      BY <2>1, <1>2 DEF LockKinds, LocksApart, At
    <2>3. CASE c = x
      BY <2>3, <2>1, <2>2, <1>2, <1>5
    <2>4. CASE c # x
      BY <2>4, <2>1, <1>5 DEF Childless
    <2> QED
      BY <2>3, <2>4
  <1>10. UnmovedPagesHaveParents'
    <2>1. req[q].to \in Pages => Exists(req[q].to)
      BY <1>2 DEF LocksExist
    <2>2. \A y \in Pages : Exists(y) => Exists(y)'
      BY <1>1, <1>5 DEF Exists
    <2>3. \A y \in Pages \ moved : parent'[y] \in Pages => Exists(parent'[y])
      BY <2>1, <1>5 DEF UnmovedPagesHaveParents
    <2> QED
      BY <2>2, <2>3, <1>2 DEF UnmovedPagesHaveParents
  <1>11. RevisionsMatch'
    <2>1. parent'[x] \notin {Unborn, Gone}
      BY <1>2, <1>5, PagesAssumption DEF LocksExist, Exists, TypeOK, Txn, Top, Unborn, Gone
    <2>2. last'[x] = text'[x]
      BY <1>1 DEF TypeOK
    <2>3. \A y \in Pages : y # x => last'[y] = last[y] /\ text'[y] = text[y]
      BY <1>1 DEF TypeOK
    <2> QED
      BY <2>1, <2>2, <2>3, <1>5 DEF RevisionsMatch, Exists
  <1> QED
    BY <1>6, <1>7, <1>8, <1>9, <1>10, <1>11

\* An update touches only the page its transaction has locked.
LEMMA SaveStep ==
    ASSUME Locked, TypeOK', NEW q \in Reqs, Save(q)
    PROVE  Locked'
  <1> USE DEF Locked
  <1> DEFINE p  == req[q].lock
             to == req[q].to
  <1>1. PICK F \in SUBSET Fields, new \in Text :
          /\ text' = [text EXCEPT ![p] = Edited(@, new, F)]
          /\ last' = IF F = {} THEN last ELSE [last EXCEPT ![p] = Edited(req[q].read, new, F)]
    BY DEF Save
  <1>2. /\ Running(q) /\ At(q, "save") /\ req[q] \in Txn /\ p \in Pages /\ Exists(p)
        /\ req[q].read = text[p] /\ req'[q] = Idle
    BY DEF Save, Running, At, Idle, LockKinds, LocksExist, ReadsCurrent, Finish, Put, TypeOK
  <1>3. \A r \in Reqs : r # q => req'[r] = req[r]
    BY DEF Save, Finish, Put, TypeOK
  <1>4. \A r \in Reqs : Running(r) /\ r # q => req[r].lock # p
    BY <1>2 DEF LocksApart
  <1>5. /\ \/ parent'[p] = parent[p]
           \/ parent'[p] = to /\ to \in Pages \cup {Top}
        /\ \A y \in Pages : y # p => parent'[y] = parent[y]
        /\ to \in Pages => p \in moved'
        /\ moved \subseteq moved'
    <2>1. p \in Pages /\ to \in Pages \cup {Top, Keep} /\ (to \in Pages => to # Keep)
      BY <1>2, PagesAssumption DEF Txn
    <2>2. parent' = IF to = Keep THEN parent ELSE [parent EXCEPT ![p] = to]
      BY DEF Save
    <2>3. moved' = IF to \in Pages THEN moved \cup {p} ELSE moved
      BY DEF Save
    <2> QED
      BY <2>1, <2>2, <2>3 DEF TypeOK
  <1>6. \A y \in Pages : Exists(y) <=> Exists(y)'
    <2>1. to \in Pages \cup {Top} => to \notin {Unborn, Gone}
      BY PagesAssumption DEF Top, Unborn, Gone
    <2>2. parent'[p] \notin {Unborn, Gone}
      BY <2>1, <1>2, <1>5 DEF Exists
    <2> QED
      BY <2>2, <1>2, <1>5 DEF Exists
  <1>7. LockKinds' /\ LocksApart'
    BY <1>2, <1>3 DEF LockKinds, LocksApart, Running, At, Idle
  <1>8. LocksExist'
    BY <1>2, <1>3, <1>6 DEF LocksExist, Running, Idle
  <1>9. ReadsCurrent'
    <2> SUFFICES ASSUME NEW r \in Reqs,
                        (At(r, "parent") \/ At(r, "walk") \/ At(r, "save"))'
                 PROVE  req'[r].read = text'[req'[r].lock]
      BY DEF ReadsCurrent
    <2>1. r # q /\ req'[r] = req[r] /\ Running(r)
      BY <1>2, <1>3 DEF At, Idle, Running
    <2>2. req[r].lock \in Pages /\ req[r].lock # p
      BY <2>1, <1>4 DEF LockKinds, At
    <2> QED
      BY <2>1, <2>2, <1>1 DEF ReadsCurrent, At, TypeOK
  <1>10. Childless'
    <2> SUFFICES ASSUME NEW r \in Reqs, At(r, "destroy")', NEW c \in Pages \ moved'
                 PROVE  parent'[c] # req'[r].lock
      BY DEF Childless
    <2>1. r # q /\ req'[r] = req[r] /\ At(r, "destroy") /\ Running(r)
      BY <1>2, <1>3 DEF At, Idle, Running
    <2>2. req[r].lock \in Pages /\ req[r].lock # Top /\ c \notin moved
      BY <2>1, <1>5, PagesAssumption DEF LockKinds, At
    <2>3. CASE parent'[c] = parent[c]
      BY <2>1, <2>2, <2>3 DEF Childless
    <2>4. CASE parent'[c] # parent[c]
      BY <2>1, <2>2, <2>4, <1>5
    <2> QED
      BY <2>3, <2>4
  <1>11. UnmovedPagesHaveParents'
    <2> SUFFICES ASSUME NEW y \in Pages \ moved', parent'[y] \in Pages
                 PROVE  parent'[parent'[y]] \notin {Unborn, Gone}
      BY DEF UnmovedPagesHaveParents, Exists
    <2>1. parent'[y] = parent[y] /\ y \notin moved
      BY <1>2, <1>5
    <2>2. Exists(parent[y])
      BY <2>1 DEF UnmovedPagesHaveParents
    <2> QED
      BY <2>1, <2>2, <1>6 DEF Exists
  <1>12. RevisionsMatch'
    <2>1. last[p] = text[p]
      BY <1>2 DEF RevisionsMatch
    <2>2. F = {} => Edited(text[p], new, F) = text[p]
      BY <1>2 DEF Edited, TypeOK, Text
    <2>3. last'[p] = text'[p]
      BY <2>1, <2>2, <1>1, <1>2 DEF TypeOK
    <2>4. \A y \in Pages : y # p => last'[y] = last[y] /\ text'[y] = text[y]
      BY <1>1, <1>2 DEF TypeOK
    <2> QED
      BY <2>3, <2>4, <1>2, <1>6 DEF RevisionsMatch
  <1> QED
    BY <1>7, <1>8, <1>9, <1>10, <1>11, <1>12

\* A page that is destroyed has no child that was never moved.
LEMMA DestroyStep ==
    ASSUME Locked, TypeOK', NEW q \in Reqs, Destroy(q)
    PROVE  Locked'
  <1> USE DEF Locked
  <1> DEFINE p == req[q].lock
  <1>1. /\ Running(q) /\ At(q, "destroy") /\ p \in Pages /\ req'[q] = Idle
        /\ UNCHANGED <<text, moved>>
    BY DEF Destroy, Running, At, Idle, LockKinds, Finish, Put, TypeOK
  <1>2. \A r \in Reqs : r # q => req'[r] = req[r]
    BY DEF Destroy, Finish, Put, TypeOK
  <1>3. \A r \in Reqs : Running(r) /\ r # q => req[r].lock # p
    BY <1>1 DEF LocksApart
  <1>4. parent'[p] = Gone /\ \A y \in Pages : y # p => parent'[y] = parent[y]
    BY <1>1 DEF Destroy, TypeOK
  <1>5. LockKinds' /\ LocksApart'
    BY <1>1, <1>2 DEF LockKinds, LocksApart, Running, At, Idle
  <1>6. LocksExist'
    BY <1>1, <1>2, <1>3, <1>4 DEF LocksExist, Running, Exists, Idle
  <1>7. ReadsCurrent'
    BY <1>1, <1>2 DEF ReadsCurrent, At, Idle
  <1>8. Childless'
    <2>1. \A r \in Reqs : At(r, "destroy")' => At(r, "destroy") /\ req'[r] = req[r] /\ Running(r)
      BY <1>1, <1>2 DEF At, Idle, Running
    <2>2. \A r \in Reqs : Running(r) /\ At(r, "destroy") => req[r].lock \in Pages
      BY DEF LockKinds, At
    <2> QED
      BY <2>1, <2>2, <1>1, <1>4, PagesAssumption DEF Childless
  <1>9. UnmovedPagesHaveParents'
    <2> SUFFICES ASSUME NEW y \in Pages \ moved, parent'[y] \in Pages
                 PROVE  parent'[parent'[y]] \notin {Unborn, Gone}
      BY <1>1 DEF UnmovedPagesHaveParents, Exists
    <2>1. parent'[y] = parent[y] /\ parent[y] # p
      BY <1>1, <1>4, PagesAssumption DEF Childless
    <2>2. Exists(parent[y])
      BY <2>1 DEF UnmovedPagesHaveParents
    <2> QED
      BY <2>1, <2>2, <1>4 DEF Exists
  <1>10. RevisionsMatch'
    <2>1. last'[p] = None /\ \A y \in Pages : y # p => last'[y] = last[y]
      BY <1>1 DEF Destroy, TypeOK
    <2> QED
      BY <2>1, <1>1, <1>4 DEF RevisionsMatch, Exists
  <1> QED
    BY <1>5, <1>6, <1>7, <1>8, <1>9, <1>10

\* Every step keeps the invariant of the locks, at any isolation level.
LEMMA LockedStep == Locked /\ [Next]_vars => Locked'
  <1> SUFFICES ASSUME Locked, [Next]_vars PROVE Locked'
    OBVIOUS
  <1>1. TypeOK'
    BY TypeStep DEF Locked
  <1>2. ASSUME NEW q \in Reqs, NEW to \in Pages \cup {Top}, CreateBegin(q, to) PROVE Locked'
    <2>1. PICK read \in Text : Holding(q, "insert", to, to, read)
      BY <1>2 DEF CreateBegin
    <2>2. to \in Pages => to # Top
      BY PagesAssumption
    <2> QED
      BY <1>1, <1>2, <2>1, <2>2, BeginStep DEF CreateBegin
  <1>3. ASSUME NEW q \in Reqs, NEW p \in Pages, NEW to \in Pages \cup {Top, Keep},
               UpdateBegin(q, p, to)
        PROVE Locked'
    <2> DEFINE step == IF to \in Pages THEN "parent" ELSE "save"
    <2>1. Holding(q, step, p, to, text[p])
      BY <1>3 DEF UpdateBegin
    <2>2. step \in {"parent", "save"} /\ (step = "parent" => to \in Pages)
      OBVIOUS
    <2> HIDE DEF step
    <2> QED
      BY <1>1, <1>3, <2>1, <2>2, BeginStep DEF UpdateBegin
  <1>4. ASSUME NEW q \in Reqs, NEW p \in Pages, DeleteBegin(q, p) PROVE Locked'
    <2>1. Keep # p
      BY PagesAssumption
    <2> QED
      BY <1>1, <1>4, <2>1, BeginStep DEF DeleteBegin
  <1>5. ASSUME NEW q \in Reqs, Insert(q) PROVE Locked'
    BY <1>1, <1>5, InsertStep
  <1>6. ASSUME NEW q \in Reqs, CheckParent(q) PROVE Locked'
    <2> DEFINE r == [req[q] EXCEPT !.step = "walk"]
    <2>1. Running(q) /\ req[q] \in Txn /\ req[q].to \in Pages
      BY <1>6 DEF CheckParent, Running, At, Idle, Locked, TypeOK, LockKinds
    <2>2. r.step = "walk" /\ r.lock = req[q].lock /\ r.to = req[q].to
          /\ r.read = req[q].read /\ r # Idle
      BY <2>1 DEF Txn, Idle
    <2>3. CASE Put(q, Idle)
      BY <1>1, <1>6, <2>1, <2>3, GoOnStep DEF CheckParent
    <2>4. CASE Put(q, r)
      <3> HIDE DEF r
      <3> QED
        BY <1>1, <1>6, <2>1, <2>2, <2>4, GoOnStep DEF CheckParent, At
    <2>5. req' = [req EXCEPT ![q].step = "walk"] => Put(q, r)
      BY <2>1 DEF Put, Locked, TypeOK
    <2> QED
      BY <1>6, <2>3, <2>4, <2>5 DEF CheckParent, Finish
  <1>7. ASSUME NEW q \in Reqs, Walk(q) PROVE Locked'
    <2>1. Running(q) /\ req[q] \in Txn /\ req[q].to \in Pages
      BY <1>7 DEF Walk, Running, At, Idle, Locked, TypeOK, LockKinds
    <2>2. ASSUME Put(q, [req[q] EXCEPT !.step = "save"]) PROVE Locked'
      <3> DEFINE r == [req[q] EXCEPT !.step = "save"]
      <3>1. r.step = "save" /\ r.lock = req[q].lock /\ r.to = req[q].to
            /\ r.read = req[q].read /\ r # Idle
        BY <2>1 DEF Txn, Idle
      <3>2. Put(q, r)
        BY <2>2
      <3> HIDE DEF r
      <3> QED
        BY <1>1, <1>7, <2>1, <3>1, <3>2, GoOnStep DEF Walk, At
    <2>3. ASSUME Put(q, [step |-> "walk", lock |-> req[q].lock, to |-> req[q].to,
                         cur |-> parent[req[q].cur],
                         seen |-> req[q].seen \cup {req[q].cur}, read |-> req[q].read])
          PROVE Locked'
      <3> DEFINE r == [step |-> "walk", lock |-> req[q].lock, to |-> req[q].to,
                       cur |-> parent[req[q].cur],
                       seen |-> req[q].seen \cup {req[q].cur}, read |-> req[q].read]
      <3>1. r.step = "walk" /\ r.lock = req[q].lock /\ r.to = req[q].to
            /\ r.read = req[q].read /\ r # Idle
        BY DEF Idle
      <3>2. Put(q, r)
        BY <2>3
      <3> HIDE DEF r
      <3> QED
        BY <1>1, <1>7, <2>1, <3>1, <3>2, GoOnStep DEF Walk, At
    <2>4. ASSUME Finish(q) PROVE Locked'
      BY <1>1, <1>7, <2>1, <2>4, GoOnStep DEF Walk, Finish
    <2> QED
      BY <1>7, <2>2, <2>3, <2>4 DEF Walk
  <1>8. ASSUME NEW q \in Reqs, Save(q) PROVE Locked'
    BY <1>1, <1>8, SaveStep
  <1>9. ASSUME NEW q \in Reqs, CountChildren(q) PROVE Locked'
    <2> DEFINE r == [req[q] EXCEPT !.step = "destroy"]
    <2>1. Running(q) /\ req[q] \in Txn
      BY <1>9 DEF CountChildren, Running, At, Idle, Locked, TypeOK
    <2>2. r.step = "destroy" /\ r.lock = req[q].lock /\ r.to = req[q].to
          /\ r.read = req[q].read /\ r # Idle
      BY <2>1 DEF Txn, Idle
    <2>3. CASE Put(q, Idle)
      BY <1>1, <1>9, <2>1, <2>3, GoOnStep DEF CountChildren
    <2>4. CASE Put(q, r) /\ Children(req[q].lock) = {}
      <3> HIDE DEF r
      <3> QED
        BY <1>1, <1>9, <2>1, <2>2, <2>4, GoOnStep DEF CountChildren, At
    <2>5. req' = [req EXCEPT ![q].step = "destroy"] => Put(q, r)
      BY <2>1 DEF Put, Locked, TypeOK
    <2> QED
      BY <1>9, <2>3, <2>4, <2>5 DEF CountChildren, Finish
  <1>10. ASSUME NEW q \in Reqs, Destroy(q) PROVE Locked'
    BY <1>1, <1>10, DestroyStep
  <1>11. ASSUME NEW q \in Reqs, Rollback(q) PROVE Locked'
    BY <1>1, <1>11, GoOnStep DEF Rollback, Finish, Running
  <1>12. CASE UNCHANGED vars
    BY <1>12, <1>1 DEF vars, Locked, LockKinds, LocksApart, LocksExist, ReadsCurrent,
                 Childless, UnmovedPagesHaveParents, RevisionsMatch, Running, At, Exists
  <1> QED
    BY <1>2, <1>3, <1>4, <1>5, <1>6, <1>7, <1>8, <1>9, <1>10, <1>11, <1>12 DEF Next

----------------------------------------------------------------------------
(* What the locks give, at any isolation level.                             *)

\* The types of WikiTree: every row, revision and transaction is well formed.
THEOREM TypeCorrect == Spec => []TypeOK
  <1>1. Locked => TypeOK
    BY DEF Locked
  <1> QED
    BY <1>1, InitLocked, LockedStep, PTL DEF Spec

\* createPage's lock on the parent and deletePage's count under its own lock:
\* a page that was never moved has its parent.
THEOREM ParentsStay == Spec => []UnmovedPagesHaveParents
  <1>1. Locked => UnmovedPagesHaveParents
    BY DEF Locked
  <1> QED
    BY <1>1, InitLocked, LockedStep, PTL DEF Spec

\* updatePage's lock on the page: the newest revision is the page as it is.
THEOREM HistoryIsCurrent == Spec => []RevisionsMatch
  <1>1. Locked => RevisionsMatch
    BY DEF Locked
  <1> QED
    BY <1>1, InitLocked, LockedStep, PTL DEF Spec

----------------------------------------------------------------------------
(* One transaction at a time.                                               *)

Ordered == Alone /\ Walked /\ Counted /\ NoOrphans /\ (~cut => Acyclic)

\* While q runs, nobody else does.
OnlyOne(q) == \A r \in Reqs : r # q => req[r] = Idle

\* A step that leaves the pages alone keeps the tree; what is left to show is
\* what the transaction knows of it.
LEMMA ReadingStep ==
    ASSUME Ordered, NEW q \in Reqs, UNCHANGED page, OnlyOne(q)',
           At(q, "parent")' => (req[q].seen = {} /\ req[q].cur = req[q].to)',
           At(q, "walk")' =>
             (/\ Exists(req[q].to)
              /\ req[q].to \in req[q].seen \cup {req[q].cur}
              /\ req[q].cur \in Pages => Exists(req[q].cur)
              /\ Above(req[q].seen, req[q].cur, req[q].lock))',
           (At(q, "save") /\ req[q].to \in Pages)' =>
             (Exists(req[q].to) /\ (CutOff(q) \/ ClosedWithout(q)))',
           At(q, "destroy")' => (\A c \in Pages : parent[c] # req[q].lock)'
    PROVE  Ordered'
  <1> USE DEF Ordered
  <1>1. UNCHANGED <<parent, text, last, moved, cut>>
    BY DEF page
  <1>2. NoOrphans' /\ (~cut => Acyclic)'
    BY <1>1 DEF NoOrphans, Acyclic, Exists
  <1>3. \A r \in Reqs : r # q => req'[r] = Idle
    BY DEF OnlyOne
  <1>4. Alone'
    BY <1>3 DEF Alone, Running
  <1>5. \A r \in Reqs : (At(r, "parent") \/ At(r, "walk") \/ At(r, "save") \/ At(r, "destroy"))'
                          => r = q
    BY <1>3 DEF At, Idle
  <1>6. Walked'
    BY <1>5 DEF Walked, At
  <1>7. Counted'
    BY <1>5 DEF Counted, At
  <1> QED
    BY <1>2, <1>4, <1>6, <1>7

\* When the walk is over and was not cut off, it has seen a set of pages that is
\* closed upwards.
LEMMA WalkOver ==
    ASSUME Locked, Ordered, NEW q \in Reqs, At(q, "walk"),
           WalkEnds(q) \/ ~Exists(req[q].cur)
    PROVE  Exists(req[q].to) /\ (CutOff(q) \/ ClosedWithout(q))
  <1> DEFINE r == req[q]
  <1>1. r \in Txn /\ Running(q) /\ r.to \in Pages /\ r.lock \in Pages
    BY DEF Locked, TypeOK, LockKinds, Running, At, Idle
  <1>2. /\ Exists(r.to)
        /\ r.to \in r.seen \cup {r.cur}
        /\ r.cur \in Pages => Exists(r.cur)
        /\ Above(r.seen, r.cur, r.lock)
    BY DEF Ordered, Walked
  <1>3. CASE r.cur = Top
    BY <1>1, <1>2, <1>3, PagesAssumption DEF Above, ClosedWithout
  <1>4. CASE r.cur \in r.seen
    BY <1>1, <1>2, <1>4 DEF Above, ClosedWithout
  <1>5. CASE r.cur # Top /\ r.cur \notin r.seen
    BY <1>1, <1>2, <1>5 DEF WalkEnds, CutOff, Txn
  <1> QED
    BY <1>3, <1>4, <1>5

\* A new page has no children yet, and its parent exists.
LEMMA InsertOrdered ==
    ASSUME Locked, Ordered, NEW q \in Reqs, Insert(q), OnlyOne(q)'
    PROVE  Ordered'
  <1> USE DEF Ordered
  <1>1. PICK x \in Pages : parent[x] = Unborn /\ parent' = [parent EXCEPT ![x] = req[q].to]
    BY DEF Insert
  <1>2. parent'[x] = req[q].to /\ \A y \in Pages : y # x => parent'[y] = parent[y]
    BY <1>1 DEF Locked, TypeOK
  <1>3. /\ req'[q] = Idle /\ req[q].to \in Pages \cup {Top}
        /\ req[q].to \in Pages => Exists(req[q].to) /\ req[q].to # x
    BY <1>1 DEF Insert, Finish, Put, At, Idle, Locked, TypeOK, Txn, LockKinds, LocksExist,
                Running, Exists
  <1>4. \A r \in Reqs : req'[r] = Idle
    BY <1>3 DEF OnlyOne
  <1>5. Alone' /\ Walked' /\ Counted'
    BY <1>4 DEF Alone, Walked, Counted, Running, At, Idle
  <1>6. \A y \in Pages : parent[y] # x
    BY <1>1 DEF NoOrphans, Exists
  <1>7. NoOrphans'
    <2> SUFFICES ASSUME NEW y \in Pages, parent'[y] \in Pages
                 PROVE  parent'[parent'[y]] \notin {Unborn, Gone}
      BY DEF NoOrphans, Exists
    <2>1. CASE y = x
      BY <2>1, <1>2, <1>3 DEF Exists
    <2>2. CASE y # x
      BY <2>2, <1>2, <1>6 DEF NoOrphans, Exists
    <2> QED
      BY <2>1, <2>2
  <1>8. ASSUME ~cut' PROVE Acyclic'
    <2> SUFFICES ASSUME NEW S \in SUBSET Pages, S # {}, \A p \in S : parent'[p] \in S
                 PROVE  FALSE
      BY DEF Acyclic
    <2>1. S \ {x} \in SUBSET Pages /\ \A p \in S \ {x} : parent[p] \in S \ {x}
      BY <1>2, <1>6
    <2>2. S \ {x} # {}
      BY <1>2, <1>3
    <2>3. Acyclic
      BY <1>8 DEF Insert
    <2> QED
      BY <2>1, <2>2, <2>3 DEF Acyclic
  <1> QED
    BY <1>5, <1>7, <1>8

\* A page is moved under a page whose ancestors it is not among.
LEMMA SaveOrdered ==
    ASSUME Locked, Ordered, iso = "immediate", NEW q \in Reqs, Save(q), OnlyOne(q)'
    PROVE  Ordered'
  <1> USE DEF Ordered
  <1> DEFINE p  == req[q].lock
             to == req[q].to
             A  == req[q].seen
  <1>1. /\ At(q, "save") /\ p \in Pages /\ Exists(p) /\ to \in Pages \cup {Top, Keep}
        /\ A \subseteq Pages /\ req'[q] = Idle
    BY DEF Save, Finish, Put, At, Idle, Locked, TypeOK, Txn, LockKinds, LocksExist, Running
  <1>2. \A y \in Pages : y # p => parent'[y] = parent[y]
    BY <1>1 DEF Save, Locked, TypeOK
  <1>3. \/ parent' = parent
        \/ parent'[p] = Top
        \/ to \in Pages /\ parent'[p] = to
    BY <1>1 DEF Save, Locked, TypeOK
  <1>4. \A r \in Reqs : req'[r] = Idle
    BY <1>1 DEF OnlyOne
  <1>5. Alone' /\ Walked' /\ Counted'
    BY <1>4 DEF Alone, Walked, Counted, Running, At, Idle
  <1>6. ~cut' => Acyclic /\ (to \in Pages => ~CutOff(q))
    BY DEF Save
  <1>7. CASE parent' = parent
    BY <1>5, <1>7, <1>6 DEF NoOrphans, Acyclic, Exists
  <1>8. CASE parent'[p] = Top
    <2>1. NoOrphans'
      <3> SUFFICES ASSUME NEW y \in Pages, parent'[y] \in Pages
                   PROVE  parent'[parent'[y]] \notin {Unborn, Gone}
        BY DEF NoOrphans, Exists
      <3>1. parent'[y] = parent[y] /\ Exists(parent[y])
        BY <1>2, <1>8, PagesAssumption DEF NoOrphans
      <3> QED
        BY <3>1, <1>2, <1>8 DEF Exists, Top, Unborn, Gone
    <2>2. ASSUME ~cut' PROVE Acyclic'
      <3> SUFFICES ASSUME NEW S \in SUBSET Pages, S # {}, \A y \in S : parent'[y] \in S
                   PROVE  FALSE
        BY DEF Acyclic
      <3>1. p \notin S
        BY <1>8, PagesAssumption
      <3> QED
        BY <3>1, <1>2, <1>6, <2>2 DEF Acyclic
    <2> QED
      BY <1>5, <2>1, <2>2
  <1>9. CASE to \in Pages /\ parent'[p] = to
    <2>1. Exists(to)
      BY <1>1, <1>9 DEF Walked
    <2>2. NoOrphans'
      <3> SUFFICES ASSUME NEW y \in Pages, parent'[y] \in Pages
                   PROVE  parent'[parent'[y]] \notin {Unborn, Gone}
        BY DEF NoOrphans, Exists
      <3>1. Exists(parent'[y])
        BY <1>2, <1>9, <2>1 DEF NoOrphans
      <3>2. to \notin {Unborn, Gone}
        BY <1>9, PagesAssumption
      <3> QED
        BY <3>1, <3>2, <1>2, <1>9 DEF Exists
    <2>3. ASSUME ~cut' PROVE Acyclic'
      <3> SUFFICES ASSUME NEW S \in SUBSET Pages, S # {}, \A y \in S : parent'[y] \in S
                   PROVE  FALSE
        BY DEF Acyclic
      <3>1. to \in A /\ p \notin A /\ \A x \in A : parent[x] \in A \cup {Top}
        BY <1>1, <1>9, <1>6, <2>3 DEF Walked, ClosedWithout, Above
      <3>2. CASE p \notin S
        BY <3>2, <1>2, <1>6, <2>3 DEF Acyclic
      <3>3. CASE p \in S
        <4>1. to \in S \cap A
          BY <3>3, <1>9, <3>1
        <4>2. \A y \in S \cap A : parent[y] \in S \cap A
          BY <1>2, <3>1, PagesAssumption
        <4> QED
          BY <4>1, <4>2, <1>6, <2>3 DEF Acyclic
      <3> QED
        BY <3>2, <3>3
    <2> QED
      BY <1>5, <2>2, <2>3
  <1> QED
    BY <1>3, <1>7, <1>8, <1>9

\* A page without children is no page's parent.
LEMMA DestroyOrdered ==
    ASSUME Locked, Ordered, NEW q \in Reqs, Destroy(q), OnlyOne(q)'
    PROVE  Ordered'
  <1> USE DEF Ordered
  <1> DEFINE p == req[q].lock
  <1>1. At(q, "destroy") /\ p \in Pages /\ req'[q] = Idle
    BY DEF Destroy, Finish, Put, At, Idle, Locked, TypeOK, LockKinds, Running
  <1>2. parent'[p] = Gone /\ \A y \in Pages : y # p => parent'[y] = parent[y]
    BY <1>1 DEF Destroy, Locked, TypeOK
  <1>3. \A y \in Pages : parent[y] # p
    BY <1>1 DEF Counted
  <1>4. \A r \in Reqs : req'[r] = Idle
    BY <1>1 DEF OnlyOne
  <1>5. Alone' /\ Walked' /\ Counted'
    BY <1>4 DEF Alone, Walked, Counted, Running, At, Idle
  <1>6. NoOrphans'
    <2> SUFFICES ASSUME NEW y \in Pages, parent'[y] \in Pages
                 PROVE  parent'[parent'[y]] \notin {Unborn, Gone}
      BY DEF NoOrphans, Exists
    <2>1. parent'[y] = parent[y] /\ parent[y] # p /\ Exists(parent[y])
      BY <1>2, <1>3, PagesAssumption DEF NoOrphans
    <2> QED
      BY <2>1, <1>2 DEF Exists
  <1>7. ASSUME ~cut' PROVE Acyclic'
    <2> SUFFICES ASSUME NEW S \in SUBSET Pages, S # {}, \A y \in S : parent'[y] \in S
                 PROVE  FALSE
      BY DEF Acyclic
    <2>1. p \notin S
      BY <1>2, PagesAssumption
    <2>2. Acyclic
      BY <1>7 DEF Destroy
    <2> QED
      BY <2>1, <2>2, <1>2 DEF Acyclic
  <1> QED
    BY <1>5, <1>6, <1>7

\* Who may take a step is alone, and remains so.
LEMMA OtherIdle ==
    ASSUME Locked, Ordered, iso = "immediate", NEW q \in Reqs, NEW r, Put(q, r),
           Running(q) \/ Enter(q)
    PROVE  OnlyOne(q)' /\ req'[q] = r
  <1>1. \A x \in Reqs : x # q => req[x] = Idle
    BY DEF Ordered, Alone, Running, Enter
  <1> QED
    BY <1>1 DEF OnlyOne, Put, Locked, TypeOK

LEMMA OrderedStep ==
    ASSUME Locked, Ordered, iso = "immediate", Next
    PROVE  Ordered'
  <1>1. ASSUME NEW q \in Reqs, NEW to \in Pages \cup {Top}, CreateBegin(q, to)
        PROVE  Ordered'
    <2>1. PICK read \in Text : Holding(q, "insert", to, to, read)
      BY <1>1 DEF CreateBegin
    <2> DEFINE r == [step |-> "insert", lock |-> to, to |-> to,
                     cur |-> IF to = Keep THEN Top ELSE to, seen |-> {}, read |-> read]
    <2>2. Put(q, r) /\ r.step = "insert"
      BY <2>1 DEF Holding
    <2> HIDE DEF r
    <2>3. OnlyOne(q)' /\ req'[q].step = "insert"
      BY <1>1, <2>2, OtherIdle DEF CreateBegin
    <2> QED
      BY <1>1, <2>3, ReadingStep DEF CreateBegin, At
  <1>2. ASSUME NEW q \in Reqs, NEW p \in Pages, NEW to \in Pages \cup {Top, Keep},
               UpdateBegin(q, p, to)
        PROVE  Ordered'
    <2> DEFINE r == [step |-> IF to \in Pages THEN "parent" ELSE "save", lock |-> p,
                     to |-> to, cur |-> IF to = Keep THEN Top ELSE to, seen |-> {},
                     read |-> text[p]]
    <2>1. Put(q, r)
      BY <1>2 DEF UpdateBegin, Holding
    <2>2. /\ r.step = IF to \in Pages THEN "parent" ELSE "save"
          /\ r.to = to /\ r.seen = {}
          /\ to \in Pages => r.cur = to
      BY PagesAssumption
    <2> HIDE DEF r
    <2>3. OnlyOne(q)' /\ req'[q] = r
      BY <1>2, <2>1, OtherIdle DEF UpdateBegin
    <2> QED
      BY <1>2, <2>2, <2>3, ReadingStep DEF UpdateBegin, At
  <1>3. ASSUME NEW q \in Reqs, NEW p \in Pages, DeleteBegin(q, p) PROVE Ordered'
    <2> DEFINE r == [step |-> "count", lock |-> p, to |-> Keep,
                     cur |-> IF Keep = Keep THEN Top ELSE Keep, seen |-> {},
                     read |-> text[p]]
    <2>1. Put(q, r) /\ r.step = "count"
      BY <1>3 DEF DeleteBegin, Holding
    <2> HIDE DEF r
    <2>2. OnlyOne(q)' /\ req'[q].step = "count"
      BY <1>3, <2>1, OtherIdle DEF DeleteBegin
    <2> QED
      BY <1>3, <2>2, ReadingStep DEF DeleteBegin, At
  <1>4. ASSUME NEW q \in Reqs, Running(q), Finish(q) PROVE OnlyOne(q)' /\ req'[q] = Idle
    BY <1>4, OtherIdle DEF Finish
  <1>5. ASSUME NEW q \in Reqs, Running(q), Finish(q), UNCHANGED page PROVE Ordered'
    <2>1. OnlyOne(q)' /\ req'[q] = Idle
      BY <1>4, <1>5
    <2>2. ~(At(q, "parent") \/ At(q, "walk") \/ At(q, "save") \/ At(q, "destroy"))'
      BY <2>1 DEF At, Idle
    <2> QED
      BY <1>5, <2>1, <2>2, ReadingStep
  <1>6. ASSUME NEW q \in Reqs, Insert(q) PROVE Ordered'
    <2>1. Running(q) /\ Finish(q)
      BY <1>6 DEF Insert, At, Idle, Running
    <2> QED
      BY <1>4, <1>6, <2>1, InsertOrdered
  <1>7. ASSUME NEW q \in Reqs, CheckParent(q) PROVE Ordered'
    <2>1. Running(q) /\ At(q, "parent") /\ UNCHANGED page /\ req[q] \in Txn
      BY <1>7 DEF CheckParent, At, Idle, Running, Locked, TypeOK
    <2>2. CASE Finish(q)
      BY <1>5, <2>1, <2>2
    <2>3. CASE Exists(req[q].to) /\ req' = [req EXCEPT ![q].step = "walk"]
      <3>1. /\ req'[q].step = "walk" /\ req'[q].to = req[q].to
            /\ req'[q].cur = req[q].to /\ req'[q].seen = {}
        BY <2>1, <2>3 DEF Ordered, Walked, Locked, TypeOK, Txn
      <3>2. OnlyOne(q)'
        BY <2>1, <2>3, OtherIdle DEF Put, Locked, TypeOK
      <3>3. Exists(req[q].to)'
        BY <2>1, <2>3, <3>1 DEF Exists, page
      <3> QED
        BY <2>1, <3>1, <3>2, <3>3, ReadingStep DEF At, Above
    <2> QED
      BY <1>7, <2>2, <2>3 DEF CheckParent
  <1>8. ASSUME NEW q \in Reqs, Walk(q) PROVE Ordered'
    <2> DEFINE r == req[q]
    <2>1. /\ Running(q) /\ At(q, "walk") /\ UNCHANGED page
          /\ r \in Txn /\ r.to \in Pages /\ r.lock \in Pages
      BY <1>8 DEF Walk, At, Idle, Running, Locked, TypeOK, LockKinds
    <2>2. CASE Finish(q)
      BY <1>5, <2>1, <2>2
    <2>3. ASSUME Put(q, [r EXCEPT !.step = "save"]), WalkEnds(q) \/ ~Exists(r.cur)
          PROVE  Ordered'
      <3>1. /\ req'[q].step = "save" /\ req'[q].to = r.to
            /\ req'[q].seen = r.seen /\ req'[q].lock = r.lock /\ req'[q].cur = r.cur
        BY <2>1, <2>3 DEF Put, Locked, TypeOK, Txn
      <3>2. OnlyOne(q)'
        BY <2>1, <2>3, OtherIdle
      <3>3. Exists(r.to) /\ (CutOff(q) \/ ClosedWithout(q))
        BY <2>1, <2>3, WalkOver
      <3>4. UNCHANGED parent
        BY <2>1 DEF page
      <3>5. (Exists(req[q].to) /\ (CutOff(q) \/ ClosedWithout(q)))'
        BY <3>1, <3>3, <3>4 DEF Exists, Above, CutOff, ClosedWithout
      <3> QED
        BY <2>1, <3>1, <3>2, <3>5, ReadingStep DEF At
    <2>4. ASSUME ~WalkEnds(q), r.cur # r.lock, Exists(r.cur),
                 Put(q, [step |-> "walk", lock |-> r.lock, to |-> r.to,
                         cur |-> parent[r.cur], seen |-> r.seen \cup {r.cur},
                         read |-> r.read])
          PROVE  Ordered'
      <3>1. /\ req'[q].step = "walk" /\ req'[q].to = r.to /\ req'[q].lock = r.lock
            /\ req'[q].cur = parent[r.cur] /\ req'[q].seen = r.seen \cup {r.cur}
        BY <2>1, <2>4 DEF Put, Locked, TypeOK
      <3>2. OnlyOne(q)'
        BY <2>1, <2>4, OtherIdle
      <3>3. /\ Exists(r.to)
            /\ r.to \in r.seen \cup {r.cur}
            /\ r.cur \in Pages => Exists(r.cur)
            /\ Above(r.seen, r.cur, r.lock)
        BY <2>1 DEF Ordered, Walked
      <3>4. r.cur \in Pages
        BY <2>1, <2>4 DEF WalkEnds, Txn
      <3>5. parent' = parent
        BY <2>1 DEF page
      <3>6. parent[r.cur] \in Pages => Exists(parent[r.cur])
        BY <3>4 DEF Ordered, NoOrphans
      <3>7. Above(r.seen \cup {r.cur}, parent[r.cur], r.lock)
        BY <2>4, <3>3, <3>4 DEF Above
      <3>8. (/\ Exists(req[q].to)
             /\ req[q].to \in req[q].seen \cup {req[q].cur}
             /\ req[q].cur \in Pages => Exists(req[q].cur)
             /\ Above(req[q].seen, req[q].cur, req[q].lock))'
        BY <3>1, <3>3, <3>5, <3>6, <3>7 DEF Exists, Above
      <3> QED
        BY <2>1, <3>1, <3>2, <3>8, ReadingStep DEF At
    <2> QED
      BY <1>8, <2>2, <2>3, <2>4 DEF Walk
  <1>9. ASSUME NEW q \in Reqs, Save(q) PROVE Ordered'
    <2>1. Running(q) /\ Finish(q)
      BY <1>9 DEF Save, At, Idle, Running
    <2> QED
      BY <1>4, <1>9, <2>1, SaveOrdered
  <1>10. ASSUME NEW q \in Reqs, CountChildren(q) PROVE Ordered'
    <2>1. Running(q) /\ At(q, "count") /\ UNCHANGED page /\ req[q] \in Txn
      BY <1>10 DEF CountChildren, At, Idle, Running, Locked, TypeOK
    <2>2. CASE Finish(q)
      BY <1>5, <2>1, <2>2
    <2>3. CASE Children(req[q].lock) = {} /\ req' = [req EXCEPT ![q].step = "destroy"]
      <3>1. req'[q].step = "destroy" /\ req'[q].lock = req[q].lock
        BY <2>1, <2>3 DEF Locked, TypeOK, Txn
      <3>2. OnlyOne(q)'
        BY <2>1, <2>3, OtherIdle DEF Put, Locked, TypeOK
      <3>3. \A c \in Pages : parent'[c] # req[q].lock
        BY <2>1, <2>3 DEF Children, page
      <3> QED
        BY <2>1, <3>1, <3>2, <3>3, ReadingStep DEF At
    <2> QED
      BY <1>10, <2>2, <2>3 DEF CountChildren
  <1>11. ASSUME NEW q \in Reqs, Destroy(q) PROVE Ordered'
    <2>1. Running(q) /\ Finish(q)
      BY <1>11 DEF Destroy, At, Idle, Running
    <2> QED
      BY <1>4, <1>11, <2>1, DestroyOrdered
  <1>12. ASSUME NEW q \in Reqs, Rollback(q) PROVE Ordered'
    BY <1>5, <1>12 DEF Rollback, Running
  <1> QED
    BY <1>1, <1>2, <1>3, <1>6, <1>7, <1>8, <1>9, <1>10, <1>11, <1>12 DEF Next

\* Where transactions are IMMEDIATE the pages stay a tree, however many there
\* are, until a page is moved under one with more than MaxWalk ancestors; and
\* every page stays under one that exists after that, too.
THEOREM TheTreeIsKept == Spec => []SerialTree
  <1>1. Init => Serial
    <2> SUFFICES ASSUME Init PROVE Ordered
      BY DEF Serial, Ordered
    <2>1. \A q \in Reqs : req[q] = Idle
      BY DEF Init
    <2>2. Alone /\ Walked /\ Counted
      BY <2>1 DEF Alone, Walked, Counted, Running, At, Idle
    <2>3. \A p \in Pages : parent[p] = Unborn /\ parent[p] \notin Pages
      BY PagesAssumption DEF Init
    <2> QED
      BY <2>2, <2>3 DEF Ordered, NoOrphans, Acyclic
  <1>2. Locked /\ Serial /\ [Next]_vars => Serial'
    <2> SUFFICES ASSUME Locked, Serial, [Next]_vars, iso' = "immediate" PROVE Ordered'
      BY DEF Serial, Ordered
    <2>1. iso = "immediate"
      BY DEF Next, vars, page, CreateBegin, UpdateBegin, DeleteBegin, Insert, CheckParent, Walk,
             Save, CountChildren, Destroy, Rollback
    <2>2. Ordered
      BY <2>1 DEF Serial, Ordered
    <2>3. CASE Next
      BY <2>1, <2>2, <2>3, OrderedStep
    <2>4. CASE UNCHANGED vars
      BY <2>2, <2>4 DEF vars, Ordered, Alone, Walked, Counted, NoOrphans, Acyclic, Above,
                        ClosedWithout, CutOff, Running, At, Exists
    <2> QED
      BY <2>3, <2>4
  <1>3. Serial => SerialTree
    BY DEF Serial, SerialTree
  <1> QED
    BY <1>1, <1>2, <1>3, InitLocked, LockedStep, PTL DEF Spec
=============================================================================

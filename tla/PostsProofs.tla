---------------------------- MODULE PostsProofs ----------------------------
(***************************************************************************)
(* Proofs about Posts, for any posts, files and boards, any number of      *)
(* requests in flight, stops and failing statements.  A file is called     *)
(* stale when a commit has left it to a row from an outdated read; what is *)
(* proved of the other files is that none is lost and none forgotten.      *)
(***************************************************************************)
EXTENDS Posts, FiniteSetTheorems, TLAPS

----------------------------------------------------------------------------
(* The inductive invariant                                                  *)

Unlinkers == {q \in Slots : req[q].op = "unlink"}

\* What a request in flight is about and holds.
ShapeOf(w) ==
    /\ w.op \in {"create", "update", "delete"} => \E p \in PostIds : w.posts = {p}
    /\ w.op \in {"create", "update"} =>
         /\ Admitted(w.put)
         /\ w.put \cap w.drop = {}
         /\ w.seen \cup w.fresh \subseteq w.put \cup w.drop
    /\ w.op = "create" =>
         /\ w.put = w.fresh /\ w.drop = {}
         /\ \A p \in w.posts : row[p] = Unborn
    /\ w.op \notin {"create", "update"} => w.fresh = {}
    /\ w.op = "purge" =>
         \A p \in w.posts : row[p] = Gone \/ (p \in Trash /\ row[p].files \subseteq w.drop)
Shapes    == \A q \in Working : ShapeOf(req[q])
OneAuthor == \A q, r \in Working :
               req[q].op = "create" /\ q # r => req[q].posts \cap req[r].posts = {}

\* A file that is not stale: one row names it at most, an upload is nobody
\* else's, a live post's is on disk with no unlink on its way, and who means to
\* drop it has read it in the row that names it.
Names(p, f) == p \in Rows /\ f \in row[p].files
Alone(f) == \A p, r \in PostIds : Names(p, f) /\ Names(r, f) => p = r
Fresh(f) ==
    \A q \in Working : f \in req[q].fresh =>
      /\ f \in disk
      /\ \A p \in PostIds : ~Names(p, f)
      /\ \A r \in Busy \ {q} : f \notin req[r].drop
      /\ \A r \in Working \ {q} : f \notin req[r].fresh
There(f) ==
    \A p \in Live : f \in row[p].files =>
      f \in disk /\ \A q \in Unlinkers : f \notin req[q].drop
Read(f) ==
    \A q \in Working : f \in req[q].drop =>
      f \in req[q].fresh \/ \A p \in PostIds : Names(p, f) => p \in req[q].posts
Sound(f) == Alone(f) /\ Fresh(f) /\ There(f) /\ Read(f)
AllSound == \A f \in Files \ stale : Sound(f)

\* What is on disk is named, or about to be unlinked, or about to be named; of
\* the files in a purge's list some have lost their rows already.
Droppers == {q \in Slots : req[q].op = "unlink" \/ req[q].op = "purge"}
Pending == (UNION {req[q].drop : q \in Droppers}) \cup (UNION {req[q].fresh : q \in Working})
Kept    == disk \subseteq Named \cup Pending \cup leaked

IInv == TypeOK /\ Shapes /\ OneAuthor /\ AllSound /\ Kept

----------------------------------------------------------------------------
(* Requests and rows                                                        *)

Ops == {"create", "update", "delete", "purge", "board"}

LEMMA RecordTypes ==
    /\ Idle.op = "none" /\ Idle \notin Work /\ Idle \notin Unlinking
    /\ \A w \in Work : /\ w.op \in Ops /\ w.posts \subseteq PostIds /\ w.board \in Boards
                       /\ w.to \in Boards /\ w.seen \subseteq Files /\ w.put \subseteq Files
                       /\ w.fresh \subseteq Files /\ w.drop \subseteq Files
                       /\ w # Idle
    /\ \A u \in Unlinking : u.op = "unlink" /\ u.drop \subseteq Files /\ u # Idle
    /\ \A d \in SUBSET Files : [op |-> "unlink", drop |-> d] \in Unlinking
BY DEF Idle, Work, Unlinking, Ops

LEMMA Flights ==
    ASSUME TypeOK
    PROVE  /\ \A q \in Slots : q \in Working <=> req[q] \in Work
           /\ \A q \in Slots : q \in Working <=> req[q].op \in Ops
           /\ \A q \in Slots : q \in Unlinkers <=> req[q] \in Unlinking
           /\ \A q \in Slots : q \in Busy <=> q \in Working \cup Unlinkers
           /\ \A q \in Slots : req[q] = Idle => q \notin Working /\ q \notin Unlinkers
           /\ Working \subseteq Busy /\ Busy \subseteq Slots /\ Unlinkers \subseteq Busy
           /\ Working \cap Unlinkers = {}
           /\ Unlinkers \subseteq Droppers /\ Droppers \subseteq Busy
<1>1. \A q \in Slots : req[q] \in Work \/ req[q] \in Unlinking \/ req[q] = Idle
  BY DEF TypeOK
<1>2. \A q \in Slots : /\ req[q] \in Work => req[q].op \in Ops /\ req[q] # Idle
                       /\ req[q] \in Unlinking => req[q].op = "unlink" /\ req[q] # Idle
                       /\ req[q] = Idle => req[q].op = "none"
  BY RecordTypes
<1>3. "unlink" \notin Ops /\ "none" \notin Ops /\ "none" # "unlink"
  BY DEF Ops
<1>4. "purge" \in Ops
  BY DEF Ops
<1> QED
  BY <1>1, <1>2, <1>3, <1>4 DEF Working, Busy, Unlinkers, Droppers

\* A list that is part of an admissible one.
LEMMA Sublists ==
    ASSUME NEW files, Admitted(files), NEW some, some \subseteq files
    PROVE  Admitted(some) /\ IsFiniteSet(some)
<1>1. /\ IsFiniteSet(files) /\ IsFiniteSet(some) /\ Cardinality(some) <= Cardinality(files)
      /\ Cardinality(some) \in Nat /\ Cardinality(files) \in Nat
  BY FS_Subset, FS_CardinalityType DEF Admitted, AtMost
<1> QED
  BY <1>1, PostsAssumption DEF Admitted, AtMost

LEMMA RowTypes ==
    /\ Unborn.st = "unborn" /\ Gone.st = "gone" /\ Unborn \notin Row /\ Gone \notin Row
    /\ Unborn # Gone
    /\ \A x \in Row : x.st \in {"live", "trash"} /\ x.board \in Boards /\ x.files \subseteq Files
    /\ \A s \in {"live", "trash"}, b \in Boards, f \in SUBSET Files :
         [st |-> s, board |-> b, files |-> f] \in Row
BY DEF Unborn, Gone, Row

LEMMA RowStates ==
    ASSUME TypeOK
    PROVE  /\ \A p \in PostIds : p \in Rows <=> row[p] \in Row
           /\ \A p \in PostIds : p \in Rows <=> p \in Live \/ p \in Trash
           /\ Rows \subseteq PostIds /\ Live \subseteq Rows /\ Trash \subseteq Rows
           /\ Live \cap Trash = {}
           /\ \A p \in Rows : row[p].files \subseteq Files /\ row[p].board \in Boards
                              /\ Admitted(row[p].files)
           /\ \A p \in PostIds : row[p] = Unborn \/ row[p] = Gone => p \notin Rows
BY RowTypes DEF TypeOK, Rows, Live, Trash

LEMMA NamedByRows ==
    /\ \A f : f \in Named <=> \E p \in Rows : f \in row[p].files
    /\ \A f : f \in Pending <=> \/ \E q \in Droppers : f \in req[q].drop
                                \/ \E q \in Working : f \in req[q].fresh
    /\ \A f : f \in InFlight <=> \/ \E q \in Busy : f \in req[q].drop
                                 \/ \E q \in Working : f \in req[q].fresh
<1>1. \A f : f \in Named <=> \E p \in Rows : f \in row[p].files
  BY DEF Named, FilesOf
<1>2. \A f : f \in Pending <=> \/ \E q \in Droppers : f \in req[q].drop
                               \/ \E q \in Working : f \in req[q].fresh
  BY DEF Pending
<1>3. \A f : f \in InFlight <=> \/ \E q \in Busy : f \in req[q].drop
                                \/ \E q \in Working : f \in req[q].fresh
  BY DEF InFlight
<1> QED
  BY <1>1, <1>2, <1>3

----------------------------------------------------------------------------
(* Requests that begin                                                      *)

LEMMA BeginKeeps ==
    ASSUME IInv, NEW q \in Slots, req[q] = Idle,
           NEW w \in Work, w.op = "purge" => q \notin Reqs,
           req' = [req EXCEPT ![q] = w],
           UNCHANGED <<open, row, stale, leaked, faults>>,
           disk' = disk \cup w.fresh, w.fresh \subseteq Unused,
           ShapeOf(w),
           w.op = "create" => \A r \in Working : w.posts \cap req[r].posts = {},
           w.op # "create" => w.posts \subseteq Rows,
           \A f \in w.drop : f \in w.fresh \/ \E p \in w.posts : Names(p, f)
    PROVE  IInv'
<1>1. req'[q] = w /\ \A r \in Slots \ {q} : req'[r] = req[r]
  BY DEF IInv, TypeOK
<1>2. TypeOK'
  <2>1. w.fresh \subseteq Files
    BY RecordTypes
  <2>2. req' \in [Slots -> Work \cup Unlinking \cup {Idle}]
    BY DEF IInv, TypeOK
  <2>3. \A r \in Reqs : req'[r].op # "purge"
    BY <1>1 DEF IInv, TypeOK, Slots
  <2> QED
    BY <2>1, <2>2, <2>3 DEF IInv, TypeOK
<1>3. /\ Working' = Working \cup {q} /\ Busy' = Busy \cup {q} /\ Unlinkers' = Unlinkers
      /\ q \notin Busy /\ q \notin Working /\ q \notin Unlinkers
      /\ q \notin Droppers /\ Droppers \subseteq Droppers'
  <2>1. w # Idle /\ w.op \in Ops /\ "unlink" \notin Ops
    BY RecordTypes DEF Ops
  <2> QED
    BY <1>1, <2>1, Flights DEF IInv, Working, Busy, Unlinkers, Droppers
<1>4. Rows' = Rows /\ Live' = Live /\ Trash' = Trash /\ Named' = Named
      /\ \A p, f : Names(p, f)' <=> Names(p, f)
  BY DEF Rows, Live, Trash, Named, FilesOf, Names
<1>5. Shapes'
  <2> SUFFICES ASSUME NEW r \in Working' PROVE ShapeOf(req[r])'
    BY DEF Shapes
  <2>1. CASE r = q
    BY <1>1, <1>4, <2>1 DEF ShapeOf
  <2>2. CASE r # q
    BY <1>1, <1>3, <1>4, <2>2, Flights DEF IInv, Shapes, ShapeOf
  <2> QED
    BY <2>1, <2>2
<1>6. OneAuthor'
  <2> SUFFICES ASSUME NEW r \in Working', NEW s \in Working',
                      req'[r].op = "create", r # s
               PROVE  req'[r].posts \cap req'[s].posts = {}
    BY DEF OneAuthor
  <2>1. CASE r # q /\ s # q
    BY <1>1, <1>3, <2>1, Flights DEF IInv, OneAuthor
  <2>2. CASE r = q
    BY <1>1, <1>3, <2>2, Flights DEF IInv
  <2>3. CASE s = q
    <3>1. CASE w.op = "create"
      BY <1>1, <1>3, <2>3, <3>1, Flights DEF IInv
    <3>2. CASE w.op # "create"
      <4>1. r \in Working /\ req'[r] = req[r]
        BY <1>1, <1>3, <2>3, Flights DEF IInv
      <4>2. \A p \in req[r].posts : row[p] = Unborn
        BY <4>1 DEF IInv, Shapes, ShapeOf
      <4>3. req[r].posts \subseteq PostIds
        BY <4>1, Flights, RecordTypes DEF IInv
      <4> QED
        BY <1>1, <2>3, <3>2, <4>1, <4>2, <4>3, RowStates DEF IInv
    <3> QED
      BY <3>1, <3>2
  <2> QED
    BY <2>1, <2>2, <2>3
<1>7. AllSound'
  <2> SUFFICES ASSUME NEW f \in Files \ stale PROVE Sound(f)'
    BY DEF AllSound
  <2>1. Alone(f) /\ Fresh(f) /\ There(f) /\ Read(f)
    BY DEF IInv, AllSound, Sound
  <2>2. f \in w.fresh => /\ f \notin disk /\ \A p \in PostIds : ~Names(p, f)
                         /\ \A r \in Busy : f \notin req[r].drop
                         /\ \A r \in Working : f \notin req[r].fresh
    BY NamedByRows DEF Unused, Names
  <2>3. Alone(f)'
    BY <1>4, <2>1 DEF Alone
  <2>4. Fresh(f)'
    <3> SUFFICES ASSUME NEW r \in Working', f \in req'[r].fresh
                 PROVE  /\ f \in disk'
                        /\ \A p \in PostIds : ~Names(p, f)
                        /\ \A s \in Busy' \ {r} : f \notin req'[s].drop
                        /\ \A s \in Working' \ {r} : f \notin req'[s].fresh
      BY <1>4 DEF Fresh
    <3>1. CASE r = q
      BY <1>1, <1>3, <2>2, <3>1, Flights DEF IInv
    <3>2. CASE r # q
      <4>1. r \in Working /\ req'[r] = req[r]
        BY <1>1, <1>3, <3>2, Flights DEF IInv
      <4>2. /\ f \in disk /\ \A p \in PostIds : ~Names(p, f)
            /\ \A s \in Busy \ {r} : f \notin req[s].drop
            /\ \A s \in Working \ {r} : f \notin req[s].fresh
        BY <2>1, <4>1 DEF Fresh
      <4>3. f \notin w.fresh
        BY <2>2, <4>1
      <4>4. f \notin w.drop
        BY <4>2, <4>3, RecordTypes
      <4> QED
        BY <1>1, <1>3, <4>2, <4>3, <4>4, Flights DEF IInv
    <3> QED
      BY <3>1, <3>2
  <2>5. There(f)'
    BY <1>1, <1>3, <1>4, <2>1, Flights DEF IInv, There
  <2>6. Read(f)'
    <3> SUFFICES ASSUME NEW r \in Working', f \in req'[r].drop
                 PROVE  f \in req'[r].fresh \/ \A p \in PostIds : Names(p, f) => p \in req'[r].posts
      BY <1>4 DEF Read
    <3>1. CASE r = q
      BY <1>1, <2>1, <3>1, RecordTypes DEF Alone
    <3>2. CASE r # q
      BY <1>1, <1>3, <2>1, <3>2, Flights DEF IInv, Read
    <3> QED
      BY <3>1, <3>2
  <2> QED
    BY <2>3, <2>4, <2>5, <2>6 DEF Sound
<1>8. Kept'
  <2> SUFFICES ASSUME NEW f \in disk' PROVE f \in Named \/ f \in Pending' \/ f \in leaked
    BY <1>4 DEF Kept
  <2>1. CASE f \in disk
    <3>1. f \in Named \/ f \in Pending \/ f \in leaked
      BY <2>1 DEF IInv, Kept
    <3>2. f \in Pending => f \in Pending'
      BY <1>1, <1>3, Flights DEF IInv, Pending
    <3> QED
      BY <3>1, <3>2
  <2>2. CASE f \in w.fresh
    BY <1>1, <1>3, <2>2 DEF Pending
  <2> QED
    BY <2>1, <2>2
<1> QED
  BY <1>2, <1>5, <1>6, <1>7, <1>8 DEF IInv

LEMMA CreateBegins ==
    ASSUME IInv, NEW q \in Reqs, NEW p \in PostIds, NEW b \in Boards,
           NEW new \in SUBSET Unused, CreateBegin(q, p, b, new)
    PROVE  IInv'
<1> DEFINE w == [Request("create", {p}, b) EXCEPT !.put = new, !.fresh = new]
<1>1. /\ row[p] = Unborn /\ \A r \in Working : p \notin req[r].posts
      /\ Admitted(new)
      /\ disk' = disk \cup new /\ req[q] = Idle /\ req' = [req EXCEPT ![q] = w]
      /\ UNCHANGED <<open, row, stale, leaked, faults>>
  BY DEF CreateBegin, Begin, NoHistory, Admitted
<1>2. new \subseteq Files
  BY DEF Unused
<1>3. /\ w \in Work /\ w.op = "create" /\ w.posts = {p} /\ w.put = new /\ w.fresh = new
      /\ w.seen = {} /\ w.drop = {}
  BY <1>2 DEF Request, Work
<1> HIDE DEF w
<1>4. ShapeOf(w)
  BY <1>1, <1>3 DEF ShapeOf
<1>5. q \in Slots
  BY DEF Slots
<1> QED
  BY <1>1, <1>3, <1>4, <1>5, BeginKeeps

LEMMA UpdateBegins ==
    ASSUME IInv, NEW q \in Reqs, NEW p \in PostIds, NEW b \in Boards, NEW to \in Boards,
           NEW new \in SUBSET Unused, NEW kept, NEW cut,
           UpdateBegin(q, p, b, to, kept, new, cut)
    PROVE  IInv'
<1> DEFINE w == [Request("update", {p}, b) EXCEPT
                   !.to = to, !.seen = row[p].files, !.fresh = new,
                   !.put = (kept \cup new) \ cut,
                   !.drop = (row[p].files \ kept) \cup cut]
<1>1. /\ p \in Live /\ kept \subseteq row[p].files /\ cut \in Cut(kept, new)
      /\ disk' = disk \cup new /\ req[q] = Idle /\ req' = [req EXCEPT ![q] = w]
      /\ UNCHANGED <<open, row, stale, leaked, faults>>
  BY DEF UpdateBegin, Begin, NoHistory
<1>2. /\ new \subseteq Files /\ p \in Rows /\ row[p].files \subseteq Files
      /\ cut \subseteq kept \cup new /\ Admitted(row[p].files)
  BY <1>1, RowStates DEF IInv, Unused, Cut
<1>8. Admitted((kept \cup new) \ cut)
  <2>1. CASE new = {}
    <3>1. cut = {} /\ (kept \cup new) \ cut = kept
      BY <1>1, <2>1 DEF Cut
    <3> QED
      BY <1>1, <1>2, <3>1, Sublists
  <2>2. CASE new # {}
    <3>1. Cardinality((kept \cup new) \ cut) <= MaxFileCount
      BY <1>1, <2>2 DEF Cut
    <3>2. IsFiniteSet(kept) /\ IsFiniteSet(new)
      BY <1>1, <1>2, Sublists DEF UpdateBegin, AtMost
    <3>3. IsFiniteSet((kept \cup new) \ cut)
      BY <3>2, FS_Union, FS_Subset
    <3> QED
      BY <3>1, <3>3 DEF Admitted, AtMost
  <2> QED
    BY <2>1, <2>2
<1>3. /\ w \in Work /\ w.op = "update" /\ w.posts = {p} /\ w.fresh = new
      /\ w.put = (kept \cup new) \ cut /\ w.seen = row[p].files
      /\ w.drop = (row[p].files \ kept) \cup cut
  BY <1>1, <1>2 DEF Request, Work
<1> HIDE DEF w
<1>4. w.put \cap w.drop = {}
  <2>1. ASSUME NEW f \in new, f \in row[p].files PROVE FALSE
    BY <1>2, <2>1, NamedByRows DEF Unused
  <2> QED
    BY <1>1, <1>2, <1>3, <2>1
<1>5. ShapeOf(w)
  BY <1>1, <1>2, <1>3, <1>4, <1>8 DEF ShapeOf
<1>6. \A f \in w.drop : f \in w.fresh \/ \E r \in w.posts : Names(r, f)
  BY <1>1, <1>2, <1>3 DEF Names
<1>7. q \in Slots
  BY DEF Slots
<1> QED
  BY <1>1, <1>2, <1>3, <1>5, <1>6, <1>7, BeginKeeps

\* A request without uploads, about rows that it has read.
LEMMA ReadersBegin ==
    ASSUME IInv, NEW q \in Slots, NEW op \in {"delete", "purge", "board"},
           op = "purge" => q \notin Reqs,
           NEW b \in Boards, NEW ps \in SUBSET Rows,
           op = "delete" => \E p \in PostIds : ps = {p},
           op = "purge" => ps \subseteq Trash,
           Begin(q, [Request(op, ps, b) EXCEPT !.drop = FilesOf(ps)]),
           UNCHANGED <<open, row, disk, stale, leaked, faults>>
    PROVE  IInv'
<1> DEFINE w == [Request(op, ps, b) EXCEPT !.drop = FilesOf(ps)]
<1>1. req[q] = Idle /\ req' = [req EXCEPT ![q] = w]
  BY DEF Begin
<1>2. \A f : f \in FilesOf(ps) <=> \E p \in ps : f \in row[p].files
  BY DEF FilesOf
<1>3. FilesOf(ps) \subseteq Files /\ ps \subseteq PostIds
  BY <1>2, RowStates DEF IInv
<1>4. /\ w \in Work /\ w.op = op /\ w.posts = ps /\ w.fresh = {} /\ w.drop = FilesOf(ps)
  BY <1>3 DEF Request, Work
<1> HIDE DEF w
<1>5. ShapeOf(w)
  BY <1>2, <1>4 DEF ShapeOf
<1>6. \A f \in w.drop : \E p \in w.posts : Names(p, f)
  BY <1>2, <1>4 DEF Names
<1> QED
  BY <1>1, <1>4, <1>5, <1>6, BeginKeeps

LEMMA OthersBegin ==
    ASSUME IInv,
           \/ \E q \in Reqs, p \in PostIds, b \in Boards : DeleteBegin(q, p, b)
           \/ \E q \in Reqs, b \in Boards : BoardBegin(q, b)
           \/ \E expired \in SUBSET PostIds : PurgeBegin(expired)
    PROVE  IInv'
<1>1. ASSUME NEW q \in Reqs, NEW p \in PostIds, NEW b \in Boards, DeleteBegin(q, p, b)
      PROVE  IInv'
  <2>1. p \in Rows /\ FilesOf({p}) = row[p].files
    BY <1>1, RowStates DEF DeleteBegin, IInv, FilesOf
  <2>2. /\ Begin(q, [Request("delete", {p}, b) EXCEPT !.drop = FilesOf({p})])
        /\ UNCHANGED <<open, row, disk, stale, leaked, faults>>
    BY <1>1, <2>1 DEF DeleteBegin, NoHistory
  <2>3. q \in Slots /\ {p} \in SUBSET Rows /\ \E r \in PostIds : {p} = {r}
    BY <2>1 DEF Slots
  <2>4. /\ "delete" \in {"delete", "purge", "board"} /\ "delete" # "purge"
        /\ UNCHANGED <<open, row, disk, stale, leaked, faults>>
    BY <2>2
  <2> HIDE <2>1
  <2> QED
    BY <2>2, <2>3, <2>4, ReadersBegin
<1>2. ASSUME NEW q \in Reqs, NEW b \in Boards, BoardBegin(q, b) PROVE IInv'
  BY <1>2, ReadersBegin DEF BoardBegin, Collected, NoHistory, Slots
<1>3. ASSUME NEW expired \in SUBSET PostIds, PurgeBegin(expired) PROVE IInv'
  <2>1. /\ expired # {} /\ expired \subseteq Trash /\ Trash \subseteq Rows
        /\ Begin(Cron, [Request("purge", expired, AnyBoard) EXCEPT !.drop = FilesOf(expired)])
        /\ UNCHANGED <<open, row, disk, stale, leaked, faults>>
    BY <1>3, RowStates DEF PurgeBegin, NoHistory, IInv
  <2>2. PICK p \in expired : p \in Rows
    BY <2>1
  <2>3. row[p].board \in Boards
    BY <2>2, RowStates DEF IInv
  <2>4. AnyBoard \in Boards
    BY <2>3 DEF AnyBoard
  <2> QED
    BY <2>1, <2>4, ReadersBegin, CronAssumption DEF Slots
<1> QED
  BY <1>1, <1>2, <1>3

----------------------------------------------------------------------------
(* Requests that end                                                        *)

LEMMA Ends ==
    ASSUME TypeOK, NEW q \in Working, NEW d \in SUBSET Files, ThenUnlink(q, d)
    PROVE  /\ req' \in [Slots -> Work \cup Unlinking \cup {Idle}]
           /\ \A r \in Reqs : req'[r].op # "purge"
           /\ \A r \in Slots \ {q} : req'[r] = req[r]
           /\ Working' = Working \ {q} /\ Unlinkers' \ {q} = Unlinkers
           /\ q \notin Unlinkers /\ (q \in Unlinkers' => req'[q].drop = d)
           /\ d # {} => q \in Unlinkers'
           /\ \A r : r \in Busy' <=> r \in Working' \cup Unlinkers'
           /\ Unlinkers' \subseteq Droppers' /\ Droppers \ {q} \subseteq Droppers'
           /\ q \in Droppers => req[q].op = "purge"
           /\ Working \subseteq Slots /\ Unlinkers \subseteq Slots /\ q \in Slots
<1> DEFINE x == IF d = {} THEN Idle ELSE [op |-> "unlink", drop |-> d]
<1>1. req' = [req EXCEPT ![q] = x] /\ q \in Slots
  BY Flights DEF ThenUnlink
<1>2. \/ d = {} /\ x = Idle /\ x.op = "none"
      \/ d # {} /\ x \in Unlinking /\ x.op = "unlink" /\ x.drop = d /\ x # Idle
  BY RecordTypes
<1> HIDE DEF x
<1>3. req'[q] = x /\ \A r \in Slots \ {q} : req'[r] = req[r]
  BY <1>1 DEF TypeOK
<1>4. req' \in [Slots -> Work \cup Unlinking \cup {Idle}]
  BY <1>1, <1>2 DEF TypeOK
<1>5. \A r \in Reqs : req'[r].op # "purge"
  BY <1>2, <1>3 DEF TypeOK, Slots
<1>6. /\ Working' = Working \ {q} /\ Unlinkers' \ {q} = Unlinkers /\ q \notin Unlinkers
      /\ q \in Unlinkers' <=> d # {}
  BY <1>1, <1>2, <1>3, Flights DEF Working, Busy, Unlinkers
<1>7. \A r : r \in Busy' <=> r \in Working' \cup Unlinkers'
  BY <1>1, <1>2, <1>3, Flights DEF Working, Busy, Unlinkers
<1>8. /\ Unlinkers' \subseteq Droppers' /\ Droppers \ {q} \subseteq Droppers'
      /\ q \in Droppers => req[q].op = "purge"
  BY <1>3, <1>6 DEF Droppers, Unlinkers
<1> QED
  BY <1>1, <1>2, <1>3, <1>4, <1>5, <1>6, <1>7, <1>8, Flights

\* A commit, or an error in its place: the rows take q's uploads at most, and
\* what they give up is unlinked, or written off.
LEMMA EndKeeps ==
    ASSUME IInv, TypeOK', NEW q \in Working, NEW d \in SUBSET Files, ThenUnlink(q, d),
           UNCHANGED disk, stale \subseteq stale', leaked \subseteq leaked',
           \A p \in PostIds :
             /\ row[p] = Unborn => row'[p] = Unborn \/ (req[q].op = "create" /\ p \in req[q].posts)
             /\ row[p] = Gone => row'[p] = Gone \/ (req[q].op = "create" /\ p \in req[q].posts)
             /\ p \in Trash => row'[p] \in {row[p], Gone},
           \A f \in Files \ stale', p \in PostIds : Names(p, f)' =>
             \/ Names(p, f) /\ (p \in Live' => p \in Live)
             \/ f \in req[q].fresh /\ req[q].posts = {p},
           \A f \in Files \ stale' : f \in d =>
             f \in req[q].fresh \cup req[q].drop /\ \A p \in Live' : f \notin row'[p].files,
           \A f \in Named \cup req[q].fresh : f \in Named' \cup d \cup leaked',
           req[q].op = "purge" =>
             \A f \in req[q].drop \cap disk : f \in Named' \cup d \cup leaked'
    PROVE  IInv'
<1>1. /\ \A r \in Slots \ {q} : req'[r] = req[r]
      /\ Working' = Working \ {q} /\ Unlinkers' \ {q} = Unlinkers
      /\ q \notin Unlinkers /\ (q \in Unlinkers' => req'[q].drop = d)
      /\ d # {} => q \in Unlinkers'
      /\ \A r : r \in Busy' <=> r \in Working' \cup Unlinkers'
      /\ Unlinkers' \subseteq Droppers' /\ Droppers \ {q} \subseteq Droppers'
      /\ q \in Droppers => req[q].op = "purge"
      /\ Droppers \subseteq Slots
      /\ Working \subseteq Slots /\ Unlinkers \subseteq Slots /\ q \in Slots
  BY Ends DEF IInv, Droppers
<1>2. \A r \in Busy' \ {q} : r \in Busy /\ req'[r] = req[r]
  BY <1>1, Flights DEF IInv
<1>3. Shapes'
  <2> SUFFICES ASSUME NEW r \in Working' PROVE ShapeOf(req[r])'
    BY DEF Shapes
  <2>1. r \in Working /\ r # q /\ req'[r] = req[r] /\ ShapeOf(req[r])
    BY <1>1 DEF IInv, Shapes
  <2>2. req[r].posts \subseteq PostIds
    BY <2>1, Flights, RecordTypes DEF IInv
  <2>3. req[q].op = "create" => req[q].posts \cap req[r].posts = {}
    BY <2>1 DEF IInv, OneAuthor
  <2>4. req[r].op = "create" => \A p \in req[r].posts : row'[p] = Unborn
    BY <2>1, <2>2, <2>3 DEF ShapeOf
  <2>5. req[r].op = "purge" =>
          \A p \in req[r].posts : row'[p] = Gone \/ (p \in Trash' /\ row'[p].files \subseteq req[r].drop)
    <3> SUFFICES ASSUME req[r].op = "purge", NEW p \in req[r].posts
                 PROVE  row'[p] = Gone \/ (p \in Trash' /\ row'[p].files \subseteq req[r].drop)
      OBVIOUS
    <3>1. row[p] = Gone \/ (p \in Trash /\ row[p].files \subseteq req[r].drop)
      BY <2>1 DEF ShapeOf
    <3> QED
      BY <2>2, <2>3, <3>1 DEF Trash
  <2> QED
    BY <2>1, <2>4, <2>5 DEF ShapeOf
<1>4. OneAuthor'
  BY <1>1 DEF IInv, OneAuthor
<1>5. AllSound'
  <2> SUFFICES ASSUME NEW f \in Files \ stale' PROVE Sound(f)'
    BY DEF AllSound
  <2>1. Alone(f) /\ Fresh(f) /\ There(f) /\ Read(f)
    BY DEF IInv, AllSound, Sound
  <2>2. f \in req[q].fresh =>
          /\ f \in disk /\ \A p \in PostIds : ~Names(p, f)
          /\ \A r \in Busy \ {q} : f \notin req[r].drop
          /\ \A r \in Working \ {q} : f \notin req[r].fresh
    BY <2>1 DEF Fresh
  <2>3. Alone(f)'
    BY <2>1, <2>2 DEF Alone
  <2>4. Fresh(f)'
    <3> SUFFICES ASSUME NEW r \in Working', f \in req'[r].fresh
                 PROVE  (/\ f \in disk
                         /\ \A p \in PostIds : ~Names(p, f)
                         /\ \A s \in Busy \ {r} : f \notin req[s].drop
                         /\ \A s \in Working \ {r} : f \notin req[s].fresh)'
      BY DEF Fresh
    <3>1. r \in Working \ {q} /\ req'[r] = req[r]
      BY <1>1
    <3>2. /\ f \in disk /\ \A p \in PostIds : ~Names(p, f)
          /\ \A s \in Busy \ {r} : f \notin req[s].drop
          /\ \A s \in Working \ {r} : f \notin req[s].fresh
      BY <2>1, <3>1 DEF Fresh
    <3>3. f \notin req[q].fresh /\ f \notin req[q].drop /\ f \notin d
      BY <3>1, <3>2, Flights DEF IInv
    <3>4. \A s \in Busy' \ {r} : f \notin req'[s].drop
      BY <1>1, <1>2, <3>2, <3>3
    <3> QED
      BY <1>1, <3>1, <3>2, <3>3, <3>4
  <2>5. There(f)'
    <3> SUFFICES ASSUME NEW p \in Live', f \in row'[p].files
                 PROVE  f \in disk /\ \A r \in Unlinkers' : f \notin req'[r].drop
      BY DEF There
    <3>1. p \in PostIds /\ Names(p, f)'
      BY DEF Live, Names, Rows
    <3>2. f \notin d
      OBVIOUS
    <3>3. \/ p \in Live /\ f \in row[p].files
          \/ f \in req[q].fresh
      BY <3>1 DEF Names
    <3>4. f \in disk /\ \A r \in Unlinkers : f \notin req[r].drop
      BY <1>1, <2>1, <2>2, <3>3, Flights DEF There, IInv
    <3> QED
      BY <1>1, <3>2, <3>4
  <2>6. Read(f)'
    <3> SUFFICES ASSUME NEW r \in Working', f \in req'[r].drop, f \notin req'[r].fresh,
                        NEW p \in PostIds, Names(p, f)'
                 PROVE  p \in req'[r].posts
      BY DEF Read
    <3>1. r \in Working \ {q} /\ req'[r] = req[r] /\ r \in Busy
      BY <1>1, Flights DEF IInv
    <3>2. Names(p, f)
      BY <2>2, <3>1
    <3> QED
      BY <2>1, <3>1, <3>2 DEF Read
  <2> QED
    BY <2>3, <2>4, <2>5, <2>6 DEF Sound
<1>6. Kept'
  <2> SUFFICES ASSUME NEW f \in disk PROVE f \in Named' \/ f \in Pending' \/ f \in leaked'
    BY DEF Kept
  <2>1. d \subseteq Pending'
    BY <1>1 DEF Pending
  <2>2. f \in Named \/ f \in Pending \/ f \in leaked
    BY DEF IInv, Kept
  <2>3. f \in Pending => f \in Pending' \/ f \in req[q].fresh \/ f \in Named' \cup leaked'
    <3> SUFFICES ASSUME f \in Pending, f \notin req[q].fresh, f \notin Named' \cup leaked'
                 PROVE  f \in Pending'
      OBVIOUS
    <3>1. CASE \E r \in Droppers : f \in req[r].drop
      <4>1. PICK r \in Droppers : f \in req[r].drop
        BY <3>1
      <4>2. CASE r = q
        BY <1>1, <2>1, <4>1, <4>2
      <4>3. CASE r # q
        <5>1. r \in Droppers' /\ req'[r] = req[r]
          BY <1>1, <4>3
        <5> QED
          BY <4>1, <5>1 DEF Pending
      <4> QED
        BY <4>2, <4>3
    <3>2. CASE \E r \in Working : f \in req[r].fresh
      <4>1. PICK r \in Working : f \in req[r].fresh
        BY <3>2
      <4>2. r \in Working' /\ req'[r] = req[r]
        BY <1>1, <4>1
      <4> QED
        BY <4>1, <4>2 DEF Pending
    <3> QED
      BY <3>1, <3>2, NamedByRows
  <2> QED
    BY <2>1, <2>2, <2>3
<1> QED
  BY <1>3, <1>4, <1>5, <1>6 DEF IInv

LEMMA CreateCommits ==
    ASSUME IInv, NEW q \in Reqs, CreateCommit(q)
    PROVE  IInv'
<1>1. /\ req[q].op = "create" /\ ThenUnlink(q, {})
      /\ row' = [p \in PostIds |-> IF p \in req[q].posts
                   THEN [st |-> "live", board |-> req[q].board, files |-> req[q].put]
                   ELSE row[p]]
      /\ UNCHANGED <<open, disk, stale, leaked, faults>>
  BY DEF CreateCommit, ThenUnlink, NoHistory
<1>2. q \in Working /\ req[q] \in Work
  BY <1>1, Flights DEF IInv, Slots, Ops
<1>3. ShapeOf(req[q])
  BY <1>2 DEF IInv, Shapes
<1>4. /\ req[q].board \in Boards /\ req[q].put \subseteq Files
      /\ req[q].put = req[q].fresh /\ Admitted(req[q].put)
  BY <1>1, <1>2, <1>3, RecordTypes DEF ShapeOf
<1>5. PICK p \in PostIds : req[q].posts = {p} /\ row[p] = Unborn
  BY <1>1, <1>3 DEF ShapeOf
<1>6. /\ row'[p] = [st |-> "live", board |-> req[q].board, files |-> req[q].put]
      /\ \A r \in PostIds \ {p} : row'[r] = row[r]
      /\ row'[p] \in Row /\ row'[p].st = "live" /\ row'[p].files = req[q].fresh
  BY <1>1, <1>4, <1>5, RowTypes
<1>7. TypeOK'
  <2>1. row' \in [PostIds -> Row \cup {Unborn, Gone}]
    BY <1>1, <1>6 DEF IInv, TypeOK
  <2>2. \A r \in PostIds : row'[r] \in Row => Admitted(row'[r].files)
    BY <1>4, <1>6 DEF IInv, TypeOK
  <2> QED
    BY <1>1, <1>2, <2>1, <2>2, Ends DEF IInv, TypeOK
<1>8. p \notin Rows /\ p \notin Trash
  BY <1>5, RowTypes DEF Rows, Trash
<1>9. \A r \in PostIds :
        /\ row[r] = Unborn => row'[r] = Unborn \/ (req[q].op = "create" /\ r \in req[q].posts)
        /\ row[r] = Gone => row'[r] = Gone \/ (req[q].op = "create" /\ r \in req[q].posts)
        /\ r \in Trash => row'[r] \in {row[r], Gone}
  BY <1>1, <1>5, <1>6, <1>8
<1>10. \A f \in Files \ stale', r \in PostIds : Names(r, f)' =>
         \/ Names(r, f) /\ (r \in Live' => r \in Live)
         \/ f \in req[q].fresh /\ req[q].posts = {r}
  BY <1>5, <1>6 DEF Names, Rows, Live
<1>11. \A f \in Named \cup req[q].fresh : f \in Named'
  <2> SUFFICES ASSUME NEW f \in Named \cup req[q].fresh
               PROVE  \E r \in PostIds : Names(r, f)'
    BY NamedByRows DEF Names, Named, FilesOf, Rows
  <2>1. CASE f \in Named
    <3>1. PICK r \in Rows : f \in row[r].files
      BY <2>1, NamedByRows
    <3> QED
      BY <1>6, <1>8, <3>1 DEF Names, Rows
  <2>2. CASE f \in req[q].fresh
    BY <1>6, <2>2 DEF Names, Rows
  <2> QED
    BY <2>1, <2>2
<1> QED
  BY <1>1, <1>2, <1>7, <1>9, <1>10, <1>11, EndKeeps

LEMMA UpdateCommits ==
    ASSUME IInv, NEW q \in Reqs, UpdateCommit(q)
    PROVE  IInv'
<1>1. req[q].op = "update"
  BY DEF UpdateCommit
<1>2. q \in Working /\ req[q] \in Work /\ q \in Slots
  BY <1>1, Flights DEF IInv, Slots, Ops
<1>3. ShapeOf(req[q])
  BY <1>2 DEF IInv, Shapes
<1>4. /\ req[q].to \in Boards /\ req[q].put \subseteq Files /\ req[q].drop \subseteq Files
      /\ req[q].put \cap req[q].drop = {} /\ Admitted(req[q].put)
      /\ req[q].seen \cup req[q].fresh \subseteq req[q].put \cup req[q].drop
  BY <1>1, <1>2, <1>3, RecordTypes DEF ShapeOf
<1>5. PICK p \in PostIds : req[q].posts = {p}
  BY <1>1, <1>3 DEF ShapeOf
<1>6. /\ p \in Live
      /\ row' = [row EXCEPT ![p] = [st |-> "live", board |-> req[q].to, files |-> req[q].put]]
      /\ ThenUnlink(q, req[q].drop)
      /\ stale' = stale \cup ((req[q].put \ req[q].fresh) \ row[p].files)
      /\ leaked' = leaked \cup (row[p].files \ req[q].seen)
      /\ UNCHANGED <<open, disk, faults>>
  BY <1>5 DEF UpdateCommit, Lockable
<1>7. /\ row'[p] = [st |-> "live", board |-> req[q].to, files |-> req[q].put]
      /\ \A r \in PostIds \ {p} : row'[r] = row[r]
      /\ row'[p] \in Row /\ row'[p].st = "live" /\ row'[p].files = req[q].put
  BY <1>4, <1>6, RowTypes DEF IInv, TypeOK
<1>8. p \in Rows /\ p \notin Trash /\ row[p].files \subseteq Files /\ row[p] # Unborn /\ row[p] # Gone
  BY <1>6, RowStates DEF IInv
<1>9. TypeOK'
  <2>1. row' \in [PostIds -> Row \cup {Unborn, Gone}]
    BY <1>6, <1>7 DEF IInv, TypeOK
  <2>2. \A r \in PostIds : row'[r] \in Row => Admitted(row'[r].files)
    BY <1>4, <1>7 DEF IInv, TypeOK
  <2>3. stale' \subseteq Files /\ leaked' \subseteq Files
    BY <1>4, <1>6, <1>8 DEF IInv, TypeOK
  <2> QED
    BY <1>2, <1>4, <1>6, <2>1, <2>2, <2>3, Ends DEF IInv, TypeOK
<1>10. \A r \in PostIds :
        /\ row[r] = Unborn => row'[r] = Unborn \/ (req[q].op = "create" /\ r \in req[q].posts)
        /\ row[r] = Gone => row'[r] = Gone \/ (req[q].op = "create" /\ r \in req[q].posts)
        /\ r \in Trash => row'[r] \in {row[r], Gone}
  BY <1>7, <1>8
<1>11. \A f \in Files \ stale', r \in PostIds : Names(r, f)' =>
         \/ Names(r, f) /\ (r \in Live' => r \in Live)
         \/ f \in req[q].fresh /\ req[q].posts = {r}
  BY <1>5, <1>6, <1>7, <1>8 DEF Names, Rows, Live
<1>12. \A f \in Files \ stale' : f \in req[q].drop =>
         f \in req[q].fresh \cup req[q].drop /\ \A r \in Live' : f \notin row'[r].files
  <2> SUFFICES ASSUME NEW f \in Files \ stale', f \in req[q].drop,
                      NEW r \in Live', f \in row'[r].files
               PROVE  FALSE
    OBVIOUS
  <2>1. r \in PostIds /\ (r # p => Names(r, f))
    BY <1>7 DEF Live, Names, Rows
  <2>2. Fresh(f) /\ Read(f)
    BY <1>6 DEF IInv, AllSound, Sound
  <2>3. CASE r = p
    BY <1>4, <1>7, <2>3
  <2>4. CASE r # p
    BY <1>2, <1>5, <2>1, <2>2, <2>4 DEF Fresh, Read
  <2> QED
    BY <2>3, <2>4
<1>13. \A f \in Named \cup req[q].fresh : f \in Named' \cup req[q].drop \cup leaked'
  <2> SUFFICES ASSUME NEW f \in Named \cup req[q].fresh
               PROVE  f \in req[q].drop \/ f \in leaked' \/ \E r \in PostIds : Names(r, f)'
    BY NamedByRows DEF Names, Named, FilesOf, Rows
  <2>1. f \in req[q].put => Names(p, f)'
    BY <1>7 DEF Names, Rows
  <2>2. CASE f \in req[q].fresh \cup req[q].seen
    BY <1>4, <2>1, <2>2
  <2>3. CASE f \in Named /\ f \notin req[q].seen
    <3>1. PICK r \in Rows : f \in row[r].files
      BY <2>3, NamedByRows
    <3> QED
      BY <1>6, <1>7, <2>3, <3>1 DEF Names, Rows
  <2> QED
    BY <2>2, <2>3
<1> QED
  BY <1>2, <1>4, <1>6, <1>9, <1>10, <1>11, <1>12, <1>13, EndKeeps

\* The rows stay as they are: an error answer, a transaction that fails.
LEMMA Aborts ==
    ASSUME IInv, NEW q \in Slots,
           Refuse(q) \/ ValidatorFails(q) \/ Rollback(q) \/ (q = Cron /\ PurgeFails)
    PROVE  IInv'
<1>1. /\ req[q].op \in Ops /\ UNCHANGED <<open, row, disk, stale>>
      /\ faults' \in 0 .. MaxFaults
  BY PostsAssumption DEF Refuse, ValidatorFails, Rollback, PurgeFails, NoHistory, Fault, Ops,
                         IInv, TypeOK
<1>2. q \in Working /\ req[q] \in Work
  BY <1>1, Flights DEF IInv
<1>3. ShapeOf(req[q]) /\ req[q].fresh \subseteq Files /\ req[q].drop \subseteq Files
  BY <1>2, RecordTypes DEF IInv, Shapes
<1>4. PICK d \in SUBSET Files :
        /\ ThenUnlink(q, d) /\ d \subseteq req[q].fresh
        /\ leaked \subseteq leaked' /\ leaked' \subseteq Files
        /\ req[q].fresh \subseteq d \cup leaked'
        /\ req[q].op = "purge" => req[q].drop \cap disk \subseteq Named \cup leaked'
  <2>0. leaked \subseteq Files
    BY DEF IInv, TypeOK
  <2>1. CASE Refuse(q)
    BY <1>3, <2>0, <2>1 DEF Refuse, NoHistory
  <2>2. CASE Rollback(q)
    <3>1. req[q].fresh = {} /\ UNCHANGED leaked /\ req[q].op # "purge"
      BY <1>3, <2>2 DEF Rollback, ShapeOf
    <3> QED
      BY <2>0, <2>2, <3>1 DEF Rollback, ThenUnlink
  <2>3. CASE ValidatorFails(q)
    <3>1. /\ ThenUnlink(q, {}) /\ leaked' = leaked \cup req[q].fresh
          /\ req[q].op # "purge"
      BY <2>3 DEF ValidatorFails, ThenUnlink
    <3> QED
      BY <1>3, <2>0, <3>1
  <2>4. CASE q = Cron /\ PurgeFails
    <3>1. /\ ThenUnlink(q, {}) /\ leaked' = leaked \cup ((req[q].drop \cap disk) \ Named)
          /\ req[q].op = "purge"
      BY <2>4 DEF PurgeFails, ThenUnlink
    <3>2. req[q].fresh = {}
      BY <1>3, <3>1 DEF ShapeOf
    <3> QED
      BY <1>3, <2>0, <3>1, <3>2
  <2> QED
    BY <2>1, <2>2, <2>3, <2>4
<1>5. TypeOK'
  BY <1>1, <1>2, <1>3, <1>4, Ends DEF IInv, TypeOK
<1>6. \A r \in PostIds : row'[r] = row[r] /\ \A f : Names(r, f)' <=> Names(r, f)
  BY <1>1 DEF Names, Rows
<1>7. Live' = Live /\ Named' = Named
  BY <1>1 DEF Live, Named, FilesOf, Rows
<1>8. \A f \in Files \ stale' : f \in d =>
        f \in req[q].fresh \cup req[q].drop /\ \A r \in Live' : f \notin row'[r].files
  <2> SUFFICES ASSUME NEW f \in Files \ stale', f \in req[q].fresh, NEW r \in Live
               PROVE  f \notin row[r].files
    BY <1>1, <1>4, <1>7
  <2>1. Fresh(f)
    BY <1>1 DEF IInv, AllSound, Sound
  <2>2. r \in PostIds /\ (f \in row[r].files => Names(r, f))
    BY DEF Live, Names, Rows
  <2> QED
    BY <1>2, <2>1, <2>2 DEF Fresh
<1>9. \A r \in PostIds :
        /\ row[r] = Unborn => row'[r] = Unborn \/ (req[q].op = "create" /\ r \in req[q].posts)
        /\ row[r] = Gone => row'[r] = Gone \/ (req[q].op = "create" /\ r \in req[q].posts)
        /\ r \in Trash => row'[r] \in {row[r], Gone}
  BY <1>6
<1>10. \A f \in Files \ stale', r \in PostIds : Names(r, f)' =>
         \/ Names(r, f) /\ (r \in Live' => r \in Live)
         \/ f \in req[q].fresh /\ req[q].posts = {r}
  BY <1>6, <1>7
<1>11. /\ \A f \in Named \cup req[q].fresh : f \in Named' \cup d \cup leaked'
       /\ req[q].op = "purge" =>
            \A f \in req[q].drop \cap disk : f \in Named' \cup d \cup leaked'
  BY <1>4, <1>7
<1> QED
  BY <1>1, <1>2, <1>4, <1>5, <1>8, <1>9, <1>10, <1>11, EndKeeps

\* Deletions: they take rows out of Live, and what those name is in the list or
\* written off.
LEMMA Deletes ==
    ASSUME IInv, NEW q \in Slots, req[q].op \in {"delete", "purge", "board"},
           ThenUnlink(q, req[q].drop), open' \subseteq open, UNCHANGED <<disk, faults>>,
           stale \subseteq stale', stale' \subseteq Files,
           leaked \subseteq leaked', leaked' \subseteq Files,
           row' \in [PostIds -> Row \cup {Unborn, Gone}],
           \A p \in PostIds : \/ row'[p] = row[p]
                              \/ row'[p] = Gone /\ row[p] # Unborn
                              \/ p \in Live /\ p \in Trash' /\ row'[p].files = row[p].files,
           \A p \in Rows : \A f \in row[p].files :
             row'[p] = Gone => f \in req[q].drop \cup leaked',
           \A p \in Live', f \in req[q].drop :
             p \in req[q].posts /\ f \in row[p].files => f \in stale'
    PROVE  IInv'
<1>1. q \in Working /\ req[q] \in Work
  BY Flights DEF IInv, Ops
<1>2. req[q].fresh = {} /\ req[q].drop \subseteq Files
  BY <1>1, RecordTypes DEF IInv, Shapes, ShapeOf
<1>3. \A p \in PostIds : /\ p \in Rows' => p \in Rows /\ row'[p].files = row[p].files
                         /\ p \in Live' => p \in Live /\ row'[p] = row[p]
                         /\ p \in Rows => p \in Rows' \/ row'[p] = Gone
  BY RowTypes DEF Rows, Live, Trash
<1>4. TypeOK'
  <2>1. \A p \in PostIds : row'[p] \in Row => Admitted(row'[p].files)
    <3> SUFFICES ASSUME NEW p \in PostIds, row'[p] \in Row
                 PROVE  Admitted(row'[p].files)
      OBVIOUS
    <3>1. p \in Rows'
      BY RowTypes DEF Rows
    <3> QED
      BY <1>3, <3>1, RowStates DEF IInv
  <2> QED
    BY <1>1, <1>2, <2>1, Ends DEF IInv, TypeOK
<1>5. \A p \in PostIds :
        /\ row[p] = Unborn => row'[p] = Unborn \/ (req[q].op = "create" /\ p \in req[q].posts)
        /\ row[p] = Gone => row'[p] = Gone \/ (req[q].op = "create" /\ p \in req[q].posts)
        /\ p \in Trash => row'[p] \in {row[p], Gone}
  BY RowStates DEF IInv
<1>6. \A f \in Files \ stale', p \in PostIds : Names(p, f)' =>
        \/ Names(p, f) /\ (p \in Live' => p \in Live)
        \/ f \in req[q].fresh /\ req[q].posts = {p}
  BY <1>3 DEF Names
<1>7. \A f \in Files \ stale' : f \in req[q].drop =>
        f \in req[q].fresh \cup req[q].drop /\ \A p \in Live' : f \notin row'[p].files
  <2> SUFFICES ASSUME NEW f \in Files \ stale', f \in req[q].drop,
                      NEW p \in Live', f \in row'[p].files
               PROVE  FALSE
    OBVIOUS
  <2>1. p \in PostIds /\ Names(p, f)
    BY <1>3 DEF Live, Names, Rows
  <2>2. Read(f)
    BY DEF IInv, AllSound, Sound
  <2>3. p \in req[q].posts
    BY <1>1, <1>2, <2>1, <2>2 DEF Read
  <2> QED
    BY <2>1, <2>3 DEF Names
<1>8. \A f \in Named \cup req[q].fresh : f \in Named' \cup req[q].drop \cup leaked'
  <2> SUFFICES ASSUME NEW f \in Named
               PROVE  f \in req[q].drop \cup leaked' \/ \E p \in PostIds : Names(p, f)'
    BY <1>2, NamedByRows DEF Names, Named, FilesOf, Rows
  <2>1. PICK p \in Rows : f \in row[p].files
    BY NamedByRows
  <2> QED
    BY <1>3, <2>1 DEF Names, Rows
<1> QED
  BY <1>1, <1>2, <1>4, <1>5, <1>6, <1>7, <1>8, EndKeeps

LEMMA DeleteCommits ==
    ASSUME IInv, NEW q \in Reqs, DeleteCommit(q)
    PROVE  IInv'
<1>1. /\ req[q].op = "delete" /\ ThenUnlink(q, req[q].drop)
      /\ row' = [p \in PostIds |-> IF p \in req[q].posts \cap Live
                                   THEN [row[p] EXCEPT !.st = "trash"] ELSE row[p]]
      /\ UNCHANGED <<open, disk, stale, leaked, faults>> /\ q \in Slots
  BY DEF DeleteCommit, NoHistory, Slots
<1>2. \A p \in Live : /\ row[p] \in Row
                      /\ [row[p] EXCEPT !.st = "trash"] \in Row
                      /\ [row[p] EXCEPT !.st = "trash"].st = "trash"
                      /\ [row[p] EXCEPT !.st = "trash"].files = row[p].files
  BY RowStates DEF IInv, Row
<1>3. row' \in [PostIds -> Row \cup {Unborn, Gone}]
  BY <1>1, <1>2 DEF IInv, TypeOK
<1>4. \A p \in PostIds : \/ row'[p] = row[p] /\ p \notin req[q].posts \cap Live
                         \/ p \in Live /\ p \in Trash' /\ row'[p].files = row[p].files
  BY <1>1, <1>2 DEF Trash
<1>5. \A p \in Rows : row'[p] # Gone
  BY <1>1, <1>2, RowStates, RowTypes DEF IInv
<1>6. \A p \in Live' : p \notin req[q].posts
  BY <1>1, <1>2 DEF Live
<1>7. stale' \subseteq Files /\ leaked' \subseteq Files
  BY <1>1 DEF IInv, TypeOK
<1> QED
  BY <1>1, <1>3, <1>4, <1>5, <1>6, <1>7, Deletes

\* The last batch, whose transaction is followed by the unlinks.
LEMMA PurgeEnds ==
    ASSUME IInv, NEW rows \in SUBSET PostIds, PurgeBatch(rows), req[Cron].posts \ rows = {}
    PROVE  IInv'
<1>1. /\ req[Cron].op = "purge" /\ ThenUnlink(Cron, req[Cron].drop) /\ Cron \in Slots
      /\ rows = req[Cron].posts
      /\ row' = [p \in PostIds |-> IF p \in rows THEN Gone ELSE row[p]]
      /\ UNCHANGED <<open, disk, stale, leaked, faults>>
  BY DEF PurgeBatch, Batches, NoHistory, Slots
<1>2. Cron \in Working
  BY <1>1, Flights DEF IInv, Ops
<1>3. \A p \in rows : row[p] = Gone \/ (p \in Trash /\ row[p].files \subseteq req[Cron].drop)
  BY <1>1, <1>2 DEF IInv, Shapes, ShapeOf
<1>4. row' \in [PostIds -> Row \cup {Unborn, Gone}]
  BY <1>1 DEF IInv, TypeOK
<1>5. \A p \in PostIds : row'[p] = row[p] \/ (row'[p] = Gone /\ row[p] # Unborn)
  BY <1>1, <1>3, RowTypes DEF Trash
<1>6. \A p \in Rows : \A f \in row[p].files : row'[p] = Gone => f \in req[Cron].drop \cup leaked'
  BY <1>1, <1>3, RowStates, RowTypes DEF IInv
<1>7. \A p \in Live' : p \notin req[Cron].posts
  BY <1>1, RowTypes DEF Live
<1>8. stale' \subseteq Files /\ leaked' \subseteq Files
  BY <1>1 DEF IInv, TypeOK
<1> QED
  BY <1>1, <1>4, <1>5, <1>6, <1>7, <1>8, Deletes

\* An earlier batch: its rows go, the list of files stays as it is.
LEMMA PurgeGoesOn ==
    ASSUME IInv, NEW rows \in SUBSET PostIds, PurgeBatch(rows), req[Cron].posts \ rows # {}
    PROVE  IInv'
<1> DEFINE left == req[Cron].posts \ rows
           w == [req[Cron] EXCEPT !.posts = left]
<1>1. /\ req[Cron].op = "purge" /\ req' = [req EXCEPT ![Cron].posts = left] /\ Cron \in Slots
      /\ rows \subseteq req[Cron].posts
      /\ row' = [p \in PostIds |-> IF p \in rows THEN Gone ELSE row[p]]
      /\ UNCHANGED <<open, disk, stale, leaked, faults>>
  BY DEF PurgeBatch, Batches, NoHistory, Slots
<1>2. Cron \in Working /\ req[Cron] \in Work /\ Cron \notin Reqs
  BY <1>1, Flights, CronAssumption DEF IInv, Ops
<1>3. /\ w \in Work /\ w.op = "purge" /\ w.posts = left /\ w.drop = req[Cron].drop
      /\ w.fresh = req[Cron].fresh /\ w.put = req[Cron].put /\ w.seen = req[Cron].seen
  BY <1>1, <1>2 DEF Work
<1>4. req' = [req EXCEPT ![Cron] = w]
  BY <1>1 DEF IInv, TypeOK
<1> HIDE DEF w
<1>5. req'[Cron] = w /\ \A r \in Slots \ {Cron} : req'[r] = req[r]
  BY <1>1, <1>4 DEF IInv, TypeOK
<1>6. /\ Working' = Working /\ Busy' = Busy /\ Unlinkers' = Unlinkers /\ Droppers' = Droppers
      /\ w # Idle
  <2>1. w # Idle /\ req[Cron] # Idle
    BY <1>2, <1>3, RecordTypes
  <2> QED
    BY <1>1, <1>3, <1>5, <2>1 DEF Working, Busy, Unlinkers, Droppers
<1>7. /\ \A r \in Busy : req'[r].op = req[r].op /\ req'[r].drop = req[r].drop
      /\ \A r \in Working : /\ req'[r].fresh = req[r].fresh /\ req'[r].posts \subseteq req[r].posts
  BY <1>1, <1>3, <1>5, Flights DEF IInv
<1>8. \A p \in rows : row[p] = Gone \/ (p \in Trash /\ row[p].files \subseteq req[Cron].drop)
  BY <1>1, <1>2 DEF IInv, Shapes, ShapeOf
<1>9. \A p \in PostIds : /\ p \in rows => row'[p] = Gone /\ p \notin Rows' /\ p \notin Live'
                         /\ p \notin rows => row'[p] = row[p]
                         /\ row[p] = Unborn => row'[p] = Unborn
  BY <1>1, <1>8, RowTypes DEF Rows, Live, Trash
<1>10. /\ \A p, f : Names(p, f)' <=> Names(p, f) /\ p \notin rows
       /\ Live' \subseteq Live /\ \A p \in Live' : row'[p] = row[p]
  <2>1. \A p : p \in Rows' <=> p \in Rows /\ p \notin rows
    BY <1>9 DEF Rows
  <2> QED
    BY <1>9, <2>1 DEF Names, Rows, Live
<1>11. TypeOK'
  <2>1. req' \in [Slots -> Work \cup Unlinking \cup {Idle}]
    BY <1>3, <1>4 DEF IInv, TypeOK
  <2>2. \A r \in Reqs : req'[r].op # "purge"
    BY <1>2, <1>5 DEF IInv, TypeOK, Slots
  <2>3. row' \in [PostIds -> Row \cup {Unborn, Gone}]
    BY <1>1 DEF IInv, TypeOK
  <2>4. \A p \in PostIds : row'[p] \in Row => Admitted(row'[p].files)
    BY <1>9, RowTypes DEF IInv, TypeOK
  <2> QED
    BY <1>1, <2>1, <2>2, <2>3, <2>4 DEF IInv, TypeOK
<1>12. Shapes'
  <2> SUFFICES ASSUME NEW r \in Working PROVE ShapeOf(req[r])'
    BY <1>6 DEF Shapes
  <2>1. ShapeOf(req[r])
    BY DEF IInv, Shapes
  <2>2. CASE r = Cron
    <3>0. left \subseteq PostIds
      BY <1>2, RecordTypes
    <3>1. \A p \in left : row'[p] = row[p]
      BY <1>9, <3>0
    <3> QED
      BY <1>1, <1>3, <1>5, <2>1, <2>2, <3>1 DEF ShapeOf, Trash
  <2>3. CASE r # Cron
    <3>1. req'[r] = req[r] /\ r \in Slots
      BY <1>5, <2>3, Flights DEF IInv
    <3>2. req[r].op # "purge" /\ req[r].posts \subseteq PostIds
      BY <2>3, <3>1, Flights, RecordTypes DEF IInv, TypeOK, Slots
    <3> QED
      BY <1>9, <2>1, <3>1, <3>2 DEF ShapeOf
  <2> QED
    BY <2>2, <2>3
<1>13. OneAuthor'
  BY <1>5, <1>6, <1>7, Flights DEF IInv, OneAuthor
<1>14. AllSound'
  <2> SUFFICES ASSUME NEW f \in Files \ stale PROVE Sound(f)'
    BY <1>1 DEF AllSound
  <2>1. Alone(f) /\ Fresh(f) /\ There(f) /\ Read(f)
    BY DEF IInv, AllSound, Sound
  <2>2. Alone(f)'
    BY <1>10, <2>1 DEF Alone
  <2>3. Fresh(f)'
    BY <1>1, <1>6, <1>7, <1>10, <2>1 DEF Fresh
  <2>4. There(f)'
    BY <1>1, <1>6, <1>7, <1>10, <2>1, Flights DEF There, IInv
  <2>5. Read(f)'
    <3> SUFFICES ASSUME NEW r \in Working, f \in req[r].drop, f \notin req[r].fresh,
                        NEW p \in PostIds, Names(p, f), p \notin rows
                 PROVE  p \in req'[r].posts
      BY <1>6, <1>7, <1>10, Flights DEF Read, IInv
    <3>1. p \in req[r].posts
      BY <2>1 DEF Read
    <3> QED
      BY <1>3, <1>5, <3>1, Flights DEF IInv
  <2> QED
    BY <2>2, <2>3, <2>4, <2>5 DEF Sound
<1>15. Kept'
  <2> SUFFICES ASSUME NEW f \in disk PROVE f \in Named' \/ f \in Pending' \/ f \in leaked
    BY <1>1 DEF Kept
  <2>1. f \in Named \/ f \in Pending \/ f \in leaked
    BY DEF IInv, Kept
  <2>2. f \in Pending => f \in Pending'
    BY <1>6, <1>7, Flights DEF Pending, IInv
  <2>3. f \in Named => f \in Named' \/ f \in req[Cron].drop
    <3> SUFFICES ASSUME f \in Named, f \notin req[Cron].drop PROVE f \in Named'
      OBVIOUS
    <3>1. PICK p \in Rows : f \in row[p].files
      BY NamedByRows
    <3>2. p \notin rows /\ p \in PostIds
      BY <1>8, <3>1, RowStates DEF IInv
    <3> QED
      BY <1>9, <3>1, <3>2 DEF Named, FilesOf, Rows
  <2>4. f \in req[Cron].drop => f \in Pending'
    <3>1. Cron \in Droppers
      BY <1>1 DEF Droppers
    <3> QED
      BY <1>3, <1>5, <1>6, <3>1 DEF Pending
  <2> QED
    BY <2>1, <2>2, <2>3, <2>4
<1> QED
  BY <1>11, <1>12, <1>13, <1>14, <1>15 DEF IInv

LEMMA BoardCommits ==
    ASSUME IInv, NEW q \in Reqs, BoardCommit(q)
    PROVE  IInv'
<1> DEFINE there == {p \in Rows : row[p].board = req[q].board}
           away  == {p \in req[q].posts \cap Rows : row[p].board # req[q].board}
<1>1. /\ req[q].op = "board" /\ ThenUnlink(q, req[q].drop) /\ q \in Slots
      /\ row' = [p \in PostIds |-> IF p \in there THEN Gone ELSE row[p]]
      /\ open' = open \ {req[q].board}
      /\ leaked' = leaked \cup (FilesOf(there) \ req[q].drop)
      /\ stale' = stale \cup (FilesOf(away) \cap req[q].drop)
      /\ UNCHANGED <<disk, faults>>
  BY DEF BoardCommit, Slots
<1>2. /\ \A f : f \in FilesOf(there) <=> \E p \in there : f \in row[p].files
      /\ \A f : f \in FilesOf(away) <=> \E p \in away : f \in row[p].files
  BY DEF FilesOf
<1>3. stale' \subseteq Files /\ leaked' \subseteq Files
  BY <1>1, <1>2, RowStates DEF IInv, TypeOK
<1>4. row' \in [PostIds -> Row \cup {Unborn, Gone}]
  BY <1>1 DEF IInv, TypeOK
<1>5. \A p \in PostIds : row'[p] = row[p] \/ (row'[p] = Gone /\ row[p] # Unborn)
  BY <1>1, RowTypes DEF Rows
<1>6. \A p \in Rows : \A f \in row[p].files : row'[p] = Gone => f \in req[q].drop \cup leaked'
  BY <1>1, <1>2, RowStates, RowTypes DEF IInv
<1>7. \A p \in Live', f \in req[q].drop :
        p \in req[q].posts /\ f \in row[p].files => f \in stale'
  <2> SUFFICES ASSUME NEW p \in Live', NEW f \in req[q].drop,
                      p \in req[q].posts, f \in row[p].files
               PROVE  f \in stale'
    OBVIOUS
  <2>1. p \in Rows /\ p \notin there
    BY <1>1, RowTypes DEF Live, Rows
  <2> QED
    BY <1>1, <1>2, <2>1
<1>8. open' \subseteq open /\ stale \subseteq stale' /\ leaked \subseteq leaked'
  BY <1>1
<1> HIDE DEF there, away
<1> QED
  BY <1>1, <1>3, <1>4, <1>5, <1>6, <1>7, <1>8, Deletes

----------------------------------------------------------------------------
(* Unlinks, and stops of the server                                         *)

LEMMA Unlinks ==
    ASSUME IInv, NEW q \in Slots,
           Unlink(q) \/ \E stuck \in SUBSET Files : UnlinkFails(q, stuck)
    PROVE  IInv'
<1>1. /\ req[q].op = "unlink" /\ req' = [req EXCEPT ![q] = Idle]
      /\ UNCHANGED <<open, row, stale>> /\ faults' \in 0 .. MaxFaults
      /\ disk' \subseteq disk /\ disk \ req[q].drop \subseteq disk'
      /\ leaked \subseteq leaked' /\ leaked' \subseteq leaked \cup req[q].drop
      /\ disk' \cap req[q].drop \subseteq Named \cup leaked'
  BY PostsAssumption DEF Unlink, UnlinkFails, NoHistory, Fault, IInv, TypeOK
<1>2. q \in Unlinkers /\ q \in Busy /\ q \notin Working /\ req[q].drop \subseteq Files
  BY <1>1, Flights, RecordTypes DEF IInv, Unlinkers
<1>3. req'[q] = Idle /\ \A r \in Slots \ {q} : req'[r] = req[r]
  BY <1>1 DEF IInv, TypeOK
<1>4. TypeOK'
  <2>1. req' \in [Slots -> Work \cup Unlinking \cup {Idle}]
    BY <1>1 DEF IInv, TypeOK
  <2>2. \A r \in Reqs : req'[r].op # "purge"
    BY <1>3, RecordTypes DEF IInv, TypeOK, Slots
  <2> QED
    BY <1>1, <1>2, <2>1, <2>2 DEF IInv, TypeOK
<1>5. /\ Working' = Working /\ Unlinkers' = Unlinkers \ {q} /\ Busy' = Busy \ {q}
      /\ Droppers' = Droppers \ {q}
  BY <1>2, <1>3, RecordTypes DEF Working, Busy, Unlinkers, Droppers
<1>6. \A r \in Working : req'[r] = req[r] /\ r \in Slots
  BY <1>2, <1>3, Flights DEF IInv
<1>7. \A r \in Busy \ {q} : req'[r] = req[r]
  BY <1>3, Flights DEF IInv
<1>8. /\ Rows' = Rows /\ Live' = Live /\ Trash' = Trash /\ Named' = Named
      /\ \A p, f : Names(p, f)' <=> Names(p, f)
  BY <1>1 DEF Rows, Live, Trash, Named, FilesOf, Names
<1>9. Shapes'
  BY <1>1, <1>5, <1>6, <1>8 DEF IInv, Shapes, ShapeOf
<1>10. OneAuthor'
  BY <1>5, <1>6 DEF IInv, OneAuthor
<1>11. AllSound'
  <2> SUFFICES ASSUME NEW f \in Files \ stale PROVE Sound(f)'
    BY <1>1 DEF AllSound
  <2>1. Alone(f) /\ Fresh(f) /\ There(f) /\ Read(f)
    BY DEF IInv, AllSound, Sound
  <2>2. Alone(f)'
    BY <1>8, <2>1 DEF Alone
  <2>3. Fresh(f)'
    <3> SUFFICES ASSUME NEW r \in Working', f \in req'[r].fresh
                 PROVE  (/\ f \in disk
                         /\ \A p \in PostIds : ~Names(p, f)
                         /\ \A s \in Busy \ {r} : f \notin req[s].drop
                         /\ \A s \in Working \ {r} : f \notin req[s].fresh)'
      BY DEF Fresh
    <3>1. r \in Working /\ r # q /\ f \in req[r].fresh
      BY <1>2, <1>5, <1>6
    <3>2. /\ f \in disk /\ \A p \in PostIds : ~Names(p, f)
          /\ \A s \in Busy \ {r} : f \notin req[s].drop
          /\ \A s \in Working \ {r} : f \notin req[s].fresh
      BY <2>1, <3>1 DEF Fresh
    <3>3. f \in disk'
      BY <1>1, <1>2, <3>1, <3>2
    <3> QED
      BY <1>5, <1>6, <1>7, <1>8, <3>2, <3>3
  <2>4. There(f)'
    <3> SUFFICES ASSUME NEW p \in Live, f \in row[p].files
                 PROVE  f \in disk' /\ \A r \in Unlinkers' : f \notin req'[r].drop
      BY <1>1, <1>8 DEF There
    <3>1. f \in disk /\ \A r \in Unlinkers : f \notin req[r].drop
      BY <2>1 DEF There
    <3> QED
      BY <1>1, <1>2, <1>5, <1>7, <3>1, Flights DEF IInv
  <2>5. Read(f)'
    BY <1>5, <1>6, <1>8, <2>1 DEF Read
  <2> QED
    BY <2>2, <2>3, <2>4, <2>5 DEF Sound
<1>12. Kept'
  <2> SUFFICES ASSUME NEW f \in disk' PROVE f \in Named \/ f \in Pending' \/ f \in leaked'
    BY <1>8 DEF Kept
  <2>1. f \in Named \/ f \in Pending \/ f \in leaked
    BY <1>1 DEF IInv, Kept
  <2>2. CASE f \in req[q].drop
    BY <1>1, <2>2
  <2>3. CASE f \in Pending /\ f \notin req[q].drop
    <3>1. CASE \E r \in Droppers : f \in req[r].drop
      <4>1. PICK r \in Droppers : f \in req[r].drop
        BY <3>1
      <4>2. r \in Droppers' /\ req'[r] = req[r]
        BY <1>5, <1>7, <2>3, <4>1, Flights DEF IInv
      <4> QED
        BY <4>1, <4>2 DEF Pending
    <3>2. CASE \E r \in Working : f \in req[r].fresh
      <4>1. PICK r \in Working : f \in req[r].fresh
        BY <3>2
      <4>2. r \in Working' /\ req'[r] = req[r]
        BY <1>5, <1>6
      <4> QED
        BY <4>1, <4>2 DEF Pending
    <3> QED
      BY <2>3, <3>1, <3>2, NamedByRows
  <2> QED
    BY <1>1, <2>1, <2>2, <2>3
<1> QED
  BY <1>4, <1>9, <1>10, <1>11, <1>12 DEF IInv

LEMMA Stops ==
    ASSUME IInv, Stop
    PROVE  IInv'
<1>1. /\ leaked' = leaked \cup (InFlight \ Named) /\ req' = [q \in Slots |-> Idle]
      /\ UNCHANGED <<open, row, disk, stale>> /\ faults' \in 0 .. MaxFaults
  BY PostsAssumption DEF Stop, Fault, IInv, TypeOK
<1>2. Working' = {} /\ Unlinkers' = {} /\ Busy' = {}
  BY <1>1, RecordTypes DEF Working, Busy, Unlinkers
<1>3. Rows' = Rows /\ Live' = Live /\ Named' = Named /\ \A p, f : Names(p, f)' <=> Names(p, f)
  BY <1>1 DEF Rows, Live, Named, FilesOf, Names
<1>4. InFlight \subseteq Files
  <2>1. /\ \A q \in Busy : req[q].drop \subseteq Files
        /\ \A q \in Working : req[q].fresh \subseteq Files
    BY Flights, RecordTypes DEF IInv
  <2> QED
    BY <2>1, NamedByRows
<1>5. TypeOK'
  BY <1>1, <1>4, RecordTypes DEF IInv, TypeOK, Slots
<1>6. AllSound'
  <2> SUFFICES ASSUME NEW f \in Files \ stale PROVE Sound(f)'
    BY <1>1 DEF AllSound
  <2>1. Alone(f) /\ There(f)
    BY DEF IInv, AllSound, Sound
  <2> QED
    BY <1>1, <1>2, <1>3, <2>1 DEF Sound, Alone, Fresh, There, Read
<1>7. Kept'
  <2>1. Pending \subseteq InFlight
    BY NamedByRows, Flights DEF IInv
  <2> QED
    BY <1>1, <1>3, <2>1 DEF IInv, Kept
<1>8. Shapes' /\ OneAuthor'
  BY <1>2 DEF Shapes, OneAuthor
<1> QED
  BY <1>5, <1>6, <1>7, <1>8 DEF IInv

----------------------------------------------------------------------------
(* Every step                                                               *)

LEMMA IInvInit == Init => IInv
<1> SUFFICES ASSUME Init PROVE IInv
  OBVIOUS
<1>1. Working = {} /\ Unlinkers = {} /\ Busy = {}
  BY RecordTypes DEF Init, Working, Busy, Unlinkers
<1>2. Rows = {} /\ Live = {}
  BY RowTypes DEF Init, Rows, Live
<1>3. TypeOK
  BY RecordTypes, RowTypes, PostsAssumption DEF Init, TypeOK, Slots
<1>4. Shapes /\ OneAuthor
  BY <1>1 DEF Shapes, OneAuthor
<1>5. AllSound
  BY <1>1, <1>2 DEF AllSound, Sound, Alone, Names, Fresh, There, Read
<1>6. Kept
  BY DEF Init, Kept
<1> QED
  BY <1>3, <1>4, <1>5, <1>6 DEF IInv

LEMMA IInvStep == IInv /\ [Next]_vars => IInv'
<1> SUFFICES ASSUME IInv, [Next]_vars PROVE IInv'
  OBVIOUS
<1>1. ASSUME NEW q \in Reqs, NEW p \in PostIds, NEW b \in Boards,
             \E new \in SUBSET Unused : CreateBegin(q, p, b, new)
      PROVE  IInv'
  BY <1>1, CreateBegins
<1>2. ASSUME NEW q \in Reqs, NEW p \in PostIds, NEW b \in Boards,
             \E new \in SUBSET Unused, to \in Boards : p \in Live /\
               \E kept \in SUBSET row[p].files, cut \in SUBSET (new \cup row[p].files) :
                 UpdateBegin(q, p, b, to, kept, new, cut)
      PROVE  IInv'
  BY <1>2, UpdateBegins
<1>3. ASSUME NEW q \in Reqs, CreateCommit(q) PROVE IInv'
  BY <1>3, CreateCommits
<1>4. ASSUME NEW q \in Reqs, UpdateCommit(q) PROVE IInv'
  BY <1>4, UpdateCommits
<1>5. ASSUME NEW q \in Slots,
             Refuse(q) \/ ValidatorFails(q) \/ Rollback(q) \/ (q = Cron /\ PurgeFails)
      PROVE  IInv'
  BY <1>5, Aborts
<1>6. ASSUME NEW q \in Reqs, DeleteCommit(q) PROVE IInv'
  BY <1>6, DeleteCommits
<1>7. ASSUME NEW q \in Reqs, BoardCommit(q) PROVE IInv'
  BY <1>7, BoardCommits
<1>8. ASSUME NEW rows \in SUBSET PostIds, PurgeBatch(rows) PROVE IInv'
  BY <1>8, PurgeEnds, PurgeGoesOn
<1>9. ASSUME NEW q \in Slots,
             Unlink(q) \/ \E stuck \in SUBSET Files : UnlinkFails(q, stuck)
      PROVE  IInv'
  BY <1>9, Unlinks
<1>10. CASE Stop
  BY <1>10, Stops
<1>11. CASE UNCHANGED vars
  <2>1. /\ Rows' = Rows /\ Live' = Live /\ Trash' = Trash /\ Named' = Named
        /\ Working' = Working /\ Busy' = Busy /\ Unlinkers' = Unlinkers
        /\ Droppers' = Droppers /\ Pending' = Pending
    BY <1>11 DEF vars, Rows, Live, Trash, Named, FilesOf, Working, Busy, Unlinkers, Droppers,
                 Pending
  <2> QED
    BY <1>11, <2>1 DEF vars, IInv, TypeOK, Shapes, ShapeOf, OneAuthor, AllSound, Sound,
                       Alone, Fresh, There, Read, Names, Kept
<1>12. (\A q \in Reqs : q \in Slots) /\ Cron \in Slots
  BY DEF Slots
<1> QED
  BY <1>1, <1>2, <1>3, <1>4, <1>5, <1>6, <1>7, <1>8, <1>9, <1>10, <1>11, <1>12,
     OthersBegin DEF Next

----------------------------------------------------------------------------
(* Theorems                                                                 *)

\* The inductive invariant.
THEOREM Invariance == Spec => []IInv
<1> QED
  BY IInvInit, IInvStep, PTL DEF Spec

\* Rows, requests in flight and files keep their types, and no row names more
\* files than both a request may bring (multer, for createPost) and the settings
\* allow (updatePost cuts a list with new files).
THEOREM TypesHold == Spec => []TypeOK
<1>1. IInv => TypeOK
  BY DEF IInv
<1> QED
  BY <1>1, Invariance, PTL

\* A file that a live post names is on disk, whatever fails and whenever the
\* server stops, unless an update or a board deletion had read an older row:
\* updatePost and deletePost unlink after their commit.
THEOREM LivePostsHaveTheirFiles == Spec => []AttachmentsExist
<1>1. IInv => AttachmentsExist
  <2> SUFFICES ASSUME IInv, NEW p \in Live, NEW f \in row[p].files, f \notin stale
               PROVE  f \in disk
    BY DEF AttachmentsExist
  <2>1. f \in Files
    BY RowStates DEF IInv
  <2> QED
    BY <2>1 DEF IInv, AllSound, Sound, There
<1> QED
  BY <1>1, Invariance, PTL

\* A file on disk is named by a post, or a request in flight has it in hand, or
\* it is one of those a stop, a failing unlink or validator, a purge that failed
\* between two batches, or an outdated read left over.
THEOREM NoFileIsForgotten == Spec => []NothingForgotten
<1>1. IInv => NothingForgotten
  <2> SUFFICES ASSUME IInv PROVE NothingForgotten
    OBVIOUS
  <2>1. Pending \subseteq InFlight
    BY NamedByRows, Flights DEF IInv
  <2> QED
    BY <2>1 DEF IInv, Kept, NothingForgotten
<1> QED
  BY <1>1, Invariance, PTL

=============================================================================

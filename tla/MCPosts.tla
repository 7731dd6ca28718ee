------------------------------ MODULE MCPosts ------------------------------
(* Posts for TLC: one post in every detail, or two that meet in the purge.  *)
EXTENDS Posts

CONSTANTS p1, p2, b1, q1

Used == {p \in PostIds : row[p] # Unborn} \cup UNION {req[q].posts : q \in Working}

\* What two posts share is a purge in batches or the deletion of their board.
\* TLC goes on from the states with one post, and from those with two in which
\* their requests come one after the other and change no post.  Posts, boards
\* and slots are interchangeable: p1 and q1 come first, posts begin in b1.
OneOrTwo ==
    /\ \A q \in Reqs : req[q].op = "create" => req[q].board = b1
    /\ \/ p2 \notin Used /\ faults <= 1
       \/ /\ p1 \in Used
          /\ \A q \in Reqs : q # q1 => req[q] = Idle
          /\ req[q1].op # "update"
          /\ \A b \in Boards : b # b1 => b \in open /\ \A p \in Rows : row[p].board # b
=============================================================================

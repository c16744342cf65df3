----------------------------- MODULE MCJobQueue -----------------------------
(* Instances of JobQueue for TLC: two rows that share a dedupe key (the      *)
(* second stands for a later enqueue of the same work) and one row without.  *)
EXTENDS JobQueue

CONSTANTS j1, j2, j3

TwoRows   == {j1, j2}
ThreeRows == {j1, j2, j3}

SameKey == [j \in Jobs |-> IF j = j3 THEN NoKey ELSE "lead"]

\* Bounds: max_attempts is 3 for webhooks and 5 otherwise.  Two is enough for a
\* first attempt, a retry and the last; the second worker of an overrun job needs
\* one more.
TwoTries == [j \in Jobs |-> 2]
Uneven   == [j \in Jobs |-> CASE j = j1 -> 3 [] j = j2 -> 1 [] OTHER -> 2]
=============================================================================

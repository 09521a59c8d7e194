---------------------------- MODULE MCReplicaSets ----------------------------
(***************************************************************************)
(* Two owners, one of them with the do-not-disrupt label, that are scaled  *)
(* up and down while a node is launched and another is drained.            *)
(***************************************************************************)
EXTENDS ReplicaSets, TLC

CONSTANTS n1, n2, web, db

\* The ids 1.. are for web, the last one for db.
Owned1 == [p \in Pod |-> IF p = Max(Pod) THEN db ELSE web]
OnlyWeb == [p \in Pod |-> web]

Ones == [o \in Owners |-> 1]
NoCost == [o \in Owners |-> 0]
SameRank == [p \in Pod |-> 0]
Offered == [n \in Node |-> IF n = n1 THEN 2 ELSE 3]

UpAndDown == {[kind |-> "ScaleUp", owner |-> web, count |-> 2],
              [kind |-> "ScaleDown", owner |-> web, count |-> 1],
              [kind |-> "HpaEvaluation", owner |-> web, count |-> 0]}

Down == {[kind |-> "ScaleDown", owner |-> web, count |-> 1]}

DownUpDown == {[kind |-> "ScaleDown", owner |-> web, count |-> k] : k \in 1..2}
              \cup {[kind |-> "ScaleUp", owner |-> web, count |-> 2]}

Threes == [o \in Owners |-> 3]
TwoWeb == [o \in Owners |-> IF o = web THEN 2 ELSE 1]
Twos == [o \in Owners |-> 2]
=============================================================================

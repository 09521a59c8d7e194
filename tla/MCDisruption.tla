----------------------------- MODULE MCDisruption -----------------------------
(***************************************************************************)
(* Small clusters to consolidate: pods that complete, come late or are     *)
(* protected, on nodes of two types.                                       *)
(***************************************************************************)
EXTENDS Disruption, TLC

CONSTANTS p1, p2, p3, p4

Table(f, default) == [p \in Pod |-> IF p \in DOMAIN f THEN f[p] ELSE default]

\* A larger type costs more.
Prices == [k \in Capacities |-> k]

Sizes == Table(p1 :> 2 @@ p2 :> 2 @@ p3 :> 1, 1)
\* Both p1 and p4 fill a small node and leave room on a large one.
Halves == Table(p1 :> 2 @@ p4 :> 2, 1)
Ranks == [p \in Pod |-> 0]
NoCosts == [p \in Work |-> 1]
Unowned == [p \in Pod |-> p]
\* p1 makes way; p4 comes before, during or after the first plan.
Durations == Table(p1 :> 6, 0)
Times == Table(p4 :> {3, 28}, {0})

\* One pod that shows the gate a change before the nodes are old enough, or after.
Visit == [p \in Pod |-> {20}]
Brief == [p \in Pod |-> 2]
\* p1 fills the first node for a while, so that p3 gets one that it can leave later.
Filling == Table(p1 :> 3 @@ p3 :> 2, 1)
Follow == Table(p3 :> {1}, {0})
AtOnce == [p \in Pod |-> {0}]
Endless == [p \in Pod |-> 0]
=============================================================================

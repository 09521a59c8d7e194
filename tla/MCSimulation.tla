---------------------------- MODULE MCSimulation ----------------------------
(***************************************************************************)
(* Small runs of the simulation: up to three nodes and six pods whose      *)
(* sizes, priorities, lifetimes and submission times the cfg chooses.      *)
(***************************************************************************)
EXTENDS Simulation, TLC

CONSTANTS p1, p2, p3, p4, p5, p6, web, job

\* A table over Pod from the entries of f, the rest at the default.
Table(f, default) == [p \in Pod |-> IF p \in DOMAIN f THEN f[p] ELSE default]

\* Sizes, priorities and lifetimes that make pods compete for a node of 4.
Sizes == Table(p1 :> 2 @@ p2 :> 2 @@ p3 :> 3, 1)
Ranks == Table(p1 :> 1 @@ p2 :> 2 @@ p3 :> 3 @@ p4 :> 0, 9)
Durations == Table(p1 :> 4 @@ p2 :> 3, 0)
Owners == Table(p1 :> web @@ p3 :> web, job)
Staggered == Table(p1 :> {0} @@ p2 :> {0, 1}, {0, 1, 2})
Resized == {[after |-> 3, owner |-> web, size |-> 3]}

\* Two pods at once and a third before, with or long after the nodes they get.
Late == Table(p3 :> {0, 5, 6, 7}, {0})
Spread == [p \in Pod |-> {0, 1, 4}]

\* Two full nodes; then p5, which outranks all, and p6, as small as they come.
CrowdSizes == Table(p1 :> 2 @@ p5 :> 3, 1)
CrowdRanks == Table(p1 :> 1 @@ p2 :> 1 @@ p5 :> 3, 0)
CrowdDurations == Table(p1 :> 3 @@ p2 :> 2 @@ p4 :> 3, 0)
CrowdTimes == Table(p5 :> {1} @@ p6 :> {1}, {0})

\* A larger type costs more.
Prices == [k \in Capacities |-> k]

\* Pods that differ in nothing.
SameSize == [p \in Pod |-> 2]
SameRank == [p \in Pod |-> 0]
Unowned == [p \in Pod |-> p]
SameOwner == [p \in Pod |-> web]
Endless == [p \in Pod |-> 0]
AtStart == [p \in Pod |-> {0}]
=============================================================================

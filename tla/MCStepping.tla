------------------------------ MODULE MCStepping ------------------------------
(***************************************************************************)
(* Episodes of a few windows over a small cluster that is consolidated.    *)
(***************************************************************************)
EXTENDS Stepping, TLC

CONSTANTS p1, p2, p3, p4

Table(f, default) == [p \in Pod |-> IF p \in DOMAIN f THEN f[p] ELSE default]

Prices == [k \in Capacities |-> k]
\* p4 takes the place of p2 where there is no room for it.
Ranks == Table(p4 :> 1, 0)
NoCosts == [p \in Work |-> 1]
Unowned == [p \in Pod |-> p]
Sizes == Table(p1 :> 2 @@ p2 :> 3 @@ p4 :> 4, 1)
\* p1 makes way; p4 comes before the first plan, between its turns, or with the drain of the
\* second, when the pod that was drained pends beside it.
Durations == Table(p1 :> 6, 0)
Times == Table(p4 :> {3, 28, 33}, {0})
=============================================================================

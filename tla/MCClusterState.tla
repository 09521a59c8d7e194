--------------------------- MODULE MCClusterState ---------------------------
(***************************************************************************)
(* Two nodes, three pods, two request sizes and one capacity that holds    *)
(* some pairs of pods and not others.                                      *)
(***************************************************************************)
EXTENDS ClusterState, TLC

Symmetry == Permutations(Node) \cup Permutations(Pod)
=============================================================================

------------------------------ MODULE MCDrains ------------------------------
(***************************************************************************)
(* A drifted node and others that a spot interruption and a consolidation  *)
(* may take, with pods of which a budget wants one to run.                 *)
(***************************************************************************)
EXTENDS Drains, TLC

CONSTANTS n1, n2, n3, p1, p2, d1, d2, d3, pdb

Ranks == [p \in Pod |-> IF p \in Daemon THEN 1 ELSE 0]

Web == [b \in {pdb} |-> {p1, p2}]
One == [b \in {pdb} |-> 1]
==============================================================================

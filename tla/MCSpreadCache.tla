---------------------------- MODULE MCSpreadCache ----------------------------
(***************************************************************************)
(* Three nodes, two of them in one zone, and pods that come and go.        *)
(***************************************************************************)
EXTENDS SpreadCache, TLC

CONSTANTS n1, n2, n3, n4, east, west

ZoneOf == [n \in Node |-> CASE n \in {n1, n2} -> east [] n = n3 -> west [] OTHER -> NoDomain]
=============================================================================

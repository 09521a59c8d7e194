------------------------------- MODULE MCArena -------------------------------
(***************************************************************************)
(* The arena with three slots, two generations of each and two values: the *)
(* free stack can hold two slots in either order, and every slot can be    *)
(* reused while stale handles to it are still held.                        *)
(***************************************************************************)
EXTENDS Arena
=============================================================================

------------------------------ MODULE ReplicaTarget ------------------------------
(***************************************************************************)
(* What a ReplicaSet promises about the number of its pods: it moves to    *)
(* the desired number in one step, by a reconcile, and by nothing else,    *)
(* and it stays there once nobody changes the target any more.             *)
(***************************************************************************)
EXTENDS Integers

CONSTANTS Owners

VARIABLES desired, count

Init == desired \in [Owners -> Nat] /\ count = [o \in Owners |-> 0]

\* ScaleUp, ScaleDown
Retarget == desired' \in [Owners -> Nat] /\ UNCHANGED count

Reconcile(o) ==
    /\ count' = [count EXCEPT ![o] = desired[o]]
    /\ UNCHANGED desired

Next == Retarget \/ \E o \in Owners : Reconcile(o)

Spec == Init /\ [][Next]_<<desired, count>>

Settles == <>[](count = desired)

SettlingSpec == Spec /\ Settles
=============================================================================

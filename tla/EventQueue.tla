------------------------------ MODULE EventQueue ------------------------------
(***************************************************************************)
(* The engine's queue (kubesim-engine/src/lib.rs): a binary heap ordered   *)
(* by time alone, so events due at the same instant come out in any order. *)
(* Only time differences decide what happens next, so an event carries the *)
(* time left until it is due and taking one moves the clock for the rest.  *)
(***************************************************************************)
EXTENDS Integers, Bags

\* A bag with one event that is due in t.
At(t, event) == SetToBag({[after |-> t, event |-> event]})

\* The entries BinaryHeap::pop may return.
Earliest(queue) == {e \in DOMAIN queue : \A f \in DOMAIN queue : e.after <= f.after}

\* state.time moves on by d.
Elapse(queue, d) ==
    [e \in {[f EXCEPT !.after = @ - d] : f \in DOMAIN queue} |->
        queue[[e EXCEPT !.after = @ + d]]]

\* Take e off the queue, at the time e is due.
Pop(queue, e) == Elapse(queue (-) SetToBag({e}), e.after)
=============================================================================

------------------------------ MODULE Provisioner ------------------------------
(***************************************************************************)
(* What the Karpenter provisioner decides to launch for the pending pods   *)
(* (kubesim-karpenter/src/provisioner.rs), by the cost-optimising path or  *)
(* by the legacy one of a v0.35 profile.                                   *)
(* A claim is a node to be: how many pods it is for and what they request. *)
(* Pods have no affinity, taint or spread constraint here, so one batch    *)
(* holds every pending pod.                                                *)
(***************************************************************************)
EXTENDS Cluster, SequencesExt

CONSTANTS Owner,       \* the workload every pod belongs to
          Capacities,  \* what the pool's instance types offer
          Price,       \* what a type of each capacity costs
          MaxNodes,    \* the pool's limits.max_nodes
          Version      \* of the handlers' version_profile; "none" without one

ASSUME CapacitiesAssumption == /\ Capacities \subseteq Nat \ {0}
                               /\ Capacities # {} /\ IsFiniteSet(Capacities)
                               /\ Price \in [Capacities -> Nat]
                               /\ MaxNodes \in Nat
                               /\ Version \in {"none", "V0_35", "V1"}

Largest == Max(Capacities)

\* What a filter lets through: the elements of s that are in S, in their order.
InOrder(s, S) ==
    LET upTo[i \in 0..Len(s)] ==
            IF i = 0 THEN <<>>
            ELSE IF s[i] \in S THEN Append(upTo[i - 1], s[i]) ELSE upTo[i - 1]
    IN  upTo[Len(s)]

\* batch_pending_pods: the pending queue may hold pods that no longer pend.
Batch(c) == InOrder(c.pending_queue, {p \in Pod : Is(c, p, "Pending")})

\* Vec::sort_by of a q that holds nothing twice: the one sequence that has q in the
\* order Less and, since the sort is stable, equals as q has them.
SortedBy(q, Less(_, _)) ==
    {s \in SetToSeqs(ToSet(q)) : \A i, j \in DOMAIN s : i < j =>
        \/ Less(s[i], s[j])
        \/ /\ ~ Less(s[j], s[i])
           /\ \E k, l \in DOMAIN q : k < l /\ q[k] = s[i] /\ q[l] = s[j]}

\* The batch in decreasing order of request.
BySize(c) == SortedBy(Batch(c), LAMBDA p, q : c.requests[p] > c.requests[q])

AllSame(c, q) == /\ Len(q) > 1
                 /\ \A i \in DOMAIN q : /\ c.requests[q[i]] = c.requests[q[1]]
                                        /\ Owner[q[i]] = Owner[q[1]]

\* Uniform pods: as few claims as the largest type allows, dealt round-robin; of pods
\* that request nothing it holds any number.  The pool's limits are not consulted.
UniformClaims(c, q) ==
    LET size == c.requests[q[1]]
        perClaim == IF size = 0 THEN Len(q) ELSE Max({Largest \div size, 1})
        needed == (Len(q) + perClaim - 1) \div perClaim
        Dealt(i) == Cardinality({k \in 0..Len(q) - 1 : k % needed = i - 1})
    IN  [i \in 1..needed |-> [pods |-> Dealt(i), total |-> size * Dealt(i)]]

ToFront(claims, i) == [claims EXCEPT ![1] = claims[i], ![i] = claims[1]]

Opened(size) == [pods |-> 1, total |-> size]

\* Mixed pods: first fit into the claims so far, the claim just used moved to the
\* front; a pod that fits none opens a claim if the pool may still launch one.
PlacePod(c, launched, acc, p) ==
    LET size == c.requests[p]
        roomy == {i \in DOMAIN acc.claims : acc.claims[i].total + size <= Largest}
        i == Min(roomy)
        grown == [acc.claims EXCEPT ![i] = [pods |-> @.pods + 1, total |-> @.total + size]]
    IN  IF acc.over THEN acc
        ELSE IF roomy # {} THEN [acc EXCEPT !.claims = ToFront(grown, i)]
        ELSE IF launched + Len(acc.claims) >= MaxNodes THEN [acc EXCEPT !.over = TRUE]
        ELSE [acc EXCEPT !.claims = Append(@, Opened(size))]

MixedClaims(c, launched, q) ==
    FoldLeft(LAMBDA acc, p : PlacePod(c, launched, acc, p),
             [claims |-> <<>>, over |-> FALSE], q).claims

-----------------------------------------------------------------------------
(***************************************************************************)
(* v0.35: one node for the whole batch if a type holds it, else nodes of   *)
(* the largest type, each filled in the order of the queue.  A filled node *)
(* asks for all that the largest type offers.  acc is [claims, pods, left, *)
(* over]: the nodes filled, the pods of the one being filled and what is   *)
(* left of it, and whether the limit has stopped it.  A pod larger than    *)
(* the largest type gets a node like any other.                            *)
(***************************************************************************)
Filled(pods) == [pods |-> pods, total |-> Largest]

FillLargest(c, launched, acc, p) ==
    LET size == c.requests[p]
        full == size > acc.left
        claims == IF full /\ acc.pods > 0 THEN Append(acc.claims, Filled(acc.pods)) ELSE acc.claims
    IN  IF acc.over THEN acc
        ELSE IF full /\ launched + Len(claims) >= MaxNodes
             THEN [acc EXCEPT !.claims = claims, !.pods = 0, !.over = TRUE]
        ELSE [acc EXCEPT !.claims = claims,
                         !.pods = IF full THEN 1 ELSE @ + 1,
                         !.left = SatSub(IF full THEN Largest ELSE @, size)]

\* select_instance: one node for all of q, if a type holds them and the pool may grow.
SelectInstance(c, launched, q) ==
    LET total == FoldLeft(LAMBDA sum, p : sum + c.requests[p], 0, q)
    IN  IF q # <<>> /\ total <= Largest /\ launched < MaxNodes
        THEN <<[pods |-> Len(q), total |-> total]>> ELSE <<>>

LegacyClaims(c, launched, q) ==
    LET one == SelectInstance(c, launched, q)
        acc == FoldLeft(LAMBDA a, p : FillLargest(c, launched, a, p),
                        [claims |-> <<>>, pods |-> 0, left |-> Largest, over |-> FALSE], q)
    IN  IF one # <<>> \/ Len(q) <= 1 \/ launched >= MaxNodes THEN one
        ELSE IF acc.pods = 0 THEN acc.claims
        ELSE Append(acc.claims, Filled(acc.pods))

\* The cost-optimising path: of its claims those that some instance type can hold.
FlexibleClaims(c, launched, q) ==
    LET claims == IF AllSame(c, q) THEN UniformClaims(c, q) ELSE MixedClaims(c, launched, q)
    IN  InOrder(claims, {claim \in ToSet(claims) : claim.total <= Largest})

\* provision_versioned
Claims(c, launched) ==
    IF Version = "V0_35" THEN {LegacyClaims(c, launched, Batch(c))}
                         ELSE {FlexibleClaims(c, launched, q) : q \in BySize(c)}

Addressed(claims) == FoldLeft(LAMBDA total, claim : total + claim.pods, 0, claims)

\* A claim is launched as the cheapest type that holds its pods.
Holding(total) == {k \in Capacities : total <= k}
Cheapest(total) == {k \in Holding(total) : \A j \in Holding(total) : Price[k] <= Price[j]}

LaunchTypes(claims) == {f \in [DOMAIN claims -> Capacities] :
                        \A i \in DOMAIN claims : f[i] \in Cheapest(claims[i].total)}
=============================================================================

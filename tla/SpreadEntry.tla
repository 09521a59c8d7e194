------------------------------ MODULE SpreadEntry ------------------------------
(***************************************************************************)
(* An entry of SchedulingCaches.spread_counts and spread_min               *)
(* (kubesim-scheduler/src/lib.rs): for one topology key and one selector,  *)
(* how many matching pods each domain has and the least of these counts.   *)
(* A domain that is not in domains counts zero.                            *)
(***************************************************************************)
EXTENDS Integers

CONSTANTS Domain,   \* the values of the topology key
          NoDomain  \* a node without the label

Entries == [domains : SUBSET Domain, counts : [Domain -> Nat], min : Nat]

NoEntry == [domains |-> {}, counts |-> [d \in Domain |-> 0], min |-> 0]

Named(d) == {d} \ {NoDomain}

\* Mutant of NodeAdded: a new domain does not lower the least count.
NodeAddedKeepsMin(e, d) == [domains |-> e.domains \cup Named(d), counts |-> e.counts, min |-> e.min]

\* SchedulingCaches::on_node_added: a new domain counts zero; the least count falls to
\* zero whether the domain is new or not.
NodeAdded(e, d) == [domains |-> e.domains \cup Named(d), counts |-> e.counts, min |-> 0]

\* Mutant of PodBound: the least count is never raised.
PodBoundLazily(e, d) ==
    IF d = NoDomain THEN e
    ELSE [domains |-> e.domains \cup {d}, counts |-> [e.counts EXCEPT ![d] = @ + 1], min |-> e.min]

\* SchedulingCaches::on_pod_bound for a pod that matches the selector: the least count
\* grows when the last domain leaves it.
PodBound(e, d) ==
    LET still_at_min == \E x \in e.domains \ {d} : e.counts[x] = e.counts[d]
    IN  IF d = NoDomain THEN e
        ELSE [domains |-> e.domains \cup {d}, counts |-> [e.counts EXCEPT ![d] = @ + 1],
              min |-> IF e.counts[d] = e.min /\ ~ still_at_min THEN e.min + 1 ELSE e.min]

\* The least of the counts, zero if there is no domain.
IsLeast(m, domains, counts) ==
    /\ domains = {} => m = 0
    /\ domains # {} => \E d \in domains : counts[d] = m
    /\ \A d \in domains : m <= counts[d]
=============================================================================

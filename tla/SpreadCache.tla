------------------------------ MODULE SpreadCache ------------------------------
(***************************************************************************)
(* One entry of the scheduling caches under any callers                    *)
(* (kubesim-scheduler/src/lib.rs).  It is filled when a filter first asks  *)
(* for it and then kept up by notices; who binds or removes a pod without  *)
(* a notice leaves it stale.                                               *)
(***************************************************************************)
EXTENDS SpreadEntry, Integers, FiniteSets

CONSTANTS Node, Pod,  \* the pods are those that match the selector
          DomainOf,   \* the node's label, or NoDomain
          NoNode,
          MaxCount    \* bound of the instance: no cached count grows beyond it

ASSUME SpreadAssumption == /\ MaxCount \in Nat /\ IsFiniteSet(Pod)
                           /\ NoDomain \notin Domain /\ NoNode \notin Node
                           /\ DomainOf \in [Node -> Domain \cup {NoDomain}]

VARIABLES live,    \* the nodes of the cluster
          on,      \* where each running pod is
          cached,  \* whether the caches hold the entry
          entry    \* [domains, counts, min]; a domain outside domains counts 0

vars == <<live, on, cached, entry>>

-----------------------------------------------------------------------------
\* domain_counts: what a scan of the cluster finds.
LiveDomains == {DomainOf[n] : n \in live} \ {NoDomain}
Count(d) == Cardinality({p \in Pod : on[p] \in live /\ DomainOf[on[p]] = d})
DomainCounts == [d \in Domain |-> Count(d)]

Init == /\ live = {} /\ on = [p \in Pod |-> NoNode]
        /\ cached = FALSE /\ entry = NoEntry

\* get_domain_counts when the entry is missing.
GetDomainCounts ==
    /\ ~ cached
    /\ cached' = TRUE
    /\ \E m \in {0} \cup {Count(d) : d \in LiveDomains} :
          /\ IsLeast(m, LiveDomains, DomainCounts)
          /\ entry' = [domains |-> LiveDomains, counts |-> DomainCounts, min |-> m]
    /\ UNCHANGED <<live, on>>

\* NodeLaunching: the node is added and the caches are told.
OnNodeAdded(n) ==
    /\ n \notin live
    /\ \A p \in Pod : on[p] # n
    /\ live' = live \cup {n}
    /\ entry' = IF cached THEN NodeAdded(entry, DomainOf[n]) ELSE entry
    /\ UNCHANGED <<on, cached>>

\* A pass binds a pod and tells the caches.
OnPodBound(p, n) ==
    /\ on[p] = NoNode /\ n \in live
    /\ \A d \in Domain : entry.counts[d] < MaxCount
    /\ on' = [on EXCEPT ![p] = n]
    /\ entry' = IF cached THEN PodBound(entry, DomainOf[n]) ELSE entry
    /\ UNCHANGED <<live, cached>>

\* A submission binds a pod and tells nobody.
BindQuietly(p, n) ==
    /\ on[p] = NoNode /\ n \in live
    /\ on' = [on EXCEPT ![p] = n]
    /\ UNCHANGED <<live, cached, entry>>

\* An eviction or a completion tells nobody either.
Leave(p) ==
    /\ on[p] # NoNode
    /\ on' = [on EXCEPT ![p] = NoNode]
    /\ UNCHANGED <<live, cached, entry>>

\* SchedulingCaches::invalidate
Invalidate == cached' = FALSE /\ entry' = NoEntry

\* NodeTerminated: the node goes, with its pods still naming it.
RemoveNode(n) ==
    /\ n \in live
    /\ live' = live \ {n}
    /\ Invalidate
    /\ UNCHANGED on

Next == \/ GetDomainCounts
        \/ \E n \in Node : OnNodeAdded(n) \/ RemoveNode(n)
        \/ \E p \in Pod : Leave(p) \/ \E n \in Node : OnPodBound(p, n) \/ BindQuietly(p, n)

Spec == Init /\ [][Next]_vars

-----------------------------------------------------------------------------
TypeOK ==
    /\ live \subseteq Node /\ on \in [Pod -> Node \cup {NoNode}]
    /\ cached \in BOOLEAN
    /\ entry \in [domains : SUBSET Domain, counts : [Domain -> Nat], min : Nat]

\* A cached entry knows the domains of the live nodes and no other, so a filter that
\* reads it never takes a domain for missing: nodes come with a notice and go
\* with an invalidation.
DomainsKnown == cached => entry.domains = LiveDomains

\* The cached minimum is never above a cached count, however many notices were
\* missed: a minimum too high would let the filter accept a skew beyond max_skew.
MinBelow == cached => \A d \in entry.domains : entry.min <= entry.counts[d]

\* What a filter relies on when it reads the cache.
CacheSafe == TypeOK /\ DomainsKnown /\ MinBelow

\* The entry tells what a scan would find.
Exact == /\ entry.counts = DomainCounts
         /\ IsLeast(entry.min, entry.domains, entry.counts)

\* A notice keeps an exact entry exact: the minimum is raised when the last domain
\* leaves it and not before.
NoticeKeepsExact ==
    [][cached /\ Exact /\ (\E p \in Pod, n \in Node : OnPodBound(p, n)) => Exact']_vars

-----------------------------------------------------------------------------
\* Said by the repository and not true of the code.

\* "Cached min count per spread key": the minimum of what is cached.
MinIsLeast == cached => IsLeast(entry.min, entry.domains, entry.counts)
=============================================================================

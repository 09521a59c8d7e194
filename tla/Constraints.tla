------------------------------ MODULE Constraints ------------------------------
(***************************************************************************)
(* The filter chain of kubesim-scheduler/src/lib.rs beyond resources:      *)
(* taints, node affinity, pod affinity and topology spread, and preemption *)
(* among the nodes that pass it.  Labels are values under keys; a selector *)
(* stands for the pods whose labels match it.                              *)
(***************************************************************************)
EXTENDS Scheduler

CONSTANTS Labels,        \* Node.labels: node -> key -> value, NoLabel if it has none
          NoLabel,
          Taints,        \* Node.taints: [key, value, effect]
          Tolerations,   \* of a pod: [key, operator, value, effect], effect {} for any
          NodeAffinity,  \* of a pod: [required, weight, match], match a set of <<key, value>>
          Matching,      \* the selectors that match a pod's labels
          PodAffinity,   \* of a pod: terms [key, selector, anti, required, weight], in order
          Spread,        \* of a pod: constraints [key, selector, max_skew, hard], in order
          Pdbs           \* ClusterState.pdbs: [selector, min_available]

\* What f has a value for, and what else g has one for.
WithNew(f, g) == [x \in DOMAIN f \cup DOMAIN g |-> IF x \in DOMAIN f THEN f[x] ELSE g[x]]

Tolerates(t, taint) ==
    /\ t.effect = {} \/ taint.effect \in t.effect
    /\ t.key = taint.key
    /\ t.operator = "Exists" \/ t.value = taint.value

TaintToleration(p, n) == \A taint \in Taints[n] : \E t \in Tolerations[p] : Tolerates(t, taint)

NodeAffinityFilter(p, n) ==
    \A term \in NodeAffinity[p] : term.required => \A x \in term.match : Labels[n][x[1]] = x[2]

\* The pods of any node of the domain, ready or not.
MatchingPods(c, selector, key, domain) ==
    {q \in UNION {c.podsOn[n] : n \in {m \in Node : LiveNode(c, m) /\ Labels[m][key] = domain}} :
        LivePod(c, q) /\ selector \in Matching[q]}

\* topology_has_matching_pod, count_matching_pods_in_domain
HasMatchingPod(c, selector, key, domain) == MatchingPods(c, selector, key, domain) # {}
CountMatching(c, selector, key, domain) == Cardinality(MatchingPods(c, selector, key, domain))

\* Is a required term satisfied by a node of which has tells if its domain has a match?
TermHolds(term, n, has) ==
    \/ ~ term.required
    \/ Labels[n][term.key] = NoLabel /\ term.anti
    \/ Labels[n][term.key] # NoLabel /\ has # term.anti

InterPodAffinity(c, p, n) ==
    \A i \in DOMAIN PodAffinity[p] :
        LET term == PodAffinity[p][i]
        IN  TermHolds(term, n, HasMatchingPod(c, term.selector, term.key, Labels[n][term.key]))

\* domain_counts: the domains of all nodes, and in each the running pods that match.
DomainsOf(c, key) == {Labels[n][key] : n \in {m \in Node : LiveNode(c, m)}} \ {NoLabel}
RunningIn(c, key, selector, domain) ==
    Cardinality({q \in Pod : /\ Is(c, q, "Running") /\ selector \in Matching[q]
                             /\ LiveNode(c, c.node[q]) /\ Labels[c.node[q]][key] = domain})

Skew(least, count) == count + 1 - least

\* PodTopologySpreadFilter: an empty node passes whatever its domain holds.
EmptyPasses(c, n, x) == c.podsOn[n] = {} /\ x.max_skew >= 1

TopologySpread(c, p, n) ==
    \A i \in DOMAIN Spread[p] :
        LET x == Spread[p][i]
            Running(d) == RunningIn(c, x.key, x.selector, d)
        IN  \/ ~ x.hard
            \/ /\ Labels[n][x.key] # NoLabel
               /\ \/ EmptyPasses(c, n, x)
                  \/ Skew(Min({Running(d) : d \in DomainsOf(c, x.key)}), Running(Labels[n][x.key]))
                       <= x.max_skew

OtherFilters(c, p, n) ==
    /\ TaintToleration(p, n) /\ NodeAffinityFilter(p, n)
    /\ InterPodAffinity(c, p, n) /\ TopologySpread(c, p, n)

Admissible(c, up, p) == {n \in Feasible(c, up, p) : OtherFilters(c, p, n)}

-----------------------------------------------------------------------------
\* NodeAffinityScore
NodeAffinityScore(p, n) ==
    MapThenSumSet(LAMBDA term : term.weight,
                  {t \in NodeAffinity[p] : ~ t.required /\ \A x \in t.match : Labels[n][x[1]] = x[2]})

\* What a preferred term is worth on a node of which count pods of its domain match.
TermScore(term, n, count) ==
    IF term.required \/ Labels[n][term.key] = NoLabel THEN 0
    ELSE (IF term.anti THEN -1 ELSE 1) * count * term.weight

AffinityScore(c, p, n) ==
    FoldLeft(LAMBDA total, term : total +
                 TermScore(term, n, CountMatching(c, term.selector, term.key, Labels[n][term.key])),
             0, PodAffinity[p])

\* PodTopologySpreadScore: what the average skew, as far as the soft constraints that
\* the node has a domain of ask for it, leaves of 100.
SoftConstraints(p, n) ==
    {i \in DOMAIN Spread[p] : ~ Spread[p][i].hard /\ Labels[n][Spread[p][i].key] # NoLabel}

SkewScore(skews) ==
    LET k == Cardinality(DOMAIN skews)
        total == MapThenSumSet(LAMBDA i : Max({skews[i], 0}), DOMAIN skews)
    IN  IF k = 0 THEN 0 ELSE SatSub(100 * k, total) \div k

SpreadScore(c, p, n) ==
    SkewScore([i \in SoftConstraints(p, n) |->
        LET x == Spread[p][i]
        IN  Skew(Min({RunningIn(c, x.key, x.selector, d) : d \in DomainsOf(c, x.key)}),
                 RunningIn(c, x.key, x.selector, Labels[n][x.key]))])

\* The score phase: every scorer's values over the feasible nodes, a function of scores,
\* are stretched to 0..100; nodes of the highest sum tie.
Normalized(raw) ==
    LET least == Min(Range(raw))
        range == Max(Range(raw)) - least
    IN  [n \in DOMAIN raw |-> IF range = 0 THEN 100 ELSE (100 * (raw[n] - least)) \div range]

Highest(nodes, scores) ==
    LET normalized == [i \in DOMAIN scores |-> Normalized(scores[i])]
        total == [n \in nodes |-> FoldLeft(LAMBDA sum, score : sum + score[n], 0, normalized)]
    IN  {n \in nodes : \A m \in nodes : total[m] <= total[n]}

\* The nodes schedule_one may bind the pod to.
Winners(c, up, p) ==
    LET nodes == Admissible(c, up, p)
    IN  Highest(nodes, <<[n \in nodes |-> AllocationScore(c, p, n)],
                         [n \in nodes |-> NodeAffinityScore(p, n)],
                         [n \in nodes |-> AffinityScore(c, p, n)],
                         [n \in nodes |-> SpreadScore(c, p, n)]>>)

-----------------------------------------------------------------------------
\* count_pdb_violations: the budgets that the eviction of the victims would leave short.
PdbViolations(c, victims) ==
    Cardinality({pdb \in Pdbs :
        LET matching == {q \in Pod : LivePod(c, q) /\ pdb.selector \in Matching[q]}
            running == {q \in matching : Is(c, q, "Running")}
        IN  SatSub(Cardinality(running), Cardinality(QueueSet(victims) \cap matching))
                < pdb.min_available})

\* evaluate_preemption over the nodes that pass every filter but the resources: fewest
\* violations, then victims, then total priority.  A node with room needs no victim.
RankedBy(c, s) == <<PdbViolations(c, s)>> \o PreemptionCost(s)
LexLess(a, b) == \E i \in 1..3 : a[i] < b[i] /\ \A j \in 1..i - 1 : a[j] = b[j]

\* Mutant of Candidates: no victims, no candidate.
CandidatesWithVictims(c, up, p) ==
    UNION {{n} \X (Victims(c, p, n) \ {<<>>}) :
           n \in {m \in up : LiveNode(c, m) /\ OtherFilters(c, p, m)}}

Candidates(c, up, p) ==
    UNION {{n} \X Victims(c, p, n) :
           n \in {m \in up : LiveNode(c, m) /\ OtherFilters(c, p, m)}}

\* Each node offers one prefix of its victims, in whatever order equals come; so another
\* node's best is beaten only if it is beaten in one of its orders.
BestCandidates(c, up, p) ==
    LET all == Candidates(c, up, p)
    IN  {x \in all : \A n \in {y[1] : y \in all} \ {x[1]} :
            \E y \in all : y[1] = n /\ ~ LexLess(RankedBy(c, y[2]), RankedBy(c, x[2]))}
=============================================================================

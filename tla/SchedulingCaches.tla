---------------------------- MODULE SchedulingCaches ----------------------------
(***************************************************************************)
(* Scheduling passes that read pod affinity and topology spread from       *)
(* caches kept from pass to pass (SchedulingCaches, schedule_one_cached    *)
(* and schedule_pending_from of kubesim-scheduler/src/lib.rs).             *)
(***************************************************************************)
EXTENDS Constraints

CONSTANT Key  \* the topology keys

Domain == {Labels[n][k] : n \in Node, k \in Key} \ {NoLabel}

Entry == INSTANCE SpreadEntry WITH NoDomain <- NoLabel

\* spread: <<key, selector>> -> entry; match: <<key, label, selector, anti>> -> BOOLEAN;
\* count: <<key, label, selector>> -> Nat.
NoCaches == [spread |-> <<>>, match |-> <<>>, count |-> <<>>]

Scan(c, k) ==
    LET domains == DomainsOf(c, k[1])
        counts == [d \in Domain |-> RunningIn(c, k[1], k[2], d)]
    IN  [domains |-> domains, counts |-> counts,
         min |-> IF domains = {} THEN 0 ELSE Min({counts[d] : d \in domains})]

\* get_domain_counts, get_affinity_match, get_affinity_count: what is cached, else what a scan finds now.
EntryOf(c, caches, k) == IF k \in DOMAIN caches.spread THEN caches.spread[k] ELSE Scan(c, k)

MatchKey(term, n) == <<term.key, Labels[n][term.key], term.selector, term.anti>>
MatchOf(c, caches, term, n) ==
    LET k == MatchKey(term, n)
    IN  IF k \in DOMAIN caches.match THEN caches.match[k]
        ELSE HasMatchingPod(c, term.selector, term.key, Labels[n][term.key])

CountKey(term, n) == <<term.key, Labels[n][term.key], term.selector>>
CountIn(c, caches, term, n) ==
    LET k == CountKey(term, n)
    IN  IF k \in DOMAIN caches.count THEN caches.count[k]
        ELSE CountMatching(c, term.selector, term.key, Labels[n][term.key])

\* Scheduler::on_node_added
OnNodeAdded(caches, n) ==
    [caches EXCEPT !.spread = [k \in DOMAIN @ |-> Entry!NodeAdded(@[k], Labels[n][k[1]])]]

\* Does a bind of p to n count for a key <<key, label, selector, ...>>?
Concerns(k, p, n) == Labels[n][k[1]] = k[2] /\ k[3] \in Matching[p]

SpreadBound(spread, p, n) ==
    [k \in DOMAIN spread |-> IF k[2] \in Matching[p] THEN Entry!PodBound(spread[k], Labels[n][k[1]])
                                                     ELSE spread[k]]

CountBound(count, p, n) ==
    [k \in DOMAIN count |-> IF Concerns(k, p, n) THEN count[k] + 1 ELSE count[k]]

\* Mutant of OnPodBound: the cached matches are left as they are.
OnPodBoundCounts(caches, p, n) ==
    [spread |-> SpreadBound(caches.spread, p, n), match |-> caches.match,
     count |-> CountBound(caches.count, p, n)]

\* on_pod_bound: told of every bind the pass asks for, whether it took place or not.
OnPodBound(caches, p, n) ==
    [spread |-> SpreadBound(caches.spread, p, n),
     match |-> [k \in DOMAIN caches.match |-> caches.match[k] \/ Concerns(k, p, n)],
     count |-> CountBound(caches.count, p, n)]

-----------------------------------------------------------------------------
\* filter_inter_pod_affinity_cached
TermHoldsCached(c, caches, p, n, i) ==
    LET term == PodAffinity[p][i] IN TermHolds(term, n, MatchOf(c, caches, term, n))

AffinityCached(c, caches, p, n) ==
    \A i \in DOMAIN PodAffinity[p] : TermHoldsCached(c, caches, p, n, i)

\* filter_topology_spread_cached: a domain at the least count always passes, and one the
\* cache does not know counts from zero.
SpreadHoldsCached(c, caches, p, n, i) ==
    LET x == Spread[p][i]
        d == Labels[n][x.key]
        e == EntryOf(c, caches, <<x.key, x.selector>>)
        least == IF d \in e.domains THEN e.min ELSE 0
    IN  \/ ~ x.hard
        \/ /\ d # NoLabel
           /\ EmptyPasses(c, n, x) \/ e.counts[d] = least \/ Skew(least, e.counts[d]) <= x.max_skew

SpreadCached(c, caches, p, n) == \A i \in DOMAIN Spread[p] : SpreadHoldsCached(c, caches, p, n, i)

Basic(c, p, n) ==
    LiveNode(c, n) /\ Fits(c, p, n) /\ TaintToleration(p, n) /\ NodeAffinityFilter(p, n)

FeasibleCached(c, caches, nodes, p) ==
    {n \in nodes : Basic(c, p, n) /\ AffinityCached(c, caches, p, n) /\ SpreadCached(c, caches, p, n)}

\* score_inter_pod_affinity_cached, score_topology_spread_cached
AffinityScoreCached(c, caches, p, n) ==
    FoldLeft(LAMBDA total, term : total + TermScore(term, n, CountIn(c, caches, term, n)),
             0, PodAffinity[p])

SpreadScoreCached(c, caches, p, n) ==
    SkewScore([i \in SoftConstraints(p, n) |->
        LET x == Spread[p][i]
            d == Labels[n][x.key]
            e == EntryOf(c, caches, <<x.key, x.selector>>)
        IN  Skew(IF d \in e.domains THEN e.min ELSE 0, e.counts[d])])

WinnersCached(c, caches, feasible, p) ==
    Highest(feasible, <<[n \in feasible |-> AllocationScore(c, p, n)],
                        [n \in feasible |-> NodeAffinityScore(p, n)],
                        [n \in feasible |-> AffinityScoreCached(c, caches, p, n)],
                        [n \in feasible |-> SpreadScoreCached(c, caches, p, n)]>>)

\* What the filters and the scorers of one pod leave in the caches: on each node they look
\* terms and constraints up until one rejects the node; the scorers look at preferred
\* terms and soft constraints on the feasible nodes.
AskedMatches(c, caches, nodes, p) ==
    LET Reached(i) == {n \in nodes : /\ Basic(c, p, n) /\ PodAffinity[p][i].required
                                     /\ Labels[n][PodAffinity[p][i].key] # NoLabel
                                     /\ \A j \in 1..i - 1 : TermHoldsCached(c, caches, p, n, j)}
    IN  UNION {{MatchKey(PodAffinity[p][i], n) : n \in Reached(i)} : i \in DOMAIN PodAffinity[p]}

AskedCounts(feasible, p) ==
    {CountKey(x[1], x[2]) : x \in
        {y \in Range(PodAffinity[p]) \X feasible :
            ~ y[1].required /\ Labels[y[2]][y[1].key] # NoLabel}}

AskedSpreads(c, caches, nodes, feasible, p) ==
    LET Reaches(n, i) ==
            LET x == Spread[p][i]
            IN  IF x.hard
                THEN /\ Basic(c, p, n) /\ AffinityCached(c, caches, p, n)
                     /\ ~ EmptyPasses(c, n, x)
                     /\ \A j \in 1..i - 1 : SpreadHoldsCached(c, caches, p, n, j)
                ELSE n \in feasible
    IN  {<<Spread[p][i].key, Spread[p][i].selector>> : i \in
            {j \in DOMAIN Spread[p] : \E n \in nodes :
                Labels[n][Spread[p][j].key] # NoLabel /\ Reaches(n, j)}}

Filled(c, caches, nodes, feasible, p) ==
    [spread |-> WithNew(caches.spread,
                        [k \in AskedSpreads(c, caches, nodes, feasible, p) |-> Scan(c, k)]),
     match |-> WithNew(caches.match,
                       [k \in AskedMatches(c, caches, nodes, p) |-> HasMatchingPod(c, k[3], k[1], k[2])]),
     count |-> WithNew(caches.count,
                       [k \in AskedCounts(feasible, p) |-> CountMatching(c, k[3], k[1], k[2])])]

-----------------------------------------------------------------------------
(***************************************************************************)
(* schedule_pending_from, as in Scheduler, with the caches: a pass is      *)
(* [c, caches, open, bound, skip, over].  saturated is skipped by the      *)
(* cached filters and by nothing else.                                     *)
(***************************************************************************)
Fingerprint(c, p) ==
    <<c.requests[p], Spread[p], PodAffinity[p], NodeAffinity[p], Tolerations[p]>>

CachedStart(c, caches, up, least) ==
    [c |-> c, caches |-> caches, open |-> {n \in up : HasRoom(c, least, n)},
     bound |-> FALSE, skip |-> {}, over |-> FALSE]

CachedBinds(s, caches, least, p, n) ==
    LET c == BindPod(s.c, p, n)
    IN  [s EXCEPT !.c = c, !.caches = OnPodBound(caches, p, n), !.bound = TRUE, !.skip = {},
                  !.open = {m \in @ : HasRoom(c, least, m)}]

CachedPreempts(s, caches, p, x) ==
    [s EXCEPT !.c = Preempt(@, p, x[1], x[2]), !.caches = OnPodBound(caches, p, x[1]),
              !.bound = TRUE, !.skip = {}]

CachedFails(s, caches, p) ==
    IF s.bound THEN [s EXCEPT !.caches = caches, !.over = TRUE]
               ELSE [s EXCEPT !.caches = caches, !.skip = {Fingerprint(s.c, p)}]

\* schedule_one_cached, given what the lookups left in the caches, the best feasible nodes
\* and the best preemptions.
CachedAttempt(s, least, p, caches, nodes, preemptions) ==
    IF nodes # {} THEN {CachedBinds(s, caches, least, p, n) : n \in nodes}
    ELSE IF preemptions # {} THEN {CachedPreempts(s, caches, p, x) : x \in preemptions}
    ELSE {CachedFails(s, caches, p)}

CachedStep(s, up, nodes, least, p) ==
    LET feasible == FeasibleCached(s.c, s.caches, nodes, p)
    IN  IF s.over \/ s.open = {} THEN {[s EXCEPT !.over = TRUE]}
        ELSE IF Fingerprint(s.c, p) \in s.skip THEN {s}
        ELSE CachedAttempt(s, least, p, Filled(s.c, s.caches, nodes, feasible, p),
                           WinnersCached(s.c, s.caches, feasible, p), BestCandidates(s.c, up, p))

CachedPass(c, caches, up, saturated, q) ==
    LET least == IF q = <<>> THEN 0 ELSE Min({c.requests[p] : p \in QueueSet(q)})
        Step(passes, p) == UNION {CachedStep(s, up, up \ saturated, least, p) : s \in passes}
    IN  {[c |-> s.c, caches |-> s.caches] :
            s \in FoldLeft(Step, {CachedStart(c, caches, up, least)}, q)}
=============================================================================

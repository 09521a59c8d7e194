---------------------------- MODULE StrategiesProofs ----------------------------
(***************************************************************************)
(* Proofs about Strategies.  The invariant is IInv: the cluster is sound,  *)
(* its pods fit and are admitted, what is remembered beside it has its     *)
(* form, and whoever pends is on the way to be looked at.  The file goes   *)
(* bottom up: pods that keep apart, the caches, a cached pass and what it  *)
(* tries in vain, the wait queue, the budgets, the filling of a node, and  *)
(* then the actions.                                                       *)
(***************************************************************************)
EXTENDS Strategies, ClusterProofs

-----------------------------------------------------------------------------
(***************************************************************************)
(* Where pods run, whether they are admitted there and kept apart.         *)
(***************************************************************************)
\* On a node that is there.
RunsIn(c, p) == Is(c, p, "Running") /\ LiveNode(c, c.node[p])

Suitable(p, n) == TaintToleration(p, n) /\ NodeAffinityFilter(p, n)

AllAdmitted(c) == \A p \in Pod : RunsIn(c, p) => Suitable(p, c.node[p])

\* Apart, AntiAffinityHeld and NoMatchMissed of a cluster and its caches.
ApartIn(c, p, q) ==
    \A i \in OwnAnti(p), j \in OwnAnti(q) :
        PodAffinity[p][i] = PodAffinity[q][j] /\ Labels[c.node[p]][PodAffinity[p][i].key] # NoLabel
        => Labels[c.node[p]][PodAffinity[p][i].key] # Labels[c.node[q]][PodAffinity[p][i].key]

HeldIn(c) ==
    \A p, q \in Pod : p # q /\ RunsIn(c, p) /\ RunsIn(c, q) => ApartIn(c, p, q)

MissesNone(c, known) ==
    \A k \in DOMAIN known.match : HasMatchingPod(c, k[3], k[1], k[2]) => known.match[k]

\* From c to d pods have gone, and p alone may have come, to n.
Joined(c, d, p, n) ==
    /\ d.nodes = c.nodes
    /\ \A q \in Pod \ {p} : RunsIn(d, q) => RunsIn(c, q) /\ d.node[q] = c.node[q]
    /\ RunsIn(d, p) => \/ d.node[p] = n
                       \/ RunsIn(c, p) /\ d.node[p] = c.node[p]

\* Pod p has no match for a term that keeps it apart in its domain on n.
AloneOn(c, p, n) ==
    \A i \in OwnAnti(p) :
        Labels[n][PodAffinity[p][i].key] # NoLabel =>
            ~ HasMatchingPod(c, PodAffinity[p][i].selector, PodAffinity[p][i].key,
                             Labels[n][PodAffinity[p][i].key])

\* The matching pods of a domain are those that run on its nodes.
LEMMA MatchingAre ==
    ASSUME NEW c, Sound(c), NEW selector, NEW key, NEW domain
    PROVE  MatchingPods(c, selector, key, domain) =
               {q \in Pod : RunsIn(c, q) /\ Labels[c.node[q]][key] = domain
                 /\ selector \in Matching[q]}
<1> DEFINE M == MatchingPods(c, selector, key, domain)
<1>0. c \in ClusterType
    BY DEF Sound
<1>1. ASSUME NEW q \in M
      PROVE  q \in Pod /\ RunsIn(c, q) /\ Labels[c.node[q]][key] = domain
               /\ selector \in Matching[q]
    <2>1. PICK m \in Node : LiveNode(c, m) /\ Labels[m][key] = domain /\ q \in c.podsOn[m]
        BY <1>1 DEF MatchingPods
    <2>2. selector \in Matching[q]
        BY <1>1 DEF MatchingPods
    <2>3. q \in Pod
        BY <1>0, <2>1 DEF ClusterType
    <2>4. Is(c, q, "Running") /\ c.node[q] = m
        BY <2>1, <2>3 DEF Sound, LinksAgree, LiveNode
    <2> QED BY <2>1, <2>2, <2>3, <2>4 DEF RunsIn
<1>2. ASSUME NEW q \in Pod, RunsIn(c, q), Labels[c.node[q]][key] = domain, selector \in Matching[q]
      PROVE  q \in M
    <2> DEFINE m == c.node[q]
    <2>1. m \in Node /\ LiveNode(c, m) /\ Is(c, q, "Running") /\ LivePod(c, q)
        BY <1>2 DEF RunsIn, LiveNode, Is
    <2>2. q \in c.podsOn[m]
        BY <2>1 DEF Sound, LinksAgree, LiveNode
    <2> QED BY <1>2, <2>1, <2>2 DEF MatchingPods
<1> QED BY <1>1, <1>2

\* A pod that is bound after evictions joins its node, or stays where it is.
LEMMA BindJoins ==
    ASSUME NEW c, Sound(c), NEW V, NEW e, Kept(c, e), EvictedFrom(c, e, V),
           NEW p \in Pod, NEW n \in Node, NEW d, d = BindPod(e, p, n)
    PROVE  Joined(c, d, p, n)
<1>1. e \in ClusterType
    BY DEF Kept, Sound
<1>2. /\ d.nodes = e.nodes
      /\ \A q \in Pod :
             Is(d, q, "Running") <=> Is(e, q, "Running") \/ (q = p /\ CanBind(e, p, n))
      /\ \A q \in Pod \ {p} : d.node[q] = e.node[q]
      /\ d.node[p] = IF CanBind(e, p, n) THEN n ELSE e.node[p]
    BY <1>1, BindPodEffect DEF SameFrame
<1>3. /\ e.nodes = c.nodes
      /\ \A q \in Pod : Is(e, q, "Running") => Is(c, q, "Running") /\ e.node[q] = c.node[q]
    BY DEF EvictedFrom, SameFrame
<1> QED BY <1>2, <1>3 DEF Joined, RunsIn, LiveNode

\* Who joins a node that suits it is admitted.
LEMMA JoinedAdmitted ==
    ASSUME NEW c, NEW d, NEW p \in Pod, NEW n \in Node, Joined(c, d, p, n), Suitable(p, n),
           AllAdmitted(c)
    PROVE  AllAdmitted(d)
BY DEF Joined, AllAdmitted

\* Who joins a node where it has no match keeps apart from the others, and they from it.
LEMMA JoinedApart ==
    ASSUME NEW c, Sound(c), NEW d, NEW p \in Pod, NEW n \in Node, Joined(c, d, p, n),
           AloneOn(c, p, n), HeldIn(c)
    PROVE  HeldIn(d)
<1> SUFFICES ASSUME NEW a \in Pod, NEW b \in Pod, a # b, RunsIn(d, a), RunsIn(d, b),
                    NEW i \in OwnAnti(a), NEW j \in OwnAnti(b),
                    PodAffinity[a][i] = PodAffinity[b][j],
                    Labels[d.node[a]][PodAffinity[a][i].key] # NoLabel,
                    Labels[d.node[a]][PodAffinity[a][i].key]
                      = Labels[d.node[b]][PodAffinity[a][i].key]
             PROVE  FALSE
    BY DEF HeldIn, ApartIn
<1> DEFINE term == PodAffinity[a][i]
           Stays(q) == RunsIn(c, q) /\ d.node[q] = c.node[q]
<1>0. term = PodAffinity[b][j] /\ term.selector \in Matching[a] /\ term.selector \in Matching[b]
    BY DEF OwnAnti
<1>1. CASE Stays(a) /\ Stays(b)
    BY <1>1 DEF HeldIn, ApartIn
<1>2. ASSUME NEW q \in Pod, q # p, Stays(q), d.node[p] = n, Labels[n][term.key] # NoLabel,
             Labels[n][term.key] = Labels[d.node[q]][term.key], term.selector \in Matching[q],
             NEW k \in OwnAnti(p), PodAffinity[p][k] = term
      PROVE  FALSE
    <2>1. q \in MatchingPods(c, term.selector, term.key, Labels[n][term.key])
        BY <1>2, MatchingAre
    <2>2. ~ HasMatchingPod(c, term.selector, term.key, Labels[n][term.key])
        BY <1>2 DEF AloneOn
    <2> QED BY <2>1, <2>2 DEF HasMatchingPod
<1>3. CASE a = p /\ ~ Stays(a)
    <2>1. d.node[p] = n /\ Stays(b)
        BY <1>3 DEF Joined
    <2> QED BY <1>0, <1>2, <1>3, <2>1
<1>4. CASE b = p /\ ~ Stays(b)
    <2>1. d.node[p] = n /\ Stays(a)
        BY <1>4 DEF Joined
    <2> QED BY <1>0, <1>2, <1>4, <2>1
<1>5. (a # p => Stays(a)) /\ (b # p => Stays(b))
    BY DEF Joined
<1> QED BY <1>1, <1>3, <1>4, <1>5

\* on_pod_bound tells the cached matches of the one pod that may be new.
LEMMA JoinedKnown ==
    ASSUME NEW c, Sound(c), NEW d, Sound(d), NEW p \in Pod, NEW n \in Node, Joined(c, d, p, n),
           NEW known, MissesNone(c, known)
    PROVE  MissesNone(d, OnPodBound(known, p, n))
<1> SUFFICES ASSUME NEW k \in DOMAIN known.match, HasMatchingPod(d, k[3], k[1], k[2])
             PROVE  known.match[k] \/ Concerns(k, p, n)
    BY DEF MissesNone, OnPodBound
<1>1. PICK q \in Pod : RunsIn(d, q) /\ Labels[d.node[q]][k[1]] = k[2] /\ k[3] \in Matching[q]
    BY MatchingAre DEF HasMatchingPod
<1>2. CASE RunsIn(c, q) /\ d.node[q] = c.node[q]
    <2>1. q \in MatchingPods(c, k[3], k[1], k[2])
        BY <1>1, <1>2, MatchingAre
    <2> QED BY <2>1 DEF HasMatchingPod, MissesNone
<1>3. CASE q = p /\ d.node[p] = n
    BY <1>1, <1>3 DEF Concerns
<1> QED BY <1>1, <1>2, <1>3 DEF Joined

-----------------------------------------------------------------------------
(***************************************************************************)
(* The caches: what they may be keyed by, and that they keep their types.  *)
(***************************************************************************)
SpreadKeys ==
    UNION {{<<Spread[p][i].key, Spread[p][i].selector>> : i \in DOMAIN Spread[p]} : p \in Pod}

MatchKeys ==
    UNION {UNION {{MatchKey(PodAffinity[p][i], n) : i \in DOMAIN PodAffinity[p]} : n \in Node} :
           p \in Pod}

CountKeys ==
    UNION {UNION {{CountKey(PodAffinity[p][i], n) : i \in DOMAIN PodAffinity[p]} : n \in Node} :
           p \in Pod}

\* The tables that hold values of V under some of the keys K.
Tables(K, V) == UNION {[S -> V] : S \in SUBSET K}

AllCaches == [spread : Tables(SpreadKeys, Entry!Entries), match : Tables(MatchKeys, BOOLEAN),
              count : Tables(CountKeys, Nat)]

\* A table with more under other keys, and one with other values under its keys.
LEMMA TableExtended ==
    ASSUME NEW K, NEW V, NEW f \in Tables(K, V), NEW S \in SUBSET K, NEW g \in [S -> V]
    PROVE  WithNew(f, g) \in Tables(K, V)
<1>1. PICK T \in SUBSET K : f \in [T -> V]
    BY DEF Tables
<1>2. WithNew(f, g) \in [T \cup S -> V]
    BY <1>1 DEF WithNew
<1>3. T \cup S \in SUBSET K
    BY <1>1
<1> QED BY <1>2, <1>3 DEF Tables

LEMMA TableMapped ==
    ASSUME NEW K, NEW V, NEW f \in Tables(K, V), NEW g \in [DOMAIN f -> V]
    PROVE  g \in Tables(K, V)
<1>1. PICK T \in SUBSET K : f \in [T -> V]
    BY DEF Tables
<1>2. g \in [T -> V]
    BY <1>1
<1> QED BY <1>1, <1>2 DEF Tables

LEMMA TableMember ==
    ASSUME NEW K, NEW V, NEW f \in Tables(K, V)
    PROVE  f \in [DOMAIN f -> V] /\ DOMAIN f \subseteq K
BY DEF Tables

\* A record of three tables is a cache.
LEMMA CacheFields ==
    ASSUME NEW a \in Tables(SpreadKeys, Entry!Entries), NEW b \in Tables(MatchKeys, BOOLEAN),
           NEW d \in Tables(CountKeys, Nat)
    PROVE  [spread |-> a, match |-> b, count |-> d] \in AllCaches
BY DEF AllCaches

LEMMA CacheParts ==
    ASSUME NEW known \in AllCaches
    PROVE  /\ known.spread \in Tables(SpreadKeys, Entry!Entries)
           /\ known.match \in Tables(MatchKeys, BOOLEAN)
           /\ known.count \in Tables(CountKeys, Nat)
           /\ known = [spread |-> known.spread, match |-> known.match, count |-> known.count]
BY DEF AllCaches

\* A node's label under a key is a domain, or none.
LEMMA LabelDomain ==
    ASSUME NEW n \in Node, NEW k \in Key
    PROVE  Labels[n][k] \in Domain \cup {NoLabel}
BY DEF Domain

\* What stays of an entry when a node joins or a pod is bound.
LEMMA EntryTyped ==
    ASSUME NEW e \in Entry!Entries, NEW d \in Domain \cup {NoLabel}
    PROVE  Entry!NodeAdded(e, d) \in Entry!Entries /\ Entry!PodBound(e, d) \in Entry!Entries
<1>1. e.domains \in SUBSET Domain /\ e.counts \in [Domain -> Nat] /\ e.min \in Nat
    BY DEF Entry!Entries
<1>2. Entry!NodeAdded(e, d) \in Entry!Entries
    <2>1. Entry!Named(d) \subseteq Domain
        BY DEF Entry!Named
    <2> QED BY <1>1, <2>1 DEF Entry!NodeAdded, Entry!Entries
<1>3. Entry!PodBound(e, d) \in Entry!Entries
    <2>1. CASE d = NoLabel
        BY <2>1 DEF Entry!PodBound
    <2>2. CASE d # NoLabel
        <3> DEFINE counts == [e.counts EXCEPT ![d] = @ + 1]
                   still_at_min == \E x \in e.domains \ {d} : e.counts[x] = e.counts[d]
                   least == IF e.counts[d] = e.min /\ ~ still_at_min THEN e.min + 1 ELSE e.min
        <3>1. counts \in [Domain -> Nat] /\ least \in Nat /\ e.domains \cup {d} \in SUBSET Domain
            BY <1>1, <2>2
        <3>2. Entry!PodBound(e, d) = [domains |-> e.domains \cup {d}, counts |-> counts,
                                      min |-> least]
            BY <2>2 DEF Entry!PodBound
        <3> HIDE DEF counts, least
        <3> QED BY <3>1, <3>2 DEF Entry!Entries
    <2> QED BY <2>1, <2>2
<1> QED BY <1>2, <1>3

\* The keys of the spread cache are topology keys.
LEMMA SpreadKeyed ==
    ASSUME NEW k \in SpreadKeys
    PROVE  k[1] \in Key
BY StrategiesAssumption DEF SpreadKeys

\* A scan of the cluster.
LEMMA ScanTyped ==
    ASSUME NEW c, NEW k, k[1] \in Key
    PROVE  Scan(c, k) \in Entry!Entries
<1> DEFINE domains == DomainsOf(c, k[1])
           counts == [d \in Domain |-> RunningIn(c, k[1], k[2], d)]
           least == IF domains = {} THEN 0 ELSE Min({counts[d] : d \in domains})
<1>1. domains \subseteq Domain
    BY LabelDomain DEF DomainsOf
<1>2. \A d : RunningIn(c, k[1], k[2], d) \in Nat
    BY StrategiesAssumption, FS_Subset, FS_CardinalityType DEF RunningIn
<1>3. counts \in [Domain -> Nat]
    BY <1>2
<1>4. least \in Nat
    <2>1. CASE domains = {}
        BY <2>1
    <2>2. CASE domains # {}
        <3> DEFINE S == {counts[d] : d \in domains}
        <3>1. S \in SUBSET Nat /\ S # {}
            BY <1>1, <1>3, <2>2
        <3> HIDE DEF S, counts, domains
        <3>2. Min(S) \in Nat
            BY <3>1, MinNat
        <3> QED BY <2>2, <3>2 DEF S
    <2> QED BY <2>1, <2>2
<1>5. Scan(c, k) = [domains |-> domains, counts |-> counts, min |-> least]
    BY DEF Scan
<1> HIDE DEF domains, counts, least
<1> QED BY <1>1, <1>3, <1>4, <1>5 DEF Entry!Entries

\* How many pods match in a domain.
LEMMA CountTyped ==
    ASSUME NEW c, Sound(c), NEW selector, NEW key, NEW domain
    PROVE  CountMatching(c, selector, key, domain) \in Nat
<1>1. MatchingPods(c, selector, key, domain) \subseteq Pod
    BY MatchingAre
<1> QED BY <1>1, StrategiesAssumption, FS_Subset, FS_CardinalityType DEF CountMatching

\* Scheduler::on_node_added
LEMMA NodeAddedTyped ==
    ASSUME NEW known \in AllCaches, NEW n \in Node
    PROVE  OnNodeAdded(known, n) \in AllCaches /\ OnNodeAdded(known, n).match = known.match
<1> DEFINE spread == [k \in DOMAIN known.spread |->
                            Entry!NodeAdded(known.spread[k], Labels[n][k[1]])]
<1>1. spread \in [DOMAIN known.spread -> Entry!Entries]
    <2> SUFFICES ASSUME NEW k \in DOMAIN known.spread
                 PROVE  Entry!NodeAdded(known.spread[k], Labels[n][k[1]]) \in Entry!Entries
        OBVIOUS
    <2>1. known.spread[k] \in Entry!Entries /\ k \in SpreadKeys
        BY CacheParts, TableMember
    <2> QED BY <2>1, SpreadKeyed, LabelDomain, EntryTyped
<1>2. spread \in Tables(SpreadKeys, Entry!Entries)
    BY <1>1, CacheParts, TableMapped
<1>3. OnNodeAdded(known, n) = [known EXCEPT !.spread = spread]
    BY DEF OnNodeAdded
<1> HIDE DEF spread
<1>4. OnNodeAdded(known, n) = [spread |-> spread, match |-> known.match, count |-> known.count]
    BY <1>3, CacheParts
<1> QED BY <1>2, <1>4, CacheParts, CacheFields

\* Scheduler::on_pod_bound
LEMMA PodBoundTyped ==
    ASSUME NEW known \in AllCaches, NEW p \in Pod, NEW n \in Node
    PROVE  OnPodBound(known, p, n) \in AllCaches
<1> DEFINE spread == SpreadBound(known.spread, p, n)
           match == [k \in DOMAIN known.match |-> known.match[k] \/ Concerns(k, p, n)]
           count == CountBound(known.count, p, n)
<1>0. /\ known.spread \in Tables(SpreadKeys, Entry!Entries)
      /\ known.match \in Tables(MatchKeys, BOOLEAN)
      /\ known.count \in Tables(CountKeys, Nat)
    BY CacheParts
<1>1. spread \in Tables(SpreadKeys, Entry!Entries)
    <2>1. ASSUME NEW k \in DOMAIN known.spread
          PROVE  /\ known.spread[k] \in Entry!Entries
                 /\ Entry!PodBound(known.spread[k], Labels[n][k[1]]) \in Entry!Entries
        <3>1. known.spread[k] \in Entry!Entries /\ k \in SpreadKeys
            BY <1>0, TableMember
        <3> QED BY <3>1, SpreadKeyed, LabelDomain, EntryTyped
    <2>2. spread \in [DOMAIN known.spread -> Entry!Entries]
        BY <2>1 DEF SpreadBound
    <2> HIDE DEF spread
    <2> QED BY <1>0, <2>2, TableMapped
<1>2. match \in Tables(MatchKeys, BOOLEAN)
    <2>1. match \in [DOMAIN known.match -> BOOLEAN]
        OBVIOUS
    <2> HIDE DEF match
    <2> QED BY <1>0, <2>1, TableMapped
<1>3. count \in Tables(CountKeys, Nat)
    <2>1. known.count \in [DOMAIN known.count -> Nat]
        BY <1>0, TableMember
    <2>2. count \in [DOMAIN known.count -> Nat]
        BY <2>1 DEF CountBound
    <2> HIDE DEF count
    <2> QED BY <1>0, <2>2, TableMapped
<1>4. OnPodBound(known, p, n) = [spread |-> spread, match |-> match, count |-> count]
    BY DEF OnPodBound
<1> HIDE DEF spread, match, count
<1> QED BY <1>1, <1>2, <1>3, <1>4, CacheFields

\* What the lookups of a pod fill in: the keys are those of its terms and constraints, the values
\* what the cluster is now.
LEMMA FilledTyped ==
    ASSUME NEW c, Sound(c), NEW known \in AllCaches, NEW nodes \in SUBSET Node,
           NEW feasible \in SUBSET Node, NEW p \in Pod
    PROVE  Filled(c, known, nodes, feasible, p) \in AllCaches
<1> DEFINE A == AskedSpreads(c, known, nodes, feasible, p)
           B == AskedMatches(c, known, nodes, p)
           D == AskedCounts(feasible, p)
           a == [k \in A |-> Scan(c, k)]
           b == [k \in B |-> HasMatchingPod(c, k[3], k[1], k[2])]
           d == [k \in D |-> CountMatching(c, k[3], k[1], k[2])]
<1>0. /\ known.spread \in Tables(SpreadKeys, Entry!Entries)
      /\ known.match \in Tables(MatchKeys, BOOLEAN)
      /\ known.count \in Tables(CountKeys, Nat)
    BY CacheParts
<1>1. A \in SUBSET SpreadKeys
    BY DEF AskedSpreads, SpreadKeys
<1>2. B \in SUBSET MatchKeys
    <2> SUFFICES ASSUME NEW k \in B PROVE k \in MatchKeys
        OBVIOUS
    <2>1. PICK i \in DOMAIN PodAffinity[p], n \in nodes : k = MatchKey(PodAffinity[p][i], n)
        BY DEF AskedMatches
    <2> QED BY <2>1 DEF MatchKeys
<1>3. D \in SUBSET CountKeys
    <2> SUFFICES ASSUME NEW k \in D PROVE k \in CountKeys
        OBVIOUS
    <2>1. PICK x \in Range(PodAffinity[p]) \X feasible : k = CountKey(x[1], x[2])
        BY DEF AskedCounts
    <2>2. PICK i \in DOMAIN PodAffinity[p] : x[1] = PodAffinity[p][i]
        BY DEF Range
    <2> QED BY <2>1, <2>2 DEF CountKeys
<1>4. a \in [A -> Entry!Entries]
    BY <1>1, SpreadKeyed, ScanTyped
<1>5. b \in [B -> BOOLEAN]
    BY DEF HasMatchingPod
<1>6. d \in [D -> Nat]
    BY CountTyped
<1>7. Filled(c, known, nodes, feasible, p)
          = [spread |-> WithNew(known.spread, a), match |-> WithNew(known.match, b),
            count |-> WithNew(known.count, d)]
    BY DEF Filled
<1> HIDE DEF A, B, D, a, b, d
<1>8. /\ WithNew(known.spread, a) \in Tables(SpreadKeys, Entry!Entries)
      /\ WithNew(known.match, b) \in Tables(MatchKeys, BOOLEAN)
      /\ WithNew(known.count, d) \in Tables(CountKeys, Nat)
    BY <1>0, <1>1, <1>2, <1>3, <1>4, <1>5, <1>6, TableExtended
<1> QED BY <1>7, <1>8, CacheFields

\* They miss no match.
LEMMA FilledKnown ==
    ASSUME NEW c, NEW known, NEW nodes, NEW feasible, NEW p, MissesNone(c, known)
    PROVE  MissesNone(c, Filled(c, known, nodes, feasible, p))
<1> DEFINE B == AskedMatches(c, known, nodes, p)
           b == [k \in B |-> HasMatchingPod(c, k[3], k[1], k[2])]
<1>1. Filled(c, known, nodes, feasible, p).match = WithNew(known.match, b)
    BY DEF Filled
<1> HIDE DEF B
<1> QED BY <1>1 DEF MissesNone, WithNew

\* A node that the cached filter lets through has no match, if the cache misses none.
LEMMA CachedAlone ==
    ASSUME NEW c, NEW known \in AllCaches, MissesNone(c, known), NEW p \in Pod, NEW n \in Node,
           AffinityCached(c, known, p, n)
    PROVE  AloneOn(c, p, n)
<1> SUFFICES ASSUME NEW i \in OwnAnti(p), Labels[n][PodAffinity[p][i].key] # NoLabel,
                    HasMatchingPod(c, PodAffinity[p][i].selector, PodAffinity[p][i].key,
                                   Labels[n][PodAffinity[p][i].key])
             PROVE  FALSE
    BY DEF AloneOn
<1> DEFINE term == PodAffinity[p][i]
           k == MatchKey(term, n)
<1>1. i \in DOMAIN PodAffinity[p] /\ term.anti = TRUE /\ term.required
    BY StrategiesAssumption DEF OwnAnti
<1>2. k[1] = term.key /\ k[2] = Labels[n][term.key] /\ k[3] = term.selector
    BY DEF MatchKey
<1>3. MatchOf(c, known, term, n) = TRUE
    <2>1. CASE k \in DOMAIN known.match
        <3>1. known.match[k] \in BOOLEAN
            BY <2>1, CacheParts, TableMember
        <3>2. known.match[k]
            BY <1>2, <2>1 DEF MissesNone
        <3> QED BY <2>1, <3>1, <3>2 DEF MatchOf
    <2>2. CASE k \notin DOMAIN known.match
        BY <2>2 DEF MatchOf, HasMatchingPod
    <2> QED BY <2>1, <2>2
<1>4. TermHolds(term, n, MatchOf(c, known, term, n))
    BY <1>1 DEF AffinityCached, TermHoldsCached
<1> QED BY <1>1, <1>3, <1>4 DEF TermHolds

\* So does a node that the filter itself lets through.
LEMMA AffinityAlone ==
    ASSUME NEW c, NEW p \in Pod, NEW n \in Node, InterPodAffinity(c, p, n)
    PROVE  AloneOn(c, p, n)
<1> SUFFICES ASSUME NEW i \in OwnAnti(p), Labels[n][PodAffinity[p][i].key] # NoLabel,
                    HasMatchingPod(c, PodAffinity[p][i].selector, PodAffinity[p][i].key,
                                   Labels[n][PodAffinity[p][i].key])
             PROVE  FALSE
    BY DEF AloneOn
<1> DEFINE term == PodAffinity[p][i]
<1>1. i \in DOMAIN PodAffinity[p] /\ term.anti = TRUE /\ term.required
    BY StrategiesAssumption DEF OwnAnti
<1>2. TermHolds(term, n, HasMatchingPod(c, term.selector, term.key, Labels[n][term.key]))
    BY <1>1 DEF InterPodAffinity
<1>3. HasMatchingPod(c, term.selector, term.key, Labels[n][term.key]) = TRUE
    BY DEF HasMatchingPod
<1> QED BY <1>1, <1>2, <1>3 DEF TermHolds

-----------------------------------------------------------------------------
(***************************************************************************)
(* Passes that read the caches.                                            *)
(***************************************************************************)
\* From cluster c with caches k to d with l by a pass among the nodes of up: what every pass
\* does (PassedTo), and pods that are admitted and kept apart stay so.
CachedTo(c, k, d, l, up) ==
    /\ PassedTo(c, d, Pod, Pod, up)
    /\ AllAdmitted(c) => AllAdmitted(d)
    /\ MissesNone(c, k) => MissesNone(d, l)
    /\ MissesNone(c, k) /\ HeldIn(c) => HeldIn(d)

Prints == {<<r, Spread[p], PodAffinity[p], NodeAffinity[p], Tolerations[p]>> : r \in Nat, p \in Pod}

CachedType == [c : ClusterType, caches : AllCaches, open : SUBSET Node, bound : BOOLEAN,
               skip : SUBSET Prints, over : BOOLEAN]

\* The passes that c and its caches may have come to.
CachedFrom(c, k, up) == {s \in CachedType : CachedTo(c, k, s.c, s.caches, up)}

\* The assumptions on the constants in the form that the lemmas about passes want.
LEMMA PodsRanked == Ranked(Pod) /\ IsFiniteSet(Pod)
BY StrategiesAssumption DEF Ranked

LEMMA CachedFields ==
    ASSUME NEW c \in ClusterType, NEW k \in AllCaches, NEW open \in SUBSET Node,
           NEW bound \in BOOLEAN, NEW skip \in SUBSET Prints, NEW over \in BOOLEAN
    PROVE  [c |-> c, caches |-> k, open |-> open, bound |-> bound, skip |-> skip, over |-> over]
               \in CachedType
BY DEF CachedType

\* Filling the caches leaves the cluster as it is.
LEMMA CachedSelf ==
    ASSUME NEW c, Sound(c), NEW k, NEW l, MissesNone(c, k) => MissesNone(c, l), NEW up
    PROVE  CachedTo(c, k, c, l, up)
BY PassedSelf DEF CachedTo

LEMMA CachedChain ==
    ASSUME NEW c, NEW k, NEW d, NEW l, NEW e, NEW m, NEW up,
           CachedTo(c, k, d, l, up), CachedTo(d, l, e, m, up)
    PROVE  CachedTo(c, k, e, m, up)
<1>1. PassedTo(c, e, Pod, Pod, up)
    BY PassedChain DEF CachedTo
<1> QED BY <1>1 DEF CachedTo

\* A pod is bound after evictions that make room for it, on a node that suits it and where it has
\* no match as far as the caches l know, which miss none if k does not.
LEMMA CachedPlaces ==
    ASSUME NEW c, Sound(c), NEW k, NEW l, MissesNone(c, k) => MissesNone(c, l),
           NEW up \in SUBSET Node, NEW p \in Pod, NEW n \in up, c.nodes[n] = "live",
           NEW V, V \subseteq {v \in c.podsOn[n] : Priority[v] < Priority[p]},
           NEW e, Kept(c, e), EvictedFrom(c, e, V),
           c.requests[p] <= Available(c, n) + Sum(c.requests, V),
           Suitable(p, n), MissesNone(c, l) => AloneOn(c, p, n),
           NEW d, d = BindPod(e, p, n)
    PROVE  CachedTo(c, k, d, OnPodBound(l, p, n), up)
<1>1. PassedTo(c, d, Pod, Pod, up)
    BY PodsRanked, BoundAfter
<1>2. Sound(d)
    BY <1>1 DEF PassedTo, Kept
<1>3. Joined(c, d, p, n)
    BY BindJoins
<1>4. AllAdmitted(c) => AllAdmitted(d)
    BY <1>3, JoinedAdmitted
<1>5. MissesNone(c, k) => MissesNone(d, OnPodBound(l, p, n))
    BY <1>2, <1>3, JoinedKnown
<1>6. MissesNone(c, k) /\ HeldIn(c) => HeldIn(d)
    BY <1>3, JoinedApart
<1> QED BY <1>1, <1>4, <1>5, <1>6 DEF CachedTo

\* A node that takes the pod as it is.
LEMMA CachedBindPasses ==
    ASSUME NEW c, Sound(c), NEW k \in AllCaches, NEW l, MissesNone(c, k) => MissesNone(c, l),
           NEW up \in SUBSET Node, NEW nodes \in SUBSET up, NEW p \in Pod,
           NEW n \in FeasibleCached(c, k, nodes, p), NEW d, d = BindPod(c, p, n)
    PROVE  CachedTo(c, k, d, OnPodBound(l, p, n), up)
<1>1. /\ n \in up /\ LiveNode(c, n) /\ Fits(c, p, n) /\ Suitable(p, n)
      /\ AffinityCached(c, k, p, n)
    BY DEF FeasibleCached, Basic, Suitable
<1>2. Kept(c, c) /\ EvictedFrom(c, c, {})
    BY DEF Kept, EvictedFrom, SameFrame, NoneSucceeds
<1>3. c.requests[p] <= Available(c, n) + Sum(c.requests, {})
    <2>1. Available(c, n) \in Nat
        BY <1>1 DEF Available, SatSub, Sound, ClusterType
    <2>2. Sum(c.requests, {}) = 0
        BY SumEmpty
    <2> QED BY <1>1, <2>1, <2>2 DEF Fits
<1>4. MissesNone(c, k) => AloneOn(c, p, n)
    BY <1>1, CachedAlone DEF LiveNode
<1>5. CASE MissesNone(c, k)
    BY <1>1, <1>2, <1>3, <1>4, <1>5, CachedPlaces DEF LiveNode
<1>6. CASE ~ MissesNone(c, k)
    <2>1. PassedTo(c, d, Pod, Pod, up)
        BY <1>1, <1>2, <1>3, PodsRanked, BoundAfter DEF LiveNode
    <2>2. Joined(c, d, p, n)
        BY <1>1, <1>2, BindJoins DEF LiveNode
    <2>3. AllAdmitted(c) => AllAdmitted(d)
        BY <1>1, <2>2, JoinedAdmitted DEF LiveNode
    <2> QED BY <1>6, <2>1, <2>3 DEF CachedTo
<1> QED BY <1>5, <1>6

\* A preemption: the filters but the resources read the cluster.
LEMMA CachedPreemptPasses ==
    ASSUME NEW c, Sound(c), NEW k, NEW l, MissesNone(c, k) => MissesNone(c, l),
           NEW up \in SUBSET Node, NEW p \in Pod, NEW x \in BestCandidates(c, up, p),
           NEW d, d = Preempt(c, p, x[1], x[2])
    PROVE  x[1] \in Node /\ CachedTo(c, k, d, OnPodBound(l, p, x[1]), up)
<1>1. PICK n \in up : LiveNode(c, n) /\ OtherFilters(c, p, n) /\ x \in {n} \X Victims(c, p, n)
    BY DEF BestCandidates, Candidates
<1> DEFINE s == x[2]
           V == QueueSet(s)
           e == FoldLeft(EvictPod, c, s)
<1>2. x[1] = n /\ s \in Victims(c, p, n) /\ c.nodes[n] = "live" /\ n \in Node
    BY <1>1 DEF LiveNode
<1>3. d = BindPod(e, p, n)
    BY <1>2 DEF Preempt
<1> HIDE DEF s, e
<1>4. /\ s \in Seq(Pod) /\ NoDuplicates(s)
      /\ V \subseteq {v \in c.podsOn[n] : Priority[v] < Priority[p]}
      /\ c.requests[p] <= Available(c, n) + Requested(c, s)
    BY <1>2, VictimsAre
<1>5. Requested(c, s) = Sum(c.requests, V)
    BY <1>4, RequestedSum DEF Sound
<1>6. Kept(c, e) /\ EvictedFrom(c, e, V)
    BY <1>4, EvictAllKept DEF e
<1>7. Suitable(p, n) /\ AloneOn(c, p, n)
    BY <1>1, <1>2, AffinityAlone DEF OtherFilters, Suitable
<1> HIDE DEF V
<1> QED BY <1>2, <1>3, <1>4, <1>5, <1>6, <1>7, CachedPlaces

\* Looking at one more pod.
LEMMA CachedStepFrom ==
    ASSUME NEW c, Sound(c), NEW k, NEW up \in SUBSET Node, NEW nodes \in SUBSET up,
           NEW s \in CachedFrom(c, k, up), NEW least, NEW p \in Pod
    PROVE  CachedStep(s, up, nodes, least, p) \subseteq CachedFrom(c, k, up)
<1>1. s \in CachedType /\ CachedTo(c, k, s.c, s.caches, up) /\ Sound(s.c)
    BY DEF CachedFrom, CachedTo, PassedTo, Kept
<1>2. /\ s.c \in ClusterType /\ s.caches \in AllCaches /\ s.open \in SUBSET Node
      /\ s.bound \in BOOLEAN /\ s.skip \in SUBSET Prints /\ s.over \in BOOLEAN
      /\ s = [c |-> s.c, caches |-> s.caches, open |-> s.open, bound |-> s.bound,
              skip |-> s.skip, over |-> s.over]
    BY <1>1 DEF CachedType
<1> DEFINE From == CachedFrom(c, k, up)
           feasible == FeasibleCached(s.c, s.caches, nodes, p)
           l == Filled(s.c, s.caches, nodes, feasible, p)
           winners == WinnersCached(s.c, s.caches, feasible, p)
           best == BestCandidates(s.c, up, p)
<1>3. feasible \in SUBSET nodes /\ winners \subseteq feasible
    BY DEF FeasibleCached, WinnersCached, Highest
<1>4. l \in AllCaches /\ (MissesNone(s.c, s.caches) => MissesNone(s.c, l))
    <2>1. feasible \in SUBSET Node /\ nodes \in SUBSET Node
        BY <1>3
    <2> HIDE DEF feasible
    <2> QED BY <1>1, <1>2, <2>1, FilledTyped, FilledKnown
<1>5. ASSUME NEW t \in CachedStep(s, up, nodes, least, p) PROVE t \in From
    <2>1. CASE t = [s EXCEPT !.over = TRUE]
        <3>1. t = [c |-> s.c, caches |-> s.caches, open |-> s.open, bound |-> s.bound,
                   skip |-> s.skip, over |-> TRUE]
            BY <1>2, <2>1
        <3>2. t \in CachedType /\ t.c = s.c /\ t.caches = s.caches
            BY <1>2, <3>1, CachedFields
        <3> QED BY <1>1, <3>2 DEF CachedFrom
    <2>2. CASE t = s
        BY <2>2
    <2>3. CASE \E n \in winners : t = CachedBinds(s, l, least, p, n)
        <3>1. PICK n \in winners : t = CachedBinds(s, l, least, p, n)
            BY <2>3
        <3> DEFINE d == BindPod(s.c, p, n)
                   m == OnPodBound(l, p, n)
                   open == {x \in s.open : HasRoom(d, least, x)}
        <3>2. CachedTo(s.c, s.caches, d, m, up)
            BY <1>1, <1>2, <1>3, <1>4, <3>1, CachedBindPasses
        <3>3. t = [s EXCEPT !.c = d, !.caches = m, !.bound = TRUE, !.skip = {}, !.open = open]
            BY <3>1 DEF CachedBinds
        <3>4. open \in SUBSET Node /\ m \in AllCaches
            <4>1. n \in Node
                BY <1>3, <3>1
            <4> QED BY <1>2, <1>4, <4>1, PodBoundTyped
        <3> HIDE DEF d, open, m
        <3>5. t = [c |-> d, caches |-> m, open |-> open, bound |-> TRUE, skip |-> {},
                   over |-> s.over]
            BY <1>2, <3>3
        <3>6. d \in ClusterType
            BY <3>2 DEF CachedTo, PassedTo, Kept, Sound
        <3>7. t \in CachedType /\ t.c = d /\ t.caches = m
            BY <1>2, <3>4, <3>5, <3>6, CachedFields
        <3>8. CachedTo(c, k, d, m, up)
            BY <1>1, <3>2, CachedChain
        <3> QED BY <3>7, <3>8 DEF CachedFrom
    <2>4. CASE \E x \in best : t = CachedPreempts(s, l, p, x)
        <3>1. PICK x \in best : t = CachedPreempts(s, l, p, x)
            BY <2>4
        <3> DEFINE d == Preempt(s.c, p, x[1], x[2])
                   m == OnPodBound(l, p, x[1])
        <3>2. CachedTo(s.c, s.caches, d, m, up) /\ x[1] \in Node
            BY <1>1, <1>4, <3>1, CachedPreemptPasses
        <3>3. t = [s EXCEPT !.c = d, !.caches = m, !.bound = TRUE, !.skip = {}]
            BY <3>1 DEF CachedPreempts
        <3>4. m \in AllCaches
            BY <1>4, <3>2, PodBoundTyped
        <3> HIDE DEF d, m
        <3>5. t = [c |-> d, caches |-> m, open |-> s.open, bound |-> TRUE, skip |-> {},
                   over |-> s.over]
            BY <1>2, <3>3
        <3>6. d \in ClusterType
            BY <3>2 DEF CachedTo, PassedTo, Kept, Sound
        <3>7. t \in CachedType /\ t.c = d /\ t.caches = m
            BY <1>2, <3>4, <3>5, <3>6, CachedFields
        <3>8. CachedTo(c, k, d, m, up)
            BY <1>1, <3>2, CachedChain
        <3> QED BY <3>7, <3>8 DEF CachedFrom
    <2>5. CASE t = CachedFails(s, l, p)
        <3>1. Fingerprint(s.c, p) \in Prints
            BY <1>2 DEF Fingerprint, Prints, ClusterType
        <3>2. \/ t = [c |-> s.c, caches |-> l, open |-> s.open, bound |-> s.bound, skip |-> s.skip,
                      over |-> TRUE]
              \/ t = [c |-> s.c, caches |-> l, open |-> s.open, bound |-> s.bound,
                      skip |-> {Fingerprint(s.c, p)}, over |-> s.over]
            <4> HIDE DEF l
            <4> QED BY <1>2, <2>5 DEF CachedFails
        <3> HIDE DEF l
        <3>3. t \in CachedType /\ t.c = s.c /\ t.caches = l
            <4>1. {Fingerprint(s.c, p)} \in SUBSET Prints /\ TRUE \in BOOLEAN
                BY <3>1
            <4>2. \A skip \in SUBSET Prints, over \in BOOLEAN :
                      [c |-> s.c, caches |-> l, open |-> s.open, bound |-> s.bound, skip |-> skip,
                       over |-> over] \in CachedType
                BY <1>2, <1>4, CachedFields
            <4>3. t \in CachedType
                BY <1>2, <3>2, <4>1, <4>2
            <4> QED BY <3>2, <4>3
        <3>4. CachedTo(s.c, s.caches, s.c, l, up)
            BY <1>1, <1>4, CachedSelf
        <3>5. CachedTo(c, k, s.c, l, up)
            BY <1>1, <3>4, CachedChain
        <3> QED BY <3>3, <3>5 DEF CachedFrom
    <2> HIDE DEF feasible, l, winners, best
    <2>6. CachedStep(s, up, nodes, least, p)
              \subseteq {[s EXCEPT !.over = TRUE], s}
                          \cup CachedAttempt(s, least, p, l, winners, best)
        BY DEF CachedStep, feasible, l, winners, best
    <2>7. ASSUME t \in CachedAttempt(s, least, p, l, winners, best)
          PROVE  \/ \E n \in winners : t = CachedBinds(s, l, least, p, n)
                 \/ \E x \in best : t = CachedPreempts(s, l, p, x)
                 \/ t = CachedFails(s, l, p)
        BY <2>7 DEF CachedAttempt
    <2> QED BY <1>5, <2>1, <2>2, <2>3, <2>4, <2>5, <2>6, <2>7
<1> QED BY <1>5

\* What a pass starts from for the least of what the pods of q request.
LeastOf(c, q) == IF q = <<>> THEN 0 ELSE Min({c.requests[p] : p \in QueueSet(q)})

\* The passes over the first pods of a snapshot q, pod by pod.
PassesWalk(w, c, k, up, full, q) ==
    /\ w \in [0..Len(q) -> SUBSET CachedFrom(c, k, up)]
    /\ w[0] = {CachedStart(c, k, up, LeastOf(c, q))}
    /\ \A i \in 1..Len(q) :
           w[i] = UNION {CachedStep(s, up, up \ full, LeastOf(c, q), q[i]) : s \in w[i - 1]}

\* A pass is such a walk to its end.
LEMMA CachedPassWalks ==
    ASSUME NEW c, Sound(c), NEW k \in AllCaches, NEW up \in SUBSET Node, NEW full,
           NEW q \in Seq(Pod), NEW x \in CachedPass(c, k, up, full, q)
    PROVE  \E w : /\ PassesWalk(w, c, k, up, full, q)
                  /\ \E s \in w[Len(q)] : x = [c |-> s.c, caches |-> s.caches]
<1> DEFINE least == LeastOf(c, q)
           nodes == up \ full
           Step(passes, p) == UNION {CachedStep(s, up, nodes, least, p) : s \in passes}
           From == CachedFrom(c, k, up)
           C == SUBSET From
           base == {CachedStart(c, k, up, least)}
           n == Len(q)
           Eqn(g) == g = [t \in SUBSET (1..n) |->
                             IF t = {} THEN base ELSE Step(g[t \ {Max(t)}], q[Max(t)])]
           g == CHOOSE h : Eqn(h)
           step == [i \in 1..n |-> [passes \in C |-> Step(passes, q[i])]]
<1>0. n \in Nat /\ DOMAIN q = 1..n /\ \A i \in 1..n : q[i] \in Pod
    BY LenProperties, ElementOfSeq
<1>1. PICK s \in g[1..n] : x = [c |-> s.c, caches |-> s.caches]
    BY <1>0 DEF CachedPass, LeastOf, FoldLeft, MapThenFoldSet
<1> HIDE DEF least
<1>2. \A passes \in C, p \in Pod : Step(passes, p) \in C
    <2> SUFFICES ASSUME NEW passes \in C, NEW p \in Pod, NEW r \in passes
                 PROVE  CachedStep(r, up, nodes, least, p) \subseteq From
        OBVIOUS
    <2>1. r \in From /\ nodes \in SUBSET up
        OBVIOUS
    <2> HIDE DEF nodes
    <2> QED BY <2>1, CachedStepFrom
<1>3. base \in C
    <2> DEFINE start == CachedStart(c, k, up, least)
               open == {m \in up : HasRoom(c, least, m)}
    <2>1. start = [c |-> c, caches |-> k, open |-> open, bound |-> FALSE, skip |-> {},
            over |-> FALSE]
        BY DEF CachedStart
    <2>2. open \in SUBSET Node
        OBVIOUS
    <2> HIDE DEF open
    <2>3. start \in CachedType
        <3>1. c \in ClusterType /\ {} \in SUBSET Prints /\ FALSE \in BOOLEAN
            BY DEF Sound
        <3>2. [c |-> c, caches |-> k, open |-> open, bound |-> FALSE, skip |-> {}, over |-> FALSE]
                  \in CachedType
            BY <2>2, <3>1, CachedFields
        <3> QED BY <2>1, <3>2, Zenon
    <2> HIDE DEF start
    <2>4. start.c = c /\ start.caches = k
        BY <2>1
    <2>5. CachedTo(c, k, c, k, up)
        BY CachedSelf
    <2>6. start \in From
        BY <2>3, <2>4, <2>5 DEF CachedFrom
    <2> QED BY <2>6 DEF start
<1> HIDE DEF From, C, base, n, Step
<1>4. step \in [1..n -> [C -> C]]
    BY <1>0, <1>2
<1>5. \A t \in SUBSET (1..n) : t # {} => Max(t) \in t
    BY <1>0, MaxOf
<1>6. \E h : Eqn(h)
    <2> HIDE DEF step
    <2>1. PICK h : Solves(h, n, C, step, base)
        BY <1>0, <1>3, <1>4, FoldSolved
    <2>2. \A t \in SUBSET (1..n) :
              h[t] = IF t = {} THEN base ELSE Step(h[t \ {Max(t)}], q[Max(t)])
        BY <1>5, <2>1 DEF Solves, step
    <2>3. Eqn(h)
        BY <2>1, <2>2 DEF Solves
    <2> QED BY <2>3
<1>7. Eqn(g)
    BY <1>6
<1> HIDE DEF g
<1>8. Tracks(g, n, C, step, base)
    BY <1>5, <1>7 DEF Tracks
<1>9. PICK w : Walk(w, n, C, step, base) /\ w[n] = g[1..n]
    <2> HIDE DEF step
    <2>0. /\ n \in Nat /\ base \in C
          /\ step \in [1..n -> [C -> C]] /\ Tracks(g, n, C, step, base)
        BY <1>0, <1>3, <1>4, <1>8
    <2> HIDE DEF Eqn
    <2> QED BY <2>0, FoldWalked
<1>10. \A i \in 1..n : w[i] = Step(w[i - 1], q[i])
    <2> TAKE i \in 1..n
    <2> HIDE DEF step
    <2>1. i - 1 \in 0..n
        BY <1>0
    <2>2. w[i - 1] \in C /\ w[i] = step[i][w[i - 1]]
        BY <1>9, <2>1 DEF Walk
    <2> QED BY <2>2 DEF step
<1>11. w \in [0..n -> C] /\ w[0] = base
    BY <1>9 DEF Walk
<1>12. PassesWalk(w, c, k, up, full, q)
    BY <1>10, <1>11 DEF PassesWalk, n, C, From, base, Step, least
<1>13. \E r \in w[Len(q)] : x = [c |-> r.c, caches |-> r.caches]
    BY <1>1, <1>9 DEF n
<1> QED BY <1>12, <1>13

\* Every outcome of a pass over a snapshot q.
THEOREM CachedPassOutcome ==
    ASSUME NEW c, Sound(c), NEW k \in AllCaches, NEW up \in SUBSET Node, NEW full,
           NEW q \in Seq(Pod), NEW x \in CachedPass(c, k, up, full, q)
    PROVE  x.caches \in AllCaches /\ CachedTo(c, k, x.c, x.caches, up)
<1>1. PICK w : /\ PassesWalk(w, c, k, up, full, q)
               /\ \E s \in w[Len(q)] : x = [c |-> s.c, caches |-> s.caches]
    BY CachedPassWalks
<1>2. PICK s \in w[Len(q)] : x = [c |-> s.c, caches |-> s.caches]
    BY <1>1
<1>3. Len(q) \in Nat
    BY LenProperties
<1>4. s \in CachedFrom(c, k, up)
    BY <1>1, <1>3 DEF PassesWalk
<1>5. s.caches \in AllCaches /\ CachedTo(c, k, s.c, s.caches, up)
    BY <1>4 DEF CachedFrom, CachedType
<1> QED BY <1>2, <1>5

-----------------------------------------------------------------------------
(***************************************************************************)
(* What a pass has tried in vain.                                          *)
(***************************************************************************)
\* Pods can be put in the order of their priorities.
LEMMA PriorityOrder ==
    ASSUME NEW T \in SUBSET Pod
    PROVE  \E s \in SetToSeqs(T) :
               \A i, j \in DOMAIN s : i < j => Priority[s[i]] <= Priority[s[j]]
<1> DEFINE InOrder(s) == \A i, j \in DOMAIN s : i < j => Priority[s[i]] <= Priority[s[j]]
           B == {t \in SUBSET T : ~ \E s \in SetToSeqs(t) : InOrder(s)}
<1>0. IsFiniteSet(T) /\ \A p \in T : Priority[p] \in Int
    BY FS_Subset, StrategiesAssumption
<1>1. ASSUME NEW t \in SUBSET T, t # {}, NEW x \in t, \A y \in t : Priority[y] <= Priority[x],
             NEW r \in SetToSeqs(t \ {x}), InOrder(r)
      PROVE  \E s \in SetToSeqs(t) : InOrder(s)
    <2> DEFINE k == Cardinality(t \ {x})
               s == [i \in 1..k + 1 |-> IF i <= k THEN r[i] ELSE x]
    <2>1. k \in Nat /\ Cardinality(t) = k + 1
        <3>1. IsFiniteSet(t)
            BY <1>0, FS_Subset
        <3>2. IsFiniteSet(t \ {x}) /\ Cardinality(t \ {x}) = Cardinality(t) - 1
            BY <3>1, FS_RemoveElement
        <3> QED BY <3>1, <3>2, FS_CardinalityType
    <2>2. r \in [1..k -> t \ {x}] /\ \A i, j \in 1..k : i # j => r[i] # r[j]
        BY DEF SetToSeqs
    <2> HIDE DEF k
    <2>3. s \in [1..k + 1 -> t]
        <3>1. \A i \in 1..k + 1 : i <= k => i \in 1..k
            BY <2>1
        <3> QED BY <2>2, <3>1
    <2>4. \A i, j \in 1..k + 1 : i # j => s[i] # s[j]
        <3>1. \A i \in 1..k + 1 : i \in 1..k \/ i = k + 1
            BY <2>1
        <3>2. ~ (k + 1 <= k) /\ \A i \in 1..k : i <= k /\ i \in 1..k + 1
            BY <2>1
        <3>3. s[k + 1] = x /\ k + 1 \in 1..k + 1 /\ \A i \in 1..k : s[i] = r[i] /\ r[i] # x
            BY <2>1, <2>2, <3>2
        <3> QED BY <2>2, <3>1, <3>3
    <2>5. s \in SetToSeqs(t)
        BY <2>1, <2>3, <2>4 DEF SetToSeqs
    <2>6. InOrder(s)
        <3> SUFFICES ASSUME NEW i \in 1..k + 1, NEW j \in 1..k + 1, i < j
                     PROVE  Priority[s[i]] <= Priority[s[j]]
            OBVIOUS
        <3>1. i \in 1..k /\ s[i] = r[i]
            BY <2>1
        <3>2. CASE j \in 1..k
            <4>1. s[j] = r[j] /\ i \in DOMAIN r /\ j \in DOMAIN r
                BY <2>1, <2>2, <3>1, <3>2
            <4> QED BY <1>1, <3>1, <4>1
        <3>3. CASE j = k + 1
            <4>1. s[j] = x /\ r[i] \in t
                BY <2>1, <2>2, <3>1, <3>3
            <4> QED BY <1>1, <3>1, <4>1
        <3> QED BY <2>1, <3>2, <3>3
    <2> QED BY <2>5, <2>6
<1>2. ASSUME NEW t \in B PROVE \E x \in t : t \ {x} \in B
    <2>1. t # {}
        <3> SUFFICES ASSUME t = {} PROVE FALSE
            OBVIOUS
        <3>1. Cardinality(t) = 0
            BY FS_EmptySet
        <3>2. 1..0 = {}
            OBVIOUS
        <3>3. <<>> \in [1..0 -> t]
            BY <3>2
        <3>4. <<>> \in SetToSeqs(t)
            BY <3>1, <3>2, <3>3 DEF SetToSeqs
        <3>5. InOrder(<<>>)
            OBVIOUS
        <3> QED BY <3>4, <3>5
    <2>2. PICK x \in t : \A y \in t : Priority[y] <= Priority[x]
        <3> DEFINE P == {Priority[y] : y \in t}
        <3>1. IsFiniteSet(P)
            <4>1. IsFiniteSet(t) /\ [y \in t |-> Priority[y]] \in Surjection(t, P)
                BY <1>0, FS_Subset DEF Surjection
            <4> QED BY <4>1, FS_Surjection
        <3>2. P \in SUBSET Int /\ P # {}
            BY <1>0, <2>1
        <3>3. Max(P) \in P /\ \A y \in P : Max(P) >= y
            BY <3>1, <3>2, MaxFinite
        <3>4. PICK x \in t : Priority[x] = Max(P)
            BY <3>3
        <3> QED BY <1>0, <3>3, <3>4
    <2>3. t \in SUBSET T /\ ~ \E s \in SetToSeqs(t) : InOrder(s)
        OBVIOUS
    <2> HIDE DEF InOrder
    <2>4. ~ \E r \in SetToSeqs(t \ {x}) : InOrder(r)
        BY <1>1, <2>1, <2>2, <2>3
    <2> QED BY <2>3, <2>4
<1> HIDE DEF InOrder
<1>3. B = {}
    <2>1. B \subseteq SUBSET T
        OBVIOUS
    <2> HIDE DEF B
    <2> QED BY <1>0, <1>2, <2>1, SubsetDescent
<1>4. \E s \in SetToSeqs(T) : InOrder(s)
    BY <1>3
<1> QED BY <1>4 DEF InOrder

\* A node with room for a pod needs no victims.
LEMMA NoVictimsNeeded ==
    ASSUME NEW c, Sound(c), NEW p \in Pod, NEW n \in Node, Fits(c, p, n)
    PROVE  <<>> \in Victims(c, p, n)
<1> DEFINE L == {v \in c.podsOn[n] : Priority[v] < Priority[p]}
<1>1. L \in SUBSET Pod
    BY DEF Sound, ClusterType
<1> HIDE DEF L
<1>2. PICK t \in SetToSeqs(L) :
          \A i, j \in DOMAIN t : i < j => Priority[t[i]] <= Priority[t[j]]
    BY <1>1, PriorityOrder
<1>3. t \in Evictable(c, p, n)
    BY <1>2 DEF Evictable, L
<1>4. <<>> \in Prefixes(t)
    <2>1. IsFiniteSet(L)
        BY <1>1, FS_Subset, StrategiesAssumption
    <2>2. t \in Seq(L)
        BY <1>2, <2>1, OrderOf
    <2>3. Len(t) \in Nat
        BY <2>2, LenProperties
    <2>4. SubSeq(t, 1, 0) = <<>>
        OBVIOUS
    <2> QED BY <2>3, <2>4 DEF Prefixes
<1>5. Prefixes(<<>>) \ {<<>>} = {}
    <2>1. Len(<<>>) = 0 /\ 0..0 = {0}
        OBVIOUS
    <2>2. SubSeq(<<>>, 1, 0) = <<>>
        OBVIOUS
    <2> QED BY <2>1, <2>2 DEF Prefixes
<1>6. c.requests[p] <= Available(c, n) + Requested(c, <<>>)
    <2>1. QueueSet(<<>>) = {} /\ NoDuplicates(<<>>) /\ <<>> \in Seq(Pod)
        BY DEF QueueSet, NoDuplicates
    <2>2. Requested(c, <<>>) = 0
        <3>1. c \in ClusterType
            BY DEF Sound
        <3>2. Requested(c, <<>>) = Sum(c.requests, {})
            BY <2>1, <3>1, RequestedSum
        <3> QED BY <3>2, SumEmpty
    <2>3. Available(c, n) \in Nat /\ c.requests[p] \in Nat
        BY DEF Available, SatSub, Sound, ClusterType
    <2> QED BY <2>2, <2>3 DEF Fits
<1> QED BY <1>3, <1>4, <1>5, <1>6 DEF Victims

\* No list of victims leaves fewer budgets short than no victims do.
LEMMA ViolationsLeast ==
    ASSUME NEW c, NEW s
    PROVE  /\ PdbViolations(c, <<>>) \in Nat /\ PdbViolations(c, s) \in Nat
           /\ PdbViolations(c, <<>>) <= PdbViolations(c, s)
<1> DEFINE Match(pdb) == {q \in Pod : LivePod(c, q) /\ pdb.selector \in Matching[q]}
           Alive(pdb) == Cardinality({q \in Match(pdb) : Is(c, q, "Running")})
           Gone(pdb, t) == Cardinality(QueueSet(t) \cap Match(pdb))
           Short(t) == {pdb \in Pdbs : SatSub(Alive(pdb), Gone(pdb, t)) < pdb.min_available}
<1>1. \A t : PdbViolations(c, t) = Cardinality(Short(t))
    BY DEF PdbViolations
<1>2. \A t : Short(t) \in SUBSET Pdbs
    OBVIOUS
<1>3. ASSUME NEW pdb \in Pdbs
      PROVE  Alive(pdb) \in Nat /\ Gone(pdb, <<>>) = 0 /\ Gone(pdb, s) \in Nat
    <2>1. Match(pdb) \in SUBSET Pod /\ IsFiniteSet(Pod)
        BY StrategiesAssumption
    <2> HIDE DEF Match
    <2>2. /\ {q \in Match(pdb) : Is(c, q, "Running")} \in SUBSET Pod
          /\ QueueSet(s) \cap Match(pdb) \in SUBSET Pod
        BY <2>1
    <2>3. Alive(pdb) \in Nat /\ Gone(pdb, s) \in Nat
        BY <2>1, <2>2, FS_Subset, FS_CardinalityType
    <2>4. QueueSet(<<>>) \cap Match(pdb) = {}
        BY DEF QueueSet
    <2>5. Gone(pdb, <<>>) = 0
        BY <2>4, FS_EmptySet
    <2> QED BY <2>3, <2>5
<1> HIDE DEF Alive, Gone
<1>4. Short(<<>>) \subseteq Short(s)
    <2> SUFFICES ASSUME NEW pdb \in Pdbs, SatSub(Alive(pdb), Gone(pdb, <<>>)) < pdb.min_available
                 PROVE  SatSub(Alive(pdb), Gone(pdb, s)) < pdb.min_available
        OBVIOUS
    <2>1. pdb.min_available \in Nat
        BY StrategiesAssumption
    <2> QED BY <1>3, <2>1 DEF SatSub
<1>5. IsFiniteSet(Short(<<>>)) /\ IsFiniteSet(Short(s))
    BY <1>2, FS_Subset, StrategiesAssumption
<1> HIDE DEF Short
<1> QED BY <1>1, <1>4, <1>5, FS_Subset, FS_CardinalityType

\* No victims cost nothing.
LEMMA NothingCosts == PreemptionCost(<<>>) = <<0, 0>>
<1> DEFINE Eqn(g) == g = [t \in SUBSET {} |->
                            IF t = {} THEN 0 ELSE g[t \ {Max(t)}] + Priority[<<>>[Max(t)]]]
           g == CHOOSE h : Eqn(h)
<1>1. Eqn([t \in SUBSET {} |-> 0])
    OBVIOUS
<1>2. Eqn(g)
    BY <1>1
<1>3. g[{}] = 0
    <2> HIDE DEF g
    <2> QED BY <1>2
<1>4. DOMAIN <<>> = {} /\ Len(<<>>) = 0
    OBVIOUS
<1>5. FoldLeft(LAMBDA total, p : total + Priority[p], 0, <<>>) = g[{}]
    BY <1>4 DEF FoldLeft, MapThenFoldSet
<1> QED BY <1>3, <1>4, <1>5 DEF PreemptionCost

\* The rank of a candidate as three numbers.
LEMMA RankIs ==
    ASSUME NEW c, NEW s
    PROVE  /\ RankedBy(c, s)[1] = PdbViolations(c, s)
           /\ RankedBy(c, s)[2] = Len(s)
           /\ RankedBy(c, <<>>)[2] = 0 /\ RankedBy(c, <<>>)[3] = 0
<1>1. \A x, a, b : /\ (<<x>> \o <<a, b>>)[1] = x /\ (<<x>> \o <<a, b>>)[2] = a
                   /\ (<<x>> \o <<a, b>>)[3] = b
    OBVIOUS
<1>2. PICK total : PreemptionCost(s) = <<Len(s), total>>
    BY DEF PreemptionCost
<1>3. RankedBy(c, s) = <<PdbViolations(c, s)>> \o <<Len(s), total>>
    BY <1>2 DEF RankedBy
<1>4. RankedBy(c, <<>>) = <<PdbViolations(c, <<>>)>> \o <<0, 0>>
    BY NothingCosts DEF RankedBy
<1> QED BY <1>1, <1>3, <1>4

\* A node that takes the pod as it is keeps preemption from failing.
LEMMA LastResort ==
    ASSUME NEW c, Sound(c), NEW up \in SUBSET Node, NEW p \in Pod, NEW n \in Admissible(c, up, p)
    PROVE  BestCandidates(c, up, p) # {}
<1>1. n \in Node /\ n \in up /\ LiveNode(c, n) /\ Fits(c, p, n) /\ OtherFilters(c, p, n)
    BY DEF Admissible, Feasible
<1>2. <<>> \in Victims(c, p, n)
    BY <1>1, NoVictimsNeeded
<1> DEFINE all == Candidates(c, up, p)
           x == <<n, <<>>>>
<1>3. x \in all
    BY <1>1, <1>2 DEF Candidates
<1>4. ASSUME NEW m \in Node, LiveNode(c, m), NEW s \in Victims(c, p, m)
      PROVE  ~ LexLess(RankedBy(c, s), RankedBy(c, <<>>))
    <2>1. s \in Seq(Pod)
        BY <1>4, VictimsAre
    <2>2. Len(s) \in Nat /\ Len(<<>>) = 0 /\ (Len(s) = 0 => s = <<>>)
        BY <2>1, LenProperties, EmptySeq
    <2> DEFINE a == RankedBy(c, s)
               b == RankedBy(c, <<>>)
    <2>3. /\ a[1] = PdbViolations(c, s) /\ a[2] = Len(s)
          /\ b[1] = PdbViolations(c, <<>>) /\ b[2] = 0
        BY RankIs
    <2>4. a[1] \in Nat /\ b[1] \in Nat /\ b[1] <= a[1]
        BY <2>3, ViolationsLeast
    <2>5. a[2] = 0 => a = b
        BY <2>2, <2>3
    <2>6. b[3] = 0
        BY RankIs
    <2> HIDE DEF a, b
    <2>7. ~ LexLess(a, b)
        <3> SUFFICES ASSUME NEW i \in 1..3, a[i] < b[i], \A j \in 1..i - 1 : a[j] = b[j]
                     PROVE  FALSE
            BY DEF LexLess
        <3>1. CASE i = 1
            BY <2>4, <3>1
        <3>2. CASE i = 2
            BY <2>2, <2>3, <3>2
        <3>3. CASE i = 3
            BY <2>3, <2>5, <2>6, <3>3
        <3> QED BY <3>1, <3>2, <3>3
    <2> QED BY <2>7 DEF a, b
<1>5. x \in BestCandidates(c, up, p)
    <2>1. ASSUME NEW m \in {y[1] : y \in all} \ {n}
          PROVE  \E y \in all : y[1] = m /\ ~ LexLess(RankedBy(c, y[2]), RankedBy(c, <<>>))
        <3>1. PICK y \in all : y[1] = m
            OBVIOUS
        <3>2. m \in Node /\ LiveNode(c, m) /\ y[2] \in Victims(c, p, m)
            BY <3>1 DEF Candidates
        <3> QED BY <1>4, <3>1, <3>2
    <2>2. x[1] = n /\ x[2] = <<>>
        OBVIOUS
    <2> HIDE DEF all, x
    <2> QED BY <1>3, <2>1, <2>2 DEF BestCandidates, all
<1> QED BY <1>5

\* A pod that was pending has come to run.
Moved(c, d) == \E p \in Pod : Is(c, p, "Pending") /\ Is(d, p, "Running")

\* A pass from c that has tried the pods of T in vain: it has found no node for them that
\* takes them as they are, and nothing that it has noted lets it pass over a pod that has one.
InVain(c, up, open, s, T) ==
    /\ s.c = c /\ ~ s.bound /\ s.open = open
    /\ s.over => open = {}
    /\ \A p \in Pod : Fingerprint(c, p) \in s.skip => Admissible(c, up, p) = {}
    /\ \A p \in T : Admissible(c, up, p) = {}

Tried(c, up, open, s, T) == Moved(c, s.c) \/ InVain(c, up, open, s, T)

\* What admits a pod depends on what its fingerprint tells.
LEMMA SamePrint ==
    ASSUME NEW c, NEW up, NEW p \in Pod, NEW q \in Pod, Fingerprint(c, p) = Fingerprint(c, q)
    PROVE  Admissible(c, up, p) = Admissible(c, up, q)
<1>1. /\ c.requests[p] = c.requests[q] /\ Spread[p] = Spread[q]
      /\ PodAffinity[p] = PodAffinity[q] /\ NodeAffinity[p] = NodeAffinity[q]
      /\ Tolerations[p] = Tolerations[q]
    BY DEF Fingerprint
<1>2. ASSUME NEW n
      PROVE  /\ Fits(c, p, n) <=> Fits(c, q, n)
             /\ TaintToleration(p, n) <=> TaintToleration(q, n)
             /\ NodeAffinityFilter(p, n) <=> NodeAffinityFilter(q, n)
             /\ InterPodAffinity(c, p, n) <=> InterPodAffinity(c, q, n)
             /\ TopologySpread(c, p, n) <=> TopologySpread(c, q, n)
    BY <1>1 DEF Fits, TaintToleration, NodeAffinityFilter, InterPodAffinity, TopologySpread
<1> QED BY <1>2 DEF Admissible, Feasible, OtherFilters

\* A node that takes a pod has room for the least request.
LEMMA RoomForLeast ==
    ASSUME NEW c \in ClusterType, NEW up \in SUBSET Node, NEW p \in Pod, NEW least \in Nat,
           least <= c.requests[p], {n \in up : HasRoom(c, least, n)} = {}
    PROVE  Admissible(c, up, p) = {}
<1> SUFFICES ASSUME NEW n \in Admissible(c, up, p) PROVE FALSE
    OBVIOUS
<1>1. n \in up /\ LiveNode(c, n) /\ c.requests[p] <= Available(c, n)
    BY DEF Admissible, Feasible, Fits
<1>2. Available(c, n) \in Nat /\ c.requests[p] \in Nat
    BY <1>1 DEF Available, SatSub, ClusterType
<1>3. HasRoom(c, least, n)
    BY <1>1, <1>2 DEF HasRoom
<1> QED BY <1>1, <1>3

\* A pod that was pending before the pass runs after it was bound, and whoever had moved
\* still runs or makes room for it.
LEMMA BoundMoved ==
    ASSUME NEW c, NEW d, NEW k, NEW l, NEW up, CachedTo(c, k, d, l, up), NEW p \in Pod,
           Is(c, p, "Pending"), NEW V, p \notin V, NEW e, Kept(d, e), EvictedFrom(d, e, V),
           NEW n \in Node, LiveNode(d, n), NEW f, f = BindPod(e, p, n)
    PROVE  Moved(c, f)
<1>1. Sound(d) /\ SameFrame(c, d) /\ NoneSucceeds(c, d)
    BY DEF CachedTo, PassedTo, Kept
<1>2. d \in ClusterType /\ e \in ClusterType
    BY <1>1 DEF Kept, Sound
<1>3. LivePod(d, p) /\ d.phase[p] \in {"Pending", "Running"}
    BY <1>1, <1>2 DEF SameFrame, NoneSucceeds, Is, LivePod, ClusterType, PodPhase
<1>4. LivePod(e, p) /\ LiveNode(e, n) /\ e.phase[p] = d.phase[p]
    BY <1>3 DEF EvictedFrom, SameFrame, LivePod, LiveNode
<1>5. Is(e, p, "Running") \/ CanBind(e, p, n)
    BY <1>3, <1>4 DEF Is, CanBind
<1>6. Is(f, p, "Running")
    BY <1>2, <1>5, BindPodEffect
<1> QED BY <1>6 DEF Moved

\* Looking at one more pod that was pending.
LEMMA TriedStep ==
    ASSUME NEW c, Sound(c), NEW k, NEW up \in SUBSET Node, NEW nodes \in SUBSET up,
           NEW least \in Nat, NEW p \in Pod, Is(c, p, "Pending"), least <= c.requests[p],
           NEW open, open = {n \in up : HasRoom(c, least, n)},
           NEW s \in CachedFrom(c, k, up), NEW T, Tried(c, up, open, s, T),
           NEW t \in CachedStep(s, up, nodes, least, p)
    PROVE  Tried(c, up, open, t, T \cup {p})
<1>0. s \in CachedType /\ CachedTo(c, k, s.c, s.caches, up) /\ Sound(s.c) /\ c \in ClusterType
    BY DEF CachedFrom, CachedTo, PassedTo, Kept, Sound
<1>1. s = [c |-> s.c, caches |-> s.caches, open |-> s.open, bound |-> s.bound,
           skip |-> s.skip, over |-> s.over]
    BY <1>0 DEF CachedType
<1> DEFINE feasible == FeasibleCached(s.c, s.caches, nodes, p)
           l == Filled(s.c, s.caches, nodes, feasible, p)
           winners == WinnersCached(s.c, s.caches, feasible, p)
           best == BestCandidates(s.c, up, p)
<1>2. ASSUME InVain(c, up, open, s, T), Admissible(c, up, p) = {}, t.c = c, ~ t.bound,
             t.open = open, t.over => open = {},
             \A q \in Pod : Fingerprint(c, q) \in t.skip => Admissible(c, up, q) = {}
      PROVE  Tried(c, up, open, t, T \cup {p})
    BY <1>2 DEF Tried, InVain
<1>3. ASSUME Moved(c, s.c), t.c = s.c
      PROVE  Tried(c, up, open, t, T \cup {p})
    BY <1>3 DEF Tried
<1>4. CASE (s.over \/ s.open = {}) /\ t = [s EXCEPT !.over = TRUE]
    <2>1. t = [c |-> s.c, caches |-> s.caches, open |-> s.open, bound |-> s.bound,
               skip |-> s.skip, over |-> TRUE]
        BY <1>1, <1>4
    <2>2. t.c = s.c /\ t.bound = s.bound /\ t.open = s.open /\ t.skip = s.skip
        BY <2>1
    <2>3. CASE InVain(c, up, open, s, T)
        <3>1. open = {}
            BY <1>4, <2>3 DEF InVain
        <3>2. Admissible(c, up, p) = {}
            BY <1>0, <3>1, RoomForLeast
        <3> QED BY <1>2, <2>2, <2>3, <3>1, <3>2 DEF InVain
    <2> QED BY <1>3, <2>2, <2>3 DEF Tried
<1>5. CASE Fingerprint(s.c, p) \in s.skip /\ t = s
    <2>1. CASE InVain(c, up, open, s, T)
        <3>1. Admissible(c, up, p) = {}
            BY <1>5, <2>1 DEF InVain
        <3> QED BY <1>2, <1>5, <2>1, <3>1 DEF InVain
    <2> QED BY <1>3, <1>5, <2>1 DEF Tried
<1>6. CASE \E n \in winners : t = CachedBinds(s, l, least, p, n)
    <2>1. PICK n \in winners : t = CachedBinds(s, l, least, p, n)
        BY <1>6
    <2>2. n \in Node /\ LiveNode(s.c, n)
        BY DEF WinnersCached, Highest, FeasibleCached, Basic, LiveNode
    <2> DEFINE d == BindPod(s.c, p, n)
               m == OnPodBound(l, p, n)
               left == {x \in s.open : HasRoom(d, least, x)}
    <2>3. t = [s EXCEPT !.c = d, !.caches = m, !.bound = TRUE, !.skip = {}, !.open = left]
        BY <2>1 DEF CachedBinds
    <2> HIDE DEF d, m, left
    <2>4. t.c = d
        BY <1>1, <2>3
    <2>5. Kept(s.c, s.c) /\ EvictedFrom(s.c, s.c, {})
        BY <1>0 DEF Kept, EvictedFrom, SameFrame, NoneSucceeds
    <2>6. Moved(c, d)
        BY <1>0, <2>2, <2>5, BoundMoved DEF d
    <2> QED BY <2>4, <2>6 DEF Tried
<1>7. CASE \E x \in best : t = CachedPreempts(s, l, p, x)
    <2>1. PICK x \in best : t = CachedPreempts(s, l, p, x)
        BY <1>7
    <2>2. PICK n \in up : LiveNode(s.c, n) /\ x \in {n} \X Victims(s.c, p, n)
        BY DEF BestCandidates, Candidates
    <2> DEFINE v == x[2]
               e == FoldLeft(EvictPod, s.c, v)
               d == Preempt(s.c, p, x[1], x[2])
               m == OnPodBound(l, p, x[1])
    <2>3. x[1] = n /\ v \in Victims(s.c, p, n) /\ n \in Node
        BY <2>2
    <2>4. d = BindPod(e, p, n)
        BY <2>3 DEF Preempt
    <2>5. t = [s EXCEPT !.c = d, !.caches = m, !.bound = TRUE, !.skip = {}]
        BY <2>1 DEF CachedPreempts
    <2> HIDE DEF v, e, d, m
    <2>6. t.c = d
        BY <1>1, <2>5
    <2>7. v \in Seq(Pod) /\ QueueSet(v) \subseteq {y \in s.c.podsOn[n] : Priority[y] < Priority[p]}
        BY <1>0, <2>3, VictimsAre
    <2>8. p \notin QueueSet(v)
        <3>1. Priority[p] \in Int
            BY StrategiesAssumption
        <3>2. ~ (Priority[p] < Priority[p])
            BY <3>1
        <3> QED BY <2>7, <3>2
    <2>9. Kept(s.c, e) /\ EvictedFrom(s.c, e, QueueSet(v))
        BY <1>0, <2>7, EvictAllKept DEF e
    <2>10. Moved(c, d)
        BY <1>0, <2>2, <2>3, <2>4, <2>8, <2>9, BoundMoved
    <2> QED BY <2>6, <2>10 DEF Tried
<1>8. CASE best = {} /\ t = CachedFails(s, l, p)
    <2> HIDE DEF l
    <2>1. CASE InVain(c, up, open, s, T)
        <3>1. s.c = c /\ s.bound = FALSE
            BY <1>0, <2>1 DEF InVain, CachedType
        <3>2. t = [c |-> c, caches |-> l, open |-> s.open, bound |-> FALSE,
                   skip |-> {Fingerprint(c, p)}, over |-> s.over]
            BY <1>1, <1>8, <3>1 DEF CachedFails
        <3>3. Admissible(c, up, p) = {}
            BY <1>8, <3>1, LastResort
        <3>4. \A q \in Pod : Fingerprint(c, q) \in t.skip => Admissible(c, up, q) = {}
            <4>1. t.skip = {Fingerprint(c, p)}
                BY <3>2
            <4>2. ASSUME NEW q \in Pod, Fingerprint(c, q) = Fingerprint(c, p)
                  PROVE  Admissible(c, up, q) = {}
                BY <3>3, <4>2, SamePrint
            <4> QED BY <4>1, <4>2
        <3>5. t.c = c /\ ~ t.bound /\ t.open = s.open /\ t.over = s.over
            BY <3>2
        <3> QED BY <1>2, <2>1, <3>3, <3>4, <3>5 DEF InVain
    <2>2. CASE Moved(c, s.c)
        <3>1. t.c = s.c
            BY <1>1, <1>8 DEF CachedFails
        <3> QED BY <1>3, <2>2, <3>1
    <2> QED BY <2>1, <2>2 DEF Tried
<1> HIDE DEF feasible, l, winners, best
<1>9. \/ (s.over \/ s.open = {}) /\ t = [s EXCEPT !.over = TRUE]
      \/ Fingerprint(s.c, p) \in s.skip /\ t = s
      \/ t \in CachedAttempt(s, least, p, l, winners, best)
    BY DEF CachedStep, feasible, l, winners, best
<1>10. ASSUME t \in CachedAttempt(s, least, p, l, winners, best)
       PROVE  \/ \E n \in winners : t = CachedBinds(s, l, least, p, n)
              \/ \E x \in best : t = CachedPreempts(s, l, p, x)
              \/ best = {} /\ t = CachedFails(s, l, p)
    BY <1>10 DEF CachedAttempt
<1> QED BY <1>4, <1>5, <1>6, <1>7, <1>8, <1>9, <1>10

\* A pass over pods that pend and after which the cluster is as it was has found no node
\* that takes one of them as it is.
THEOREM PassTriesAll ==
    ASSUME NEW c, Sound(c), NEW k \in AllCaches, NEW up \in SUBSET Node, NEW full,
           NEW q \in Seq(Pod), \A p \in QueueSet(q) : Is(c, p, "Pending"),
           NEW x \in CachedPass(c, k, up, full, q), x.c = c
    PROVE  \A p \in QueueSet(q) : Admissible(c, up, p) = {}
<1> DEFINE n == Len(q)
           least == LeastOf(c, q)
           open == {m \in up : HasRoom(c, least, m)}
           T(i) == {q[j] : j \in 1..i}
           nodes == up \ full
<1>0. n \in Nat /\ DOMAIN q = 1..n /\ \A i \in 1..n : q[i] \in Pod /\ q[i] \in QueueSet(q)
    BY LenProperties, ElementOfSeq DEF QueueSet
<1>1. PICK w : /\ PassesWalk(w, c, k, up, full, q)
               /\ \E s \in w[n] : x = [c |-> s.c, caches |-> s.caches]
    BY CachedPassWalks
<1>2. least \in Nat /\ \A i \in 1..n : least <= c.requests[q[i]]
    <2> DEFINE R == {c.requests[p] : p \in QueueSet(q)}
    <2>1. \A i \in 1..n : c.requests[q[i]] \in R
        BY <1>0
    <2>2. CASE q = <<>>
        BY <1>0, <2>2 DEF LeastOf
    <2>3. CASE q # <<>>
        <3>1. R \in SUBSET Nat
            <4>1. QueueSet(q) \subseteq Pod
                BY <1>0 DEF QueueSet
            <4> QED BY <4>1 DEF Sound, ClusterType
        <3>2. R # {}
            <4>1. n # 0
                BY <2>3, EmptySeq
            <4>2. 1 \in 1..n
                BY <1>0, <4>1
            <4> QED BY <2>1, <4>2
        <3> HIDE DEF R
        <3>3. Min(R) \in Nat /\ \A y \in R : Min(R) <= y
            BY <3>1, <3>2, MinNat
        <3>4. least = Min(R)
            BY <2>3 DEF LeastOf, R
        <3> QED BY <2>1, <3>3, <3>4
    <2> QED BY <2>2, <2>3
<1> HIDE DEF least, n
<1> DEFINE P == {i \in 0..n : \A s \in w[i] : Tried(c, up, open, s, T(i))}
<1>3. 0 \in P
    <2> DEFINE start == CachedStart(c, k, up, least)
    <2>1. w[0] = {start} /\ 0 \in 0..n /\ T(0) = {}
        BY <1>0, <1>1 DEF PassesWalk, least
    <2>2. start = [c |-> c, caches |-> k, open |-> open, bound |-> FALSE, skip |-> {},
                   over |-> FALSE]
        BY DEF CachedStart
    <2> HIDE DEF start, open
    <2>3. InVain(c, up, open, start, {})
        BY <2>2 DEF InVain
    <2> QED BY <2>1, <2>3 DEF Tried
<1>4. \A i \in 1..n : i - 1 \in P => i \in P
    <2> SUFFICES ASSUME NEW i \in 1..n, i - 1 \in P
                 PROVE  \A t \in w[i] : Tried(c, up, open, t, T(i))
        <3>1. \A i \in 1..n : i \in 0..n
            BY <1>0
        <3> HIDE DEF T, open
        <3> QED BY <3>1
    <2> SUFFICES ASSUME NEW t \in w[i]
                 PROVE  Tried(c, up, open, t, T(i))
        OBVIOUS
    <2>1. i - 1 \in 0..n
        BY <1>0
    <2>2. w[i] = UNION {CachedStep(s, up, nodes, least, q[i]) : s \in w[i - 1]}
        BY <1>1 DEF PassesWalk, least, n
    <2>3. PICK s \in w[i - 1] : t \in CachedStep(s, up, nodes, least, q[i])
        BY <2>2
    <2>4. s \in CachedFrom(c, k, up)
        BY <1>1, <2>1, <2>3 DEF PassesWalk, n
    <2>5. Tried(c, up, open, s, T(i - 1))
        BY <2>3
    <2>6. T(i) = T(i - 1) \cup {q[i]}
        <3>1. 1..i = (1..i - 1) \cup {i}
            BY <1>0
        <3> QED BY <3>1
    <2>7. Is(c, q[i], "Pending") /\ q[i] \in Pod /\ least <= c.requests[q[i]]
        BY <1>0, <1>2
    <2>8. nodes \in SUBSET up
        OBVIOUS
    <2> HIDE DEF P, T, nodes
    <2>9. Tried(c, up, open, t, T(i - 1) \cup {q[i]})
        <3> DEFINE o == open
                   tr == T(i - 1)
        <3>1. o = {m \in up : HasRoom(c, least, m)} /\ Tried(c, up, o, s, tr)
            BY <2>5
        <3> HIDE DEF o, tr, open
        <3>2. Tried(c, up, o, t, tr \cup {q[i]})
            BY <1>2, <2>3, <2>4, <2>7, <2>8, <3>1, TriedStep
        <3> QED BY <3>2 DEF o, tr
    <2> QED BY <2>6, <2>9
<1>5. n \in P
    <2> HIDE DEF P
    <2> QED BY <1>0, <1>3, <1>4, WalkInduction
<1>6. PICK s \in w[n] : x = [c |-> s.c, caches |-> s.caches]
    BY <1>1
<1>7. Tried(c, up, open, s, T(n)) /\ s.c = c
    BY <1>5, <1>6
<1>8. ~ Moved(c, c)
    BY DEF Moved, Is
<1>9. \A p \in T(n) : Admissible(c, up, p) = {}
    BY <1>7, <1>8 DEF Tried, InVain
<1>10. QueueSet(q) = T(n)
    BY <1>0 DEF QueueSet
<1> QED BY <1>9, <1>10

-----------------------------------------------------------------------------
(***************************************************************************)
(* The wait queue.                                                         *)
(***************************************************************************)
Owners == {Owner[p] : p \in Pod}

Waits == [constrained : [Owners -> Seq(Pod)], unconstrained : Seq(Pod), in_queue : SUBSET Pod]

\* The queue that pod p has its entry in.
EntriesOf(w, p) == IF Constrained(p) THEN w.constrained[Owner[p]] ELSE w.unconstrained

\* Entries are in the queue of their owner, and what waits has one.
WaitOk(w) ==
    /\ w \in Waits
    /\ \A o \in Owners : \A i \in 1..Len(w.constrained[o]) : Owner[w.constrained[o][i]] = o
    /\ \A p \in w.in_queue : p \in QueueSet(EntriesOf(w, p))

LEMMA WaitFields ==
    ASSUME NEW a \in [Owners -> Seq(Pod)], NEW b \in Seq(Pod), NEW d \in SUBSET Pod
    PROVE  [constrained |-> a, unconstrained |-> b, in_queue |-> d] \in Waits
BY DEF Waits

LEMMA WaitParts ==
    ASSUME NEW w \in Waits
    PROVE  /\ w.constrained \in [Owners -> Seq(Pod)] /\ w.unconstrained \in Seq(Pod)
           /\ w.in_queue \in SUBSET Pod
           /\ w = [constrained |-> w.constrained, unconstrained |-> w.unconstrained,
                   in_queue |-> w.in_queue]
BY DEF Waits

LEMMA NoWaitOk == WaitOk(NoWait)
<1>1. NoWait \in Waits
    BY DEF NoWait, Waits, Owners
<1>2. NoWait.in_queue = {} /\ NoWait.constrained = [o \in Owners |-> <<>>]
    BY DEF NoWait, Owners
<1> QED BY <1>1, <1>2 DEF WaitOk

\* add_constrained, add_unconstrained
LEMMA AddWaitingOk ==
    ASSUME NEW w, WaitOk(w), NEW p \in Pod, NEW v, v = AddWaiting(w, p)
    PROVE  WaitOk(v) /\ v.in_queue = w.in_queue \cup {p}
<1>0. /\ w.constrained \in [Owners -> Seq(Pod)] /\ w.unconstrained \in Seq(Pod)
      /\ w.in_queue \in SUBSET Pod
      /\ w = [constrained |-> w.constrained, unconstrained |-> w.unconstrained,
              in_queue |-> w.in_queue]
    BY WaitParts DEF WaitOk
<1> DEFINE o == Owner[p]
           q == w.constrained[o]
<1>1. CASE p \in w.in_queue
    BY <1>0, <1>1 DEF AddWaiting
<1>2. CASE p \notin w.in_queue /\ Constrained(p)
    <2>1. o \in Owners /\ q \in Seq(Pod)
        BY <1>0 DEF Owners
    <2>2. v = [constrained |-> [w.constrained EXCEPT ![o] = Append(q, p)],
               unconstrained |-> w.unconstrained, in_queue |-> w.in_queue \cup {p}]
        BY <1>0, <1>2 DEF AddWaiting
    <2>3. /\ Append(q, p) \in Seq(Pod) /\ QueueSet(Append(q, p)) = QueueSet(q) \cup {p}
          /\ Len(Append(q, p)) = Len(q) + 1 /\ Len(q) \in Nat
          /\ \A i \in 1..Len(q) + 1 : Append(q, p)[i] = IF i = Len(q) + 1 THEN p ELSE q[i]
        BY <2>1, AppendQueue, AppendProperties, LenProperties
    <2>4. [w.constrained EXCEPT ![o] = Append(q, p)] \in [Owners -> Seq(Pod)]
        BY <1>0, <2>3
    <2>5. v \in Waits
        BY <1>0, <2>2, <2>4, WaitFields
    <2>6. \A u \in Owners : v.constrained[u] = IF u = o THEN Append(q, p) ELSE w.constrained[u]
        BY <1>0, <2>2
    <2>7. ASSUME NEW u \in Owners, NEW i \in 1..Len(v.constrained[u])
          PROVE  Owner[v.constrained[u][i]] = u
        <3>1. CASE u = o
            <4>1. v.constrained[u] = Append(q, p)
                BY <2>6, <3>1
            <4>2. i \in 1..Len(q) + 1 /\ Append(q, p)[i] = IF i = Len(q) + 1 THEN p ELSE q[i]
                BY <2>3, <4>1
            <4>3. i # Len(q) + 1 => i \in 1..Len(q)
                BY <2>3, <4>2
            <4>4. i # Len(q) + 1 => Owner[q[i]] = o
                BY <2>1, <4>3 DEF WaitOk
            <4> QED BY <3>1, <4>1, <4>2, <4>4
        <3>2. CASE u # o
            BY <2>6, <3>2 DEF WaitOk
        <3> QED BY <3>1, <3>2
    <2>8. \A x \in v.in_queue : x \in QueueSet(EntriesOf(v, x))
        <3> SUFFICES ASSUME NEW x \in v.in_queue PROVE x \in QueueSet(EntriesOf(v, x))
            OBVIOUS
        <3>1. x \in Pod /\ Owner[x] \in Owners
            BY <2>5 DEF Waits, Owners
        <3>2. CASE x = p
            BY <1>2, <2>1, <2>3, <2>6, <3>2 DEF EntriesOf
        <3>3. CASE x # p
            <4>1. x \in QueueSet(EntriesOf(w, x))
                BY <2>2, <3>3 DEF WaitOk
            <4> QED BY <2>2, <2>3, <2>6, <3>1, <4>1 DEF EntriesOf
        <3> QED BY <3>2, <3>3
    <2>9. v.in_queue = w.in_queue \cup {p}
        BY <2>2
    <2>10. WaitOk(v)
        BY <2>5, <2>7, <2>8 DEF WaitOk
    <2> QED BY <2>9, <2>10
<1>3. CASE p \notin w.in_queue /\ ~ Constrained(p)
    <2>1. v = [constrained |-> w.constrained, unconstrained |-> Append(w.unconstrained, p),
               in_queue |-> w.in_queue \cup {p}]
        BY <1>0, <1>3 DEF AddWaiting
    <2>2. /\ Append(w.unconstrained, p) \in Seq(Pod)
          /\ QueueSet(Append(w.unconstrained, p)) = QueueSet(w.unconstrained) \cup {p}
        BY <1>0, AppendQueue
    <2>3. v \in Waits
        BY <1>0, <2>1, <2>2, WaitFields
    <2>4. \A x \in v.in_queue : x \in QueueSet(EntriesOf(v, x))
        BY <1>3, <2>1, <2>2 DEF WaitOk, EntriesOf
    <2>5. v.in_queue = w.in_queue \cup {p} /\ v.constrained = w.constrained
        BY <2>1
    <2>6. \A u \in Owners : \A i \in 1..Len(v.constrained[u]) : Owner[v.constrained[u][i]] = u
        BY <2>5 DEF WaitOk
    <2>7. WaitOk(v)
        BY <2>3, <2>4, <2>6 DEF WaitOk
    <2> QED BY <2>5, <2>7
<1> QED BY <1>1, <1>2, <1>3

\* remove: the entry stays.
LEMMA RemoveWaitingOk ==
    ASSUME NEW w, WaitOk(w), NEW p, NEW v, v = RemoveWaiting(w, p)
    PROVE  WaitOk(v) /\ v.in_queue = w.in_queue \ {p}
<1>0. /\ w.constrained \in [Owners -> Seq(Pod)] /\ w.unconstrained \in Seq(Pod)
      /\ w.in_queue \in SUBSET Pod
      /\ w = [constrained |-> w.constrained, unconstrained |-> w.unconstrained,
              in_queue |-> w.in_queue]
    BY WaitParts DEF WaitOk
<1>1. v = [constrained |-> w.constrained, unconstrained |-> w.unconstrained,
           in_queue |-> w.in_queue \ {p}]
    BY <1>0 DEF RemoveWaiting
<1>2. v \in Waits
    BY <1>0, <1>1, WaitFields
<1> QED BY <1>1, <1>2 DEF WaitOk, EntriesOf

\* The provisioning loop puts every pending pod of the queue back.
LEMMA RequeuedOk ==
    ASSUME NEW c \in ClusterType, WaitOk(wait), NEW v, v = Requeued(c)
    PROVE  /\ WaitOk(v) /\ wait.in_queue \subseteq v.in_queue
           /\ \A p \in QueueSet(c.pending_queue) : Is(c, p, "Pending") => p \in v.in_queue
<1> DEFINE q == c.pending_queue
           n == Len(q)
           C == {w \in Waits : WaitOk(w)}
           Back(w, p) == IF Is(c, p, "Pending") THEN AddWaiting(w, p) ELSE w
           Eqn(g) == g = [t \in SUBSET (1..n) |->
                             IF t = {} THEN wait ELSE Back(g[t \ {Max(t)}], q[Max(t)])]
           g == CHOOSE h : Eqn(h)
           step == [i \in 1..n |-> [w \in C |-> Back(w, q[i])]]
<1>0. q \in Seq(Pod) /\ n \in Nat /\ DOMAIN q = 1..n /\ \A i \in 1..n : q[i] \in Pod
    <2>1. q \in Seq(Pod)
        BY DEF ClusterType
    <2> QED BY <2>1, LenProperties, ElementOfSeq
<1>1. v = g[1..n]
    BY <1>0 DEF Requeued, FoldLeft, MapThenFoldSet
<1>2. ASSUME NEW w \in C, NEW p \in Pod
      PROVE  /\ Back(w, p) \in C /\ w.in_queue \subseteq Back(w, p).in_queue
             /\ Is(c, p, "Pending") => p \in Back(w, p).in_queue
    <2>1. WaitOk(w)
        OBVIOUS
    <2>2. CASE Is(c, p, "Pending")
        <3>1. WaitOk(AddWaiting(w, p)) /\ AddWaiting(w, p).in_queue = w.in_queue \cup {p}
            BY <2>1, AddWaitingOk
        <3> QED BY <2>2, <3>1 DEF WaitOk
    <2> QED BY <2>2
<1>3. wait \in C
    BY DEF WaitOk
<1>3x. \A w \in C, p \in Pod : Back(w, p) \in C
    BY <1>2
<1> HIDE DEF C, Back, n, q
<1>4. step \in [1..n -> [C -> C]]
    BY <1>0, <1>3x
<1>5. \A t \in SUBSET (1..n) : t # {} => Max(t) \in t
    BY <1>0, MaxOf
<1>6. \E h : Eqn(h)
    <2> HIDE DEF step
    <2>1. PICK h : Solves(h, n, C, step, wait)
        BY <1>0, <1>3, <1>4, FoldSolved
    <2>2. \A t \in SUBSET (1..n) :
              h[t] = IF t = {} THEN wait ELSE Back(h[t \ {Max(t)}], q[Max(t)])
        BY <1>5, <2>1 DEF Solves, step
    <2>3. Eqn(h)
        BY <2>1, <2>2 DEF Solves
    <2> QED BY <2>3
<1>7. Eqn(g)
    BY <1>6
<1> HIDE DEF g
<1>8. Tracks(g, n, C, step, wait)
    BY <1>5, <1>7 DEF Tracks
<1>9. PICK w : Walk(w, n, C, step, wait) /\ w[n] = g[1..n]
    <2> HIDE DEF step, Eqn
    <2> QED BY <1>0, <1>3, <1>4, <1>8, FoldWalked
<1>10. /\ w \in [0..n -> C] /\ w[0] = wait
       /\ \A i \in 1..n : w[i] = Back(w[i - 1], q[i])
    <2>1. w \in [0..n -> C] /\ w[0] = wait /\ \A i \in 1..n : w[i] = step[i][w[i - 1]]
        BY <1>9 DEF Walk
    <2>2. \A i \in 1..n : w[i - 1] \in C
        BY <1>0, <2>1
    <2> QED BY <2>1, <2>2
<1> DEFINE P == {i \in 0..n : /\ wait.in_queue \subseteq w[i].in_queue
                              /\ \A j \in 1..i : Is(c, q[j], "Pending") => q[j] \in w[i].in_queue}
<1> HIDE DEF Eqn, step
<1>11. 0 \in P
    BY <1>0, <1>10
<1>12. ASSUME NEW i \in 1..n, i - 1 \in P PROVE i \in P
    <2>1. w[i - 1] \in C /\ w[i] = Back(w[i - 1], q[i]) /\ q[i] \in Pod
        BY <1>0, <1>10
    <2>2. /\ w[i - 1].in_queue \subseteq w[i].in_queue
          /\ Is(c, q[i], "Pending") => q[i] \in w[i].in_queue
        BY <1>2, <2>1
    <2>3. \A j \in 1..i : j \in 1..(i - 1) \/ j = i
        OBVIOUS
    <2> QED BY <1>0, <1>12, <2>2, <2>3
<1>13. n \in P
    <2> HIDE DEF P
    <2> QED BY <1>0, <1>11, <1>12, WalkInduction
<1>14. w[n] \in C
    BY <1>0, <1>10
<1> QED BY <1>1, <1>9, <1>13, <1>14 DEF C, QueueSet, n, q

-----------------------------------------------------------------------------
(***************************************************************************)
(* The budgets of the domains.                                             *)
(***************************************************************************)
HostNames == {Host(n) : n \in Node}
Quotas == [max_skew : Nat, counts : Tables(HostNames, Nat)]
Budgets == Tables(Owners \X Key, Quotas)

LEMMA NothingTabled == ASSUME NEW K, NEW V PROVE <<>> \in Tables(K, V)
<1>1. <<>> \in [{} -> V]
    OBVIOUS
<1>2. {} \in SUBSET K
    OBVIOUS
<1> QED BY <1>1, <1>2 DEF Tables

LEMMA QuotaFields ==
    ASSUME NEW x \in Nat, NEW t \in Tables(HostNames, Nat)
    PROVE  [max_skew |-> x, counts |-> t] \in Quotas
BY DEF Quotas

LEMMA CountOfNat ==
    ASSUME NEW t \in Tables(HostNames, Nat), NEW d
    PROVE  CountOf(t, d) \in Nat
<1>1. t \in [DOMAIN t -> Nat]
    BY TableMember
<1> QED BY <1>1 DEF CountOf

\* init_domains
LEMMA RegisteredTyped ==
    ASSUME NEW b \in Budgets, NEW p \in Pod
    PROVE  Registered(b, p) \in Budgets
<1> DEFINE S == {<<Owner[p], Spread[p][i].key>> : i \in HardSpread(p)}
           At(k) == {i \in HardSpread(p) : Spread[p][i].key = k[2]}
           f == [k \in S |-> [max_skew |-> Spread[p][Min(At(k))].max_skew, counts |-> <<>>]]
           T == {<<Owner[p], "host">> : i \in OwnTerms(p)}
           g == [k \in T |-> [max_skew |-> 1, counts |-> <<>>]]
<1>1. /\ Owner[p] \in Owners /\ "host" \in Key
      /\ \A i \in HardSpread(p) : i \in Nat /\ Spread[p][i].key \in Key
           /\ Spread[p][i].max_skew \in Nat
    <2>1. DOMAIN Spread[p] \subseteq Nat
        <3>1. Spread[p] \in Seq(Range(Spread[p]))
            BY StrategiesAssumption
        <3> QED BY <3>1, LenProperties
    <2> QED BY <2>1, StrategiesAssumption DEF Owners, HardSpread
<1>2. S \in SUBSET (Owners \X Key) /\ T \in SUBSET (Owners \X Key)
    BY <1>1
<1>3. \A k \in S : Spread[p][Min(At(k))].max_skew \in Nat
    <2> SUFFICES ASSUME NEW k \in S PROVE Min(At(k)) \in HardSpread(p)
        BY <1>1
    <2>1. At(k) # {} /\ At(k) \in SUBSET Nat /\ At(k) \subseteq HardSpread(p)
        BY <1>1
    <2> HIDE DEF At
    <2> QED BY <2>1, MinNat
<1>4. f \in [S -> Quotas]
    <2> HIDE DEF At
    <2>1. \A k \in S : [max_skew |-> Spread[p][Min(At(k))].max_skew, counts |-> <<>>] \in Quotas
        BY <1>3, NothingTabled, QuotaFields
    <2> HIDE DEF S
    <2> QED BY <2>1
<1>5. g \in [T -> Quotas]
    <2>1. [max_skew |-> 1, counts |-> <<>>] \in Quotas
        BY NothingTabled, QuotaFields
    <2> HIDE DEF T
    <2> QED BY <2>1
<1>6. Registered(b, p) = WithNew(WithNew(b, f), g)
    BY DEF Registered
<1> HIDE DEF f, g, S, T
<1>7. WithNew(b, f) \in Budgets
    BY <1>2, <1>4, TableExtended DEF Budgets
<1>8. WithNew(WithNew(b, f), g) \in Budgets
    BY <1>2, <1>5, <1>7, TableExtended DEF Budgets
<1> QED BY <1>6, <1>8

\* A quota under a key.
LEMMA QuotaParts ==
    ASSUME NEW b \in Budgets, NEW k \in DOMAIN b
    PROVE  /\ b[k] \in Quotas /\ b[k].max_skew \in Nat /\ b[k].counts \in Tables(HostNames, Nat)
           /\ b[k] = [max_skew |-> b[k].max_skew, counts |-> b[k].counts]
<1>1. b[k] \in Quotas
    BY TableMember DEF Budgets
<1> QED BY <1>1 DEF Quotas

\* A list has finitely many places.
LEMMA ListFinite ==
    ASSUME NEW S, NEW s \in Seq(S)
    PROVE  IsFiniteSet(DOMAIN s)
<1>1. PICK m \in Nat : DOMAIN s = 1..m
    BY LenProperties
<1>2. IsFiniteSet(1..m)
    BY FS_Interval
<1> QED BY <1>1, <1>2

\* record_placement
LEMMA RecordedTyped ==
    ASSUME NEW b \in Budgets, NEW p \in Pod, NEW n \in Node
    PROVE  Recorded(b, p, Host(n)) \in Budgets
<1> DEFINE host == Host(n)
           More(k) == WithNew([d \in {host} |-> CountOf(b[k].counts, d) + Placements(p, k[2])],
                              b[k].counts)
           new == [k \in DOMAIN b |->
                      IF k[1] # Owner[p] \/ Placements(p, k[2]) = 0 THEN b[k]
                      ELSE [b[k] EXCEPT !.counts = More(k)]]
<1>1. Recorded(b, p, host) = new
    BY DEF Recorded
<1>2. \A key : Placements(p, key) \in Nat
    <2> TAKE key
    <2>1. IsFiniteSet(DOMAIN Spread[p]) /\ IsFiniteSet(DOMAIN PodAffinity[p])
        <3>1. Spread[p] \in Seq(Range(Spread[p])) /\ PodAffinity[p] \in Seq(Range(PodAffinity[p]))
            BY StrategiesAssumption
        <3> QED BY <3>1, ListFinite
    <2>2. Cardinality({i \in HardSpread(p) : Spread[p][i].key = key}) \in Nat
        BY <2>1, FS_Subset, FS_CardinalityType DEF HardSpread
    <2>3. Cardinality(HostTerms(p)) \in Nat
        BY <2>1, FS_Subset, FS_CardinalityType DEF HostTerms
    <2> QED BY <2>2, <2>3 DEF Placements
<1>3. ASSUME NEW k \in DOMAIN b PROVE new[k] \in Quotas
    <2>1. /\ b[k] \in Quotas /\ b[k].max_skew \in Nat /\ b[k].counts \in Tables(HostNames, Nat)
          /\ b[k] = [max_skew |-> b[k].max_skew, counts |-> b[k].counts]
        BY QuotaParts
    <2> DEFINE t == b[k].counts
               g == [d \in {host} |-> CountOf(t, d) + Placements(p, k[2])]
    <2>2. WithNew(g, t) \in Tables(HostNames, Nat)
        <3>1. {host} \in SUBSET HostNames
            BY DEF HostNames
        <3>2. g \in [{host} -> Nat]
            BY <1>2, <2>1, CountOfNat
        <3> HIDE DEF g, host
        <3>3. PICK T \in SUBSET HostNames : t \in [T -> Nat]
            BY <2>1 DEF Tables
        <3>4. WithNew(g, t) \in [{host} \cup T -> Nat] /\ {host} \cup T \in SUBSET HostNames
            BY <3>1, <3>2, <3>3 DEF WithNew
        <3> QED BY <3>4 DEF Tables
    <2>3. [max_skew |-> b[k].max_skew, counts |-> WithNew(g, t)] \in Quotas
        BY <2>1, <2>2, QuotaFields
    <2> HIDE DEF g
    <2>4. [b[k] EXCEPT !.counts = WithNew(g, t)] = [max_skew |-> b[k].max_skew,
            counts |-> WithNew(g, t)]
        BY <2>1
    <2> QED BY <2>1, <2>3, <2>4 DEF g
<1>4. new \in [DOMAIN b -> Quotas]
    <2> HIDE DEF More
    <2> QED BY <1>3
<1> HIDE DEF new
<1> QED BY <1>1, <1>4, TableMapped DEF Budgets

\* register_domain
LEMMA DomainRegisteredTyped ==
    ASSUME NEW b \in Budgets, NEW n \in Node
    PROVE  DomainRegistered(b, Host(n)) \in Budgets
<1> DEFINE host == Host(n)
           g == [d \in {host} |-> 0]
           new == [k \in DOMAIN b |->
                      IF k[2] # "host" \/ host = UnnamedHost THEN b[k]
                      ELSE [b[k] EXCEPT !.counts = WithNew(@, g)]]
<1>1. DomainRegistered(b, host) = new
    BY DEF DomainRegistered
<1>2. g \in [{host} -> Nat] /\ {host} \in SUBSET HostNames
    BY DEF HostNames
<1> HIDE DEF g
<1>3. ASSUME NEW k \in DOMAIN b PROVE new[k] \in Quotas
    <2>1. /\ b[k] \in Quotas /\ b[k].max_skew \in Nat /\ b[k].counts \in Tables(HostNames, Nat)
          /\ b[k] = [max_skew |-> b[k].max_skew, counts |-> b[k].counts]
        BY QuotaParts
    <2>2. WithNew(b[k].counts, g) \in Tables(HostNames, Nat)
        BY <1>2, <2>1, TableExtended
    <2>3. [max_skew |-> b[k].max_skew, counts |-> WithNew(b[k].counts, g)] \in Quotas
        BY <2>1, <2>2, QuotaFields
    <2>4. [b[k] EXCEPT !.counts = WithNew(@, g)]
              = [max_skew |-> b[k].max_skew, counts |-> WithNew(b[k].counts, g)]
        BY <2>1
    <2> QED BY <2>1, <2>3, <2>4
<1>4. new \in [DOMAIN b -> Quotas]
    BY <1>3
<1> HIDE DEF new
<1> QED BY <1>1, <1>4, TableMapped DEF Budgets

-----------------------------------------------------------------------------
(***************************************************************************)
(* Filling a node from the wait queue.                                     *)
(***************************************************************************)
Fills == [w : Waits, budgets : Budgets, remaining : Nat, bind : Seq(Pod), over : BOOLEAN]

\* What the filling of node n from wait queue w0 has come to: the pods to bind are pending and wait
\* no more, they fit into what n has left, and no other pending pod stopped waiting.
Filling(c, w0, n, f) ==
    /\ f \in Fills /\ WaitOk(f.w)
    /\ NoDuplicates(f.bind)
    /\ \A p \in QueueSet(f.bind) : Is(c, p, "Pending") /\ p \notin f.w.in_queue
    /\ f.remaining + Sum(c.requests, QueueSet(f.bind)) <= Available(c, n)
    /\ \A p \in w0.in_queue : Is(c, p, "Pending") => p \in f.w.in_queue \cup QueueSet(f.bind)

LEMMA FillFields ==
    ASSUME NEW w \in Waits, NEW b \in Budgets, NEW r \in Nat, NEW q \in Seq(Pod),
             NEW over \in BOOLEAN
    PROVE  [w |-> w, budgets |-> b, remaining |-> r, bind |-> q, over |-> over] \in Fills
BY DEF Fills

LEMMA FillParts ==
    ASSUME NEW f \in Fills
    PROVE  /\ f.w \in Waits /\ f.budgets \in Budgets /\ f.remaining \in Nat
           /\ f.bind \in Seq(Pod) /\ f.over \in BOOLEAN
           /\ f = [w |-> f.w, budgets |-> f.budgets, remaining |-> f.remaining, bind |-> f.bind,
                   over |-> f.over]
BY DEF Fills

\* pop_front
LEMMA PoppedIs ==
    ASSUME NEW q \in Seq(Pod)
    PROVE  /\ Popped(q) \in Seq(Pod)
           /\ q # <<>> => /\ Head(q) = q[1] /\ q[1] \in Pod /\ Len(q) \in Nat /\ 1 \in 1..Len(q)
                          /\ Len(Popped(q)) = Len(q) - 1
                          /\ \A i \in 1..Len(q) - 1 : Popped(q)[i] = q[i + 1]
                          /\ QueueSet(q) \subseteq QueueSet(Popped(q)) \cup {q[1]}
<1>0. Len(q) \in Nat /\ \A i \in 1..Len(q) : q[i] \in Pod
    BY LenProperties, ElementOfSeq
<1>1. /\ Popped(q) \in Seq(Pod)
      /\ Len(Popped(q)) = IF 2 <= Len(q) THEN Len(q) - 2 + 1 ELSE 0
      /\ \A i \in 1..Len(q) - 2 + 1 : Popped(q)[i] = q[2 + i - 1]
    <2>1. \A i \in 2..Len(q) : q[i] \in Pod
        BY <1>0
    <2> QED BY <1>0, <2>1, SubSeqProperties DEF Popped
<1>2. ASSUME q # <<>>
      PROVE  /\ Head(q) = q[1] /\ q[1] \in Pod /\ 1 \in 1..Len(q)
             /\ Len(Popped(q)) = Len(q) - 1
             /\ \A i \in 1..Len(q) - 1 : Popped(q)[i] = q[i + 1]
    <2>1. Len(q) # 0
        BY <1>2, EmptySeq
    <2>2. Head(q) = q[1]
        BY <1>2
    <2>3. ASSUME NEW i \in 1..Len(q) - 1 PROVE Popped(q)[i] = q[i + 1]
        <3>1. i \in 1..Len(q) - 2 + 1 /\ 2 + i - 1 = i + 1
            BY <1>0
        <3> QED BY <1>1, <3>1
    <2>4. Len(Popped(q)) = Len(q) - 1
        <3>1. CASE 2 <= Len(q)
            <4>1. Len(Popped(q)) = Len(q) - 2 + 1
                BY <1>1, <3>1
            <4> QED BY <1>0, <4>1
        <3>2. CASE ~ (2 <= Len(q))
            <4>1. Len(q) = 1
                <5>1. \A k \in Nat : k # 0 /\ ~ (2 <= k) => k = 1
                    OBVIOUS
                <5> QED BY <1>0, <2>1, <3>2, <5>1
            <4>2. Len(Popped(q)) = 0
                BY <1>1, <3>2
            <4> QED BY <4>1, <4>2
        <3> QED BY <3>1, <3>2
    <2>5. 1 \in 1..Len(q)
        BY <1>0, <2>1
    <2> QED BY <1>0, <2>2, <2>3, <2>4, <2>5
<1>3. ASSUME q # <<>>, NEW x \in QueueSet(q), x # q[1] PROVE x \in QueueSet(Popped(q))
    <2>1. PICK i \in 1..Len(q) : q[i] = x
        BY <1>3 DEF QueueSet
    <2>2. i - 1 \in 1..Len(q) - 1 /\ (i - 1) + 1 = i
        BY <1>0, <1>3, <2>1
    <2>3. Popped(q)[i - 1] = x /\ i - 1 \in 1..Len(Popped(q))
        BY <1>2, <1>3, <2>1, <2>2
    <2> QED BY <1>1, <2>3 DEF QueueSet
<1> QED BY <1>0, <1>1, <1>2, <1>3

\* A pod leaves with the first entry of its owner's queue, or of the other one.
FrontGone(w, o, p) == [w EXCEPT !.constrained[o] = Popped(@), !.in_queue = @ \ {p}]
OtherGone(w, p) == [w EXCEPT !.unconstrained = Popped(@), !.in_queue = @ \ {p}]

LEMMA FrontOfOwner ==
    ASSUME NEW w, WaitOk(w), NEW o \in Owners, w.constrained[o] # <<>>,
           NEW p, p = w.constrained[o][1], NEW v, v = FrontGone(w, o, p)
    PROVE  WaitOk(v) /\ v.in_queue = w.in_queue \ {p}
<1> DEFINE q == w.constrained[o]
<1>0. /\ w.constrained \in [Owners -> Seq(Pod)] /\ w.unconstrained \in Seq(Pod)
      /\ w.in_queue \in SUBSET Pod
      /\ w = [constrained |-> w.constrained, unconstrained |-> w.unconstrained,
              in_queue |-> w.in_queue]
    BY WaitParts DEF WaitOk
<1>1. q \in Seq(Pod)
    BY <1>0
<1>2. /\ Popped(q) \in Seq(Pod) /\ Len(q) \in Nat /\ Len(Popped(q)) = Len(q) - 1
      /\ \A i \in 1..Len(q) - 1 : Popped(q)[i] = q[i + 1]
      /\ QueueSet(q) \subseteq QueueSet(Popped(q)) \cup {p}
    BY <1>1, PoppedIs
<1>3. v = [constrained |-> [w.constrained EXCEPT ![o] = Popped(q)],
           unconstrained |-> w.unconstrained, in_queue |-> w.in_queue \ {p}]
    BY <1>0 DEF FrontGone
<1>4. v \in Waits
    <2> DEFINE a == [w.constrained EXCEPT ![o] = Popped(q)]
               d == w.in_queue \ {p}
    <2>1. a \in [Owners -> Seq(Pod)]
        BY <1>0, <1>2
    <2>2. d \in SUBSET Pod
        BY <1>0
    <2>3. v = [constrained |-> a, unconstrained |-> w.unconstrained, in_queue |-> d]
        BY <1>3
    <2> HIDE DEF a, d
    <2>4. [constrained |-> a, unconstrained |-> w.unconstrained, in_queue |-> d] \in Waits
        BY <1>0, <2>1, <2>2, WaitFields
    <2> QED BY <2>3, <2>4, Zenon
<1>5. \A u \in Owners : v.constrained[u] = IF u = o THEN Popped(q) ELSE w.constrained[u]
    BY <1>0, <1>3
<1>6. v.in_queue = w.in_queue \ {p} /\ v.unconstrained = w.unconstrained
    BY <1>3
<1>7. ASSUME NEW u \in Owners, NEW i \in 1..Len(v.constrained[u])
      PROVE  Owner[v.constrained[u][i]] = u
    <2>1. CASE u = o
        <3>1. i \in 1..Len(q) - 1 /\ v.constrained[u][i] = q[i + 1] /\ i + 1 \in 1..Len(q)
            BY <1>2, <1>5, <2>1
        <3> QED BY <2>1, <3>1 DEF WaitOk
    <2>2. CASE u # o
        BY <1>5, <2>2 DEF WaitOk
    <2> QED BY <2>1, <2>2
<1>8. ASSUME NEW x \in v.in_queue PROVE x \in QueueSet(EntriesOf(v, x))
    <2>1. x \in w.in_queue /\ x # p /\ x \in Pod
        BY <1>0, <1>6
    <2>2. x \in QueueSet(EntriesOf(w, x)) /\ Owner[x] \in Owners
        BY <2>1 DEF WaitOk, Owners
    <2>3. CASE Constrained(x) /\ Owner[x] = o
        BY <1>2, <1>5, <2>1, <2>2, <2>3 DEF EntriesOf
    <2>4. CASE ~ (Constrained(x) /\ Owner[x] = o)
        BY <1>5, <1>6, <2>2, <2>4 DEF EntriesOf
    <2> QED BY <2>3, <2>4
<1> QED BY <1>4, <1>6, <1>7, <1>8 DEF WaitOk

LEMMA FrontOfOthers ==
    ASSUME NEW w, WaitOk(w), w.unconstrained # <<>>, NEW p, p = w.unconstrained[1],
           NEW v, v = OtherGone(w, p)
    PROVE  WaitOk(v) /\ v.in_queue = w.in_queue \ {p} /\ v.unconstrained = Popped(w.unconstrained)
<1> DEFINE q == w.unconstrained
<1>0. /\ w.constrained \in [Owners -> Seq(Pod)] /\ q \in Seq(Pod) /\ w.in_queue \in SUBSET Pod
      /\ w = [constrained |-> w.constrained, unconstrained |-> w.unconstrained,
              in_queue |-> w.in_queue]
    BY WaitParts DEF WaitOk
<1>1. Popped(q) \in Seq(Pod) /\ QueueSet(q) \subseteq QueueSet(Popped(q)) \cup {p}
    BY <1>0, PoppedIs
<1>2. v = [constrained |-> w.constrained, unconstrained |-> Popped(q),
        in_queue |-> w.in_queue \ {p}]
    BY <1>0 DEF OtherGone
<1>3. v \in Waits
    <2> DEFINE r == Popped(q)
               d == w.in_queue \ {p}
    <2>1. r \in Seq(Pod) /\ d \in SUBSET Pod
        BY <1>0, <1>1
    <2>2. v = [constrained |-> w.constrained, unconstrained |-> r, in_queue |-> d]
        BY <1>2
    <2> HIDE DEF r, d
    <2>3. [constrained |-> w.constrained, unconstrained |-> r, in_queue |-> d] \in Waits
        BY <1>0, <2>1, WaitFields
    <2> QED BY <2>2, <2>3, Zenon
<1>4. /\ v.in_queue = w.in_queue \ {p} /\ v.unconstrained = Popped(q)
      /\ v.constrained = w.constrained
    BY <1>2
<1>5. \A x \in v.in_queue : x \in QueueSet(EntriesOf(v, x))
    BY <1>1, <1>4 DEF WaitOk, EntriesOf
<1>6. \A u \in Owners : \A i \in 1..Len(v.constrained[u]) : Owner[v.constrained[u][i]] = u
    BY <1>4 DEF WaitOk
<1> QED BY <1>3, <1>4, <1>5, <1>6 DEF WaitOk

\* The stale entries before the first fresh one go, and no pod that waits and pends with them.
LEMMA StaleGone ==
    ASSUME NEW c, NEW w, WaitOk(w), NEW o \in Owners, NEW v, v = WithoutStale(c, w, o)
    PROVE  /\ WaitOk(v) /\ v.in_queue \subseteq w.in_queue
           /\ \A p \in w.in_queue : Is(c, p, "Pending") => p \in v.in_queue
           /\ v.constrained[o] \in Seq(Pod)
           /\ v.constrained[o] # <<>> =>
                 v.constrained[o][1] \in Pod /\ Fresh(c, v, v.constrained[o][1])
<1> DEFINE q == w.constrained[o]
           n == Len(q)
           S == {i \in DOMAIN q : Fresh(c, w, q[i])} \cup {n + 1}
           first == Min(S)
           r == SubSeq(q, first, n)
           stale == {q[i] : i \in 1..first - 1}
<1>0. /\ w.constrained \in [Owners -> Seq(Pod)] /\ w.unconstrained \in Seq(Pod)
      /\ w.in_queue \in SUBSET Pod
      /\ w = [constrained |-> w.constrained, unconstrained |-> w.unconstrained,
              in_queue |-> w.in_queue]
    BY WaitParts DEF WaitOk
<1>1. q \in Seq(Pod) /\ n \in Nat /\ DOMAIN q = 1..n /\ \A i \in 1..n : q[i] \in Pod
    <2>1. q \in Seq(Pod)
        BY <1>0
    <2> QED BY <2>1, LenProperties, ElementOfSeq
<1>2. /\ first \in 1..n + 1 /\ \A i \in 1..first - 1 : ~ Fresh(c, w, q[i])
      /\ first # n + 1 => Fresh(c, w, q[first])
    <2>1. S \in SUBSET Nat /\ S # {} /\ S \subseteq 1..n + 1
        BY <1>1
    <2>2. first \in S /\ \A y \in S : first <= y
        <3> HIDE DEF S
        <3> QED BY <2>1, MinNat
    <2>3. first \in 1..n + 1
        BY <2>1, <2>2
    <2>4. ASSUME NEW i \in 1..first - 1 PROVE ~ Fresh(c, w, q[i])
        <3>1. i \in 1..n /\ ~ (first <= i)
            BY <1>1, <2>3
        <3>2. i \notin S
            BY <2>2, <3>1
        <3> QED BY <1>1, <3>1, <3>2
    <2> QED BY <2>2, <2>3, <2>4
<1>3. v = [constrained |-> [w.constrained EXCEPT ![o] = r],
           unconstrained |-> w.unconstrained, in_queue |-> w.in_queue \ stale]
    BY <1>0 DEF WithoutStale
<1> HIDE DEF first
<1>4. /\ r \in Seq(Pod) /\ Len(r) = n + 1 - first
      /\ \A i \in 1..n + 1 - first : r[i] = q[first + i - 1] /\ first + i - 1 \in 1..n
    <2>1. first \in Int /\ n \in Int /\ \A i \in first..n : q[i] \in Pod
        BY <1>1, <1>2
    <2>2. /\ r \in Seq(Pod)
          /\ Len(r) = IF first <= n THEN n - first + 1 ELSE 0
          /\ \A i \in 1..n - first + 1 : r[i] = q[first + i - 1]
        BY <2>1, SubSeqProperties
    <2>3. n + 1 - first = n - first + 1 /\ Len(r) = n + 1 - first
        BY <1>1, <1>2, <2>2
    <2>4. \A i \in 1..n + 1 - first : first + i - 1 \in 1..n
        BY <1>1, <1>2
    <2> QED BY <2>2, <2>3, <2>4
<1> HIDE DEF r
<1>5. v \in Waits
    <2>1. [w.constrained EXCEPT ![o] = r] \in [Owners -> Seq(Pod)]
        BY <1>0, <1>4
    <2>2. w.unconstrained \in Seq(Pod) /\ w.in_queue \ stale \in SUBSET Pod
        BY <1>0
    <2> QED BY <1>3, <2>1, <2>2, WaitFields
<1>6. \A u \in Owners : v.constrained[u] = IF u = o THEN r ELSE w.constrained[u]
    BY <1>0, <1>3
<1>7. v.in_queue = w.in_queue \ stale /\ v.unconstrained = w.unconstrained
    BY <1>3
<1>8. ASSUME NEW u \in Owners, NEW i \in 1..Len(v.constrained[u])
      PROVE  Owner[v.constrained[u][i]] = u
    <2>1. CASE u = o
        <3>1. i \in 1..n + 1 - first /\ v.constrained[u][i] = r[i]
            BY <1>4, <1>6, <2>1
        <3>2. r[i] = q[first + i - 1] /\ first + i - 1 \in 1..n
            BY <1>4, <3>1
        <3> QED BY <2>1, <3>1, <3>2 DEF WaitOk
    <2>2. CASE u # o
        BY <1>6, <2>2 DEF WaitOk
    <2> QED BY <2>1, <2>2
<1>9. ASSUME NEW x \in v.in_queue PROVE x \in QueueSet(EntriesOf(v, x))
    <2>1. x \in w.in_queue /\ x \notin stale /\ x \in Pod
        BY <1>0, <1>7
    <2>2. x \in QueueSet(EntriesOf(w, x)) /\ Owner[x] \in Owners
        BY <2>1 DEF WaitOk, Owners
    <2>3. CASE Constrained(x) /\ Owner[x] = o
        <3>1. PICK i \in 1..n : q[i] = x
            BY <1>1, <2>2, <2>3 DEF EntriesOf, QueueSet
        <3>2. i \notin 1..first - 1
            BY <2>1, <3>1
        <3>3. i + 1 - first \in 1..n + 1 - first /\ first + (i + 1 - first) - 1 = i
            BY <1>1, <1>2, <3>1, <3>2
        <3>4. r[i + 1 - first] = x /\ i + 1 - first \in 1..Len(r)
            BY <1>4, <3>1, <3>3
        <3>5. x \in QueueSet(r)
            BY <3>4 DEF QueueSet
        <3> QED BY <1>6, <2>2, <2>3, <3>5 DEF EntriesOf
    <2>4. CASE ~ (Constrained(x) /\ Owner[x] = o)
        BY <1>6, <1>7, <2>2, <2>4 DEF EntriesOf
    <2> QED BY <2>3, <2>4
<1>10. \A p \in w.in_queue : Is(c, p, "Pending") => p \in v.in_queue
    BY <1>2, <1>7 DEF Fresh
<1>11. ASSUME v.constrained[o] # <<>>
       PROVE  v.constrained[o][1] \in Pod /\ Fresh(c, v, v.constrained[o][1])
    <2>1. v.constrained[o] = r /\ Len(r) # 0
        BY <1>4, <1>6, <1>11, EmptySeq
    <2>2. 1 \in 1..n + 1 - first /\ first + 1 - 1 = first
        BY <1>1, <1>2, <1>4, <2>1
    <2>3. r[1] = q[first] /\ first \in 1..n /\ first # n + 1
        BY <1>1, <1>2, <1>4, <2>2
    <2>4. Fresh(c, w, q[first]) /\ q[first] \in Pod
        BY <1>1, <1>2, <2>3
    <2> QED BY <1>10, <2>1, <2>3, <2>4 DEF Fresh
<1>12. v.constrained[o] \in Seq(Pod)
    BY <1>4, <1>6
<1> QED BY <1>5, <1>7, <1>8, <1>9, <1>10, <1>11, <1>12 DEF WaitOk

\* A pod that waits and pends is taken, if it fits into what is left.
LEMMA TakenKeeps ==
    ASSUME NEW c \in ClusterType, NEW w0, NEW n, NEW f, Filling(c, w0, n, f),
           NEW p \in Pod, Is(c, p, "Pending"), p \in f.w.in_queue, c.requests[p] <= f.remaining,
           NEW v, WaitOk(v), v.in_queue = f.w.in_queue \ {p}, NEW b \in Budgets,
           NEW g, g = [w |-> v, budgets |-> b, remaining |-> SatSub(f.remaining, c.requests[p]),
                       bind |-> Append(f.bind, p), over |-> f.over]
    PROVE  Filling(c, w0, n, g)
<1>1. /\ f.remaining \in Nat /\ f.bind \in Seq(Pod) /\ f.over \in BOOLEAN
      /\ f.w.in_queue \in SUBSET Pod
    BY FillParts, WaitParts DEF Filling, WaitOk
<1> DEFINE r == SatSub(f.remaining, c.requests[p])
           s == Append(f.bind, p)
           Q == QueueSet(f.bind)
<1>2. \A x \in Pod : c.requests[x] \in Nat
    BY DEF ClusterType
<1>3. r \in Nat /\ r + c.requests[p] = f.remaining
    BY <1>1, <1>2 DEF SatSub
<1>4. p \notin Q
    BY DEF Filling
<1>5. s \in Seq(Pod) /\ QueueSet(s) = Q \cup {p} /\ NoDuplicates(s)
    BY <1>1, <1>4, AppendQueue DEF Filling
<1> HIDE DEF r, s
<1>6. g = [w |-> v, budgets |-> b, remaining |-> r, bind |-> s, over |-> f.over]
    BY DEF r, s
<1>7. g \in Fills
    <2>1. v \in Waits
        BY DEF WaitOk
    <2>2. [w |-> v, budgets |-> b, remaining |-> r, bind |-> s, over |-> f.over] \in Fills
        BY <1>1, <1>3, <1>5, <2>1, FillFields
    <2> QED BY <1>6, <2>2, Zenon
<1>8. g.w = v /\ g.remaining = r /\ g.bind = s
    BY <1>6
<1>9. \A x \in QueueSet(s) : Is(c, x, "Pending") /\ x \notin v.in_queue
    BY <1>5 DEF Filling
<1>10. r + Sum(c.requests, QueueSet(s)) <= Available(c, n)
    <2>1. Q \in SUBSET Pod
        <3>1. \A i \in 1..Len(f.bind) : f.bind[i] \in Pod
            BY <1>1, ElementOfSeq
        <3> QED BY <3>1 DEF QueueSet
    <2>2. IsFiniteSet(Q) /\ IsFiniteSet(Pod)
        BY <2>1, FS_Subset, StrategiesAssumption
    <2> HIDE DEF Q
    <2>3. Sum(c.requests, Q \cup {p}) = Sum(c.requests, Q) + c.requests[p]
        BY <1>2, <1>4, <2>1, <2>2, SumAdd
    <2>4. Sum(c.requests, Q) \in Nat
        BY <1>2, <2>1, <2>2, SumNat
    <2>5. f.remaining + Sum(c.requests, Q) <= Available(c, n)
        BY DEF Filling, Q
    <2>6. r + Sum(c.requests, Q \cup {p}) = f.remaining + Sum(c.requests, Q)
        BY <1>1, <1>2, <1>3, <2>3, <2>4
    <2>7. QueueSet(s) = Q \cup {p}
        BY <1>5 DEF Q
    <2> QED BY <2>5, <2>6, <2>7
<1>11. \A x \in w0.in_queue : Is(c, x, "Pending") => x \in v.in_queue \cup QueueSet(s)
    BY <1>5 DEF Filling
<1> QED BY <1>5, <1>7, <1>8, <1>9, <1>10, <1>11 DEF Filling

\* Entries go that are of no pending pod.
LEMMA DroppedKeeps ==
    ASSUME NEW c \in ClusterType, NEW w0, NEW n, NEW f, Filling(c, w0, n, f),
           NEW v, WaitOk(v), v.in_queue \subseteq f.w.in_queue,
           \A p \in f.w.in_queue : Is(c, p, "Pending") => p \in v.in_queue,
           NEW over \in BOOLEAN,
           NEW g, g = [w |-> v, budgets |-> f.budgets, remaining |-> f.remaining, bind |-> f.bind,
                       over |-> over]
    PROVE  Filling(c, w0, n, g)
<1>1. /\ f.remaining \in Nat /\ f.bind \in Seq(Pod) /\ f.budgets \in Budgets
    BY FillParts DEF Filling
<1>2. g \in Fills
    BY <1>1, FillFields DEF WaitOk
<1>3. g.w = v /\ g.remaining = f.remaining /\ g.bind = f.bind
    OBVIOUS
<1> QED BY <1>2, <1>3 DEF Filling

\* One owner's turn.
LEMMA FillFromOwnerKeeps ==
    ASSUME NEW c \in ClusterType, NEW w0, NEW n \in Node, NEW f, Filling(c, w0, n, f),
           NEW o \in Owners, NEW g, g = FillFromOwner(c, Host(n), f, o)
    PROVE  Filling(c, w0, n, g)
<1>1. /\ f.w \in Waits /\ f.budgets \in Budgets /\ f.remaining \in Nat
      /\ f.bind \in Seq(Pod) /\ f.over \in BOOLEAN
      /\ f = [w |-> f.w, budgets |-> f.budgets, remaining |-> f.remaining, bind |-> f.bind,
              over |-> f.over]
    BY FillParts DEF Filling
<1> DEFINE w == WithoutStale(c, f.w, o)
           h == [f EXCEPT !.w = w]
           q == w.constrained[o]
           p == Head(q)
<1>2. /\ WaitOk(w) /\ w.in_queue \subseteq f.w.in_queue
      /\ \A x \in f.w.in_queue : Is(c, x, "Pending") => x \in w.in_queue
      /\ q \in Seq(Pod)
      /\ q # <<>> => q[1] \in Pod /\ Fresh(c, w, q[1])
    <2> DEFINE old == f.w
    <2>1. WaitOk(old) /\ w = WithoutStale(c, old, o)
        BY DEF Filling
    <2> HIDE DEF w, old
    <2>2. WaitOk(w) /\ w.in_queue \subseteq old.in_queue
        BY <2>1, StaleGone
    <2>3. ASSUME NEW x \in old.in_queue, Is(c, x, "Pending") PROVE x \in w.in_queue
        BY <2>1, <2>3, StaleGone
    <2>4. q \in Seq(Pod)
        BY <2>1, StaleGone
    <2>5. q # <<>> => q[1] \in Pod /\ Fresh(c, w, q[1])
        BY <2>1, StaleGone
    <2> QED BY <2>2, <2>3, <2>4, <2>5 DEF old
<1> HIDE DEF w
<1>3. h = [w |-> w, budgets |-> f.budgets, remaining |-> f.remaining, bind |-> f.bind,
        over |-> f.over]
    BY <1>1
<1>4. Filling(c, w0, n, h)
    BY <1>1, <1>2, <1>3, DroppedKeeps
<1>5. CASE g = f
    BY <1>5
<1>6. CASE g = h
    BY <1>4, <1>6
<1>7. CASE q # <<>> /\ c.requests[p] <= f.remaining /\ g = Hands(h, c, p, Host(n))
    <2>1. p = q[1] /\ p \in Pod /\ Owner[p] = o /\ p \in w.in_queue /\ Is(c, p, "Pending")
        <3>1. p = q[1] /\ 1 \in 1..Len(q)
            BY <1>2, <1>7, PoppedIs
        <3>2. Owner[q[1]] = o
            BY <1>2, <3>1 DEF WaitOk
        <3> QED BY <1>2, <1>7, <3>1, <3>2 DEF Fresh
    <2> DEFINE v == FrontGone(w, o, p)
               b == Recorded(f.budgets, p, Host(n))
    <2>2. WaitOk(v) /\ v.in_queue = w.in_queue \ {p}
        <3>1. w.constrained[o] # <<>> /\ p = w.constrained[o][1]
            BY <1>7, <2>1
        <3>2. v = FrontGone(w, o, p)
            OBVIOUS
        <3> HIDE DEF v, p, q
        <3> QED BY <1>2, <3>1, <3>2, FrontOfOwner
    <2>3. b \in Budgets
        BY <1>1, <2>1, RecordedTyped
    <2> HIDE DEF p, h
    <2>4. g = [h EXCEPT !.w.constrained[o] = Popped(@), !.w.in_queue = @ \ {p},
                        !.budgets = Recorded(@, p, Host(n)),
                        !.remaining = SatSub(@, c.requests[p]), !.bind = Append(@, p)]
        BY <1>7, <2>1 DEF Hands
    <2>5. g = [w |-> v, budgets |-> b, remaining |-> SatSub(f.remaining, c.requests[p]),
               bind |-> Append(f.bind, p), over |-> f.over]
        BY <1>3, <2>4 DEF FrontGone
    <2>6. h.w = w /\ h.remaining = f.remaining /\ h.bind = f.bind /\ h.over = f.over
        BY <1>3
    <2> HIDE DEF v, b
    <2> QED BY <1>4, <1>7, <2>1, <2>2, <2>3, <2>5, <2>6, TakenKeeps
<1>8. g = f \/ g = h \/ (q # <<>> /\ c.requests[p] <= f.remaining /\ g = Hands(h, c, p, Host(n)))
    BY <1>3 DEF FillFromOwner, w
<1> QED BY <1>5, <1>6, <1>7, <1>8

\* The queue of f loses its front, unless the filling is over.
Pops(f, g) == g.over \/ (~ f.over /\ g.w.unconstrained = Popped(f.w.unconstrained))

\* The turn of a pod without constraints: unless the filling is over, it is at the front.
LEMMA FillFreelyKeeps ==
    ASSUME NEW c \in ClusterType, NEW w0, NEW n \in Node, NEW f, Filling(c, w0, n, f),
           NEW p \in Pod, f.over \/ (f.w.unconstrained # <<>> /\ f.w.unconstrained[1] = p),
           NEW g, g = FillFreely(c, f, p)
    PROVE  Filling(c, w0, n, g) /\ Pops(f, g)
<1>1. /\ f.w \in Waits /\ f.budgets \in Budgets /\ f.remaining \in Nat
      /\ f.bind \in Seq(Pod) /\ f.over \in BOOLEAN
      /\ f = [w |-> f.w, budgets |-> f.budgets, remaining |-> f.remaining, bind |-> f.bind,
              over |-> f.over]
    BY FillParts DEF Filling
<1>2. CASE g = [f EXCEPT !.over = TRUE]
    <2>1. g = [w |-> f.w, budgets |-> f.budgets, remaining |-> f.remaining, bind |-> f.bind,
               over |-> TRUE]
        BY <1>1, <1>2
    <2>2. Filling(c, w0, n, g)
        BY <1>1, <2>1, DroppedKeeps DEF Filling
    <2>3. Pops(f, g)
        BY <2>1 DEF Pops
    <2> QED BY <2>2, <2>3
<1> DEFINE v == OtherGone(f.w, p)
<1>3. ASSUME ~ f.over
      PROVE  WaitOk(v) /\ v.in_queue = f.w.in_queue \ {p}
               /\ v.unconstrained = Popped(f.w.unconstrained)
    <2>1. WaitOk(f.w) /\ f.w.unconstrained # <<>> /\ p = f.w.unconstrained[1]
        BY <1>3 DEF Filling
    <2>2. v = OtherGone(f.w, p)
        OBVIOUS
    <2> HIDE DEF v
    <2> QED BY <2>1, <2>2, FrontOfOthers
<1>4. CASE /\ ~ f.over /\ ~ Fresh(c, f.w, p)
           /\ g = [f EXCEPT !.w.unconstrained = Popped(@), !.w.in_queue = @ \ {p}]
    <2>1. g = [w |-> v, budgets |-> f.budgets, remaining |-> f.remaining, bind |-> f.bind,
               over |-> f.over]
        BY <1>1, <1>4 DEF OtherGone
    <2>2. v.in_queue \subseteq f.w.in_queue /\ \A x \in f.w.in_queue : Is(c, x, "Pending")
            => x \in v.in_queue
        BY <1>3, <1>4 DEF Fresh
    <2> HIDE DEF v
    <2>3. Filling(c, w0, n, g)
        <3>1. f.over \in BOOLEAN /\ WaitOk(v)
            BY <1>1, <1>3, <1>4
        <3> QED BY <2>1, <2>2, <3>1, DroppedKeeps
    <2>4. g.w = v
        BY <2>1
    <2>5. Pops(f, g)
        BY <1>3, <1>4, <2>4 DEF Pops
    <2> QED BY <2>3, <2>5
<1>5. CASE /\ ~ f.over /\ Fresh(c, f.w, p) /\ c.requests[p] <= f.remaining
           /\ g = [f EXCEPT !.w.unconstrained = Popped(@), !.w.in_queue = @ \ {p}, !.bind
                = Append(@, p),
                            !.remaining = SatSub(@, c.requests[p])]
    <2>1. g = [w |-> v, budgets |-> f.budgets, remaining |-> SatSub(f.remaining, c.requests[p]),
               bind |-> Append(f.bind, p), over |-> f.over]
        BY <1>1, <1>5 DEF OtherGone
    <2>2. Is(c, p, "Pending") /\ p \in f.w.in_queue
        BY <1>5 DEF Fresh
    <2> HIDE DEF v
    <2>3. Filling(c, w0, n, g)
        <3>1. WaitOk(v) /\ v.in_queue = f.w.in_queue \ {p} /\ c.requests[p] <= f.remaining
            BY <1>3, <1>5
        <3> QED BY <1>1, <2>1, <2>2, <3>1, TakenKeeps
    <2>4. g.w = v
        BY <2>1
    <2>5. Pops(f, g)
        BY <1>3, <1>5, <2>4 DEF Pops
    <2> QED BY <2>3, <2>5
<1> QED BY <1>2, <1>4, <1>5 DEF FillFreely

\* The owners' turns, in any order.
LEMMA OwnersKeep ==
    ASSUME NEW c \in ClusterType, NEW w0, NEW n \in Node, NEW f, Filling(c, w0, n, f),
           NEW s \in Seq(Owners),
           NEW r, r = FoldLeft(LAMBDA g, o : FillFromOwner(c, Host(n), g, o), f, s)
    PROVE  Filling(c, w0, n, r)
<1> DEFINE k == Len(s)
           C == {g \in Fills : Filling(c, w0, n, g)}
           Turn(g, o) == FillFromOwner(c, Host(n), g, o)
           Eqn(g) == g = [t \in SUBSET (1..k) |->
                             IF t = {} THEN f ELSE Turn(g[t \ {Max(t)}], s[Max(t)])]
           g == CHOOSE h : Eqn(h)
           step == [i \in 1..k |-> [x \in C |-> Turn(x, s[i])]]
<1>0. k \in Nat /\ DOMAIN s = 1..k /\ \A i \in 1..k : s[i] \in Owners
    BY LenProperties, ElementOfSeq
<1>1. r = g[1..k]
    BY <1>0 DEF FoldLeft, MapThenFoldSet
<1>2. \A x \in C, o \in Owners : Turn(x, o) \in C
    BY FillFromOwnerKeeps DEF Filling
<1>3. f \in C
    BY DEF Filling
<1> HIDE DEF C, Turn, k
<1>4. step \in [1..k -> [C -> C]]
    BY <1>0, <1>2
<1>5. \A t \in SUBSET (1..k) : t # {} => Max(t) \in t
    BY <1>0, MaxOf
<1>6. \E h : Eqn(h)
    <2> HIDE DEF step
    <2>1. PICK h : Solves(h, k, C, step, f)
        BY <1>0, <1>3, <1>4, FoldSolved
    <2>2. \A t \in SUBSET (1..k) :
              h[t] = IF t = {} THEN f ELSE Turn(h[t \ {Max(t)}], s[Max(t)])
        BY <1>5, <2>1 DEF Solves, step
    <2>3. Eqn(h)
        BY <2>1, <2>2 DEF Solves
    <2> QED BY <2>3
<1>7. Eqn(g)
    BY <1>6
<1> HIDE DEF g
<1>8. Tracks(g, k, C, step, f)
    BY <1>5, <1>7 DEF Tracks
<1>9. g[1..k] \in C
    <2> HIDE DEF step, Eqn
    <2> QED BY <1>0, <1>3, <1>4, <1>8, FoldTyped
<1> QED BY <1>1, <1>9 DEF C

\* What is popped leaves a wait queue.
LEMMA OtherGoneTyped ==
    ASSUME NEW w \in Waits, NEW p, NEW v, v = OtherGone(w, p)
    PROVE  v \in Waits
<1> DEFINE q == Popped(w.unconstrained)
           d == w.in_queue \ {p}
           a == w.constrained
<1>1. /\ w.constrained \in [Owners -> Seq(Pod)] /\ w.unconstrained \in Seq(Pod)
      /\ w.in_queue \in SUBSET Pod
      /\ w = [constrained |-> w.constrained, unconstrained |-> w.unconstrained,
              in_queue |-> w.in_queue]
    BY WaitParts
<1>2. q \in Seq(Pod) /\ d \in SUBSET Pod /\ a \in [Owners -> Seq(Pod)]
    BY <1>1, PoppedIs
<1>3. v = [constrained |-> a, unconstrained |-> q, in_queue |-> d]
    BY <1>1 DEF OtherGone
<1> HIDE DEF q, d, a
<1>4. [constrained |-> a, unconstrained |-> q, in_queue |-> d] \in Waits
    BY <1>2, WaitFields
<1> QED BY <1>3, <1>4, Zenon

\* A turn of any pod keeps the types.
LEMMA FillFreelyTyped ==
    ASSUME NEW c \in ClusterType, NEW f \in Fills, NEW p \in Pod
    PROVE  FillFreely(c, f, p) \in Fills
<1> DEFINE g == FillFreely(c, f, p)
           v == OtherGone(f.w, p)
           r == SatSub(f.remaining, c.requests[p])
<1>1. /\ f.w \in Waits /\ f.budgets \in Budgets /\ f.remaining \in Nat
      /\ f.bind \in Seq(Pod) /\ f.over \in BOOLEAN
      /\ f = [w |-> f.w, budgets |-> f.budgets, remaining |-> f.remaining, bind |-> f.bind,
              over |-> f.over]
    BY FillParts
<1>2. v \in Waits
    BY <1>1, OtherGoneTyped
<1>3. r \in Nat /\ Append(f.bind, p) \in Seq(Pod)
    BY <1>1, AppendQueue DEF SatSub, ClusterType
<1>4. \/ g = [w |-> f.w, budgets |-> f.budgets, remaining |-> f.remaining, bind |-> f.bind,
           over |-> TRUE]
      \/ g = [w |-> v, budgets |-> f.budgets, remaining |-> f.remaining, bind |-> f.bind,
           over |-> f.over]
      \/ g = [w |-> v, budgets |-> f.budgets, remaining |-> r, bind |-> Append(f.bind, p),
           over |-> f.over]
    BY <1>1 DEF FillFreely, OtherGone
<1> HIDE DEF g, v, r
<1>5. \A w \in Waits, x \in Nat, q \in Seq(Pod), over \in BOOLEAN :
          [w |-> w, budgets |-> f.budgets, remaining |-> x, bind |-> q, over |-> over] \in Fills
    BY <1>1, FillFields
<1>6. g \in Fills
    BY <1>1, <1>2, <1>3, <1>4, <1>5
<1> QED BY <1>6 DEF g

\* The queue is in step with the fold after i turns.
InPlace(x, s, i) ==
    \/ x.over
    \/ /\ x.w.unconstrained \in Seq(Pod)
       /\ Len(x.w.unconstrained) = Len(s) - i
       /\ \A j \in 1..Len(s) - i : x.w.unconstrained[j] = s[i + j]

LEMMA FreelyStep ==
    ASSUME NEW c \in ClusterType, NEW w0, NEW n \in Node, NEW s \in Seq(Pod),
           NEW i \in 1..Len(s), NEW x, Filling(c, w0, n, x), InPlace(x, s, i - 1),
           NEW y, y = FillFreely(c, x, s[i])
    PROVE  Filling(c, w0, n, y) /\ InPlace(y, s, i)
<1> DEFINE k == Len(s)
           q == x.w.unconstrained
<1>0. k \in Nat /\ s[i] \in Pod
    BY LenProperties, ElementOfSeq
<1>1. ~ x.over => /\ q \in Seq(Pod) /\ Len(q) = k - (i - 1)
                  /\ \A j \in 1..k - (i - 1) : q[j] = s[i - 1 + j]
    BY DEF InPlace
<1> HIDE DEF k, q
<1>2. i \in 1..k
    BY DEF k
<1>3. \A a \in Nat : \A b \in 1..a :
          /\ a - (b - 1) = a - b + 1 /\ 1 \in 1..a - (b - 1) /\ b - 1 + 1 = b
          /\ a - (b - 1) - 1 = a - b /\ a - (b - 1) # 0
          /\ \A j \in 1..a - b : j + 1 \in 1..a - (b - 1) /\ b - 1 + (j + 1) = b + j
    OBVIOUS
<1>4. /\ k - (i - 1) = k - i + 1 /\ 1 \in 1..k - (i - 1) /\ i - 1 + 1 = i
      /\ k - (i - 1) - 1 = k - i /\ k - (i - 1) # 0
      /\ \A j \in 1..k - i : j + 1 \in 1..k - (i - 1) /\ i - 1 + (j + 1) = i + j
    BY <1>0, <1>2, <1>3
<1>5. ~ x.over => q # <<>> /\ q[1] = s[i]
    <2>1. Len(<<>>) = 0
        OBVIOUS
    <2>2. ASSUME ~ x.over PROVE q # <<>>
        BY <1>1, <1>4, <2>1, <2>2
    <2>3. ASSUME ~ x.over PROVE q[1] = s[i]
        <3>1. q[1] = s[i - 1 + 1]
            BY <1>1, <1>4, <2>3
        <3> QED BY <1>4, <3>1
    <2> QED BY <2>2, <2>3
<1>6. x.over \/ (x.w.unconstrained # <<>> /\ x.w.unconstrained[1] = s[i])
    BY <1>5 DEF q
<1>7. Filling(c, w0, n, y)
    BY <1>0, <1>6, FillFreelyKeeps
<1>8. y.over \/ (~ x.over /\ y.w.unconstrained = Popped(q))
    <2>1. Pops(x, y)
        BY <1>0, <1>6, FillFreelyKeeps
    <2> QED BY <2>1 DEF q, Pops
<1>9. ASSUME ~ y.over PROVE InPlace(y, s, i)
    <2>1. ~ x.over /\ y.w.unconstrained = Popped(q)
        BY <1>8, <1>9
    <2>2. q \in Seq(Pod) /\ q # <<>>
        BY <1>1, <1>5, <2>1
    <2>3. /\ Popped(q) \in Seq(Pod) /\ Len(Popped(q)) = Len(q) - 1
          /\ \A j \in 1..Len(q) - 1 : Popped(q)[j] = q[j + 1]
        BY <2>2, PoppedIs
    <2>4. Len(q) - 1 = k - i
        BY <1>1, <1>4, <2>1
    <2>5. ASSUME NEW j \in 1..k - i PROVE Popped(q)[j] = s[i + j]
        <3>1. Popped(q)[j] = q[j + 1]
            BY <2>3, <2>4
        <3>2. q[j + 1] = s[i - 1 + (j + 1)]
            BY <1>1, <1>4, <2>1
        <3> QED BY <1>4, <3>1, <3>2
    <2> QED BY <2>1, <2>3, <2>4, <2>5 DEF InPlace, k
<1>10. y.over => InPlace(y, s, i)
    BY DEF InPlace
<1> QED BY <1>7, <1>9, <1>10

\* The turns of the pods without constraints: the fold goes along a copy of the queue, and the
\* queue loses its front at every turn until the filling is over.
LEMMA FreelyWalk ==
    ASSUME NEW c \in ClusterType, NEW w0, NEW n \in Node, NEW s \in Seq(Pod),
           NEW w, Filling(c, w0, n, w[0]), w[0].w.unconstrained = s,
           \A i \in 1..Len(s) : w[i] = FillFreely(c, w[i - 1], s[i])
    PROVE  Filling(c, w0, n, w[Len(s)])
<1> DEFINE k == Len(s)
           P == {i \in 0..k : Filling(c, w0, n, w[i]) /\ InPlace(w[i], s, i)}
<1>0. k \in Nat
    BY LenProperties
<1>1. 0 \in P
    <2>1. \A a \in Nat : a - 0 = a /\ 0 \in 0..a /\ \A j \in 1..a : 0 + j = j
        OBVIOUS
    <2>2. k - 0 = k /\ 0 \in 0..k /\ \A j \in 1..k : 0 + j = j
        BY <1>0, <2>1
    <2>3. InPlace(w[0], s, 0)
        BY <2>2 DEF InPlace
    <2> QED BY <2>2, <2>3
<1>2. ASSUME NEW i \in 1..k, i - 1 \in P PROVE i \in P
    <2>1. Filling(c, w0, n, w[i - 1]) /\ InPlace(w[i - 1], s, i - 1)
        BY <1>2
    <2>2. w[i] = FillFreely(c, w[i - 1], s[i])
        OBVIOUS
    <2>3. Filling(c, w0, n, w[i]) /\ InPlace(w[i], s, i)
        BY <2>1, <2>2, FreelyStep
    <2>4. i \in 0..k
        BY <1>0
    <2> QED BY <2>3, <2>4
<1>3. k \in P
    <2> HIDE DEF P, k
    <2> QED BY <1>0, <1>1, <1>2, WalkInduction
<1> QED BY <1>3

LEMMA FreelyWalks ==
    ASSUME NEW c \in ClusterType, NEW f \in Fills, NEW s \in Seq(Pod)
    PROVE  \E w : /\ w[0] = f
                  /\ \A i \in 1..Len(s) : w[i] = FillFreely(c, w[i - 1], s[i])
                  /\ FoldLeft(LAMBDA g, p : FillFreely(c, g, p), f, s) = w[Len(s)]
<1> DEFINE k == Len(s)
           Eqn(g) == g = [t \in SUBSET (1..k) |->
                             IF t = {} THEN f ELSE FillFreely(c, g[t \ {Max(t)}], s[Max(t)])]
           g == CHOOSE h : Eqn(h)
           step == [i \in 1..k |-> [x \in Fills |-> FillFreely(c, x, s[i])]]
<1>0. k \in Nat /\ DOMAIN s = 1..k /\ \A i \in 1..k : s[i] \in Pod
    BY LenProperties, ElementOfSeq
<1>1. FoldLeft(LAMBDA x, p : FillFreely(c, x, p), f, s) = g[1..k]
    BY <1>0 DEF FoldLeft, MapThenFoldSet
<1>2. step \in [1..k -> [Fills -> Fills]]
    BY <1>0, FillFreelyTyped
<1>3. \A t \in SUBSET (1..k) : t # {} => Max(t) \in t
    BY <1>0, MaxOf
<1> HIDE DEF k, step
<1>4. \E h : Eqn(h)
    <2>1. PICK h : Solves(h, k, Fills, step, f)
        BY <1>0, <1>2, FoldSolved
    <2>2. \A t \in SUBSET (1..k) :
              h[t] = IF t = {} THEN f ELSE FillFreely(c, h[t \ {Max(t)}], s[Max(t)])
        BY <1>3, <2>1 DEF Solves, step
    <2>3. Eqn(h)
        BY <2>1, <2>2 DEF Solves
    <2> QED BY <2>3
<1>5. Eqn(g)
    BY <1>4
<1> HIDE DEF g
<1>6. Tracks(g, k, Fills, step, f)
    BY <1>3, <1>5 DEF Tracks, step
<1>7. PICK w : Walk(w, k, Fills, step, f) /\ w[k] = g[1..k]
    BY <1>0, <1>2, <1>6, FoldWalked
<1>8. \A i \in 1..k : w[i] = FillFreely(c, w[i - 1], s[i])
    <2> TAKE i \in 1..k
    <2>1. w[i - 1] \in Fills /\ w[i] = step[i][w[i - 1]]
        BY <1>0, <1>7 DEF Walk
    <2> QED BY <2>1 DEF step
<1> QED BY <1>0, <1>1, <1>7, <1>8 DEF Walk, k

LEMMA FreelyKeep ==
    ASSUME NEW c \in ClusterType, NEW w0, NEW n \in Node, NEW f, Filling(c, w0, n, f),
           NEW r, r = FoldLeft(LAMBDA g, p : FillFreely(c, g, p), f, f.w.unconstrained)
    PROVE  Filling(c, w0, n, r)
<1> DEFINE s == f.w.unconstrained
<1>1. s \in Seq(Pod) /\ f \in Fills
    BY FillParts, WaitParts DEF Filling
<1>2. f.w.unconstrained = s
    OBVIOUS
<1>3. r = FoldLeft(LAMBDA g, p : FillFreely(c, g, p), f, s)
    OBVIOUS
<1> HIDE DEF s
<1>4. PICK w : /\ w[0] = f
               /\ \A i \in 1..Len(s) : w[i] = FillFreely(c, w[i - 1], s[i])
               /\ FoldLeft(LAMBDA g, p : FillFreely(c, g, p), f, s) = w[Len(s)]
    BY <1>1, FreelyWalks
<1>5. Filling(c, w0, n, w[Len(s)])
    BY <1>1, <1>2, <1>4, FreelyWalk
<1> QED BY <1>3, <1>4, <1>5

\* What a node that becomes ready is filled with.
LEMMA FillNodeOutcome ==
    ASSUME NEW c \in ClusterType, NEW w0, WaitOk(w0), NEW b \in Budgets, NEW n \in Node,
           NEW f \in FillNode(c, w0, b, n)
    PROVE  Filling(c, w0, n, f) /\ (LiveNode(c, n) \/ f.bind = <<>>)
<1> DEFINE start == [w |-> w0, budgets |-> DomainRegistered(b, Host(n)),
                     remaining |-> Available(c, n), bind |-> <<>>, over |-> FALSE]
           Turns(order) == FoldLeft(LAMBDA g, o : FillFromOwner(c, Host(n), g, o), start, order)
<1>1. Filling(c, w0, n, start)
    <2>1. Available(c, n) \in Nat
        BY DEF Available, SatSub, ClusterType
    <2>2. DomainRegistered(b, Host(n)) \in Budgets
        BY DomainRegisteredTyped
    <2>3. <<>> \in Seq(Pod) /\ FALSE \in BOOLEAN /\ w0 \in Waits
        BY DEF WaitOk
    <2>4. start \in Fills
        BY <2>1, <2>2, <2>3, FillFields
    <2>5. QueueSet(<<>>) = {} /\ NoDuplicates(<<>>)
        BY DEF QueueSet, NoDuplicates
    <2>6. Sum(c.requests, {}) = 0
        BY SumEmpty
    <2>7. /\ start.w = w0 /\ start.bind = <<>> /\ start.remaining = Available(c, n)
        OBVIOUS
    <2>8. start.remaining + Sum(c.requests, QueueSet(start.bind)) <= Available(c, n)
        <3>1. Sum(c.requests, QueueSet(start.bind)) = 0
            BY <2>5, <2>6, <2>7
        <3>2. Available(c, n) + 0 <= Available(c, n)
            BY <2>1
        <3> QED BY <2>7, <3>1, <3>2
    <2> HIDE DEF start
    <2> QED BY <2>4, <2>5, <2>7, <2>8 DEF Filling
<1>2. CASE ~ LiveNode(c, n)
    <2>1. f = start
        BY <1>2 DEF FillNode
    <2>2. f.bind = <<>>
        BY <2>1
    <2> QED BY <1>1, <2>1, <2>2
<1>3. CASE LiveNode(c, n)
    <2>1. PICK order \in SetToSeqs(DOMAIN w0.constrained) :
              f = FoldLeft(LAMBDA g, p : FillFreely(c, g, p), Turns(order),
                Turns(order).w.unconstrained)
        BY <1>3 DEF FillNode
    <2>2. order \in Seq(Owners)
        <3>1. DOMAIN w0.constrained = Owners
            BY WaitParts DEF WaitOk
        <3>2. IsFiniteSet(Owners)
            <4> DEFINE image == [p \in Pod |-> Owner[p]]
            <4>1. image \in Surjection(Pod, Owners)
                BY DEF Surjection, Owners
            <4> QED BY <4>1, StrategiesAssumption, FS_Surjection
        <3> QED BY <2>1, <3>1, <3>2, OrderOf
    <2>3. Filling(c, w0, n, Turns(order))
        <3> HIDE DEF start
        <3> QED BY <1>1, <2>2, OwnersKeep
    <2> HIDE DEF Turns
    <2>4. Filling(c, w0, n, f)
        BY <2>1, <2>3, FreelyKeep
    <2> QED BY <1>3, <2>4
<1> QED BY <1>2, <1>3

-----------------------------------------------------------------------------
(***************************************************************************)
(* Binding what a node is filled with.                                     *)
(***************************************************************************)
BindAll(c, s, n) == FoldLeft(LAMBDA x, p : BindPod(x, p, n), c, s)

LEMMA BindWalk ==
    ASSUME NEW c \in ClusterType, NEW s \in Seq(Pod), NEW n \in Node
    PROVE  \E w : /\ w[0] = c
                  /\ \A i \in 1..Len(s) : w[i] = BindPod(w[i - 1], s[i], n)
                  /\ BindAll(c, s, n) = w[Len(s)]
<1> DEFINE k == Len(s)
           Eqn(g) == g = [t \in SUBSET (1..k) |->
                             IF t = {} THEN c ELSE BindPod(g[t \ {Max(t)}], s[Max(t)], n)]
           g == CHOOSE h : Eqn(h)
           step == [i \in 1..k |-> [d \in ClusterType |-> BindPod(d, s[i], n)]]
<1>0. k \in Nat /\ DOMAIN s = 1..k /\ \A i \in 1..k : s[i] \in Pod
    BY LenProperties, ElementOfSeq
<1>1. BindAll(c, s, n) = g[1..k]
    BY <1>0 DEF BindAll, FoldLeft, MapThenFoldSet
<1>2. step \in [1..k -> [ClusterType -> ClusterType]]
    BY <1>0, BindPodType
<1>3. \A t \in SUBSET (1..k) : t # {} => Max(t) \in t
    BY <1>0, MaxOf
<1> HIDE DEF k, step
<1>4. \E h : Eqn(h)
    <2>1. PICK h : Solves(h, k, ClusterType, step, c)
        BY <1>0, <1>2, FoldSolved
    <2>2. \A t \in SUBSET (1..k) :
              h[t] = IF t = {} THEN c ELSE BindPod(h[t \ {Max(t)}], s[Max(t)], n)
        BY <1>3, <2>1 DEF Solves, step
    <2>3. Eqn(h)
        BY <2>1, <2>2 DEF Solves
    <2> QED BY <2>3
<1>5. Eqn(g)
    BY <1>4
<1> HIDE DEF g
<1>6. Tracks(g, k, ClusterType, step, c)
    BY <1>3, <1>5 DEF Tracks, step
<1>7. PICK w : Walk(w, k, ClusterType, step, c) /\ w[k] = g[1..k]
    BY <1>0, <1>2, <1>6, FoldWalked
<1>8. \A i \in 1..k : w[i] = BindPod(w[i - 1], s[i], n)
    <2> TAKE i \in 1..k
    <2>1. w[i - 1] \in ClusterType /\ w[i] = step[i][w[i - 1]]
        BY <1>0, <1>7 DEF Walk
    <2> QED BY <2>1 DEF step
<1> QED BY <1>0, <1>1, <1>7, <1>8 DEF Walk, k

\* From c to d pods of S have come to node n, and nothing has gone.
BoundTo(c, d, S, n) ==
    /\ Kept(c, d) /\ SameFrame(c, d) /\ NoneSucceeds(c, d)
    /\ d.podsOn[n] \subseteq c.podsOn[n] \cup S
    /\ \A m \in Node \ {n} : d.podsOn[m] = c.podsOn[m]
    /\ \A q \in Pod \ S : d.phase[q] = c.phase[q] /\ d.node[q] = c.node[q]

LEMMA BoundChain ==
    ASSUME NEW c, NEW d, NEW e, NEW S, NEW T, NEW n, BoundTo(c, d, S, n), BoundTo(d, e, T, n)
    PROVE  BoundTo(c, e, S \cup T, n)
<1>1. Kept(c, e)
    BY KeptChain DEF BoundTo
<1>2. SameFrame(c, e) /\ NoneSucceeds(c, e)
    BY DEF BoundTo, SameFrame, NoneSucceeds
<1>3. e.podsOn[n] \subseteq c.podsOn[n] \cup (S \cup T)
    BY DEF BoundTo
<1>4. \A m \in Node \ {n} : e.podsOn[m] = c.podsOn[m]
    BY DEF BoundTo
<1>5. \A q \in Pod \ (S \cup T) : e.phase[q] = c.phase[q] /\ e.node[q] = c.node[q]
    BY DEF BoundTo
<1> QED BY <1>1, <1>2, <1>3, <1>4, <1>5 DEF BoundTo

LEMMA BindAllBound ==
    ASSUME NEW c, Sound(c), NEW s \in Seq(Pod), NEW n \in Node, NEW d, d = BindAll(c, s, n)
    PROVE  BoundTo(c, d, QueueSet(s), n)
<1> DEFINE k == Len(s)
           Upto(i) == {s[j] : j \in 1..i}
<1>0. k \in Nat /\ \A i \in 1..k : s[i] \in Pod
    BY LenProperties, ElementOfSeq
<1>1. PICK w : /\ w[0] = c
               /\ \A i \in 1..k : w[i] = BindPod(w[i - 1], s[i], n)
               /\ d = w[k]
    BY BindWalk DEF Sound
<1> DEFINE P == {i \in 0..k : BoundTo(c, w[i], Upto(i), n)}
<1>2. 0 \in P
    <2>1. BoundTo(c, c, {}, n)
        BY DEF Kept, BoundTo, SameFrame, NoneSucceeds
    <2>2. Upto(0) = {}
        OBVIOUS
    <2> HIDE DEF Upto
    <2>3. BoundTo(c, w[0], Upto(0), n)
        BY <1>1, <2>1, <2>2, Zenon
    <2> QED BY <1>0, <2>3
<1>3. ASSUME NEW i \in 1..k, i - 1 \in P PROVE i \in P
    <2>1. BoundTo(c, w[i - 1], Upto(i - 1), n)
        BY <1>3
    <2>2. Sound(w[i - 1]) /\ w[i] = BindPod(w[i - 1], s[i], n) /\ s[i] \in Pod
        BY <1>0, <1>1, <2>1 DEF BoundTo, Kept
    <2>3. BoundTo(w[i - 1], w[i], {s[i]}, n)
        <3> DEFINE x == w[i - 1]
                   y == w[i]
                   p == s[i]
        <3>1. Sound(x) /\ p \in Pod /\ y = BindPod(x, p, n)
            BY <2>2
        <3> HIDE DEF x, y, p
        <3>2. Kept(x, y)
            BY <3>1, BindPodKept
        <3>3. /\ SameFrame(x, y) /\ NoneSucceeds(x, y)
              /\ \A m \in Node : \/ y.podsOn[m] = x.podsOn[m]
                                 \/ m = n /\ y.podsOn[m] = x.podsOn[m] \cup {p}
              /\ \A q \in Pod \ {p} : y.phase[q] = x.phase[q] /\ y.node[q] = x.node[q]
            BY <3>1, BindPodEffect DEF Sound
        <3>4. BoundTo(x, y, {p}, n)
            BY <3>2, <3>3 DEF BoundTo
        <3> QED BY <3>4 DEF x, y, p
    <2>4. Upto(i) = Upto(i - 1) \cup {s[i]}
        <3>1. 1..i = (1..(i - 1)) \cup {i}
            BY <1>0
        <3> QED BY <3>1
    <2> HIDE DEF Upto
    <2>5. BoundTo(c, w[i], Upto(i - 1) \cup {s[i]}, n)
        BY <2>1, <2>3, BoundChain
    <2>6. BoundTo(c, w[i], Upto(i), n)
        BY <2>4, <2>5, Zenon
    <2>7. i \in 0..k
        BY <1>0
    <2> QED BY <2>6, <2>7
<1> HIDE DEF P, k
<1>4. k \in P
    <2>1. \A i \in 1..k : i - 1 \in P => i \in P
        BY <1>3
    <2> QED BY <1>0, <1>2, <2>1, WalkInduction
<1>5. BoundTo(c, w[k], Upto(k), n)
    BY <1>4 DEF P
<1> QED BY <1>1, <1>5 DEF QueueSet, k

\* What fits into what node n has left still fits when it is bound.
LEMMA BoundFits ==
    ASSUME NEW c, Sound(c), Fitting(c, Pod), NEW S \in SUBSET Pod, NEW n \in Node,
           Sum(c.requests, S) <= Available(c, n), NEW d, BoundTo(c, d, S, n)
    PROVE  Fitting(d, Pod)
<1>1. /\ d.nodes = c.nodes /\ d.allocatable = c.allocatable /\ d.requests = c.requests
      /\ d.podsOn[n] \subseteq c.podsOn[n] \cup S
      /\ \A m \in Node \ {n} : d.podsOn[m] = c.podsOn[m]
    BY DEF BoundTo, SameFrame
<1>2. c \in ClusterType /\ d \in ClusterType /\ IsFiniteSet(Pod)
    BY StrategiesAssumption DEF BoundTo, Kept, Sound
<1>3. \A m \in Node : c.podsOn[m] \cap Pod = c.podsOn[m] /\ d.podsOn[m] \cap Pod = d.podsOn[m]
    BY <1>2 DEF ClusterType
<1>4. ASSUME NEW m \in Node, c.nodes[m] = "live"
      PROVE  Sum(d.requests, d.podsOn[m] \cap Pod) <= d.allocatable[m]
    <2>1. Sum(c.requests, c.podsOn[m]) <= c.allocatable[m]
        BY <1>3, <1>4 DEF Fitting
    <2>2. CASE m # n
        BY <1>1, <1>3, <2>1, <2>2
    <2>3. CASE m = n
        <3> DEFINE A == c.podsOn[n]
                   B == A \cup S
                   D == d.podsOn[n]
        <3>1. /\ A \in SUBSET Pod /\ B \in SUBSET Pod /\ D \in SUBSET B /\ A \in SUBSET B
              /\ B \ A \in SUBSET S
            BY <1>1, <1>2 DEF ClusterType
        <3>2. Sum(c.requests, A) = c.allocated[n]
            BY <1>4, <2>3, AllocationIs DEF Sound, Booked
        <3>3. c.allocatable[n] \in Nat /\ c.allocated[n] \in Nat
                /\ \A x \in Pod : c.requests[x] \in Nat
            BY <1>2 DEF ClusterType
        <3>4. Sum(c.requests, A) <= c.allocatable[n]
            BY <2>1, <2>3
        <3> HIDE DEF A, B, D
        <3>5. IsFiniteSet(B) /\ IsFiniteSet(S) /\ IsFiniteSet(A) /\ IsFiniteSet(D)
                /\ IsFiniteSet(B \ A)
            BY <1>2, <3>1, FS_Subset
        <3>6. /\ \A x \in B : c.requests[x] \in Nat
              /\ \A x \in S : c.requests[x] \in Nat
              /\ \A x \in A : c.requests[x] \in Nat
              /\ \A x \in D : c.requests[x] \in Nat
              /\ \A x \in B \ A : c.requests[x] \in Nat
            BY <3>1, <3>3
        <3>7. Sum(c.requests, D) <= Sum(c.requests, B)
            BY <3>1, <3>5, <3>6, SumPart
        <3>8. Sum(c.requests, B) = Sum(c.requests, A) + Sum(c.requests, B \ A)
            BY <3>1, <3>5, <3>6, SumSplit
        <3>9. Sum(c.requests, B \ A) <= Sum(c.requests, S)
            BY <3>1, <3>5, <3>6, SumPart
        <3>10. /\ Sum(c.requests, A) \in Nat /\ Sum(c.requests, B) \in Nat
               /\ Sum(c.requests, D) \in Nat /\ Sum(c.requests, S) \in Nat
            BY <3>5, <3>6, SumNat
        <3>11. Sum(c.requests, B \ A) \in Nat
            BY <3>5, <3>6, SumNat
        <3>12. Available(c, n) = c.allocatable[n] - c.allocated[n]
            BY <3>2, <3>3, <3>4 DEF Available, SatSub
        <3>13. Sum(c.requests, D) <= c.allocatable[n]
            BY <3>2, <3>3, <3>7, <3>8, <3>9, <3>10, <3>11, <3>12
        <3> QED BY <1>1, <1>3, <2>3, <3>13 DEF D
    <2> QED BY <2>2, <2>3
<1> QED BY <1>1, <1>4 DEF Fitting

\* The node is filled.
LEMMA FilledNodeKept ==
    ASSUME NEW c, Sound(c), Fitting(c, Pod), NEW w0, WaitOk(w0), NEW b \in Budgets, NEW n \in Node,
           NEW f \in FillNode(c, w0, b, n), NEW d, d = BindAll(c, f.bind, n)
    PROVE  /\ Kept(c, d) /\ SameFrame(c, d) /\ NoneSucceeds(c, d) /\ Fitting(d, Pod)
           /\ WaitOk(f.w) /\ f.budgets \in Budgets
<1>1. Filling(c, w0, n, f)
    BY FillNodeOutcome DEF Sound
<1> DEFINE s == f.bind
           S == QueueSet(s)
<1>2. s \in Seq(Pod) /\ f.remaining \in Nat /\ f.budgets \in Budgets
    BY <1>1, FillParts DEF Filling
<1>3. BoundTo(c, d, S, n)
    BY <1>2, BindAllBound
<1>4. S \in SUBSET Pod
    BY <1>2, ElementOfSeq DEF QueueSet
<1>5. f.remaining + Sum(c.requests, S) <= Available(c, n)
    BY <1>1 DEF Filling
<1> HIDE DEF S, s
<1>6. Sum(c.requests, S) \in Nat
    <2>1. IsFiniteSet(S) /\ \A x \in S : c.requests[x] \in Nat
        BY <1>4, StrategiesAssumption, FS_Subset DEF Sound, ClusterType
    <2> QED BY <2>1, SumNat
<1>7. Available(c, n) \in Nat
    BY DEF Available, SatSub, Sound, ClusterType
<1>8. Sum(c.requests, S) <= Available(c, n)
    BY <1>2, <1>5, <1>6, <1>7
<1>9. Fitting(d, Pod)
    BY <1>3, <1>4, <1>8, BoundFits
<1> QED BY <1>1, <1>2, <1>3, <1>9 DEF BoundTo, Filling

-----------------------------------------------------------------------------
(***************************************************************************)
(* The two snapshots of the Partitioned strategy.                          *)
(***************************************************************************)
FreeOf(q) == FoldLeft(LAMBDA s, p : IF Unconstrained(p) THEN Append(s, p) ELSE s, <<>>, q)

Deduped(q) ==
    FoldLeft(LAMBDA s, p : IF Unconstrained(p) \/ \E x \in QueueSet(s) : Owner[x] = Owner[p] THEN s
                           ELSE Append(s, p),
             <<>>, q)

\* The pods without constraints.
LEMMA FreeTyped ==
    ASSUME NEW q \in Seq(Pod)
    PROVE  FreeOf(q) \in Seq(Pod)
<1> DEFINE k == Len(q)
           C == Seq(Pod)
           Turn(s, p) == IF Unconstrained(p) THEN Append(s, p) ELSE s
           Eqn(g) == g = [t \in SUBSET (1..k) |->
                             IF t = {} THEN <<>> ELSE Turn(g[t \ {Max(t)}], q[Max(t)])]
           g == CHOOSE h : Eqn(h)
           step == [i \in 1..k |-> [s \in C |-> Turn(s, q[i])]]
<1>0. k \in Nat /\ DOMAIN q = 1..k /\ \A i \in 1..k : q[i] \in Pod
    BY LenProperties, ElementOfSeq
<1>1. FreeOf(q) = g[1..k]
    BY <1>0 DEF FreeOf, FoldLeft, MapThenFoldSet
<1>2. \A s \in C, p \in Pod : Turn(s, p) \in C
    BY AppendQueue
<1>3. <<>> \in C
    OBVIOUS
<1> HIDE DEF C, Turn, k
<1>4. step \in [1..k -> [C -> C]]
    BY <1>0, <1>2
<1>5. \A t \in SUBSET (1..k) : t # {} => Max(t) \in t
    BY <1>0, MaxOf
<1>6. \E h : Eqn(h)
    <2> HIDE DEF step
    <2>1. PICK h : Solves(h, k, C, step, <<>>)
        BY <1>0, <1>3, <1>4, FoldSolved
    <2>2. \A t \in SUBSET (1..k) :
              h[t] = IF t = {} THEN <<>> ELSE Turn(h[t \ {Max(t)}], q[Max(t)])
        BY <1>5, <2>1 DEF Solves, step
    <2>3. Eqn(h)
        BY <2>1, <2>2 DEF Solves
    <2> QED BY <2>3
<1>7. Eqn(g)
    BY <1>6
<1> HIDE DEF g
<1>8. Tracks(g, k, C, step, <<>>)
    BY <1>5, <1>7 DEF Tracks
<1>9. g[1..k] \in C
    <2> HIDE DEF step, Eqn
    <2> QED BY <1>0, <1>3, <1>4, <1>8, FoldTyped
<1> QED BY <1>1, <1>9 DEF C

\* One constrained pod of every owner.
LEMMA DedupedTyped ==
    ASSUME NEW q \in Seq(Pod)
    PROVE  Deduped(q) \in Seq(Pod)
<1> DEFINE k == Len(q)
           C == Seq(Pod)
           Turn(s, p) == IF Unconstrained(p) \/ \E x \in QueueSet(s) : Owner[x] = Owner[p] THEN s
                          ELSE Append(s, p)
           Eqn(g) == g = [t \in SUBSET (1..k) |->
                             IF t = {} THEN <<>> ELSE Turn(g[t \ {Max(t)}], q[Max(t)])]
           g == CHOOSE h : Eqn(h)
           step == [i \in 1..k |-> [s \in C |-> Turn(s, q[i])]]
<1>0. k \in Nat /\ DOMAIN q = 1..k /\ \A i \in 1..k : q[i] \in Pod
    BY LenProperties, ElementOfSeq
<1>1. Deduped(q) = g[1..k]
    BY <1>0 DEF Deduped, FoldLeft, MapThenFoldSet
<1>2. \A s \in C, p \in Pod : Turn(s, p) \in C
    BY AppendQueue
<1>3. <<>> \in C
    OBVIOUS
<1> HIDE DEF C, Turn, k
<1>4. step \in [1..k -> [C -> C]]
    BY <1>0, <1>2
<1>5. \A t \in SUBSET (1..k) : t # {} => Max(t) \in t
    BY <1>0, MaxOf
<1>6. \E h : Eqn(h)
    <2> HIDE DEF step
    <2>1. PICK h : Solves(h, k, C, step, <<>>)
        BY <1>0, <1>3, <1>4, FoldSolved
    <2>2. \A t \in SUBSET (1..k) :
              h[t] = IF t = {} THEN <<>> ELSE Turn(h[t \ {Max(t)}], q[Max(t)])
        BY <1>5, <2>1 DEF Solves, step
    <2>3. Eqn(h)
        BY <2>1, <2>2 DEF Solves
    <2> QED BY <2>3
<1>7. Eqn(g)
    BY <1>6
<1> HIDE DEF g
<1>8. Tracks(g, k, C, step, <<>>)
    BY <1>5, <1>7 DEF Tracks
<1>9. g[1..k] \in C
    <2> HIDE DEF step, Eqn
    <2> QED BY <1>0, <1>3, <1>4, <1>8, FoldTyped
<1> QED BY <1>1, <1>9 DEF C

-----------------------------------------------------------------------------
(***************************************************************************)
(* What an operation between the passes does to where pods run.            *)
(***************************************************************************)
\* Nobody runs anywhere in d who does not run there in c.
Fewer(c, d) == \A q \in Pod : RunsIn(d, q) => RunsIn(c, q) /\ d.node[q] = c.node[q]

LEMMA FewerAdmitted ==
    ASSUME NEW c, NEW d, Fewer(c, d), AllAdmitted(c)
    PROVE  AllAdmitted(d)
BY DEF Fewer, AllAdmitted

LEMMA FewerHeld ==
    ASSUME NEW c, NEW d, Fewer(c, d), HeldIn(c)
    PROVE  HeldIn(d)
BY DEF Fewer, HeldIn, ApartIn

LEMMA FewerKnown ==
    ASSUME NEW c, Sound(c), NEW d, Sound(d), Fewer(c, d), NEW known, MissesNone(c, known),
           NEW told, told.match = known.match
    PROVE  MissesNone(d, told)
<1> SUFFICES ASSUME NEW k \in DOMAIN known.match, HasMatchingPod(d, k[3], k[1], k[2])
             PROVE  known.match[k]
    BY DEF MissesNone
<1>1. PICK q \in Pod : RunsIn(d, q) /\ Labels[d.node[q]][k[1]] = k[2] /\ k[3] \in Matching[q]
    BY MatchingAre DEF HasMatchingPod
<1>2. RunsIn(c, q) /\ d.node[q] = c.node[q]
    BY <1>1 DEF Fewer
<1>3. q \in MatchingPods(c, k[3], k[1], k[2])
    BY <1>1, <1>2, MatchingAre
<1> QED BY <1>3 DEF HasMatchingPod, MissesNone

\* Pods stay in their arena, and what is fresh stays fresh.
Lasts(c, d) ==
    /\ \A p \in Pod : LivePod(c, p) => LivePod(d, p)
    /\ \A m \in Node : c.nodes[m] = "fresh" => d.nodes[m] = "fresh"

\* An operation that keeps the cluster sound and its pods in place.
Calm(c, d) ==
    /\ Sound(d) /\ (Queued(c) => Queued(d)) /\ (Fitting(c, Pod) => Fitting(d, Pod))
    /\ Fewer(c, d)

LEMMA SubmitPodCalm ==
    ASSUME NEW c, Sound(c), NEW p \in Pod, c.pods[p] = "fresh", NEW size \in Nat,
           NEW d, d = SubmitPod(c, p, size)
    PROVE  /\ Calm(c, d) /\ Lasts(c, d) /\ Is(d, p, "Pending")
           /\ \A q \in Pod \ {p} : Is(d, q, "Pending") <=> Is(c, q, "Pending")
<1>1. Kept(c, d)
    BY SubmitPodKept
<1>2. Fitting(c, Pod) => Fitting(d, Pod)
    BY SubmitPodFits
<1>3. /\ d.nodes = c.nodes /\ Is(d, p, "Pending")
      /\ \A q \in Pod \ {p} : d.pods[q] = c.pods[q] /\ d.phase[q] = c.phase[q]
           /\ d.node[q] = c.node[q]
    BY SubmitPodEffect DEF Sound
<1>4. Fewer(c, d)
    BY <1>3 DEF Fewer, RunsIn, Is, LivePod, LiveNode
<1>5. Lasts(c, d)
    BY <1>3 DEF Lasts, LivePod, Is
<1> QED BY <1>1, <1>2, <1>3, <1>4, <1>5 DEF Calm, Kept, Is, LivePod

\* A node that is new has no pods.
LEMMA AddNodeCalm ==
    ASSUME NEW c, Sound(c), NEW n \in Node, c.nodes[n] = "fresh", NEW capacity \in Nat,
           NEW d, d = AddNode(c, n, capacity)
    PROVE  /\ Calm(c, d) /\ \A p \in Pod : LivePod(c, p) => LivePod(d, p)
           /\ \A q \in Pod : Is(d, q, "Pending") <=> Is(c, q, "Pending")
           /\ d.pending_queue = c.pending_queue
           /\ d.nodes[n] # c.nodes[n]
<1>1. Kept(c, d)
    BY AddNodeKept
<1>2. Fitting(c, Pod) => Fitting(d, Pod)
    BY AddNodeFits
<1>3. /\ d.pods = c.pods /\ d.phase = c.phase /\ d.node = c.node
      /\ d.pending_queue = c.pending_queue /\ d.nodes[n] = "live"
      /\ \A m \in Node \ {n} : d.nodes[m] = c.nodes[m]
    BY AddNodeEffect DEF Sound
<1>4. Fewer(c, d)
    <2> SUFFICES ASSUME NEW q \in Pod, RunsIn(d, q) PROVE RunsIn(c, q) /\ d.node[q] = c.node[q]
        BY DEF Fewer
    <2>1. Is(c, q, "Running") /\ c.node[q] \in Node /\ d.node[q] = c.node[q]
        BY <1>3 DEF RunsIn, LiveNode, Is, LivePod
    <2>2. c.nodes[c.node[q]] # "fresh"
        BY <2>1 DEF Sound, Placed, Is, LivePod
    <2>3. c.nodes[c.node[q]] = "live"
        BY <1>3, <2>1, <2>2 DEF RunsIn, LiveNode
    <2> QED BY <2>1, <2>3 DEF RunsIn, LiveNode
<1> QED BY <1>1, <1>2, <1>3, <1>4 DEF Calm, Kept, Is, LivePod

LEMMA RemoveNodeCalm ==
    ASSUME NEW c, Sound(c), NEW n \in Node, NEW d, d = RemoveNode(c, n)
    PROVE  /\ Calm(c, d) /\ Lasts(c, d)
           /\ \A q \in Pod : Is(d, q, "Pending") <=> Is(c, q, "Pending")
<1>1. Kept(c, d)
    BY RemoveNodeKept
<1>2. /\ d.nodes[n] = IF LiveNode(c, n) THEN "gone" ELSE c.nodes[n]
      /\ \A m \in Node \ {n} : /\ d.podsOn[m] = c.podsOn[m] /\ d.nodes[m] = c.nodes[m]
                               /\ d.allocatable[m] = c.allocatable[m]
      /\ d.pods = c.pods /\ d.phase = c.phase /\ d.node = c.node /\ d.requests = c.requests
    BY RemoveNodeEffect DEF Sound
<1>3. Fewer(c, d)
    BY <1>2 DEF Fewer, RunsIn, Is, LivePod, LiveNode
<1>4. Lasts(c, d)
    BY <1>2 DEF Lasts, LivePod, LiveNode
<1>5. ASSUME Fitting(c, Pod) PROVE Fitting(d, Pod)
    <2> SUFFICES ASSUME NEW m \in Node, d.nodes[m] = "live"
                 PROVE  Sum(d.requests, d.podsOn[m] \cap Pod) <= d.allocatable[m]
        BY DEF Fitting
    <2>1. CASE LiveNode(c, n)
        <3>1. m # n
            BY <1>2, <2>1
        <3> QED BY <1>2, <1>5, <3>1 DEF Fitting
    <2>2. CASE ~ LiveNode(c, n)
        BY <1>5, <2>2 DEF RemoveNode, Fitting
    <2> QED BY <2>1, <2>2
<1> QED BY <1>1, <1>2, <1>3, <1>4, <1>5 DEF Calm, Kept, Is, LivePod

\* Evictions leave room.
LEMMA EvictAllCalm ==
    ASSUME NEW c, Sound(c), NEW s \in Seq(Pod), NEW d, d = FoldLeft(EvictPod, c, s)
    PROVE  Calm(c, d) /\ Lasts(c, d)
<1> DEFINE S == QueueSet(s)
<1>1. Kept(c, d) /\ EvictedFrom(c, d, S)
    BY EvictAllKept
<1> HIDE DEF S
<1>2. /\ d.nodes = c.nodes /\ d.pods = c.pods /\ d.requests = c.requests
      /\ d.allocatable = c.allocatable
      /\ \A m \in Node : c.nodes[m] = "live" => d.podsOn[m] = c.podsOn[m] \ S
      /\ \A q \in Pod : Is(d, q, "Running") => Is(c, q, "Running") /\ d.node[q] = c.node[q]
    BY <1>1 DEF EvictedFrom, SameFrame
<1>3. Fewer(c, d)
    BY <1>2 DEF Fewer, RunsIn, LiveNode
<1>4. Lasts(c, d)
    BY <1>2 DEF Lasts, LivePod
<1>5. ASSUME Fitting(c, Pod) PROVE Fitting(d, Pod)
    <2>1. ASSUME NEW m \in Node, c.nodes[m] = "live"
          PROVE  Sum(d.requests, d.podsOn[m] \cap Pod) <= d.allocatable[m]
        <3>1. d.podsOn[m] \cap Pod \subseteq c.podsOn[m]
            BY <1>2, <2>1
        <3> QED BY <1>2, <1>5, <2>1, <3>1, FittingPart
    <2> QED BY <1>2, <2>1 DEF Fitting
<1> QED BY <1>1, <1>3, <1>4, <1>5 DEF Calm, Kept

LEMMA EndedCalm ==
    ASSUME NEW c, Sound(c), NEW p \in Pod, LivePod(c, p), NEW d, d = Ended(c, p)
    PROVE  /\ Calm(c, d) /\ Lasts(c, d) /\ ~ Is(d, p, "Pending")
           /\ \A q \in Pod \ {p} : Is(d, q, "Pending") <=> Is(c, q, "Pending")
<1>1. /\ Sound(d) /\ (Queued(c) => Queued(d))
      /\ d.nodes = c.nodes /\ d.pods = c.pods /\ d.phase[p] = "Succeeded"
      /\ \A q \in Pod \ {p} : d.phase[q] = c.phase[q] /\ d.node[q] = c.node[q]
    BY CompletedKept
<1>2. Fitting(c, Pod) => Fitting(d, Pod)
    BY CompletedFits
<1>3. Fewer(c, d)
    BY <1>1 DEF Fewer, RunsIn, LiveNode, Is, LivePod
<1> QED BY <1>1, <1>2, <1>3 DEF Calm, Lasts, Is, LivePod

\* A pass, or two in a row.
LEMMA PassesLast ==
    ASSUME NEW c, NEW d, SameFrame(c, d)
    PROVE  Lasts(c, d)
BY DEF SameFrame, Lasts, LivePod

-----------------------------------------------------------------------------
(***************************************************************************)
(* The invariant.                                                          *)
(***************************************************************************)
\* What is remembered beside the cluster has its type, and the wait queue its entries.
Remembered ==
    /\ strategy \in Strategy
    /\ ready \in [Node -> BOOLEAN] /\ cordoned \in [Node -> BOOLEAN]
    /\ caches \in AllCaches /\ saturated \in SUBSET Node
    /\ launched_nodes \in Seq(Node) /\ hints \in [Pod -> 0..Len(launched_nodes)]
    /\ WaitOk(wait) /\ budgets \in Budgets

\* The cluster is sound, its pods fit, and they are where they may be.
Placing ==
    /\ Sound(state) /\ Queued(state) /\ Fitting(state, Pod)
    /\ ~ InReverse => AllAdmitted(state)

\* A node that is to be launched has an id, and only submitted pods complete.
Announced ==
    /\ Launching \in events => \E i \in DOMAIN LaunchOrder : state.nodes[LaunchOrder[i]] = "fresh"
    /\ \A p \in Pod : [kind |-> "PodCompleted", pod |-> p] \in events => LivePod(state, p)

IInv == Remembered /\ Placing /\ Announced /\ PendingAreWaiting

\* A step keeps the invariant, and while the cache misses no match it parts who keeps apart.
Advances ==
    /\ IInv'
    /\ ~ InReverse /\ MissesNone(state, caches) /\ HeldIn(state) => HeldIn(state')

-----------------------------------------------------------------------------
(***************************************************************************)
(* The steps.                                                              *)
(***************************************************************************)
Done(p) == [kind |-> "PodCompleted", pod |-> p]

\* Events of different kinds differ.
LEMMA EventsDiffer ==
    /\ Loop # Launching
    /\ \A p : Done(p) # Loop /\ Done(p) # Launching
    /\ \A p, q : Done(p) = Done(q) => p = q
    /\ \A kind, n : kind \in {"NodeReady", "NodeDrained", "NodeTerminated"} =>
          On(kind, n) # Loop /\ On(kind, n) # Launching /\ \A p : On(kind, n) # Done(p)
<1>1. Loop.kind = "KarpenterProvisioningLoop" /\ Launching.kind = "NodeLaunching"
    BY DEF Loop, Launching
<1>2. \A p : Done(p).kind = "PodCompleted" /\ Done(p).pod = p
    BY DEF Done
<1>3. \A kind, n : On(kind, n).kind = kind
    BY DEF On
<1> QED BY <1>1, <1>2, <1>3

\* What a pass hands on, in the parts of the invariant.
LEMMA PassKeeps ==
    ASSUME NEW c, Sound(c), Queued(c), Fitting(c, Pod), NEW k, NEW d, NEW l, NEW up,
           CachedTo(c, k, d, l, up)
    PROVE  /\ Sound(d) /\ Queued(d) /\ Fitting(d, Pod) /\ Lasts(c, d)
           /\ AllAdmitted(c) => AllAdmitted(d)
           /\ MissesNone(c, k) => MissesNone(d, l)
           /\ MissesNone(c, k) /\ HeldIn(c) => HeldIn(d)
BY PassesLast DEF CachedTo, PassedTo, Kept

\* The submitted pod is bound at once.
LEMMA SubmitBinds ==
    ASSUME NEW c, Sound(c), NEW known, NEW up \in SUBSET Node, NEW p \in Pod, Is(c, p, "Pending"),
           NEW n \in Winners(c, up, p), NEW d, d = BindPod(c, p, n)
    PROVE  /\ CachedTo(c, known, d, OnPodBound(known, p, n), up)
           /\ ~ Is(d, p, "Pending")
           /\ \A q \in Pod \ {p} : Is(d, q, "Pending") => Is(c, q, "Pending")
<1>1. n \in up /\ LiveNode(c, n) /\ Fits(c, p, n) /\ OtherFilters(c, p, n)
    BY DEF Winners, Highest, Admissible, Feasible
<1>2. n \in Node /\ c.nodes[n] = "live"
    BY <1>1 DEF LiveNode
<1>3. Suitable(p, n) /\ AloneOn(c, p, n)
    BY <1>1, <1>2, AffinityAlone DEF OtherFilters, Suitable
<1>4. Kept(c, c) /\ EvictedFrom(c, c, {})
    BY DEF Kept, EvictedFrom, SameFrame, NoneSucceeds
<1>5. c.requests[p] <= Available(c, n) + Sum(c.requests, {})
    <2>1. Available(c, n) \in Nat
        BY <1>2 DEF Available, SatSub, Sound, ClusterType
    <2>2. Sum(c.requests, {}) = 0
        BY SumEmpty
    <2> QED BY <1>1, <2>1, <2>2 DEF Fits
<1>6. CachedTo(c, known, d, OnPodBound(known, p, n), up)
    BY <1>1, <1>2, <1>3, <1>4, <1>5, CachedPlaces
<1>7. CanBind(c, p, n)
    BY <1>1 DEF CanBind
<1>8. /\ Is(d, p, "Running") /\ d.pods = c.pods
      /\ \A q \in Pod \ {p} : d.phase[q] = c.phase[q]
    BY <1>2, <1>7, BindPodEffect DEF SameFrame, Sound
<1>9. ~ Is(d, p, "Pending") /\ \A q \in Pod \ {p} : Is(d, q, "Pending") => Is(c, q, "Pending")
    BY <1>8 DEF Is, LivePod
<1> QED BY <1>6, <1>9

LEMMA PodSubmittedStep ==
    ASSUME IInv, NEW p \in Pod, PodSubmitted(p)
    PROVE  Advances
<1> DEFINE c == SubmitPod(state, p, Size[p])
           up == Up(c, ready)
<1>1. /\ state.pods[p] = "fresh" /\ Sound(state) /\ Queued(state) /\ Fitting(state, Pod)
      /\ Size[p] \in Nat /\ (~ InReverse => AllAdmitted(state))
    BY StrategiesAssumption DEF PodSubmitted, IInv, Placing
<1>2. /\ UNCHANGED <<strategy, ready, cordoned, caches, saturated, launched_nodes, hints>>
      /\ budgets' = budgets \/ budgets' = Registered(budgets, p)
      /\ InReverse' = InReverse
    BY DEF PodSubmitted, InReverse
<1>3. /\ Calm(state, c) /\ Lasts(state, c) /\ Is(c, p, "Pending")
      /\ \A q \in Pod \ {p} : Is(c, q, "Pending") <=> Is(state, q, "Pending")
    BY <1>1, SubmitPodCalm
<1>4. \/ /\ \E n \in Winners(c, up, p) : state' = BindPod(c, p, n)
         /\ events' = events \cup {Done(q) : q \in {p} \cap Batch}
         /\ wait' = wait
      \/ /\ state' = c
         /\ wait' = IF InReverse THEN AddWaiting(wait, p) ELSE wait
         /\ events' = events \cup {Loop}
    BY DEF PodSubmitted, Done
<1>5. up \in SUBSET Node
    BY DEF Up
<1> HIDE DEF c, up
<1>6. Remembered'
    <2>1. budgets' \in Budgets
        BY <1>2, RegisteredTyped DEF IInv, Remembered
    <2>2. WaitOk(wait')
        <3>1. WaitOk(wait) /\ WaitOk(AddWaiting(wait, p))
            BY AddWaitingOk DEF IInv, Remembered
        <3> QED BY <1>4, <3>1
    <2> QED BY <1>2, <2>1, <2>2 DEF IInv, Remembered
<1>7. /\ Sound(c) /\ Queued(c) /\ Fitting(c, Pod)
      /\ ~ InReverse => AllAdmitted(c)
      /\ HeldIn(state) => HeldIn(c)
      /\ MissesNone(state, caches) => MissesNone(c, caches)
    BY <1>1, <1>3, FewerAdmitted, FewerHeld, FewerKnown DEF Calm
<1>8. CASE /\ \E n \in Winners(c, up, p) : state' = BindPod(c, p, n)
           /\ events' = events \cup {Done(q) : q \in {p} \cap Batch}
           /\ wait' = wait
    <2>1. PICK n \in Winners(c, up, p) : state' = BindPod(c, p, n)
        BY <1>8
    <2>2. /\ CachedTo(c, caches, state', OnPodBound(caches, p, n), up)
          /\ ~ Is(state', p, "Pending")
          /\ \A q \in Pod \ {p} : Is(state', q, "Pending") => Is(c, q, "Pending")
        BY <1>3, <1>5, <1>7, <2>1, SubmitBinds
    <2>3. /\ Sound(state') /\ Queued(state') /\ Fitting(state', Pod) /\ Lasts(c, state')
          /\ AllAdmitted(c) => AllAdmitted(state')
          /\ MissesNone(c, caches) /\ HeldIn(c) => HeldIn(state')
        BY <1>7, <2>2, PassKeeps
    <2>4. Placing'
        BY <1>2, <1>7, <2>3 DEF Placing
    <2>5. Announced'
        <3>1. LivePod(state', p) /\ \A q \in Pod : LivePod(state, q) => LivePod(state', q)
            BY <1>3, <2>3 DEF Lasts, Is
        <3>2. \A i \in DOMAIN LaunchOrder :
                  state.nodes[LaunchOrder[i]] = "fresh" => state'.nodes[LaunchOrder[i]] = "fresh"
            BY <1>3, <2>3, ElementOfSeq, StrategiesAssumption, LenProperties DEF Lasts
        <3>3. Launching \in events' => Launching \in events
            BY <1>8, EventsDiffer
        <3>4. \A q \in Pod : Done(q) \in events' => q = p \/ Done(q) \in events
            BY <1>8, EventsDiffer
        <3> QED BY <3>1, <3>2, <3>3, <3>4 DEF Announced, IInv, Done
    <2>6. PendingAreWaiting'
        BY <1>2, <1>3, <1>8, <2>2 DEF PendingAreWaiting, IInv, Pending
    <2> QED BY <1>6, <1>7, <2>3, <2>4, <2>5, <2>6 DEF IInv, Advances
<1>9. CASE /\ state' = c
           /\ wait' = IF InReverse THEN AddWaiting(wait, p) ELSE wait
           /\ events' = events \cup {Loop}
    <2>1. Placing'
        BY <1>2, <1>7, <1>9 DEF Placing
    <2>2. Announced'
        <3>1. \A q \in Pod : LivePod(state, q) => LivePod(state', q)
            BY <1>3, <1>9 DEF Lasts
        <3>2. \A i \in DOMAIN LaunchOrder :
                  state.nodes[LaunchOrder[i]] = "fresh" => state'.nodes[LaunchOrder[i]] = "fresh"
            BY <1>3, <1>9, ElementOfSeq, StrategiesAssumption, LenProperties DEF Lasts
        <3>3. Launching \in events' => Launching \in events
            BY <1>9, EventsDiffer
        <3>4. \A q \in Pod : Done(q) \in events' => Done(q) \in events
            BY <1>9, EventsDiffer
        <3> QED BY <3>1, <3>2, <3>3, <3>4 DEF Announced, IInv, Done
    <2>3. PendingAreWaiting'
        BY <1>9 DEF PendingAreWaiting
    <2> QED BY <1>6, <1>7, <1>9, <2>1, <2>2, <2>3 DEF IInv, Advances
<1> QED BY <1>4, <1>8, <1>9

\* The ids that are not handed out yet.
LEMMA FreshLasts ==
    ASSUME NEW c, NEW d, Lasts(c, d)
    PROVE  \A i \in DOMAIN LaunchOrder : c.nodes[LaunchOrder[i]] = "fresh"
             => d.nodes[LaunchOrder[i]] = "fresh"
BY ElementOfSeq, StrategiesAssumption, LenProperties DEF Lasts

\* A hint is a place in the list of launched nodes.
LEMMA HintedTyped ==
    ASSUME NEW c, \E n \in Node : c.nodes[n] # state.nodes[n],
           launched_nodes \in Seq(Node), hints \in [Pod -> 0..Len(launched_nodes)], Hinted(c)
    PROVE  launched_nodes' \in Seq(Node) /\ hints' \in [Pod -> 0..Len(launched_nodes')]
<1>1. CASE strategy # "HintBased"
    BY <1>1 DEF Hinted
<1>2. CASE strategy = "HintBased"
    <2> DEFINE n == CHOOSE n \in Node : c.nodes[n] # state.nodes[n]
               k == Len(launched_nodes)
    <2>1. n \in Node
        OBVIOUS
    <2>2. /\ launched_nodes' = Append(launched_nodes, n)
          /\ hints' = [p \in Pod |-> IF hints[p] = 0 /\ p \in QueueSet(c.pending_queue)
                                     THEN k + 1 ELSE hints[p]]
        BY <1>2 DEF Hinted
    <2> HIDE DEF n
    <2>3. launched_nodes' \in Seq(Node) /\ Len(launched_nodes') = k + 1 /\ k \in Nat
        BY <2>1, <2>2, LenProperties
    <2> HIDE DEF k
    <2>4. \A x \in 0..k : x \in 0..k + 1
        BY <2>3
    <2>5. k + 1 \in 0..k + 1
        BY <2>3
    <2>6. hints \in [Pod -> 0..k]
        BY DEF k
    <2>7. hints' \in [Pod -> 0..k + 1]
        BY <2>2, <2>4, <2>5, <2>6
    <2> QED BY <2>3, <2>7
<1> QED BY <1>1, <1>2

LEMMA NodeLaunchingStep ==
    ASSUME IInv, NodeLaunching
    PROVE  Advances
<1> DEFINE I == {i \in DOMAIN LaunchOrder : state.nodes[LaunchOrder[i]] = "fresh"}
           n == LaunchOrder[Min(I)]
           c == AddNode(state, n, Capacity[n])
           told == OnNodeAdded(caches, n)
           up == Up(c, ready')
<1>1. /\ Sound(state) /\ Queued(state) /\ Fitting(state, Pod)
      /\ (~ InReverse => AllAdmitted(state))
    BY DEF IInv, Placing
<1>2. n \in Node /\ state.nodes[n] = "fresh" /\ Capacity[n] \in Nat
    <2>1. I # {} /\ I \in SUBSET Nat
        <3>1. DOMAIN LaunchOrder \subseteq Nat
            BY StrategiesAssumption, LenProperties
        <3> QED BY <3>1 DEF IInv, Announced, NodeLaunching
    <2>2. Min(I) \in I
        <3> HIDE DEF I
        <3> QED BY <2>1, MinNat
    <2>3. Min(I) \in DOMAIN LaunchOrder /\ state.nodes[LaunchOrder[Min(I)]] = "fresh"
        BY <2>2
    <2>4. \A i \in DOMAIN LaunchOrder : LaunchOrder[i] \in Node
        BY StrategiesAssumption, ElementOfSeq, LenProperties
    <2> HIDE DEF I
    <2>5. n \in Node /\ state.nodes[n] = "fresh"
        BY <2>3, <2>4
    <2> QED BY <2>5, StrategiesAssumption
<1>3. /\ Launching \in events
      /\ ready' = [ready EXCEPT ![n] = (Startup = 0)]
      /\ Hinted(c)
      /\ events' = (events \ {Launching}) \cup {On("NodeReady", n)}
      /\ UNCHANGED <<strategy, cordoned, saturated, wait, budgets>>
    BY DEF NodeLaunching
<1>4. \/ state' = c /\ caches' = told
      \/ ~ InReverse /\ \E x \in Passes(c, told, up, c.pending_queue) : state' = x.c
           /\ caches' = x.caches
    BY DEF NodeLaunching
<1> HIDE DEF n, I
<1>5. /\ Calm(state, c) /\ (\A p \in Pod : LivePod(state, p) => LivePod(c, p))
      /\ \A q \in Pod : Is(c, q, "Pending") <=> Is(state, q, "Pending")
      /\ c.nodes[n] # state.nodes[n]
    BY <1>1, <1>2, AddNodeCalm
<1>6. told \in AllCaches /\ told.match = caches.match
    BY <1>2, NodeAddedTyped DEF IInv, Remembered
<1>7. up \in SUBSET Node /\ InReverse' = InReverse
    BY <1>3 DEF Up, InReverse
<1> HIDE DEF c, told, up
<1>8. /\ Sound(c) /\ Queued(c) /\ Fitting(c, Pod)
      /\ ~ InReverse => AllAdmitted(c)
      /\ HeldIn(state) => HeldIn(c)
      /\ MissesNone(state, caches) => MissesNone(c, told)
    BY <1>1, <1>5, <1>6, FewerAdmitted, FewerHeld, FewerKnown DEF Calm
<1>9. /\ Launching \notin events'
      /\ \A p \in Pod : Done(p) \in events' => Done(p) \in events
      /\ Loop \in events => Loop \in events'
    BY <1>3, EventsDiffer
<1>10. ready' \in [Node -> BOOLEAN] /\ launched_nodes' \in Seq(Node)
       /\ hints' \in [Pod -> 0..Len(launched_nodes')]
    <2>1. launched_nodes \in Seq(Node) /\ hints \in [Pod -> 0..Len(launched_nodes)]
          /\ ready \in [Node -> BOOLEAN]
        BY DEF IInv, Remembered
    <2> QED BY <1>2, <1>3, <1>5, <2>1, HintedTyped
<1>11. CASE state' = c /\ caches' = told
    <2>1. Remembered'
        BY <1>3, <1>6, <1>10, <1>11 DEF IInv, Remembered
    <2>2. Placing'
        BY <1>7, <1>8, <1>11 DEF Placing
    <2>3. Announced'
        BY <1>5, <1>9, <1>11 DEF IInv, Announced, Done
    <2>4. PendingAreWaiting'
        BY <1>3, <1>5, <1>7, <1>9, <1>11 DEF IInv, PendingAreWaiting, Pending
    <2> QED BY <1>8, <1>11, <2>1, <2>2, <2>3, <2>4 DEF IInv, Advances
<1>12. CASE /\ ~ InReverse
            /\ \E x \in Passes(c, told, up, c.pending_queue) : state' = x.c /\ caches' = x.caches
    <2>1. PICK x \in Passes(c, told, up, c.pending_queue) : state' = x.c /\ caches' = x.caches
        BY <1>12
    <2>2. c.pending_queue \in Seq(Pod)
        BY <1>8 DEF Sound, ClusterType
    <2>3. caches' \in AllCaches /\ CachedTo(c, told, state', caches', up)
        BY <1>6, <1>7, <1>8, <2>1, <2>2, CachedPassOutcome DEF Passes
    <2>4. /\ Sound(state') /\ Queued(state') /\ Fitting(state', Pod) /\ Lasts(c, state')
          /\ AllAdmitted(c) => AllAdmitted(state')
          /\ MissesNone(c, told) /\ HeldIn(c) => HeldIn(state')
        BY <1>8, <2>3, PassKeeps
    <2>5. Remembered'
        BY <1>3, <1>10, <2>3 DEF IInv, Remembered
    <2>6. Placing'
        BY <1>7, <1>8, <2>4 DEF Placing
    <2>7. Announced'
        BY <1>5, <1>9, <2>4 DEF IInv, Announced, Done, Lasts
    <2>8. PendingAreWaiting'
        BY <1>7, <1>12 DEF PendingAreWaiting
    <2> QED BY <1>8, <2>4, <2>5, <2>6, <2>7, <2>8 DEF IInv, Advances
<1> QED BY <1>4, <1>11, <1>12

\* Two passes in a row, or one.
LEMMA TwoPasses ==
    ASSUME NEW c, Sound(c), NEW k \in AllCaches, NEW up \in SUBSET Node, NEW full,
           NEW q \in Seq(Pod), NEW x \in CachedPass(c, k, up, full, q),
           NEW r \in Seq(Pod), NEW y \in CachedPass(x.c, x.caches, up, full, r)
    PROVE  y.caches \in AllCaches /\ CachedTo(c, k, y.c, y.caches, up)
<1>1. x.caches \in AllCaches /\ CachedTo(c, k, x.c, x.caches, up)
    BY CachedPassOutcome
<1>2. Sound(x.c)
    BY <1>1 DEF CachedTo, PassedTo, Kept
<1>3. y.caches \in AllCaches /\ CachedTo(x.c, x.caches, y.c, y.caches, up)
    BY <1>1, <1>2, CachedPassOutcome
<1> QED BY <1>1, <1>3, CachedChain

\* A step that is made of passes, in the parts of the invariant.
LEMMA PassingAdvances ==
    ASSUME IInv, ~ InReverse, NEW up, caches' \in AllCaches,
           CachedTo(state, caches, state', caches', up),
           UNCHANGED <<strategy, cordoned, wait, budgets, launched_nodes>>,
           ready' \in [Node -> BOOLEAN], saturated' \in SUBSET Node,
           hints' \in [Pod -> 0..Len(launched_nodes)],
           Launching \in events' =>
               Launching \in events
                 \/ \E i \in DOMAIN LaunchOrder : state'.nodes[LaunchOrder[i]] = "fresh",
           \A p \in Pod : Done(p) \in events' => Done(p) \in events
    PROVE  Advances
<1>1. /\ Sound(state) /\ Queued(state) /\ Fitting(state, Pod) /\ AllAdmitted(state)
    BY DEF IInv, Placing
<1>2. /\ Sound(state') /\ Queued(state') /\ Fitting(state', Pod) /\ Lasts(state, state')
      /\ AllAdmitted(state')
      /\ MissesNone(state, caches) /\ HeldIn(state) => HeldIn(state')
    BY <1>1, PassKeeps
<1>3. Remembered'
    BY DEF IInv, Remembered
<1>4. Placing'
    BY <1>2 DEF Placing
<1>5. Announced'
    <2>1. \A p \in Pod : LivePod(state, p) => LivePod(state', p)
        BY <1>2 DEF Lasts
    <2>2. \A i \in DOMAIN LaunchOrder :
              state.nodes[LaunchOrder[i]] = "fresh" => state'.nodes[LaunchOrder[i]] = "fresh"
        BY <1>2, FreshLasts
    <2> QED BY <2>1, <2>2 DEF IInv, Announced, Done
<1>6. PendingAreWaiting'
    BY DEF PendingAreWaiting, InReverse
<1> QED BY <1>2, <1>3, <1>4, <1>5, <1>6 DEF IInv, Advances

\* Every strategy but ReverseSchedule makes a pass or two.
LEMMA ReadyPasses ==
    ASSUME IInv, NEW n \in Node, NEW up \in SUBSET Node,
           FullScan(up) \/ HintBased(n, up) \/ Partitioned(up) \/ NodePruning(up)
    PROVE  /\ ~ InReverse /\ caches' \in AllCaches /\ CachedTo(state, caches, state', caches', up)
           /\ UNCHANGED <<wait, budgets, launched_nodes>>
           /\ saturated' \in SUBSET Node /\ hints' \in [Pod -> 0..Len(launched_nodes)]
<1>0. /\ Sound(state) /\ caches \in AllCaches /\ state.pending_queue \in Seq(Pod)
      /\ saturated \in SUBSET Node /\ hints \in [Pod -> 0..Len(launched_nodes)]
      /\ launched_nodes \in Seq(Node)
    BY DEF IInv, Placing, Remembered, Sound, ClusterType
<1>1. CASE FullScan(up)
    <2>1. PICK x \in CachedPass(state, caches, up, saturated, state.pending_queue) :
              state' = x.c /\ caches' = x.caches
        BY <1>1 DEF FullScan, Passes
    <2>2. caches' \in AllCaches /\ CachedTo(state, caches, state', caches', up)
        BY <1>0, <2>1, CachedPassOutcome
    <2> QED BY <1>0, <1>1, <2>2 DEF FullScan, InReverse
<1>2. CASE HintBased(n, up)
    <2> DEFINE hinted == {p \in Pod : hints[p] # 0 /\ launched_nodes[hints[p]] = n}
    <2>1. PICK order \in SetToSeqs(hinted) :
              \E x \in CachedPass(state, caches, up, saturated, order) :
                  \E y \in CachedPass(x.c, x.caches, up, saturated, x.c.pending_queue) :
                      state' = y.c /\ caches' = y.caches
        BY <1>2 DEF HintBased, Passes
    <2>2. hints' = [p \in Pod |-> IF p \in hinted THEN 0 ELSE hints[p]]
        BY <1>2 DEF HintBased
    <2>3. hinted \in SUBSET Pod
        OBVIOUS
    <2> HIDE DEF hinted
    <2>4. order \in Seq(Pod)
        <3>1. IsFiniteSet(hinted)
            BY <2>3, StrategiesAssumption, FS_Subset
        <3>2. order \in Seq(hinted)
            BY <2>1, <3>1, OrderOf
        <3> QED BY <2>3, <3>2, SeqOver
    <2>5. PICK x \in CachedPass(state, caches, up, saturated, order) :
              \E y \in CachedPass(x.c, x.caches, up, saturated, x.c.pending_queue) :
                  state' = y.c /\ caches' = y.caches
        BY <2>1
    <2>6. PICK y \in CachedPass(x.c, x.caches, up, saturated, x.c.pending_queue) :
              state' = y.c /\ caches' = y.caches
        BY <2>5
    <2>7. x.c.pending_queue \in Seq(Pod)
        <3>1. CachedTo(state, caches, x.c, x.caches, up)
            BY <1>0, <2>4, CachedPassOutcome
        <3> QED BY <3>1 DEF CachedTo, PassedTo, Kept, Sound, ClusterType
    <2>8. caches' \in AllCaches /\ CachedTo(state, caches, state', caches', up)
        BY <1>0, <2>4, <2>6, <2>7, TwoPasses
    <2>9. hints' \in [Pod -> 0..Len(launched_nodes)]
        <3>1. Len(launched_nodes) \in Nat
            BY <1>0, LenProperties
        <3>2. 0 \in 0..Len(launched_nodes)
            BY <3>1
        <3> QED BY <1>0, <2>2, <3>2
    <2> QED BY <1>0, <1>2, <2>8, <2>9 DEF HintBased, InReverse
<1>3. CASE Partitioned(up)
    <2> DEFINE free == FreeOf(state.pending_queue)
               deduped == Deduped(state.pending_queue)
    <2>1. PICK x \in CachedPass(state, caches, up, saturated, free) :
              \E y \in CachedPass(x.c, x.caches, up, saturated, deduped) :
                  state' = y.c /\ caches' = y.caches
        BY <1>3 DEF Partitioned, Passes, FreeOf, Deduped
    <2>2. PICK y \in CachedPass(x.c, x.caches, up, saturated, deduped) :
              state' = y.c /\ caches' = y.caches
        BY <2>1
    <2>3. free \in Seq(Pod) /\ deduped \in Seq(Pod)
        BY <1>0, FreeTyped, DedupedTyped
    <2> HIDE DEF free, deduped
    <2>4. caches' \in AllCaches /\ CachedTo(state, caches, state', caches', up)
        BY <1>0, <2>2, <2>3, TwoPasses
    <2> QED BY <1>0, <1>3, <2>4 DEF Partitioned, InReverse
<1>4. CASE NodePruning(up)
    <2>1. PICK x \in CachedPass(state, caches, up, saturated, state.pending_queue) :
              /\ state' = x.c /\ caches' = x.caches
              /\ saturated' = saturated \cup Saturated(x.c, up)
        BY <1>4 DEF NodePruning, Passes
    <2>2. caches' \in AllCaches /\ CachedTo(state, caches, state', caches', up)
        BY <1>0, <2>1, CachedPassOutcome
    <2>3. Saturated(x.c, up) \in SUBSET Node
        BY DEF Saturated
    <2> QED BY <1>0, <1>4, <2>1, <2>2, <2>3 DEF NodePruning, InReverse
<1> QED BY <1>1, <1>2, <1>3, <1>4

\* A pending pod is in the queue, and while the queue is not empty a loop follows.
LEMMA LoopFollows ==
    ASSUME NEW c, Queued(c), NEW p \in Pod, Is(c, p, "Pending")
    PROVE  Loop \in FollowUp(c)
<1>1. p \in QueueSet(c.pending_queue)
    BY DEF Queued
<1>2. c.pending_queue # <<>>
    <2> SUFFICES ASSUME c.pending_queue = <<>> PROVE FALSE
        OBVIOUS
    <2>1. QueueSet(<<>>) = {}
        BY DEF QueueSet
    <2> QED BY <1>1, <2>1
<1> QED BY <1>2 DEF FollowUp

LEMMA NodeReadyStep ==
    ASSUME IInv, NEW n \in Node, NodeReady(n)
    PROVE  Advances
<1> DEFINE up == Up(state, ready')
<1>1. /\ Sound(state) /\ Queued(state) /\ Fitting(state, Pod)
      /\ ready \in [Node -> BOOLEAN]
    BY DEF IInv, Placing, Remembered
<1>2. /\ ready' = [ready EXCEPT ![n] = LiveNode(state, n)]
      /\ \/ FullScan(up) \/ HintBased(n, up) \/ Partitioned(up) \/ NodePruning(up)
         \/ ReverseSchedule(n)
      /\ events' = (events \ {On("NodeReady", n)}) \cup FollowUp(state')
      /\ UNCHANGED <<strategy, cordoned>>
    BY DEF NodeReady
<1>3. ready' \in [Node -> BOOLEAN] /\ up \in SUBSET Node
    BY <1>1, <1>2 DEF LiveNode, Up
<1>4. /\ Launching \in events' => Launching \in events
      /\ \A p \in Pod : Done(p) \in events' => Done(p) \in events
    BY <1>2, EventsDiffer DEF FollowUp
<1> HIDE DEF up
<1>5. CASE FullScan(up) \/ HintBased(n, up) \/ Partitioned(up) \/ NodePruning(up)
    <2>1. /\ ~ InReverse /\ caches' \in AllCaches /\ CachedTo(state, caches, state', caches', up)
          /\ UNCHANGED <<wait, budgets, launched_nodes>>
          /\ saturated' \in SUBSET Node /\ hints' \in [Pod -> 0..Len(launched_nodes)]
        BY <1>3, <1>5, ReadyPasses
    <2> QED BY <1>2, <1>3, <1>4, <2>1, PassingAdvances
<1>6. CASE ReverseSchedule(n)
    <2>1. PICK f \in FillNode(state, wait, budgets, n) :
              /\ state' = FoldLeft(LAMBDA c, p : BindPod(c, p, n), state, f.bind)
              /\ wait' = f.w /\ budgets' = f.budgets
        BY <1>6 DEF ReverseSchedule
    <2>2. state' = BindAll(state, f.bind, n)
        BY <2>1 DEF BindAll
    <2>3. InReverse /\ InReverse' /\ UNCHANGED <<caches, saturated, launched_nodes, hints>>
        BY <1>2, <1>6 DEF ReverseSchedule, InReverse
    <2>4. /\ Kept(state, state') /\ SameFrame(state, state') /\ Fitting(state', Pod)
          /\ WaitOk(f.w) /\ f.budgets \in Budgets
        BY <1>1, <2>2, FilledNodeKept DEF IInv, Remembered
    <2>5. Remembered'
        BY <1>2, <1>3, <2>1, <2>3, <2>4 DEF IInv, Remembered
    <2>6. Placing'
        BY <1>1, <2>3, <2>4 DEF Placing, Kept
    <2>7. Lasts(state, state')
        BY <2>4, PassesLast
    <2>8. Announced'
        <3>1. \A i \in DOMAIN LaunchOrder :
                  state.nodes[LaunchOrder[i]] = "fresh" => state'.nodes[LaunchOrder[i]] = "fresh"
            BY <2>7, FreshLasts
        <3> QED BY <1>4, <2>7, <3>1 DEF IInv, Announced, Done, Lasts
    <2>9. PendingAreWaiting'
        <3>1. Queued(state')
            BY <2>6 DEF Placing
        <3>2. \A p \in Pod : Is(state', p, "Pending") => Loop \in FollowUp(state')
            BY <3>1, LoopFollows
        <3> QED BY <1>2, <3>2 DEF PendingAreWaiting, Pending
    <2> QED BY <2>3, <2>5, <2>6, <2>8, <2>9 DEF IInv, Advances
<1> QED BY <1>2, <1>5, <1>6

LEMMA ProvisioningStep ==
    ASSUME IInv, KarpenterProvisioningLoop
    PROVE  Advances
<1>1. /\ Sound(state) /\ Queued(state) /\ caches \in AllCaches
      /\ saturated \in SUBSET Node /\ hints \in [Pod -> 0..Len(launched_nodes)]
      /\ ready \in [Node -> BOOLEAN]
    BY DEF IInv, Placing, Remembered
<1>2. /\ \E more \in Provisions(state') : events' = (events \ {Loop}) \cup more
      /\ UNCHANGED <<strategy, ready, cordoned, saturated, launched_nodes, hints, budgets>>
      /\ InReverse' = InReverse
    BY DEF KarpenterProvisioningLoop, InReverse
<1>3. /\ Launching \in events' =>
             Launching \in events
               \/ \E i \in DOMAIN LaunchOrder : state'.nodes[LaunchOrder[i]] = "fresh"
      /\ \A p \in Pod : Done(p) \in events' => Done(p) \in events
    <2>1. PICK more \in Provisions(state') : events' = (events \ {Loop}) \cup more
        BY <1>2
    <2>2. /\ more \subseteq {Loop, Launching}
          /\ Launching \in more
               => \E i \in DOMAIN LaunchOrder : state'.nodes[LaunchOrder[i]] = "fresh"
        BY EventsDiffer DEF Provisions
    <2> QED BY <2>1, <2>2, EventsDiffer
<1>4. CASE InReverse /\ wait' = Requeued(state) /\ UNCHANGED <<state, caches>>
    <2>1. /\ WaitOk(wait') /\ wait.in_queue \subseteq wait'.in_queue
          /\ \A p \in QueueSet(state.pending_queue) : Is(state, p, "Pending")
               => p \in wait'.in_queue
        BY <1>1, <1>4, RequeuedOk DEF IInv, Remembered, Sound
    <2>2. Remembered'
        BY <1>2, <1>4, <2>1 DEF IInv, Remembered
    <2>3. Placing'
        BY <1>2, <1>4 DEF IInv, Placing
    <2>4. Announced'
        BY <1>3, <1>4 DEF IInv, Announced, Done
    <2>5. PendingAreWaiting'
        BY <1>1, <1>4, <2>1 DEF PendingAreWaiting, Pending, Queued
    <2> QED BY <1>4, <2>2, <2>3, <2>4, <2>5 DEF IInv, Advances
<1>5. CASE ~ InReverse
    <2> DEFINE up == Up(state, ready)
    <2>1. PICK x \in CachedPass(state, caches, up, saturated, state.pending_queue) :
              state' = x.c /\ caches' = x.caches
        BY <1>5 DEF KarpenterProvisioningLoop, Passes
    <2>2. wait' = wait
        BY <1>5 DEF KarpenterProvisioningLoop
    <2>3. up \in SUBSET Node /\ state.pending_queue \in Seq(Pod)
        BY <1>1 DEF Up, Sound, ClusterType
    <2> HIDE DEF up
    <2>4. caches' \in AllCaches /\ CachedTo(state, caches, state', caches', up)
        BY <1>1, <2>1, <2>3, CachedPassOutcome
    <2> QED BY <1>1, <1>2, <1>3, <1>5, <2>2, <2>4, PassingAdvances
<1>6. \/ InReverse /\ wait' = Requeued(state) /\ UNCHANGED <<state, caches>>
      \/ ~ InReverse
    BY DEF KarpenterProvisioningLoop
<1> QED BY <1>4, <1>5, <1>6

\* A step between the passes, in the parts of the invariant.
LEMMA CalmAdvances ==
    ASSUME IInv, Calm(state, state'), Lasts(state, state'), Remembered',
           strategy' = strategy,
           Launching \in events' => Launching \in events,
           \A p \in Pod : Done(p) \in events' => Done(p) \in events,
           PendingAreWaiting'
    PROVE  Advances
<1>1. /\ Queued(state) /\ Fitting(state, Pod) /\ (~ InReverse => AllAdmitted(state))
    BY DEF IInv, Placing
<1>2. /\ Sound(state') /\ Queued(state') /\ Fitting(state', Pod)
      /\ ~ InReverse => AllAdmitted(state')
      /\ HeldIn(state) => HeldIn(state')
    BY <1>1, FewerAdmitted, FewerHeld DEF Calm
<1>3. Placing'
    BY <1>2 DEF Placing, InReverse
<1>4. Announced'
    <2>1. \A p \in Pod : LivePod(state, p) => LivePod(state', p)
        BY DEF Lasts
    <2>2. \A i \in DOMAIN LaunchOrder :
              state.nodes[LaunchOrder[i]] = "fresh" => state'.nodes[LaunchOrder[i]] = "fresh"
        BY FreshLasts
    <2> QED BY <2>1, <2>2 DEF IInv, Announced, Done
<1> QED BY <1>2, <1>3, <1>4 DEF IInv, Advances

LEMMA NodeCordonedStep ==
    ASSUME IInv, NEW n \in Node, NodeCordoned(n)
    PROVE  Advances
<1>1. /\ cordoned' = [cordoned EXCEPT ![n] = TRUE]
      /\ events' = events \cup {On("NodeDrained", n)}
      /\ UNCHANGED <<strategy, state, ready, caches, saturated, launched_nodes, hints, wait,
           budgets>>
    BY DEF NodeCordoned, memory
<1>2. Remembered'
    BY <1>1 DEF IInv, Remembered
<1>3. Placing'
    BY <1>1 DEF IInv, Placing, InReverse
<1>4. Launching \in events' => Launching \in events
    BY <1>1, EventsDiffer
<1>5. \A p \in Pod : Done(p) \in events' => Done(p) \in events
    BY <1>1, EventsDiffer
<1>6. Announced'
    BY <1>1, <1>4, <1>5 DEF IInv, Announced, Done
<1>7. PendingAreWaiting'
    BY <1>1 DEF IInv, PendingAreWaiting, Pending, InReverse
<1> QED BY <1>1, <1>2, <1>3, <1>6, <1>7 DEF IInv, Advances

LEMMA NodeDrainedStep ==
    ASSUME IInv, NEW n \in Node, NodeDrained(n)
    PROVE  Advances
<1>1. PICK order \in SetToSeqs(state.podsOn[n]) : state' = FoldLeft(EvictPod, state, order)
    BY DEF NodeDrained
<1>2. /\ events' = (events \ {On("NodeDrained", n)}) \cup {On("NodeTerminated", n)}
           \cup FollowUp(state')
      /\ UNCHANGED <<strategy, ready, cordoned, caches, saturated, launched_nodes, hints, wait,
           budgets>>
    BY DEF NodeDrained, memory
<1>3. Sound(state) /\ Queued(state)
    BY DEF IInv, Placing
<1>4. order \in Seq(Pod)
    <2>1. IsFiniteSet(state.podsOn[n]) /\ state.podsOn[n] \in SUBSET Pod
        BY <1>3 DEF Sound, FiniteLists, ClusterType
    <2>2. order \in Seq(state.podsOn[n])
        BY <1>1, <2>1, OrderOf
    <2> QED BY <2>1, <2>2, SeqOver
<1>5. Calm(state, state') /\ Lasts(state, state')
    BY <1>1, <1>3, <1>4, EvictAllCalm
<1>6. Remembered'
    BY <1>2 DEF IInv, Remembered
<1>7. /\ Launching \in events' => Launching \in events
      /\ \A p \in Pod : Done(p) \in events' => Done(p) \in events
    BY <1>2, EventsDiffer DEF FollowUp
<1>8. PendingAreWaiting'
    <2>1. Queued(state')
        BY <1>3, <1>5 DEF Calm
    <2>2. \A p \in Pod : Is(state', p, "Pending") => Loop \in FollowUp(state')
        BY <2>1, LoopFollows
    <2> QED BY <1>2, <2>2 DEF PendingAreWaiting, Pending
<1> QED BY <1>2, <1>5, <1>6, <1>7, <1>8, CalmAdvances

\* Nothing is cached any more.
LEMMA NoCachesTyped == NoCaches \in AllCaches
<1>1. /\ <<>> \in Tables(SpreadKeys, Entry!Entries) /\ <<>> \in Tables(MatchKeys, BOOLEAN)
      /\ <<>> \in Tables(CountKeys, Nat)
    BY NothingTabled
<1> QED BY <1>1, CacheFields DEF NoCaches

LEMMA NodeTerminatedStep ==
    ASSUME IInv, NEW n \in Node, NodeTerminated(n)
    PROVE  Advances
<1>1. /\ state' = RemoveNode(state, n)
      /\ ready' = [ready EXCEPT ![n] = FALSE]
      /\ cordoned' = [cordoned EXCEPT ![n] = FALSE]
      /\ caches' = NoCaches /\ saturated' = {}
      /\ events' = events \ {On("NodeTerminated", n)}
      /\ UNCHANGED <<strategy, launched_nodes, hints, wait, budgets>>
    BY DEF NodeTerminated, Forgotten
<1>2. /\ Calm(state, state') /\ Lasts(state, state')
      /\ \A q \in Pod : Is(state', q, "Pending") <=> Is(state, q, "Pending")
    BY <1>1, RemoveNodeCalm DEF IInv, Placing
<1>3. Remembered'
    BY <1>1, NoCachesTyped DEF IInv, Remembered
<1>4. /\ Launching \in events' => Launching \in events
      /\ \A p \in Pod : Done(p) \in events' => Done(p) \in events
      /\ Loop \in events => Loop \in events'
    BY <1>1, EventsDiffer
<1>5. PendingAreWaiting'
    BY <1>1, <1>2, <1>4 DEF IInv, PendingAreWaiting, Pending, InReverse
<1> QED BY <1>1, <1>2, <1>3, <1>4, <1>5, CalmAdvances

LEMMA PodCompletedStep ==
    ASSUME IInv, NEW p \in Pod, PodCompleted(p)
    PROVE  Advances
<1>1. /\ Done(p) \in events
      /\ wait' = RemoveWaiting(wait, p)
      /\ state' = Ended(state, p)
      /\ events' = events \ {Done(p)}
      /\ UNCHANGED <<strategy, ready, cordoned, caches, saturated, launched_nodes, hints, budgets>>
    BY DEF PodCompleted, Done, Ended
<1>2. LivePod(state, p)
    BY <1>1 DEF IInv, Announced, Done
<1>3. /\ Calm(state, state') /\ Lasts(state, state') /\ ~ Is(state', p, "Pending")
      /\ \A q \in Pod \ {p} : Is(state', q, "Pending") <=> Is(state, q, "Pending")
    BY <1>1, <1>2, EndedCalm DEF IInv, Placing
<1>4. WaitOk(wait') /\ wait'.in_queue = wait.in_queue \ {p}
    BY <1>1, RemoveWaitingOk DEF IInv, Remembered
<1>5. Remembered'
    BY <1>1, <1>4 DEF IInv, Remembered
<1>6. /\ Launching \in events' => Launching \in events
      /\ \A q \in Pod : Done(q) \in events' => Done(q) \in events
      /\ Loop \in events => Loop \in events'
    BY <1>1, EventsDiffer
<1>7. PendingAreWaiting'
    BY <1>1, <1>3, <1>4, <1>6 DEF IInv, PendingAreWaiting, Pending, InReverse
<1> QED BY <1>1, <1>3, <1>5, <1>6, <1>7, CalmAdvances

LEMMA StutterStep ==
    ASSUME IInv, UNCHANGED vars
    PROVE  Advances
<1>1. UNCHANGED <<strategy, state, ready, cordoned, events, caches, saturated, launched_nodes,
        hints,
                  wait, budgets>>
    BY DEF vars
<1>2. Remembered'
    BY <1>1 DEF IInv, Remembered
<1>3. Placing'
    BY <1>1 DEF IInv, Placing, InReverse
<1>4. Announced'
    BY <1>1 DEF IInv, Announced
<1>5. PendingAreWaiting'
    BY <1>1 DEF IInv, PendingAreWaiting, Pending, InReverse
<1> QED BY <1>1, <1>2, <1>3, <1>4, <1>5 DEF IInv, Advances

LEMMA EveryStepAdvances ==
    ASSUME IInv, [Next]_vars
    PROVE  Advances
<1>1. CASE \E p \in Pod : PodSubmitted(p)
    BY <1>1, PodSubmittedStep
<1>2. CASE \E p \in Pod : PodCompleted(p)
    BY <1>2, PodCompletedStep
<1>3. CASE NodeLaunching
    BY <1>3, NodeLaunchingStep
<1>4. CASE KarpenterProvisioningLoop
    BY <1>4, ProvisioningStep
<1>5. CASE \E n \in Node : NodeReady(n)
    BY <1>5, NodeReadyStep
<1>6. CASE \E n \in Node : NodeCordoned(n)
    BY <1>6, NodeCordonedStep
<1>7. CASE \E n \in Node : NodeDrained(n)
    BY <1>7, NodeDrainedStep
<1>8. CASE \E n \in Node : NodeTerminated(n)
    BY <1>8, NodeTerminatedStep
<1>9. CASE Finished \/ UNCHANGED vars
    BY <1>9, StutterStep DEF Finished
<1> QED BY <1>1, <1>2, <1>3, <1>4, <1>5, <1>6, <1>7, <1>8, <1>9 DEF Next

-----------------------------------------------------------------------------
LEMMA InitHolds ==
    ASSUME Init
    PROVE  IInv
<1> DEFINE live == [n \in Node |-> IF n \in InitialNodes THEN "live" ELSE "fresh"]
           offers == [n \in Node |-> IF n \in InitialNodes THEN Capacity[n] ELSE 0]
<1>1. /\ strategy \in Strategy
      /\ state = [nodes |-> live, allocatable |-> offers, allocated |-> [n \in Node |-> 0],
                  podsOn |-> [n \in Node |-> {}], pods |-> [p \in Pod |-> "fresh"],
                  phase |-> [p \in Pod |-> "Pending"], node |-> [p \in Pod |-> NoNode],
                  requests |-> [p \in Pod |-> 0], resize_status |-> [p \in Pod |-> "None"],
                  pending_queue |-> <<>>]
      /\ ready = [n \in Node |-> n \in InitialNodes]
      /\ cordoned = [n \in Node |-> FALSE]
      /\ events = {On("NodeReady", n) : n \in InitialNodes} \cup {Loop}
      /\ caches = NoCaches /\ saturated = {}
      /\ launched_nodes = <<>> /\ hints = [p \in Pod |-> 0]
      /\ wait = NoWait /\ budgets = <<>>
    BY DEF Init, EmptyCluster
<1>2. live \in [Node -> Life] /\ offers \in [Node -> Nat]
    BY StrategiesAssumption DEF Life
<1> HIDE DEF live, offers
<1>3. state \in ClusterType
    BY <1>1, <1>2 DEF ClusterType, Life, PodPhase, ResizeStatus
<1>4. \A n \in Node : state.podsOn[n] = {} /\ state.allocated[n] = 0
    BY <1>1
<1>5. \A p \in Pod : ~ LivePod(state, p) /\ \A phase : ~ Is(state, p, phase)
    BY <1>1 DEF LivePod, Is
<1>6. \A n \in Node : Sum(state.requests, {}) = 0
    BY SumEmpty
<1>7. Sound(state)
    <2>1. AllocationExact(state)
        <3>1. \A n \in Node : Booked(state, n)
            BY <1>4, <1>6 DEF Booked
        <3> QED BY <3>1, AllocationIs
    <2>2. LinksAgree(state) /\ Placed(state)
        BY <1>4, <1>5 DEF LinksAgree, Placed
    <2>3. FiniteLists(state)
        BY <1>4, FS_EmptySet DEF FiniteLists
    <2> QED BY <1>3, <2>1, <2>2, <2>3 DEF Sound
<1>8. Queued(state)
    <2>1. QueueSet(<<>>) = {} /\ NoDuplicates(<<>>)
        BY DEF QueueSet, NoDuplicates
    <2>2. state.pending_queue = <<>>
        BY <1>1
    <2> QED BY <1>5, <2>1, <2>2 DEF Queued
<1>9. Fitting(state, Pod)
    <2> SUFFICES ASSUME NEW n \in Node
                 PROVE  Sum(state.requests, state.podsOn[n] \cap Pod) <= state.allocatable[n]
        BY DEF Fitting
    <2>1. state.podsOn[n] \cap Pod = {}
        BY <1>4
    <2>2. Sum(state.requests, state.podsOn[n] \cap Pod) = 0
        BY <1>6, <2>1
    <2> QED BY <1>3, <2>2 DEF ClusterType
<1>10. Placing
    BY <1>5, <1>7, <1>8, <1>9 DEF Placing, AllAdmitted, RunsIn
<1>11. Remembered
    <2>1. hints \in [Pod -> 0..Len(launched_nodes)] /\ launched_nodes \in Seq(Node)
        BY <1>1
    <2>2. budgets \in Budgets
        BY <1>1, NothingTabled DEF Budgets
    <2> QED BY <1>1, <2>1, <2>2, NoCachesTyped, NoWaitOk DEF Remembered
<1>12. Announced
    BY <1>1, EventsDiffer DEF Announced, Done
<1>13. PendingAreWaiting
    BY <1>5 DEF PendingAreWaiting, Pending
<1> QED BY <1>10, <1>11, <1>12, <1>13 DEF IInv

\* The cluster stays sound, the memories beside it keep their form, and who pends waits.
THEOREM StrategiesInvariant == Spec => []IInv
<1>1. Init => IInv
    BY InitHolds
<1>2. IInv /\ [Next]_vars => IInv'
    BY EveryStepAdvances DEF Advances
<1> QED BY <1>1, <1>2, PTL DEF Spec

\* Type correctness.
THEOREM StrategiesTypeCorrect == Spec => []TypeOK
<1>1. IInv => TypeOK
    <2> SUFFICES ASSUME IInv PROVE TypeOK
        OBVIOUS
    <2>1. caches.spread \in [DOMAIN caches.spread -> Entry!Entries]
        BY CacheParts, TableMember DEF IInv, Remembered
    <2>2. caches.match \in [DOMAIN caches.match -> BOOLEAN]
        BY CacheParts, TableMember DEF IInv, Remembered
    <2>3. caches.count \in [DOMAIN caches.count -> Nat]
        BY CacheParts, TableMember DEF IInv, Remembered
    <2>4. DOMAIN budgets \subseteq {Owner[p] : p \in Pod} \X Key
        BY TableMember DEF IInv, Remembered, Budgets, Owners
    <2>5. wait.in_queue \subseteq Pod
        BY WaitParts DEF IInv, Remembered, WaitOk
    <2> QED BY <2>1, <2>2, <2>3, <2>4, <2>5 DEF TypeOK, IInv, Remembered, Placing, Sound
<1> QED BY <1>1, StrategiesInvariant, PTL

\* Where a pod runs it fits, under every strategy and whatever the provisioner and the
\* consolidation do; unless the nodes are filled from the wait queue it is admitted there.
THEOREM WellPlacedCorrect == Spec => []WellPlaced
<1>1. IInv => WellPlaced
    <2> SUFFICES ASSUME IInv PROVE WellPlaced
        OBVIOUS
    <2>1. Sound(state) /\ Fitting(state, Pod) /\ (~ InReverse => AllAdmitted(state))
        BY DEF IInv, Placing
    <2>2. ASSUME NEW n \in Node, LiveNode(state, n)
          PROVE  state.allocated[n] <= state.allocatable[n]
        <3>1. state.podsOn[n] \cap Pod = state.podsOn[n]
            BY <2>1 DEF Sound, ClusterType
        <3>2. Sum(state.requests, state.podsOn[n]) <= state.allocatable[n]
            BY <2>1, <2>2, <3>1 DEF Fitting, LiveNode
        <3>3. state.allocated[n] = Sum(state.requests, state.podsOn[n])
            BY <2>1, <2>2, AllocationIs DEF Sound, Booked, LiveNode
        <3> QED BY <3>2, <3>3
    <2>3. Admitted
        BY <2>1 DEF Admitted, AllAdmitted, RunsIn, Suitable
    <2> QED BY <2>2, <2>3 DEF WellPlaced, WorkFits
<1> QED BY <1>1, StrategiesInvariant, PTL

\* No pod falls out of the wait queue: who pends is in it or a loop is on its way that puts it
\* there, and who is in it has an entry.
THEOREM NobodyForgottenCorrect == Spec => []NobodyForgotten
<1>1. IInv => NobodyForgotten
    <2> SUFFICES ASSUME IInv PROVE NobodyForgotten
        OBVIOUS
    <2>1. WaitingHaveEntries
        BY DEF IInv, Remembered, WaitOk, EntriesOf, WaitingHaveEntries
    <2> QED BY <2>1 DEF IInv, NobodyForgotten
<1> QED BY <1>1, StrategiesInvariant, PTL

\* While the cache misses no match, no step puts two pods into one domain that keep apart.
THEOREM ApartWhileKnownCorrect == Spec => ApartWhileKnown
<1>1. ASSUME IInv, [Next]_vars, ~ InReverse, NoMatchMissed, AntiAffinityHeld
      PROVE  AntiAffinityHeld'
    <2>1. MissesNone(state, caches)
        BY <1>1 DEF NoMatchMissed, MissesNone
    <2>2. HeldIn(state)
        BY <1>1 DEF AntiAffinityHeld, HeldIn, RunsIn, Apart, ApartIn
    <2>3. HeldIn(state')
        BY <1>1, <2>1, <2>2, EveryStepAdvances DEF Advances
    <2> QED BY <2>3 DEF AntiAffinityHeld, HeldIn, RunsIn, Apart, ApartIn
<1>2. IInv /\ [Next]_vars => [~ InReverse /\ NoMatchMissed /\ AntiAffinityHeld
        => AntiAffinityHeld']_vars
    BY <1>1
<1> QED BY <1>2, StrategiesInvariant, PTL DEF Spec, ApartWhileKnown

\* A provisioning loop that changes nothing leaves no pod that a node would take as it is,
\* whatever the caches and the marks of saturated nodes say.
THEOREM NothingFeasibleLeftCorrect == Spec => NothingFeasibleLeft
<1>1. ASSUME IInv, KarpenterProvisioningLoop, ~ InReverse, state' = state,
             QueueSet(state.pending_queue) \subseteq Pending
      PROVE  \A p \in Pending : Admissible(state, Up(state, ready), p) = {}
    <2> DEFINE up == Up(state, ready)
               q == state.pending_queue
    <2>1. PICK x \in CachedPass(state, caches, up, saturated, q) : state' = x.c
        BY <1>1 DEF KarpenterProvisioningLoop, Passes
    <2>2. Sound(state) /\ Queued(state) /\ caches \in AllCaches
        BY <1>1 DEF IInv, Placing, Remembered
    <2>3. up \in SUBSET Node /\ q \in Seq(Pod)
        BY <2>2 DEF Up, Sound, ClusterType
    <2>4. \A p \in QueueSet(q) : Is(state, p, "Pending")
        BY <1>1 DEF Pending
    <2>5. Pending \subseteq QueueSet(q)
        BY <2>2 DEF Queued, Pending
    <2>6. x.c = state
        BY <1>1, <2>1
    <2> HIDE DEF up, q
    <2>7. \A p \in QueueSet(q) : Admissible(state, up, p) = {}
        BY <2>1, <2>2, <2>3, <2>4, <2>6, PassTriesAll
    <2> QED BY <2>5, <2>7 DEF up
<1>2. IInv /\ [Next]_vars =>
          [KarpenterProvisioningLoop /\ ~ InReverse /\ state' = state
              /\ QueueSet(state.pending_queue) \subseteq Pending =>
           \A p \in Pending : Admissible(state, Up(state, ready), p) = {}]_vars
    BY <1>1
<1> QED BY <1>2, StrategiesInvariant, PTL DEF Spec, NothingFeasibleLeft
=============================================================================

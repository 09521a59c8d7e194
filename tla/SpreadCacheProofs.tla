-------------------------- MODULE SpreadCacheProofs --------------------------
(***************************************************************************)
(* The cached counts of topology spread, for any nodes, pods and domains:  *)
(* the cache knows the live domains and its minimum is never too high.     *)
(***************************************************************************)
EXTENDS SpreadCache, FiniteSetTheorems, TLAPS

\* A scan counts pods.
LEMMA CountIsNat == \A d : Count(d) \in Nat
  <1>1. TAKE d
  <1>2. {p \in Pod : on[p] \in live /\ DomainOf[on[p]] = d} \subseteq Pod
    OBVIOUS
  <1>3. IsFiniteSet({p \in Pod : on[p] \in live /\ DomainOf[on[p]] = d})
    BY <1>2, FS_Subset, SpreadAssumption
  <1> QED
    BY <1>3, FS_CardinalityType DEF Count

\* Live nodes have labels among the domains.
LEMMA LiveDomainsTyped ==
  ASSUME live \subseteq Node
  PROVE  LiveDomains \subseteq Domain
  BY SpreadAssumption DEF LiveDomains

\* A notice of a bound pod keeps an entry typed and its minimum below its counts.
LEMMA PodBoundKeeps ==
  ASSUME NEW e \in [domains : SUBSET Domain, counts : [Domain -> Nat], min : Nat],
         NEW d \in Domain \cup {NoDomain},
         \A x \in e.domains : e.min <= e.counts[x]
  PROVE  /\ PodBound(e, d) \in [domains : SUBSET Domain, counts : [Domain -> Nat], min : Nat]
         /\ PodBound(e, d).domains = e.domains \cup ({d} \ {NoDomain})
         /\ d \in e.domains \cup {NoDomain} =>
              \A x \in PodBound(e, d).domains : PodBound(e, d).min <= PodBound(e, d).counts[x]
  <1>1. CASE d = NoDomain
    BY <1>1 DEF PodBound
  <1>2. CASE d # NoDomain
    <2> DEFINE still == \E x \in e.domains \ {d} : e.counts[x] = e.counts[d]
               b == PodBound(e, d)
    <2>1. d \in Domain
      BY <1>2
    <2>2. /\ b.domains = e.domains \cup {d}
          /\ b.counts = [e.counts EXCEPT ![d] = @ + 1]
          /\ b.min = IF e.counts[d] = e.min /\ ~ still THEN e.min + 1 ELSE e.min
          /\ b = [domains |-> b.domains, counts |-> b.counts, min |-> b.min]
      BY <1>2 DEF PodBound
    <2> HIDE DEF b
    <2>3. b \in [domains : SUBSET Domain, counts : [Domain -> Nat], min : Nat]
      <3>1. b.domains \in SUBSET Domain /\ b.counts \in [Domain -> Nat]
        BY <2>1, <2>2
      <3>2. b.min \in Nat
        <4> HIDE DEF still
        <4> QED
          BY <2>2
      <3> QED
        BY <2>2, <3>1, <3>2
    <2>4. ASSUME d \in e.domains, NEW x \in b.domains
          PROVE  b.min <= b.counts[x]
      <3>1. x \in e.domains /\ x \in Domain
        BY <2>2, <2>4
      <3>2. CASE x = d
        <4>1. b.counts[x] = e.counts[d] + 1
          BY <2>1, <2>2, <3>2
        <4> QED
          BY <4>1, <2>2, <2>4
      <3>3. CASE x # d
        <4>1. b.counts[x] = e.counts[x] /\ e.min <= e.counts[x]
          BY <2>2, <3>1, <3>3
        <4>2. CASE e.counts[d] = e.min /\ ~ still
          <5>1. e.counts[x] # e.counts[d]
            BY <3>1, <3>3, <4>2
          <5> QED
            BY <2>2, <3>1, <4>1, <4>2, <5>1
        <4>3. CASE ~ (e.counts[d] = e.min /\ ~ still)
          BY <2>2, <4>1, <4>3
        <4> QED
          BY <4>2, <4>3
      <3> QED
        BY <3>2, <3>3
    <2>5. b.domains = e.domains \cup ({d} \ {NoDomain}) /\ d \notin {NoDomain}
      BY <1>2, <2>2
    <2> QED
      BY <2>3, <2>4, <2>5 DEF b
  <1> QED
    BY <1>1, <1>2

\* So does a notice of a new node, whose domain counts zero if it was not known.
LEMMA NodeAddedKeeps ==
  ASSUME NEW e \in [domains : SUBSET Domain, counts : [Domain -> Nat], min : Nat],
         NEW d \in Domain \cup {NoDomain}
  PROVE  /\ NodeAdded(e, d) \in [domains : SUBSET Domain, counts : [Domain -> Nat], min : Nat]
         /\ NodeAdded(e, d).domains = e.domains \cup ({d} \ {NoDomain})
         /\ \A x \in NodeAdded(e, d).domains : NodeAdded(e, d).min <= NodeAdded(e, d).counts[x]
  <1> DEFINE a == NodeAdded(e, d)
  <1>1. /\ a.domains = e.domains \cup ({d} \ {NoDomain})
        /\ a.counts = e.counts
        /\ a.min = 0
        /\ a = [domains |-> a.domains, counts |-> a.counts, min |-> a.min]
    BY DEF NodeAdded, Named
  <1>2. a.domains \subseteq Domain /\ a.domains = e.domains \cup ({d} \ {NoDomain})
    BY <1>1
  <1> HIDE DEF a
  <1>3. a \in [domains : SUBSET Domain, counts : [Domain -> Nat], min : Nat]
    BY <1>1, <1>2
  <1>4. \A x \in a.domains : a.min <= a.counts[x]
    BY <1>1, <1>2
  <1> QED
    BY <1>2, <1>3, <1>4 DEF a

-----------------------------------------------------------------------------
LEMMA NoEntryTyped == NoEntry \in [domains : SUBSET Domain, counts : [Domain -> Nat], min : Nat]
  <1>1. [d \in Domain |-> 0] \in [Domain -> Nat]
    OBVIOUS
  <1> QED
    BY <1>1 DEF NoEntry

LEMMA InitEstablishes == Init => CacheSafe
  BY NoEntryTyped DEF Init, CacheSafe, TypeOK, DomainsKnown, MinBelow

LEMMA GetKeeps == CacheSafe /\ GetDomainCounts => CacheSafe'
  <1> SUFFICES ASSUME CacheSafe, GetDomainCounts PROVE CacheSafe'
    OBVIOUS
  <1> USE DEF CacheSafe, TypeOK
  <1>1. PICK m \in {0} \cup {Count(d) : d \in LiveDomains} :
          /\ IsLeast(m, LiveDomains, DomainCounts)
          /\ entry' = [domains |-> LiveDomains, counts |-> DomainCounts, min |-> m]
    BY DEF GetDomainCounts
  <1>2. UNCHANGED <<live, on>> /\ cached' = TRUE
    BY DEF GetDomainCounts
  <1>3. m \in Nat /\ DomainCounts \in [Domain -> Nat] /\ LiveDomains \subseteq Domain
    BY CountIsNat, LiveDomainsTyped DEF DomainCounts
  <1>4. LiveDomains' = LiveDomains
    BY <1>2 DEF LiveDomains
  <1>5. TypeOK'
    BY <1>1, <1>2, <1>3
  <1>6. DomainsKnown'
    BY <1>1, <1>4 DEF DomainsKnown
  <1>7. MinBelow'
    BY <1>1 DEF MinBelow, IsLeast
  <1> QED
    BY <1>5, <1>6, <1>7

LEMMA NodeAddedStep == ASSUME NEW n \in Node PROVE CacheSafe /\ OnNodeAdded(n) => CacheSafe'
  <1> SUFFICES ASSUME CacheSafe, OnNodeAdded(n) PROVE CacheSafe'
    OBVIOUS
  <1> USE DEF CacheSafe, TypeOK
  <1>1. /\ live' = live \cup {n} /\ UNCHANGED <<on, cached>>
        /\ entry' = IF cached THEN NodeAdded(entry, DomainOf[n]) ELSE entry
    BY DEF OnNodeAdded
  <1>2. DomainOf[n] \in Domain \cup {NoDomain}
    BY SpreadAssumption
  <1>3. LiveDomains' = LiveDomains \cup ({DomainOf[n]} \ {NoDomain})
    BY <1>1 DEF LiveDomains
  <1>4. CASE cached
    <2>1. entry' = NodeAdded(entry, DomainOf[n])
      BY <1>1, <1>4
    <2>2. TypeOK'
      BY <1>1, <1>2, <2>1, NodeAddedKeeps
    <2>3. DomainsKnown'
      BY <1>2, <1>3, <1>4, <2>1, NodeAddedKeeps DEF DomainsKnown
    <2>4. MinBelow'
      BY <1>2, <2>1, NodeAddedKeeps DEF MinBelow
    <2> QED
      BY <2>2, <2>3, <2>4
  <1>5. CASE ~ cached
    BY <1>1, <1>5 DEF DomainsKnown, MinBelow
  <1> QED
    BY <1>4, <1>5

LEMMA PodBoundStep ==
  ASSUME NEW p \in Pod, NEW n \in Node
  PROVE  CacheSafe /\ OnPodBound(p, n) => CacheSafe'
  <1> SUFFICES ASSUME CacheSafe, OnPodBound(p, n) PROVE CacheSafe'
    OBVIOUS
  <1> USE DEF CacheSafe, TypeOK
  <1>1. /\ n \in live /\ UNCHANGED <<live, cached>>
        /\ on' = [on EXCEPT ![p] = n]
        /\ entry' = IF cached THEN PodBound(entry, DomainOf[n]) ELSE entry
    BY DEF OnPodBound
  <1>2. DomainOf[n] \in Domain \cup {NoDomain}
    BY SpreadAssumption
  <1>3. LiveDomains' = LiveDomains
    BY <1>1 DEF LiveDomains
  <1>4. CASE cached
    <2>1. entry' = PodBound(entry, DomainOf[n])
      BY <1>1, <1>4
    <2>2. DomainOf[n] \in entry.domains \cup {NoDomain}
      BY <1>1, <1>4 DEF DomainsKnown, LiveDomains
    <2>3. \A x \in entry.domains : entry.min <= entry.counts[x]
      BY <1>4 DEF MinBelow
    <2>4. TypeOK'
      BY <1>1, <1>2, <2>1, <2>3, PodBoundKeeps
    <2>5. entry'.domains = entry.domains
      <3>1. PodBound(entry, DomainOf[n]).domains = entry.domains \cup ({DomainOf[n]} \ {NoDomain})
        BY <1>2, <2>3, PodBoundKeeps
      <3> QED
        BY <2>1, <2>2, <3>1
    <2>6. DomainsKnown'
      BY <1>3, <1>4, <2>5 DEF DomainsKnown
    <2>7. MinBelow'
      BY <1>2, <2>1, <2>2, <2>3, PodBoundKeeps DEF MinBelow
    <2> QED
      BY <2>4, <2>6, <2>7
  <1>5. CASE ~ cached
    BY <1>1, <1>5 DEF DomainsKnown, MinBelow
  <1> QED
    BY <1>4, <1>5

LEMMA NextKeeps == CacheSafe /\ [Next]_vars => CacheSafe'
  <1> SUFFICES ASSUME CacheSafe, [Next]_vars PROVE CacheSafe'
    OBVIOUS
  <1>1. CASE GetDomainCounts
    BY <1>1, GetKeeps
  <1>2. ASSUME NEW n \in Node, OnNodeAdded(n) PROVE CacheSafe'
    BY <1>2, NodeAddedStep
  <1>3. ASSUME NEW n \in Node, RemoveNode(n) PROVE CacheSafe'
    BY <1>3, NoEntryTyped DEF CacheSafe, TypeOK, DomainsKnown, MinBelow, RemoveNode, Invalidate
  <1>4. ASSUME NEW p \in Pod, Leave(p) PROVE CacheSafe'
    BY <1>4 DEF CacheSafe, TypeOK, DomainsKnown, MinBelow, LiveDomains, Leave
  <1>5. ASSUME NEW p \in Pod, NEW n \in Node, OnPodBound(p, n) PROVE CacheSafe'
    BY <1>5, PodBoundStep
  <1>6. ASSUME NEW p \in Pod, NEW n \in Node, BindQuietly(p, n) PROVE CacheSafe'
    BY <1>6 DEF CacheSafe, TypeOK, DomainsKnown, MinBelow, LiveDomains, BindQuietly
  <1>7. CASE UNCHANGED vars
    BY <1>7 DEF CacheSafe, TypeOK, DomainsKnown, MinBelow, LiveDomains, vars
  <1> QED
    BY <1>1, <1>2, <1>3, <1>4, <1>5, <1>6, <1>7 DEF Next

\* Whatever notices are missed, a cached entry knows the live domains and its minimum
\* is at most each of its counts.
THEOREM SpreadCacheInvariant == Spec => []CacheSafe
  BY InitEstablishes, NextKeeps, PTL DEF Spec

\* The filter that reads the cache (filter_topology_spread_cached) never takes the skew
\* for smaller than the cached counts say.
THEOREM CachedMinimumIsSafe == Spec => []MinBelow
  <1>1. CacheSafe => MinBelow
    BY DEF CacheSafe
  <1> QED
    BY <1>1, SpreadCacheInvariant, PTL

\* A node that joins is known to the cache and a node that leaves is forgotten.
THEOREM CachedDomainsAreLive == Spec => []DomainsKnown
  <1>1. CacheSafe => DomainsKnown
    BY DEF CacheSafe
  <1> QED
    BY <1>1, SpreadCacheInvariant, PTL

-----------------------------------------------------------------------------
\* What a scan finds after one more pod is bound.
LEMMA CountAfterBinding ==
  ASSUME TypeOK, NEW p \in Pod, NEW n \in live, on[p] = NoNode,
         live' = live, on' = [on EXCEPT ![p] = n], NEW d \in Domain
  PROVE  Count(d)' = IF DomainOf[n] = d THEN Count(d) + 1 ELSE Count(d)
  <1> DEFINE S == {q \in Pod : on[q] \in live /\ DomainOf[on[q]] = d}
             T == {q \in Pod : on'[q] \in live' /\ DomainOf[on'[q]] = d}
  <1>1. Count(d) = Cardinality(S) /\ Count(d)' = Cardinality(T)
    BY DEF Count
  <1>2. p \notin S /\ IsFiniteSet(S)
    <2>1. NoNode \notin live
      BY SpreadAssumption DEF TypeOK
    <2>2. S \subseteq Pod
      OBVIOUS
    <2> QED
      BY <2>1, <2>2, FS_Subset, SpreadAssumption
  <1>3. \A q \in Pod : on'[q] = IF q = p THEN n ELSE on[q]
    BY DEF TypeOK
  <1>4. CASE DomainOf[n] = d
    <2>1. T = S \cup {p}
      BY <1>3, <1>4
    <2> HIDE DEF S, T
    <2>2. Cardinality(S \cup {p}) = Cardinality(S) + 1
      BY <1>2, FS_AddElement
    <2> QED
      BY <1>1, <1>4, <2>1, <2>2
  <1>5. CASE DomainOf[n] # d
    <2>1. T = S
      BY <1>2, <1>3, <1>5
    <2> QED
      BY <1>1, <1>5, <2>1
  <1> QED
    BY <1>4, <1>5

\* The minimum follows the counts through a notice.
LEMMA LeastAfterNotice ==
  ASSUME NEW e \in [domains : SUBSET Domain, counts : [Domain -> Nat], min : Nat],
         NEW d \in e.domains, d # NoDomain,
         IsLeast(e.min, e.domains, e.counts)
  PROVE  IsLeast(PodBound(e, d).min, PodBound(e, d).domains, PodBound(e, d).counts)
  <1> DEFINE b == PodBound(e, d)
             still == \E x \in e.domains \ {d} : e.counts[x] = e.counts[d]
  <1>1. /\ b.domains = e.domains
        /\ b.counts = [e.counts EXCEPT ![d] = @ + 1]
        /\ b.min = IF e.counts[d] = e.min /\ ~ still THEN e.min + 1 ELSE e.min
    BY DEF PodBound
  <1>2. \A x \in e.domains : /\ b.counts[x] = IF x = d THEN e.counts[d] + 1 ELSE e.counts[x]
                             /\ e.counts[x] \in Nat /\ e.min <= e.counts[x]
    BY <1>1 DEF IsLeast
  <1> HIDE DEF b
  <1>3. CASE e.counts[d] = e.min /\ ~ still
    <2>1. b.min = e.min + 1 /\ b.counts[d] = e.min + 1
      BY <1>1, <1>2, <1>3
    <2>2. \A x \in e.domains : e.min + 1 <= b.counts[x]
      <3> TAKE x \in e.domains
      <3>1. x # d => e.counts[x] # e.min
        BY <1>3
      <3> QED
        BY <1>2, <1>3, <3>1
    <2> QED
      BY <1>1, <2>1, <2>2 DEF IsLeast, b
  <1>4. CASE ~ (e.counts[d] = e.min /\ ~ still)
    <2>1. b.min = e.min
      BY <1>1, <1>4
    <2>2. \E x \in e.domains \ {d} : e.counts[x] = e.min
      BY <1>4 DEF IsLeast
    <2>3. \E x \in e.domains : b.counts[x] = e.min
      BY <1>2, <2>2
    <2>4. \A x \in e.domains : e.min <= b.counts[x]
      BY <1>2
    <2> QED
      BY <1>1, <2>1, <2>3, <2>4 DEF IsLeast, b
  <1> QED
    BY <1>3, <1>4

\* What a pass binds with a notice does not make an exact entry stale: staleness comes
\* only from the bindings, evictions and completions nobody tells the caches about.
THEOREM NoticesKeepExact == Spec => NoticeKeepsExact
  <1>1. ASSUME CacheSafe, cached, Exact, NEW p \in Pod, NEW n \in Node, OnPodBound(p, n)
        PROVE  Exact'
    <2> USE DEF CacheSafe, TypeOK
    <2>1. /\ n \in live /\ on[p] = NoNode /\ live' = live
          /\ on' = [on EXCEPT ![p] = n] /\ entry' = PodBound(entry, DomainOf[n])
      BY <1>1 DEF OnPodBound
    <2>2. DomainOf[n] \in entry.domains \cup {NoDomain}
      BY <1>1, <2>1 DEF DomainsKnown, LiveDomains
    <2>3. \A d \in Domain : Count(d)' = IF DomainOf[n] = d THEN Count(d) + 1 ELSE Count(d)
      BY <1>1, <2>1, CountAfterBinding
    <2>4. entry.counts = [d \in Domain |-> Count(d)] /\ IsLeast(entry.min, entry.domains, entry.counts)
      BY <1>1 DEF Exact, DomainCounts
    <2>5. CASE DomainOf[n] = NoDomain
      <3>1. entry' = entry /\ \A d \in Domain : Count(d)' = Count(d)
        BY <2>1, <2>3, <2>5, SpreadAssumption DEF PodBound
      <3>2. DomainCounts' = entry.counts
        BY <2>4, <3>1 DEF DomainCounts
      <3> QED
        BY <2>4, <3>1, <3>2 DEF Exact
    <2>6. CASE DomainOf[n] # NoDomain
      <3>1. DomainOf[n] \in entry.domains /\ DomainOf[n] \in Domain
        BY <2>2, <2>6, <1>1
      <3>2. IsLeast(entry'.min, entry'.domains, entry'.counts)
        BY <1>1, <2>1, <2>4, <2>6, <3>1, LeastAfterNotice
      <3>3. entry'.counts = [entry.counts EXCEPT ![DomainOf[n]] = @ + 1]
        BY <2>1, <2>6 DEF PodBound
      <3>4. entry'.counts = [d \in Domain |-> Count(d)']
        BY <2>3, <2>4, <3>1, <3>3
      <3> QED
        BY <3>2, <3>4 DEF Exact, DomainCounts
    <2> QED
      BY <2>5, <2>6
  <1>2. CacheSafe /\ [Next]_vars =>
          [cached /\ Exact /\ (\E p \in Pod, n \in Node : OnPodBound(p, n)) => Exact']_vars
    BY <1>1
  <1> QED
    BY <1>2, SpreadCacheInvariant, PTL DEF Spec, NoticeKeepsExact
=============================================================================

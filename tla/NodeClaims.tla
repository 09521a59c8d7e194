------------------------------ MODULE NodeClaims ------------------------------
(***************************************************************************)
(* One call of provision_versioned (kubesim-karpenter/src/provisioner.rs)  *)
(* on its cost-optimising path, for pods that keep apart or spread over    *)
(* hosts: it deals the pending pods into claims, the nodes to be launched. *)
(* Two indexes narrow the claims that a pod is tried on; they name claims  *)
(* by position, and positions change as claims move to the front.          *)
(* Provisioner has what the call comes to for pods without constraints.    *)
(***************************************************************************)
EXTENDS Integers, Sequences, FiniteSets, FiniteSetsExt

CONSTANTS Kind,         \* what tells pods apart: [owner, size]
          MaxPods,      \* bound of the instance: pods in the queue
          Owner,        \* the workloads
          Labels,       \* of an owner's pods
          AntiAffinity, \* the selectors, sets of labels, of their required host anti-affinity
          Skews,        \* the max_skew of their hard spread constraints over hosts
          Requires,     \* the labels their required node affinity asks for
          Tolerates,    \* the taints they tolerate
          PoolLabels, PoolTaints,
          Largest,      \* what the largest of the pool's instance types offers
          MaxNodes,     \* the pool's limits.max_nodes
          Usages        \* the node counts the pool may be at

ASSUME NodeClaimsAssumption ==
    /\ Kind \subseteq [owner : Owner, size : Nat \ {0}] /\ MaxPods \in Nat
    /\ Skews \in [Owner -> SUBSET (Nat \ {0})]
    /\ Largest \in Nat /\ MaxNodes \in Nat /\ Usages \subseteq Nat

VARIABLES pods,      \* the pending pods in the order of the queue: their kinds
          usage,     \* usage.node_count
          batches,   \* the batches still to be dealt
          todo,      \* the pods of the batch at hand still to be dealt
          claims,    \* its claims: the pod that opened each and the pods it holds
          available, \* owner_available, each list in the order the claims were opened
          holders,   \* label_to_claims
          counted,   \* running_usage.node_count
          decided    \* the decisions: sets of pods that get a node each

indexes == <<available, holders>>
input == <<pods, usage>>
vars == <<input, batches, todo, claims, available, holders, counted, decided>>

OwnerOf(p) == pods[p].owner
LabelsOf(p) == Labels[OwnerOf(p)]
SizeOf(kinds, ps) == MapThenSumSet(LAMBDA p : kinds[p].size, ps)
Total(ps) == SizeOf(pods, ps)

\* Pods are dealt by decreasing request, equals in the order of the queue.
Before(p, q) == pods[p].size > pods[q].size \/ (pods[p].size = pods[q].size /\ p < q)

Matches(p, selector) == selector \subseteq LabelsOf(p)

\* pod_matches_pool: a pool without labels takes pods that require some.
MatchesPool(p) ==
    /\ PoolTaints \subseteq Tolerates[OwnerOf(p)]
    /\ PoolLabels = {} \/ Requires[OwnerOf(p)] \subseteq PoolLabels

\* batch_pending_pods
BatchKey(p) == <<Requires[OwnerOf(p)], Tolerates[OwnerOf(p)]>>
Matching == {p \in DOMAIN pods : MatchesPool(p)}
Batches == {{q \in Matching : BatchKey(q) = BatchKey(p)} : p \in Matching}

NoneAvailable == [o \in Owner |-> {}]
NoHolders == [l \in UNION {Labels[o] : o \in Owner} |-> {}]

Init ==
    /\ pods \in UNION {[1..k -> Kind] : k \in 0..MaxPods}
    /\ batches = Batches
    /\ todo = {} /\ claims = <<>> /\ available = NoneAvailable /\ holders = NoHolders
    /\ usage \in Usages /\ counted = usage
    /\ decided = {}

-----------------------------------------------------------------------------
\* Of the claims, those that some type holds are launched.
Decisions(sets) == {ps \in sets : Total(ps) <= Largest}

AllSame(batch) == Cardinality(batch) > 1 /\ \A p, q \in batch : pods[p] = pods[q]

\* compute_max_per_claim and what the largest type holds: k pods like p share a claim.
MayShare(p, k) ==
    /\ \A skew \in Skews[OwnerOf(p)] : k <= skew
    /\ (\E s \in AntiAffinity[OwnerOf(p)] : Matches(p, s)) => k <= 1
    /\ k * pods[p].size <= Largest

\* effective_max, of which more than there are pods makes no difference.
EffectiveMax(batch, most) ==
    /\ most = 1 \/ \A p \in batch : MayShare(p, most)
    /\ \A k \in most + 1..Cardinality(batch) : \A p \in batch : ~ MayShare(p, k)

Position(batch, p) == Cardinality({q \in batch : q < p})
Share(batch, needed, k) == {p \in batch : Position(batch, p) % needed = k}

\* Uniform pods: as few claims as can be, dealt round-robin, whatever the limit.
DealUniform ==
    \E batch \in batches, most \in 1..MaxPods :
        /\ todo = {} /\ claims = <<>> /\ AllSame(batch)
        /\ most <= Cardinality(batch) /\ EffectiveMax(batch, most)
        /\ LET needed == (Cardinality(batch) + most - 1) \div most
           IN  decided' = decided \cup Decisions({Share(batch, needed, k) : k \in 0..needed - 1})
        /\ batches' = batches \ {batch}
        /\ UNCHANGED <<input, todo, claims, indexes, counted>>

StartBatch ==
    \E batch \in batches :
        /\ todo = {} /\ claims = <<>> /\ ~ AllSame(batch)
        /\ todo' = batch
        /\ batches' = batches \ {batch}
        /\ UNCHANGED <<input, claims, indexes, counted, decided>>

-----------------------------------------------------------------------------
Spreads(p) == Skews[OwnerOf(p)] # {}
KeepsApart(p) == AntiAffinity[OwnerOf(p)] # {}

\* Of a spread pod the claims its owner has in the index, of a pod with anti-affinity those
\* without a label that it excludes or has.
Excluded(p) == UNION {holders[l] : l \in (UNION AntiAffinity[OwnerOf(p)] \cup LabelsOf(p))
                                             \cap DOMAIN holders}

Candidates(p) ==
    IF Spreads(p) THEN available[OwnerOf(p)]
    ELSE {i \in DOMAIN claims : KeepsApart(p) => i \notin Excluded(p)}

\* The order they are tried in.
Sooner(p, i, j) == IF Spreads(p) THEN Before(claims[i].first, claims[j].first) ELSE i < j

FirstThree(p) == {i \in Candidates(p) : Cardinality({j \in Candidates(p) : Sooner(p, j, i)}) < 3}

\* Mutant of Tried: every pod gives up after three misses.
TriedThree(p) == FirstThree(p)

\* A pod with a constraint gives up after three misses.
Tried(p) == IF Spreads(p) \/ KeepsApart(p) THEN FirstThree(p) ELSE Candidates(p)

\* Mutant of Conflict: only what the new pod asks for.
ConflictOneWay(p, ps) == \E q \in ps : \E s \in AntiAffinity[OwnerOf(p)] : Matches(q, s)

\* has_hostname_anti_affinity_conflict
Conflict(p, ps) ==
    \E q \in ps : \/ \E s \in AntiAffinity[OwnerOf(p)] : Matches(q, s)
                  \/ \E s \in AntiAffinity[OwnerOf(q)] : Matches(p, s)

OfOwner(o, ps) == {q \in ps : OwnerOf(q) = o}

\* violates_hostname_spread: with one more pod there would be too many.
Full(o, ps) == \E skew \in Skews[o] : Cardinality(OfOwner(o, ps)) >= skew

Takes(i, p) ==
    /\ Total(claims[i].pods \cup {p}) <= Largest
    /\ ~ Conflict(p, claims[i].pods)
    /\ ~ Full(OwnerOf(p), claims[i].pods)

\* A claim with as many pods of an owner as there may be leaves the owner's list.
Kept(o, list, i, ps) == IF Full(o, ps) THEN list \ {i} ELSE list

Holding(i, p) == [l \in DOMAIN holders |-> holders[l] \cup (IF l \in LabelsOf(p) THEN {i} ELSE {})]

Swapped(i, j) == IF j = 1 THEN i ELSE IF j = i THEN 1 ELSE j

\* Mutant of Moved: the spread index keeps the old positions.
MovedClaimsOnly(i, cs, av, hs) ==
    /\ claims' = [j \in DOMAIN cs |-> cs[Swapped(i, j)]]
    /\ available' = av
    /\ holders' = [l \in DOMAIN hs |-> {Swapped(i, j) : j \in hs[l]}]

\* The claim just used changes places with the first, in the indexes too.
Moved(i, cs, av, hs) ==
    /\ claims' = [j \in DOMAIN cs |-> cs[Swapped(i, j)]]
    /\ available' = [o \in Owner |-> {Swapped(i, j) : j \in av[o]}]
    /\ holders' = [l \in DOMAIN hs |-> {Swapped(i, j) : j \in hs[l]}]

\* The pod goes to the first claim that takes it.
Place(p) ==
    /\ \E i \in Tried(p) :
          LET ps == claims[i].pods \cup {p}
          IN  /\ Takes(i, p)
              /\ \A j \in Tried(p) : Sooner(p, j, i) => ~ Takes(j, p)
              /\ Moved(i, [claims EXCEPT ![i] = [first |-> claims[i].first, pods |-> ps]],
                       [available EXCEPT ![OwnerOf(p)] = Kept(OwnerOf(p), @, i, ps)],
                       Holding(i, p))
    /\ todo' = todo \ {p}
    /\ UNCHANGED counted

NoneTakes(p) == \A i \in Tried(p) : ~ Takes(i, p)

\* A pod too large for every type opens a claim like any other.
Open(p) ==
    LET i == Len(claims) + 1
    IN  /\ NoneTakes(p) /\ counted < MaxNodes
        /\ claims' = Append(claims, [first |-> p, pods |-> {p}])
        /\ available' = [available EXCEPT ![OwnerOf(p)] = Kept(OwnerOf(p), @ \cup {i}, i, {p})]
        /\ holders' = Holding(i, p)
        /\ counted' = counted + 1
        /\ todo' = todo \ {p}

\* At the limit the rest of the batch is left out.
GiveUp(p) ==
    /\ NoneTakes(p) /\ counted >= MaxNodes
    /\ todo' = {}
    /\ UNCHANGED <<claims, indexes, counted>>

Deal ==
    /\ \E p \in todo : /\ \A q \in todo \ {p} : Before(p, q)
                       /\ Place(p) \/ Open(p) \/ GiveUp(p)
    /\ UNCHANGED <<input, batches, decided>>

Decide ==
    /\ todo = {} /\ claims # <<>>
    /\ decided' = decided \cup Decisions({claims[i].pods : i \in DOMAIN claims})
    /\ claims' = <<>> /\ available' = NoneAvailable /\ holders' = NoHolders
    /\ UNCHANGED <<input, batches, todo, counted>>

Dealt == batches = {} /\ todo = {} /\ claims = <<>>

Returned == Dealt /\ UNCHANGED vars

Next == DealUniform \/ StartBatch \/ Deal \/ Decide \/ Returned

Spec == Init /\ [][Next]_vars

-----------------------------------------------------------------------------
\* After any number of moves the indexes name the claims they mean: by label those that
\* hold a pod with it, and of an owner that spreads the claims it opened that may hold one
\* more of its pods.
IndexesExact ==
    /\ \A l \in DOMAIN holders :
          holders[l] = {i \in DOMAIN claims : \E p \in claims[i].pods : l \in LabelsOf(p)}
    /\ \A o \in Owner : Skews[o] # {} =>
          available[o] = {i \in DOMAIN claims : /\ OwnerOf(claims[i].first) = o
                                                /\ ~ Full(o, claims[i].pods)}

\* No node is to hold pods that keep apart, one way or the other, or more pods of an owner
\* than its spread allows, every node that is launched holds its pods, and no pod gets two.
Sound(ps) ==
    /\ \A p, q \in ps : p # q => ~ \E s \in AntiAffinity[OwnerOf(p)] : Matches(q, s)
    /\ \A p \in ps : \A skew \in Skews[OwnerOf(p)] : Cardinality(OfOwner(OwnerOf(p), ps)) <= skew

ClaimsSound ==
    /\ \A i \in DOMAIN claims : Sound(claims[i].pods)
    /\ \A ps \in decided : Sound(ps) /\ Total(ps) <= Largest
    /\ \A ps, qs \in decided : ps = qs \/ ps \cap qs = {}

\* The pods of two nodes never fit one: two claims of a batch, or two nodes launched for
\* it, that hold pods without constraints of their own hold more than the largest type
\* offers, in whatever order the pods came and the claims were tried.
Free(ps) == \A p \in ps : ~ Spreads(p) /\ ~ KeepsApart(p)
OneBatch(ps) == \A p, q \in ps : BatchKey(p) = BatchKey(q)

Packed ==
    LET nodes == decided \cup {claims[i].pods : i \in DOMAIN claims}
    IN  \A ps, qs \in nodes : ps # qs /\ Free(ps \cup qs) /\ OneBatch(ps \cup qs)
            => Total(ps \cup qs) > Largest

-----------------------------------------------------------------------------
\* Said by the repository and not true of the code.

\* "All owners can potentially use this new claim (spread)": a pod with constraints opens
\* a node only if no claim takes it.
SharedByAll ==
    [][\A p \in todo : Open(p) => \A i \in DOMAIN claims : ~ Takes(i, p)]_vars

\* "Limits on what a NodePool can provision": a pod that a type holds is left out only if
\* the nodes that are launched reach the limit.
LimitUsed ==
    Dealt => \A p \in DOMAIN pods :
        MatchesPool(p) /\ pods[p].size <= Largest /\ p \notin UNION decided
            => usage + Cardinality(decided) >= MaxNodes
=============================================================================

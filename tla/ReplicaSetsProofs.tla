--------------------------- MODULE ReplicaSetsProofs ---------------------------
(***************************************************************************)
(* Proofs about ReplicaSets for every set of nodes, pods, owners, targets  *)
(* and scale events and every strategy: what a reconcile, a pass, a drain  *)
(* and the end of a node come to, that the two controllers implement the   *)
(* safety part of ReplicaTarget, and that protected nodes rank highest.    *)
(***************************************************************************)
EXTENDS ReplicaSets, ClusterProofs

-----------------------------------------------------------------------------
(***************************************************************************)
(* Orders.                                                                 *)
(***************************************************************************)
\* A queue without duplicates has as many members as places.
LEMMA QueueCardinality ==
    ASSUME NEW S, NEW s \in Seq(S), NoDuplicates(s)
    PROVE  IsFiniteSet(QueueSet(s)) /\ Cardinality(QueueSet(s)) = Len(s)
<1> DEFINE n == Len(s)
           T == QueueSet(s)
<1>1. n \in Nat /\ s \in [1..n -> S]
    BY LenProperties
<1>2. IsFiniteSet(1..n) /\ Cardinality(1..n) = n
    <2>1. 1 \in Int /\ n \in Int /\ (1 > n => n = 0)
        BY <1>1
    <2>2. IsFiniteSet(1..n) /\ Cardinality(1..n) = IF 1 > n THEN 0 ELSE n - 1 + 1
        BY <2>1, FS_Interval
    <2> QED BY <1>1, <2>1, <2>2
<1>3. s \in Surjection(1..n, T)
    BY <1>1 DEF Surjection, QueueSet
<1>4. s \in Injection(1..n, T)
    BY <1>1, <1>3 DEF Injection, IsInjective, Surjection, NoDuplicates
<1> HIDE DEF n, T
<1>5. IsFiniteSet(T) /\ (Cardinality(T) = Cardinality(1..n) <=> s \in Injection(1..n, T))
    BY <1>2, <1>3, FS_Surjection
<1> QED BY <1>2, <1>4, <1>5 DEF n, T

\* The first k of a queue without duplicates.
LEMMA FirstOf ==
    ASSUME NEW S, NEW s \in Seq(S), NoDuplicates(s), NEW k \in Nat, k <= Len(s),
           NEW t, t = SubSeq(s, 1, k)
    PROVE  /\ t \in Seq(S) /\ NoDuplicates(t) /\ QueueSet(t) \subseteq QueueSet(s)
           /\ IsFiniteSet(QueueSet(t)) /\ Cardinality(QueueSet(t)) = k
<1>1. Len(s) \in Nat /\ \A i \in 1..k : i \in 1..Len(s)
    BY LenProperties
<1>2. \A i \in 1..k : s[i] \in S
    BY <1>1, ElementOfSeq
<1>3. /\ t \in Seq(S)
      /\ Len(t) = IF 1 <= k THEN k - 1 + 1 ELSE 0
      /\ \A i \in 1..k - 1 + 1 : t[i] = s[1 + i - 1]
    BY <1>2, SubSeqProperties
<1>4. Len(t) = k
    <2>1. CASE 1 <= k
        BY <1>3, <2>1
    <2>2. CASE ~ (1 <= k)
        BY <1>3, <2>2
    <2> QED BY <2>1, <2>2
<1>5. \A i \in 1..k : t[i] = s[i]
    <2> TAKE i \in 1..k
    <2>1. i \in 1..k - 1 + 1 /\ 1 + i - 1 = i
        OBVIOUS
    <2> QED BY <1>3, <2>1
<1>6. NoDuplicates(t)
    BY <1>1, <1>4, <1>5 DEF NoDuplicates
<1>7. QueueSet(t) \subseteq QueueSet(s)
    BY <1>1, <1>4, <1>5 DEF QueueSet
<1> QED BY <1>3, <1>4, <1>6, <1>7, QueueCardinality

\* Sorted lists a finite set, each member once, if the order it gets is a strict total one.
LEMMA SortedOrder ==
    ASSUME NEW S, IsFiniteSet(S), NEW earlier, DOMAIN earlier = S,
           \A p \in S : earlier[p] \subseteq S /\ p \notin earlier[p],
           \A p, q \in S : p # q => p \in earlier[q] \/ q \in earlier[p],
           \A p \in S : \A q \in earlier[p] : earlier[q] \subseteq earlier[p]
    PROVE  /\ Sorted(earlier) \in Seq(S) /\ NoDuplicates(Sorted(earlier))
           /\ QueueSet(Sorted(earlier)) = S
<1> DEFINE k == Cardinality(S)
           Place(p) == Cardinality(earlier[p])
           f == [p \in S |-> Place(p) + 1]
           s == [i \in 1..k |-> CHOOSE p \in S : Place(p) = i - 1]
<1>1. k \in Nat
    BY FS_CardinalityType
<1>2. \A p \in S : IsFiniteSet(earlier[p]) /\ Place(p) \in Nat /\ Place(p) + 1 \in 1..k
    <2> TAKE p \in S
    <2>1. IsFiniteSet(S \ {p}) /\ Cardinality(S \ {p}) = k - 1
        BY FS_RemoveElement
    <2>2. earlier[p] \in SUBSET (S \ {p})
        OBVIOUS
    <2>3. IsFiniteSet(earlier[p]) /\ Place(p) <= Cardinality(S \ {p})
        BY <2>1, <2>2, FS_Subset
    <2>4. Place(p) \in Nat
        BY <2>3, FS_CardinalityType
    <2> HIDE DEF Place, k
    <2> QED BY <1>1, <2>1, <2>3, <2>4
<1>3. \A p \in S : \A q \in earlier[p] : Place(q) # Place(p)
    <2> SUFFICES ASSUME NEW p \in S, NEW q \in earlier[p], Place(q) = Place(p) PROVE FALSE
        OBVIOUS
    <2>1. earlier[q] \in SUBSET earlier[p] /\ IsFiniteSet(earlier[p]) /\ q \in S
        BY <1>2
    <2>2. earlier[q] = earlier[p]
        BY <2>1, FS_Subset
    <2> QED BY <2>1, <2>2
<1>4. \A p, q \in S : Place(p) = Place(q) => p = q
    BY <1>3
<1> HIDE DEF Place, k
<1>5. f \in Injection(S, 1..k)
    <2>1. f \in [S -> 1..k]
        BY <1>2
    <2>2. \A p, q \in S : f[p] = f[q] => p = q
        <3>1. \A p, q \in S : f[p] = f[q] => Place(p) = Place(q)
            BY <1>2
        <3> QED BY <1>4, <3>1
    <2> HIDE DEF f
    <2> QED BY <2>1, <2>2 DEF Injection, IsInjective
<1>6. IsFiniteSet(1..k) /\ Cardinality(1..k) = k
    <2>1. 1 \in Int /\ k \in Int /\ (1 > k => k = 0)
        BY <1>1
    <2>2. IsFiniteSet(1..k) /\ Cardinality(1..k) = IF 1 > k THEN 0 ELSE k - 1 + 1
        BY <2>1, FS_Interval
    <2> QED BY <1>1, <2>1, <2>2
<1>7. f \in Surjection(S, 1..k)
    <2> HIDE DEF f
    <2> QED BY <1>5, <1>6, FS_Injection DEF k
<1>8. \A i \in 1..k : \E p \in S : Place(p) = i - 1
    <2> TAKE i \in 1..k
    <2>1. PICK p \in S : f[p] = i
        <3> HIDE DEF f
        <3> QED BY <1>7 DEF Surjection
    <2> QED BY <1>1, <1>2, <2>1
<1>9. \A i \in 1..k : s[i] \in S /\ Place(s[i]) = i - 1
    BY <1>8
<1>10. Sorted(earlier) = s
    BY DEF Sorted, k, Place
<1>11. s \in [1..k -> S]
    BY <1>8
<1> HIDE DEF s
<1>12. s \in Seq(S) /\ Len(s) = k
    BY <1>1, <1>11, SeqDef, LenProperties
<1>13. NoDuplicates(s)
    <2> SUFFICES ASSUME NEW i \in 1..k, NEW j \in 1..k, s[i] = s[j] PROVE i = j
        BY <1>12 DEF NoDuplicates
    <2>1. i - 1 = j - 1
        BY <1>9, Zenon
    <2> QED BY <1>1, <2>1
<1>14. QueueSet(s) = S
    <2> SUFFICES ASSUME NEW p \in S PROVE \E i \in 1..k : s[i] = p
        BY <1>11, <1>12 DEF QueueSet
    <2>1. Place(p) + 1 \in 1..k /\ Place(p) \in Nat
        BY <1>2
    <2>2. Place(s[Place(p) + 1]) = Place(p) /\ s[Place(p) + 1] \in S
        BY <1>9, <2>1
    <2> QED BY <1>4, <2>1, <2>2
<1> QED BY <1>10, <1>12, <1>13, <1>14

\* The order of the arena.
LEMMA ByIndexOrder ==
    ASSUME NEW S, IsFiniteSet(S), NEW index, \A p \in S : index[p] \in Int,
           \A p, q \in S : index[p] = index[q] => p = q
    PROVE  /\ ByIndex(index, S) \in Seq(S) /\ NoDuplicates(ByIndex(index, S))
           /\ QueueSet(ByIndex(index, S)) = S
<1> DEFINE earlier == [p \in S |-> {q \in S : index[q] < index[p]}]
<1>1. DOMAIN earlier = S /\ \A p \in S : earlier[p] = {q \in S : index[q] < index[p]}
    OBVIOUS
<1>2. ByIndex(index, S) = Sorted(earlier)
    BY DEF ByIndex
<1> HIDE DEF earlier
<1>3. \A p \in S : earlier[p] \subseteq S /\ p \notin earlier[p]
    BY <1>1
<1>4. \A p, q \in S : p # q => p \in earlier[q] \/ q \in earlier[p]
    BY <1>1
<1>5. \A p \in S : \A q \in earlier[p] : earlier[q] \subseteq earlier[p]
    BY <1>1
<1> QED BY <1>1, <1>2, <1>3, <1>4, <1>5, SortedOrder

\* A lexicographic order of three numbers.
Precedes(a, b, d, x, y, z) == a < x \/ (a = x /\ b < y) \/ (a = x /\ b = y /\ d < z)

\* How many share a pod's node is a number, and so is every cost.
LEMMA ColocatedNat ==
    ASSUME NEW c \in ClusterType, NEW p \in Pod
    PROVE  Colocated(c, p) \in Nat
<1>1. CASE LiveNode(c, c.node[p])
    <2> DEFINE S == c.podsOn[c.node[p]] \cap RunningOf(c, Owner[p])
    <2>1. S \in SUBSET Pod
        BY DEF RunningOf
    <2>2. IsFiniteSet(S)
        BY <2>1, FS_Subset, ReplicaSetsAssumption
    <2> QED BY <1>1, <2>2, FS_CardinalityType DEF Colocated
<1>2. CASE ~ LiveNode(c, c.node[p])
    BY <1>2 DEF Colocated
<1> QED BY <1>1, <1>2

\* The costs after an update are numbers.
LEMMA UpdatedType ==
    ASSUME NEW c \in ClusterType, NEW costs \in [Pod -> Int], NEW o
    PROVE  UpdatedCosts(c, costs, o) \in [Pod -> Int]
<1>1. \A p \in Pod : - Colocated(c, p) \in Int
    BY ColocatedNat
<1> QED BY <1>1 DEF UpdatedCosts

\* A scale-down takes the pods of the owner, each once.
LEMMA VictimOrder ==
    ASSUME NEW c \in ClusterType, NEW costs \in [Pod -> Int], NEW o,
           slots.index \in [Pod -> Nat],
           \A p, q \in Pod :
              LivePod(c, p) /\ LivePod(c, q) /\ slots.index[p] = slots.index[q] => p = q,
           NEW s, s = ScaleDownOrder(c, costs, o)
    PROVE  s \in Seq(Pod) /\ NoDuplicates(s) /\ QueueSet(s) = Owned(c, o)
<1> DEFINE P == {p \in Owned(c, o) : Is(c, p, "Pending")}
           R == RunningOf(c, o)
           a == ByIndex(slots.index, P)
           Rank(p) == <<costs[p], - Colocated(c, p), - slots.index[p]>>
           Before(p, q) == \E i \in 1..3 : /\ Rank(p)[i] < Rank(q)[i]
                                           /\ \A j \in 1..i - 1 : Rank(p)[j] = Rank(q)[j]
           earlier == [p \in R |-> {q \in R : Before(q, p)}]
           b == Sorted(earlier)
<1>1. IsFiniteSet(P) /\ IsFiniteSet(R) /\ P \subseteq Pod /\ R \subseteq Pod
    <2>1. P \in SUBSET Pod /\ R \in SUBSET Pod
        BY DEF Owned, RunningOf
    <2> HIDE DEF P, R
    <2> QED BY <2>1, FS_Subset, ReplicaSetsAssumption
<1>2. P \cap R = {} /\ P \cup R = Owned(c, o)
    BY DEF Owned, RunningOf, Is
<1>3. /\ \A p, q \in P : slots.index[p] = slots.index[q] => p = q
      /\ \A p, q \in R : slots.index[p] = slots.index[q] => p = q
    BY DEF Owned, RunningOf, Is
<1>4. s = a \o b
    BY DEF ScaleDownOrder, InVictimOrder
<1> HIDE DEF P, R
<1>5. a \in Seq(P) /\ NoDuplicates(a) /\ QueueSet(a) = P
    <2>1. \A p \in P : slots.index[p] \in Int
        BY <1>1
    <2> QED BY <1>1, <1>3, <2>1, ByIndexOrder
<1>6. \A p \in R : costs[p] \in Int /\ Colocated(c, p) \in Nat /\ slots.index[p] \in Nat
    BY <1>1, ColocatedNat
<1>7. \A p, q \in R :
          Before(p, q) <=> Precedes(costs[p], - Colocated(c, p), - slots.index[p],
                                    costs[q], - Colocated(c, q), - slots.index[q])
    <2> SUFFICES ASSUME NEW p \in R, NEW q \in R
                 PROVE  Before(p, q) <=> Precedes(costs[p], - Colocated(c, p), - slots.index[p],
                                                  costs[q], - Colocated(c, q), - slots.index[q])
        OBVIOUS
    <2>1. /\ Rank(p)[1] = costs[p] /\ Rank(p)[2] = - Colocated(c, p)
          /\ Rank(p)[3] = - slots.index[p]
          /\ Rank(q)[1] = costs[q] /\ Rank(q)[2] = - Colocated(c, q)
          /\ Rank(q)[3] = - slots.index[q]
        OBVIOUS
    <2> HIDE DEF Rank
    <2>2. 1..3 = {1, 2, 3} /\ 1..1 - 1 = {} /\ 1..2 - 1 = {1} /\ 1..3 - 1 = {1, 2}
        OBVIOUS
    <2>3. Before(p, q) <=> \/ Rank(p)[1] < Rank(q)[1]
                           \/ Rank(p)[1] = Rank(q)[1] /\ Rank(p)[2] < Rank(q)[2]
                           \/ /\ Rank(p)[1] = Rank(q)[1] /\ Rank(p)[2] = Rank(q)[2]
                              /\ Rank(p)[3] < Rank(q)[3]
        BY <2>2
    <2> QED BY <2>1, <2>3 DEF Precedes
<1>8. DOMAIN earlier = R /\ \A p \in R : earlier[p] = {q \in R : Before(q, p)}
    OBVIOUS
<1> HIDE DEF Before, earlier
<1>9. \A p \in R : earlier[p] \subseteq R /\ p \notin earlier[p]
    BY <1>6, <1>7, <1>8 DEF Precedes
<1>10. \A p, q \in R : p # q => p \in earlier[q] \/ q \in earlier[p]
    BY <1>3, <1>6, <1>7, <1>8 DEF Precedes
<1>11. \A p \in R : \A q \in earlier[p] : earlier[q] \subseteq earlier[p]
    <2> SUFFICES ASSUME NEW p \in R, NEW q \in R, NEW r \in R, Before(q, p), Before(r, q)
                 PROVE  Before(r, p)
        BY <1>8
    <2> QED BY <1>6, <1>7 DEF Precedes
<1>12. b \in Seq(R) /\ NoDuplicates(b) /\ QueueSet(b) = R
    BY <1>1, <1>8, <1>9, <1>10, <1>11, SortedOrder
<1> HIDE DEF a, b
<1>13. a \in Seq(Pod) /\ b \in Seq(Pod)
    BY <1>1, <1>5, <1>12, SeqMonotonic
<1>14. /\ s \in Seq(Pod) /\ Len(s) = Len(a) + Len(b) /\ Len(a) \in Nat /\ Len(b) \in Nat
       /\ \A i \in 1..Len(a) + Len(b) : s[i] = IF i <= Len(a) THEN a[i] ELSE b[i - Len(a)]
    BY <1>4, <1>13, ConcatProperties, LenProperties
<1>15. /\ \A i \in 1..Len(a) : a[i] \in P
       /\ \A i \in 1..Len(b) : b[i] \in R
    BY <1>5, <1>12 DEF QueueSet
<1>16. NoDuplicates(s)
    <2>1. ASSUME NEW i \in 1..Len(s)
          PROVE  \/ i \in 1..Len(a) /\ s[i] = a[i] /\ s[i] \in P
                 \/ i - Len(a) \in 1..Len(b) /\ s[i] = b[i - Len(a)] /\ s[i] \in R
        <3>1. CASE i <= Len(a)
            <4>1. i \in 1..Len(a) /\ s[i] = a[i]
                BY <1>14, <3>1
            <4> QED BY <1>15, <4>1
        <3>2. CASE ~ (i <= Len(a))
            <4>1. i \in Int /\ Len(a) \in Nat /\ Len(b) \in Nat /\ i <= Len(a) + Len(b)
                BY <1>14
            <4>2. i - Len(a) \in 1..Len(b)
                BY <3>2, <4>1
            <4>3. s[i] = b[i - Len(a)]
                BY <1>14, <3>2
            <4> QED BY <1>15, <4>2, <4>3
        <3> QED BY <3>1, <3>2
    <2> SUFFICES ASSUME NEW i \in 1..Len(s), NEW j \in 1..Len(s), s[i] = s[j] PROVE i = j
        BY DEF NoDuplicates
    <2>2. CASE s[i] \in P
        <3>1. s[i] \notin R
            BY <1>2, <2>2
        <3>2. i \in 1..Len(a) /\ s[i] = a[i] /\ j \in 1..Len(a) /\ s[j] = a[j]
            BY <2>1, <3>1
        <3> QED BY <1>5, <3>2 DEF NoDuplicates
    <2>3. CASE s[i] \notin P
        <3>1. /\ i - Len(a) \in 1..Len(b) /\ s[i] = b[i - Len(a)]
              /\ j - Len(a) \in 1..Len(b) /\ s[j] = b[j - Len(a)]
            BY <2>1, <2>3
        <3>2. i - Len(a) = j - Len(a)
            BY <1>12, <3>1 DEF NoDuplicates
        <3>3. i \in Int /\ j \in Int /\ Len(a) \in Int
            BY <1>14
        <3> QED BY <3>2, <3>3
    <2> QED BY <2>2, <2>3
<1>17. QueueSet(s) = P \cup R
    <2>1. \A i \in 1..Len(s) : s[i] \in P \cup R
        <3> TAKE i \in 1..Len(s)
        <3>1. ~ (i <= Len(a)) => i - Len(a) \in 1..Len(b)
            BY <1>14
        <3>2. i <= Len(a) => i \in 1..Len(a)
            BY <1>14
        <3> QED BY <1>14, <1>15, <3>1, <3>2
    <2>2. \A p \in P : \E i \in 1..Len(s) : s[i] = p
        <3> TAKE p \in P
        <3>1. PICK i \in 1..Len(a) : a[i] = p
            BY <1>5 DEF QueueSet
        <3>2. i \in 1..Len(s) /\ i <= Len(a)
            BY <1>14
        <3> QED BY <1>14, <3>1, <3>2
    <2>3. \A p \in R : \E i \in 1..Len(s) : s[i] = p
        <3> TAKE p \in R
        <3>1. PICK i \in 1..Len(b) : b[i] = p
            BY <1>12 DEF QueueSet
        <3>2. i + Len(a) \in 1..Len(s) /\ ~ (i + Len(a) <= Len(a)) /\ (i + Len(a)) - Len(a) = i
            BY <1>14
        <3> QED BY <1>14, <3>1, <3>2
    <2> QED BY <2>1, <2>2, <2>3 DEF QueueSet
<1> QED BY <1>2, <1>14, <1>16, <1>17

-----------------------------------------------------------------------------
(***************************************************************************)
(* Several pods in turn: each fold is a walk along the pods.               *)
(***************************************************************************)
\* The arena's variable.
SlotsType == [index : [Pod -> Nat], free : Seq(Nat), len : Nat]

\* submit_pod keeps the shape of the cluster.
LEMMA SubmitPodType ==
    ASSUME NEW c \in ClusterType, NEW p \in Pod, NEW size \in Nat
    PROVE  SubmitPod(c, p, size) \in ClusterType
<1> DEFINE d == SubmitPod(c, p, size)
<1>1. d = [nodes |-> c.nodes, allocatable |-> c.allocatable, allocated |-> c.allocated,
           podsOn |-> c.podsOn, pods |-> [c.pods EXCEPT ![p] = "live"],
           phase |-> [c.phase EXCEPT ![p] = "Pending"],
           node |-> [c.node EXCEPT ![p] = NoNode],
           requests |-> [c.requests EXCEPT ![p] = size],
           resize_status |-> c.resize_status, pending_queue |-> Append(c.pending_queue, p)]
    BY SubmitPodFields
<1>2. Append(c.pending_queue, p) \in Seq(Pod)
    BY AppendProperties DEF ClusterType
<1>3. /\ [c.pods EXCEPT ![p] = "live"] \in [Pod -> Life]
      /\ [c.phase EXCEPT ![p] = "Pending"] \in [Pod -> PodPhase]
      /\ [c.node EXCEPT ![p] = NoNode] \in [Pod -> Node \cup {NoNode}]
      /\ [c.requests EXCEPT ![p] = size] \in [Pod -> Nat]
    BY DEF ClusterType, Life, PodPhase
<1> QED BY <1>1, <1>2, <1>3, Fields DEF ClusterType

\* remove_pod keeps the shape of the cluster.
LEMMA RemovePodType ==
    ASSUME NEW c \in ClusterType, NEW p \in Pod
    PROVE  RemovePod(c, p) \in ClusterType
<1>1. CASE ~ LivePod(c, p)
    BY <1>1 DEF RemovePod
<1>2. CASE LivePod(c, p)
    <2>1. PICK a, b :
              /\ Released(c, p, c.node[p], a, b)
              /\ RemovePod(c, p) =
                     [nodes |-> c.nodes, allocatable |-> c.allocatable, allocated |-> a,
                      podsOn |-> b, pods |-> [c.pods EXCEPT ![p] = "gone"],
                      phase |-> [c.phase EXCEPT ![p] = "Pending"],
                      node |-> [c.node EXCEPT ![p] = NoNode],
                      requests |-> [c.requests EXCEPT ![p] = 0],
                      resize_status |-> [c.resize_status EXCEPT ![p] = "None"],
                      pending_queue |-> SwapRemove(c.pending_queue, p)]
        BY <1>2, RemovePodFields
    <2>2. SwapRemove(c.pending_queue, p) \in Seq(Pod)
        BY SwapRemoveType DEF ClusterType
    <2>3. /\ [c.pods EXCEPT ![p] = "gone"] \in [Pod -> Life]
          /\ [c.phase EXCEPT ![p] = "Pending"] \in [Pod -> PodPhase]
          /\ [c.node EXCEPT ![p] = NoNode] \in [Pod -> Node \cup {NoNode}]
          /\ [c.requests EXCEPT ![p] = 0] \in [Pod -> Nat]
          /\ [c.resize_status EXCEPT ![p] = "None"] \in [Pod -> ResizeStatus]
        BY DEF ClusterType, Life, PodPhase, ResizeStatus
    <2> QED BY <2>1, <2>2, <2>3, Fields DEF ClusterType, Released
<1> QED BY <1>1, <1>2

\* Arena::insert keeps the shape of the arena.
LEMMA GivenType ==
    ASSUME NEW a \in SlotsType, NEW p \in Pod
    PROVE  Given(a, p) \in SlotsType
<1>1. CASE a.free = <<>>
    <2>1. /\ [a.index EXCEPT ![p] = a.len] \in [Pod -> Nat]
          /\ a.len + 1 \in Nat /\ a.free \in Seq(Nat)
        BY DEF SlotsType
    <2>2. Given(a, p) = [index |-> [a.index EXCEPT ![p] = a.len], free |-> a.free,
                         len |-> a.len + 1]
        BY <1>1 DEF Given, SlotsType
    <2> QED BY <2>1, <2>2 DEF SlotsType
<1>2. CASE a.free # <<>>
    <2>1. Head(a.free) \in Nat /\ Tail(a.free) \in Seq(Nat)
        BY <1>2, HeadTailProperties DEF SlotsType
    <2>2. [a.index EXCEPT ![p] = Head(a.free)] \in [Pod -> Nat]
        BY <2>1 DEF SlotsType
    <2>3. Given(a, p) = [index |-> [a.index EXCEPT ![p] = Head(a.free)], free |-> Tail(a.free),
                         len |-> a.len]
        BY <1>2 DEF Given, SlotsType
    <2> QED BY <2>1, <2>2, <2>3 DEF SlotsType
<1> QED BY <1>1, <1>2

\* Arena::remove keeps the shape of the arena.
LEMMA FreedType ==
    ASSUME NEW a \in SlotsType, NEW p \in Pod
    PROVE  Freed(a, p) \in SlotsType
<1>1. <<a.index[p]>> \o a.free \in Seq(Nat)
    BY ConcatProperties DEF SlotsType
<1> QED BY <1>1 DEF Freed, SlotsType

\* The creation of pods.
LEMMA SubmitWalk ==
    ASSUME NEW c \in ClusterType, NEW s \in Seq(Pod), NEW size \in Nat
    PROVE  \E w \in [0..Len(s) -> ClusterType] :
              /\ w[0] = c
              /\ \A i \in 1..Len(s) : w[i] = SubmitPod(w[i - 1], s[i], size)
              /\ SubmitAll(c, s, size) = w[Len(s)]
<1> DEFINE n == Len(s)
           Eqn(g) == g = [t \in SUBSET (1..n) |->
                             IF t = {} THEN c ELSE SubmitPod(g[t \ {Max(t)}], s[Max(t)], size)]
           g == CHOOSE h : Eqn(h)
           step == [i \in 1..n |-> [d \in ClusterType |-> SubmitPod(d, s[i], size)]]
<1>0. n \in Nat /\ DOMAIN s = 1..n /\ \A i \in 1..n : s[i] \in Pod
    BY LenProperties, ElementOfSeq
<1>1. SubmitAll(c, s, size) = g[1..n]
    BY <1>0 DEF SubmitAll, FoldLeft, MapThenFoldSet
<1>2. step \in [1..n -> [ClusterType -> ClusterType]]
    BY <1>0, SubmitPodType
<1>3. \A t \in SUBSET (1..n) : t # {} => Max(t) \in t
    BY <1>0, MaxOf
<1> HIDE DEF n, step
<1>4. \E h : Eqn(h)
    <2>1. PICK h : Solves(h, n, ClusterType, step, c)
        BY <1>0, <1>2, FoldSolved
    <2>2. \A t \in SUBSET (1..n) :
              h[t] = IF t = {} THEN c ELSE SubmitPod(h[t \ {Max(t)}], s[Max(t)], size)
        BY <1>3, <2>1 DEF Solves, step
    <2>3. Eqn(h)
        BY <2>1, <2>2 DEF Solves
    <2> QED BY <2>3
<1>5. Eqn(g)
    BY <1>4
<1> HIDE DEF g
<1>6. Tracks(g, n, ClusterType, step, c)
    BY <1>3, <1>5 DEF Tracks, step
<1>7. PICK w : Walk(w, n, ClusterType, step, c) /\ w[n] = g[1..n]
    BY <1>0, <1>2, <1>6, FoldWalked
<1>8. \A i \in 1..n : w[i] = SubmitPod(w[i - 1], s[i], size)
    <2> TAKE i \in 1..n
    <2>1. w[i - 1] \in ClusterType /\ w[i] = step[i][w[i - 1]]
        BY <1>0, <1>7 DEF Walk
    <2> QED BY <2>1 DEF step
<1> QED BY <1>1, <1>7, <1>8 DEF Walk, n

\* The removal of pods.
LEMMA RemoveWalk ==
    ASSUME NEW c \in ClusterType, NEW s \in Seq(Pod)
    PROVE  \E w \in [0..Len(s) -> ClusterType] :
              /\ w[0] = c
              /\ \A i \in 1..Len(s) : w[i] = RemovePod(w[i - 1], s[i])
              /\ FoldLeft(RemovePod, c, s) = w[Len(s)]
<1> DEFINE n == Len(s)
           Eqn(g) == g = [t \in SUBSET (1..n) |->
                             IF t = {} THEN c ELSE RemovePod(g[t \ {Max(t)}], s[Max(t)])]
           g == CHOOSE h : Eqn(h)
           step == [i \in 1..n |-> [d \in ClusterType |-> RemovePod(d, s[i])]]
<1>0. n \in Nat /\ DOMAIN s = 1..n /\ \A i \in 1..n : s[i] \in Pod
    BY LenProperties, ElementOfSeq
<1>1. FoldLeft(RemovePod, c, s) = g[1..n]
    BY <1>0 DEF FoldLeft, MapThenFoldSet
<1>2. step \in [1..n -> [ClusterType -> ClusterType]]
    BY <1>0, RemovePodType
<1>3. \A t \in SUBSET (1..n) : t # {} => Max(t) \in t
    BY <1>0, MaxOf
<1> HIDE DEF n, step
<1>4. \E h : Eqn(h)
    <2>1. PICK h : Solves(h, n, ClusterType, step, c)
        BY <1>0, <1>2, FoldSolved
    <2>2. \A t \in SUBSET (1..n) :
              h[t] = IF t = {} THEN c ELSE RemovePod(h[t \ {Max(t)}], s[Max(t)])
        BY <1>3, <2>1 DEF Solves, step
    <2>3. Eqn(h)
        BY <2>1, <2>2 DEF Solves
    <2> QED BY <2>3
<1>5. Eqn(g)
    BY <1>4
<1> HIDE DEF g
<1>6. Tracks(g, n, ClusterType, step, c)
    BY <1>3, <1>5 DEF Tracks, step
<1>7. PICK w : Walk(w, n, ClusterType, step, c) /\ w[n] = g[1..n]
    BY <1>0, <1>2, <1>6, FoldWalked
<1>8. \A i \in 1..n : w[i] = RemovePod(w[i - 1], s[i])
    <2> TAKE i \in 1..n
    <2>1. w[i - 1] \in ClusterType /\ w[i] = step[i][w[i - 1]]
        BY <1>0, <1>7 DEF Walk
    <2> QED BY <2>1 DEF step
<1> QED BY <1>1, <1>7, <1>8 DEF Walk, n

\* The slots of created pods.
LEMMA GivenWalk ==
    ASSUME NEW a \in SlotsType, NEW s \in Seq(Pod)
    PROVE  \E w \in [0..Len(s) -> SlotsType] :
              /\ w[0] = a
              /\ \A i \in 1..Len(s) : w[i] = Given(w[i - 1], s[i])
              /\ FoldLeft(Given, a, s) = w[Len(s)]
<1> DEFINE n == Len(s)
           Eqn(g) == g = [t \in SUBSET (1..n) |->
                             IF t = {} THEN a ELSE Given(g[t \ {Max(t)}], s[Max(t)])]
           g == CHOOSE h : Eqn(h)
           step == [i \in 1..n |-> [d \in SlotsType |-> Given(d, s[i])]]
<1>0. n \in Nat /\ DOMAIN s = 1..n /\ \A i \in 1..n : s[i] \in Pod
    BY LenProperties, ElementOfSeq
<1>1. FoldLeft(Given, a, s) = g[1..n]
    BY <1>0 DEF FoldLeft, MapThenFoldSet
<1>2. step \in [1..n -> [SlotsType -> SlotsType]]
    BY <1>0, GivenType
<1>3. \A t \in SUBSET (1..n) : t # {} => Max(t) \in t
    BY <1>0, MaxOf
<1> HIDE DEF n, step
<1>4. \E h : Eqn(h)
    <2>1. PICK h : Solves(h, n, SlotsType, step, a)
        BY <1>0, <1>2, FoldSolved
    <2>2. \A t \in SUBSET (1..n) :
              h[t] = IF t = {} THEN a ELSE Given(h[t \ {Max(t)}], s[Max(t)])
        BY <1>3, <2>1 DEF Solves, step
    <2>3. Eqn(h)
        BY <2>1, <2>2 DEF Solves
    <2> QED BY <2>3
<1>5. Eqn(g)
    BY <1>4
<1> HIDE DEF g
<1>6. Tracks(g, n, SlotsType, step, a)
    BY <1>3, <1>5 DEF Tracks, step
<1>7. PICK w : Walk(w, n, SlotsType, step, a) /\ w[n] = g[1..n]
    BY <1>0, <1>2, <1>6, FoldWalked
<1>8. \A i \in 1..n : w[i] = Given(w[i - 1], s[i])
    <2> TAKE i \in 1..n
    <2>1. w[i - 1] \in SlotsType /\ w[i] = step[i][w[i - 1]]
        BY <1>0, <1>7 DEF Walk
    <2> QED BY <2>1 DEF step
<1> QED BY <1>1, <1>7, <1>8 DEF Walk, n

\* The slots of removed pods.
LEMMA FreedWalk ==
    ASSUME NEW a \in SlotsType, NEW s \in Seq(Pod)
    PROVE  \E w \in [0..Len(s) -> SlotsType] :
              /\ w[0] = a
              /\ \A i \in 1..Len(s) : w[i] = Freed(w[i - 1], s[i])
              /\ FoldLeft(Freed, a, s) = w[Len(s)]
<1> DEFINE n == Len(s)
           Eqn(g) == g = [t \in SUBSET (1..n) |->
                             IF t = {} THEN a ELSE Freed(g[t \ {Max(t)}], s[Max(t)])]
           g == CHOOSE h : Eqn(h)
           step == [i \in 1..n |-> [d \in SlotsType |-> Freed(d, s[i])]]
<1>0. n \in Nat /\ DOMAIN s = 1..n /\ \A i \in 1..n : s[i] \in Pod
    BY LenProperties, ElementOfSeq
<1>1. FoldLeft(Freed, a, s) = g[1..n]
    BY <1>0 DEF FoldLeft, MapThenFoldSet
<1>2. step \in [1..n -> [SlotsType -> SlotsType]]
    BY <1>0, FreedType
<1>3. \A t \in SUBSET (1..n) : t # {} => Max(t) \in t
    BY <1>0, MaxOf
<1> HIDE DEF n, step
<1>4. \E h : Eqn(h)
    <2>1. PICK h : Solves(h, n, SlotsType, step, a)
        BY <1>0, <1>2, FoldSolved
    <2>2. \A t \in SUBSET (1..n) :
              h[t] = IF t = {} THEN a ELSE Freed(h[t \ {Max(t)}], s[Max(t)])
        BY <1>3, <2>1 DEF Solves, step
    <2>3. Eqn(h)
        BY <2>1, <2>2 DEF Solves
    <2> QED BY <2>3
<1>5. Eqn(g)
    BY <1>4
<1> HIDE DEF g
<1>6. Tracks(g, n, SlotsType, step, a)
    BY <1>3, <1>5 DEF Tracks, step
<1>7. PICK w : Walk(w, n, SlotsType, step, a) /\ w[n] = g[1..n]
    BY <1>0, <1>2, <1>6, FoldWalked
<1>8. \A i \in 1..n : w[i] = Freed(w[i - 1], s[i])
    <2> TAKE i \in 1..n
    <2>1. w[i - 1] \in SlotsType /\ w[i] = step[i][w[i - 1]]
        BY <1>0, <1>7 DEF Walk
    <2> QED BY <2>1 DEF step
<1> QED BY <1>1, <1>7, <1>8 DEF Walk, n

\* The arena of the pods of L: no two share a slot, none has a free one, no slot is free
\* twice, and all slots are below the length.
Slotted(a, L) ==
    /\ a \in SlotsType
    /\ \A p, q \in L : a.index[p] = a.index[q] => p = q
    /\ NoDuplicates(a.free)
    /\ \A p \in L : a.index[p] < a.len /\ a.index[p] \notin QueueSet(a.free)
    /\ \A x \in QueueSet(a.free) : x < a.len

\* Arena::insert.
LEMMA GivenSlotted ==
    ASSUME NEW a, NEW L \in SUBSET Pod, Slotted(a, L), NEW p \in Pod \ L
    PROVE  Slotted(Given(a, p), L \cup {p})
<1> DEFINE b == Given(a, p)
<1>1. b \in SlotsType
    BY GivenType DEF Slotted
<1>2. /\ a.index \in [Pod -> Nat] /\ a.free \in Seq(Nat) /\ a.len \in Nat
      /\ \A q \in L : q \in Pod /\ q # p /\ a.index[q] \in Nat
    BY DEF Slotted, SlotsType
<1>3. CASE a.free = <<>>
    <2>1. /\ b.index = [a.index EXCEPT ![p] = a.len] /\ b.free = a.free /\ b.len = a.len + 1
        BY <1>2, <1>3 DEF Given, Slotted, SlotsType
    <2> HIDE DEF b
    <2>2. b.index[p] = a.len /\ \A q \in L : b.index[q] = a.index[q]
        BY <1>2, <2>1
    <2>3. QueueSet(a.free) = {}
        BY <1>3, EmptySeq DEF QueueSet
    <2>4. \A q, r \in L \cup {p} : b.index[q] = b.index[r] => q = r
        BY <1>2, <2>2 DEF Slotted
    <2>5. \A q \in L \cup {p} : b.index[q] < b.len /\ b.index[q] \notin QueueSet(b.free)
        <3>1. \A q \in L : a.index[q] < a.len
            BY DEF Slotted
        <3>2. b.free = a.free /\ b.len = a.len + 1
            BY <2>1
        <3> QED BY <1>2, <2>2, <2>3, <3>1, <3>2
    <2>6. NoDuplicates(b.free) /\ \A x \in QueueSet(b.free) : x < b.len
        BY <2>1, <2>3 DEF Slotted
    <2> QED BY <1>1, <2>4, <2>5, <2>6 DEF Slotted, b
<1>4. CASE a.free # <<>>
    <2> DEFINE n == Len(a.free)
               t == Tail(a.free)
    <2>1. /\ b.index = [a.index EXCEPT ![p] = Head(a.free)] /\ b.free = t /\ b.len = a.len
        BY <1>2, <1>4 DEF Given, Slotted, SlotsType
    <2>2. /\ n \in Nat /\ n >= 1 /\ Head(a.free) = a.free[1]
          /\ Len(t) = n - 1 /\ \A i \in 1..n - 1 : t[i] = a.free[i + 1]
        BY <1>2, <1>4, HeadTailProperties, LenProperties, EmptySeq
    <2> HIDE DEF b, t
    <2>3. b.index[p] = a.free[1] /\ \A q \in L : b.index[q] = a.index[q]
        BY <1>2, <2>1, <2>2
    <2>4. /\ a.free[1] \in QueueSet(a.free) /\ a.free[1] \notin QueueSet(t)
          /\ QueueSet(t) \subseteq QueueSet(a.free)
          /\ NoDuplicates(t)
        <3>1. \A i \in 1..n - 1 : i + 1 \in 1..n /\ i + 1 # 1
            BY <2>2
        <3>2. 1 \in 1..n
            BY <2>2
        <3>3. \A i, j \in 1..n - 1 : i + 1 = j + 1 => i = j
            BY <2>2
        <3>4. \A i, j \in 1..n : a.free[i] = a.free[j] => i = j
            BY DEF Slotted, NoDuplicates
        <3> HIDE DEF n
        <3>5. a.free[1] \in QueueSet(a.free)
            BY <3>2 DEF QueueSet, n
        <3>6. QueueSet(t) \subseteq QueueSet(a.free)
            BY <2>2, <3>1 DEF QueueSet, n
        <3>7. a.free[1] \notin QueueSet(t)
            BY <2>2, <3>1, <3>2, <3>4 DEF QueueSet
        <3>8. NoDuplicates(t)
            BY <2>2, <3>1, <3>3, <3>4 DEF NoDuplicates
        <3> QED BY <3>5, <3>6, <3>7, <3>8
    <2>5. \A q, r \in L \cup {p} : b.index[q] = b.index[r] => q = r
        BY <2>3, <2>4 DEF Slotted
    <2>6. \A q \in L \cup {p} : b.index[q] < b.len /\ b.index[q] \notin QueueSet(b.free)
        <3>1. b.free = t /\ b.len = a.len
            BY <2>1
        <3> QED BY <2>3, <2>4, <3>1 DEF Slotted
    <2>7. NoDuplicates(b.free) /\ \A x \in QueueSet(b.free) : x < b.len
        <3>1. b.free = t /\ b.len = a.len
            BY <2>1
        <3> QED BY <2>4, <3>1 DEF Slotted
    <2> QED BY <1>1, <2>5, <2>6, <2>7 DEF Slotted, b
<1> QED BY <1>3, <1>4

\* Arena::remove.
LEMMA FreedSlotted ==
    ASSUME NEW a, NEW L \in SUBSET Pod, Slotted(a, L), NEW p \in L
    PROVE  Slotted(Freed(a, p), L \ {p})
<1> DEFINE x == a.index[p]
           b == Freed(a, p)
           n == Len(a.free)
           t == <<x>> \o a.free
<1>1. b \in SlotsType /\ a \in SlotsType
    BY FreedType DEF Slotted
<1>2. b.index = a.index /\ b.len = a.len /\ b.free = t
    BY <1>1 DEF Freed, SlotsType
<1>3. /\ x \in Nat /\ x < a.len /\ x \notin QueueSet(a.free)
      /\ \A q \in L \ {p} : a.index[q] # x
    BY <1>1 DEF Slotted, SlotsType
<1> HIDE DEF x
<1>4. /\ n \in Nat /\ Len(t) = n + 1 /\ t[1] = x
      /\ \A i \in 1..n + 1 : i # 1 => t[i] = a.free[i - 1]
    <2>1. /\ <<x>> \in Seq(Nat) /\ Len(<<x>>) = 1 /\ <<x>>[1] = x
          /\ a.free \in Seq(Nat) /\ n \in Nat
        BY <1>1, <1>3, LenProperties DEF SlotsType
    <2>2. /\ Len(t) = 1 + n
          /\ \A i \in 1..1 + n : t[i] = IF i <= 1 THEN <<x>>[i] ELSE a.free[i - 1]
        BY <2>1, ConcatProperties
    <2>3. 1 \in 1..1 + n /\ \A i \in 1..n + 1 : i \in 1..1 + n /\ (i # 1 => ~ (i <= 1))
        BY <2>1
    <2> QED BY <2>1, <2>2, <2>3
<1> HIDE DEF b, t, n
<1>5. QueueSet(t) = QueueSet(a.free) \cup {x}
    <2>1. \A i \in 1..n + 1 : i = 1 \/ i - 1 \in 1..n
        BY <1>4
    <2>2. \A i \in 1..n : i + 1 \in 1..n + 1 /\ i + 1 # 1 /\ (i + 1) - 1 = i
        BY <1>4
    <2>3. 1 \in 1..n + 1
        BY <1>4
    <2>4. QueueSet(t) \subseteq QueueSet(a.free) \cup {x}
        BY <1>4, <2>1 DEF QueueSet, n
    <2>5. \A i \in 1..n : t[i + 1] = a.free[i]
        BY <1>4, <2>2
    <2>6. QueueSet(a.free) \subseteq QueueSet(t)
        BY <1>4, <2>2, <2>5 DEF QueueSet, n
    <2>7. x \in QueueSet(t)
        BY <1>4, <2>3 DEF QueueSet
    <2> QED BY <2>4, <2>6, <2>7
<1>6. NoDuplicates(t)
    <2>1. \A i \in 1..n + 1 : i = 1 \/ i - 1 \in 1..n
        BY <1>4
    <2>2. \A i \in 1..n : a.free[i] # x
        BY <1>3 DEF QueueSet, n
    <2>3. \A i, j \in 1..n : a.free[i] = a.free[j] => i = j
        BY DEF Slotted, NoDuplicates, n
    <2> SUFFICES ASSUME NEW i \in 1..n + 1, NEW j \in 1..n + 1, t[i] = t[j] PROVE i = j
        BY <1>4 DEF NoDuplicates
    <2>4. CASE i = 1 \/ j = 1
        BY <1>4, <2>1, <2>2, <2>4
    <2>5. CASE i # 1 /\ j # 1
        <3>1. i - 1 = j - 1
            BY <1>4, <2>1, <2>3, <2>5
        <3> QED BY <1>4, <3>1
    <2> QED BY <2>4, <2>5
<1>7. \A q, r \in L \ {p} : b.index[q] = b.index[r] => q = r
    BY <1>2 DEF Slotted
<1>8. \A q \in L \ {p} : b.index[q] < b.len /\ b.index[q] \notin QueueSet(b.free)
    BY <1>2, <1>3, <1>5 DEF Slotted
<1>9. \A y \in QueueSet(b.free) : y < b.len
    BY <1>2, <1>3, <1>5 DEF Slotted
<1> QED BY <1>1, <1>2, <1>6, <1>7, <1>8, <1>9 DEF Slotted, b

\* The first members of a sequence, one more at a time.
LEMMA UptoNext ==
    ASSUME NEW s, NEW i \in Nat, i >= 1
    PROVE  {s[k] : k \in 1..i} = {s[k] : k \in 1..i - 1} \cup {s[i]}
<1>1. 1..i = (1..i - 1) \cup {i}
    OBVIOUS
<1> QED BY <1>1

\* Slots for several pods.
LEMMA GivenAll ==
    ASSUME NEW a, NEW L \in SUBSET Pod, Slotted(a, L), NEW s \in Seq(Pod), NoDuplicates(s),
           QueueSet(s) \cap L = {}
    PROVE  Slotted(FoldLeft(Given, a, s), L \cup QueueSet(s))
<1> DEFINE n == Len(s)
           Upto(i) == {s[k] : k \in 1..i}
<1>0. n \in Nat /\ \A i \in 1..n : s[i] \in Pod /\ s[i] \notin L
    BY LenProperties, ElementOfSeq DEF QueueSet
<1>1. PICK w \in [0..n -> SlotsType] :
              /\ w[0] = a
              /\ \A i \in 1..n : w[i] = Given(w[i - 1], s[i])
              /\ FoldLeft(Given, a, s) = w[n]
    BY GivenWalk DEF Slotted
<1> DEFINE P == {i \in 0..n : Slotted(w[i], L \cup Upto(i))}
<1>2. 0 \in P
    <2>1. L \cup Upto(0) = L
        OBVIOUS
    <2> HIDE DEF Upto
    <2>2. Slotted(w[0], L \cup Upto(0))
        BY <1>1, <2>1, Zenon
    <2> QED BY <1>0, <2>2
<1>3. ASSUME NEW i \in 1..n, i - 1 \in P PROVE i \in P
    <2>1. Slotted(w[i - 1], L \cup Upto(i - 1))
        BY <1>3
    <2>2. Upto(i) = Upto(i - 1) \cup {s[i]}
        BY <1>0, UptoNext
    <2>3. L \cup Upto(i - 1) \in SUBSET Pod /\ s[i] \notin L \cup Upto(i - 1)
        <3>1. \A k \in 1..i - 1 : k \in 1..n /\ k # i
            BY <1>0
        <3> QED BY <1>0, <3>1 DEF NoDuplicates
    <2> HIDE DEF Upto
    <2>4. Slotted(Given(w[i - 1], s[i]), (L \cup Upto(i - 1)) \cup {s[i]})
        BY <1>0, <2>1, <2>3, GivenSlotted
    <2>5. (L \cup Upto(i - 1)) \cup {s[i]} = L \cup Upto(i)
        BY <2>2
    <2>6. Slotted(w[i], L \cup Upto(i))
        BY <1>1, <2>4, <2>5
    <2> QED BY <1>0, <2>6
<1> HIDE DEF P
<1>4. n \in P
    <2>1. \A i \in 1..n : i - 1 \in P => i \in P
        BY <1>3
    <2> HIDE DEF n
    <2> QED BY <1>0, <1>2, <2>1, WalkInduction
<1>5. Slotted(w[n], L \cup Upto(n))
    BY <1>4 DEF P
<1> QED BY <1>1, <1>5 DEF QueueSet

\* Slots given back by several pods.
LEMMA FreedAll ==
    ASSUME NEW a, NEW L \in SUBSET Pod, Slotted(a, L), NEW s \in Seq(Pod), NoDuplicates(s),
           QueueSet(s) \subseteq L
    PROVE  Slotted(FoldLeft(Freed, a, s), L \ QueueSet(s))
<1> DEFINE n == Len(s)
           Upto(i) == {s[k] : k \in 1..i}
<1>0. n \in Nat /\ \A i \in 1..n : s[i] \in Pod /\ s[i] \in L
    BY LenProperties, ElementOfSeq DEF QueueSet
<1>1. PICK w \in [0..n -> SlotsType] :
              /\ w[0] = a
              /\ \A i \in 1..n : w[i] = Freed(w[i - 1], s[i])
              /\ FoldLeft(Freed, a, s) = w[n]
    BY FreedWalk DEF Slotted
<1> DEFINE P == {i \in 0..n : Slotted(w[i], L \ Upto(i))}
<1>2. 0 \in P
    <2>1. L \ Upto(0) = L
        OBVIOUS
    <2> HIDE DEF Upto
    <2>2. Slotted(w[0], L \ Upto(0))
        BY <1>1, <2>1, Zenon
    <2> QED BY <1>0, <2>2
<1>3. ASSUME NEW i \in 1..n, i - 1 \in P PROVE i \in P
    <2>1. Slotted(w[i - 1], L \ Upto(i - 1))
        BY <1>3
    <2>2. Upto(i) = Upto(i - 1) \cup {s[i]}
        BY <1>0, UptoNext
    <2>3. L \ Upto(i - 1) \in SUBSET Pod /\ s[i] \in L \ Upto(i - 1)
        <3>1. \A k \in 1..i - 1 : k \in 1..n /\ k # i
            BY <1>0
        <3> QED BY <1>0, <3>1 DEF NoDuplicates
    <2> HIDE DEF Upto
    <2>4. Slotted(Freed(w[i - 1], s[i]), (L \ Upto(i - 1)) \ {s[i]})
        BY <1>0, <2>1, <2>3, FreedSlotted
    <2>5. (L \ Upto(i - 1)) \ {s[i]} = L \ Upto(i)
        BY <2>2
    <2>6. Slotted(w[i], L \ Upto(i))
        BY <1>1, <2>4, <2>5
    <2> QED BY <1>0, <2>6
<1> HIDE DEF P
<1>4. n \in P
    <2>1. \A i \in 1..n : i - 1 \in P => i \in P
        BY <1>3
    <2> HIDE DEF n
    <2> QED BY <1>0, <1>2, <2>1, WalkInduction
<1>5. Slotted(w[n], L \ Upto(n))
    BY <1>4 DEF P
<1> QED BY <1>1, <1>5 DEF QueueSet

\* The cluster is sound, what pends is what is queued, and no pod comes to an end.
Endless(c) == \A p \in Pod : c.phase[p] # "Succeeded"
Steady(c) == Sound(c) /\ QueueExact(c) /\ Endless(c)

\* The pods of the arena.
Live(c) == {p \in Pod : LivePod(c, p)}

\* Pods that were not there before are submitted.
SubmittedAs(c, d, S) ==
    /\ Steady(d)
    /\ Live(d) = Live(c) \cup S
    /\ \A p \in Pod \ S : d.pods[p] = c.pods[p]

\* Pods that are there are removed.
RemovedAs(c, d, S) ==
    /\ Steady(d)
    /\ Live(d) = Live(c) \ S

\* One pod is submitted.
LEMMA SubmitSteady ==
    ASSUME NEW c, Steady(c), NEW p \in Pod, NEW size \in Nat, c.pods[p] = "fresh",
           NEW d, d = SubmitPod(c, p, size)
    PROVE  SubmittedAs(c, d, {p})
<1>1. Kept(c, d) /\ c \in ClusterType
    BY SubmitPodKept DEF Steady, Sound
<1>2. /\ Is(d, p, "Pending")
      /\ \A q \in Pod \ {p} : d.pods[q] = c.pods[q] /\ d.phase[q] = c.phase[q]
    BY <1>1, SubmitPodEffect
<1>3. Steady(d)
    BY <1>1, <1>2 DEF Steady, Kept, Endless, Is
<1>4. Live(d) = Live(c) \cup {p}
    BY <1>2 DEF Live, LivePod, Is
<1> QED BY <1>2, <1>3, <1>4 DEF SubmittedAs

\* One pod is removed.
LEMMA RemoveSteady ==
    ASSUME NEW c, Steady(c), NEW p \in Pod, NEW d, d = RemovePod(c, p)
    PROVE  RemovedAs(c, d, {p})
<1>1. Sound(d) /\ QueueExact(d) /\ c \in ClusterType
    BY RemovePodKept DEF Steady, Sound
<1>2. /\ ~ LivePod(d, p)
      /\ \A q \in Pod \ {p} : d.pods[q] = c.pods[q] /\ d.phase[q] = c.phase[q]
    BY <1>1, RemovePodEffect
<1>3. d.phase[p] # "Succeeded"
    <2>1. CASE ~ LivePod(c, p)
        BY <2>1 DEF RemovePod, Steady, Endless
    <2>2. CASE LivePod(c, p)
        <3>1. PICK a, b : d =
                     [nodes |-> c.nodes, allocatable |-> c.allocatable, allocated |-> a,
                      podsOn |-> b, pods |-> [c.pods EXCEPT ![p] = "gone"],
                      phase |-> [c.phase EXCEPT ![p] = "Pending"],
                      node |-> [c.node EXCEPT ![p] = NoNode],
                      requests |-> [c.requests EXCEPT ![p] = 0],
                      resize_status |-> [c.resize_status EXCEPT ![p] = "None"],
                      pending_queue |-> SwapRemove(c.pending_queue, p)]
            BY <1>1, <2>2, RemovePodFields
        <3> QED BY <1>1, <3>1 DEF ClusterType
    <2> QED BY <2>1, <2>2
<1>4. Steady(d)
    BY <1>1, <1>2, <1>3 DEF Steady, Endless
<1>5. Live(d) = Live(c) \ {p}
    BY <1>2 DEF Live, LivePod
<1> QED BY <1>4, <1>5 DEF RemovedAs

\* submit_pod for several pods.
LEMMA SubmitAllSteady ==
    ASSUME NEW c, Steady(c), NEW s \in Seq(Pod), NoDuplicates(s), NEW size \in Nat,
           \A p \in QueueSet(s) : c.pods[p] = "fresh", NEW d, d = SubmitAll(c, s, size)
    PROVE  SubmittedAs(c, d, QueueSet(s))
<1> DEFINE n == Len(s)
           Upto(i) == {s[k] : k \in 1..i}
<1>0. n \in Nat /\ \A i \in 1..n : s[i] \in Pod /\ c.pods[s[i]] = "fresh"
    BY LenProperties, ElementOfSeq DEF QueueSet
<1>1. PICK w \in [0..n -> ClusterType] :
              /\ w[0] = c
              /\ \A i \in 1..n : w[i] = SubmitPod(w[i - 1], s[i], size)
              /\ d = w[n]
    BY SubmitWalk DEF Steady, Sound
<1> DEFINE P == {i \in 0..n : SubmittedAs(c, w[i], Upto(i))}
<1>2. 0 \in P
    <2>1. Upto(0) = {}
        OBVIOUS
    <2> HIDE DEF Upto
    <2>2. SubmittedAs(c, c, {})
        BY DEF SubmittedAs
    <2>3. SubmittedAs(c, w[0], Upto(0))
        BY <1>1, <2>1, <2>2, Zenon
    <2> QED BY <1>0, <2>3
<1>3. ASSUME NEW i \in 1..n, i - 1 \in P PROVE i \in P
    <2>1. SubmittedAs(c, w[i - 1], Upto(i - 1))
        BY <1>3
    <2>2. Upto(i) = Upto(i - 1) \cup {s[i]}
        BY <1>0, UptoNext
    <2>3. s[i] \notin Upto(i - 1)
        <3>1. \A k \in 1..i - 1 : k \in 1..n /\ k # i
            BY <1>0
        <3> QED BY <1>0, <3>1 DEF NoDuplicates
    <2> HIDE DEF Upto
    <2>4. Steady(w[i - 1]) /\ w[i - 1].pods[s[i]] = "fresh"
        BY <1>0, <2>1, <2>3 DEF SubmittedAs
    <2>5. SubmittedAs(w[i - 1], w[i], {s[i]})
        BY <1>0, <1>1, <2>4, SubmitSteady
    <2>6. SubmittedAs(c, w[i], Upto(i))
        BY <2>1, <2>2, <2>5 DEF SubmittedAs
    <2> QED BY <1>0, <2>6
<1> HIDE DEF P
<1>4. n \in P
    <2>1. \A i \in 1..n : i - 1 \in P => i \in P
        BY <1>3
    <2> HIDE DEF n
    <2> QED BY <1>0, <1>2, <2>1, WalkInduction
<1>5. SubmittedAs(c, w[n], Upto(n))
    BY <1>4 DEF P
<1> QED BY <1>1, <1>5 DEF QueueSet

\* remove_pod for several pods.
LEMMA RemoveAllSteady ==
    ASSUME NEW c, Steady(c), NEW s \in Seq(Pod), NEW d, d = FoldLeft(RemovePod, c, s)
    PROVE  RemovedAs(c, d, QueueSet(s))
<1> DEFINE n == Len(s)
           Upto(i) == {s[k] : k \in 1..i}
<1>0. n \in Nat /\ \A i \in 1..n : s[i] \in Pod
    BY LenProperties, ElementOfSeq
<1>1. PICK w \in [0..n -> ClusterType] :
              /\ w[0] = c
              /\ \A i \in 1..n : w[i] = RemovePod(w[i - 1], s[i])
              /\ d = w[n]
    BY RemoveWalk DEF Steady, Sound
<1> DEFINE P == {i \in 0..n : RemovedAs(c, w[i], Upto(i))}
<1>2. 0 \in P
    <2>1. Upto(0) = {}
        OBVIOUS
    <2> HIDE DEF Upto
    <2>2. RemovedAs(c, c, {})
        BY DEF RemovedAs
    <2>3. RemovedAs(c, w[0], Upto(0))
        BY <1>1, <2>1, <2>2, Zenon
    <2> QED BY <1>0, <2>3
<1>3. ASSUME NEW i \in 1..n, i - 1 \in P PROVE i \in P
    <2>1. RemovedAs(c, w[i - 1], Upto(i - 1))
        BY <1>3
    <2>2. Upto(i) = Upto(i - 1) \cup {s[i]}
        BY <1>0, UptoNext
    <2> HIDE DEF Upto
    <2>3. RemovedAs(w[i - 1], w[i], {s[i]})
        BY <1>0, <1>1, <2>1, RemoveSteady DEF RemovedAs
    <2>4. RemovedAs(c, w[i], Upto(i))
        BY <2>1, <2>2, <2>3 DEF RemovedAs
    <2> QED BY <1>0, <2>4
<1> HIDE DEF P
<1>4. n \in P
    <2>1. \A i \in 1..n : i - 1 \in P => i \in P
        BY <1>3
    <2> HIDE DEF n
    <2> QED BY <1>0, <1>2, <2>1, WalkInduction
<1>5. RemovedAs(c, w[n], Upto(n))
    BY <1>4 DEF P
<1> QED BY <1>1, <1>5 DEF QueueSet

-----------------------------------------------------------------------------
(***************************************************************************)
(* The pods of an owner.                                                   *)
(***************************************************************************)
\* In a cluster without ended pods an owner's pods are its live ones.
LEMMA OwnedLive ==
    ASSUME NEW c, Steady(c), NEW o
    PROVE  Owned(c, o) = {p \in Live(c) : Owner[p] = o}
BY DEF Owned, Live, Steady, Sound, ClusterType, PodPhase, Endless, Is

\* An owner has finitely many pods.
LEMMA OwnedFinite ==
    ASSUME NEW c, NEW o
    PROVE  IsFiniteSet(Owned(c, o)) /\ Cardinality(Owned(c, o)) \in Nat
<1>1. Owned(c, o) \in SUBSET Pod
    BY DEF Owned
<1>2. IsFiniteSet(Owned(c, o))
    BY <1>1, FS_Subset, ReplicaSetsAssumption
<1> QED BY <1>2, FS_CardinalityType

\* A pass or an eviction: the pods that are there stay.
LEMMA SteadySame ==
    ASSUME NEW c, Steady(c), NEW d, Kept(c, d), d.pods = c.pods, NoneSucceeds(c, d)
    PROVE  /\ Steady(d) /\ Live(d) = Live(c)
           /\ \A o : Owned(d, o) = Owned(c, o)
<1>1. Steady(d) /\ Live(d) = Live(c)
    BY DEF Steady, Kept, Endless, NoneSucceeds, Live, LivePod
<1> QED BY <1>1, OwnedLive

-----------------------------------------------------------------------------
(***************************************************************************)
(* The inductive invariant.                                                *)
(***************************************************************************)
\* The cluster is sound and no pod ends, the arena is that of its pods, and the rest typed.
IInv ==
    /\ Steady(state)
    /\ Slotted(slots, Live(state))
    /\ desired \in [Owners -> Nat] /\ cost \in [Pod -> Int] /\ up \subseteq Node

\* No owner has more pods than before or fewer.
Unaltered == \A o : Owned(state', o) = Owned(state, o)

\* At the start there are no pods.
LEMMA InitIInv ==
    ASSUME Init
    PROVE  IInv /\ Live(state) = {}
<1> DEFINE nodes == [n \in Node |-> IF n \in InitialNodes THEN "live" ELSE "fresh"]
           allocatable == [n \in Node |-> IF n \in InitialNodes THEN Capacity[n] ELSE 0]
<1>1. nodes \in [Node -> Life] /\ allocatable \in [Node -> Nat]
    BY ReplicaSetsAssumption DEF Life
<1>2. state = [EmptyCluster EXCEPT !.nodes = nodes, !.allocatable = allocatable]
    BY DEF Init
<1> HIDE DEF nodes, allocatable
<1>3. state = [nodes |-> nodes, allocatable |-> allocatable,
               allocated |-> [n \in Node |-> 0], podsOn |-> [n \in Node |-> {}],
               pods |-> [p \in Pod |-> "fresh"], phase |-> [p \in Pod |-> "Pending"],
               node |-> [p \in Pod |-> NoNode], requests |-> [p \in Pod |-> 0],
               resize_status |-> [p \in Pod |-> "None"], pending_queue |-> <<>>]
    BY <1>2 DEF EmptyCluster
<1>4. state \in ClusterType
    BY <1>1, <1>3, EmptySeq, Fields DEF Life, PodPhase, ResizeStatus
<1>5. FiniteLists(state)
    BY <1>3, FS_EmptySet DEF FiniteLists
<1>6. AllocationExact(state)
    BY <1>3, AllocationIs, SumEmpty DEF Booked
<1>7. LinksAgree(state) /\ Placed(state)
    BY <1>3 DEF LinksAgree, Placed, Is, LivePod
<1>8. QueueExact(state)
    BY <1>3, EmptySeq DEF QueueExact, QueueSet, NoDuplicates, Is, LivePod
<1>9. Endless(state) /\ Live(state) = {}
    BY <1>3 DEF Endless, Live, LivePod
<1>10. Slotted(slots, {})
    <2>1. slots = [index |-> [p \in Pod |-> 0], free |-> <<>>, len |-> 0]
        BY DEF Init
    <2> QED BY <2>1, EmptySeq DEF Slotted, SlotsType, NoDuplicates, QueueSet
<1>11. desired \in [Owners -> Nat] /\ cost \in [Pod -> Int] /\ up \subseteq Node
    BY ReplicaSetsAssumption DEF Init
<1> QED BY <1>4, <1>5, <1>6, <1>7, <1>8, <1>9, <1>10, <1>11 DEF IInv, Steady, Sound

-----------------------------------------------------------------------------
(***************************************************************************)
(* A reconcile.                                                            *)
(***************************************************************************)
\* A scale-up creates as many pods as are missing, in slots of their own.
LEMMA ScaleUpToStep ==
    ASSUME IInv, NEW o \in Owners, NEW k \in Nat, ScaleUpTo(o, k), UNCHANGED <<desired, up>>
    PROVE  /\ IInv'
           /\ Cardinality(Owned(state', o)) = Cardinality(Owned(state, o)) + k
           /\ \A r : r # o => Owned(state', r) = Owned(state, r)
<1> DEFINE free == Unused(o)
           id == [p \in Pod |-> p]
           s == ByIndex(id, free)
           t == SubSeq(s, 1, k)
           N == QueueSet(t)
<1>1. /\ Cardinality(free) >= k
      /\ state' = SubmitAll(state, t, Size[o])
      /\ slots' = FoldLeft(Given, slots, t)
      /\ cost' = [p \in Pod |-> IF p \in N THEN TemplateCost[o] ELSE cost[p]]
    BY DEF ScaleUpTo
<1>2. IsFiniteSet(free) /\ free \subseteq Pod
    <2>1. free \in SUBSET Pod
        BY DEF Unused
    <2> HIDE DEF free
    <2> QED BY <2>1, FS_Subset, ReplicaSetsAssumption
<1>3. \A p \in free : state.pods[p] = "fresh" /\ Owner[p] = o
    BY DEF Unused
<1>4. s \in Seq(free) /\ NoDuplicates(s) /\ QueueSet(s) = free
    <2> HIDE DEF free
    <2>1. \A p \in free : id[p] = p /\ p \in Int
        BY <1>2, ReplicaSetsAssumption
    <2>2. (\A p \in free : id[p] \in Int) /\ (\A p, q \in free : id[p] = id[q] => p = q)
        BY <2>1
    <2> HIDE DEF id
    <2> QED BY <1>2, <2>2, ByIndexOrder
<1> HIDE DEF free, s
<1>5. Cardinality(free) = Len(s)
    BY <1>4, QueueCardinality
<1>6. t \in Seq(free) /\ NoDuplicates(t) /\ N \subseteq free /\ IsFiniteSet(N) /\ Cardinality(N) = k
    <2>1. k <= Len(s)
        BY <1>1, <1>2, <1>5, FS_CardinalityType
    <2> QED BY <1>4, <2>1, FirstOf
<1> HIDE DEF t
<1>7. t \in Seq(Pod)
    BY <1>2, <1>6, SeqMonotonic
<1> HIDE DEF N
<1>8. Steady(state) /\ Size[o] \in Nat
    BY ReplicaSetsAssumption DEF IInv
<1>9. SubmittedAs(state, state', N)
    <2>1. \A p \in N : state.pods[p] = "fresh"
        BY <1>3, <1>6
    <2> QED BY <1>1, <1>6, <1>7, <1>8, <2>1, SubmitAllSteady DEF N
<1>10. N \cap Live(state) = {} /\ Live(state) \in SUBSET Pod
    BY <1>3, <1>6 DEF Live, LivePod
<1>11. Steady(state') /\ Live(state') = Live(state) \cup N
    BY <1>9 DEF SubmittedAs
<1>12. Slotted(slots', Live(state'))
    <2>1. Slotted(slots, Live(state))
        BY DEF IInv
    <2>2. Slotted(FoldLeft(Given, slots, t), Live(state) \cup QueueSet(t))
        BY <1>6, <1>7, <1>10, <2>1, GivenAll DEF N
    <2> QED BY <1>1, <1>11, <2>2 DEF N
<1>13. cost' \in [Pod -> Int]
    <2>1. TemplateCost[o] \in Int /\ cost \in [Pod -> Int]
        BY ReplicaSetsAssumption DEF IInv
    <2> QED BY <1>1, <2>1
<1>14. IInv'
    BY <1>11, <1>12, <1>13 DEF IInv
<1>15. /\ Owned(state', o) = Owned(state, o) \cup N
       /\ \A r : r # o => Owned(state', r) = Owned(state, r)
    <2>1. \A r : /\ Owned(state, r) = {p \in Live(state) : Owner[p] = r}
                 /\ Owned(state', r) = {p \in Live(state') : Owner[p] = r}
        BY <1>8, <1>11, OwnedLive
    <2>2. \A p \in N : Owner[p] = o
        BY <1>3, <1>6
    <2> QED BY <1>11, <2>1, <2>2
<1>16. Owned(state, o) \cap N = {}
    BY <1>8, <1>10, OwnedLive
<1>17. Cardinality(Owned(state', o)) = Cardinality(Owned(state, o)) + k
    <2>1. IsFiniteSet(Owned(state, o)) /\ Cardinality(Owned(state, o)) \in Nat
        BY OwnedFinite
    <2> DEFINE A == Owned(state, o)
    <2> HIDE DEF A
    <2>2. Cardinality(A \cup N) = Cardinality(A) + Cardinality(N) - Cardinality(A \cap N)
        BY <1>6, <2>1, FS_Union DEF A
    <2>3. Cardinality(A \cap N) = 0
        BY <1>16, FS_EmptySet DEF A
    <2>4. Cardinality(A \cup N) = Cardinality(A) + k
        BY <1>6, <2>1, <2>2, <2>3 DEF A
    <2> QED BY <1>15, <2>4 DEF A
<1> QED BY <1>14, <1>15, <1>17

\* A scale-down removes as many pods as there are too many and frees their slots.
LEMMA ScaleDownByStep ==
    ASSUME IInv, NEW o \in Owners, NEW k \in Nat, k <= Cardinality(Owned(state, o)),
           ScaleDownBy(o, k), UNCHANGED <<desired, up>>
    PROVE  /\ IInv'
           /\ Cardinality(Owned(state', o)) = Cardinality(Owned(state, o)) - k
           /\ \A r : r # o => Owned(state', r) = Owned(state, r)
<1> DEFINE costs == UpdatedCosts(state, cost, o)
           s == ScaleDownOrder(state, costs, o)
           t == SubSeq(s, 1, k)
           V == QueueSet(t)
<1>1. /\ state' = FoldLeft(RemovePod, state, t)
      /\ slots' = FoldLeft(Freed, slots, t)
      /\ cost' = UpdatedCosts(state', costs, o)
    BY DEF ScaleDownBy
<1>2. Steady(state) /\ state \in ClusterType
    BY DEF IInv, Steady, Sound
<1>3. costs \in [Pod -> Int]
    BY <1>2, UpdatedType DEF IInv
<1> HIDE DEF costs
<1>4. s \in Seq(Pod) /\ NoDuplicates(s) /\ QueueSet(s) = Owned(state, o)
    <2>1. slots.index \in [Pod -> Nat]
        BY DEF IInv, Slotted, SlotsType
    <2>2. \A p, q \in Pod :
             LivePod(state, p) /\ LivePod(state, q) /\ slots.index[p] = slots.index[q] => p = q
        BY DEF IInv, Slotted, Live
    <2> QED BY <1>2, <1>3, <2>1, <2>2, VictimOrder
<1> HIDE DEF s
<1>5. Cardinality(Owned(state, o)) = Len(s)
    BY <1>4, QueueCardinality
<1>6. /\ t \in Seq(Pod) /\ NoDuplicates(t) /\ V \subseteq Owned(state, o)
      /\ IsFiniteSet(V) /\ Cardinality(V) = k
    <2>1. k <= Len(s)
        BY <1>5
    <2>2. /\ t \in Seq(Pod) /\ NoDuplicates(t) /\ V \subseteq QueueSet(s)
          /\ IsFiniteSet(V) /\ Cardinality(V) = k
        BY <1>4, <2>1, FirstOf
    <2> QED BY <1>4, <2>2
<1> HIDE DEF t, V
<1>7. RemovedAs(state, state', V)
    BY <1>1, <1>2, <1>6, RemoveAllSteady DEF V
<1>8. Steady(state') /\ Live(state') = Live(state) \ V
    BY <1>7 DEF RemovedAs
<1>9. V \subseteq Live(state) /\ Live(state) \in SUBSET Pod
    <2>1. Owned(state, o) \subseteq Live(state)
        BY <1>2, OwnedLive
    <2> QED BY <1>6, <2>1 DEF Live
<1>10. Slotted(slots', Live(state'))
    <2>1. Slotted(slots, Live(state))
        BY DEF IInv
    <2>2. Slotted(FoldLeft(Freed, slots, t), Live(state) \ QueueSet(t))
        BY <1>6, <1>9, <2>1, FreedAll DEF V
    <2> QED BY <1>1, <1>8, <2>2 DEF V
<1>11. cost' \in [Pod -> Int]
    <2>1. state' \in ClusterType
        BY <1>8 DEF Steady, Sound
    <2> QED BY <1>1, <1>3, <2>1, UpdatedType
<1>12. IInv'
    BY <1>8, <1>10, <1>11 DEF IInv
<1>13. /\ Owned(state', o) = Owned(state, o) \ V
       /\ \A r : r # o => Owned(state', r) = Owned(state, r)
    <2>1. \A r : /\ Owned(state, r) = {p \in Live(state) : Owner[p] = r}
                 /\ Owned(state', r) = {p \in Live(state') : Owner[p] = r}
        BY <1>2, <1>8, OwnedLive
    <2>2. \A p \in V : Owner[p] = o
        BY <1>6, <2>1
    <2> QED BY <1>8, <2>1, <2>2
<1>14. Cardinality(Owned(state', o)) = Cardinality(Owned(state, o)) - k
    <2> DEFINE A == Owned(state, o)
    <2>1. IsFiniteSet(A) /\ Cardinality(A) \in Nat
        BY OwnedFinite
    <2>2. V \subseteq A
        BY <1>6
    <2>3. Owned(state', o) = A \ V
        BY <1>13
    <2> HIDE DEF A
    <2>4. Cardinality(A \ V) = Cardinality(A) - Cardinality(A \cap V)
        BY <2>1, FS_Difference
    <2>5. A \cap V = V
        BY <2>2
    <2>6. Cardinality(A \ V) = Cardinality(A) - k
        BY <1>6, <2>4, <2>5
    <2> QED BY <2>3, <2>6 DEF A
<1> QED BY <1>12, <1>13, <1>14

-----------------------------------------------------------------------------
(***************************************************************************)
(* Everything else leaves the number of an owner's pods alone.             *)
(***************************************************************************)
\* A pass over the queue.
LEMMA PassSteady ==
    ASSUME NEW c, Steady(c), NEW ready \in SUBSET Node,
           NEW d \in SchedulePendingFrom(c, ready, c.pending_queue)
    PROVE  /\ Steady(d) /\ Live(d) = Live(c)
           /\ \A o : Owned(d, o) = Owned(c, o)
<1>1. Sound(c) /\ c.pending_queue \in Seq(Pod)
    BY DEF Steady, Sound, ClusterType
<1>2. Ranked(Pod)
    BY ReplicaSetsAssumption DEF Ranked
<1>3. QueueSet(c.pending_queue) \subseteq Pod
    BY <1>1, ElementOfSeq DEF QueueSet
<1>4. PassedTo(c, d, Pod, QueueSet(c.pending_queue), ready)
    BY <1>1, <1>2, <1>3, PassOutcome
<1>5. Kept(c, d) /\ d.pods = c.pods /\ NoneSucceeds(c, d)
    BY <1>4 DEF PassedTo, SameFrame
<1> QED BY <1>5, SteadySame

\* A step that keeps the cluster steady and its pods, and the arena.
LEMMA SameIInv ==
    ASSUME IInv, Steady(state'), Live(state') = Live(state), slots' = slots,
           desired' \in [Owners -> Nat], cost' \in [Pod -> Int], up' \subseteq Node
    PROVE  IInv'
<1>1. Slotted(slots', Live(state'))
    BY DEF IInv
<1> QED BY <1>1 DEF IInv

\* A step that leaves the cluster and the arena alone.
LEMMA ClusterSame ==
    ASSUME IInv, state' = state, slots' = slots,
           desired' \in [Owners -> Nat], cost' \in [Pod -> Int], up' \subseteq Node
    PROVE  IInv' /\ Unaltered
<1>1. Steady(state') /\ Live(state') = Live(state)
    BY DEF IInv
<1>2. IInv'
    BY <1>1, SameIInv
<1> QED BY <1>2 DEF Unaltered

\* A reconcile that finds the right number updates costs alone.
LEMMA SettledStep ==
    ASSUME IInv, NEW o \in Owners, Settled(o), UNCHANGED <<desired, up>>
    PROVE  IInv' /\ Unaltered
<1>1. cost' \in [Pod -> Int]
    BY UpdatedType DEF IInv, Steady, Sound, Settled
<1>2. /\ state' = state /\ slots' = slots /\ desired' \in [Owners -> Nat] /\ up' \subseteq Node
    BY DEF IInv, Settled
<1> QED BY <1>1, <1>2, ClusterSame

\* A provisioning loop is a pass.
LEMMA LoopStep ==
    ASSUME IInv, KarpenterProvisioningLoop
    PROVE  IInv' /\ Unaltered
<1>1. Steady(state) /\ up \in SUBSET Node
    BY DEF IInv
<1>2. state' \in SchedulePendingFrom(state, up, state.pending_queue)
    BY DEF KarpenterProvisioningLoop
<1>3. /\ Steady(state') /\ Live(state') = Live(state)
      /\ \A o : Owned(state', o) = Owned(state, o)
    BY <1>1, <1>2, PassSteady
<1>4. /\ slots' = slots /\ desired' \in [Owners -> Nat]
      /\ cost' \in [Pod -> Int] /\ up' \subseteq Node
    BY DEF KarpenterProvisioningLoop, IInv
<1> QED BY <1>3, <1>4, SameIInv DEF Unaltered

\* A node joins, and a pass follows.
LEMMA NodeReadyStep ==
    ASSUME IInv, NEW n \in Node, NodeReady(n)
    PROVE  IInv' /\ Unaltered
<1> DEFINE c == AddNode(state, n, Capacity[n])
<1>1. Steady(state) /\ Sound(state) /\ state \in ClusterType /\ state.nodes[n] # "live"
    BY DEF IInv, Steady, Sound, NodeReady
<1>2. Capacity[n] \in Nat
    BY ReplicaSetsAssumption
<1>3. /\ up' = up \cup {n} /\ slots' = slots /\ desired' = desired /\ cost' = cost
      /\ state' \in SchedulePendingFrom(c, up', c.pending_queue)
    BY DEF NodeReady
<1>4. state.nodes[n] = "fresh"
    BY DEF NodeReady
<1>5. Kept(state, c)
    BY <1>1, <1>2, <1>4, AddNodeKept
<1>6. c.pods = state.pods /\ c.phase = state.phase
    BY <1>1, <1>2, AddNodeEffect
<1> HIDE DEF c
<1>7. /\ Steady(c) /\ Live(c) = Live(state)
      /\ \A o : Owned(c, o) = Owned(state, o)
    BY <1>1, <1>5, <1>6, SteadySame DEF NoneSucceeds
<1>8. up' \in SUBSET Node
    BY <1>3 DEF IInv
<1>9. /\ Steady(state') /\ Live(state') = Live(c)
      /\ \A o : Owned(state', o) = Owned(c, o)
    BY <1>3, <1>7, <1>8, PassSteady
<1>10. desired' \in [Owners -> Nat] /\ cost' \in [Pod -> Int]
    BY <1>3 DEF IInv
<1> QED BY <1>3, <1>7, <1>8, <1>9, <1>10, SameIInv DEF Unaltered

\* A drain evicts pods, which stay the owner's.
LEMMA NodeDrainedStep ==
    ASSUME IInv, NEW n \in Node, NodeDrained(n)
    PROVE  IInv' /\ Unaltered
<1>1. Steady(state) /\ Sound(state)
    BY DEF IInv, Steady
<1>2. PICK order \in SetToSeqs(state.podsOn[n]) : state' = FoldLeft(EvictPod, state, order)
    BY DEF NodeDrained
<1>3. order \in Seq(Pod)
    <2>1. IsFiniteSet(state.podsOn[n]) /\ state.podsOn[n] \subseteq Pod
        BY <1>1 DEF Sound, FiniteLists, ClusterType
    <2>2. order \in Seq(state.podsOn[n])
        BY <2>1, OrderOf
    <2> QED BY <2>1, <2>2, SeqMonotonic
<1>4. Kept(state, state') /\ EvictedFrom(state, state', QueueSet(order))
    BY <1>1, <1>2, <1>3, EvictAllKept
<1>5. state'.pods = state.pods /\ NoneSucceeds(state, state')
    BY <1>4 DEF EvictedFrom, SameFrame
<1>6. /\ Steady(state') /\ Live(state') = Live(state)
      /\ \A o : Owned(state', o) = Owned(state, o)
    BY <1>1, <1>4, <1>5, SteadySame
<1>7. /\ slots' = slots /\ desired' \in [Owners -> Nat]
      /\ cost' \in [Pod -> Int] /\ up' \subseteq Node
    BY DEF NodeDrained, IInv
<1> QED BY <1>6, <1>7, SameIInv DEF Unaltered

\* A node goes; pods it still ran stay the owner's.
LEMMA NodeTerminatedStep ==
    ASSUME IInv, NEW n \in Node, NodeTerminated(n)
    PROVE  IInv' /\ Unaltered
<1>1. Steady(state) /\ Sound(state) /\ state \in ClusterType
    BY DEF IInv, Steady, Sound
<1>2. state' = RemoveNode(state, n)
    BY DEF NodeTerminated
<1>3. Kept(state, state') /\ state'.pods = state.pods /\ state'.phase = state.phase
    BY <1>1, <1>2, RemoveNodeKept, RemoveNodeEffect
<1>4. /\ Steady(state') /\ Live(state') = Live(state)
      /\ \A o : Owned(state', o) = Owned(state, o)
    BY <1>1, <1>3, SteadySame DEF NoneSucceeds
<1>5. /\ slots' = slots /\ desired' \in [Owners -> Nat]
      /\ cost' \in [Pod -> Int] /\ up' \subseteq Node
    BY DEF NodeTerminated, IInv
<1> QED BY <1>4, <1>5, SameIInv DEF Unaltered

\* The ranking of the nodes: a sequence of the active ones, in which the protected come last.
LEMMA RankingIs ==
    ASSUME IInv, NEW s \in Rankings
    PROVE  /\ s \in Seq(ActiveNodes) /\ Len(s) \in Nat /\ DOMAIN s = 1..Len(s)
           /\ NoDuplicates(s) /\ QueueSet(s) = ActiveNodes
           /\ IsFiniteSet(ActiveNodes) /\ Len(s) <= Cardinality(Node)
<1>1. ActiveNodes \in SUBSET Node
    BY DEF ActiveNodes, IInv
<1>2. IsFiniteSet(ActiveNodes) /\ Cardinality(ActiveNodes) <= Cardinality(Node)
    BY <1>1, FS_Subset, ReplicaSetsAssumption
<1>3. s \in SetToSeqs(ActiveNodes)
    BY DEF Rankings
<1>4. s \in Seq(ActiveNodes) /\ NoDuplicates(s) /\ QueueSet(s) = ActiveNodes
    BY <1>2, <1>3, OrderOf
<1>5. Cardinality(ActiveNodes) = Len(s)
    BY <1>4, QueueCardinality
<1> QED BY <1>2, <1>4, <1>5, LenProperties

\* The ranks are numbers.
LEMMA CostStep ==
    ASSUME IInv, DeletionCostReconcile
    PROVE  IInv' /\ Unaltered
<1>1. PICK s \in Rankings :
          LET Annotated == IF Controller = "PodDeletionCostController" THEN 1..Min({TopN, Len(s)})
                                                                       ELSE DOMAIN s
              At(p) == {i \in Annotated : p \in Running(s[i])}
          IN  cost' = [p \in Pod |-> IF At(p) = {} THEN cost[p] ELSE BaseRank + Min(At(p)) - 1]
    BY DEF DeletionCostReconcile
<1> DEFINE Annotated == IF Controller = "PodDeletionCostController" THEN 1..Min({TopN, Len(s)})
                                                                    ELSE DOMAIN s
           At(p) == {i \in Annotated : p \in Running(s[i])}
<1>2. cost' = [p \in Pod |-> IF At(p) = {} THEN cost[p] ELSE BaseRank + Min(At(p)) - 1]
    BY <1>1
<1>3. Annotated \in SUBSET Nat
    <2>1. Len(s) \in Nat /\ DOMAIN s = 1..Len(s)
        BY RankingIs
    <2>2. Min({TopN, Len(s)}) \in Int
        <3>1. TopN \in Int /\ Len(s) \in Int
            BY <2>1, ReplicaSetsAssumption
        <3> QED BY <3>1, MinOfTwo
    <2> QED BY <2>1, <2>2
<1> HIDE DEF Annotated
<1>4. \A p \in Pod : At(p) # {} => Min(At(p)) \in Int
    <2> TAKE p \in Pod
    <2>1. At(p) \in SUBSET Nat
        BY <1>3
    <2> HIDE DEF At
    <2> QED BY <2>1, MinNat
<1> HIDE DEF At
<1>5. BaseRank \in Int
    BY DEF BaseRank
<1>6. cost' \in [Pod -> Int]
    <2>1. \A p \in Pod : (IF At(p) = {} THEN cost[p] ELSE BaseRank + Min(At(p)) - 1) \in Int
        BY <1>4, <1>5 DEF IInv
    <2> QED BY <1>2, <2>1
<1>7. state' = state /\ slots' = slots /\ desired' \in [Owners -> Nat] /\ up' \subseteq Node
    BY DEF DeletionCostReconcile, IInv
<1> QED BY <1>6, <1>7, ClusterSame

\* The events that only schedule others.
LEMMA QuietStep ==
    ASSUME IInv,
           \/ \E e \in Scales : HpaEvaluation(e)
           \/ \E p \in Pod : PodTerminating(p)
           \/ \E n \in Node : NodeCordoned(n)
           \/ UNCHANGED vars
    PROVE  IInv' /\ Unaltered
<1>1. /\ state' = state /\ slots' = slots /\ desired' = desired /\ cost' = cost
      /\ up' \subseteq up
    BY DEF HpaEvaluation, PodTerminating, NodeCordoned, vars
<1> QED BY <1>1, ClusterSame DEF IInv

\* The target of an owner is set or lowered.
LEMMA RetargetStep ==
    ASSUME IInv, NEW e \in Scales, ScaleUp(e) \/ ScaleDown(e)
    PROVE  IInv' /\ Unaltered
<1>1. e.count \in Nat /\ desired \in [Owners -> Nat]
    BY ReplicaSetsAssumption DEF IInv
<1>2. desired' \in [Owners -> Nat]
    <2>1. CASE ScaleUp(e)
        BY <1>1, <2>1 DEF ScaleUp
    <2>2. CASE ScaleDown(e)
        <3>1. e.owner \in Owners
            BY ReplicaSetsAssumption
        <3>2. SatSub(desired[e.owner], e.count) \in Nat
            BY <1>1, <3>1 DEF SatSub
        <3>3. desired' = [desired EXCEPT ![e.owner] = SatSub(desired[e.owner], e.count)]
            BY <2>2 DEF ScaleDown
        <3> QED BY <1>1, <3>2, <3>3
    <2> QED BY <2>1, <2>2
<1>3. state' = state /\ slots' = slots /\ cost' \in [Pod -> Int] /\ up' \subseteq Node
    BY DEF ScaleUp, ScaleDown, IInv
<1> QED BY <1>2, <1>3, ClusterSame

-----------------------------------------------------------------------------
(***************************************************************************)
(* The theorems.                                                           *)
(***************************************************************************)
\* A reconcile brings its owner's number of pods to the target in one step, whichever way
\* it has to go, and no other owner's.
LEMMA ReconcileStep ==
    ASSUME IInv, NEW o \in Owners, ReplicaSetReconcile(o)
    PROVE  IInv' /\ Target!Reconcile(o)
<1> DEFINE actual == Cardinality(Owned(state, o))
           target == desired[o]
<1>0. actual \in Nat /\ target \in Nat
    BY OwnedFinite DEF IInv
<1>1. /\ UNCHANGED <<desired, up>>
      /\ \/ actual < target /\ ScaleUpTo(o, target - actual)
         \/ actual > target /\ ScaleDownBy(o, actual - target)
         \/ actual = target /\ Settled(o)
    BY DEF ReplicaSetReconcile
<1> HIDE DEF actual, target
<1>2. /\ IInv'
      /\ Cardinality(Owned(state', o)) = target
      /\ \A r : r # o => Owned(state', r) = Owned(state, r)
    <2>1. CASE actual < target /\ ScaleUpTo(o, target - actual)
        <3>1. target - actual \in Nat
            BY <1>0, <2>1
        <3>2. /\ IInv' /\ \A r : r # o => Owned(state', r) = Owned(state, r)
              /\ Cardinality(Owned(state', o)) = actual + (target - actual)
            BY <1>1, <2>1, <3>1, ScaleUpToStep DEF actual
        <3>3. actual + (target - actual) = target
            BY <1>0
        <3> QED BY <3>2, <3>3
    <2>2. CASE actual > target /\ ScaleDownBy(o, actual - target)
        <3>1. actual - target \in Nat /\ actual - target <= actual
            BY <1>0, <2>2
        <3>2. /\ IInv' /\ \A r : r # o => Owned(state', r) = Owned(state, r)
              /\ Cardinality(Owned(state', o)) = actual - (actual - target)
            BY <1>1, <2>2, <3>1, ScaleDownByStep DEF actual
        <3>3. actual - (actual - target) = target
            BY <1>0
        <3> QED BY <3>2, <3>3
    <2>3. CASE actual = target /\ Settled(o)
        <3>1. IInv' /\ \A r : Owned(state', r) = Owned(state, r)
            BY <1>1, <2>3, SettledStep DEF Unaltered
        <3> QED BY <2>3, <3>1 DEF actual
    <2> QED BY <1>1, <2>1, <2>2, <2>3
<1>3. Count' = [Count EXCEPT ![o] = desired[o]]
    <2>1. Count = [r \in Owners |-> Cardinality(Owned(state, r))]
        BY DEF Count
    <2>2. Count' = [r \in Owners |-> Cardinality(Owned(state', r))]
        BY DEF Count
    <2>3. \A r \in Owners : Cardinality(Owned(state', r)) =
              IF r = o THEN desired[o] ELSE Cardinality(Owned(state, r))
        BY <1>2, Zenon DEF target
    <2> QED BY <2>1, <2>2, <2>3
<1> QED BY <1>1, <1>2, <1>3 DEF Target!Reconcile

\* Every other step leaves the numbers alone; one that sets a target sets a number.
LEMMA OtherStep ==
    ASSUME IInv, IInv', Unaltered
    PROVE  Count' = Count
BY DEF Unaltered, Count

\* Every step keeps the invariant and is one of the target's steps or leaves targets and
\* numbers as they are.
LEMMA TargetStep ==
    IInv /\ [Next]_vars => IInv' /\ [Target!Next]_<<desired, Count>>
<1> SUFFICES ASSUME IInv, [Next]_vars PROVE IInv' /\ [Target!Next]_<<desired, Count>>
    OBVIOUS
<1>1. ASSUME NEW o \in Owners, ReplicaSetReconcile(o)
      PROVE  IInv' /\ [Target!Next]_<<desired, Count>>
    BY <1>1, ReconcileStep DEF Target!Next
<1>2. ASSUME NEW e \in Scales, ScaleUp(e) \/ ScaleDown(e)
      PROVE  IInv' /\ [Target!Next]_<<desired, Count>>
    <2>1. IInv' /\ Unaltered
        BY <1>2, RetargetStep
    <2>2. desired' \in [Owners -> Nat] /\ Count' = Count
        BY <2>1, OtherStep DEF IInv
    <2> QED BY <2>1, <2>2 DEF Target!Next, Target!Retarget
<1>3. ASSUME IInv' /\ Unaltered, desired' = desired
      PROVE  IInv' /\ [Target!Next]_<<desired, Count>>
    BY <1>3, OtherStep
<1>4. CASE \E e \in Scales : HpaEvaluation(e)
    BY <1>3, <1>4, QuietStep DEF HpaEvaluation
<1>5. CASE \E p \in Pod : PodTerminating(p)
    BY <1>3, <1>5, QuietStep DEF PodTerminating
<1>6. CASE DeletionCostReconcile
    BY <1>3, <1>6, CostStep DEF DeletionCostReconcile
<1>7. CASE KarpenterProvisioningLoop
    BY <1>3, <1>7, LoopStep DEF KarpenterProvisioningLoop
<1>8. ASSUME NEW n \in Node, NodeReady(n)
      PROVE  IInv' /\ [Target!Next]_<<desired, Count>>
    BY <1>3, <1>8, NodeReadyStep DEF NodeReady
<1>9. CASE \E n \in Node : NodeCordoned(n)
    BY <1>3, <1>9, QuietStep DEF NodeCordoned
<1>10. ASSUME NEW n \in Node, NodeDrained(n)
       PROVE  IInv' /\ [Target!Next]_<<desired, Count>>
    BY <1>3, <1>10, NodeDrainedStep DEF NodeDrained
<1>11. ASSUME NEW n \in Node, NodeTerminated(n)
       PROVE  IInv' /\ [Target!Next]_<<desired, Count>>
    BY <1>3, <1>11, NodeTerminatedStep DEF NodeTerminated
<1>12. CASE UNCHANGED vars
    BY <1>3, <1>12, QuietStep DEF vars
<1> QED BY <1>1, <1>2, <1>4, <1>5, <1>6, <1>7, <1>8, <1>9, <1>10, <1>11, <1>12 DEF Next, Finished

\* The invariant holds in every state of every behaviour: the cluster's books and links are
\* right, what pends is queued once and nothing else is, no pod ends, and the arena gives no
\* slot to two pods.
THEOREM ReplicaSetsInvariant == Spec => []IInv
<1>1. Init => IInv
    BY InitIInv
<1> QED BY <1>1, TargetStep, PTL DEF Spec

\* The two controllers implement the safety part of what they promise, KeepsTarget without
\* its liveness: the number of an owner's pods changes by a reconcile alone, and then to the
\* target in one step.  No drain, pass, preemption, termination or late event loses a
\* replica or makes one too many.
THEOREM ReplicaTargetImplemented == Spec => Target!Spec
<1>1. Init => Target!Init
    <2> SUFFICES ASSUME Init PROVE Target!Init
        OBVIOUS
    <2>1. desired \in [Owners -> Nat]
        BY InitIInv DEF IInv
    <2>2. \A o \in Owners : Cardinality(Owned(state, o)) = 0
        <3> TAKE o \in Owners
        <3>1. Owned(state, o) = {}
            BY InitIInv DEF Owned, Live, Is, IInv
        <3> QED BY <3>1, FS_EmptySet
    <2> QED BY <2>1, <2>2 DEF Target!Init, Count
<1> QED BY <1>1, TargetStep, ReplicaSetsInvariant, PTL DEF Spec, Target!Spec

\* Right after the controller has run, the pods of protected nodes cost more than those of
\* the others: for every cluster if all active nodes get a rank, that is if the strategy has
\* no limit or the limit is not below the number of nodes.
THEOREM ProtectedRankHigherCorrect ==
    ASSUME Controller # "PodDeletionCostController" \/ Cardinality(Node) <= TopN
    PROVE  Spec => ProtectedRankHigher
<1>1. IInv /\ [Next]_vars =>
          [DeletionCostReconcile => \A m, n \in ActiveNodes : ~ Protected(m) /\ Protected(n) =>
               \A p \in Running(m), q \in Running(n) : cost'[p] < cost'[q]]_vars
    <2> SUFFICES ASSUME IInv, DeletionCostReconcile,
                        NEW m \in ActiveNodes, NEW n \in ActiveNodes, ~ Protected(m), Protected(n),
                        NEW p \in Running(m), NEW q \in Running(n)
                 PROVE  cost'[p] < cost'[q]
        OBVIOUS
    <2>1. PICK s \in Rankings :
              LET Annotated == IF Controller = "PodDeletionCostController"
                               THEN 1..Min({TopN, Len(s)}) ELSE DOMAIN s
                  At(r) == {i \in Annotated : r \in Running(s[i])}
              IN  cost' = [r \in Pod |-> IF At(r) = {} THEN cost[r] ELSE BaseRank + Min(At(r)) - 1]
        BY DEF DeletionCostReconcile
    <2> DEFINE Annotated == IF Controller = "PodDeletionCostController" THEN 1..Min({TopN, Len(s)})
                                                                        ELSE DOMAIN s
               At(r) == {i \in Annotated : r \in Running(s[i])}
    <2>2. cost' = [r \in Pod |-> IF At(r) = {} THEN cost[r] ELSE BaseRank + Min(At(r)) - 1]
        BY <2>1
    <2>3. /\ Len(s) \in Nat /\ DOMAIN s = 1..Len(s) /\ NoDuplicates(s) /\ QueueSet(s) = ActiveNodes
          /\ Len(s) <= Cardinality(Node)
        BY RankingIs
    <2>4. Annotated = 1..Len(s)
        <3>1. CASE Controller # "PodDeletionCostController"
            BY <2>3, <3>1
        <3>2. CASE Controller = "PodDeletionCostController"
            <4>1. TopN \in Int /\ Len(s) \in Int /\ Cardinality(Node) \in Int
                BY <2>3, FS_CardinalityType, ReplicaSetsAssumption
            <4>2. Len(s) <= TopN
                BY <2>3, <3>2, <4>1
            <4>3. Min({TopN, Len(s)}) = Len(s)
                <5>1. /\ Min({TopN, Len(s)}) \in {TopN, Len(s)}
                      /\ Min({TopN, Len(s)}) <= Len(s)
                    BY <4>1, MinOfTwo
                <5> QED BY <4>1, <4>2, <5>1
            <4> QED BY <3>2, <4>3
        <3> QED BY <3>1, <3>2
    <2> HIDE DEF Annotated
    <2>5. PICK i \in 1..Len(s) : s[i] = m
        BY <2>3 DEF QueueSet
    <2>6. PICK j \in 1..Len(s) : s[j] = n
        BY <2>3 DEF QueueSet
    <2>7. i < j
        <3>1. ~ RanksBefore(n, m)
            BY DEF RanksBefore
        <3>2. ~ (j < i)
            BY <2>3, <2>5, <2>6, <3>1 DEF Rankings
        <3>3. i # j
            BY <2>5, <2>6
        <3> QED BY <2>3, <3>2, <3>3
    <2>8. \A k \in ActiveNodes : \A r \in Running(k) : r \in Pod /\ state.node[r] = k
        BY DEF ActiveNodes, Running, LiveNode, IInv, Steady, Sound, LinksAgree, ClusterType
    <2>9. \A k \in 1..Len(s) : s[k] \in ActiveNodes
        BY <2>3 DEF QueueSet
    <2>10. At(p) = {i} /\ At(q) = {j}
        <3>1. \A k \in 1..Len(s) : p \in Running(s[k]) => k = i
            <4> TAKE k \in 1..Len(s)
            <4> SUFFICES ASSUME p \in Running(s[k]) PROVE k = i
                OBVIOUS
            <4>1. s[k] = state.node[p] /\ m = state.node[p]
                BY <2>8, <2>9
            <4> QED BY <2>3, <2>5, <4>1 DEF NoDuplicates
        <3>2. \A k \in 1..Len(s) : q \in Running(s[k]) => k = j
            <4> TAKE k \in 1..Len(s)
            <4> SUFFICES ASSUME q \in Running(s[k]) PROVE k = j
                OBVIOUS
            <4>1. s[k] = state.node[q] /\ n = state.node[q]
                BY <2>8, <2>9
            <4> QED BY <2>3, <2>6, <4>1 DEF NoDuplicates
        <3> QED BY <2>4, <2>5, <2>6, <3>1, <3>2
    <2> HIDE DEF At
    <2>11. Min({i}) = i /\ Min({j}) = j
        <3>1. {i} \in SUBSET Nat /\ {j} \in SUBSET Nat
            BY <2>3
        <3> QED BY <3>1, MinNat
    <2>12. p \in Pod /\ q \in Pod
        BY <2>8
    <2>13. cost'[p] = BaseRank + i - 1 /\ cost'[q] = BaseRank + j - 1
        BY <2>2, <2>10, <2>11, <2>12
    <2> QED BY <2>3, <2>7, <2>13 DEF BaseRank
<1> QED BY <1>1, ReplicaSetsInvariant, PTL DEF Spec, ProtectedRankHigher
=============================================================================

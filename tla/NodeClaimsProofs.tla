--------------------------- MODULE NodeClaimsProofs ---------------------------
(***************************************************************************)
(* The dealing of pods into claims, for any workloads, limits and queues:  *)
(* the indexes follow the claims as these move, no node is decided for     *)
(* pods that must not share one, and no two for pods that could.           *)
(***************************************************************************)
EXTENDS NodeClaims, FiniteSetTheorems, TLAPS

Held == UNION {claims[i].pods : i \in DOMAIN claims}

Claim == [first : DOMAIN pods, pods : SUBSET DOMAIN pods]

Typed ==
    /\ IsFiniteSet(DOMAIN pods) /\ DOMAIN pods \subseteq Nat
    /\ \A p \in DOMAIN pods : pods[p] \in Kind
    /\ batches \subseteq SUBSET DOMAIN pods
    /\ todo \subseteq DOMAIN pods
    /\ claims \in Seq(Claim)
    /\ available = [o \in Owner |-> available[o]]
    /\ holders = [l \in DOMAIN NoHolders |-> holders[l]]
    /\ decided \subseteq SUBSET DOMAIN pods

\* Every pod is in one place: a batch to come, the rest of the batch at hand, a claim or
\* a decision.
Apart ==
    /\ \A b, c \in batches : b = c \/ b \cap c = {}
    /\ \A b \in batches : b \cap (todo \cup Held \cup UNION decided) = {}
    /\ todo \cap (Held \cup UNION decided) = {}
    /\ \A i, j \in DOMAIN claims : i = j \/ claims[i].pods \cap claims[j].pods = {}
    /\ Held \cap UNION decided = {}

IInv == Typed /\ Apart /\ IndexesExact /\ ClaimsSound

-----------------------------------------------------------------------------
(***************************************************************************)
(* Positions in a batch and the shares dealt round-robin.                  *)
(***************************************************************************)
LEMMA PositionInjective ==
  ASSUME NEW batch \in SUBSET Nat, IsFiniteSet(batch)
  PROVE  /\ \A p \in batch : Position(batch, p) \in 0..Cardinality(batch) - 1
         /\ \A p, q \in batch : p < q => Position(batch, p) < Position(batch, q)
  <1> DEFINE below(p) == {q \in batch : q < p}
  <1>1. ASSUME NEW p \in batch
        PROVE  /\ IsFiniteSet(below(p)) /\ Cardinality(below(p)) \in Nat
               /\ Cardinality(below(p)) < Cardinality(batch)
    <2>1. below(p) \in SUBSET batch /\ below(p) # batch
      BY <1>1
    <2>2. IsFiniteSet(below(p)) /\ Cardinality(below(p)) <= Cardinality(batch)
          /\ Cardinality(below(p)) # Cardinality(batch)
      BY <2>1, FS_Subset
    <2> QED
      BY <2>2, FS_CardinalityType
  <1>2. ASSUME NEW p \in batch, NEW q \in batch, p < q
        PROVE  Cardinality(below(p)) < Cardinality(below(q))
    <2>1. below(p) \in SUBSET below(q) /\ below(p) # below(q)
      <3>1. \A x \in batch : x \in Nat
        OBVIOUS
      <3>2. p \in below(q) /\ p \notin below(p)
        BY <1>2, <3>1
      <3>3. \A x \in below(p) : x < q
        BY <1>2, <3>1
      <3> QED
        BY <3>2, <3>3
    <2>2. Cardinality(below(p)) <= Cardinality(below(q)) /\ Cardinality(below(p)) # Cardinality(below(q))
      BY <2>1, <1>1, FS_Subset
    <2> QED
      BY <2>2, <1>1
  <1>3. Cardinality(batch) \in Nat
    BY FS_CardinalityType
  <1> QED
    BY <1>1, <1>2, <1>3 DEF Position

\* No share holds more than most pods if needed of them are to hold all.
LEMMA ShareBound ==
  ASSUME NEW batch \in SUBSET Nat, IsFiniteSet(batch),
         NEW needed \in Nat \ {0}, NEW most \in Nat \ {0}, NEW k \in Nat,
         Cardinality(batch) <= needed * most
  PROVE  /\ IsFiniteSet(Share(batch, needed, k))
         /\ Cardinality(Share(batch, needed, k)) <= most
  <1> DEFINE S == Share(batch, needed, k)
             turn == [p \in S |-> Position(batch, p) \div needed]
  <1>0. /\ \A p \in batch : Position(batch, p) \in 0..Cardinality(batch) - 1
        /\ \A p, q \in batch : p < q => Position(batch, p) < Position(batch, q)
        /\ Cardinality(batch) \in Nat
    BY PositionInjective, FS_CardinalityType
  <1>1. \A p \in S : p \in batch /\ Position(batch, p) \in Nat /\ Position(batch, p) < needed * most
                     /\ Position(batch, p) % needed = k
    BY <1>0 DEF Share
  <1>2. turn \in [S -> 0..most - 1]
    BY <1>1
  <1>3. ASSUME NEW p \in S, NEW q \in S, turn[p] = turn[q]
        PROVE  p = q
    <2>1. Position(batch, p) = Position(batch, q)
      BY <1>1, <1>3
    <2>2. p \in Nat /\ q \in Nat /\ p \in batch /\ q \in batch
      BY <1>1
    <2> QED
      BY <2>1, <2>2, <1>0, <1>1
  <1>4. turn \in Injection(S, 0..most - 1)
    BY <1>2, <1>3 DEF Injection, IsInjective
  <1>5. IsFiniteSet(0..most - 1) /\ Cardinality(0..most - 1) = most
    BY FS_Interval
  <1> QED
    BY <1>4, <1>5, FS_Injection

\* Every position is taken.
LEMMA PositionTaken ==
  ASSUME NEW batch \in SUBSET Nat, IsFiniteSet(batch), NEW v \in 0..Cardinality(batch) - 1
  PROVE  \E p \in batch : Position(batch, p) = v
  <1> DEFINE n == Cardinality(batch)
             at == [p \in batch |-> Position(batch, p)]
  <1>1. n \in Nat /\ IsFiniteSet(0..n - 1) /\ Cardinality(0..n - 1) = n
    BY FS_CardinalityType, FS_Interval
  <1>2. /\ \A p \in batch : Position(batch, p) \in 0..n - 1
        /\ \A p, q \in batch : p < q => Position(batch, p) < Position(batch, q)
    BY PositionInjective
  <1> HIDE DEF n
  <1>3. at \in [batch -> 0..n - 1]
    BY <1>2
  <1>4. ASSUME NEW p \in batch, NEW q \in batch, at[p] = at[q]
        PROVE  p = q
    <2>1. p \in Nat /\ q \in Nat /\ Position(batch, p) \in Nat /\ Position(batch, p) = Position(batch, q)
      BY <1>1, <1>2, <1>4
    <2> QED
      BY <2>1, <1>2
  <1>5. at \in Injection(batch, 0..n - 1)
    BY <1>3, <1>4 DEF Injection, IsInjective
  <1>6. at \in Surjection(batch, 0..n - 1)
    BY <1>1, <1>5, FS_Injection DEF n
  <1> QED
    BY <1>6 DEF Surjection, n

\* A share holds m pods if its m-th turn comes before the pods run out.
LEMMA ShareSize ==
  ASSUME NEW batch \in SUBSET Nat, IsFiniteSet(batch), NEW needed \in Nat \ {0},
         NEW k \in 0..needed - 1, NEW m \in Nat, k + (m - 1) * needed < Cardinality(batch)
  PROVE  /\ IsFiniteSet(Share(batch, needed, k)) /\ Cardinality(Share(batch, needed, k)) \in Nat
         /\ m <= Cardinality(Share(batch, needed, k))
  <1> DEFINE S == Share(batch, needed, k)
             v(t) == k + t * needed
             turn == [t \in 0..m - 1 |-> CHOOSE p \in batch : Position(batch, p) = v(t)]
  <1>1. ASSUME NEW t \in 0..m - 1
        PROVE  /\ v(t) \in 0..Cardinality(batch) - 1 /\ v(t) % needed = k
               /\ v(t) \in Nat /\ v(t) \div needed = t
    <2>1. t * needed \in Nat /\ (m - 1 - t) * needed \in Nat
      BY m - 1 - t \in Nat
    <2>2. (m - 1) * needed = t * needed + (m - 1 - t) * needed
      OBVIOUS
    <2>3. Cardinality(batch) \in Nat
      BY FS_CardinalityType
    <2>4. v(t) \in Nat /\ v(t) < Cardinality(batch)
      BY <2>1, <2>2, <2>3
    <2> QED
      BY <2>3, <2>4
  <1> HIDE DEF v
  <1>2. ASSUME NEW t \in 0..m - 1
        PROVE  turn[t] \in batch /\ Position(batch, turn[t]) = v(t)
    <2>1. \E p \in batch : Position(batch, p) = v(t)
      BY <1>1, PositionTaken
    <2> QED
      BY <2>1
  <1>3. turn \in [0..m - 1 -> S]
    BY <1>1, <1>2 DEF Share
  <1>4. ASSUME NEW t \in 0..m - 1, NEW u \in 0..m - 1, turn[t] = turn[u]
        PROVE  t = u
    <2>1. v(t) = v(u)
      BY <1>2, <1>4
    <2> QED
      BY <2>1, <1>1
  <1> HIDE DEF turn
  <1>5. turn \in Injection(0..m - 1, S)
    BY <1>3, <1>4 DEF Injection, IsInjective
  <1>6. S \in SUBSET batch
    BY DEF Share
  <1>7. IsFiniteSet(S) /\ Cardinality(S) \in Nat
    BY <1>6, FS_Subset, FS_CardinalityType
  <1>8. Cardinality(0..m - 1) = m
    BY FS_Interval
  <1> QED
    BY <1>5, <1>7, <1>8, FS_Injection

\* The arithmetic of two shares: n pods for needed nodes, where one node fewer would not do.
LEMMA TurnsOfTwo ==
  ASSUME NEW n \in Nat, NEW d \in Nat, d >= 2, d <= n, NEW most \in Nat, most * (d - 1) < n
  PROVE  (n \div d) + ((n + 1) \div d) > most
  <1> DEFINE a == n \div d
             b == (n + 1) \div d
  <1>1. a \in Nat /\ b \in Nat /\ n <= a * d + (d - 1) /\ n + 1 <= b * d + (d - 1)
    OBVIOUS
  <1>2. a * d <= n /\ b * d <= n + 1
    OBVIOUS
  <1> HIDE DEF a, b
  <1>3. SUFFICES ASSUME a + b <= most
                 PROVE  FALSE
    BY <1>1 DEF a, b
  <1>4. a >= 1
    <2>1. CASE a = 0
      BY <2>1, <1>1
    <2> QED
      BY <2>1, <1>1
  <1>5. b = a \/ b = a + 1
    <2>1. b * d < (a + 2) * d
      <3>1. (a + 2) * d = a * d + 2 * d
        BY <1>1
      <3> QED
        BY <3>1, <1>1, <1>2
    <2>2. a * d < (b + 1) * d
      <3>1. (b + 1) * d = b * d + d
        BY <1>1
      <3> QED
        BY <3>1, <1>1, <1>2
    <2>3. b < a + 2
      <3>1. SUFFICES ASSUME b >= a + 2
                     PROVE  FALSE
        BY <1>1
      <3>2. (b - (a + 2)) * d \in Nat
        BY <3>1, <1>1
      <3>3. (b - (a + 2)) * d = b * d - (a + 2) * d
        BY <1>1
      <3> QED
        BY <3>2, <3>3, <2>1, <1>1
    <2>4. a < b + 1
      <3>1. SUFFICES ASSUME a >= b + 1
                     PROVE  FALSE
        BY <1>1
      <3>2. (a - (b + 1)) * d \in Nat
        BY <3>1, <1>1
      <3>3. (a - (b + 1)) * d = a * d - (b + 1) * d
        BY <1>1
      <3> QED
        BY <3>2, <3>3, <2>2, <1>1
    <2> QED
      BY <2>3, <2>4, <1>1
  <1>6. (a + b) * (d - 1) <= most * (d - 1)
    <2>1. (most - (a + b)) * (d - 1) \in Nat
      BY <1>1, <1>3
    <2>2. (most - (a + b)) * (d - 1) = most * (d - 1) - (a + b) * (d - 1)
      BY <1>1
    <2> QED
      BY <2>1, <2>2, <1>1
  <1>7. (a + b) * (d - 1) = a * d + b * d - (a + b)
    BY <1>1
  <1>8. a * (d - 2) \in Nat /\ a * (d - 2) = a * d - 2 * a /\ a * d \in Nat /\ b * d \in Nat
    BY <1>1
  <1>9. CASE b = a
    <2>1. (a - 1) * (d - 2) \in Nat /\ (a - 1) * (d - 2) = a * (d - 2) - (d - 2)
      BY <1>1, <1>4
    <2> QED
      BY <2>1, <1>1, <1>6, <1>7, <1>8, <1>9
  <1>10. CASE b = a + 1
    <2>1. b * d = a * d + d
      BY <1>1, <1>10
    <2> QED
      BY <2>1, <1>1, <1>6, <1>7, <1>8, <1>10
  <1> QED
    BY <1>5, <1>9, <1>10

\* The nodes needed for n pods, most to a node: one fewer would not do.
LEMMA AsFewAsCanBe ==
  ASSUME NEW n \in Nat, NEW most \in Nat \ {0}, most <= n
  PROVE  LET needed == (n + most - 1) \div most
         IN  needed \in Nat \ {0} /\ needed <= n /\ most * (needed - 1) < n
  <1> DEFINE d == (n + most - 1) \div most
  <1>1. d \in Nat /\ d * most <= n + most - 1 /\ n + most - 1 <= d * most + (most - 1)
    OBVIOUS
  <1> HIDE DEF d
  <1>2. d # 0
    <2>1. CASE d = 0
      BY <1>1, <2>1
    <2> QED
      BY <2>1
  <1>3. most * (d - 1) = d * most - most
    BY <1>1
  <1>4. (most - 1) * (d - 1) \in Nat /\ (most - 1) * (d - 1) = most * (d - 1) - (d - 1)
    BY <1>1, <1>2
  <1>5. d \in Nat \ {0} /\ d <= n /\ most * (d - 1) < n
    BY <1>1, <1>2, <1>3, <1>4
  <1> QED
    BY <1>5 DEF d

\* Two shares together hold more pods than may share a node.
LEMMA SharesExceed ==
  ASSUME NEW batch \in SUBSET Nat, IsFiniteSet(batch), NEW most \in Nat \ {0},
         NEW needed \in Nat, needed <= Cardinality(batch), most * (needed - 1) < Cardinality(batch),
         NEW k \in 0..needed - 1, NEW l \in 0..needed - 1, k < l
  PROVE  LET both == Share(batch, needed, k) \cup Share(batch, needed, l)
         IN  Cardinality(both) \in most + 1..Cardinality(batch)
  <1> DEFINE n == Cardinality(batch)
             a == n \div needed
             b == (n + 1) \div needed
             S == Share(batch, needed, l)
             T == Share(batch, needed, k)
  <1>1. n \in Nat /\ needed >= 2 /\ needed \in Nat \ {0}
    BY FS_CardinalityType
  <1>2. a \in Nat /\ b \in Nat /\ a * needed <= n /\ b * needed <= n + 1
    BY <1>1
  <1>3. a + b > most
    BY <1>1, TurnsOfTwo
  <1>4. (a - 1) * needed = a * needed - needed /\ (b - 1) * needed = b * needed - needed
    BY <1>1, <1>2
  <1>5. l + (a - 1) * needed < n /\ k + (b - 1) * needed < n
    BY <1>1, <1>2, <1>4
  <1> HIDE DEF n, a, b
  <1>6. IsFiniteSet(S) /\ Cardinality(S) \in Nat /\ a <= Cardinality(S)
    BY <1>1, <1>2, <1>5, ShareSize DEF n
  <1>7. IsFiniteSet(T) /\ Cardinality(T) \in Nat /\ b <= Cardinality(T)
    BY <1>1, <1>2, <1>5, ShareSize DEF n
  <1>8. T \cap S = {} /\ T \cup S \in SUBSET batch
    BY DEF Share
  <1> HIDE DEF S, T
  <1>9. Cardinality(T \cup S) = Cardinality(T) + Cardinality(S)
    <2>1. Cardinality(T \cup S) = Cardinality(T) + Cardinality(S) - Cardinality(T \cap S)
      BY <1>6, <1>7, FS_Union
    <2>2. Cardinality(T \cap S) = 0
      BY <1>8, FS_EmptySet, Zenon
    <2> QED
      BY <2>1, <2>2, <1>6, <1>7
  <1>10. Cardinality(T \cup S) <= n
    BY <1>8, FS_Subset DEF n
  <1>11. Cardinality(T \cup S) \in most + 1..n
    BY <1>1, <1>2, <1>3, <1>6, <1>7, <1>9, <1>10
  <1> QED
    BY <1>11 DEF S, T, n

-----------------------------------------------------------------------------
(***************************************************************************)
(* Sets of pods that may share a node.                                     *)
(***************************************************************************)
LEMMA KindsTyped ==
  ASSUME Typed, NEW p \in DOMAIN pods
  PROVE  OwnerOf(p) \in Owner /\ Skews[OwnerOf(p)] \subseteq Nat \ {0}
  BY NodeClaimsAssumption DEF Typed, OwnerOf

LEMMA OfOwnerFinite ==
  ASSUME Typed, NEW ps \in SUBSET DOMAIN pods, NEW o
  PROVE  IsFiniteSet(OfOwner(o, ps)) /\ Cardinality(OfOwner(o, ps)) \in Nat
  <1>1. OfOwner(o, ps) \in SUBSET DOMAIN pods
    BY DEF OfOwner
  <1> QED
    BY <1>1, FS_Subset, FS_CardinalityType DEF Typed

\* A new pod is one more of its owner's and none of another's.
LEMMA CountGrows ==
  ASSUME Typed, NEW ps \in SUBSET DOMAIN pods, NEW p \in DOMAIN pods, p \notin ps, NEW o
  PROVE  Cardinality(OfOwner(o, ps \cup {p})) =
           IF OwnerOf(p) = o THEN Cardinality(OfOwner(o, ps)) + 1 ELSE Cardinality(OfOwner(o, ps))
  <1>1. CASE OwnerOf(p) = o
    <2>1. OfOwner(o, ps \cup {p}) = OfOwner(o, ps) \cup {p} /\ p \notin OfOwner(o, ps)
      BY <1>1 DEF OfOwner
    <2> QED
      BY <1>1, <2>1, OfOwnerFinite, FS_AddElement
  <1>2. CASE OwnerOf(p) # o
    <2>1. OfOwner(o, ps \cup {p}) = OfOwner(o, ps)
      BY <1>2 DEF OfOwner
    <2> QED
      BY <1>2, <2>1
  <1> QED
    BY <1>1, <1>2

\* A pod that a claim takes leaves it sound.
LEMMA SoundGrows ==
  ASSUME Typed, NEW ps \in SUBSET DOMAIN pods, NEW p \in DOMAIN pods, p \notin ps,
         Sound(ps), ~ Conflict(p, ps), ~ Full(OwnerOf(p), ps)
  PROVE  Sound(ps \cup {p})
  <1>1. \A q, r \in ps \cup {p} : q # r => ~ \E s \in AntiAffinity[OwnerOf(q)] : Matches(r, s)
    BY DEF Sound, Conflict
  <1>2. ASSUME NEW q \in ps \cup {p}, NEW skew \in Skews[OwnerOf(q)]
        PROVE  Cardinality(OfOwner(OwnerOf(q), ps \cup {p})) <= skew
    <2>1. q \in DOMAIN pods /\ skew \in Nat
      BY KindsTyped
    <2>2. Cardinality(OfOwner(OwnerOf(q), ps)) \in Nat
      BY OfOwnerFinite
    <2>3. CASE OwnerOf(p) = OwnerOf(q)
      <3>1. ~ (Cardinality(OfOwner(OwnerOf(q), ps)) >= skew)
        BY <2>3, <1>2 DEF Full
      <3> QED
        BY <2>1, <2>2, <2>3, <3>1, CountGrows
    <2>4. CASE OwnerOf(p) # OwnerOf(q)
      <3>1. q \in ps
        BY <2>4
      <3>2. Cardinality(OfOwner(OwnerOf(q), ps)) <= skew
        BY <3>1, <1>2 DEF Sound
      <3> QED
        BY <2>4, <3>2, CountGrows
    <2> QED
      BY <2>3, <2>4
  <1> QED
    BY <1>1, <1>2 DEF Sound

\* A pod alone is sound.
LEMMA SoundAlone ==
  ASSUME Typed, NEW p \in DOMAIN pods
  PROVE  Sound({p}) /\ \A o : Cardinality(OfOwner(o, {p})) = IF OwnerOf(p) = o THEN 1 ELSE 0
  <1>1. \A o : OfOwner(o, {p}) = IF OwnerOf(p) = o THEN {p} ELSE {}
    BY DEF OfOwner
  <1>2. \A o : Cardinality(OfOwner(o, {p})) = IF OwnerOf(p) = o THEN 1 ELSE 0
    BY <1>1, FS_EmptySet, FS_Singleton
  <1>3. \A skew \in Skews[OwnerOf(p)] : 1 <= skew
    BY KindsTyped
  <1> QED
    BY <1>2, <1>3 DEF Sound

\* A share of a uniform batch is sound: its pods may share a node, or it is one pod.
LEMMA ShareSound ==
  ASSUME Typed, NEW batch \in SUBSET DOMAIN pods, AllSame(batch), NEW most \in Nat \ {0},
         EffectiveMax(batch, most), NEW needed \in Nat \ {0}, NEW k \in Nat,
         Cardinality(batch) <= needed * most
  PROVE  Share(batch, needed, k) \subseteq batch /\ Sound(Share(batch, needed, k))
  <1> DEFINE S == Share(batch, needed, k)
  <1>1. S \subseteq batch /\ batch \in SUBSET Nat /\ IsFiniteSet(batch)
    BY FS_Subset DEF Share, Typed
  <1>2. IsFiniteSet(S) /\ Cardinality(S) <= most /\ Cardinality(S) \in Nat
    BY <1>1, ShareBound, FS_CardinalityType
  <1>3. \A p, q \in S : OwnerOf(p) = OwnerOf(q)
    BY <1>1 DEF AllSame, OwnerOf
  <1>4. ASSUME most = 1
        PROVE  Sound(S)
    <2>1. CASE S = {}
      BY <2>1 DEF Sound
    <2>2. CASE S # {}
      <3>1. Cardinality(S) = 1
        BY <1>2, <1>4, <2>2, FS_EmptySet
      <3>2. PICK p : S = {p}
        BY <1>2, <3>1, FS_Singleton
      <3>3. p \in DOMAIN pods
        BY <3>2, <1>1
      <3>4. Sound({p})
        BY <3>3, SoundAlone
      <3> QED
        BY <3>2, <3>4
    <2> QED
      BY <2>1, <2>2
  <1>5. ASSUME most # 1
        PROVE  Sound(S)
    <2>1. \A p \in S : MayShare(p, most)
      BY <1>1, <1>5 DEF EffectiveMax
    <2>2. \A p \in S : ~ \E s \in AntiAffinity[OwnerOf(p)] : Matches(p, s)
      BY <2>1, <1>5 DEF MayShare
    <2>3. \A p, q \in S : ~ \E s \in AntiAffinity[OwnerOf(p)] : Matches(q, s)
      BY <2>2, <1>3 DEF Matches, LabelsOf
    <2>4. ASSUME NEW p \in S, NEW skew \in Skews[OwnerOf(p)]
          PROVE  Cardinality(OfOwner(OwnerOf(p), S)) <= skew
      <3>1. OfOwner(OwnerOf(p), S) = S
        BY <1>3 DEF OfOwner
      <3>2. most <= skew
        BY <2>1, <2>4 DEF MayShare
      <3>3. skew \in Nat
        BY <1>1, <2>4, KindsTyped
      <3> QED
        BY <3>1, <3>2, <3>3, <1>2
    <2> QED
      BY <2>3, <2>4 DEF Sound
  <1> QED
    BY <1>1, <1>4, <1>5

-----------------------------------------------------------------------------
(***************************************************************************)
(* What a set of pods asks for.  The sums are those of ClusterProofs,      *)
(* whose lemmas about them speak of no cluster.                            *)
(***************************************************************************)
Summing == INSTANCE ClusterProofs WITH Node <- {}, Pod <- {}, NoNode <- {},
                                      Priority <- <<>>, Scoring <- "MostAllocated"

Sizes == [p \in DOMAIN pods |-> pods[p].size]

LEMMA FiniteIs == \A S : IsFiniteSet(S) <=> Summing!IsFiniteSet(S)
  BY DEF IsFiniteSet, Summing!IsFiniteSet

LEMMA TotalIs ==
  ASSUME NEW ps \in SUBSET DOMAIN pods
  PROVE  Total(ps) = Summing!Sum(Sizes, ps)
  BY DEF Total, SizeOf, Sizes, Summing!Sum, MapThenSumSet, MapThenFoldSet,
         Summing!MapThenSumSet, Summing!MapThenFoldSet

LEMMA SizesTyped ==
  ASSUME Typed, NEW ps \in SUBSET DOMAIN pods
  PROVE  IsFiniteSet(ps) /\ \A p \in ps : Sizes[p] \in Nat \ {0} /\ Sizes[p] = pods[p].size
  <1>1. IsFiniteSet(ps)
    BY FS_Subset DEF Typed
  <1>2. \A p \in DOMAIN pods : pods[p].size \in Nat \ {0}
    BY NodeClaimsAssumption DEF Typed
  <1> QED
    BY <1>1, <1>2 DEF Sizes

\* More pods ask for no less.
LEMMA TotalGrows ==
  ASSUME Typed, NEW ps \in SUBSET DOMAIN pods, NEW qs \in SUBSET ps
  PROVE  Total(ps) \in Nat /\ Total(qs) \in Nat /\ Total(qs) <= Total(ps)
  <1>1. \A rs \in SUBSET DOMAIN pods : Summing!IsFiniteSet(rs) /\ \A p \in rs : Sizes[p] \in Nat
    BY SizesTyped, FiniteIs
  <1>2. \A rs \in SUBSET DOMAIN pods : Summing!Sum(Sizes, rs) \in Nat
    BY <1>1, Summing!SumNat
  <1>3. Summing!Sum(Sizes, qs) <= Summing!Sum(Sizes, ps)
    BY <1>1, Summing!SumPart
  <1>4. qs \in SUBSET DOMAIN pods
    OBVIOUS
  <1> QED
    BY <1>2, <1>3, <1>4, TotalIs

\* Pods of one size ask for as many times that size.
LEMMA TotalUniform ==
  ASSUME Typed, NEW ps \in SUBSET DOMAIN pods, NEW size \in Nat,
         \A p \in ps : pods[p].size = size
  PROVE  Total(ps) = Cardinality(ps) * size
  <1> DEFINE Uniform(s) == Summing!Sum(Sizes, s) = Cardinality(s) * size
             B == {s \in SUBSET ps : ~ Uniform(s)}
  <1>1. \A s \in SUBSET ps : /\ IsFiniteSet(s) /\ Summing!IsFiniteSet(s) /\ Cardinality(s) \in Nat
                             /\ \A p \in s : Sizes[p] = size /\ Sizes[p] \in Nat
    BY SizesTyped, FiniteIs, FS_CardinalityType
  <1>2. \A s \in B : \E x \in s : s \ {x} \in B
    <2> SUFFICES ASSUME NEW s \in SUBSET ps, ~ Uniform(s)
                 PROVE  \E x \in s : ~ Uniform(s \ {x})
      OBVIOUS
    <2>1. s # {}
      <3>1. Summing!Sum(Sizes, {}) = 0
        BY Summing!SumEmpty
      <3>2. Uniform({})
        BY <3>1, FS_EmptySet
      <3> QED
        BY <3>2, Zenon
    <2>2. PICK x \in s : TRUE
      BY <2>1
    <2>3. Summing!Sum(Sizes, s) = Sizes[x] + Summing!Sum(Sizes, s \ {x})
      BY <1>1, Summing!SumRemove
    <2>4. Cardinality(s \ {x}) = Cardinality(s) - 1
      BY <1>1, <2>2, FS_RemoveElement
    <2>5. Cardinality(s) * size = size + (Cardinality(s) - 1) * size
      BY <1>1
    <2>6. Sizes[x] = size /\ s \ {x} \in SUBSET ps
      BY <1>1
    <2> QED
      BY <2>2, <2>3, <2>4, <2>5, <2>6
  <1>3. B = {}
    BY <1>1, <1>2, Summing!SubsetDescent
  <1>4. Uniform(ps)
    BY <1>3
  <1> QED
    BY <1>4, TotalIs

-----------------------------------------------------------------------------
(***************************************************************************)
(* The two claims that change places.                                      *)
(***************************************************************************)
LEMMA SwapInvolution ==
  ASSUME NEW n \in Nat, NEW i \in 1..n
  PROVE  /\ \A j \in 1..n : Swapped(i, j) \in 1..n /\ Swapped(i, Swapped(i, j)) = j
         /\ \A S \in SUBSET (1..n) : {Swapped(i, j) : j \in S} = {j \in 1..n : Swapped(i, j) \in S}
  <1>1. \A j \in 1..n : Swapped(i, j) \in 1..n /\ Swapped(i, Swapped(i, j)) = j
    BY DEF Swapped
  <1> QED
    BY <1>1

\* What is said of pods does not change while these do not.
LEMMA PodsFixed ==
  ASSUME pods' = pods
  PROVE  /\ \A p : OwnerOf(p)' = OwnerOf(p) /\ LabelsOf(p)' = LabelsOf(p)
         /\ \A o, ps : OfOwner(o, ps)' = OfOwner(o, ps) /\ Full(o, ps)' = Full(o, ps)
         /\ \A ps : Sound(ps)' = Sound(ps)
         /\ \A ps : Total(ps)' = Total(ps)
  <1>1. \A p : OwnerOf(p)' = OwnerOf(p) /\ LabelsOf(p)' = LabelsOf(p)
    BY DEF OwnerOf, LabelsOf
  <1>2. \A o, ps : OfOwner(o, ps)' = OfOwner(o, ps)
    BY DEF OfOwner, OwnerOf
  <1>3. \A o, ps : Full(o, ps)' = Full(o, ps)
    BY <1>2 DEF Full
  <1>4. \A ps : Sound(ps)' = Sound(ps)
    BY DEF Sound, Matches, LabelsOf, OwnerOf, OfOwner
  <1>5. \A ps : Total(ps)' = Total(ps)
    BY DEF Total
  <1> QED
    BY <1>1, <1>2, <1>3, <1>4, <1>5

-----------------------------------------------------------------------------
(***************************************************************************)
(* The start and the steps of the invariant.                               *)
(***************************************************************************)
LEMMA InitEstablishes == Init => IInv
  <1> SUFFICES ASSUME Init
               PROVE  IInv
    OBVIOUS
  <1>1. PICK k \in 0..MaxPods : pods \in [1..k -> Kind]
    BY DEF Init
  <1>2. IsFiniteSet(DOMAIN pods) /\ DOMAIN pods \subseteq Nat /\ \A p \in DOMAIN pods : pods[p] \in Kind
    <2>1. DOMAIN pods = 1..k /\ k \in Nat
      BY <1>1, NodeClaimsAssumption
    <2> QED
      BY <1>1, <2>1, FS_Interval
  <1>3. /\ batches = Batches /\ todo = {} /\ claims = <<>> /\ decided = {}
        /\ available = NoneAvailable /\ holders = NoHolders
    BY DEF Init
  <1>4. DOMAIN claims = {} /\ Held = {}
    BY <1>3 DEF Held
  <1>5. Typed
    <2>1. Batches \subseteq SUBSET DOMAIN pods
      BY DEF Batches, Matching
    <2>2. available = [o \in Owner |-> available[o]]
      BY <1>3 DEF NoneAvailable
    <2>3. holders = [l \in DOMAIN NoHolders |-> holders[l]]
      BY <1>3 DEF NoHolders
    <2> QED
      BY <1>2, <1>3, <2>1, <2>2, <2>3 DEF Typed
  <1>6. Apart
    <2>1. \A b, c \in Batches : b = c \/ b \cap c = {}
      BY DEF Batches
    <2> QED
      BY <1>3, <1>4, <2>1 DEF Apart
  <1>7. IndexesExact
    <2>1. \A l \in DOMAIN holders : holders[l] = {}
      BY <1>3 DEF NoHolders
    <2>2. \A o \in Owner : available[o] = {}
      BY <1>3 DEF NoneAvailable
    <2> QED
      BY <1>4, <2>1, <2>2 DEF IndexesExact
  <1>8. ClaimsSound
    BY <1>3, <1>4 DEF ClaimsSound
  <1> QED
    BY <1>5, <1>6, <1>7, <1>8 DEF IInv

\* A uniform batch: its shares are sound, apart from one another and from the rest.
LEMMA DealUniformKeeps == IInv /\ DealUniform => IInv'
  <1> SUFFICES ASSUME IInv, DealUniform
               PROVE  IInv'
    OBVIOUS
  <1>1. PICK batch \in batches, most \in 1..MaxPods :
           /\ todo = {} /\ claims = <<>> /\ AllSame(batch) /\ EffectiveMax(batch, most)
           /\ decided' = decided \cup
                Decisions({Share(batch, (Cardinality(batch) + most - 1) \div most, k) :
                             k \in 0..(Cardinality(batch) + most - 1) \div most - 1})
           /\ batches' = batches \ {batch}
    BY DEF DealUniform
  <1>2. /\ pods' = pods /\ todo' = todo /\ claims' = claims
        /\ available' = available /\ holders' = holders
    BY DEF DealUniform, input, indexes
  <1> DEFINE needed == (Cardinality(batch) + most - 1) \div most
             shares == {Share(batch, needed, k) : k \in 0..needed - 1}
  <1>3. batch \in SUBSET DOMAIN pods /\ batch \in SUBSET Nat /\ IsFiniteSet(batch)
    BY FS_Subset DEF IInv, Typed
  <1>4. most \in Nat \ {0} /\ Cardinality(batch) \in Nat /\ Cardinality(batch) > 1
    BY <1>1, <1>3, FS_CardinalityType, NodeClaimsAssumption DEF AllSame
  <1>5. needed \in Nat \ {0} /\ Cardinality(batch) <= needed * most
    BY <1>4
  <1>6. ASSUME NEW ps \in shares
        PROVE  ps \subseteq batch /\ Sound(ps)
    <2>1. PICK k \in 0..needed - 1 : ps = Share(batch, needed, k)
      OBVIOUS
    <2>2. k \in Nat /\ Typed
      BY <1>5 DEF IInv
    <2> HIDE DEF needed, shares
    <2> QED
      BY <2>1, <2>2, <1>1, <1>3, <1>4, <1>5, ShareSound
  <1>7. \A ps, qs \in shares : ps = qs \/ ps \cap qs = {}
    BY DEF Share
  <1>8. /\ decided' = decided \cup Decisions(shares)
        /\ Decisions(shares) \subseteq shares /\ \A ps \in Decisions(shares) : Total(ps) <= Largest
    BY <1>1 DEF Decisions
  <1> HIDE DEF needed, shares
  <1>9. DOMAIN claims = {} /\ Held = {} /\ Held' = {}
    BY <1>1, <1>2 DEF Held
  <1>10. \A ps \in Decisions(shares) : ps \subseteq batch
    BY <1>6, <1>8
  <1>11. UNION decided' \subseteq batch \cup UNION decided
    BY <1>8, <1>10
  <1>12. Typed'
    BY <1>1, <1>2, <1>3, <1>8, <1>10 DEF IInv, Typed, NoHolders
  <1>13. Apart'
    BY <1>1, <1>2, <1>9, <1>11 DEF IInv, Apart
  <1>14. IndexesExact'
    BY <1>1, <1>2, <1>9, PodsFixed DEF IInv, IndexesExact
  <1>15. ClaimsSound'
    <2>1. \A ps \in decided' : Sound(ps) /\ Total(ps) <= Largest
      BY <1>6, <1>8 DEF IInv, ClaimsSound
    <2>2. \A ps \in decided, qs \in Decisions(shares) : ps \cap qs = {}
      BY <1>1, <1>10 DEF IInv, Apart
    <2>3. \A ps, qs \in decided' : ps = qs \/ ps \cap qs = {}
      BY <1>7, <1>8, <2>2 DEF IInv, ClaimsSound
    <2>4. \A ps \in decided' : Sound(ps)' /\ (Total(ps) <= Largest)'
      BY <2>1, <1>2, PodsFixed
    <2> QED
      BY <1>2, <1>9, <2>3, <2>4 DEF ClaimsSound
  <1> QED
    BY <1>12, <1>13, <1>14, <1>15 DEF IInv

LEMMA StartBatchKeeps == IInv /\ StartBatch => IInv'
  <1> SUFFICES ASSUME IInv, StartBatch
               PROVE  IInv'
    OBVIOUS
  <1>1. PICK batch \in batches : todo = {} /\ todo' = batch /\ batches' = batches \ {batch}
    BY DEF StartBatch
  <1>2. /\ pods' = pods /\ claims' = claims /\ decided' = decided /\ claims = <<>>
        /\ available' = available /\ holders' = holders
    BY DEF StartBatch, input, indexes
  <1>3. DOMAIN claims = {} /\ Held = {} /\ Held' = {}
    BY <1>2 DEF Held
  <1>4. Typed'
    BY <1>1, <1>2 DEF IInv, Typed, NoHolders
  <1>5. Apart'
    BY <1>1, <1>2, <1>3 DEF IInv, Apart
  <1>6. IndexesExact'
    BY <1>2, <1>3, PodsFixed DEF IInv, IndexesExact
  <1>7. ClaimsSound'
    BY <1>2, <1>3, PodsFixed DEF IInv, ClaimsSound
  <1> QED
    BY <1>4, <1>5, <1>6, <1>7 DEF IInv

\* The claim that a pod is put on is one of the batch.
LEMMA TriedIsAClaim ==
  ASSUME IInv, NEW p \in todo
  PROVE  Tried(p) \subseteq DOMAIN claims
  <1>1. OwnerOf(p) \in Owner
    BY KindsTyped DEF IInv, Typed
  <1>2. Spreads(p) => available[OwnerOf(p)] \subseteq DOMAIN claims
    BY <1>1 DEF IInv, IndexesExact, Spreads
  <1>3. Candidates(p) \subseteq DOMAIN claims
    BY <1>2 DEF Candidates
  <1> QED
    BY <1>3 DEF Tried, FirstThree

\* The pod joins a claim, and the claim changes places with the first.
LEMMA PlaceKeeps ==
  ASSUME IInv, NEW p \in todo, Place(p),
         pods' = pods, batches' = batches, decided' = decided
  PROVE  IInv'
  <1> DEFINE ps(i) == claims[i].pods \cup {p}
             cs(i) == [claims EXCEPT ![i] = [first |-> claims[i].first, pods |-> ps(i)]]
             av(i) == [available EXCEPT ![OwnerOf(p)] = Kept(OwnerOf(p), @, i, ps(i))]
             n == Len(claims)
  <1>1. PICK i \in Tried(p) : Takes(i, p) /\ Moved(i, cs(i), av(i), Holding(i, p))
    BY DEF Place
  <1>2. todo' = todo \ {p}
    BY DEF Place
  <1>3. claims \in Seq(Claim) /\ n \in Nat /\ DOMAIN claims = 1..n /\ i \in 1..n
    BY TriedIsAClaim DEF IInv, Typed
  <1>4. p \in DOMAIN pods /\ OwnerOf(p) \in Owner /\ Typed /\ p \notin Held /\ p \notin UNION decided
    BY KindsTyped DEF IInv, Typed, Apart
  <1>5. \A j \in 1..n : /\ claims[j].first \in DOMAIN pods /\ claims[j].pods \in SUBSET DOMAIN pods
                        /\ p \notin claims[j].pods
    <2>1. \A j \in 1..n : claims[j] \in Claim
      BY <1>3
    <2> QED
      BY <2>1, <1>3, <1>4 DEF Held, Claim
  <1> DEFINE C == cs(i)
             P == ps(i)
  <1>6. /\ DOMAIN C = 1..n
        /\ \A j \in 1..n : /\ C[j] \in Claim /\ C[j].first = claims[j].first
                           /\ C[j].pods = IF j = i THEN P ELSE claims[j].pods
    <2>1. \A j \in 1..n : claims[j] \in Claim
      BY <1>3
    <2>2. DOMAIN C = 1..n
      BY <1>3
    <2>3. C[i] = [first |-> claims[i].first, pods |-> P]
      BY <1>3
    <2>4. \A j \in 1..n : j # i => C[j] = claims[j]
      BY <1>3
    <2>5. P \in SUBSET DOMAIN pods
      BY <1>3, <1>4, <1>5
    <2>6. C[i] \in Claim
      BY <2>3, <2>5, <1>3, <1>5 DEF Claim
    <2> HIDE DEF C, P
    <2> QED
      BY <2>1, <2>2, <2>3, <2>4, <2>6
  <1>7. /\ claims' = [j \in 1..n |-> C[Swapped(i, j)]]
        /\ available' = [o \in Owner |-> {Swapped(i, j) : j \in av(i)[o]}]
        /\ holders' = [l \in DOMAIN Holding(i, p) |-> {Swapped(i, j) : j \in Holding(i, p)[l]}]
    BY <1>1, <1>6 DEF Moved
  <1>8. /\ \A j \in 1..n : Swapped(i, j) \in 1..n /\ Swapped(i, Swapped(i, j)) = j
        /\ \A S \in SUBSET (1..n) : {Swapped(i, j) : j \in S} = {j \in 1..n : Swapped(i, j) \in S}
    BY <1>3, SwapInvolution
  <1>9. ~ Conflict(p, claims[i].pods) /\ ~ Full(OwnerOf(p), claims[i].pods)
    BY <1>1 DEF Takes
  <1> HIDE DEF cs, C
  <1>10. /\ DOMAIN claims' = 1..n
         /\ \A j \in 1..n : claims'[j] = C[Swapped(i, j)] /\ claims'[j] \in Claim
    BY <1>6, <1>7, <1>8
  <1>11. claims' \in Seq(Claim)
    BY <1>3, <1>10, <1>7
  <1>12. Held' = Held \cup {p}
    <2>1. Held' = UNION {C[j].pods : j \in 1..n}
      <3>1. \A x : x \in Held' <=> \E j \in 1..n : x \in C[Swapped(i, j)].pods
        BY <1>10 DEF Held
      <3>2. \A x : x \in Held' <=> \E j \in 1..n : x \in C[j].pods
        BY <3>1, <1>8
      <3> QED
        BY <3>2
    <2>2. Held = UNION {claims[j].pods : j \in 1..n}
      BY <1>3 DEF Held
    <2> QED
      BY <2>1, <2>2, <1>3, <1>6
  <1>13. Typed'
    <2>1. available' = [o \in Owner |-> available'[o]]
      BY <1>7
    <2>2. holders' = [l \in DOMAIN NoHolders |-> holders'[l]]
      BY <1>7 DEF Holding, IInv, Typed
    <2>3. Claim' = Claim /\ (DOMAIN NoHolders)' = DOMAIN NoHolders
      BY DEF Claim, NoHolders
    <2> QED
      BY <1>2, <1>11, <2>1, <2>2, <2>3 DEF IInv, Typed
  <1>14. Apart'
    <2>1. ASSUME NEW j \in 1..n, NEW k \in 1..n
          PROVE  j = k \/ C[j].pods \cap C[k].pods = {}
      BY <1>3, <1>5, <1>6 DEF IInv, Apart
    <2>2. ASSUME NEW j \in 1..n, NEW k \in 1..n
          PROVE  j = k \/ claims'[j].pods \cap claims'[k].pods = {}
      <3>1. Swapped(i, j) = Swapped(i, k) => j = k
        BY <1>8
      <3> QED
        BY <3>1, <2>1, <1>8, <1>10
    <2>3. \A b \in batches : p \notin b
      BY DEF IInv, Apart
    <2> QED
      BY <1>2, <1>4, <1>10, <1>12, <2>2, <2>3 DEF IInv, Apart
  <1>15. IndexesExact'
    <2>1. ASSUME NEW l \in DOMAIN holders
          PROVE  /\ holders'[l] = {j \in 1..n : Swapped(i, j) \in Holding(i, p)[l]}
                 /\ Holding(i, p)[l] = {j \in 1..n : \E q \in C[j].pods : l \in LabelsOf(q)}
      <3>1. Holding(i, p)[l] = holders[l] \cup (IF l \in LabelsOf(p) THEN {i} ELSE {})
        BY DEF Holding
      <3>2. holders[l] = {j \in 1..n : \E q \in claims[j].pods : l \in LabelsOf(q)}
        BY <1>3 DEF IInv, IndexesExact
      <3>3. Holding(i, p)[l] = {j \in 1..n : \E q \in C[j].pods : l \in LabelsOf(q)}
        BY <3>1, <3>2, <1>3, <1>6
      <3>4. holders'[l] = {Swapped(i, j) : j \in Holding(i, p)[l]}
        BY <1>7 DEF Holding
      <3> QED
        BY <3>3, <3>4, <1>8
    <2>2. \A l \in DOMAIN holders' : holders'[l] =
             {j \in DOMAIN claims' : \E q \in claims'[j].pods : l \in LabelsOf(q)'}
      <3>1. DOMAIN holders' = DOMAIN holders
        BY <1>7 DEF Holding
      <3> QED
        BY <3>1, <2>1, <1>8, <1>10, PodsFixed
    <2>3. ASSUME NEW o \in Owner, Skews[o] # {}
          PROVE  av(i)[o] = {j \in 1..n : OwnerOf(C[j].first) = o /\ ~ Full(o, C[j].pods)}
      <3>1. available[o] = {j \in 1..n : OwnerOf(claims[j].first) = o /\ ~ Full(o, claims[j].pods)}
        BY <1>3, <2>3 DEF IInv, IndexesExact
      <3>2. DOMAIN available = Owner
        BY DEF IInv, Typed
      <3>3. CASE o = OwnerOf(p)
        <4>1. av(i)[o] = Kept(o, available[o], i, P)
          BY <3>2, <3>3
        <4>2. ~ Full(o, claims[i].pods)
          BY <1>9, <3>3
        <4> HIDE DEF av, P
        <4> QED
          BY <4>1, <4>2, <3>1, <1>3, <1>6 DEF Kept
      <3>4. CASE o # OwnerOf(p)
        <4>1. av(i)[o] = available[o]
          BY <3>2, <3>4
        <4>2. OfOwner(o, P) = OfOwner(o, claims[i].pods)
          BY <3>4 DEF OfOwner
        <4>3. Full(o, P) = Full(o, claims[i].pods)
          BY <4>2 DEF Full
        <4> HIDE DEF av, P
        <4> QED
          BY <4>1, <4>3, <3>1, <1>3, <1>6
      <3> QED
        BY <3>3, <3>4
    <2>4. ASSUME NEW o \in Owner, Skews[o] # {}
          PROVE  available'[o] = {j \in DOMAIN claims' : /\ OwnerOf(claims[j].first)' = o
                                                         /\ ~ Full(o, claims[j].pods)'}
      <3>1. available'[o] = {Swapped(i, j) : j \in av(i)[o]}
        BY <1>7
      <3>2. available'[o] = {j \in 1..n : Swapped(i, j) \in av(i)[o]}
        BY <3>1, <2>3, <2>4, <1>8
      <3>3. available'[o] = {j \in 1..n : /\ OwnerOf(claims'[j].first) = o
                                          /\ ~ Full(o, claims'[j].pods)}
        <4> HIDE DEF av
        <4> QED
          BY <3>2, <2>3, <2>4, <1>8, <1>10
      <3>4. \A j \in 1..n : /\ OwnerOf(claims[j].first)' = OwnerOf(claims'[j].first)
                            /\ Full(o, claims[j].pods)' = Full(o, claims'[j].pods)
        BY PodsFixed
      <3> QED
        BY <3>3, <3>4, <1>10
    <2> QED
      BY <2>2, <2>4 DEF IndexesExact
  <1>16. ClaimsSound'
    <2>1. \A j \in 1..n : Sound(C[j].pods)
      <3>1. \A j \in 1..n : Sound(claims[j].pods)
        BY <1>3 DEF IInv, ClaimsSound
      <3>2. Sound(P)
        BY <1>3, <1>4, <1>5, <1>9, <3>1, SoundGrows
      <3> QED
        BY <1>6, <3>1, <3>2
    <2>2. \A j \in 1..n : Sound(claims'[j].pods)
      BY <2>1, <1>8, <1>10
    <2>3. \A j \in 1..n : Sound(claims[j].pods)' = Sound(claims'[j].pods)
      BY PodsFixed
    <2>4. \A qs \in decided : Sound(qs)' /\ (Total(qs) <= Largest)'
      BY PodsFixed DEF IInv, ClaimsSound
    <2> QED
      BY <2>2, <2>3, <2>4, <1>10 DEF IInv, ClaimsSound
  <1> QED
    BY <1>13, <1>14, <1>15, <1>16 DEF IInv

\* The pod opens a claim of its own, after the others.
LEMMA OpenKeeps ==
  ASSUME IInv, NEW p \in todo, Open(p),
         pods' = pods, batches' = batches, decided' = decided
  PROVE  IInv'
  <1> DEFINE n == Len(claims)
             i == n + 1
             c == [first |-> p, pods |-> {p}]
  <1>1. /\ claims' = Append(claims, c)
        /\ available' = [available EXCEPT ![OwnerOf(p)] = Kept(OwnerOf(p), @ \cup {i}, i, {p})]
        /\ holders' = Holding(i, p)
        /\ todo' = todo \ {p}
    BY DEF Open
  <1>2. claims \in Seq(Claim) /\ n \in Nat /\ DOMAIN claims = 1..n
    BY DEF IInv, Typed
  <1>3. p \in DOMAIN pods /\ OwnerOf(p) \in Owner /\ Typed /\ p \notin Held /\ p \notin UNION decided
    BY KindsTyped DEF IInv, Typed, Apart
  <1>4. c \in Claim
    BY <1>3 DEF Claim
  <1>5. /\ claims' \in Seq(Claim) /\ DOMAIN claims' = 1..i /\ claims'[i] = c
        /\ \A j \in 1..n : claims'[j] = claims[j]
    BY <1>1, <1>2, <1>4
  <1>6. 1..i = 1..n \cup {i} /\ i \notin 1..n
    BY <1>2
  <1>7. c.first = p /\ c.pods = {p}
    OBVIOUS
  <1> HIDE DEF c, i
  <1>8. Held' = Held \cup {p}
    BY <1>2, <1>5, <1>6, <1>7 DEF Held
  <1>9. Typed'
    <2>1. available' = [o \in Owner |-> available'[o]]
      BY <1>1 DEF IInv, Typed
    <2>2. holders' = [l \in DOMAIN NoHolders |-> holders'[l]]
      BY <1>1 DEF Holding, IInv, Typed
    <2>3. Claim' = Claim /\ (DOMAIN NoHolders)' = DOMAIN NoHolders
      BY DEF Claim, NoHolders
    <2> QED
      BY <1>1, <1>5, <2>1, <2>2, <2>3 DEF IInv, Typed
  <1>10. Apart'
    <2>1. \A b \in batches : p \notin b
      BY DEF IInv, Apart
    <2>2. \A j \in 1..n : p \notin claims[j].pods
      BY <1>2, <1>3 DEF Held
    <2>3. \A j, k \in 1..i : j = k \/ claims'[j].pods \cap claims'[k].pods = {}
      BY <2>2, <1>2, <1>5, <1>6, <1>7 DEF IInv, Apart
    <2>4. \A j, k \in DOMAIN claims' : j = k \/ claims'[j].pods \cap claims'[k].pods = {}
      BY <2>3, <1>5
    <2>5. todo' \cap (Held' \cup UNION decided') = {} /\ Held' \cap UNION decided' = {}
      BY <1>1, <1>3, <1>8 DEF IInv, Apart
    <2>6. \A b \in batches : b \cap (todo' \cup Held' \cup UNION decided') = {}
      BY <1>1, <1>8, <2>1 DEF IInv, Apart
    <2>7. \A b, d \in batches' : b = d \/ b \cap d = {}
      BY DEF IInv, Apart
    <2> QED
      BY <2>4, <2>5, <2>6, <2>7 DEF Apart
  <1>11. IndexesExact'
    <2>1. ASSUME NEW l \in DOMAIN holders
          PROVE  holders'[l] = {j \in 1..i : \E q \in claims'[j].pods : l \in LabelsOf(q)}
      <3>1. holders'[l] = holders[l] \cup (IF l \in LabelsOf(p) THEN {i} ELSE {})
        BY <1>1 DEF Holding
      <3>2. holders[l] = {j \in 1..n : \E q \in claims[j].pods : l \in LabelsOf(q)}
        BY <1>2 DEF IInv, IndexesExact
      <3> QED
        BY <3>1, <3>2, <1>5, <1>6, <1>7
    <2>2. \A l \in DOMAIN holders' : holders'[l] =
             {j \in DOMAIN claims' : \E q \in claims'[j].pods : l \in LabelsOf(q)'}
      <3>1. DOMAIN holders' = DOMAIN holders
        BY <1>1 DEF Holding
      <3> QED
        BY <3>1, <2>1, <1>5, PodsFixed
    <2>3. ASSUME NEW o \in Owner, Skews[o] # {}
          PROVE  available'[o] = {j \in 1..i : /\ OwnerOf(claims'[j].first) = o
                                              /\ ~ Full(o, claims'[j].pods)}
      <3>1. available[o] = {j \in 1..n : OwnerOf(claims[j].first) = o /\ ~ Full(o, claims[j].pods)}
        BY <1>2, <2>3 DEF IInv, IndexesExact
      <3>2. DOMAIN available = Owner
        BY DEF IInv, Typed
      <3>3. CASE o = OwnerOf(p)
        <4>1. available'[o] = Kept(o, available[o] \cup {i}, i, {p})
          BY <1>1, <3>2, <3>3
        <4>2. OwnerOf(claims'[i].first) = o /\ claims'[i].pods = {p}
          BY <3>3, <1>5, <1>7
        <4>3. \A j \in 1..n : claims'[j].first = claims[j].first /\ claims'[j].pods = claims[j].pods
          BY <1>5
        <4>4. available'[o] = IF Full(o, {p}) THEN available[o] ELSE available[o] \cup {i}
          BY <4>1, <3>1, <1>6 DEF Kept
        <4>5. ASSUME NEW j
              PROVE  j \in available'[o] <=>
                       j \in 1..i /\ OwnerOf(claims'[j].first) = o /\ ~ Full(o, claims'[j].pods)
          <5>1. j \in available[o] <=>
                  j \in 1..n /\ OwnerOf(claims[j].first) = o /\ ~ Full(o, claims[j].pods)
            BY <3>1
          <5>2. j \in 1..i <=> j \in 1..n \/ j = i
            BY <1>6
          <5>3. CASE j = i
            BY <4>2, <4>4, <5>1, <5>2, <5>3, <1>6
          <5>4. CASE j # i
            BY <4>3, <4>4, <5>1, <5>2, <5>4
          <5> QED
            BY <5>3, <5>4
        <4> QED
          BY <4>5
      <3>4. CASE o # OwnerOf(p)
        <4>1. available'[o] = available[o]
          BY <1>1, <3>2, <3>4
        <4>2. OwnerOf(claims'[i].first) # o
          BY <3>4, <1>5, <1>7
        <4>3. \A j \in 1..n : claims'[j].first = claims[j].first /\ claims'[j].pods = claims[j].pods
          BY <1>5
        <4> QED
          BY <4>1, <4>2, <4>3, <3>1, <1>6
      <3> QED
        BY <3>3, <3>4
    <2>4. ASSUME NEW o \in Owner, Skews[o] # {}
          PROVE  available'[o] = {j \in DOMAIN claims' : /\ OwnerOf(claims[j].first)' = o
                                                         /\ ~ Full(o, claims[j].pods)'}
      <3>1. \A j \in 1..i : /\ OwnerOf(claims[j].first)' = OwnerOf(claims'[j].first)
                            /\ Full(o, claims[j].pods)' = Full(o, claims'[j].pods)
        BY PodsFixed
      <3> QED
        BY <2>3, <2>4, <3>1, <1>5
    <2> QED
      BY <2>2, <2>4 DEF IndexesExact
  <1>12. ClaimsSound'
    <2>1. \A j \in 1..n : Sound(claims[j].pods)
      BY <1>2 DEF IInv, ClaimsSound
    <2>2. Sound({p})
      BY <1>3, SoundAlone
    <2>3. \A j \in 1..i : Sound(claims'[j].pods)
      BY <2>1, <2>2, <1>5, <1>6, <1>7
    <2>4. \A j \in 1..i : Sound(claims[j].pods)' = Sound(claims'[j].pods)
      BY PodsFixed
    <2>5. \A qs \in decided : Sound(qs)' /\ (Total(qs) <= Largest)'
      BY PodsFixed DEF IInv, ClaimsSound
    <2> QED
      BY <2>3, <2>4, <2>5, <1>5 DEF IInv, ClaimsSound
  <1> QED
    BY <1>9, <1>10, <1>11, <1>12 DEF IInv

\* Nothing but what is left of the batch changes.
LEMMA GiveUpKeeps ==
  ASSUME IInv, todo' = {},
         pods' = pods, batches' = batches, decided' = decided,
         claims' = claims, available' = available, holders' = holders
  PROVE  IInv'
  <1>1. Typed'
    BY DEF IInv, Typed, Claim, NoHolders
  <1>2. Apart'
    BY DEF IInv, Apart, Held
  <1>3. IndexesExact'
    <2>1. \A l \in DOMAIN holders' :
             holders'[l] = {i \in DOMAIN claims' : \E p \in claims'[i].pods : l \in LabelsOf(p)'}
      BY PodsFixed DEF IInv, IndexesExact
    <2>2. ASSUME NEW o \in Owner, Skews[o] # {}
          PROVE  available'[o] = {j \in DOMAIN claims' : /\ OwnerOf(claims[j].first)' = o
                                                         /\ ~ Full(o, claims[j].pods)'}
      <3>1. \A j \in DOMAIN claims : /\ OwnerOf(claims[j].first)' = OwnerOf(claims[j].first)
                                     /\ Full(o, claims[j].pods)' = Full(o, claims[j].pods)
        BY PodsFixed
      <3> QED
        BY <2>2, <3>1 DEF IInv, IndexesExact
    <2> QED
      BY <2>1, <2>2 DEF IndexesExact
  <1>4. ClaimsSound'
    <2>1. \A j \in DOMAIN claims : Sound(claims[j].pods)' = Sound(claims[j].pods)
      BY PodsFixed
    <2>2. \A qs \in decided : Sound(qs)' /\ (Total(qs) <= Largest)'
      BY PodsFixed DEF IInv, ClaimsSound
    <2> QED
      BY <2>1, <2>2 DEF IInv, ClaimsSound
  <1> QED
    BY <1>1, <1>2, <1>3, <1>4 DEF IInv

LEMMA DealKeeps == IInv /\ Deal => IInv'
  <1> SUFFICES ASSUME IInv, Deal
               PROVE  IInv'
    OBVIOUS
  <1>1. PICK p \in todo : Place(p) \/ Open(p) \/ GiveUp(p)
    BY DEF Deal
  <1>2. pods' = pods /\ batches' = batches /\ decided' = decided
    BY DEF Deal, input
  <1>3. CASE Place(p)
    BY <1>2, <1>3, PlaceKeeps
  <1>4. CASE Open(p)
    BY <1>2, <1>4, OpenKeeps
  <1>5. CASE GiveUp(p)
    BY <1>2, <1>5, GiveUpKeeps DEF GiveUp, indexes
  <1> QED
    BY <1>1, <1>3, <1>4, <1>5

\* The claims become decisions, and the indexes are empty again.
LEMMA DecideKeeps == IInv /\ Decide => IInv'
  <1> SUFFICES ASSUME IInv, Decide
               PROVE  IInv'
    OBVIOUS
  <1> DEFINE held == {claims[i].pods : i \in DOMAIN claims}
  <1>1. /\ decided' = decided \cup Decisions(held)
        /\ Decisions(held) \subseteq held /\ \A ps \in Decisions(held) : Total(ps) <= Largest
    BY DEF Decide, Decisions
  <1>2. /\ claims' = <<>> /\ available' = NoneAvailable /\ holders' = NoHolders
        /\ pods' = pods /\ batches' = batches /\ todo' = todo
    BY DEF Decide, input
  <1>3. DOMAIN claims' = {} /\ Held' = {}
    BY <1>2 DEF Held
  <1>4. UNION held = Held /\ UNION decided' \subseteq Held \cup UNION decided
    BY <1>1 DEF Held
  <1>5. held \subseteq SUBSET DOMAIN pods
    <2>1. \A i \in DOMAIN claims : claims[i] \in Claim
      BY DEF IInv, Typed
    <2> QED
      BY <2>1 DEF Claim
  <1>6. Typed'
    <2>1. NoneAvailable' = [o \in Owner |-> NoneAvailable[o]] /\ NoHolders' = NoHolders
      BY DEF NoneAvailable, NoHolders
    <2>2. holders' = [l \in DOMAIN NoHolders |-> holders'[l]] /\ available' = [o \in Owner |-> available'[o]]
      BY <1>2 DEF NoneAvailable, NoHolders
    <2>3. decided' \subseteq SUBSET DOMAIN pods
      BY <1>1, <1>5 DEF IInv, Typed
    <2>4. claims' \in Seq(Claim)'
      BY <1>2
    <2> QED
      BY <1>2, <2>1, <2>2, <2>3, <2>4 DEF IInv, Typed
  <1>7. Apart'
    BY <1>2, <1>3, <1>4 DEF IInv, Apart
  <1>8. IndexesExact'
    <2>1. /\ \A l \in DOMAIN holders' : holders'[l] = {}
          /\ \A o \in Owner : available'[o] = {}
      BY <1>2 DEF NoneAvailable, NoHolders
    <2> QED
      BY <2>1, <1>3 DEF IndexesExact
  <1>9. ClaimsSound'
    <2>1. \A ps \in decided' : Sound(ps) /\ Total(ps) <= Largest
      BY <1>1 DEF IInv, ClaimsSound
    <2>2. \A ps \in decided, qs \in held : ps \cap qs = {}
      BY DEF IInv, Apart, Held
    <2>3. \A ps, qs \in held : ps = qs \/ ps \cap qs = {}
      BY DEF IInv, Apart
    <2> HIDE DEF held
    <2>4. \A ps, qs \in decided' : ps = qs \/ ps \cap qs = {}
      BY <1>1, <2>2, <2>3 DEF IInv, ClaimsSound
    <2>5. \A ps \in decided' : Sound(ps)' /\ (Total(ps) <= Largest)'
      BY <2>1, <1>2, PodsFixed
    <2> QED
      BY <1>3, <2>4, <2>5 DEF ClaimsSound
  <1> QED
    BY <1>6, <1>7, <1>8, <1>9 DEF IInv

\* A step that changes nothing.
LEMMA StutterKeeps == IInv /\ UNCHANGED vars => IInv'
  <1> SUFFICES ASSUME IInv, UNCHANGED vars
               PROVE  IInv'
    OBVIOUS
  <1>1. /\ pods' = pods /\ batches' = batches /\ todo' = todo /\ claims' = claims
        /\ available' = available /\ holders' = holders /\ decided' = decided
    BY DEF vars, input
  <1>2. Typed'
    BY <1>1 DEF IInv, Typed, Claim, NoHolders
  <1>3. Apart'
    BY <1>1 DEF IInv, Apart, Held
  <1>4. IndexesExact'
    BY <1>1 DEF IInv, IndexesExact, Full, OfOwner, OwnerOf, LabelsOf
  <1>5. ClaimsSound'
    BY <1>1 DEF IInv, ClaimsSound, Sound, OfOwner, OwnerOf, LabelsOf, Matches, Total
  <1> QED
    BY <1>2, <1>3, <1>4, <1>5 DEF IInv

LEMMA Invariant == Spec => []IInv
  <1>1. IInv /\ [Next]_vars => IInv'
    BY DealUniformKeeps, StartBatchKeeps, DealKeeps, DecideKeeps, StutterKeeps DEF Next, Returned
  <1> QED
    BY InitEstablishes, <1>1, PTL DEF Spec

-----------------------------------------------------------------------------
(***************************************************************************)
(* No two nodes whose pods fit one.  Nodes of different batches hold pods  *)
(* of different keys; of one batch, the second was opened when the first   *)
(* did not take its first pod, and neither has given up a pod since.       *)
(***************************************************************************)
\* Pods not yet decided for differ in their key from the pods of other batches.
Keyed ==
    /\ \A b, c \in batches : b = c \/ \A p \in b, q \in c : BatchKey(p) # BatchKey(q)
    /\ \A b \in batches : \A p \in b, q \in todo \cup Held \cup UNION decided :
          BatchKey(p) # BatchKey(q)
    /\ \A p \in todo \cup Held, q \in UNION decided : BatchKey(p) # BatchKey(q)

\* No node is empty.
Occupied == {} \notin decided /\ \A i \in DOMAIN claims : claims[i].pods # {}

PInv == Keyed /\ Occupied /\ Packed

\* The two sets do not fit one node, or need not.
Tight(ps, qs) == ps # qs /\ Free(ps \cup qs) /\ OneBatch(ps \cup qs) => Total(ps \cup qs) > Largest

LEMMA PackedIs ==
  Packed <=> /\ \A ps, qs \in decided : Tight(ps, qs)
             /\ \A i, j \in DOMAIN claims : Tight(claims[i].pods, claims[j].pods)
             /\ \A ps \in decided, i \in DOMAIN claims :
                   Tight(ps, claims[i].pods) /\ Tight(claims[i].pods, ps)
  BY DEF Packed, Tight

LEMMA TightEitherWay ==
  /\ \A ps : Tight(ps, ps)
  /\ \A ps, qs : Tight(ps, qs) => Tight(qs, ps)
  <1>1. \A ps, qs : ps \cup qs = qs \cup ps
    OBVIOUS
  <1> QED
    BY <1>1 DEF Tight

\* Pods of different batches never share a node.
LEMMA TightAcross ==
  ASSUME NEW ps, NEW qs, ps # {}, qs # {}, \A p \in ps, q \in qs : BatchKey(p) # BatchKey(q)
  PROVE  Tight(ps, qs) /\ Tight(qs, ps)
  <1>1. ~ OneBatch(ps \cup qs) /\ ~ OneBatch(qs \cup ps)
    BY DEF OneBatch
  <1> QED
    BY <1>1 DEF Tight

\* Two sets that do not fit one node do not when one has grown.
LEMMA TightGrows ==
  ASSUME Typed, NEW ps \in SUBSET DOMAIN pods, NEW qs \in SUBSET DOMAIN pods,
         NEW p \in DOMAIN pods, ps # qs, Tight(ps, qs)
  PROVE  Tight(ps \cup {p}, qs)
  <1> SUFFICES ASSUME Free((ps \cup {p}) \cup qs), OneBatch((ps \cup {p}) \cup qs)
               PROVE  Total((ps \cup {p}) \cup qs) > Largest
    BY DEF Tight
  <1> DEFINE all == (ps \cup {p}) \cup qs
             part == ps \cup qs
  <1>1. all \in SUBSET DOMAIN pods /\ part \in SUBSET all
    OBVIOUS
  <1>2. Free(part) /\ OneBatch(part)
    BY DEF Free, OneBatch
  <1>3. Total(part) > Largest
    BY <1>2 DEF Tight
  <1> HIDE DEF all, part
  <1>4. Total(all) \in Nat /\ Total(part) \in Nat /\ Total(part) <= Total(all) /\ Largest \in Nat
    BY <1>1, TotalGrows, NodeClaimsAssumption
  <1>5. Total(all) > Largest
    BY <1>3, <1>4
  <1> QED
    BY <1>5 DEF all

LEMMA TightFixed ==
  ASSUME pods' = pods
  PROVE  /\ \A ps, qs : Tight(ps, qs)' = Tight(ps, qs)
         /\ \A p : BatchKey(p)' = BatchKey(p)
  <1>1. \A p : BatchKey(p)' = BatchKey(p)
    BY DEF BatchKey, OwnerOf
  <1>2. \A ps : /\ Free(ps)' = Free(ps) /\ Total(ps)' = Total(ps)
                /\ OneBatch(ps)' = OneBatch(ps)
    BY DEF Free, Spreads, KeepsApart, OneBatch, BatchKey, OwnerOf, Total
  <1>3. \A ps, qs : Tight(ps, qs)' = Tight(ps, qs)
    BY <1>2 DEF Tight
  <1> QED
    BY <1>1, <1>3

LEMMA PackedFixed ==
  ASSUME Packed, pods' = pods, claims' = claims, decided' = decided
  PROVE  Packed'
  <1>1. \A qs, rs \in decided \cup {claims[j].pods : j \in DOMAIN claims} : Tight(qs, rs)
    BY DEF Packed, Tight
  <1>2. \A qs, rs \in (decided \cup {claims[j].pods : j \in DOMAIN claims})' : Tight(qs, rs)'
    BY <1>1, TightFixed
  <1> QED
    BY <1>2 DEF Packed, Tight

\* Two shares of a uniform batch do not fit one node.
LEMMA SharesTight ==
  ASSUME Typed, NEW batch \in SUBSET DOMAIN pods, AllSame(batch), NEW most \in Nat \ {0},
         EffectiveMax(batch, most), NEW needed \in Nat, needed <= Cardinality(batch),
         most * (needed - 1) < Cardinality(batch),
         NEW k \in 0..needed - 1, NEW l \in 0..needed - 1, k < l
  PROVE  Tight(Share(batch, needed, k), Share(batch, needed, l))
  <1> DEFINE both == Share(batch, needed, k) \cup Share(batch, needed, l)
  <1>1. batch \in SUBSET Nat /\ IsFiniteSet(batch) /\ Cardinality(batch) \in Nat
    BY FS_Subset, FS_CardinalityType DEF Typed
  <1>2. Cardinality(both) \in most + 1..Cardinality(batch)
    BY <1>1, SharesExceed
  <1>3. both \in SUBSET batch
    BY DEF Share
  <1> HIDE DEF both
  <1>4. both # {}
    BY <1>1, <1>2, FS_EmptySet
  <1>5. PICK p \in both : TRUE
    BY <1>4
  <1>6. SUFFICES ASSUME Free(both)
                 PROVE  Total(both) > Largest
    BY DEF Tight, both
  <1>7. p \in batch /\ p \in DOMAIN pods /\ pods[p].size \in Nat
    BY <1>3, SizesTyped DEF Sizes
  <1>8. \A q \in both : pods[q].size = pods[p].size
    BY <1>3, <1>5 DEF AllSame
  <1>9. Total(both) = Cardinality(both) * pods[p].size
    BY <1>3, <1>7, <1>8, TotalUniform
  <1>10. ~ MayShare(p, Cardinality(both))
    BY <1>2, <1>7 DEF EffectiveMax
  <1>11. Skews[OwnerOf(p)] = {} /\ AntiAffinity[OwnerOf(p)] = {}
    BY <1>5, <1>6 DEF Free, Spreads, KeepsApart
  <1>12. ~ (Cardinality(both) * pods[p].size <= Largest)
    BY <1>10, <1>11 DEF MayShare
  <1>13. Cardinality(both) * pods[p].size \in Nat
    BY <1>1, <1>2, <1>7
  <1> QED
    BY <1>9, <1>12, <1>13, NodeClaimsAssumption

LEMMA InitPacks == Init => PInv
  <1> SUFFICES ASSUME Init
               PROVE  PInv
    OBVIOUS
  <1>1. batches = Batches /\ todo = {} /\ claims = <<>> /\ decided = {}
    BY DEF Init
  <1>2. DOMAIN claims = {} /\ Held = {}
    BY <1>1 DEF Held
  <1>3. \A b, c \in Batches : b = c \/ \A p \in b, q \in c : BatchKey(p) # BatchKey(q)
    BY DEF Batches
  <1>4. Keyed
    BY <1>1, <1>2, <1>3 DEF Keyed
  <1>5. Occupied
    BY <1>1, <1>2 DEF Occupied
  <1>6. Packed
    BY <1>1, <1>2, PackedIs
  <1> QED
    BY <1>4, <1>5, <1>6 DEF PInv

LEMMA DealUniformPacks == IInv /\ PInv /\ DealUniform => PInv'
  <1> SUFFICES ASSUME IInv, PInv, DealUniform
               PROVE  PInv'
    OBVIOUS
  <1>1. PICK batch \in batches, most \in 1..MaxPods :
           /\ todo = {} /\ claims = <<>> /\ AllSame(batch) /\ EffectiveMax(batch, most)
           /\ most <= Cardinality(batch)
           /\ decided' = decided \cup
                Decisions({Share(batch, (Cardinality(batch) + most - 1) \div most, k) :
                             k \in 0..(Cardinality(batch) + most - 1) \div most - 1})
           /\ batches' = batches \ {batch}
    BY DEF DealUniform
  <1>2. pods' = pods /\ todo' = todo /\ claims' = claims
    BY DEF DealUniform, input
  <1> DEFINE needed == (Cardinality(batch) + most - 1) \div most
             shares == {Share(batch, needed, k) : k \in 0..needed - 1}
  <1>3. batch \in SUBSET DOMAIN pods /\ batch \in SUBSET Nat /\ IsFiniteSet(batch) /\ Typed
    BY FS_Subset DEF IInv, Typed
  <1>4. most \in Nat \ {0} /\ Cardinality(batch) \in Nat /\ Cardinality(batch) > 1
    BY <1>1, <1>3, FS_CardinalityType, NodeClaimsAssumption DEF AllSame
  <1>5. needed \in Nat \ {0} /\ needed <= Cardinality(batch) /\ most * (needed - 1) < Cardinality(batch)
    BY <1>1, <1>4, AsFewAsCanBe
  <1>6. Decisions(shares) \subseteq shares /\ decided' = decided \cup Decisions(shares)
    BY <1>1 DEF Decisions
  <1>7. ASSUME NEW k \in 0..needed - 1
        PROVE  Share(batch, needed, k) # {} /\ Share(batch, needed, k) \subseteq batch
    <2>1. k + (1 - 1) * needed < Cardinality(batch)
      BY <1>4, <1>5
    <2> HIDE DEF needed
    <2>2. /\ IsFiniteSet(Share(batch, needed, k)) /\ Cardinality(Share(batch, needed, k)) \in Nat
          /\ 1 <= Cardinality(Share(batch, needed, k))
      BY <2>1, <1>3, <1>5, ShareSize
    <2> QED
      BY <2>2, FS_EmptySet DEF Share
  <1>8. ASSUME NEW k \in 0..needed - 1, NEW l \in 0..needed - 1
        PROVE  Tight(Share(batch, needed, k), Share(batch, needed, l))
    <2>1. ASSUME NEW i \in 0..needed - 1, NEW j \in 0..needed - 1, i < j
          PROVE  Tight(Share(batch, needed, i), Share(batch, needed, j))
      <3> HIDE DEF needed
      <3> QED
        BY <2>1, <1>1, <1>3, <1>4, <1>5, SharesTight
    <2>2. k < l \/ l < k \/ k = l
      BY <1>5
    <2> HIDE DEF needed
    <2> QED
      BY <2>1, <2>2, TightEitherWay
  <1>9. \A ps \in shares : ps # {} /\ ps \subseteq batch
    <2> HIDE DEF needed
    <2> QED
      BY <1>7
  <1>10. \A ps, qs \in shares : Tight(ps, qs)
    <2> HIDE DEF needed
    <2> QED
      BY <1>8
  <1> HIDE DEF needed, shares
  <1>11. DOMAIN claims = {} /\ Held = {} /\ Held' = {}
    BY <1>1, <1>2 DEF Held
  <1>12. UNION decided' \subseteq batch \cup UNION decided
    BY <1>6, <1>9
  <1>13. Keyed'
    <2>1. \A b \in batches' : \A p \in b, q \in UNION decided' : BatchKey(p) # BatchKey(q)
      BY <1>1, <1>12 DEF PInv, Keyed
    <2>2. \A b, c \in batches' : b = c \/ \A p \in b, q \in c : BatchKey(p) # BatchKey(q)
      BY <1>1 DEF PInv, Keyed
    <2>3. todo' \cup Held' = {}
      BY <1>1, <1>2, <1>11
    <2> QED
      BY <2>1, <2>2, <2>3, <1>2, TightFixed DEF Keyed
  <1>14. Occupied'
    BY <1>2, <1>6, <1>9, <1>11 DEF PInv, Occupied
  <1>15. Packed'
    <2>1. \A ps \in decided, qs \in shares : Tight(ps, qs) /\ Tight(qs, ps)
      <3> SUFFICES ASSUME NEW ps \in decided, NEW qs \in shares
                   PROVE  Tight(ps, qs) /\ Tight(qs, ps)
        OBVIOUS
      <3>1. ps # {} /\ qs # {}
        BY <1>9 DEF PInv, Occupied
      <3>2. \A p \in ps, q \in qs : BatchKey(p) # BatchKey(q)
        BY <1>9 DEF PInv, Keyed
      <3> QED
        BY <3>1, <3>2, TightAcross
    <2>2. \A ps, qs \in decided' : Tight(ps, qs)
      BY <2>1, <1>6, <1>10, PackedIs DEF PInv
    <2>3. \A ps, qs \in decided' : Tight(ps, qs)'
      BY <2>2, <1>2, TightFixed
    <2>4. DOMAIN claims' = {}
      BY <1>2, <1>11
    <2> QED
      BY <2>3, <2>4 DEF Packed, Tight
  <1> QED
    BY <1>13, <1>14, <1>15 DEF PInv

LEMMA StartBatchPacks == PInv /\ StartBatch => PInv'
  <1> SUFFICES ASSUME PInv, StartBatch
               PROVE  PInv'
    OBVIOUS
  <1>1. PICK batch \in batches : todo = {} /\ todo' = batch /\ batches' = batches \ {batch}
    BY DEF StartBatch
  <1>2. pods' = pods /\ claims' = claims /\ decided' = decided /\ claims = <<>>
    BY DEF StartBatch, input
  <1>3. DOMAIN claims = {} /\ Held = {} /\ Held' = {}
    BY <1>2 DEF Held
  <1>4. Keyed'
    <2>1. \A b, c \in batches' : b = c \/ \A p \in b, q \in c : BatchKey(p) # BatchKey(q)
      BY <1>1 DEF PInv, Keyed
    <2>2. \A b \in batches' : \A p \in b, q \in batch \cup UNION decided : BatchKey(p) # BatchKey(q)
      BY <1>1 DEF PInv, Keyed
    <2>3. \A p \in batch, q \in UNION decided : BatchKey(p) # BatchKey(q)
      BY DEF PInv, Keyed
    <2> QED
      BY <2>1, <2>2, <2>3, <1>1, <1>2, <1>3, TightFixed DEF Keyed
  <1>5. Occupied'
    BY <1>2 DEF PInv, Occupied
  <1>6. Packed'
    BY <1>2, <1>3, TightFixed DEF PInv, Packed, Tight
  <1> QED
    BY <1>4, <1>5, <1>6 DEF PInv

\* A pod that is taken from the rest of the batch to a claim keeps the keys apart.
LEMMA KeyedMoves ==
  ASSUME Keyed, NEW p \in todo, todo' = todo \ {p}, Held' = Held \cup {p},
         pods' = pods, batches' = batches, decided' = decided
  PROVE  Keyed'
  <1>1. todo' \cup Held' = todo \cup Held
    OBVIOUS
  <1>2. \A q : BatchKey(q)' = BatchKey(q)
    BY TightFixed
  <1> QED
    BY <1>1, <1>2 DEF Keyed

LEMMA PlacePacks ==
  ASSUME IInv, PInv, NEW p \in todo, Place(p),
         pods' = pods, batches' = batches, decided' = decided
  PROVE  PInv'
  <1> DEFINE n == Len(claims)
             ps(i) == claims[i].pods \cup {p}
             cs(i) == [claims EXCEPT ![i] = [first |-> claims[i].first, pods |-> ps(i)]]
  <1>1. PICK i \in Tried(p) : claims' = [j \in DOMAIN cs(i) |-> cs(i)[Swapped(i, j)]]
    BY DEF Place, Moved
  <1>2. claims \in Seq(Claim) /\ n \in Nat /\ DOMAIN claims = 1..n /\ i \in 1..n
    BY TriedIsAClaim DEF IInv, Typed
  <1>3. \A j \in 1..n : Swapped(i, j) \in 1..n /\ Swapped(i, Swapped(i, j)) = j
    BY <1>2, SwapInvolution
  <1>4. /\ DOMAIN cs(i) = 1..n
        /\ \A j \in 1..n : cs(i)[j].pods = IF j = i THEN ps(i) ELSE claims[j].pods
    <2>1. DOMAIN cs(i) = 1..n /\ cs(i)[i] = [first |-> claims[i].first, pods |-> ps(i)]
      BY <1>2
    <2>2. \A j \in 1..n : j # i => cs(i)[j] = claims[j]
      BY <1>2
    <2>3. cs(i)[i].pods = ps(i)
      BY <2>1
    <2> HIDE DEF cs, ps
    <2> QED
      BY <2>1, <2>2, <2>3
  <1> HIDE DEF cs
  <1>5. /\ DOMAIN claims' = 1..n
        /\ \A j \in 1..n : claims'[j].pods =
              IF Swapped(i, j) = i THEN ps(i) ELSE claims[Swapped(i, j)].pods
    BY <1>1, <1>3, <1>4
  <1>6. p \in DOMAIN pods /\ Typed /\ \A j \in 1..n : claims[j].pods \in SUBSET DOMAIN pods
    <2>1. \A j \in 1..n : claims[j] \in Claim
      BY <1>2
    <2> QED
      BY <2>1 DEF Claim, IInv, Typed
  <1>7. \A j, k \in 1..n : j # k => claims[j].pods # claims[k].pods
    <2>1. \A j, k \in 1..n : j # k => claims[j].pods \cap claims[k].pods = {}
      BY <1>2 DEF IInv, Apart
    <2>2. \A j \in 1..n : claims[j].pods # {}
      BY <1>2 DEF PInv, Occupied
    <2> QED
      BY <2>1, <2>2
  <1>8. Held' = Held \cup {p}
    <2>1. \A x : x \in Held' <=> \E j \in 1..n : x \in claims'[j].pods
      BY <1>5 DEF Held
    <2>2. \A x : x \in Held <=> \E j \in 1..n : x \in claims[j].pods
      BY <1>2 DEF Held
    <2>3. \A x : x \in Held' <=> \E j \in 1..n : x \in IF j = i THEN ps(i) ELSE claims[j].pods
      BY <2>1, <1>3, <1>5
    <2>4. \A x : x \in Held' <=> x \in Held \/ x = p
      BY <2>2, <2>3, <1>2
    <2> QED
      BY <2>4
  <1>9. Keyed'
    BY <1>8, KeyedMoves DEF PInv, Place
  <1>10. Occupied'
    <2>1. \A j \in 1..n : claims[j].pods # {} /\ ps(i) # {}
      BY <1>2 DEF PInv, Occupied
    <2> QED
      BY <2>1, <1>3, <1>5 DEF PInv, Occupied
  <1>11. ASSUME NEW k \in 1..n, k # i
         PROVE  Tight(ps(i), claims[k].pods) /\ Tight(claims[k].pods, ps(i))
    <2>1. Tight(claims[i].pods, claims[k].pods)
      BY <1>2, PackedIs DEF PInv
    <2>2. Tight(ps(i), claims[k].pods)
      BY <2>1, <1>2, <1>6, <1>7, <1>11, TightGrows
    <2> QED
      BY <2>2, TightEitherWay
  <1>12. ASSUME NEW qs \in decided
         PROVE  Tight(qs, ps(i)) /\ Tight(ps(i), qs)
    <2>1. qs # {} /\ ps(i) # {}
      BY DEF PInv, Occupied
    <2>2. \A r \in ps(i), q \in qs : BatchKey(r) # BatchKey(q)
      <3>1. ps(i) \subseteq todo \cup Held
        BY <1>2 DEF Held
      <3> QED
        BY <3>1 DEF PInv, Keyed
    <2> QED
      BY <2>1, <2>2, TightAcross
  <1>13. \A j, k \in 1..n : Tight(claims'[j].pods, claims'[k].pods)
    <2> SUFFICES ASSUME NEW j \in 1..n, NEW k \in 1..n
                 PROVE  Tight(claims'[j].pods, claims'[k].pods)
      OBVIOUS
    <2>1. Tight(claims[Swapped(i, j)].pods, claims[Swapped(i, k)].pods)
      BY <1>2, <1>3, PackedIs DEF PInv
    <2> HIDE DEF ps
    <2> QED
      BY <2>1, <1>3, <1>5, <1>11, TightEitherWay
  <1>14. \A qs \in decided, j \in 1..n : Tight(qs, claims'[j].pods) /\ Tight(claims'[j].pods, qs)
    <2> SUFFICES ASSUME NEW qs \in decided, NEW j \in 1..n
                 PROVE  Tight(qs, claims'[j].pods) /\ Tight(claims'[j].pods, qs)
      OBVIOUS
    <2>1. Tight(qs, claims[Swapped(i, j)].pods) /\ Tight(claims[Swapped(i, j)].pods, qs)
      BY <1>2, <1>3, PackedIs DEF PInv
    <2> HIDE DEF ps
    <2> QED
      BY <2>1, <1>5, <1>12
  <1>15. \A qs, rs \in decided : Tight(qs, rs)
    BY PackedIs DEF PInv
  <1>16. Packed'
    <2>1. \A qs, rs \in decided' \cup {claims'[j].pods : j \in 1..n} : Tight(qs, rs)
      BY <1>13, <1>14, <1>15
    <2>2. \A qs, rs \in (decided \cup {claims[j].pods : j \in DOMAIN claims})' : Tight(qs, rs)'
      BY <2>1, <1>5, TightFixed
    <2> QED
      BY <2>2 DEF Packed, Tight
  <1> QED
    BY <1>9, <1>10, <1>16 DEF PInv

\* A pod without constraints is tried on every claim before it opens one.
LEMMA OpenPacks ==
  ASSUME IInv, PInv, NEW p \in todo, Open(p),
         pods' = pods, batches' = batches, decided' = decided
  PROVE  PInv'
  <1> DEFINE n == Len(claims)
             c == [first |-> p, pods |-> {p}]
  <1>1. claims' = Append(claims, c) /\ todo' = todo \ {p} /\ NoneTakes(p)
    BY DEF Open
  <1>2. claims \in Seq(Claim) /\ n \in Nat /\ DOMAIN claims = 1..n
    BY DEF IInv, Typed
  <1>3. p \in DOMAIN pods /\ Typed /\ \A j \in 1..n : claims[j].pods \in SUBSET DOMAIN pods
    <2>1. \A j \in 1..n : claims[j] \in Claim
      BY <1>2
    <2> QED
      BY <2>1 DEF Claim, IInv, Typed
  <1>4. /\ DOMAIN claims' = 1..n + 1 /\ 1..n + 1 = 1..n \cup {n + 1}
        /\ claims'[n + 1].pods = {p} /\ \A j \in 1..n : claims'[j] = claims[j]
    <2>1. c \in Claim
      BY <1>3 DEF Claim
    <2> QED
      BY <2>1, <1>1, <1>2
  <1> HIDE DEF c
  <1>5. Held' = Held \cup {p}
    <2>1. \A x : x \in Held' <=> \E j \in 1..n + 1 : x \in claims'[j].pods
      BY <1>4 DEF Held
    <2>2. \A x : x \in Held <=> \E j \in 1..n : x \in claims[j].pods
      BY <1>2 DEF Held
    <2>3. \A x : x \in Held' <=> x \in Held \/ x = p
      BY <2>1, <2>2, <1>4
    <2> QED
      BY <2>3
  <1>6. Keyed'
    BY <1>1, <1>5, KeyedMoves DEF PInv
  <1>7. Occupied'
    BY <1>2, <1>4 DEF PInv, Occupied
  <1>8. ASSUME NEW j \in 1..n
        PROVE  Tight(claims[j].pods, {p})
    <2> DEFINE qs == claims[j].pods
    <2>1. SUFFICES ASSUME Free(qs \cup {p})
                   PROVE  Total(qs \cup {p}) > Largest
      BY DEF Tight
    <2>2. \A q \in qs \cup {p} : Skews[OwnerOf(q)] = {} /\ AntiAffinity[OwnerOf(q)] = {}
      BY <2>1 DEF Free, Spreads, KeepsApart
    <2>3. Tried(p) = DOMAIN claims
      BY <2>2 DEF Tried, Candidates, Spreads, KeepsApart
    <2>4. ~ Takes(j, p)
      BY <1>1, <1>2, <2>3 DEF NoneTakes
    <2>5. ~ Conflict(p, qs) /\ ~ Full(OwnerOf(p), qs)
      BY <2>2 DEF Conflict, Full
    <2>6. ~ (Total(qs \cup {p}) <= Largest)
      BY <2>4, <2>5 DEF Takes
    <2>7. Total(qs \cup {p}) \in Nat /\ Largest \in Nat
      BY <1>3, TotalGrows, NodeClaimsAssumption
    <2> QED
      BY <2>6, <2>7
  <1>9. ASSUME NEW qs \in decided
        PROVE  Tight(qs, {p})
    <2>1. qs # {}
      BY DEF PInv, Occupied
    <2>2. \A r \in {p}, q \in qs : BatchKey(r) # BatchKey(q)
      BY DEF PInv, Keyed
    <2> QED
      BY <2>1, <2>2, TightAcross
  <1>10. Packed'
    <2> DEFINE nodes == decided \cup {claims[j].pods : j \in 1..n}
    <2>1. \A qs, rs \in nodes : Tight(qs, rs)
      BY <1>2, PackedIs DEF PInv
    <2>2. \A qs \in nodes : Tight(qs, {p}) /\ Tight({p}, qs)
      BY <1>8, <1>9, TightEitherWay
    <2>3. \A j \in 1..n + 1 : claims'[j].pods \in nodes \cup {{p}}
      BY <1>4
    <2>4. decided' \cup {claims'[j].pods : j \in 1..n + 1} \subseteq nodes \cup {{p}}
      BY <2>3
    <2> HIDE DEF nodes
    <2>5. \A qs, rs \in nodes \cup {{p}} : Tight(qs, rs)
      BY <2>1, <2>2, TightEitherWay
    <2>6. \A qs, rs \in (decided \cup {claims[j].pods : j \in DOMAIN claims})' : Tight(qs, rs)'
      <3>1. (decided \cup {claims[j].pods : j \in DOMAIN claims})' \subseteq nodes \cup {{p}}
        BY <2>4, <1>4
      <3> QED
        BY <3>1, <2>5, TightFixed
    <2> QED
      BY <2>6 DEF Packed, Tight
  <1> QED
    BY <1>6, <1>7, <1>10 DEF PInv

LEMMA GiveUpPacks ==
  ASSUME PInv, todo' = {}, claims' = claims,
         pods' = pods, batches' = batches, decided' = decided
  PROVE  PInv'
  <1>1. Held' = Held
    BY DEF Held
  <1>2. Keyed'
    BY <1>1, TightFixed DEF PInv, Keyed
  <1>3. Occupied'
    BY DEF PInv, Occupied
  <1>4. Packed'
    BY PackedFixed DEF PInv
  <1> QED
    BY <1>2, <1>3, <1>4 DEF PInv

LEMMA DealPacks == IInv /\ PInv /\ Deal => PInv'
  <1> SUFFICES ASSUME IInv, PInv, Deal
               PROVE  PInv'
    OBVIOUS
  <1>1. PICK p \in todo : Place(p) \/ Open(p) \/ GiveUp(p)
    BY DEF Deal
  <1>2. pods' = pods /\ batches' = batches /\ decided' = decided
    BY DEF Deal, input
  <1>3. CASE Place(p)
    BY <1>2, <1>3, PlacePacks
  <1>4. CASE Open(p)
    BY <1>2, <1>4, OpenPacks
  <1>5. CASE GiveUp(p)
    BY <1>2, <1>5, GiveUpPacks DEF GiveUp
  <1> QED
    BY <1>1, <1>3, <1>4, <1>5

LEMMA DecidePacks == PInv /\ Decide => PInv'
  <1> SUFFICES ASSUME PInv, Decide
               PROVE  PInv'
    OBVIOUS
  <1> DEFINE held == {claims[i].pods : i \in DOMAIN claims}
  <1>1. decided' = decided \cup Decisions(held) /\ Decisions(held) \subseteq held
    BY DEF Decide, Decisions
  <1>2. claims' = <<>> /\ pods' = pods /\ batches' = batches /\ todo = {} /\ todo' = {}
    BY DEF Decide, input
  <1>3. DOMAIN claims' = {} /\ Held' = {}
    BY <1>2 DEF Held
  <1>4. UNION held = Held /\ UNION decided' \subseteq Held \cup UNION decided
    BY <1>1 DEF Held
  <1>5. Keyed'
    <2>1. \A b \in batches : \A p \in b, q \in UNION decided' : BatchKey(p) # BatchKey(q)
      BY <1>4 DEF PInv, Keyed
    <2>2. \A b, c \in batches : b = c \/ \A p \in b, q \in c : BatchKey(p) # BatchKey(q)
      BY DEF PInv, Keyed
    <2> QED
      BY <2>1, <2>2, <1>2, <1>3, TightFixed DEF Keyed
  <1>6. Occupied'
    BY <1>1, <1>3 DEF PInv, Occupied
  <1>7. Packed'
    <2>1. \A qs, rs \in decided \cup held : Tight(qs, rs)
      BY PackedIs DEF PInv
    <2> HIDE DEF held
    <2>2. \A qs, rs \in decided' : Tight(qs, rs)'
      BY <2>1, <1>1, <1>2, TightFixed
    <2> QED
      BY <2>2, <1>3 DEF Packed, Tight
  <1> QED
    BY <1>5, <1>6, <1>7 DEF PInv

LEMMA StutterPacks == PInv /\ UNCHANGED vars => PInv'
  <1> SUFFICES ASSUME PInv, UNCHANGED vars
               PROVE  PInv'
    OBVIOUS
  <1>1. pods' = pods /\ batches' = batches /\ todo' = todo /\ claims' = claims /\ decided' = decided
    BY DEF vars, input
  <1>2. Held' = Held
    BY <1>1 DEF Held
  <1>3. Keyed'
    BY <1>1, <1>2, TightFixed DEF PInv, Keyed
  <1>4. Occupied'
    BY <1>1 DEF PInv, Occupied
  <1>5. Packed'
    BY <1>1, PackedFixed DEF PInv
  <1> QED
    BY <1>3, <1>4, <1>5 DEF PInv

-----------------------------------------------------------------------------
\* provision_versioned, whatever the pods and however the claims move: the claims that
\* label_to_claims and owner_available name are the ones they mean.
THEOREM IndexesCorrect == Spec => []IndexesExact
  <1>1. IInv => IndexesExact
    BY DEF IInv
  <1> QED
    BY Invariant, <1>1, PTL

\* provision_versioned launches no node for pods that keep apart, for more pods of an owner
\* than its spread over hosts allows, for more than its largest type holds, or for a pod
\* that another node is launched for.
THEOREM ClaimsCorrect == Spec => []ClaimsSound
  <1>1. IInv => ClaimsSound
    BY DEF IInv
  <1> QED
    BY Invariant, <1>1, PTL

\* provision_versioned never launches two nodes whose pods, free of constraints of their own,
\* would have fitted one of the largest type, in whatever order the claims moved.
THEOREM PackedCorrect == Spec => []Packed
  <1>1. IInv /\ PInv /\ [Next]_vars => PInv'
    BY DealUniformPacks, StartBatchPacks, DealPacks, DecidePacks, StutterPacks DEF Next, Returned
  <1>2. PInv => Packed
    BY DEF PInv
  <1> QED
    BY InitPacks, Invariant, <1>1, <1>2, PTL DEF Spec
=============================================================================

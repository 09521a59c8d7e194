----------------------------- MODULE DrainsProofs -----------------------------
(***************************************************************************)
(* Proofs about Drains for every set of nodes and pods, every drift, spot  *)
(* and consolidation, and any budgets: the cluster stays sound between the *)
(* steps of the three, the drain handler keeps the budgets, a scan leaves  *)
(* a drifted node for the sake of a budget alone, and pods are left behind *)
(* only by a drain.                                                        *)
(***************************************************************************)
EXTENDS Drains, ClusterProofs

-----------------------------------------------------------------------------
(***************************************************************************)
(* Steps that only take away.                                              *)
(***************************************************************************)
\* From c to d pods are evicted and nodes removed: no live node has more pods than before,
\* no pod runs that did not, and none is left on a node that is gone.
Shrinks(c, d) ==
    /\ Kept(c, d)
    /\ d.pods = c.pods
    /\ \A n \in Node : /\ \/ d.nodes[n] = c.nodes[n]
                          \/ c.nodes[n] = "live" /\ d.nodes[n] = "gone"
                       /\ d.nodes[n] = "live" => d.podsOn[n] \subseteq c.podsOn[n]
    /\ \A p \in Pod : /\ Is(d, p, "Running") => Is(c, p, "Running")
                      /\ Ghost(d, p) => Ghost(c, p)

\* Nothing taken away.
LEMMA ShrinksSelf ==
    ASSUME NEW c, Sound(c)
    PROVE  Shrinks(c, c)
BY DEF Shrinks, Kept

\* One such step after another.
LEMMA ShrinksChain ==
    ASSUME NEW c, NEW d, NEW e, Shrinks(c, d), Shrinks(d, e)
    PROVE  Shrinks(c, e)
<1>1. Kept(c, e) /\ e.pods = c.pods
    BY KeptChain DEF Shrinks
<1>2. ASSUME NEW n \in Node
      PROVE  /\ \/ e.nodes[n] = c.nodes[n]
                \/ c.nodes[n] = "live" /\ e.nodes[n] = "gone"
             /\ e.nodes[n] = "live" => e.podsOn[n] \subseteq c.podsOn[n]
    BY DEF Shrinks
<1>3. \A p \in Pod : /\ Is(e, p, "Running") => Is(c, p, "Running")
                     /\ Ghost(e, p) => Ghost(c, p)
    BY DEF Shrinks
<1> QED BY <1>1, <1>2, <1>3 DEF Shrinks

\* The eviction of some pods is one, and leaves the nodes alone.
LEMMA EvictedShrinks ==
    ASSUME NEW c, Sound(c), NEW S, NEW d, Kept(c, d), EvictedFrom(c, d, S)
    PROVE  Shrinks(c, d) /\ d.nodes = c.nodes
<1>1. d.nodes = c.nodes /\ d.pods = c.pods
    BY DEF EvictedFrom, SameFrame
<1>2. \A n \in Node : d.nodes[n] = "live" => d.podsOn[n] \subseteq c.podsOn[n]
    BY <1>1 DEF EvictedFrom
<1>3. \A p \in Pod : Is(d, p, "Running") => Is(c, p, "Running") /\ d.node[p] = c.node[p]
    BY DEF EvictedFrom
<1>4. \A p \in Pod : Ghost(d, p) => Ghost(c, p)
    BY <1>1, <1>3 DEF Ghost, LiveNode
<1> QED BY <1>1, <1>2, <1>3, <1>4 DEF Shrinks

\* The removal of a node without pods is another.
LEMMA RemoveShrinks ==
    ASSUME NEW c, Sound(c), NEW n \in Node, LiveNode(c, n) => c.podsOn[n] = {},
           NEW d, d = RemoveNode(c, n)
    PROVE  /\ Shrinks(c, d)
           /\ d.nodes[n] # "live"
           /\ \A m \in Node \ {n} : d.nodes[m] = c.nodes[m]
<1>1. /\ d.nodes[n] = IF LiveNode(c, n) THEN "gone" ELSE c.nodes[n]
      /\ \A m \in Node \ {n} : d.podsOn[m] = c.podsOn[m] /\ d.nodes[m] = c.nodes[m]
      /\ d.pods = c.pods /\ d.phase = c.phase /\ d.node = c.node
    BY RemoveNodeEffect DEF Sound
<1>2. Kept(c, d)
    BY RemoveNodeKept
<1>3. d.nodes[n] # "live"
    BY <1>1 DEF LiveNode
<1>4. \A m \in Node : /\ \/ d.nodes[m] = c.nodes[m]
                         \/ c.nodes[m] = "live" /\ d.nodes[m] = "gone"
                      /\ d.nodes[m] = "live" => d.podsOn[m] \subseteq c.podsOn[m]
    BY <1>1 DEF LiveNode
<1>5. \A p \in Pod : Is(d, p, "Running") <=> Is(c, p, "Running")
    BY <1>1 DEF Is, LivePod
<1>6. ASSUME NEW p \in Pod, Ghost(d, p) PROVE Ghost(c, p)
    <2> SUFFICES ASSUME LiveNode(c, c.node[p]) PROVE FALSE
        BY <1>1, <1>5, <1>6 DEF Ghost
    <2>1. c.node[p] = n
        BY <1>1, <1>6 DEF Ghost, LiveNode
    <2>2. p \in c.podsOn[n]
        BY <1>5, <1>6, <2>1 DEF Ghost, Sound, LinksAgree, LiveNode
    <2> QED BY <2>1, <2>2
<1> QED BY <1>1, <1>2, <1>3, <1>4, <1>5, <1>6 DEF Shrinks

-----------------------------------------------------------------------------
(***************************************************************************)
(* The pods that are evicted, in their order.                              *)
(***************************************************************************)
\* w[i] has what the first i members of s have of S.
Picks(w, s, X, S) ==
    /\ w \in [0..Len(s) -> Seq(X)]
    /\ w[0] = <<>>
    /\ \A i \in 1..Len(s) : w[i] = IF s[i] \in S THEN Append(w[i - 1], s[i]) ELSE w[i - 1]

\* InOrder is a walk along the sequence.
LEMMA InOrderWalk ==
    ASSUME NEW X, NEW s \in Seq(X), NEW S
    PROVE  \E w : Picks(w, s, X, S) /\ InOrder(s, S) = w[Len(s)]
<1> DEFINE n == Len(s)
           Taken(t, x) == IF x \in S THEN Append(t, x) ELSE t
           Eqn(g) == g = [t \in SUBSET (1..n) |->
                             IF t = {} THEN <<>> ELSE Taken(g[t \ {Max(t)}], s[Max(t)])]
           g == CHOOSE h : Eqn(h)
           C == Seq(X)
           step == [i \in 1..n |-> [t \in C |-> Taken(t, s[i])]]
<1>0. n \in Nat /\ DOMAIN s = 1..n /\ <<>> \in C /\ \A i \in 1..n : s[i] \in X
    BY LenProperties, ElementOfSeq, EmptySeq
<1>1. InOrder(s, S) = g[1..n]
    BY <1>0 DEF InOrder, FoldLeft, MapThenFoldSet
<1>2. step \in [1..n -> [C -> C]]
    <2>1. \A i \in 1..n, t \in C : Taken(t, s[i]) \in C
        BY <1>0, AppendProperties
    <2> HIDE DEF C, n, Taken
    <2> QED BY <2>1
<1>3. \A t \in SUBSET (1..n) : t # {} => Max(t) \in t
    BY <1>0, MaxOf
<1> HIDE DEF n, step, Taken, C
<1>4. \E h : Eqn(h)
    <2>1. PICK h : Solves(h, n, C, step, <<>>)
        BY <1>0, <1>2, FoldSolved
    <2>2. \A t \in SUBSET (1..n) :
              h[t] = IF t = {} THEN <<>> ELSE Taken(h[t \ {Max(t)}], s[Max(t)])
        BY <1>3, <2>1 DEF Solves, step
    <2>3. Eqn(h)
        BY <2>1, <2>2 DEF Solves
    <2> QED BY <2>3
<1>5. Eqn(g)
    BY <1>4
<1> HIDE DEF g
<1>6. Tracks(g, n, C, step, <<>>)
    BY <1>3, <1>5 DEF Tracks, step
<1>7. PICK w : Walk(w, n, C, step, <<>>) /\ w[n] = g[1..n]
    BY <1>0, <1>2, <1>6, FoldWalked
<1>8. \A i \in 1..n : w[i] = Taken(w[i - 1], s[i])
    <2> TAKE i \in 1..n
    <2>1. w[i - 1] \in C /\ w[i] = step[i][w[i - 1]]
        BY <1>0, <1>7 DEF Walk
    <2> QED BY <2>1 DEF step
<1>9. Picks(w, s, X, S)
    BY <1>7, <1>8 DEF Picks, Walk, n, C, Taken
<1> QED BY <1>1, <1>7, <1>9 DEF n

\* It has what the sequence has of the set, and nothing twice that was not there twice.
LEMMA InOrderIs ==
    ASSUME NEW X, NEW s \in Seq(X), NEW S
    PROVE  /\ InOrder(s, S) \in Seq(X)
           /\ QueueSet(InOrder(s, S)) = QueueSet(s) \cap S
           /\ NoDuplicates(s) => NoDuplicates(InOrder(s, S))
<1> DEFINE n == Len(s)
           Upto(i) == {s[k] : k \in 1..i}
<1>0. n \in Nat /\ \A i \in 1..n : s[i] \in X
    BY LenProperties, ElementOfSeq
<1>1. PICK w : Picks(w, s, X, S) /\ InOrder(s, S) = w[n]
    BY InOrderWalk
<1> DEFINE P == {i \in 0..n : /\ QueueSet(w[i]) = Upto(i) \cap S
                              /\ NoDuplicates(s) => NoDuplicates(w[i])}
<1>2. 0 \in P
    <2>1. QueueSet(<<>>) = {} /\ NoDuplicates(<<>>)
        BY EmptySeq DEF QueueSet, NoDuplicates
    <2>2. Upto(0) = {}
        OBVIOUS
    <2> HIDE DEF Upto
    <2>3. QueueSet(w[0]) = Upto(0) \cap S /\ NoDuplicates(w[0])
        BY <1>1, <2>1, <2>2 DEF Picks
    <2> QED BY <1>0, <2>3
<1>3. ASSUME NEW i \in 1..n, i - 1 \in P PROVE i \in P
    <2>1. /\ QueueSet(w[i - 1]) = Upto(i - 1) \cap S
          /\ NoDuplicates(s) => NoDuplicates(w[i - 1])
          /\ w[i - 1] \in Seq(X) /\ s[i] \in X
          /\ w[i] = IF s[i] \in S THEN Append(w[i - 1], s[i]) ELSE w[i - 1]
        BY <1>0, <1>1, <1>3 DEF Picks
    <2>2. Upto(i) = Upto(i - 1) \cup {s[i]}
        <3>1. 1..i = (1..(i - 1)) \cup {i}
            BY <1>0
        <3> QED BY <3>1
    <2>3. NoDuplicates(s) => s[i] \notin Upto(i - 1)
        <3>1. \A k \in 1..(i - 1) : k \in 1..n /\ k # i
            BY <1>0
        <3> QED BY <3>1 DEF NoDuplicates
    <2> HIDE DEF Upto
    <2>4. QueueSet(w[i]) = Upto(i) \cap S /\ (NoDuplicates(s) => NoDuplicates(w[i]))
        <3>1. CASE s[i] \in S
            <4>1. /\ QueueSet(w[i]) = QueueSet(w[i - 1]) \cup {s[i]}
                  /\ NoDuplicates(w[i - 1]) /\ s[i] \notin QueueSet(w[i - 1]) => NoDuplicates(w[i])
                BY <2>1, <3>1, AppendQueue
            <4> QED BY <2>1, <2>2, <2>3, <3>1, <4>1
        <3>2. CASE s[i] \notin S
            BY <2>1, <2>2, <3>2
        <3> QED BY <3>1, <3>2
    <2> QED BY <1>0, <2>4
<1> HIDE DEF P, n
<1>4. n \in P
    <2>1. \A i \in 1..n : i - 1 \in P => i \in P
        BY <1>3
    <2> QED BY <1>0, <1>2, <2>1, WalkInduction
<1>5. QueueSet(w[n]) = Upto(n) \cap S /\ (NoDuplicates(s) => NoDuplicates(w[n]))
    BY <1>4 DEF P
<1>6. Upto(n) = QueueSet(s)
    BY DEF QueueSet, n
<1>7. w[n] \in Seq(X)
    BY <1>0, <1>1 DEF Picks, n
<1> HIDE DEF Upto
<1> QED BY <1>1, <1>5, <1>6, <1>7

-----------------------------------------------------------------------------
(***************************************************************************)
(* Budgets and drains.                                                     *)
(***************************************************************************)
\* The assumptions on the constants, in the form the lemmas about passes want.
LEMMA PodRanked == Ranked(Pod) /\ IsFiniteSet(Pod)
BY DrainsAssumption DEF Ranked

\* A budget counts some pods.
LEMMA RunningIs ==
    ASSUME NEW c, NEW b \in Budgets
    PROVE  /\ Selected[b] \subseteq Pod \ Daemon /\ MinAvailable[b] \in Nat
           /\ IsFiniteSet({p \in Selected[b] : Is(c, p, "Running")})
           /\ Running(c, b) \in Nat
<1> DEFINE S == {p \in Selected[b] : Is(c, p, "Running")}
<1>1. Selected[b] \subseteq Pod \ Daemon /\ MinAvailable[b] \in Nat
    BY DrainsAssumption DEF Budgets
<1>2. IsFiniteSet(S)
    BY <1>1, PodRanked, FS_Subset
<1> HIDE DEF S
<1>3. Cardinality(S) \in Nat
    BY <1>2, FS_CardinalityType
<1> QED BY <1>1, <1>2, <1>3 DEF S, Running

\* Where pods only go, a budget does not count more of them.
LEMMA RunningShrinks ==
    ASSUME NEW c, NEW d, Shrinks(c, d), NEW b \in Budgets
    PROVE  Running(d, b) <= Running(c, b)
<1> DEFINE S == {p \in Selected[b] : Is(c, p, "Running")}
           T == {p \in Selected[b] : Is(d, p, "Running")}
<1>1. T \subseteq S
    <2>1. Selected[b] \subseteq Pod
        BY RunningIs
    <2> QED BY <2>1 DEF Shrinks
<1>2. IsFiniteSet(S)
    BY RunningIs
<1> HIDE DEF S, T
<1>3. Cardinality(T) <= Cardinality(S)
    BY <1>1, <1>2, FS_Subset
<1> QED BY <1>3 DEF S, T, Running

\* The eviction of a running pod costs each of its budgets one.
LEMMA RunningEvicted ==
    ASSUME NEW c, NEW p \in Pod, Is(c, p, "Running"), NEW d, EvictedFrom(c, d, {p}),
           NEW b \in Budgets
    PROVE  Running(d, b) = IF p \in Selected[b] THEN Running(c, b) - 1 ELSE Running(c, b)
<1> DEFINE S == {q \in Selected[b] : Is(c, q, "Running")}
           T == {q \in Selected[b] : Is(d, q, "Running")}
<1>1. T = S \ {p} /\ (p \in S <=> p \in Selected[b])
    <2>1. Selected[b] \subseteq Pod
        BY RunningIs
    <2> QED BY <2>1 DEF EvictedFrom
<1>2. IsFiniteSet(S)
    BY RunningIs
<1>3. Running(c, b) = Cardinality(S) /\ Running(d, b) = Cardinality(T)
    BY DEF Running
<1> HIDE DEF S, T
<1>4. p \in S => Cardinality(S \ {p}) = Cardinality(S) - 1
    BY <1>2, FS_RemoveElement
<1>5. p \notin S => T = S
    BY <1>1
<1> QED BY <1>1, <1>3, <1>4, <1>5

\* The pods of a node that is there run.
LEMMA ListedRuns ==
    ASSUME NEW c, Sound(c), NEW n \in Node, LiveNode(c, n), NEW p \in c.podsOn[n]
    PROVE  p \in Pod /\ Is(c, p, "Running") /\ c.node[p] = n
BY DEF Sound, LinksAgree, LiveNode, ClusterType

\* Each pod of the node is held back by a budget that counts as many as it wants or fewer.
Held(c, n) ==
    \A p \in c.podsOn[n] : \E b \in Budgets : p \in Selected[b] /\ Running(c, b) <= MinAvailable[b]

\* A forced drain empties the node.
LEMMA ForceDrainIs ==
    ASSUME NEW c, Sound(c), NEW n \in Node, NEW order \in Seq(Pod), NEW d, d = ForceDrain(c, n, order)
    PROVE  /\ Shrinks(c, d) /\ d.nodes = c.nodes
           /\ LiveNode(c, n) /\ c.podsOn[n] \subseteq QueueSet(order) => d.podsOn[n] = {}
<1> DEFINE S == c.podsOn[n]
           s == InOrder(order, S)
<1>1. s \in Seq(Pod) /\ QueueSet(s) = QueueSet(order) \cap S
    BY InOrderIs
<1>2. d = FoldLeft(EvictPod, c, s)
    BY DEF ForceDrain, EvictAll
<1> HIDE DEF s
<1>3. Kept(c, d) /\ EvictedFrom(c, d, QueueSet(s))
    BY <1>1, <1>2, EvictAllKept
<1>4. Shrinks(c, d) /\ d.nodes = c.nodes
    BY <1>3, EvictedShrinks
<1>5. ASSUME LiveNode(c, n), S \subseteq QueueSet(order) PROVE d.podsOn[n] = {}
    <2>1. d.podsOn[n] = c.podsOn[n] \ QueueSet(s)
        BY <1>3, <1>5 DEF EvictedFrom, LiveNode
    <2> QED BY <1>1, <1>5, <2>1
<1> QED BY <1>4, <1>5

\* A drain leaves on the node what a budget holds back.
LEMMA TryDrainIs ==
    ASSUME NEW c, Sound(c), NEW n \in Node, NEW order \in Seq(Pod), NEW d, d = TryDrain(c, n, order)
    PROVE  /\ Shrinks(c, d) /\ d.nodes = c.nodes
           /\ LiveNode(c, n) /\ c.podsOn[n] \subseteq QueueSet(order) => Held(d, n)
<1> DEFINE S == {p \in c.podsOn[n] : Is(c, p, "Running") /\ Allows(c, p)}
           s == InOrder(order, S)
<1>1. s \in Seq(Pod) /\ QueueSet(s) = QueueSet(order) \cap S
    <2> HIDE DEF S
    <2> QED BY InOrderIs
<1>2. d = FoldLeft(EvictPod, c, s)
    BY DEF TryDrain, EvictAll
<1> HIDE DEF s
<1>3. Kept(c, d) /\ EvictedFrom(c, d, QueueSet(s))
    BY <1>1, <1>2, EvictAllKept
<1>4. Shrinks(c, d) /\ d.nodes = c.nodes
    BY <1>3, EvictedShrinks
<1>5. ASSUME LiveNode(c, n), c.podsOn[n] \subseteq QueueSet(order), NEW p \in d.podsOn[n]
      PROVE  \E b \in Budgets : p \in Selected[b] /\ Running(d, b) <= MinAvailable[b]
    <2>1. p \in c.podsOn[n] /\ p \notin QueueSet(s)
        BY <1>3, <1>5 DEF EvictedFrom, LiveNode
    <2>2. p \notin S /\ Is(c, p, "Running")
        BY <1>1, <1>5, <2>1, ListedRuns
    <2>3. PICK b \in Budgets : p \in Selected[b] /\ ~ (Running(c, b) > MinAvailable[b])
        BY <2>1, <2>2 DEF Allows
    <2>4. Running(d, b) <= Running(c, b)
        BY <1>4, RunningShrinks
    <2>5. Running(c, b) \in Nat /\ Running(d, b) \in Nat /\ MinAvailable[b] \in Nat
        BY RunningIs
    <2> QED BY <2>3, <2>4, <2>5
<1> QED BY <1>4, <1>5 DEF Held

-----------------------------------------------------------------------------
(***************************************************************************)
(* A scan of the drift handler.                                            *)
(***************************************************************************)
DrainingState == {"no", "draining", "expired"}

ScanType == [c : ClusterType, draining : [Node -> DrainingState],
             out : SUBSET Node, cordon : SUBSET Node]

\* The nodes that may be on the handler's list.
Drifters == {n \in InitialNodes : Drifted(n)}

\* What a scan of the state may have come to.
Scans ==
    {s \in ScanType :
        /\ Shrinks(state, s.c)
        /\ \A n \in Node : s.draining[n] # "no" => n \in Drifters
        /\ \A n \in s.out : s.c.nodes[n] = "gone"
        /\ \A n \in s.cordon : state.nodes[n] # "fresh"}

\* An order of the pods of all drifted nodes.
Listing(order) ==
    /\ order \in Seq(Pod)
    /\ \A n \in Node : LiveNode(state, n) /\ Drifted(n) => state.podsOn[n] \subseteq QueueSet(order)

\* A node that stays on the list is there and held back by budgets.
Settled(s, n) == s.draining[n] # "no" => LiveNode(s.c, n) /\ Held(s.c, n)

\* From s to t the scan looks at node n.
Visits(s, t, n) ==
    /\ t \in Scans
    /\ Shrinks(s.c, t.c)
    /\ \A m \in Node \ {n} : t.c.nodes[m] = s.c.nodes[m] /\ t.draining[m] = s.draining[m]

\* What holds the pods of a node back still does when fewer of them are left.
LEMMA HeldShrinks ==
    ASSUME NEW c, NEW d, Shrinks(c, d), NEW n \in Node, LiveNode(d, n), Held(c, n)
    PROVE  Held(d, n)
<1> SUFFICES ASSUME NEW p \in d.podsOn[n]
             PROVE  \E b \in Budgets : p \in Selected[b] /\ Running(d, b) <= MinAvailable[b]
    BY DEF Held
<1>1. p \in c.podsOn[n]
    BY DEF Shrinks, LiveNode
<1>2. PICK b \in Budgets : p \in Selected[b] /\ Running(c, b) <= MinAvailable[b]
    BY <1>1 DEF Held
<1>3. Running(d, b) <= Running(c, b)
    BY RunningShrinks
<1>4. Running(c, b) \in Nat /\ Running(d, b) \in Nat /\ MinAvailable[b] \in Nat
    BY RunningIs
<1> QED BY <1>2, <1>3, <1>4

\* A node stays settled when the scan looks at another.
LEMMA SettledStays ==
    ASSUME NEW s \in Scans, NEW n, NEW t, Visits(s, t, n), NEW m \in Node \ {n}, Settled(s, m)
    PROVE  Settled(t, m)
<1> SUFFICES ASSUME t.draining[m] # "no" PROVE LiveNode(t.c, m) /\ Held(t.c, m)
    BY DEF Settled
<1>1. LiveNode(s.c, m) /\ Held(s.c, m)
    BY DEF Settled, Visits
<1>2. LiveNode(t.c, m)
    BY <1>1 DEF Visits, LiveNode
<1> QED BY <1>1, <1>2, HeldShrinks DEF Visits

\* A record with the right fields is a scan.
LEMMA ScanFields ==
    ASSUME NEW c, Shrinks(state, c), NEW dr \in [Node -> DrainingState],
           \A n \in Node : dr[n] # "no" => n \in Drifters,
           NEW out \in SUBSET Node, \A n \in out : c.nodes[n] = "gone",
           NEW cordon \in SUBSET Node, \A n \in cordon : state.nodes[n] # "fresh"
    PROVE  [c |-> c, draining |-> dr, out |-> out, cordon |-> cordon] \in Scans
<1>1. c \in ClusterType
    BY DEF Shrinks, Kept, Sound
<1> QED BY <1>1 DEF Scans, ScanType

\* The fields of a scan.
LEMMA ScanIs ==
    ASSUME NEW s \in Scans
    PROVE  /\ s = [c |-> s.c, draining |-> s.draining, out |-> s.out, cordon |-> s.cordon]
           /\ Shrinks(state, s.c) /\ Sound(s.c)
           /\ s.draining \in [Node -> DrainingState]
           /\ \A n \in Node : s.draining[n] # "no" => n \in Drifters
           /\ s.out \in SUBSET Node /\ \A n \in s.out : s.c.nodes[n] = "gone"
           /\ s.cordon \in SUBSET Node /\ \A n \in s.cordon : state.nodes[n] # "fresh"
BY DEF Scans, ScanType, Shrinks, Kept

\* The node has been taken off the list.
LEMMA ForgetIs ==
    ASSUME NEW s \in Scans, NEW n \in Node, NEW t, t = [s EXCEPT !.draining[n] = "no"]
    PROVE  Visits(s, t, n) /\ Settled(t, n)
<1> DEFINE dr == [s.draining EXCEPT ![n] = "no"]
<1>0. /\ s = [c |-> s.c, draining |-> s.draining, out |-> s.out, cordon |-> s.cordon]
      /\ Shrinks(state, s.c) /\ Sound(s.c)
      /\ s.draining \in [Node -> DrainingState]
      /\ \A m \in Node : s.draining[m] # "no" => m \in Drifters
      /\ s.out \in SUBSET Node /\ \A m \in s.out : s.c.nodes[m] = "gone"
      /\ s.cordon \in SUBSET Node /\ \A m \in s.cordon : state.nodes[m] # "fresh"
    BY ScanIs
<1>1. t = [c |-> s.c, draining |-> dr, out |-> s.out, cordon |-> s.cordon]
    BY <1>0
<1>2. /\ dr \in [Node -> DrainingState] /\ dr[n] = "no"
      /\ \A m \in Node \ {n} : dr[m] = s.draining[m]
      /\ \A m \in Node : dr[m] # "no" => m \in Drifters
    BY <1>0 DEF DrainingState
<1> HIDE DEF dr
<1>3. t \in Scans
    BY <1>0, <1>1, <1>2, ScanFields
<1>4. Shrinks(s.c, s.c)
    BY <1>0, ShrinksSelf
<1> QED BY <1>1, <1>2, <1>3, <1>4 DEF Visits, Settled

\* The node has been drained and is removed.
LEMMA LeavesIs ==
    ASSUME NEW s \in Scans, NEW n \in Node, state.nodes[n] # "fresh", NEW c, Shrinks(s.c, c),
           c.nodes = s.c.nodes, LiveNode(c, n) => c.podsOn[n] = {}, NEW t, t = Leaves(s, n, c)
    PROVE  Visits(s, t, n) /\ Settled(t, n)
<1> DEFINE dr == [s.draining EXCEPT ![n] = "no"]
           d == RemoveNode(c, n)
           out == s.out \cup {n}
<1>0. /\ s = [c |-> s.c, draining |-> s.draining, out |-> s.out, cordon |-> s.cordon]
      /\ Shrinks(state, s.c) /\ Sound(s.c)
      /\ s.draining \in [Node -> DrainingState]
      /\ \A m \in Node : s.draining[m] # "no" => m \in Drifters
      /\ s.out \in SUBSET Node /\ \A m \in s.out : s.c.nodes[m] = "gone"
      /\ s.cordon \in SUBSET Node /\ \A m \in s.cordon : state.nodes[m] # "fresh"
    BY ScanIs
<1>1. t = [c |-> d, draining |-> dr, out |-> out, cordon |-> s.cordon]
    BY <1>0 DEF Leaves
<1>2. /\ dr \in [Node -> DrainingState] /\ dr[n] = "no"
      /\ \A m \in Node \ {n} : dr[m] = s.draining[m]
      /\ \A m \in Node : dr[m] # "no" => m \in Drifters
    BY <1>0 DEF DrainingState
<1>3. /\ Shrinks(c, d) /\ d.nodes[n] # "live"
      /\ \A m \in Node \ {n} : d.nodes[m] = c.nodes[m]
    BY RemoveShrinks DEF Shrinks, Kept
<1> HIDE DEF dr, d
<1>4. Shrinks(s.c, d)
    BY <1>3, ShrinksChain
<1>5. Shrinks(state, d)
    BY <1>0, <1>4, ShrinksChain
<1>6. d.nodes[n] = "gone"
    BY <1>3, <1>5 DEF Shrinks, Kept, Sound, ClusterType, Life
<1>7. out \in SUBSET Node /\ \A m \in out : d.nodes[m] = "gone"
    BY <1>0, <1>3, <1>6
<1> HIDE DEF out
<1>8. t \in Scans
    BY <1>0, <1>1, <1>2, <1>5, <1>7, ScanFields
<1>9. Visits(s, t, n)
    BY <1>1, <1>2, <1>3, <1>4, <1>8 DEF Visits
<1> QED BY <1>1, <1>2, <1>9 DEF Settled

\* The node has pods left and stays on the list.
LEMMA StaysIs ==
    ASSUME NEW s \in Scans, NEW n \in Drifters, NEW c, Shrinks(s.c, c), c.nodes = s.c.nodes,
           NEW t, t = Stays(s, n, c)
    PROVE  Visits(s, t, n) /\ (LiveNode(c, n) /\ Held(c, n) => Settled(t, n))
<1> DEFINE x == IF s.draining[n] = "no" THEN "draining" ELSE s.draining[n]
           dr == [s.draining EXCEPT ![n] = x]
<1>0. /\ s = [c |-> s.c, draining |-> s.draining, out |-> s.out, cordon |-> s.cordon]
      /\ Shrinks(state, s.c) /\ Sound(s.c)
      /\ s.draining \in [Node -> DrainingState]
      /\ \A m \in Node : s.draining[m] # "no" => m \in Drifters
      /\ s.out \in SUBSET Node /\ \A m \in s.out : s.c.nodes[m] = "gone"
      /\ s.cordon \in SUBSET Node /\ \A m \in s.cordon : state.nodes[m] # "fresh"
    BY ScanIs
<1>1. n \in Node
    BY DrainsAssumption DEF Drifters
<1>2. t = [c |-> c, draining |-> dr, out |-> s.out, cordon |-> s.cordon]
    BY <1>0 DEF Stays
<1>3. x \in DrainingState
    BY <1>0, <1>1 DEF DrainingState
<1> HIDE DEF x
<1>4. /\ dr \in [Node -> DrainingState]
      /\ \A m \in Node \ {n} : dr[m] = s.draining[m]
      /\ \A m \in Node : dr[m] # "no" => m \in Drifters
    BY <1>0, <1>1, <1>3
<1> HIDE DEF dr
<1>5. Shrinks(state, c)
    BY <1>0, ShrinksChain
<1>6. t \in Scans
    BY <1>0, <1>2, <1>4, <1>5, ScanFields
<1>7. Visits(s, t, n)
    BY <1>2, <1>4, <1>6 DEF Visits
<1> QED BY <1>2, <1>7 DEF Settled

\* The order lists the pods of a drifted node that is still there.
LEMMA ListedStill ==
    ASSUME NEW s \in Scans, NEW n \in Drifters, NEW order, Listing(order), LiveNode(s.c, n)
    PROVE  /\ LiveNode(state, n)
           /\ s.c.podsOn[n] \subseteq QueueSet(order)
<1>1. n \in Node /\ Drifted(n)
    BY DrainsAssumption DEF Drifters
<1>2. Shrinks(state, s.c)
    BY ScanIs
<1>3. LiveNode(state, n) /\ s.c.podsOn[n] \subseteq state.podsOn[n]
    BY <1>1, <1>2 DEF Shrinks, LiveNode
<1> QED BY <1>1, <1>3 DEF Listing

\* A drain under the budgets.
LEMMA AfterIs ==
    ASSUME NEW s \in Scans, NEW n \in Drifters, state.nodes[n] # "fresh",
           NEW order, Listing(order), NEW t, t = After(s, n, TryDrain(s.c, n, order))
    PROVE  Visits(s, t, n) /\ (LiveNode(s.c, n) => Settled(t, n))
<1> DEFINE c == TryDrain(s.c, n, order)
<1>0. n \in Node /\ Sound(s.c) /\ order \in Seq(Pod)
    BY DrainsAssumption, ScanIs DEF Drifters, Listing
<1>1. /\ Shrinks(s.c, c) /\ c.nodes = s.c.nodes
      /\ LiveNode(s.c, n) /\ s.c.podsOn[n] \subseteq QueueSet(order) => Held(c, n)
    BY <1>0, TryDrainIs
<1>2. t = IF Done(c, n) THEN Leaves(s, n, c) ELSE Stays(s, n, c)
    BY DEF After
<1> HIDE DEF c
<1>3. CASE Done(c, n)
    <2>1. t = Leaves(s, n, c) /\ (LiveNode(c, n) => c.podsOn[n] = {})
        BY <1>2, <1>3 DEF Done
    <2> QED BY <1>0, <1>1, <2>1, LeavesIs
<1>4. CASE ~ Done(c, n)
    <2>1. Visits(s, t, n) /\ (LiveNode(c, n) /\ Held(c, n) => Settled(t, n))
        BY <1>1, <1>2, <1>4, StaysIs
    <2>2. LiveNode(s.c, n) => LiveNode(c, n) /\ Held(c, n)
        BY <1>1, ListedStill DEF LiveNode
    <2> QED BY <2>1, <2>2
<1> QED BY <1>3, <1>4

\* Phase 1.
LEMMA ContinueIs ==
    ASSUME NEW s \in Scans, NEW n \in Drifters, NEW order, Listing(order),
           NEW t, t = Continue(s, n, order)
    PROVE  Visits(s, t, n) /\ Settled(t, n)
<1>0. n \in Node /\ Sound(s.c) /\ order \in Seq(Pod)
    BY DrainsAssumption, ScanIs DEF Drifters, Listing
<1>1. CASE ~ LiveNode(s.c, n)
    <2>1. t = [s EXCEPT !.draining[n] = "no"]
        BY <1>1 DEF Continue
    <2> QED BY <1>0, <2>1, ForgetIs
<1>2. CASE LiveNode(s.c, n) /\ s.draining[n] = "expired"
    <2> DEFINE c == ForceDrain(s.c, n, order)
    <2>1. t = Leaves(s, n, c)
        BY <1>2 DEF Continue
    <2>2. LiveNode(state, n) /\ s.c.podsOn[n] \subseteq QueueSet(order)
        BY <1>2, ListedStill
    <2>3. Shrinks(s.c, c) /\ c.nodes = s.c.nodes /\ c.podsOn[n] = {}
        BY <1>0, <1>2, <2>2, ForceDrainIs
    <2>4. state.nodes[n] # "fresh"
        BY <2>2 DEF LiveNode
    <2> HIDE DEF c
    <2> QED BY <1>0, <2>1, <2>3, <2>4, LeavesIs
<1>3. CASE LiveNode(s.c, n) /\ s.draining[n] # "expired"
    <2>1. t = After(s, n, TryDrain(s.c, n, order))
        BY <1>3 DEF Continue
    <2>2. state.nodes[n] # "fresh"
        BY <1>3, ListedStill DEF LiveNode
    <2> QED BY <1>3, <2>1, <2>2, AfterIs
<1> QED BY <1>1, <1>2, <1>3

\* Phase 2.
LEMMA BeginIs ==
    ASSUME NEW s \in Scans, NEW n \in Drifters, state.nodes[n] # "fresh",
           NEW order, Listing(order), NEW t, t = Begin(s, n, order)
    PROVE  Visits(s, t, n) /\ (LiveNode(s.c, n) => Settled(t, n))
<1> DEFINE begun == [s EXCEPT !.cordon = @ \cup {n}]
           cordon == s.cordon \cup {n}
<1>0. /\ s = [c |-> s.c, draining |-> s.draining, out |-> s.out, cordon |-> s.cordon]
      /\ Shrinks(state, s.c) /\ Sound(s.c)
      /\ s.draining \in [Node -> DrainingState]
      /\ \A m \in Node : s.draining[m] # "no" => m \in Drifters
      /\ s.out \in SUBSET Node /\ \A m \in s.out : s.c.nodes[m] = "gone"
      /\ s.cordon \in SUBSET Node /\ \A m \in s.cordon : state.nodes[m] # "fresh"
    BY ScanIs
<1>1. n \in Node
    BY DrainsAssumption DEF Drifters
<1>2. begun = [c |-> s.c, draining |-> s.draining, out |-> s.out, cordon |-> cordon]
    <2>1. s = [c |-> s.c, draining |-> s.draining, out |-> s.out, cordon |-> s.cordon]
        BY <1>0
    <2> QED BY <2>1
<1>3. cordon \in SUBSET Node /\ \A m \in cordon : state.nodes[m] # "fresh"
    BY <1>0, <1>1
<1>4. t = After(begun, n, TryDrain(s.c, n, order))
    BY DEF Begin
<1> HIDE DEF begun, cordon
<1>5. begun \in Scans
    BY <1>0, <1>2, <1>3, ScanFields
<1>6. begun.c = s.c /\ begun.draining = s.draining
    BY <1>2
<1>7. Visits(begun, t, n) /\ (LiveNode(begun.c, n) => Settled(t, n))
    BY <1>4, <1>5, <1>6, AfterIs
<1> QED BY <1>6, <1>7 DEF Visits

\* w[i] is the scan after the first i nodes of a phase.
Continues(w, scan, nodes, order) ==
    /\ w \in [0..Len(nodes) -> Scans]
    /\ w[0] = scan
    /\ \A i \in 1..Len(nodes) : w[i] = Continue(w[i - 1], nodes[i], order)
Begins(w, scan, nodes, order) ==
    /\ w \in [0..Len(nodes) -> Scans]
    /\ w[0] = scan
    /\ \A i \in 1..Len(nodes) : w[i] = Begin(w[i - 1], nodes[i], order)

\* Phase 1 is a walk along its nodes.
LEMMA ContinueWalk ==
    ASSUME NEW scan \in Scans, NEW nodes \in Seq(Drifters), NEW order, Listing(order)
    PROVE  \E w : /\ Continues(w, scan, nodes, order)
                  /\ ContinueAll(scan, nodes, order) = w[Len(nodes)]
<1> DEFINE n == Len(nodes)
           Eqn(g) == g = [t \in SUBSET (1..n) |->
                             IF t = {} THEN scan ELSE Continue(g[t \ {Max(t)}], nodes[Max(t)], order)]
           g == CHOOSE h : Eqn(h)
           C == Scans
           step == [i \in 1..n |-> [s \in C |-> Continue(s, nodes[i], order)]]
<1>0. n \in Nat /\ DOMAIN nodes = 1..n /\ scan \in C /\ \A i \in 1..n : nodes[i] \in Drifters
    BY LenProperties, ElementOfSeq
<1>1. ContinueAll(scan, nodes, order) = g[1..n]
    BY <1>0 DEF ContinueAll, FoldLeft, MapThenFoldSet
<1>2. step \in [1..n -> [C -> C]]
    <2>1. \A i \in 1..n, s \in C : Continue(s, nodes[i], order) \in C
        BY <1>0, ContinueIs DEF Visits
    <2> HIDE DEF C, n
    <2> QED BY <2>1
<1>3. \A t \in SUBSET (1..n) : t # {} => Max(t) \in t
    BY <1>0, MaxOf
<1> HIDE DEF n, step, C
<1>4. \E h : Eqn(h)
    <2>1. PICK h : Solves(h, n, C, step, scan)
        BY <1>0, <1>2, FoldSolved
    <2>2. \A t \in SUBSET (1..n) :
              h[t] = IF t = {} THEN scan ELSE Continue(h[t \ {Max(t)}], nodes[Max(t)], order)
        BY <1>3, <2>1 DEF Solves, step
    <2>3. Eqn(h)
        BY <2>1, <2>2 DEF Solves
    <2> QED BY <2>3
<1>5. Eqn(g)
    BY <1>4
<1> HIDE DEF g
<1>6. Tracks(g, n, C, step, scan)
    BY <1>3, <1>5 DEF Tracks, step
<1>7. PICK w : Walk(w, n, C, step, scan) /\ w[n] = g[1..n]
    BY <1>0, <1>2, <1>6, FoldWalked
<1>8. \A i \in 1..n : w[i] = Continue(w[i - 1], nodes[i], order)
    <2> TAKE i \in 1..n
    <2>1. w[i - 1] \in C /\ w[i] = step[i][w[i - 1]]
        BY <1>0, <1>7 DEF Walk
    <2> QED BY <2>1 DEF step
<1>9. Continues(w, scan, nodes, order)
    BY <1>7, <1>8 DEF Continues, Walk, n, C
<1> QED BY <1>1, <1>7, <1>9 DEF n

\* Phase 2 is another.
LEMMA BeginWalk ==
    ASSUME NEW scan \in Scans, NEW nodes \in Seq(Drifters),
           \A n \in QueueSet(nodes) : state.nodes[n] # "fresh", NEW order, Listing(order)
    PROVE  \E w : /\ Begins(w, scan, nodes, order)
                  /\ BeginAll(scan, nodes, order) = w[Len(nodes)]
<1> DEFINE n == Len(nodes)
           Eqn(g) == g = [t \in SUBSET (1..n) |->
                             IF t = {} THEN scan ELSE Begin(g[t \ {Max(t)}], nodes[Max(t)], order)]
           g == CHOOSE h : Eqn(h)
           C == Scans
           step == [i \in 1..n |-> [s \in C |-> Begin(s, nodes[i], order)]]
<1>0. n \in Nat /\ DOMAIN nodes = 1..n /\ scan \in C
      /\ \A i \in 1..n : nodes[i] \in Drifters /\ state.nodes[nodes[i]] # "fresh"
    BY LenProperties, ElementOfSeq DEF QueueSet
<1>1. BeginAll(scan, nodes, order) = g[1..n]
    BY <1>0 DEF BeginAll, FoldLeft, MapThenFoldSet
<1>2. step \in [1..n -> [C -> C]]
    <2>1. \A i \in 1..n, s \in C : Begin(s, nodes[i], order) \in C
        BY <1>0, BeginIs DEF Visits
    <2> HIDE DEF C, n
    <2> QED BY <2>1
<1>3. \A t \in SUBSET (1..n) : t # {} => Max(t) \in t
    BY <1>0, MaxOf
<1> HIDE DEF n, step, C
<1>4. \E h : Eqn(h)
    <2>1. PICK h : Solves(h, n, C, step, scan)
        BY <1>0, <1>2, FoldSolved
    <2>2. \A t \in SUBSET (1..n) :
              h[t] = IF t = {} THEN scan ELSE Begin(h[t \ {Max(t)}], nodes[Max(t)], order)
        BY <1>3, <2>1 DEF Solves, step
    <2>3. Eqn(h)
        BY <2>1, <2>2 DEF Solves
    <2> QED BY <2>3
<1>5. Eqn(g)
    BY <1>4
<1> HIDE DEF g
<1>6. Tracks(g, n, C, step, scan)
    BY <1>3, <1>5 DEF Tracks, step
<1>7. PICK w : Walk(w, n, C, step, scan) /\ w[n] = g[1..n]
    BY <1>0, <1>2, <1>6, FoldWalked
<1>8. \A i \in 1..n : w[i] = Begin(w[i - 1], nodes[i], order)
    <2> TAKE i \in 1..n
    <2>1. w[i - 1] \in C /\ w[i] = step[i][w[i - 1]]
        BY <1>0, <1>7 DEF Walk
    <2> QED BY <2>1 DEF step
<1>9. Begins(w, scan, nodes, order)
    BY <1>7, <1>8 DEF Begins, Walk, n, C
<1> QED BY <1>1, <1>7, <1>9 DEF n

\* After phase 1 every node on the list is held back by budgets.
LEMMA ContinueAllIs ==
    ASSUME NEW scan \in Scans, NEW nodes \in Seq(Drifters), NEW order, Listing(order),
           \A m \in Node : scan.draining[m] # "no" => m \in QueueSet(nodes),
           NEW t, t = ContinueAll(scan, nodes, order)
    PROVE  t \in Scans /\ \A m \in Node : Settled(t, m)
<1> DEFINE n == Len(nodes)
           Ahead(i, m) == \E k \in (i + 1)..n : m = nodes[k]
<1>0. n \in Nat /\ \A i \in 1..n : nodes[i] \in Drifters
    BY LenProperties, ElementOfSeq
<1>1. PICK w : Continues(w, scan, nodes, order) /\ t = w[n]
    BY ContinueWalk
<1>2. w \in [0..n -> Scans] /\ w[0] = scan
      /\ \A i \in 1..n : w[i] = Continue(w[i - 1], nodes[i], order)
    BY <1>1 DEF Continues
<1> HIDE DEF n
<1> DEFINE P == {i \in 0..n : \A m \in Node : Settled(w[i], m) \/ Ahead(i, m)}
<1>3. 0 \in P
    <2> SUFFICES ASSUME NEW m \in Node, scan.draining[m] # "no" PROVE Ahead(0, m)
        BY <1>0, <1>2 DEF Settled
    <2>1. m \in QueueSet(nodes)
        OBVIOUS
    <2> QED BY <2>1 DEF QueueSet, n
<1>4. ASSUME NEW i \in 1..n, i - 1 \in P PROVE i \in P
    <2>1. i - 1 \in 0..n /\ \A m \in Node : Settled(w[i - 1], m) \/ Ahead(i - 1, m)
        BY <1>4
    <2>2. w[i - 1] \in Scans /\ nodes[i] \in Drifters /\ w[i] = Continue(w[i - 1], nodes[i], order)
        BY <1>0, <1>2, <2>1
    <2>3. Visits(w[i - 1], w[i], nodes[i]) /\ Settled(w[i], nodes[i])
        BY <2>2, ContinueIs
    <2>4. ASSUME NEW m \in Node, m # nodes[i] PROVE Settled(w[i], m) \/ Ahead(i, m)
        <3>1. CASE Settled(w[i - 1], m)
            BY <2>2, <2>3, <2>4, <3>1, SettledStays
        <3>2. CASE Ahead(i - 1, m)
            <4>1. PICK k \in (i - 1 + 1)..n : m = nodes[k]
                BY <3>2
            <4>2. k \in (i + 1)..n
                BY <1>0, <2>4, <4>1
            <4> QED BY <4>1, <4>2
        <3> QED BY <2>1, <3>1, <3>2
    <2> QED BY <1>0, <2>3, <2>4
<1> HIDE DEF P
<1>5. n \in P
    <2>1. \A i \in 1..n : i - 1 \in P => i \in P
        BY <1>4
    <2> QED BY <1>0, <1>3, <2>1, WalkInduction
<1>6. \A m \in Node : ~ Ahead(n, m)
    BY <1>0
<1> QED BY <1>0, <1>1, <1>2, <1>5, <1>6 DEF P

\* Phase 2 leaves it so, for its nodes are there when it comes to them.
LEMMA BeginAllIs ==
    ASSUME NEW scan \in Scans, \A m \in Node : Settled(scan, m),
           NEW nodes \in Seq(Drifters), NoDuplicates(nodes),
           \A m \in QueueSet(nodes) : LiveNode(scan.c, m),
           NEW order, Listing(order), NEW t, t = BeginAll(scan, nodes, order)
    PROVE  t \in Scans /\ \A m \in Node : Settled(t, m)
<1> DEFINE n == Len(nodes)
           There(s, i) == \A k \in (i + 1)..n : LiveNode(s.c, nodes[k])
<1>0. n \in Nat /\ \A i \in 1..n : nodes[i] \in Drifters /\ nodes[i] \in QueueSet(nodes)
    BY LenProperties, ElementOfSeq DEF QueueSet
<1>10. \A m \in QueueSet(nodes) : m \in Node /\ state.nodes[m] # "fresh"
    <2>1. Shrinks(state, scan.c)
        BY ScanIs
    <2> QED BY <2>1 DEF Shrinks, LiveNode
<1>1. PICK w : Begins(w, scan, nodes, order) /\ t = w[n]
    BY <1>10, BeginWalk
<1>2. w \in [0..n -> Scans] /\ w[0] = scan
      /\ \A i \in 1..n : w[i] = Begin(w[i - 1], nodes[i], order)
    BY <1>1 DEF Begins
<1>11. \A i, k \in 1..n : nodes[i] = nodes[k] => i = k
    BY DEF NoDuplicates
<1> HIDE DEF n
<1> DEFINE P == {i \in 0..n : There(w[i], i) /\ \A m \in Node : Settled(w[i], m)}
<1>3. 0 \in P
    <2>1. There(scan, 0)
        BY <1>0
    <2> QED BY <1>0, <1>2, <2>1
<1>4. ASSUME NEW i \in 1..n, i - 1 \in P PROVE i \in P
    <2>1. i - 1 \in 0..n /\ There(w[i - 1], i - 1) /\ \A m \in Node : Settled(w[i - 1], m)
        BY <1>4
    <2>2. /\ w[i - 1] \in Scans /\ nodes[i] \in Drifters /\ nodes[i] \in Node
          /\ state.nodes[nodes[i]] # "fresh" /\ w[i] = Begin(w[i - 1], nodes[i], order)
        BY <1>0, <1>2, <1>10, <2>1
    <2>3. LiveNode(w[i - 1].c, nodes[i])
        BY <1>0, <2>1
    <2>4. Visits(w[i - 1], w[i], nodes[i]) /\ Settled(w[i], nodes[i])
        BY <2>2, <2>3, BeginIs
    <2>5. \A m \in Node : Settled(w[i], m)
        <3> SUFFICES ASSUME NEW m \in Node, m # nodes[i] PROVE Settled(w[i], m)
            BY <2>4
        <3> QED BY <2>1, <2>2, <2>4, SettledStays
    <2>6. There(w[i], i)
        <3> SUFFICES ASSUME NEW k \in (i + 1)..n PROVE LiveNode(w[i].c, nodes[k])
            OBVIOUS
        <3>1. k \in 1..n /\ k # i /\ k \in (i - 1 + 1)..n
            BY <1>0
        <3>2. nodes[k] # nodes[i] /\ nodes[k] \in Node /\ LiveNode(w[i - 1].c, nodes[k])
            BY <1>0, <1>10, <1>11, <2>1, <3>1
        <3> QED BY <2>4, <3>2 DEF Visits, LiveNode
    <2> QED BY <1>0, <2>5, <2>6
<1> HIDE DEF P
<1>5. n \in P
    <2>1. \A i \in 1..n : i - 1 \in P => i \in P
        BY <1>4
    <2> QED BY <1>0, <1>3, <2>1, WalkInduction
<1> QED BY <1>0, <1>1, <1>2, <1>5 DEF P

\* The orders in which the pods of some nodes may be listed.
LEMMA PodOrderIs ==
    ASSUME Sound(state), NEW S \in SUBSET Node, NEW order \in PodOrders(S)
    PROVE  order \in Seq(Pod) /\ QueueSet(order) = UNION {state.podsOn[n] : n \in S}
<1> DEFINE U == UNION {state.podsOn[n] : n \in S}
<1>1. U \subseteq Pod
    BY DEF Sound, ClusterType
<1>2. order \in SetToSeqs(U)
    BY DEF PodOrders
<1> HIDE DEF U
<1>3. IsFiniteSet(U)
    BY <1>1, PodRanked, FS_Subset
<1>4. order \in Seq(U) /\ QueueSet(order) = U
    BY <1>2, <1>3, OrderOf
<1>5. order \in Seq(Pod)
    BY <1>1, <1>4, SeqOver
<1> QED BY <1>4, <1>5 DEF U

\* And those of one node.
LEMMA PodOrderOne ==
    ASSUME Sound(state), NEW n \in Node, NEW order \in PodOrders({n})
    PROVE  order \in Seq(Pod) /\ QueueSet(order) = state.podsOn[n]
<1> DEFINE N == {n}
<1>1. N \in SUBSET Node /\ UNION {state.podsOn[m] : m \in N} = state.podsOn[n] /\ order \in PodOrders(N)
    OBVIOUS
<1> HIDE DEF N
<1>2. order \in Seq(Pod) /\ QueueSet(order) = UNION {state.podsOn[m] : m \in N}
    BY <1>1, PodOrderIs
<1> QED BY <1>1, <1>2

\* The list of the handler has drifted nodes that were there before the run.
DrainListed ==
    /\ draining \in [Node -> DrainingState]
    /\ \A n \in Node : draining[n] # "no" => n \in Drifters

\* A whole scan.
LEMMA ScanOutcome ==
    ASSUME Sound(state), DrainListed, NEW arena \in SetToSeqs(InitialNodes),
           NEW order \in PodOrders({n \in LiveNodes : Drifted(n)}), NEW s, s = Scan(arena, order)
    PROVE  s \in Scans /\ \A n \in Node : Settled(s, n)
<1> DEFINE start == [c |-> state, draining |-> draining, out |-> {}, cordon |-> {}]
           Listed == {n \in Node : draining[n] # "no"}
           listed == InOrder(arena, Listed)
           first == ContinueAll(start, listed, order)
           found == InOrder(arena, Found(first))
<1>1. s = BeginAll(first, found, order)
    BY DEF Scan
<1>2. Listing(order)
    <2> DEFINE S == {n \in LiveNodes : Drifted(n)}
    <2>1. S \in SUBSET Node
        BY DEF LiveNodes
    <2> HIDE DEF S
    <2>2. order \in Seq(Pod) /\ QueueSet(order) = UNION {state.podsOn[n] : n \in S}
        BY <2>1, PodOrderIs DEF S
    <2> QED BY <2>2 DEF Listing, S, LiveNodes
<1>3. start \in Scans
    BY ShrinksSelf, ScanFields DEF DrainListed
<1>4. arena \in Seq(InitialNodes) /\ NoDuplicates(arena) /\ QueueSet(arena) = InitialNodes
    BY DrainsAssumption, OrderOf
<1>5. Listed \subseteq Drifters
    BY DEF DrainListed
<1>6. start.draining = draining
    OBVIOUS
<1> HIDE DEF start
<1>7. /\ listed \in Seq(Drifters)
      /\ \A m \in Node : start.draining[m] # "no" => m \in QueueSet(listed)
    <2>1. listed \in Seq(InitialNodes) /\ QueueSet(listed) = QueueSet(arena) \cap Listed
        BY <1>4, InOrderIs
    <2>2. QueueSet(listed) = Listed
        BY <1>4, <1>5, <2>1 DEF Drifters
    <2> HIDE DEF listed
    <2>3. listed \in Seq(Drifters)
        BY <1>5, <2>1, <2>2, SeqOver
    <2> QED BY <1>6, <2>2, <2>3
<1> HIDE DEF listed
<1>8. first \in Scans /\ \A m \in Node : Settled(first, m)
    BY <1>2, <1>3, <1>7, ContinueAllIs
<1> HIDE DEF first
<1>9. found \in Seq(Drifters) /\ NoDuplicates(found) /\ \A m \in QueueSet(found) : LiveNode(first.c, m)
    <2>1. /\ found \in Seq(InitialNodes) /\ NoDuplicates(found)
          /\ QueueSet(found) = QueueSet(arena) \cap Found(first)
        BY <1>4, InOrderIs
    <2>2. QueueSet(found) \subseteq Drifters
        BY <1>4, <2>1 DEF Drifters, Found
    <2>3. \A m \in QueueSet(found) : LiveNode(first.c, m)
        BY <2>1 DEF Found
    <2> HIDE DEF found
    <2>4. found \in Seq(Drifters)
        BY <2>1, <2>2, SeqOver
    <2> QED BY <2>1, <2>3, <2>4
<1> HIDE DEF found
<1> QED BY <1>1, <1>2, <1>8, <1>9, BeginAllIs

-----------------------------------------------------------------------------
(***************************************************************************)
(* The drain handler.                                                      *)
(***************************************************************************)
\* One pod of the list.
EvictIfAllowed(d, p) == IF Is(d, p, "Running") /\ Allows(d, p) THEN EvictPod(d, p) ELSE d

\* w[i] is the cluster after the first i pods.
EvictsInTurn(w, c, pods) ==
    /\ w \in [0..Len(pods) -> ClusterType]
    /\ w[0] = c
    /\ \A i \in 1..Len(pods) : w[i] = EvictIfAllowed(w[i - 1], pods[i])

\* The drain is a walk along its list.
LEMMA EvictOneByOneWalk ==
    ASSUME NEW c \in ClusterType, NEW pods \in Seq(Pod)
    PROVE  \E w : EvictsInTurn(w, c, pods) /\ EvictOneByOne(c, pods) = w[Len(pods)]
<1> DEFINE n == Len(pods)
           Eqn(g) == g = [t \in SUBSET (1..n) |->
                             IF t = {} THEN c ELSE EvictIfAllowed(g[t \ {Max(t)}], pods[Max(t)])]
           g == CHOOSE h : Eqn(h)
           C == ClusterType
           step == [i \in 1..n |-> [d \in C |-> EvictIfAllowed(d, pods[i])]]
<1>0. n \in Nat /\ DOMAIN pods = 1..n /\ c \in C /\ \A i \in 1..n : pods[i] \in Pod
    BY LenProperties, ElementOfSeq
<1>1. EvictOneByOne(c, pods) = g[1..n]
    BY <1>0 DEF EvictOneByOne, EvictIfAllowed, FoldLeft, MapThenFoldSet
<1>2. step \in [1..n -> [C -> C]]
    <2>1. \A i \in 1..n, d \in C : EvictIfAllowed(d, pods[i]) \in C
        BY <1>0, EvictPodType DEF EvictIfAllowed
    <2> HIDE DEF C, n
    <2> QED BY <2>1
<1>3. \A t \in SUBSET (1..n) : t # {} => Max(t) \in t
    BY <1>0, MaxOf
<1> HIDE DEF n, step, C
<1>4. \E h : Eqn(h)
    <2>1. PICK h : Solves(h, n, C, step, c)
        BY <1>0, <1>2, FoldSolved
    <2>2. \A t \in SUBSET (1..n) :
              h[t] = IF t = {} THEN c ELSE EvictIfAllowed(h[t \ {Max(t)}], pods[Max(t)])
        BY <1>3, <2>1 DEF Solves, step
    <2>3. Eqn(h)
        BY <2>1, <2>2 DEF Solves
    <2> QED BY <2>3
<1>5. Eqn(g)
    BY <1>4
<1> HIDE DEF g
<1>6. Tracks(g, n, C, step, c)
    BY <1>3, <1>5 DEF Tracks, step
<1>7. PICK w : Walk(w, n, C, step, c) /\ w[n] = g[1..n]
    BY <1>0, <1>2, <1>6, FoldWalked
<1>8. \A i \in 1..n : w[i] = EvictIfAllowed(w[i - 1], pods[i])
    <2> TAKE i \in 1..n
    <2>1. w[i - 1] \in C /\ w[i] = step[i][w[i - 1]]
        BY <1>0, <1>7 DEF Walk
    <2> QED BY <2>1 DEF step
<1>9. EvictsInTurn(w, c, pods)
    BY <1>7, <1>8 DEF EvictsInTurn, Walk, n, C
<1> QED BY <1>1, <1>7, <1>9 DEF n

\* From c to d no budget falls below its minimum: it stays at it or keeps what it had.
KeepsBudgets(c, d) ==
    \A b \in Budgets : Running(d, b) >= MinAvailable[b] \/ Running(d, b) = Running(c, b)

Budgeted(p) == \E b \in Budgets : p \in Selected[b]

\* One pod of the list: a budget that lets it go has one to spare, and it goes if no
\* budget is about it.
LEMMA EvictIfAllowedIs ==
    ASSUME NEW c, Sound(c), NEW p \in Pod, NEW d, d = EvictIfAllowed(c, p)
    PROVE  /\ Shrinks(c, d) /\ d.nodes = c.nodes
           /\ KeepsBudgets(c, d)
           /\ ~ Budgeted(p) => ~ Is(d, p, "Running")
<1>1. CASE ~ (Is(c, p, "Running") /\ Allows(c, p))
    <2>1. d = c
        BY <1>1 DEF EvictIfAllowed
    <2>2. ~ Budgeted(p) => Allows(c, p)
        BY DEF Budgeted, Allows
    <2> QED BY <1>1, <2>1, <2>2, ShrinksSelf DEF KeepsBudgets
<1>2. CASE Is(c, p, "Running") /\ Allows(c, p)
    <2>1. d = EvictPod(c, p)
        BY <1>2 DEF EvictIfAllowed
    <2>2. Kept(c, d) /\ EvictedFrom(c, d, {p})
        BY <2>1, EvictPodKept, EvictPodEffect
    <2>3. Shrinks(c, d) /\ d.nodes = c.nodes
        BY <2>2, EvictedShrinks
    <2>4. ASSUME NEW b \in Budgets
          PROVE  Running(d, b) >= MinAvailable[b] \/ Running(d, b) = Running(c, b)
        <3>1. Running(d, b) = IF p \in Selected[b] THEN Running(c, b) - 1 ELSE Running(c, b)
            BY <1>2, <2>2, RunningEvicted
        <3>2. p \in Selected[b] => Running(c, b) > MinAvailable[b]
            BY <1>2 DEF Allows
        <3>3. Running(c, b) \in Nat /\ MinAvailable[b] \in Nat
            BY RunningIs
        <3> QED BY <3>1, <3>2, <3>3
    <2>5. ~ Is(d, p, "Running")
        BY <2>2 DEF EvictedFrom
    <2> QED BY <2>3, <2>4, <2>5 DEF KeepsBudgets
<1> QED BY <1>1, <1>2

\* The budgets are kept along the way.
LEMMA BudgetsChain ==
    ASSUME NEW c, NEW d, NEW e, KeepsBudgets(c, d), KeepsBudgets(d, e)
    PROVE  KeepsBudgets(c, e)
<1> SUFFICES ASSUME NEW b \in Budgets
             PROVE  Running(e, b) >= MinAvailable[b] \/ Running(e, b) = Running(c, b)
    BY DEF KeepsBudgets
<1>1. /\ Running(d, b) >= MinAvailable[b] \/ Running(d, b) = Running(c, b)
      /\ Running(e, b) >= MinAvailable[b] \/ Running(e, b) = Running(d, b)
    BY DEF KeepsBudgets
<1> QED BY <1>1

\* The whole drain.
LEMMA EvictOneByOneIs ==
    ASSUME NEW c, Sound(c), NEW pods \in Seq(Pod), NEW d, d = EvictOneByOne(c, pods)
    PROVE  /\ Shrinks(c, d) /\ d.nodes = c.nodes
           /\ KeepsBudgets(c, d)
           /\ \A p \in QueueSet(pods) : ~ Budgeted(p) => ~ Is(d, p, "Running")
<1> DEFINE n == Len(pods)
           Gone(e, i) == \A k \in 1..i : ~ Budgeted(pods[k]) => ~ Is(e, pods[k], "Running")
<1>0. n \in Nat /\ \A i \in 1..n : pods[i] \in Pod
    BY LenProperties, ElementOfSeq
<1>1. PICK w : EvictsInTurn(w, c, pods) /\ d = w[n]
    BY EvictOneByOneWalk DEF Sound
<1>2. w[0] = c /\ \A i \in 1..n : w[i] = EvictIfAllowed(w[i - 1], pods[i])
    BY <1>1 DEF EvictsInTurn
<1> HIDE DEF n
<1> DEFINE P == {i \in 0..n : /\ Shrinks(c, w[i]) /\ w[i].nodes = c.nodes
                              /\ KeepsBudgets(c, w[i]) /\ Gone(w[i], i)}
<1>3. 0 \in P
    <2>1. KeepsBudgets(c, c)
        BY DEF KeepsBudgets
    <2>2. Gone(c, 0)
        OBVIOUS
    <2> QED BY <1>0, <1>2, <2>1, <2>2, ShrinksSelf
<1>4. ASSUME NEW i \in 1..n, i - 1 \in P PROVE i \in P
    <2>1. /\ Shrinks(c, w[i - 1]) /\ w[i - 1].nodes = c.nodes
          /\ KeepsBudgets(c, w[i - 1]) /\ Gone(w[i - 1], i - 1)
        BY <1>4
    <2>2. Sound(w[i - 1]) /\ pods[i] \in Pod /\ w[i] = EvictIfAllowed(w[i - 1], pods[i])
        BY <1>0, <1>2, <2>1 DEF Shrinks, Kept
    <2>3. /\ Shrinks(w[i - 1], w[i]) /\ w[i].nodes = w[i - 1].nodes
          /\ KeepsBudgets(w[i - 1], w[i])
          /\ ~ Budgeted(pods[i]) => ~ Is(w[i], pods[i], "Running")
        BY <2>2, EvictIfAllowedIs
    <2>4. Shrinks(c, w[i]) /\ w[i].nodes = c.nodes /\ KeepsBudgets(c, w[i])
        BY <2>1, <2>3, ShrinksChain, BudgetsChain
    <2>5. Gone(w[i], i)
        <3> SUFFICES ASSUME NEW k \in 1..i, ~ Budgeted(pods[k]), k # i
                     PROVE  ~ Is(w[i], pods[k], "Running")
            BY <2>3
        <3>1. k \in 1..(i - 1) /\ k \in 1..n
            BY <1>0
        <3>2. ~ Is(w[i - 1], pods[k], "Running") /\ pods[k] \in Pod
            BY <1>0, <2>1, <3>1
        <3> QED BY <2>3, <3>2 DEF Shrinks
    <2> QED BY <1>0, <2>4, <2>5
<1> HIDE DEF P
<1>5. n \in P
    <2>1. \A i \in 1..n : i - 1 \in P => i \in P
        BY <1>4
    <2> QED BY <1>0, <1>3, <2>1, WalkInduction
<1>6. /\ Shrinks(c, w[n]) /\ w[n].nodes = c.nodes
      /\ KeepsBudgets(c, w[n]) /\ Gone(w[n], n)
    BY <1>5 DEF P
<1> QED BY <1>1, <1>6 DEF QueueSet, n

-----------------------------------------------------------------------------
(***************************************************************************)
(* The inductive invariant: the cluster is sound, and what is to come of   *)
(* the events on the queue is known for every node that is still there.    *)
(***************************************************************************)
Kinds == {"NodeReady", "NodeCordoned", "NodeDrained", "SpotInterruption", "NodeTerminated"}

\* What a termination of node n can find on it: nothing on a node that a spot interruption
\* has emptied and closed, else what a drain has left on a node that a plan has cordoned.
Doomed(c, r, k, ev, n) ==
    \/ ~ r[n] /\ On("NodeReady", n) \notin ev /\ c.podsOn[n] = {}
    \/ k[n] /\ n \in Consolidated /\ \A p \in c.podsOn[n] : p \in Daemon \/ Budgeted(p)

\* What the events say of node n, in cluster c where r are ready and k cordoned: a node
\* that was never added has none, one that is to be drained is cordoned, one that is to be
\* interrupted was ready before, and one that is to be terminated is doomed.
Foreseen(c, r, k, ev, n) ==
    /\ c.nodes[n] = "fresh" => \A kind \in Kinds : On(kind, n) \notin ev
    /\ c.nodes[n] = "live" =>
          /\ On("NodeDrained", n) \in ev => k[n] /\ n \in Consolidated
          /\ On("SpotInterruption", n) \in ev => On("NodeReady", n) \notin ev
          /\ On("NodeTerminated", n) \in ev => Doomed(c, r, k, ev, n)

IInv ==
    /\ Sound(state) /\ QueueExact(state)
    /\ ready \in [Node -> BOOLEAN] /\ cordoned \in [Node -> BOOLEAN]
    /\ DrainListed
    /\ \A n \in Node : Foreseen(state, ready, cordoned, events, n)

\* Events are the same if their kinds and their nodes are, and no loop is one about a node.
LEMMA OnIs ==
    /\ \A i, j \in Kinds, n, m \in Node : On(i, n) = On(j, m) <=> i = j /\ n = m
    /\ \A i \in Kinds, n \in Node : On(i, n) # Loop /\ On(i, n) # ScanLoop
<1>1. \A i, n : On(i, n).kind = i /\ On(i, n).node = n
    BY DEF On
<1>2. Loop.kind = "KarpenterProvisioningLoop" /\ ScanLoop.kind = "KarpenterConsolidationLoop"
    BY DEF Loop, ScanLoop
<1>3. "KarpenterProvisioningLoop" \notin Kinds /\ "KarpenterConsolidationLoop" \notin Kinds
    BY DEF Kinds
<1> QED BY <1>1, <1>2, <1>3

\* What is known of a node stays known when its pods only go (those of a node that takes
\* new pods may come), it neither becomes ready nor loses its cordon, and no event on it
\* is new but that it is cordoned.
LEMMA ForeseenStays ==
    ASSUME NEW c, NEW r, NEW k, NEW ev, NEW n \in Node, Foreseen(c, r, k, ev, n),
           NEW d, NEW r2, NEW k2, NEW ev2,
           d.nodes[n] = c.nodes[n] \/ (c.nodes[n] = "live" /\ d.nodes[n] = "gone"),
           d.nodes[n] = "live" /\ (~ r[n] \/ k[n]) => d.podsOn[n] \subseteq c.podsOn[n],
           r2[n] => r[n], k[n] => k2[n],
           \A kind \in Kinds : On(kind, n) \in ev2 =>
              On(kind, n) \in ev \/ (kind = "NodeCordoned" /\ c.nodes[n] # "fresh")
    PROVE  Foreseen(d, r2, k2, ev2, n)
<1>1. /\ On("NodeReady", n) \in ev2 => On("NodeReady", n) \in ev
      /\ On("NodeDrained", n) \in ev2 => On("NodeDrained", n) \in ev
      /\ On("SpotInterruption", n) \in ev2 => On("SpotInterruption", n) \in ev
      /\ On("NodeTerminated", n) \in ev2 => On("NodeTerminated", n) \in ev
    BY DEF Kinds
<1>2. d.nodes[n] = "fresh" => \A kind \in Kinds : On(kind, n) \notin ev2
    BY DEF Foreseen
<1>3. ASSUME d.nodes[n] = "live", On("NodeTerminated", n) \in ev2 PROVE Doomed(d, r2, k2, ev2, n)
    <2>1. Doomed(c, r, k, ev, n)
        BY <1>1, <1>3 DEF Foreseen
    <2> QED BY <1>1, <1>3, <2>1 DEF Doomed
<1> QED BY <1>1, <1>2, <1>3 DEF Foreseen

-----------------------------------------------------------------------------
(***************************************************************************)
(* The start.                                                              *)
(***************************************************************************)
\* w[i] is the cluster after the first i submissions.
Submits(w, c, pods) ==
    /\ w \in [0..Len(pods) -> ClusterType]
    /\ w[0] = c
    /\ \A i \in 1..Len(pods) : w[i] = SubmitPod(w[i - 1], pods[i], Size)

\* submit_pod keeps the shape of the cluster.
LEMMA SubmitPodType ==
    ASSUME NEW c \in ClusterType, NEW p \in Pod
    PROVE  SubmitPod(c, p, Size) \in ClusterType
<1> DEFINE d == SubmitPod(c, p, Size)
<1>0. Size \in Nat
    BY DrainsAssumption
<1>1. d = [nodes |-> c.nodes, allocatable |-> c.allocatable, allocated |-> c.allocated,
           podsOn |-> c.podsOn, pods |-> [c.pods EXCEPT ![p] = "live"],
           phase |-> [c.phase EXCEPT ![p] = "Pending"],
           node |-> [c.node EXCEPT ![p] = NoNode],
           requests |-> [c.requests EXCEPT ![p] = Size],
           resize_status |-> c.resize_status, pending_queue |-> Append(c.pending_queue, p)]
    BY <1>0, SubmitPodFields
<1>2. /\ [c.pods EXCEPT ![p] = "live"] \in [Pod -> Life]
      /\ [c.phase EXCEPT ![p] = "Pending"] \in [Pod -> PodPhase]
      /\ [c.node EXCEPT ![p] = NoNode] \in [Pod -> Node \cup {NoNode}]
      /\ [c.requests EXCEPT ![p] = Size] \in [Pod -> Nat]
      /\ Append(c.pending_queue, p) \in Seq(Pod)
    BY <1>0, AppendProperties DEF ClusterType, Life, PodPhase
<1> HIDE DEF d
<1>3. d \in ClusterType
    BY <1>1, <1>2, Fields DEF ClusterType
<1> QED BY <1>3 DEF d

\* The submissions before the run are a walk along their order.
LEMMA SubmitWalk ==
    ASSUME NEW c \in ClusterType, NEW pods \in Seq(Pod)
    PROVE  \E w : Submits(w, c, pods) /\ SubmitAll(c, pods) = w[Len(pods)]
<1> DEFINE n == Len(pods)
           Eqn(g) == g = [t \in SUBSET (1..n) |->
                             IF t = {} THEN c ELSE SubmitPod(g[t \ {Max(t)}], pods[Max(t)], Size)]
           g == CHOOSE h : Eqn(h)
           C == ClusterType
           step == [i \in 1..n |-> [d \in C |-> SubmitPod(d, pods[i], Size)]]
<1>0. n \in Nat /\ DOMAIN pods = 1..n /\ c \in C /\ \A i \in 1..n : pods[i] \in Pod
    BY LenProperties, ElementOfSeq
<1>1. SubmitAll(c, pods) = g[1..n]
    BY <1>0 DEF SubmitAll, FoldLeft, MapThenFoldSet
<1>2. step \in [1..n -> [C -> C]]
    <2>1. \A i \in 1..n, d \in C : SubmitPod(d, pods[i], Size) \in C
        BY <1>0, SubmitPodType
    <2> HIDE DEF C, n
    <2> QED BY <2>1
<1>3. \A t \in SUBSET (1..n) : t # {} => Max(t) \in t
    BY <1>0, MaxOf
<1> HIDE DEF n, step, C
<1>4. \E h : Eqn(h)
    <2>1. PICK h : Solves(h, n, C, step, c)
        BY <1>0, <1>2, FoldSolved
    <2>2. \A t \in SUBSET (1..n) :
              h[t] = IF t = {} THEN c ELSE SubmitPod(h[t \ {Max(t)}], pods[Max(t)], Size)
        BY <1>3, <2>1 DEF Solves, step
    <2>3. Eqn(h)
        BY <2>1, <2>2 DEF Solves
    <2> QED BY <2>3
<1>5. Eqn(g)
    BY <1>4
<1> HIDE DEF g
<1>6. Tracks(g, n, C, step, c)
    BY <1>3, <1>5 DEF Tracks, step
<1>7. PICK w : Walk(w, n, C, step, c) /\ w[n] = g[1..n]
    BY <1>0, <1>2, <1>6, FoldWalked
<1>8. \A i \in 1..n : w[i] = SubmitPod(w[i - 1], pods[i], Size)
    <2> TAKE i \in 1..n
    <2>1. w[i - 1] \in C /\ w[i] = step[i][w[i - 1]]
        BY <1>0, <1>7 DEF Walk
    <2> QED BY <2>1 DEF step
<1>9. Submits(w, c, pods)
    BY <1>7, <1>8 DEF Submits, Walk, n, C
<1> QED BY <1>1, <1>7, <1>9 DEF n

\* Pods that are all new leave a sound cluster.
LEMMA SubmitAllIs ==
    ASSUME NEW c, Sound(c), QueueExact(c), NEW pods \in Seq(Pod), NoDuplicates(pods),
           \A p \in QueueSet(pods) : c.pods[p] = "fresh", NEW d, d = SubmitAll(c, pods)
    PROVE  Sound(d) /\ QueueExact(d) /\ d.nodes = c.nodes
<1> DEFINE n == Len(pods)
           New(e, i) == \A k \in (i + 1)..n : e.pods[pods[k]] = "fresh"
<1>0. /\ n \in Nat /\ Size \in Nat /\ \A i \in 1..n : pods[i] \in Pod /\ c.pods[pods[i]] = "fresh"
      /\ \A i, k \in 1..n : pods[i] = pods[k] => i = k
    BY LenProperties, ElementOfSeq, DrainsAssumption DEF QueueSet, NoDuplicates
<1>1. PICK w : Submits(w, c, pods) /\ d = w[n]
    BY SubmitWalk DEF Sound
<1>2. w[0] = c /\ \A i \in 1..n : w[i] = SubmitPod(w[i - 1], pods[i], Size)
    BY <1>1 DEF Submits
<1> HIDE DEF n
<1> DEFINE P == {i \in 0..n : /\ Sound(w[i]) /\ QueueExact(w[i]) /\ w[i].nodes = c.nodes
                              /\ New(w[i], i)}
<1>3. 0 \in P
    <2>1. New(c, 0)
        BY <1>0
    <2> QED BY <1>0, <1>2, <2>1
<1>4. ASSUME NEW i \in 1..n, i - 1 \in P PROVE i \in P
    <2>1. /\ Sound(w[i - 1]) /\ QueueExact(w[i - 1]) /\ w[i - 1].nodes = c.nodes
          /\ New(w[i - 1], i - 1) /\ w[i - 1] \in ClusterType
        BY <1>4 DEF Sound
    <2>2. pods[i] \in Pod /\ w[i] = SubmitPod(w[i - 1], pods[i], Size)
        BY <1>0, <1>2
    <2>3. w[i - 1].pods[pods[i]] = "fresh"
        BY <1>0, <2>1
    <2>4. Sound(w[i]) /\ QueueExact(w[i])
        BY <1>0, <2>1, <2>2, <2>3, SubmitPodKept DEF Kept
    <2>5. /\ w[i].nodes = w[i - 1].nodes
          /\ \A q \in Pod \ {pods[i]} : w[i].pods[q] = w[i - 1].pods[q]
        BY <1>0, <2>1, <2>2, SubmitPodEffect
    <2>6. New(w[i], i)
        <3> SUFFICES ASSUME NEW k \in (i + 1)..n PROVE w[i].pods[pods[k]] = "fresh"
            OBVIOUS
        <3>1. k \in 1..n /\ k # i /\ k \in (i - 1 + 1)..n
            BY <1>0
        <3>2. pods[k] \in Pod \ {pods[i]} /\ w[i - 1].pods[pods[k]] = "fresh"
            BY <1>0, <2>1, <3>1
        <3> QED BY <2>5, <3>2
    <2> QED BY <1>0, <2>1, <2>4, <2>5, <2>6
<1> HIDE DEF P
<1>5. n \in P
    <2>1. \A i \in 1..n : i - 1 \in P => i \in P
        BY <1>4
    <2> QED BY <1>0, <1>3, <2>1, WalkInduction
<1> QED BY <1>1, <1>5 DEF P

\* The nodes before the run.
LEMMA InitialClusterIs ==
    /\ Sound(InitialCluster) /\ QueueExact(InitialCluster)
    /\ InitialCluster.nodes = [n \in Node |-> IF n \in InitialNodes THEN "live" ELSE "fresh"]
    /\ \A p \in Pod : InitialCluster.pods[p] = "fresh"
<1> DEFINE c == InitialCluster
           a == [n \in Node |-> IF n \in InitialNodes THEN "live" ELSE "fresh"]
           b == [n \in Node |-> IF n \in InitialNodes THEN Capacity ELSE 0]
<1>1. c = [EmptyCluster EXCEPT !.nodes = a, !.allocatable = b]
    BY DEF InitialCluster
<1>2. a \in [Node -> Life] /\ b \in [Node -> Nat]
    BY DrainsAssumption DEF Life
<1>3. \A n \in Node : a[n] = IF n \in InitialNodes THEN "live" ELSE "fresh"
    OBVIOUS
<1> HIDE DEF a, b, c
<1>4. c = [nodes |-> a, allocatable |-> b,
           allocated |-> [n \in Node |-> 0], podsOn |-> [n \in Node |-> {}],
           pods |-> [p \in Pod |-> "fresh"], phase |-> [p \in Pod |-> "Pending"],
           node |-> [p \in Pod |-> NoNode], requests |-> [p \in Pod |-> 0],
           resize_status |-> [p \in Pod |-> "None"], pending_queue |-> <<>>]
    BY <1>1 DEF EmptyCluster
<1>5. c \in ClusterType
    BY <1>4, <1>2, EmptySeq, Fields DEF Life, PodPhase, ResizeStatus
<1>6. FiniteLists(c)
    BY <1>4, FS_EmptySet DEF FiniteLists
<1>7. AllocationExact(c)
    <2> SUFFICES ASSUME NEW n \in Node PROVE c.allocated[n] = Sum(c.requests, c.podsOn[n])
        BY AllocationIs DEF Booked
    <2>1. c.allocated[n] = 0 /\ c.podsOn[n] = {}
        BY <1>4
    <2> QED BY <2>1, SumEmpty, Zenon
<1>8. Sound(c) /\ QueueExact(c)
    BY <1>4, <1>5, <1>6, <1>7, EmptySeq
        DEF Sound, QueueExact, QueueSet, NoDuplicates, LinksAgree, Placed, Is, LivePod
<1> QED BY <1>4, <1>8 DEF a, c

\* The invariant holds at the start.
LEMMA InitInv == Init => IInv
<1> SUFFICES ASSUME Init PROVE IInv
    OBVIOUS
<1>1. PICK order \in SetToSeqs(Work) : state = SubmitAll(InitialCluster, order)
    BY DEF Init
<1>2. order \in Seq(Work) /\ NoDuplicates(order) /\ QueueSet(order) = Work
    <2>1. IsFiniteSet(Work)
        BY PodRanked, FS_Subset DEF Work
    <2> QED BY <2>1, OrderOf
<1>3. order \in Seq(Pod)
    BY <1>2, SeqOver DEF Work
<1>4. Sound(state) /\ QueueExact(state) /\ state.nodes = InitialCluster.nodes
    BY <1>1, <1>2, <1>3, InitialClusterIs, SubmitAllIs DEF Work
<1>5. state.nodes = [n \in Node |-> IF n \in InitialNodes THEN "live" ELSE "fresh"]
    BY <1>4, InitialClusterIs
<1>6. DrainListed
    BY DEF Init, DrainListed, DrainingState
<1>7. \A n \in Node : Foreseen(state, ready, cordoned, events, n)
    <2> SUFFICES ASSUME NEW n \in Node PROVE Foreseen(state, ready, cordoned, events, n)
        OBVIOUS
    <2>1. events = {On("NodeReady", m) : m \in InitialNodes} \cup {Loop, ScanLoop}
        BY DEF Init
    <2>2. InitialNodes \subseteq Node
        BY DrainsAssumption
    <2>3. \A kind \in Kinds : On(kind, n) \in events => kind = "NodeReady" /\ n \in InitialNodes
        <3>1. "NodeReady" \in Kinds
            BY DEF Kinds
        <3> QED BY <2>1, <2>2, <3>1, OnIs
    <2>4. /\ On("NodeDrained", n) \notin events /\ On("SpotInterruption", n) \notin events
          /\ On("NodeTerminated", n) \notin events
        BY <2>3 DEF Kinds
    <2> QED BY <1>5, <2>3, <2>4 DEF Foreseen
<1>8. ready \in [Node -> BOOLEAN] /\ cordoned \in [Node -> BOOLEAN]
    BY DEF Init
<1> QED BY <1>4, <1>6, <1>7, <1>8 DEF IInv

-----------------------------------------------------------------------------
(***************************************************************************)
(* The steps.  Each keeps the invariant, and all but the termination leave *)
(* no pod behind.                                                          *)
(***************************************************************************)
NoNewGhosts == \A p \in Pod : Ghost(state', p) => Ghost(state, p)

\* The invariant after a step, from its parts.
LEMMA InvNext ==
    ASSUME Sound(state'), QueueExact(state'),
           ready' \in [Node -> BOOLEAN], cordoned' \in [Node -> BOOLEAN],
           draining' \in [Node -> DrainingState], \A n \in Node : draining'[n] # "no" => n \in Drifters,
           \A n \in Node : Foreseen(state', ready', cordoned', events', n)
    PROVE  IInv'
BY DEF IInv, DrainListed

\* Nothing is to be known of a node that is gone.
LEMMA ForeseenGone ==
    ASSUME NEW c, NEW n, c.nodes[n] = "gone", NEW r, NEW k, NEW ev
    PROVE  Foreseen(c, r, k, ev, n)
BY DEF Foreseen

\* Where pods only go and no node changes its condition, all stays as foreseen but for the
\* nodes on which there is a new event.
LEMMA ForeseenElsewhere ==
    ASSUME IInv, Shrinks(state, state'), NEW n \in Node,
           ready'[n] = ready[n], cordoned'[n] = cordoned[n],
           \A kind \in Kinds : On(kind, n) \in events' =>
              On(kind, n) \in events \/ (kind = "NodeCordoned" /\ state.nodes[n] # "fresh")
    PROVE  Foreseen(state', ready', cordoned', events', n)
<1>1. Foreseen(state, ready, cordoned, events, n)
    BY DEF IInv
<1>2. /\ state'.nodes[n] = state.nodes[n] \/ (state.nodes[n] = "live" /\ state'.nodes[n] = "gone")
      /\ state'.nodes[n] = "live" => state'.podsOn[n] \subseteq state.podsOn[n]
    BY DEF Shrinks
<1> QED BY <1>1, <1>2, ForeseenStays

\* A node with an event was added.
LEMMA EventAdded ==
    ASSUME IInv, NEW n \in Node, NEW kind \in Kinds, On(kind, n) \in events
    PROVE  state.nodes[n] = "live" \/ state.nodes[n] = "gone"
<1>1. state.nodes[n] # "fresh"
    BY DEF IInv, Foreseen
<1>2. state.nodes[n] \in Life
    BY DEF IInv, Sound, ClusterType
<1> QED BY <1>1, <1>2 DEF Life

\* KarpenterConsolidationLoop: besides, what stays on the list is held back by budgets.
LEMMA DriftScanInv ==
    ASSUME IInv, DriftScan
    PROVE  /\ IInv' /\ NoNewGhosts
           /\ \A n \in Node : draining'[n] # "no" => Held(state', n)
<1>1. PICK arena \in SetToSeqs(InitialNodes), order \in PodOrders({n \in LiveNodes : Drifted(n)}) :
          /\ state' = Scan(arena, order).c /\ draining' = Scan(arena, order).draining
          /\ events' = (events \ {ScanLoop})
                       \cup {On("NodeTerminated", n) : n \in Scan(arena, order).out}
                       \cup {On("NodeCordoned", n) : n \in Scan(arena, order).cordon}
                       \cup (IF Scan(arena, order).out \cup Scan(arena, order).cordon = {}
                             THEN {} ELSE {Loop})
    BY DEF DriftScan
<1> DEFINE s == Scan(arena, order)
<1>2. s \in Scans /\ \A n \in Node : Settled(s, n)
    <2>1. Sound(state) /\ DrainListed
        BY DEF IInv
    <2> QED BY <2>1, ScanOutcome
<1>3. /\ state' = s.c /\ draining' = s.draining
      /\ events' = (events \ {ScanLoop}) \cup {On("NodeTerminated", n) : n \in s.out}
                   \cup {On("NodeCordoned", n) : n \in s.cordon}
                   \cup (IF s.out \cup s.cordon = {} THEN {} ELSE {Loop})
    BY <1>1
<1> HIDE DEF s
<1>4. /\ Shrinks(state, s.c)
      /\ s.draining \in [Node -> DrainingState]
      /\ \A n \in Node : s.draining[n] # "no" => n \in Drifters
      /\ s.out \in SUBSET Node /\ \A n \in s.out : s.c.nodes[n] = "gone"
      /\ s.cordon \in SUBSET Node /\ \A n \in s.cordon : state.nodes[n] # "fresh"
    BY <1>2, ScanIs
<1>5. ready' = ready /\ cordoned' = cordoned
    BY DEF DriftScan
<1>6. \A n \in Node, kind \in Kinds : On(kind, n) \in events' =>
          \/ On(kind, n) \in events
          \/ kind = "NodeTerminated" /\ n \in s.out
          \/ kind = "NodeCordoned" /\ n \in s.cordon
    <2>1. "NodeTerminated" \in Kinds /\ "NodeCordoned" \in Kinds
        BY DEF Kinds
    <2> QED BY <1>3, <1>4, <2>1, OnIs
<1>7. ASSUME NEW n \in Node PROVE Foreseen(state', ready', cordoned', events', n)
    <2>1. CASE n \in s.out
        BY <1>3, <1>4, <2>1, ForeseenGone
    <2>2. CASE n \notin s.out
        <3>1. \A kind \in Kinds : On(kind, n) \in events' =>
                  On(kind, n) \in events \/ (kind = "NodeCordoned" /\ state.nodes[n] # "fresh")
            BY <1>4, <1>6, <2>2
        <3>2. Shrinks(state, state') /\ ready'[n] = ready[n] /\ cordoned'[n] = cordoned[n]
            BY <1>3, <1>4, <1>5
        <3> QED BY <3>1, <3>2, ForeseenElsewhere
    <2> QED BY <2>1, <2>2
<1>8. Sound(state') /\ QueueExact(state')
    BY <1>3, <1>4 DEF IInv, Shrinks, Kept
<1>9. IInv'
    BY <1>3, <1>4, <1>5, <1>7, <1>8, InvNext DEF IInv
<1>10. NoNewGhosts
    BY <1>3, <1>4 DEF Shrinks, NoNewGhosts
<1>11. \A n \in Node : draining'[n] # "no" => Held(state', n)
    BY <1>2, <1>3 DEF Settled
<1> QED BY <1>9, <1>10, <1>11

\* The steps that leave the cluster and its nodes alone and add no event about a node.
LEMMA QuietInv ==
    ASSUME IInv, state' = state, ready' = ready, cordoned' = cordoned,
           draining' \in [Node -> DrainingState], \A n \in Node : draining'[n] # "no" => n \in Drifters,
           \A n \in Node, kind \in Kinds : On(kind, n) \in events' => On(kind, n) \in events
    PROVE  IInv' /\ NoNewGhosts
<1>1. Shrinks(state, state') /\ Sound(state') /\ QueueExact(state')
    BY ShrinksSelf DEF IInv
<1>2. ASSUME NEW n \in Node PROVE Foreseen(state', ready', cordoned', events', n)
    BY <1>1, ForeseenElsewhere
<1>3. IInv'
    BY <1>1, <1>2, InvNext DEF IInv
<1> QED BY <1>3 DEF NoNewGhosts

\* A new scan is due.
LEMMA ScanIntervalPassesInv ==
    ASSUME IInv, ScanIntervalPasses
    PROVE  IInv' /\ NoNewGhosts
<1>1. \A n \in Node, kind \in Kinds : On(kind, n) \in events' => On(kind, n) \in events
    BY OnIs DEF ScanIntervalPasses
<1>2. draining' \in [Node -> DrainingState] /\ \A n \in Node : draining'[n] # "no" => n \in Drifters
    BY DEF ScanIntervalPasses, IInv, DrainListed
<1>3. state' = state /\ ready' = ready /\ cordoned' = cordoned
    BY DEF ScanIntervalPasses
<1> QED BY <1>1, <1>2, <1>3, QuietInv

\* The deadline of a drain is over.
LEMMA DeadlinePassesInv ==
    ASSUME IInv, NEW n \in Node, DeadlinePasses(n)
    PROVE  IInv' /\ NoNewGhosts
<1>1. events' = events /\ state' = state /\ ready' = ready /\ cordoned' = cordoned
    BY DEF DeadlinePasses
<1>2. draining' \in [Node -> DrainingState] /\ \A m \in Node : draining'[m] # "no" => m \in Drifters
    BY DEF DeadlinePasses, IInv, DrainListed, DrainingState
<1> QED BY <1>1, <1>2, QuietInv

\* A pass: it puts pods on the nodes that are up alone.
LEMMA PassIs ==
    ASSUME IInv, NEW r \in [Node -> BOOLEAN],
           NEW c \in SchedulePendingFrom(state, Up(state, r), state.pending_queue)
    PROVE  /\ Sound(c) /\ QueueExact(c)
           /\ c.nodes = state.nodes /\ c.pods = state.pods
           /\ \A n \in Node : state.nodes[n] = "live" /\ (~ r[n] \/ cordoned[n]) =>
                 c.podsOn[n] \subseteq state.podsOn[n]
           /\ \A p \in Pod : Ghost(c, p) => Ghost(state, p)
<1> DEFINE up == Up(state, r)
           q == state.pending_queue
<1>1. up \in SUBSET Node /\ \A n \in Node : ~ r[n] \/ cordoned[n] => n \notin up
    BY DEF Up
<1>2. q \in Seq(Pod) /\ Sound(state)
    BY DEF IInv, Sound, ClusterType
<1>3. QueueSet(q) \subseteq Pod
    BY <1>2, LenProperties, ElementOfSeq DEF QueueSet
<1> HIDE DEF up, q
<1>4. c \in SchedulePendingFrom(state, up, q)
    BY DEF up, q
<1>5. PassedTo(state, c, Pod, QueueSet(q), up)
    BY <1>1, <1>2, <1>3, <1>4, PodRanked, PassOutcome
<1> QED BY <1>1, <1>5 DEF PassedTo, Kept, SameFrame, IInv

\* KarpenterProvisioningLoop.
LEMMA KarpenterProvisioningLoopInv ==
    ASSUME IInv, KarpenterProvisioningLoop
    PROVE  IInv' /\ NoNewGhosts
<1>1. /\ state' \in SchedulePendingFrom(state, Up(state, ready), state.pending_queue)
      /\ events' \subseteq events
      /\ ready' = ready /\ cordoned' = cordoned /\ draining' = draining
    BY DEF KarpenterProvisioningLoop
<1>2. ready \in [Node -> BOOLEAN]
    BY DEF IInv
<1>3. /\ Sound(state') /\ QueueExact(state')
      /\ state'.nodes = state.nodes
      /\ \A n \in Node : state.nodes[n] = "live" /\ (~ ready[n] \/ cordoned[n]) =>
            state'.podsOn[n] \subseteq state.podsOn[n]
      /\ \A p \in Pod : Ghost(state', p) => Ghost(state, p)
    BY <1>1, <1>2, PassIs
<1>4. ASSUME NEW n \in Node PROVE Foreseen(state', ready', cordoned', events', n)
    <2>1. Foreseen(state, ready, cordoned, events, n)
        BY DEF IInv
    <2>2. state'.nodes[n] = "live" /\ (~ ready[n] \/ cordoned[n]) =>
              state'.podsOn[n] \subseteq state.podsOn[n]
        BY <1>3
    <2> QED BY <1>1, <1>3, <2>1, <2>2, ForeseenStays
<1>5. IInv'
    BY <1>1, <1>3, <1>4, InvNext DEF IInv, DrainListed
<1> QED BY <1>3, <1>5 DEF NoNewGhosts

\* The node was up: nothing of it but a drain is foreseen.
LEMMA ConsolidateInv ==
    ASSUME IInv, NEW n \in Node, Consolidate(n)
    PROVE  IInv' /\ NoNewGhosts
<1>1. /\ n \in Consolidated /\ LiveNode(state, n) /\ ready[n] /\ ~ cordoned[n]
      /\ cordoned' = [cordoned EXCEPT ![n] = TRUE]
      /\ events' = events \cup {On("NodeCordoned", n), On("NodeDrained", n)}
      /\ state' = state /\ ready' = ready /\ draining' = draining
    BY DEF Consolidate, Up
<1>2. cordoned' \in [Node -> BOOLEAN] /\ cordoned'[n] /\ \A m \in Node \ {n} : cordoned'[m] = cordoned[m]
    BY <1>1 DEF IInv
<1>3. \A m \in Node, kind \in Kinds : On(kind, m) \in events' =>
          On(kind, m) \in events \/ (m = n /\ kind \in {"NodeCordoned", "NodeDrained"})
    <2>1. "NodeCordoned" \in Kinds /\ "NodeDrained" \in Kinds
        BY DEF Kinds
    <2> QED BY <1>1, <2>1, OnIs
<1>4. Shrinks(state, state') /\ Sound(state') /\ QueueExact(state')
    BY <1>1, ShrinksSelf DEF IInv
<1>5. ASSUME NEW m \in Node PROVE Foreseen(state', ready', cordoned', events', m)
    <2>1. CASE m # n
        BY <1>1, <1>2, <1>3, <1>4, <2>1, ForeseenElsewhere
    <2>2. CASE m = n
        <3>1. Foreseen(state, ready, cordoned, events, n)
            BY DEF IInv
        <3>2. On("NodeTerminated", n) \notin events
            BY <1>1, <3>1 DEF Foreseen, Doomed, LiveNode
        <3>3. On("SpotInterruption", n) \in events' => On("NodeReady", n) \notin events'
            BY <1>1, <1>3, <3>1 DEF Foreseen, LiveNode, Kinds
        <3>4. On("NodeTerminated", n) \notin events'
            BY <1>3, <3>2 DEF Kinds
        <3> QED BY <1>1, <1>2, <2>2, <3>3, <3>4 DEF Foreseen, LiveNode
    <2> QED BY <2>1, <2>2
<1>6. IInv'
    BY <1>1, <1>2, <1>4, <1>5, InvNext DEF IInv, DrainListed
<1> QED BY <1>1, <1>6 DEF NoNewGhosts

\* DrainHandler: besides, no budget falls below its minimum.
LEMMA NodeDrainedInv ==
    ASSUME IInv, NEW n \in Node, NodeDrained(n)
    PROVE  IInv' /\ NoNewGhosts /\ KeepsBudgets(state, state')
<1>1. /\ On("NodeDrained", n) \in events
      /\ events' = (events \ {On("NodeDrained", n)}) \cup {On("NodeTerminated", n)}
                   \cup (IF LiveNode(state, n) /\ state'.pending_queue # <<>> THEN {Loop} ELSE {})
      /\ ready' = ready /\ cordoned' = cordoned /\ draining' = draining
    BY DEF NodeDrained
<1>2. PICK order \in PodOrders({n}) :
          state' = EvictOneByOne(state, InOrder(order, state.podsOn[n] \ Daemon))
    BY DEF NodeDrained
<1> DEFINE S == state.podsOn[n] \ Daemon
           pods == InOrder(order, S)
<1>3. pods \in Seq(Pod) /\ QueueSet(pods) = S
    <2>1. order \in Seq(Pod) /\ QueueSet(order) = state.podsOn[n]
        BY <1>2, PodOrderOne DEF IInv
    <2>2. S \subseteq state.podsOn[n]
        OBVIOUS
    <2> HIDE DEF S
    <2>3. pods \in Seq(Pod) /\ QueueSet(pods) = QueueSet(order) \cap S
        BY <2>1, InOrderIs
    <2> QED BY <2>1, <2>2, <2>3
<1>4. state' = EvictOneByOne(state, pods)
    BY <1>2
<1> HIDE DEF pods
<1>5. /\ Shrinks(state, state') /\ state'.nodes = state.nodes
      /\ KeepsBudgets(state, state')
      /\ \A p \in S : ~ Budgeted(p) => ~ Is(state', p, "Running")
    BY <1>3, <1>4, EvictOneByOneIs DEF IInv
<1>6. Sound(state') /\ QueueExact(state')
    BY <1>5 DEF IInv, Shrinks, Kept
<1>7. \A m \in Node, kind \in Kinds : On(kind, m) \in events' =>
          On(kind, m) \in events \/ (m = n /\ kind = "NodeTerminated")
    <2>1. "NodeTerminated" \in Kinds
        BY DEF Kinds
    <2> QED BY <1>1, <2>1, OnIs
<1>8. ASSUME LiveNode(state, n), NEW p \in state'.podsOn[n] PROVE p \in Daemon \/ Budgeted(p)
    <2>1. LiveNode(state', n) /\ p \in state.podsOn[n]
        BY <1>5, <1>8 DEF Shrinks, LiveNode
    <2>2. Is(state', p, "Running")
        BY <1>6, <1>8, <2>1, ListedRuns
    <2> QED BY <1>5, <2>1, <2>2
<1>9. ASSUME NEW m \in Node PROVE Foreseen(state', ready', cordoned', events', m)
    <2>1. CASE m # n
        BY <1>1, <1>5, <1>7, <2>1, ForeseenElsewhere
    <2>2. CASE m = n /\ state.nodes[n] = "gone"
        BY <1>5, <2>2, ForeseenGone
    <2>3. CASE m = n /\ LiveNode(state, n)
        <3>1. Foreseen(state, ready, cordoned, events, n)
            BY DEF IInv
        <3>2. cordoned[n] /\ n \in Consolidated
            BY <1>1, <2>3, <3>1 DEF Foreseen, LiveNode
        <3>3. On("SpotInterruption", n) \in events' => On("NodeReady", n) \notin events'
            BY <1>7, <2>3, <3>1 DEF Foreseen, LiveNode, Kinds
        <3>4. Doomed(state', ready', cordoned', events', n)
            BY <1>1, <1>8, <2>3, <3>2 DEF Doomed
        <3> QED BY <1>1, <1>5, <2>3, <3>2, <3>3, <3>4 DEF Foreseen, LiveNode
    <2>4. state.nodes[n] = "live" \/ state.nodes[n] = "gone"
        BY <1>1, EventAdded DEF Kinds
    <2> QED BY <2>1, <2>2, <2>3, <2>4 DEF LiveNode
<1>10. IInv'
    BY <1>1, <1>6, <1>9, InvNext DEF IInv, DrainListed
<1> QED BY <1>5, <1>10 DEF NoNewGhosts, Shrinks

\* The die of a spot node.
LEMMA SpotInterruptionCheckInv ==
    ASSUME IInv, NEW n \in Node, SpotInterruptionCheck(n)
    PROVE  IInv' /\ NoNewGhosts
<1>1. /\ LiveNode(state, n) /\ On("NodeReady", n) \notin events
      /\ events' = events \cup {On("SpotInterruption", n)}
      /\ state' = state /\ ready' = ready /\ cordoned' = cordoned /\ draining' = draining
    BY DEF SpotInterruptionCheck
<1>2. \A m \in Node, kind \in Kinds : On(kind, m) \in events' =>
          On(kind, m) \in events \/ (m = n /\ kind = "SpotInterruption")
    <2>1. "SpotInterruption" \in Kinds
        BY DEF Kinds
    <2> QED BY <1>1, <2>1, OnIs
<1>3. Shrinks(state, state') /\ Sound(state') /\ QueueExact(state')
    BY <1>1, ShrinksSelf DEF IInv
<1>4. ASSUME NEW m \in Node PROVE Foreseen(state', ready', cordoned', events', m)
    <2>1. CASE m # n
        BY <1>1, <1>2, <1>3, <2>1, ForeseenElsewhere
    <2>2. CASE m = n
        <3>1. Foreseen(state, ready, cordoned, events, n)
            BY DEF IInv
        <3>2. /\ On("NodeReady", n) \notin events'
              /\ On("NodeDrained", n) \in events' => On("NodeDrained", n) \in events
              /\ On("NodeTerminated", n) \in events' => On("NodeTerminated", n) \in events
            BY <1>1, <1>2 DEF Kinds
        <3>3. On("NodeTerminated", n) \in events' => Doomed(state', ready', cordoned', events', n)
            BY <1>1, <3>1, <3>2 DEF Foreseen, Doomed, LiveNode
        <3> QED BY <1>1, <2>2, <3>1, <3>2, <3>3 DEF Foreseen, LiveNode
    <2> QED BY <2>1, <2>2
<1>5. IInv'
    BY <1>1, <1>3, <1>4, InvNext DEF IInv, DrainListed
<1> QED BY <1>1, <1>5 DEF NoNewGhosts

\* The warning empties the node and closes it, and it does not become ready again.
LEMMA SpotInterruptionInv ==
    ASSUME IInv, NEW n \in Node, SpotInterruption(n)
    PROVE  IInv' /\ NoNewGhosts
<1>1. /\ On("SpotInterruption", n) \in events
      /\ ready' = [ready EXCEPT ![n] = FALSE]
      /\ events' = (events \ {On("SpotInterruption", n)}) \cup {On("NodeTerminated", n)}
      /\ cordoned' = cordoned /\ draining' = draining
    BY DEF SpotInterruption
<1>2. PICK order \in PodOrders({n}) : state' = ForceDrain(state, n, order)
    BY DEF SpotInterruption
<1>3. order \in Seq(Pod) /\ QueueSet(order) = state.podsOn[n]
    BY <1>2, PodOrderOne DEF IInv
<1>4. /\ Shrinks(state, state') /\ state'.nodes = state.nodes
      /\ LiveNode(state, n) => state'.podsOn[n] = {}
    BY <1>2, <1>3, ForceDrainIs DEF IInv
<1>5. Sound(state') /\ QueueExact(state')
    BY <1>4 DEF IInv, Shrinks, Kept
<1>6. ready' \in [Node -> BOOLEAN] /\ ~ ready'[n] /\ \A m \in Node \ {n} : ready'[m] = ready[m]
    BY <1>1 DEF IInv
<1>7. \A m \in Node, kind \in Kinds : On(kind, m) \in events' =>
          On(kind, m) \in events \/ (m = n /\ kind = "NodeTerminated")
    <2>1. "NodeTerminated" \in Kinds
        BY DEF Kinds
    <2> QED BY <1>1, <2>1, OnIs
<1>8. ASSUME NEW m \in Node PROVE Foreseen(state', ready', cordoned', events', m)
    <2>1. CASE m # n
        BY <1>1, <1>4, <1>6, <1>7, <2>1, ForeseenElsewhere
    <2>2. CASE m = n /\ state.nodes[n] = "gone"
        BY <1>4, <2>2, ForeseenGone
    <2>3. CASE m = n /\ LiveNode(state, n)
        <3>1. Foreseen(state, ready, cordoned, events, n)
            BY DEF IInv
        <3>2. On("NodeReady", n) \notin events
            BY <1>1, <2>3, <3>1 DEF Foreseen, LiveNode
        <3>3. /\ On("NodeReady", n) \notin events'
              /\ On("NodeDrained", n) \in events' => On("NodeDrained", n) \in events
            BY <1>7, <3>2 DEF Kinds
        <3>4. Doomed(state', ready', cordoned', events', n)
            BY <1>4, <1>6, <2>3, <3>3 DEF Doomed
        <3> QED BY <1>1, <1>4, <2>3, <3>1, <3>3, <3>4 DEF Foreseen, LiveNode
    <2>4. state.nodes[n] = "live" \/ state.nodes[n] = "gone"
        BY <1>1, EventAdded DEF Kinds
    <2> QED BY <2>1, <2>2, <2>3, <2>4 DEF LiveNode
<1>9. IInv'
    BY <1>1, <1>5, <1>6, <1>8, InvNext DEF IInv, DrainListed
<1> QED BY <1>4, <1>9 DEF NoNewGhosts, Shrinks

\* A new node is foreseen nothing but to become ready.
LEMMA NodeLaunchingInv ==
    ASSUME IInv, NEW n \in Node, NodeLaunching(n)
    PROVE  IInv' /\ NoNewGhosts
<1>1. /\ state.nodes[n] = "fresh" /\ state' = AddNode(state, n, Capacity)
      /\ events' = events \cup {On("NodeReady", n)}
      /\ ready' = ready /\ cordoned' = cordoned /\ draining' = draining
    BY DEF NodeLaunching
<1>2. Sound(state) /\ state \in ClusterType /\ Capacity \in Nat
    BY DrainsAssumption DEF IInv, Sound
<1>3. Kept(state, state')
    BY <1>1, <1>2, AddNodeKept
<1>4. /\ state'.nodes[n] = "live"
      /\ \A m \in Node \ {n} : state'.podsOn[m] = state.podsOn[m] /\ state'.nodes[m] = state.nodes[m]
      /\ state'.pods = state.pods /\ state'.phase = state.phase /\ state'.node = state.node
    BY <1>1, <1>2, AddNodeEffect
<1>5. \A m \in Node, kind \in Kinds : On(kind, m) \in events' =>
          On(kind, m) \in events \/ (m = n /\ kind = "NodeReady")
    <2>1. "NodeReady" \in Kinds
        BY DEF Kinds
    <2> QED BY <1>1, <2>1, OnIs
<1>6. ASSUME NEW m \in Node PROVE Foreseen(state', ready', cordoned', events', m)
    <2>0. Foreseen(state, ready, cordoned, events, m)
        BY DEF IInv
    <2>1. CASE m # n
        BY <1>1, <1>4, <1>5, <2>0, <2>1, ForeseenStays
    <2>2. CASE m = n
        <3>1. /\ On("NodeDrained", n) \notin events' /\ On("SpotInterruption", n) \notin events'
              /\ On("NodeTerminated", n) \notin events'
            BY <1>1, <1>5, <2>0, <2>2 DEF Foreseen, Kinds
        <3> QED BY <1>4, <2>2, <3>1 DEF Foreseen
    <2> QED BY <2>1, <2>2
<1>7. IInv'
    BY <1>1, <1>3, <1>6, InvNext DEF IInv, DrainListed, Kept
<1>8. ASSUME NEW p \in Pod, Ghost(state', p) PROVE Ghost(state, p)
    <2>1. Is(state, p, "Running") /\ state.node[p] # n
        BY <1>4, <1>8 DEF Ghost, Is, LivePod, LiveNode
    <2> QED BY <1>4, <1>8, <2>1 DEF Ghost, LiveNode
<1> QED BY <1>7, <1>8 DEF NoNewGhosts

\* DaemonSetHandler: a node that is there gets a pod of the daemonset.
LEMMA StartDaemonIs ==
    ASSUME NEW c, Sound(c), QueueExact(c), NEW n \in Node,
           Daemon = {} \/ \E q \in Daemon : c.pods[q] = "fresh", NEW d, d = StartDaemon(c, n)
    PROVE  /\ Sound(d) /\ QueueExact(d) /\ d.nodes = c.nodes
           /\ \A m \in Node \ {n} : d.podsOn[m] = c.podsOn[m]
           /\ d.podsOn[n] \subseteq c.podsOn[n] \cup Daemon
           /\ \A p \in Pod : Ghost(d, p) => Ghost(c, p)
<1>1. CASE Daemon = {} \/ ~ LiveNode(c, n)
    BY <1>1 DEF StartDaemon
<1>2. CASE Daemon # {} /\ LiveNode(c, n)
    <2> DEFINE p == CHOOSE q \in Daemon : c.pods[q] = "fresh"
               e == SubmitPod(c, p, Size)
    <2>1. p \in Daemon /\ p \in Pod /\ c.pods[p] = "fresh" /\ Size \in Nat
        BY <1>2, DrainsAssumption
    <2>2. d = BindPod(e, p, n)
        BY <1>2 DEF StartDaemon
    <2> HIDE DEF p
    <2>3. Kept(c, e)
        BY <2>1, SubmitPodKept
    <2>4. /\ e.nodes = c.nodes /\ e.podsOn = c.podsOn /\ ~ Is(e, p, "Running")
          /\ \A q \in Pod \ {p} : /\ e.pods[q] = c.pods[q] /\ e.phase[q] = c.phase[q]
                                  /\ e.node[q] = c.node[q]
        BY <2>1, SubmitPodEffect DEF Sound, Is
    <2> HIDE DEF e
    <2>5. Kept(e, d) /\ e \in ClusterType
        BY <2>1, <2>2, <2>3, BindPodKept DEF Kept, Sound
    <2>6. /\ d.nodes = e.nodes /\ d.pods = e.pods
          /\ \A m \in Node : \/ d.podsOn[m] = e.podsOn[m]
                             \/ m = n /\ d.podsOn[m] = e.podsOn[m] \cup {p}
          /\ \A q \in Pod : Is(d, q, "Running") <=> Is(e, q, "Running") \/ (q = p /\ CanBind(e, p, n))
          /\ \A q \in Pod \ {p} : d.node[q] = e.node[q]
          /\ d.node[p] = IF CanBind(e, p, n) THEN n ELSE e.node[p]
        BY <2>1, <2>2, <2>5, BindPodEffect DEF SameFrame
    <2>7. Sound(d) /\ QueueExact(d)
        BY <2>3, <2>5 DEF Kept
    <2>8. ASSUME NEW q \in Pod, Ghost(d, q) PROVE Ghost(c, q)
        <3>1. CASE q = p
            BY <1>2, <2>4, <2>6, <2>8, <3>1 DEF Ghost, LiveNode
        <3>2. CASE q # p
            BY <2>4, <2>6, <2>8, <3>2 DEF Ghost, LiveNode, Is, LivePod
        <3> QED BY <3>1, <3>2
    <2>9. d.podsOn[n] \subseteq c.podsOn[n] \cup Daemon
        BY <2>1, <2>4, <2>6
    <2> QED BY <2>4, <2>6, <2>7, <2>8, <2>9
<1> QED BY <1>1, <1>2

\* A node that is to be drained or terminated has its cordon, and gets no pod but that of
\* the daemonset when it becomes ready; one that is to be interrupted is ready already.
LEMMA NodeReadyInv ==
    ASSUME IInv, NEW n \in Node, NodeReady(n)
    PROVE  IInv' /\ NoNewGhosts
<1>1. /\ On("NodeReady", n) \in events
      /\ Daemon = {} \/ \E q \in Daemon : state.pods[q] = "fresh"
      /\ ready' = [ready EXCEPT ![n] = LiveNode(state, n)]
      /\ cordoned' = cordoned /\ draining' = draining
    BY DEF NodeReady
<1>2. PICK c \in SchedulePendingFrom(state, Up(state, ready'), state.pending_queue) :
          /\ state' = StartDaemon(c, n)
          /\ events' = (events \ {On("NodeReady", n)}) \cup (IF c.pending_queue = <<>> THEN {} ELSE {Loop})
    BY DEF NodeReady
<1>3. ready' \in [Node -> BOOLEAN] /\ \A m \in Node \ {n} : ready'[m] = ready[m]
    BY <1>1 DEF IInv, LiveNode
<1>4. /\ Sound(c) /\ QueueExact(c)
      /\ c.nodes = state.nodes /\ c.pods = state.pods
      /\ \A m \in Node : state.nodes[m] = "live" /\ (~ ready'[m] \/ cordoned[m]) =>
            c.podsOn[m] \subseteq state.podsOn[m]
      /\ \A p \in Pod : Ghost(c, p) => Ghost(state, p)
    BY <1>2, <1>3, PassIs
<1>5. /\ Sound(state') /\ QueueExact(state') /\ state'.nodes = c.nodes
      /\ \A m \in Node \ {n} : state'.podsOn[m] = c.podsOn[m]
      /\ state'.podsOn[n] \subseteq c.podsOn[n] \cup Daemon
      /\ \A p \in Pod : Ghost(state', p) => Ghost(c, p)
    BY <1>1, <1>2, <1>4, StartDaemonIs
<1>6. \A m \in Node, kind \in Kinds : On(kind, m) \in events' => On(kind, m) \in events
    BY <1>2, OnIs
<1>7. ASSUME NEW m \in Node PROVE Foreseen(state', ready', cordoned', events', m)
    <2>0. Foreseen(state, ready, cordoned, events, m)
        BY DEF IInv
    <2>1. CASE m # n
        <3>1. ready'[m] = ready[m] /\ cordoned'[m] = cordoned[m] /\ state'.nodes[m] = state.nodes[m]
            BY <1>1, <1>3, <1>4, <1>5, <2>1
        <3>2. state'.nodes[m] = "live" /\ (~ ready[m] \/ cordoned[m]) =>
                  state'.podsOn[m] \subseteq state.podsOn[m]
            BY <1>4, <1>5, <2>1, <3>1
        <3> QED BY <1>6, <2>0, <3>1, <3>2, ForeseenStays
    <2>2. CASE m = n /\ state.nodes[n] = "gone"
        BY <1>4, <1>5, <2>2, ForeseenGone
    <2>3. CASE m = n /\ LiveNode(state, n)
        <3>1. /\ On("NodeDrained", n) \in events' => cordoned'[n] /\ n \in Consolidated
              /\ On("SpotInterruption", n) \notin events'
            BY <1>1, <1>6, <2>0, <2>3 DEF Foreseen, LiveNode, Kinds
        <3>2. ASSUME On("NodeTerminated", n) \in events'
              PROVE  Doomed(state', ready', cordoned', events', n)
            <4>1. /\ cordoned[n] /\ n \in Consolidated
                  /\ \A p \in state.podsOn[n] : p \in Daemon \/ Budgeted(p)
                BY <1>1, <1>6, <2>0, <2>3, <3>2 DEF Foreseen, LiveNode, Kinds, Doomed
            <4>2. state'.podsOn[n] \subseteq state.podsOn[n] \cup Daemon
                BY <1>4, <1>5, <2>3, <4>1 DEF LiveNode
            <4> QED BY <1>1, <4>1, <4>2 DEF Doomed
        <3> QED BY <1>4, <1>5, <2>3, <3>1, <3>2 DEF Foreseen, LiveNode
    <2>4. state.nodes[n] = "live" \/ state.nodes[n] = "gone"
        BY <1>1, EventAdded DEF Kinds
    <2> QED BY <2>1, <2>2, <2>3, <2>4 DEF LiveNode
<1>8. IInv'
    BY <1>1, <1>3, <1>5, <1>7, InvNext DEF IInv, DrainListed
<1> QED BY <1>4, <1>5, <1>8 DEF NoNewGhosts

\* A node that is there gets its cordon.
LEMMA NodeCordonedInv ==
    ASSUME IInv, NEW n \in Node, NodeCordoned(n)
    PROVE  IInv' /\ NoNewGhosts
<1>1. /\ On("NodeCordoned", n) \in events
      /\ cordoned' = [cordoned EXCEPT ![n] = LiveNode(state, n)]
      /\ events' = events \ {On("NodeCordoned", n)}
      /\ state' = state /\ ready' = ready /\ draining' = draining
    BY DEF NodeCordoned
<1>2. /\ cordoned' \in [Node -> BOOLEAN]
      /\ LiveNode(state, n) => cordoned'[n]
      /\ \A m \in Node \ {n} : cordoned'[m] = cordoned[m]
    BY <1>1 DEF IInv, LiveNode
<1>3. Sound(state') /\ QueueExact(state')
    BY <1>1 DEF IInv
<1>4. ASSUME NEW m \in Node PROVE Foreseen(state', ready', cordoned', events', m)
    <2>1. CASE m = n /\ state.nodes[n] = "gone"
        BY <1>1, <2>1, ForeseenGone
    <2>2. CASE m # n \/ LiveNode(state, n)
        <3>1. Foreseen(state, ready, cordoned, events, m)
            BY DEF IInv
        <3>2. cordoned[m] => cordoned'[m]
            BY <1>2, <2>2
        <3>3. \A kind \in Kinds : On(kind, m) \in events' => On(kind, m) \in events
            BY <1>1
        <3>4. /\ state'.nodes[m] = state.nodes[m] /\ state'.podsOn[m] \subseteq state.podsOn[m]
              /\ ready'[m] => ready[m]
            BY <1>1
        <3> QED BY <3>1, <3>2, <3>3, <3>4, ForeseenStays
    <2>3. state.nodes[n] = "live" \/ state.nodes[n] = "gone"
        BY <1>1, EventAdded DEF Kinds
    <2> QED BY <2>1, <2>2, <2>3 DEF LiveNode
<1>5. IInv'
    BY <1>1, <1>2, <1>3, <1>4, InvNext DEF IInv, DrainListed
<1> QED BY <1>1, <1>5 DEF NoNewGhosts

\* A node goes: it leaves behind the pods it has, and it has those of the daemonset and those
\* of a budget, after a consolidation, or none.
LEMMA NodeTerminatedInv ==
    ASSUME IInv, NEW n \in Node, NodeTerminated(n)
    PROVE  /\ IInv'
           /\ \A p \in Pod : Ghost(state', p) /\ ~ Ghost(state, p) =>
                 /\ state.node[p] \in Consolidated
                 /\ p \in Daemon \/ Budgeted(p)
<1>1. /\ On("NodeTerminated", n) \in events
      /\ state' = RemoveNode(state, n)
      /\ ready' = [ready EXCEPT ![n] = FALSE] /\ cordoned' = [cordoned EXCEPT ![n] = FALSE]
      /\ events' = events \ {On("NodeTerminated", n)} /\ draining' = draining
    BY DEF NodeTerminated
<1>2. Sound(state) /\ state \in ClusterType
    BY DEF IInv, Sound
<1>3. Kept(state, state')
    BY <1>1, <1>2, RemoveNodeKept
<1>4. /\ state'.nodes[n] = IF LiveNode(state, n) THEN "gone" ELSE state.nodes[n]
      /\ \A m \in Node \ {n} : state'.podsOn[m] = state.podsOn[m] /\ state'.nodes[m] = state.nodes[m]
      /\ state'.pods = state.pods /\ state'.phase = state.phase /\ state'.node = state.node
    BY <1>1, <1>2, RemoveNodeEffect
<1>5. /\ ready' \in [Node -> BOOLEAN] /\ cordoned' \in [Node -> BOOLEAN]
      /\ \A m \in Node \ {n} : ready'[m] = ready[m] /\ cordoned'[m] = cordoned[m]
    BY <1>1 DEF IInv
<1>6. state.nodes[n] = "live" \/ state.nodes[n] = "gone"
    BY <1>1, EventAdded DEF Kinds
<1>7. ASSUME NEW m \in Node PROVE Foreseen(state', ready', cordoned', events', m)
    <2>1. CASE m = n
        <3>1. state'.nodes[n] = "gone"
            BY <1>4, <1>6 DEF LiveNode
        <3> QED BY <2>1, <3>1, ForeseenGone
    <2>2. CASE m # n
        <3>1. Foreseen(state, ready, cordoned, events, m)
            BY DEF IInv
        <3>2. \A kind \in Kinds : On(kind, m) \in events' => On(kind, m) \in events
            BY <1>1
        <3>3. /\ state'.nodes[m] = state.nodes[m] /\ state'.podsOn[m] \subseteq state.podsOn[m]
              /\ ready'[m] = ready[m] /\ cordoned'[m] = cordoned[m]
            BY <1>4, <1>5, <2>2
        <3> QED BY <3>1, <3>2, <3>3, ForeseenStays
    <2> QED BY <2>1, <2>2
<1>8. IInv'
    BY <1>1, <1>3, <1>5, <1>7, InvNext DEF IInv, DrainListed, Kept
<1>9. ASSUME NEW p \in Pod, Ghost(state', p), ~ Ghost(state, p)
      PROVE  state.node[p] \in Consolidated /\ (p \in Daemon \/ Budgeted(p))
    <2>1. Is(state, p, "Running") /\ LiveNode(state, state.node[p])
        BY <1>4, <1>9 DEF Ghost, Is, LivePod
    <2>2. state.node[p] = n
        BY <1>4, <1>9, <2>1 DEF Ghost, LiveNode
    <2>3. p \in state.podsOn[n]
        BY <1>2, <2>1, <2>2 DEF Sound, LinksAgree, LiveNode
    <2>4. Doomed(state, ready, cordoned, events, n)
        BY <1>1, <2>1, <2>2 DEF IInv, Foreseen, LiveNode
    <2> QED BY <2>2, <2>3, <2>4 DEF Doomed
<1> QED BY <1>8, <1>9

-----------------------------------------------------------------------------
(***************************************************************************)
(* The theorems.                                                           *)
(***************************************************************************)
\* The pods that a step leaves behind, if it does: they were on a node that a consolidation
\* took, as pods of the daemonset or held back by a budget.
LeftByDrain ==
    \A p \in Pod : Ghost(state', p) /\ ~ Ghost(state, p) =>
        /\ state.node[p] \in Consolidated
        /\ p \in Daemon \/ \E b \in Budgets : p \in Selected[b]

\* Every step keeps the invariant, and leaves pods behind only so.
LEMMA StepInv == IInv /\ [Next]_vars => IInv' /\ LeftByDrain
<1> SUFFICES ASSUME IInv, [Next]_vars PROVE IInv' /\ LeftByDrain
    OBVIOUS
<1>0. NoNewGhosts => LeftByDrain
    BY DEF NoNewGhosts, LeftByDrain
<1>1. CASE DriftScan
    BY <1>0, <1>1, DriftScanInv
<1>2. CASE ScanIntervalPasses
    BY <1>0, <1>2, ScanIntervalPassesInv
<1>3. CASE KarpenterProvisioningLoop
    BY <1>0, <1>3, KarpenterProvisioningLoopInv
<1>4. ASSUME NEW n \in Node, DeadlinePasses(n) PROVE IInv' /\ LeftByDrain
    BY <1>0, <1>4, DeadlinePassesInv
<1>5. ASSUME NEW n \in Node, Consolidate(n) PROVE IInv' /\ LeftByDrain
    BY <1>0, <1>5, ConsolidateInv
<1>6. ASSUME NEW n \in Node, NodeDrained(n) PROVE IInv' /\ LeftByDrain
    BY <1>0, <1>6, NodeDrainedInv
<1>7. ASSUME NEW n \in Node, SpotInterruptionCheck(n) PROVE IInv' /\ LeftByDrain
    BY <1>0, <1>7, SpotInterruptionCheckInv
<1>8. ASSUME NEW n \in Node, SpotInterruption(n) PROVE IInv' /\ LeftByDrain
    BY <1>0, <1>8, SpotInterruptionInv
<1>9. ASSUME NEW n \in Node, NodeLaunching(n) PROVE IInv' /\ LeftByDrain
    BY <1>0, <1>9, NodeLaunchingInv
<1>10. ASSUME NEW n \in Node, NodeReady(n) PROVE IInv' /\ LeftByDrain
    BY <1>0, <1>10, NodeReadyInv
<1>11. ASSUME NEW n \in Node, NodeCordoned(n) PROVE IInv' /\ LeftByDrain
    BY <1>0, <1>11, NodeCordonedInv
<1>12. ASSUME NEW n \in Node, NodeTerminated(n) PROVE IInv' /\ LeftByDrain
    BY <1>12, NodeTerminatedInv DEF LeftByDrain, Budgeted
<1>13. CASE UNCHANGED vars
    <2>1. /\ draining' \in [Node -> DrainingState]
          /\ \A n \in Node : draining'[n] # "no" => n \in Drifters
          /\ events' = events /\ state' = state /\ ready' = ready /\ cordoned' = cordoned
        BY <1>13 DEF vars, IInv, DrainListed
    <2> QED BY <1>0, <2>1, QuietInv
<1> QED BY <1>1, <1>2, <1>3, <1>4, <1>5, <1>6, <1>7, <1>8, <1>9, <1>10, <1>11, <1>12, <1>13 DEF Next

\* Between the steps of drift, consolidation and spot interruption the cluster is sound,
\* only drifted nodes are on the list of the drift handler, and a node that is about to go
\* is empty and closed, or holds what a drain had to leave.
THEOREM DrainsInvariant == Spec => []IInv
<1>1. IInv /\ [Next]_vars => IInv'
    BY StepInv
<1> QED BY InitInv, <1>1, PTL DEF Spec

\* The books of the nodes and the pending queue agree with the pods.
THEOREM TypeCorrect == Spec => []TypeOK
<1>1. IInv => TypeOK
    BY DEF IInv, TypeOK, Sound, DrainListed, DrainingState
<1> QED BY DrainsInvariant, <1>1, PTL

\* DrainHandler takes no budget below its minimum.
THEOREM DrainKeepsBudgetCorrect == Spec => DrainKeepsBudget
<1> DEFINE KeepsThem == \A n \in Node, b \in Budgets : NodeDrained(n) =>
                        \/ Running(state', b) >= MinAvailable[b]
                        \/ Running(state', b) = Running(state, b)
<1>1. IInv => [KeepsThem]_vars
    BY NodeDrainedInv DEF KeepsBudgets
<1> HIDE DEF KeepsThem
<1>2. Spec => [][KeepsThem]_vars
    BY DrainsInvariant, <1>1, PTL
<1> QED BY <1>2 DEF DrainKeepsBudget, KeepsThem

\* A drifted node outlives a scan only for the sake of a budget.
THEOREM StaysForABudgetCorrect == Spec => StaysForABudget
<1> DEFINE Stay == DriftScan => \A n \in Node : draining'[n] # "no" =>
                       \A p \in state'.podsOn[n] :
                           \E b \in Budgets : p \in Selected[b] /\ Running(state', b) <= MinAvailable[b]
<1>1. IInv => [Stay]_vars
    BY DriftScanInv DEF Held
<1> HIDE DEF Stay
<1>2. Spec => [][Stay]_vars
    BY DrainsInvariant, <1>1, PTL
<1> QED BY <1>2 DEF StaysForABudget, Stay

\* Only DrainHandler leaves pods behind on a node that goes: those of the daemonset and those
\* that a budget held back.
THEOREM StrandedOnlyByDrainCorrect == Spec => StrandedOnlyByDrain
<1>1. IInv /\ [Next]_vars => [LeftByDrain]_vars
    BY StepInv
<1>2. Spec => [][LeftByDrain]_vars
    BY DrainsInvariant, <1>1, PTL DEF Spec
<1> QED BY <1>2 DEF StrandedOnlyByDrain, LeftByDrain
=============================================================================

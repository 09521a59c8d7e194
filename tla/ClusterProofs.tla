----------------------------- MODULE ClusterProofs -----------------------------
(***************************************************************************)
(* What the proofs about the modules that use Cluster have in common:      *)
(* induction over finite sets and folds, sums, the pending queue, that     *)
(* every operation of Cluster keeps a sound cluster sound, and what a      *)
(* scheduling pass leaves.                                                 *)
(***************************************************************************)
EXTENDS Scheduler, FiniteSetTheorems, SequenceTheorems, TLAPS

-----------------------------------------------------------------------------
(***************************************************************************)
(* Induction and folds.  The induction theorems of the library take an     *)
(* operator; these take a set, the one of the counterexamples.             *)
(***************************************************************************)
\* A set of numbers that holds with each of its members the one before is empty.
LEMMA NatDescent ==
    ASSUME NEW B \in SUBSET Nat, \A n \in B : n - 1 \in B
    PROVE  B = {}
<1> SUFFICES ASSUME B # {} PROVE FALSE
    OBVIOUS
<1>1. PICK n \in B : \A m \in B : <<m, n>> \notin OpToRel(<, Nat)
    BY NatLessThanWellFounded, WFMin
<1>2. n \in Nat /\ n - 1 \in B /\ n - 1 \in Nat /\ n - 1 < n
    OBVIOUS
<1>3. <<n - 1, n>> \in OpToRel(<, Nat)
    BY <1>2 DEF OpToRel
<1> QED BY <1>1, <1>2, <1>3

\* Taking elements away from a finite set comes to an end: no set of subsets of S holds
\* with each of its members one that is smaller by an element.
LEMMA SubsetDescent ==
    ASSUME NEW S, IsFiniteSet(S), NEW B, B \subseteq SUBSET S,
           \A s \in B : \E x \in s : s \ {x} \in B
    PROVE  B = {}
<1> SUFFICES ASSUME B # {} PROVE FALSE
    OBVIOUS
<1>1. PICK s \in B : \A t \in B : <<t, s>> \notin StrictSubsetOrdering(S)
    <2>1. IsWellFoundedOn(StrictSubsetOrdering(S), SUBSET S)
        BY FS_StrictSubsetOrderingWellFounded, FS_FiniteSubsetsOfFinite
    <2> QED BY <2>1, WFMin
<1>2. PICK x \in s : s \ {x} \in B
    OBVIOUS
<1>3. <<s \ {x}, s>> \in StrictSubsetOrdering(S)
    BY <1>2 DEF StrictSubsetOrdering
<1> QED BY <1>1, <1>2, <1>3

\* choice picks a member of every subset of S that has one.
ChoiceOn(choice, S) == \A s \in SUBSET S : s # {} => choice[s] \in s

\* What a fold of step over s, with the element choice[s] last, gives from the value of
\* the fold over the rest.
Folded(g, step, base, choice, s) ==
    IF s = {} THEN base ELSE step[choice[s]][g[s \ {choice[s]}]]

\* g[s] is the fold of step over s, for every subset s of S, and stays in C.
FoldsInto(g, S, C, step, base, choice) ==
    /\ g \in [SUBSET S -> C]
    /\ \A s \in SUBSET S : g[s] = Folded(g, step, base, choice, s)

\* Over a finite set there is a function that folds into C all its subsets at once.
LEMMA FoldExists ==
    ASSUME NEW S, IsFiniteSet(S), NEW C, NEW base \in C, NEW step \in [S -> [C -> C]],
           NEW choice, ChoiceOn(choice, S)
    PROVE  \E g : FoldsInto(g, S, C, step, base, choice)
<1> USE DEF ChoiceOn
<1> DEFINE Upto(g, n) == \A s \in SUBSET S : Cardinality(s) <= n =>
                            g[s] = Folded(g, step, base, choice, s)
           P(n) == \E g \in [SUBSET S -> C] : Upto(g, n)
<1>1. \A s \in SUBSET S : IsFiniteSet(s) /\ Cardinality(s) \in Nat
    BY FS_Subset, FS_CardinalityType
<1>2. P(0)
    <2> DEFINE g == [s \in SUBSET S |-> base]
    <2>1. \A s \in SUBSET S : Cardinality(s) <= 0 => s = {}
        BY <1>1, FS_EmptySet
    <2>2. g \in [SUBSET S -> C] /\ Upto(g, 0)
        BY <2>1 DEF Folded
    <2> QED BY <2>2
<1>3. ASSUME NEW n \in Nat, P(n) PROVE P(n + 1)
    <2>1. PICK g \in [SUBSET S -> C] : Upto(g, n)
        BY <1>3
    <2> DEFINE h == [s \in SUBSET S |-> Folded(g, step, base, choice, s)]
    <2>2. h \in [SUBSET S -> C]
        <3>1. \A s \in SUBSET S : s # {} => choice[s] \in S /\ s \ {choice[s]} \in SUBSET S
            OBVIOUS
        <3> QED BY <3>1 DEF Folded
    <2>3. \A s \in SUBSET S : Cardinality(s) <= n => h[s] = g[s]
        BY <2>1
    <2>4. Upto(h, n + 1)
        <3> SUFFICES ASSUME NEW s \in SUBSET S, Cardinality(s) <= n + 1, s # {}
                     PROVE  h[s] = step[choice[s]][h[s \ {choice[s]}]]
            BY DEF Folded
        <3>1. /\ s \ {choice[s]} \in SUBSET S
              /\ Cardinality(s \ {choice[s]}) = Cardinality(s) - 1
            BY <1>1, FS_RemoveElement
        <3>2. Cardinality(s) \in Nat /\ Cardinality(s) - 1 <= n
            BY <1>1
        <3>3. h[s \ {choice[s]}] = g[s \ {choice[s]}]
            BY <2>3, <3>1, <3>2
        <3> QED BY <3>3 DEF Folded
    <2> QED BY <2>2, <2>4
<1> HIDE DEF P
<1>4. \A n \in Nat : P(n)
    <2> DEFINE B == {n \in Nat : ~ P(n)}
    <2>1. \A n \in B : n - 1 \in B
        <3> SUFFICES ASSUME NEW n \in Nat, ~ P(n) PROVE n - 1 \in Nat /\ ~ P(n - 1)
            OBVIOUS
        <3>1. n # 0
            BY <1>2
        <3>2. n - 1 \in Nat /\ n = (n - 1) + 1
            BY <3>1
        <3> QED BY <1>3, <3>2
    <2>2. B = {}
        BY <2>1, NatDescent
    <2> QED BY <2>2
<1>5. PICK g \in [SUBSET S -> C] : Upto(g, Cardinality(S))
    BY <1>1, <1>4 DEF P
<1>6. \A s \in SUBSET S : Cardinality(s) <= Cardinality(S)
    BY FS_Subset
<1>7. FoldsInto(g, S, C, step, base, choice)
    BY <1>5, <1>6 DEF FoldsInto
<1> QED BY <1>7

-----------------------------------------------------------------------------
(***************************************************************************)
(* Walks.  A fold over a sequence is the last step of a walk over its      *)
(* positions; FoldLeft takes the elements from the last position down, so  *)
(* the walk is read off the fold over the first i positions, for every i.  *)
(***************************************************************************)
\* A walk of n steps through C: w[i] is where it is after step i.
Walk(w, n, C, step, base) ==
    /\ w \in [0..n -> C]
    /\ w[0] = base
    /\ \A i \in 1..n : w[i] = step[i][w[i - 1]]

Latest(n) == [s \in SUBSET (1..n) |-> Max(s)]

\* The largest of some positions is one of them and no less than the others.
LEMMA MaxOf ==
    ASSUME NEW n \in Nat, NEW s \in SUBSET (1..n), s # {}
    PROVE  Max(s) \in s /\ \A y \in s : Max(s) >= y
<1> DEFINE Bound(k) == \E x \in s : \A y \in s : y <= k => x >= y
           B == {k \in Nat : (\E y \in s : y <= k)
                               /\ ~ \E x \in s : x <= k /\ \A y \in s : y <= k => x >= y}
<1>1. \A k \in B : k - 1 \in B
    <2> SUFFICES ASSUME NEW k \in Nat, NEW z \in s, z <= k,
                        \A x \in s : x <= k => \E y \in s : y <= k /\ ~ (x >= y)
                 PROVE  k - 1 \in B
        OBVIOUS
    <2>1. k \notin s
        BY DEF Max
    <2>2. \A y \in s : y \in Nat /\ y >= 1 /\ (y <= k <=> y <= k - 1)
        BY <2>1
    <2>3. k - 1 \in Nat
        BY <2>2
    <2> QED BY <2>2, <2>3
<1>2. B = {}
    BY <1>1, NatDescent
<1>3. n \notin B
    BY <1>2
<1>4. \E x \in s : \A y \in s : x >= y
    <2>1. \A y \in s : y <= n
        OBVIOUS
    <2>2. \E y \in s : y <= n
        BY <2>1
    <2> QED BY <1>3, <2>1, <2>2
<1> QED BY <1>4 DEF Max

\* A fold over positions that takes the last position first always takes a member.
LEMMA LatestChosen ==
    ASSUME NEW n \in Nat
    PROVE  ChoiceOn(Latest(n), 1..n)
BY MaxOf DEF ChoiceOn, Latest

\* The fold over the first i positions takes position i last.
LEMMA LatestPosition ==
    ASSUME NEW n \in Nat, NEW i \in 1..n
    PROVE  /\ 1..i \in SUBSET (1..n) /\ 1..i # {}
           /\ Max(1..i) = i
           /\ (1..i) \ {Max(1..i)} = 1..(i - 1)
<1>1. 1..i \in SUBSET (1..n) /\ i \in 1..i
    OBVIOUS
<1>2. Max(1..i) \in 1..i /\ Max(1..i) >= i
    BY <1>1, MaxOf
<1>3. Max(1..i) = i
    BY <1>2
<1>4. (1..i) \ {i} = 1..(i - 1)
    OBVIOUS
<1> QED BY <1>1, <1>3, <1>4

\* g follows step as long as it stays in C.
Follows(g, S, C, step, base, choice) ==
    /\ g[{}] = base
    /\ \A s \in SUBSET S : s # {} /\ g[s \ {choice[s]}] \in C
          => g[s] = step[choice[s]][g[s \ {choice[s]}]]

\* It does stay there.
LEMMA FollowsInto ==
    ASSUME NEW S, IsFiniteSet(S), NEW C, NEW base \in C, NEW step \in [S -> [C -> C]],
           NEW choice, ChoiceOn(choice, S), NEW g, Follows(g, S, C, step, base, choice)
    PROVE  \A s \in SUBSET S : g[s] \in C
<1> DEFINE B == {s \in SUBSET S : g[s] \notin C}
<1>1. \A s \in B : \E x \in s : s \ {x} \in B
    <2> SUFFICES ASSUME NEW s \in SUBSET S, g[s] \notin C PROVE \E x \in s : g[s \ {x}] \notin C
        OBVIOUS
    <2>0. ASSUME s = {} PROVE FALSE
        <3>1. g[s] = base
            BY <2>0, Zenon DEF Follows
        <3> QED BY <3>1
    <2>1. s # {} /\ choice[s] \in s
        BY <2>0 DEF ChoiceOn
    <2>2. g[s \ {choice[s]}] \notin C
        <3> SUFFICES ASSUME g[s \ {choice[s]}] \in C PROVE FALSE
            OBVIOUS
        <3>1. g[s] = step[choice[s]][g[s \ {choice[s]}]]
            BY <2>1, Zenon DEF Follows
        <3>2. step[choice[s]] \in [C -> C]
            BY <2>1
        <3> QED BY <3>1, <3>2
    <2> QED BY <2>1, <2>2
<1>2. B = {}
    BY <1>1, SubsetDescent
<1> QED BY <1>2

\* A function that follows step over the positions is a walk.
LEMMA FollowsWalk ==
    ASSUME NEW n \in Nat, NEW C, NEW base \in C, NEW step \in [1..n -> [C -> C]],
           NEW g, Follows(g, 1..n, C, step, base, Latest(n))
    PROVE  \E w : Walk(w, n, C, step, base) /\ w[n] = g[1..n]
<1> DEFINE w == [i \in 0..n |-> g[1..i]]
<1>0. \A s \in SUBSET (1..n) : g[s] \in C
    <2>1. IsFiniteSet(1..n)
        BY FS_Interval
    <2> QED BY <2>1, LatestChosen, FollowsInto
<1>1. w \in [0..n -> C]
    BY <1>0
<1>2. w[0] = base
    <2>1. 1..0 = {}
        OBVIOUS
    <2>2. g[1..0] = base
        BY <2>1, Zenon DEF Follows
    <2> QED BY <2>2
<1>3. \A i \in 1..n : w[i] = step[i][w[i - 1]]
    <2> TAKE i \in 1..n
    <2> DEFINE S == 1..i
               T == 1..(i - 1)
    <2>1. S \in SUBSET (1..n) /\ T \in SUBSET (1..n) /\ S # {} /\ Latest(n)[S] = i /\ S \ {i} = T
        BY LatestPosition DEF Latest
    <2>2. g[T] \in C
        BY <1>0, <2>1
    <2>3. w[i] = g[S] /\ w[i - 1] = g[T]
        OBVIOUS
    <2> HIDE DEF S, T, w
    <2>4. g[S \ {Latest(n)[S]}] = g[T]
        BY <2>1, Zenon
    <2>5. g[S] = step[Latest(n)[S]][g[S \ {Latest(n)[S]}]]
        BY <2>1, <2>2, <2>4, Zenon DEF Follows
    <2> QED BY <2>1, <2>3, <2>4, <2>5, Zenon
<1>4. w[n] = g[1..n]
    OBVIOUS
<1> HIDE DEF w
<1>5. Walk(w, n, C, step, base)
    BY <1>1, <1>2, <1>3 DEF Walk
<1> QED BY <1>4, <1>5

\* The positions of a finite sequence can be folded last position first.
LEMMA WalkFold ==
    ASSUME NEW n \in Nat, NEW C, NEW base \in C, NEW step \in [1..n -> [C -> C]]
    PROVE  \E h : FoldsInto(h, 1..n, C, step, base, Latest(n))
<1>1. IsFiniteSet(1..n)
    BY FS_Interval
<1> QED BY <1>1, LatestChosen, FoldExists

\* The same folds in the terms of FoldLeft: a solution of its equation, and a function that
\* satisfies the equation as long as it stays in C.
Solves(h, n, C, step, base) ==
    /\ h \in [SUBSET (1..n) -> C]
    /\ \A t \in SUBSET (1..n) :
          h[t] = IF t = {} THEN base ELSE step[Max(t)][h[t \ {Max(t)}]]

Tracks(g, n, C, step, base) ==
    /\ g[{}] = base
    /\ \A t \in SUBSET (1..n) : t # {} /\ g[t \ {Max(t)}] \in C
          => g[t] = step[Max(t)][g[t \ {Max(t)}]]

\* A step that always stays in C can be folded over the positions,
LEMMA FoldSolved ==
    ASSUME NEW n \in Nat, NEW C, NEW base \in C, NEW step \in [1..n -> [C -> C]]
    PROVE  \E h : Solves(h, n, C, step, base)
<1>1. PICK h : FoldsInto(h, 1..n, C, step, base, Latest(n))
    BY WalkFold
<1>2. \A t \in SUBSET (1..n) : Latest(n)[t] = Max(t)
    BY DEF Latest
<1>3. h \in [SUBSET (1..n) -> C]
    BY <1>1 DEF FoldsInto
<1>4. \A t \in SUBSET (1..n) :
          h[t] = IF t = {} THEN base ELSE step[Latest(n)[t]][h[t \ {Latest(n)[t]}]]
    BY <1>1 DEF FoldsInto, Folded
<1>5. \A t \in SUBSET (1..n) :
          h[t] = IF t = {} THEN base ELSE step[Max(t)][h[t \ {Max(t)}]]
    BY <1>2, <1>4
<1>6. Solves(h, n, C, step, base)
    BY <1>3, <1>5 DEF Solves
<1> QED BY <1>6

\* and what tracks such a step ends where the walk ends.
LEMMA FoldWalked ==
    ASSUME NEW n \in Nat, NEW C, NEW base \in C, NEW step \in [1..n -> [C -> C]],
           NEW g, Tracks(g, n, C, step, base)
    PROVE  \E w : Walk(w, n, C, step, base) /\ w[n] = g[1..n]
<1>1. \A t \in SUBSET (1..n) : Latest(n)[t] = Max(t)
    BY DEF Latest
<1>2. Follows(g, 1..n, C, step, base, Latest(n))
    BY <1>1 DEF Follows, Tracks
<1> QED BY <1>2, FollowsWalk

\* Any steps can be walked.
LEMMA WalkExists ==
    ASSUME NEW n \in Nat, NEW C, NEW base \in C, NEW step \in [1..n -> [C -> C]]
    PROVE  \E w : Walk(w, n, C, step, base)
<1>1. PICK h : Solves(h, n, C, step, base)
    BY FoldSolved
<1>2. Tracks(h, n, C, step, base)
    BY <1>1 DEF Solves, Tracks
<1> QED BY <1>2, FoldWalked

\* A fold that stays in C ends in it.
LEMMA FoldTyped ==
    ASSUME NEW n \in Nat, NEW C, NEW base \in C, NEW step \in [1..n -> [C -> C]],
           NEW g, Tracks(g, n, C, step, base)
    PROVE  g[1..n] \in C
<1>1. PICK w : Walk(w, n, C, step, base) /\ w[n] = g[1..n]
    BY FoldWalked
<1> QED BY <1>1 DEF Walk

\* Numbers have a least one.
LEMMA MinNat ==
    ASSUME NEW S \in SUBSET Nat, S # {}
    PROVE  Min(S) \in S /\ \A y \in S : Min(S) <= y
<1> DEFINE B == {k \in Nat : \E y \in S : y <= k}
<1>1. SUFFICES ASSUME \A x \in S : \E y \in S : ~ (x <= y) PROVE FALSE
    BY DEF Min
<1>2. \A k \in B : k - 1 \in B
    <2> SUFFICES ASSUME NEW k \in Nat, NEW y \in S, y <= k PROVE k - 1 \in B
        OBVIOUS
    <2>1. PICK z \in S : ~ (y <= z)
        BY <1>1
    <2>2. z \in Nat /\ y \in Nat /\ z <= k - 1 /\ k - 1 \in Nat
        BY <2>1
    <2> QED BY <2>2
<1>3. B = {}
    BY <1>2, NatDescent
<1>4. PICK x \in S : x \in Nat
    OBVIOUS
<1>5. x <= x
    BY <1>4
<1> QED BY <1>3, <1>4, <1>5

\* Finitely many numbers have a greatest one.
LEMMA MaxFinite ==
    ASSUME NEW S \in SUBSET Int, IsFiniteSet(S), S # {}
    PROVE  Max(S) \in S /\ \A y \in S : Max(S) >= y
<1> DEFINE HasMax(s) == \E x \in s : \A y \in s : x >= y
           B == {s \in SUBSET S : s # {} /\ ~ HasMax(s)}
<1>1. \A s \in B : \E x \in s : s \ {x} \in B
    <2> SUFFICES ASSUME NEW s \in SUBSET S, s # {}, ~ HasMax(s), NEW x \in s
                 PROVE  s \ {x} # {} /\ ~ HasMax(s \ {x})
        OBVIOUS
    <2>1. \A y \in s : y \in Int
        OBVIOUS
    <2>2. s \ {x} # {}
        BY <2>1
    <2>3. ASSUME HasMax(s \ {x}) PROVE FALSE
        <3>1. PICK m \in s \ {x} : \A y \in s \ {x} : m >= y
            BY <2>3
        <3>2. \/ \A y \in s : m >= y
              \/ \A y \in s : x >= y
            BY <2>1, <3>1
        <3> QED BY <3>1, <3>2
    <2> QED BY <2>2, <2>3
<1>2. B = {}
    <2> HIDE DEF B
    <2>1. B \subseteq SUBSET S
        BY DEF B
    <2> QED BY <1>1, <2>1, SubsetDescent
<1>3. HasMax(S)
    BY <1>2
<1> QED BY <1>3 DEF Max

\* The greater of two numbers.
LEMMA MaxOfTwo ==
    ASSUME NEW a \in Int, NEW b \in Int
    PROVE  /\ Max({a, b}) \in {a, b} /\ Max({a, b}) \in Int
           /\ Max({a, b}) >= a /\ Max({a, b}) >= b
BY DEF Max

\* The lesser of two numbers.
LEMMA MinOfTwo ==
    ASSUME NEW a \in Int, NEW b \in Int
    PROVE  /\ Min({a, b}) \in {a, b} /\ Min({a, b}) \in Int
           /\ Min({a, b}) <= a /\ Min({a, b}) <= b
BY DEF Min

\* What holds before a walk and after a step if it held before the step holds after the
\* walk; P is the set of the positions where it holds.
LEMMA WalkInduction ==
    ASSUME NEW n \in Nat, NEW P, 0 \in P, \A i \in 1..n : i - 1 \in P => i \in P
    PROVE  n \in P
<1> DEFINE B == {i \in 0..n : i \notin P}
<1>1. \A i \in B : i - 1 \in B
    OBVIOUS
<1>2. B \in SUBSET Nat
    OBVIOUS
<1>3. B = {}
    BY <1>1, <1>2, NatDescent
<1> QED BY <1>3

-----------------------------------------------------------------------------
(***************************************************************************)
(* Sums over a finite set.                                                 *)
(***************************************************************************)
\* The sum that MapThenSumSet computes, for the values of a function.
Sum(f, S) == MapThenSumSet(LAMBDA x : f[x], S)

First(s) == CHOOSE x \in s : TRUE

\* MapThenSumSet is what it was defined to be.
LEMMA SumRecursion ==
    ASSUME NEW S, IsFiniteSet(S), NEW f, \A x \in S : f[x] \in Nat
    PROVE  \E g \in [SUBSET S -> Nat] :
              /\ g[{}] = 0
              /\ \A s \in SUBSET S : s # {} => g[s] = f[First(s)] + g[s \ {First(s)}]
              /\ Sum(f, S) = g[S]
<1> DEFINE Eqn(g) == g = [s \in SUBSET S |->
                             IF s = {} THEN 0 ELSE f[First(s)] + g[s \ {First(s)}]]
           g == CHOOSE h : Eqn(h)
<1>1. Sum(f, S) = g[S]
    BY DEF Sum, MapThenSumSet, MapThenFoldSet, First
<1>2. \A s \in SUBSET S : s # {} => First(s) \in s
    BY DEF First
<1>3. \E h : Eqn(h)
    <2> DEFINE step == [x \in S |-> [n \in Nat |-> f[x] + n]]
               choice == [s \in SUBSET S |-> First(s)]
    <2>1. step \in [S -> [Nat -> Nat]]
        OBVIOUS
    <2>2. ChoiceOn(choice, S)
        BY <1>2 DEF ChoiceOn
    <2> HIDE DEF step, choice
    <2>3. PICK h : FoldsInto(h, S, Nat, step, 0, choice)
        BY <2>1, <2>2, FoldExists
    <2>4. /\ h \in [SUBSET S -> Nat]
          /\ \A s \in SUBSET S : h[s] = IF s = {} THEN 0 ELSE f[First(s)] + h[s \ {First(s)}]
        BY <1>2, <2>3 DEF FoldsInto, Folded, step, choice
    <2>5. Eqn(h)
        BY <2>4
    <2> QED BY <2>5
<1>4. Eqn(g)
    BY <1>3
<1> HIDE DEF g
<1>5. g[{}] = 0 /\ \A s \in SUBSET S : s # {} => g[s] = f[First(s)] + g[s \ {First(s)}]
    BY <1>4
<1>6. \A s \in SUBSET S : g[s] \in Nat
    <2> DEFINE B == {s \in SUBSET S : g[s] \notin Nat}
    <2>1. \A s \in B : \E x \in s : s \ {x} \in B
        <3> SUFFICES ASSUME NEW s \in SUBSET S, g[s] \notin Nat
                     PROVE  \E x \in s : g[s \ {x}] \notin Nat
            OBVIOUS
        <3>0. ASSUME s = {} PROVE FALSE
            <4>1. g[s] = 0
                BY <1>5, <3>0, Zenon
            <4> QED BY <4>1
        <3>1. s # {} /\ First(s) \in s /\ f[First(s)] \in Nat
            BY <1>2, <3>0
        <3>2. g[s \ {First(s)}] \notin Nat
            BY <1>5, <3>1
        <3> QED BY <3>1, <3>2
    <2>2. B = {}
        BY <2>1, SubsetDescent
    <2> QED BY <2>2
<1>7. g \in [SUBSET S -> Nat]
    BY <1>4, <1>6
<1> QED BY <1>1, <1>5, <1>7

\* The sum over nothing is 0; over a non-empty set it is one member's value and the rest.
LEMMA SumStep ==
    ASSUME NEW S, IsFiniteSet(S), NEW f, \A x \in S : f[x] \in Nat
    PROVE  /\ Sum(f, S) \in Nat
           /\ S = {} => Sum(f, S) = 0
           /\ S # {} => Sum(f, S) = f[First(S)] + Sum(f, S \ {First(S)})
<1>1. PICK g \in [SUBSET S -> Nat] :
              /\ g[{}] = 0
              /\ \A s \in SUBSET S : s # {} => g[s] = f[First(s)] + g[s \ {First(s)}]
              /\ Sum(f, S) = g[S]
    BY SumRecursion
<1>2. Sum(f, S) \in Nat
    BY <1>1
<1>3. S = {} => Sum(f, S) = 0
    BY <1>1, Zenon
<1>4. ASSUME S # {} PROVE Sum(f, S) = f[First(S)] + Sum(f, S \ {First(S)})
    <2> DEFINE T == S \ {First(S)}
    <2>0. First(S) \in S
        BY <1>4 DEF First
    <2>1. T \in SUBSET S /\ IsFiniteSet(T) /\ \A x \in T : f[x] \in Nat
        BY FS_RemoveElement
    <2> HIDE DEF T
    <2>2. PICK h \in [SUBSET T -> Nat] :
              /\ h[{}] = 0
              /\ \A s \in SUBSET T : s # {} => h[s] = f[First(s)] + h[s \ {First(s)}]
              /\ Sum(f, T) = h[T]
        BY <2>1, SumRecursion
    <2>3. \A s \in SUBSET T : h[s] = g[s]
        <3> DEFINE B == {s \in SUBSET T : h[s] # g[s]}
        <3>1. \A s \in B : \E x \in s : s \ {x} \in B
            <4> SUFFICES ASSUME NEW s \in SUBSET T, h[s] # g[s]
                         PROVE  \E x \in s : h[s \ {x}] # g[s \ {x}]
                OBVIOUS
            <4>1. s # {}
                BY <1>1, <2>2, Zenon
            <4>2. First(s) \in s /\ s \in SUBSET S
                BY <2>1, <4>1 DEF First
            <4>3. g[s] = f[First(s)] + g[s \ {First(s)}] /\ h[s] = f[First(s)] + h[s \ {First(s)}]
                BY <1>1, <2>2, <4>1, <4>2
            <4> QED BY <4>2, <4>3
        <3>2. B = {}
            BY <2>1, <3>1, SubsetDescent
        <3> QED BY <3>2
    <2>4. h[T] = g[T] /\ Sum(f, T) = h[T] /\ Sum(f, S) = g[S]
        BY <1>1, <2>2, <2>3
    <2>5. g[S] = f[First(S)] + g[T]
        BY <1>1, <1>4 DEF T
    <2> QED BY <2>4, <2>5 DEF T
<1> QED BY <1>2, <1>3, <1>4

\* A finite sum of naturals is a natural.
LEMMA SumNat ==
    ASSUME NEW S, IsFiniteSet(S), NEW f, \A x \in S : f[x] \in Nat
    PROVE  Sum(f, S) \in Nat
BY SumStep

\* The sum over nothing is zero.
LEMMA SumEmpty == ASSUME NEW f PROVE Sum(f, {}) = 0
BY SumStep, FS_EmptySet

\* Any member can be taken out first.
LEMMA SumRemove ==
    ASSUME NEW S, IsFiniteSet(S), NEW f, \A x \in S : f[x] \in Nat, NEW p \in S
    PROVE  Sum(f, S) = f[p] + Sum(f, S \ {p})
<1> DEFINE T(s, x) == s \ {x}
           Splits(s) == \A x \in s : Sum(f, s) = f[x] + Sum(f, T(s, x))
           B == {s \in SUBSET S : ~ Splits(s)}
<1>1. \A s \in SUBSET S : IsFiniteSet(s) /\ \A x \in s : f[x] \in Nat
    BY FS_Subset
<1>2. \A s \in B : \E x \in s : s \ {x} \in B
    <2> SUFFICES ASSUME NEW s \in SUBSET S, NEW x \in s, Sum(f, s) # f[x] + Sum(f, T(s, x)),
                        \A y \in s : Splits(T(s, y))
                 PROVE  FALSE
        OBVIOUS
    <2> DEFINE a == First(s)
    <2>1. a \in s /\ Sum(f, s) = f[a] + Sum(f, T(s, a))
        BY <1>1, SumStep DEF First
    <2>2. a # x
        BY <2>1
    <2>3. x \in T(s, a) /\ a \in T(s, x)
        BY <2>1, <2>2
    <2>4. T(T(s, a), x) = T(T(s, x), a)
        OBVIOUS
    <2>5. T(s, x) \in SUBSET S /\ T(s, a) \in SUBSET S /\ T(T(s, a), x) \in SUBSET S
        OBVIOUS
    <2>6. Sum(f, T(T(s, a), x)) \in Nat /\ f[x] \in Nat /\ f[a] \in Nat
        BY <1>1, <2>1, <2>5, SumNat
    <2>7. /\ Sum(f, T(s, a)) = f[x] + Sum(f, T(T(s, a), x))
          /\ Sum(f, T(s, x)) = f[a] + Sum(f, T(T(s, a), x))
        <3> HIDE DEF T
        <3>1. Splits(T(s, a)) /\ Splits(T(s, x))
            BY <2>1
        <3> QED BY <2>3, <2>4, <3>1
    <2> QED BY <2>1, <2>6, <2>7
<1>3. B = {}
    BY <1>2, SubsetDescent
<1> QED BY <1>3

\* A new member adds its own value to the sum.
LEMMA SumAdd ==
    ASSUME NEW S, IsFiniteSet(S), NEW p, p \notin S, NEW f, \A x \in S \cup {p} : f[x] \in Nat
    PROVE  Sum(f, S \cup {p}) = Sum(f, S) + f[p]
<1> DEFINE T == S \cup {p}
<1>1. IsFiniteSet(T) /\ p \in T /\ T \ {p} = S
    BY FS_AddElement
<1>2. Sum(f, S) \in Nat
    BY SumNat
<1> HIDE DEF T
<1>3. Sum(f, T) = f[p] + Sum(f, T \ {p})
    BY <1>1, SumRemove DEF T
<1>4. Sum(f, T \ {p}) = Sum(f, S) /\ f[p] \in Nat
    BY <1>1, Zenon DEF T
<1>5. Sum(f, T) = Sum(f, S) + f[p]
    BY <1>2, <1>3, <1>4
<1> QED BY <1>5 DEF T

\* A sum depends on the values of the members alone.
LEMMA SumSame ==
    ASSUME NEW S, IsFiniteSet(S), NEW f, NEW h, \A x \in S : f[x] \in Nat /\ h[x] = f[x]
    PROVE  Sum(h, S) = Sum(f, S)
<1> DEFINE B == {s \in SUBSET S : Sum(h, s) # Sum(f, s)}
<1>1. \A s \in SUBSET S : IsFiniteSet(s) /\ \A x \in s : f[x] \in Nat /\ h[x] = f[x]
    BY FS_Subset
<1>2. \A s \in B : \E x \in s : s \ {x} \in B
    <2> SUFFICES ASSUME NEW s \in SUBSET S, Sum(h, s) # Sum(f, s)
                 PROVE  \E x \in s : Sum(h, s \ {x}) # Sum(f, s \ {x})
        OBVIOUS
    <2>1. s # {}
        BY SumEmpty, Zenon
    <2>2. PICK x \in s : TRUE
        BY <2>1
    <2>3. Sum(h, s) = h[x] + Sum(h, s \ {x}) /\ Sum(f, s) = f[x] + Sum(f, s \ {x})
        BY <1>1, SumRemove
    <2> QED BY <1>1, <2>3
<1>3. B = {}
    BY <1>2, SubsetDescent
<1> QED BY <1>3

\* A part sums up to no more than the whole.
LEMMA SumPart ==
    ASSUME NEW S, IsFiniteSet(S), NEW f, \A x \in S : f[x] \in Nat, NEW T \in SUBSET S
    PROVE  Sum(f, T) <= Sum(f, S)
<1> DEFINE B == {s \in SUBSET S : T \subseteq s /\ ~ (Sum(f, T) <= Sum(f, s))}
<1>1. \A s \in SUBSET S : IsFiniteSet(s) /\ Sum(f, s) \in Nat /\ \A x \in s : f[x] \in Nat
    BY FS_Subset, SumNat
<1>2. \A s \in B : \E x \in s : s \ {x} \in B
    <2> SUFFICES ASSUME NEW s \in SUBSET S, T \subseteq s, ~ (Sum(f, T) <= Sum(f, s))
                 PROVE  \E x \in s : T \subseteq s \ {x} /\ ~ (Sum(f, T) <= Sum(f, s \ {x}))
        OBVIOUS
    <2>1. s # T
        BY <1>1
    <2>2. PICK x \in s : x \notin T
        BY <2>1
    <2>3. Sum(f, s) = f[x] + Sum(f, s \ {x})
        BY <1>1, SumRemove
    <2>4. f[x] \in Nat /\ Sum(f, s \ {x}) \in Nat /\ Sum(f, T) \in Nat /\ Sum(f, s) \in Nat
        BY <1>1
    <2>5. ~ (Sum(f, T) <= Sum(f, s \ {x}))
        BY <2>3, <2>4
    <2> QED BY <2>2, <2>5
<1>3. B = {}
    BY <1>2, SubsetDescent
<1> QED BY <1>1, <1>3

\* A sum over a set is the sum over a part and over the rest.
LEMMA SumSplit ==
    ASSUME NEW S, IsFiniteSet(S), NEW f, \A x \in S : f[x] \in Nat, NEW T \in SUBSET S
    PROVE  Sum(f, S) = Sum(f, T) + Sum(f, S \ T)
<1> DEFINE Rest(s) == S \ s
           Splits(s) == Sum(f, S) = Sum(f, s) + Sum(f, Rest(s))
           B == {s \in SUBSET S : ~ Splits(s)}
<1>1. \A s \in SUBSET S : /\ IsFiniteSet(s) /\ Sum(f, s) \in Nat /\ \A x \in s : f[x] \in Nat
                          /\ IsFiniteSet(Rest(s)) /\ Sum(f, Rest(s)) \in Nat
    <2>1. ASSUME NEW s \in SUBSET S PROVE IsFiniteSet(s) /\ Sum(f, s) \in Nat
        <3>1. IsFiniteSet(s) /\ \A x \in s : f[x] \in Nat
            BY FS_Subset
        <3> QED BY <3>1, SumNat
    <2>2. \A s \in SUBSET S : Rest(s) \in SUBSET S
        OBVIOUS
    <2> HIDE DEF Rest
    <2> QED BY <2>1, <2>2
<1>2. \A s \in B : \E x \in s : s \ {x} \in B
    <2> SUFFICES ASSUME NEW s \in SUBSET S, ~ Splits(s) PROVE \E x \in s : ~ Splits(s \ {x})
        OBVIOUS
    <2>1. s # {}
        <3>1. Sum(f, {}) = 0 /\ Rest({}) = S
            BY SumEmpty
        <3>2. Splits({})
            <4>1. Sum(f, Rest({})) = Sum(f, S)
                BY <3>1, Zenon
            <4>2. Sum(f, S) \in Nat
                BY <1>1
            <4> HIDE DEF Rest
            <4> QED BY <3>1, <4>1, <4>2
        <3> QED BY <3>2, Zenon
    <2>2. PICK x \in s : TRUE
        BY <2>1
    <2> DEFINE t == s \ {x}
    <2>3. t \in SUBSET S /\ Rest(t) = Rest(s) \cup {x} /\ x \notin Rest(s)
        OBVIOUS
    <2>4. Sum(f, s) = f[x] + Sum(f, t)
        BY <1>1, SumRemove
    <2>5. Sum(f, Rest(s) \cup {x}) = Sum(f, Rest(s)) + f[x]
        <3>1. \A y \in Rest(s) \cup {x} : f[y] \in Nat
            OBVIOUS
        <3> HIDE DEF Rest
        <3> QED BY <1>1, <2>3, <3>1, SumAdd
    <2>6. Sum(f, Rest(t)) = Sum(f, Rest(s)) + f[x]
        BY <2>3, <2>5, Zenon
    <2>7. f[x] \in Nat /\ Sum(f, t) \in Nat /\ Sum(f, Rest(s)) \in Nat
        BY <1>1, <2>3
    <2> HIDE DEF t, Rest
    <2>8. ~ Splits(t)
        BY <2>4, <2>6, <2>7
    <2> QED BY <2>2, <2>8 DEF t
<1>3. B = {}
    BY <1>2, SubsetDescent
<1>4. Splits(T)
    BY <1>3
<1> QED BY <1>4

-----------------------------------------------------------------------------
(***************************************************************************)
(* Sequences: the pending queue's push and swap_remove.                    *)
(***************************************************************************)
\* The pods of a queue with one more.
LEMMA AppendQueue ==
    ASSUME NEW S, NEW q \in Seq(S), NEW p \in S
    PROVE  /\ Append(q, p) \in Seq(S)
           /\ QueueSet(Append(q, p)) = QueueSet(q) \cup {p}
           /\ NoDuplicates(q) /\ p \notin QueueSet(q) => NoDuplicates(Append(q, p))
<1> DEFINE n == Len(q)
           r == Append(q, p)
<1>1. n \in Nat /\ r \in Seq(S) /\ Len(r) = n + 1
    BY AppendProperties, LenProperties
<1>2. \A k \in 1..n + 1 : r[k] = IF k = n + 1 THEN p ELSE q[k]
    BY AppendProperties, LenProperties
<1> HIDE DEF r
<1>3. QueueSet(r) = QueueSet(q) \cup {p}
    BY <1>1, <1>2 DEF QueueSet
<1>4. NoDuplicates(q) /\ p \notin QueueSet(q) => NoDuplicates(r)
    BY <1>1, <1>2 DEF NoDuplicates, QueueSet
<1> QED BY <1>1, <1>3, <1>4 DEF r

\* Popping a non-empty vector keeps what lies before its last element.
LEMMA PopVec ==
    ASSUME NEW S, NEW s \in Seq(S), NEW n \in Nat, Len(s) = n + 1
    PROVE  /\ SubSeq(s, 1, n) \in Seq(S)
           /\ Len(SubSeq(s, 1, n)) = n
           /\ \A k \in 1..n : SubSeq(s, 1, n)[k] = s[k]
<1>1. \A k \in 1..n : s[k] \in S
    <2> TAKE k \in 1..n
    <2>1. k \in 1..Len(s)
        OBVIOUS
    <2> QED BY <2>1, ElementOfSeq
<1>2. /\ SubSeq(s, 1, n) \in Seq(S)
      /\ Len(SubSeq(s, 1, n)) = IF 1 <= n THEN n - 1 + 1 ELSE 0
      /\ \A k \in 1..n - 1 + 1 : SubSeq(s, 1, n)[k] = s[1 + k - 1]
    BY <1>1, SubSeqProperties
<1>3. (IF 1 <= n THEN n - 1 + 1 ELSE 0) = n
    <2>1. CASE 1 <= n
        BY <2>1
    <2>2. CASE ~ (1 <= n)
        BY <2>2
    <2> QED BY <2>1, <2>2
<1>4. \A k \in 1..n : SubSeq(s, 1, n)[k] = s[k]
    <2> TAKE k \in 1..n
    <2>1. k \in 1..n - 1 + 1 /\ 1 + k - 1 = k
        OBVIOUS
    <2> QED BY <1>2, <2>1
<1> QED BY <1>2, <1>3, <1>4

\* A sequence is one over any set that has its members.
LEMMA SeqOver ==
    ASSUME NEW S, NEW q \in Seq(S), NEW T, QueueSet(q) \subseteq T
    PROVE  q \in Seq(T)
<1>1. Len(q) \in Nat /\ q \in [1..Len(q) -> S]
    BY LenProperties
<1>2. \A i \in 1..Len(q) : q[i] \in T
    BY DEF QueueSet
<1>3. q \in [1..Len(q) -> T]
    BY <1>1, <1>2
<1> QED BY <1>1, <1>3, SeqDef

\* An order of a finite set has its members, each once.
LEMMA OrderOf ==
    ASSUME NEW S, IsFiniteSet(S), NEW s \in SetToSeqs(S)
    PROVE  s \in Seq(S) /\ NoDuplicates(s) /\ QueueSet(s) = S
<1> DEFINE k == Cardinality(S)
<1>1. k \in Nat /\ s \in [1..k -> S] /\ \A i, j \in 1..k : i # j => s[i] # s[j]
    BY FS_CardinalityType DEF SetToSeqs
<1> HIDE DEF k
<1>2. s \in Seq(S) /\ Len(s) = k
    BY <1>1, SeqDef, LenProperties
<1>3. NoDuplicates(s)
    BY <1>1, <1>2 DEF NoDuplicates
<1>4. QueueSet(s) = S
    <2>1. IsFiniteSet(1..k) /\ Cardinality(1..k) = k
        BY <1>1, FS_Interval
    <2>2. s \in Injection(1..k, S)
        BY <1>1 DEF Injection, IsInjective
    <2>3. s \in Surjection(1..k, S)
        BY <2>1, <2>2, FS_Injection DEF k
    <2> QED BY <1>1, <1>2, <2>3 DEF Surjection, QueueSet
<1> QED BY <1>2, <1>3, <1>4

\* swap_remove takes exactly p out of a queue without duplicates.
LEMMA SwapRemoveQueue ==
    ASSUME NEW S, NEW q \in Seq(S), NEW p, NoDuplicates(q)
    PROVE  /\ SwapRemove(q, p) \in Seq(S)
           /\ QueueSet(SwapRemove(q, p)) = QueueSet(q) \ {p}
           /\ NoDuplicates(SwapRemove(q, p))
<1>0. DOMAIN q = 1..Len(q) /\ Len(q) \in Nat
    BY LenProperties
<1>1. CASE ~ \E i \in DOMAIN q : q[i] = p
    BY <1>0, <1>1 DEF SwapRemove, QueueSet
<1>2. CASE \E i \in DOMAIN q : q[i] = p
    <2> DEFINE first(i) == q[i] = p /\ \A j \in 1..i - 1 : q[j] # p
               i == CHOOSE i \in DOMAIN q : first(i)
               n == Len(q) - 1
               moved == [q EXCEPT ![i] = q[Len(q)]]
               r == SubSeq(moved, 1, n)
    <2>1. PICK m \in 1..Len(q) : q[m] = p
        BY <1>0, <1>2
    <2>2. first(m)
        <3>1. \A j \in 1..m - 1 : j \in 1..Len(q) /\ j # m
            BY <1>0
        <3> QED BY <2>1, <3>1 DEF NoDuplicates
    <2>3. i \in 1..Len(q) /\ q[i] = p
        BY <1>0, <2>2
    <2>4. SwapRemove(q, p) = r
        BY <1>2 DEF SwapRemove
    <2> HIDE DEF i
    <2>5. q[Len(q)] \in S
        BY <1>0, <2>3, ElementOfSeq
    <2>6. /\ moved \in Seq(S)
          /\ Len(moved) = Len(q)
          /\ \A j \in 1..Len(q) : moved[j] = IF j = i THEN q[Len(q)] ELSE q[j]
        BY <2>3, <2>5, ExceptSeq
    <2>7. n \in Nat /\ Len(q) = n + 1
        BY <1>0, <2>3
    <2> HIDE DEF moved, n
    <2>8. r \in Seq(S) /\ Len(r) = n /\ \A k \in 1..n : r[k] = moved[k]
        BY <2>6, <2>7, PopVec
    <2> HIDE DEF r
    <2>9. \A k \in 1..n : r[k] = IF k = i THEN q[n + 1] ELSE q[k]
        BY <2>6, <2>7, <2>8
    <2>10. \A j, k \in 1..n + 1 : q[j] = q[k] => j = k
        BY <2>7 DEF NoDuplicates
    <2>11. QueueSet(q) = {q[k] : k \in 1..n + 1} /\ QueueSet(r) = {r[k] : k \in 1..n}
        BY <2>7, <2>8 DEF QueueSet
    <2>12. QueueSet(r) \subseteq QueueSet(q) \ {p}
        <3>1. \A k \in 1..n : r[k] \in QueueSet(q) /\ r[k] # p
            <4> TAKE k \in 1..n
            <4>1. CASE k = i
                BY <2>3, <2>7, <2>9, <2>10, <2>11, <4>1
            <4>2. CASE k # i
                BY <2>3, <2>7, <2>9, <2>10, <2>11, <4>2
            <4> QED BY <4>1, <4>2
        <3> QED BY <2>11, <3>1
    <2>13. QueueSet(q) \ {p} \subseteq QueueSet(r)
        <3> SUFFICES ASSUME NEW k \in 1..n + 1, q[k] # p PROVE q[k] \in QueueSet(r)
            BY <2>11
        <3>1. k # i
            BY <2>3
        <3>2. CASE k = n + 1
            <4>1. i \in 1..n
                BY <2>3, <2>7, <3>1, <3>2
            <4> QED BY <2>9, <2>11, <3>2, <4>1
        <3>3. CASE k # n + 1
            <4>1. k \in 1..n
                BY <2>7, <3>3
            <4> QED BY <2>9, <2>11, <3>1, <4>1
        <3> QED BY <3>2, <3>3
    <2>14. NoDuplicates(r)
        <3> SUFFICES ASSUME NEW j \in 1..n, NEW k \in 1..n, r[j] = r[k] PROVE j = k
            BY <2>8 DEF NoDuplicates
        <3>1. j \in 1..n + 1 /\ k \in 1..n + 1 /\ n + 1 \in 1..n + 1 /\ j # n + 1 /\ k # n + 1
            BY <2>7
        <3> QED BY <2>9, <2>10, <3>1
    <2> QED BY <2>4, <2>8, <2>12, <2>13, <2>14
<1> QED BY <1>1, <1>2

-----------------------------------------------------------------------------
(***************************************************************************)
(* Sound clusters.                                                         *)
(***************************************************************************)
\* Where a live pod is: a running one on a node that was added once (and may be gone
\* by now), any other nowhere.
Placed(c) ==
    \A p \in Pod : LivePod(c, p) =>
        \/ c.phase[p] # "Running" /\ c.node[p] = NoNode
        \/ /\ c.phase[p] = "Running"
           /\ c.node[p] \in Node
           /\ c.nodes[c.node[p]] # "fresh"

FiniteLists(c) == \A n \in Node : IsFiniteSet(c.podsOn[n])

Booked(c, n) == c.allocated[n] = Sum(c.requests, c.podsOn[n])

Sound(c) ==
    /\ c \in ClusterType
    /\ LinksAgree(c) /\ AllocationExact(c)
    /\ Placed(c) /\ FiniteLists(c)

\* Pending pods are queued, once; what else is queued is neither fresh nor running.
Queued(c) ==
    /\ NoDuplicates(c.pending_queue)
    /\ \A p \in Pod : /\ Is(c, p, "Pending") => p \in QueueSet(c.pending_queue)
                      /\ p \in QueueSet(c.pending_queue)
                            => c.pods[p] # "fresh" /\ ~ Is(c, p, "Running")

\* A step from c to d that a sound cluster survives, and its queue with it.
Kept(c, d) ==
    /\ Sound(d)
    /\ Queued(c) => Queued(d)
    /\ QueueExact(c) => QueueExact(d)

\* The books of Cluster in terms of Sum.
LEMMA AllocationIs ==
    ASSUME NEW c
    PROVE  AllocationExact(c) <=> \A n \in Node : c.nodes[n] = "live" => Booked(c, n)
BY DEF AllocationExact, Booked, Sum, MapThenSumSet, MapThenFoldSet

\* A record with the right fields, each of the right type, is a cluster.
LEMMA Fields ==
    ASSUME NEW a \in [Node -> Life], NEW b \in [Node -> Nat], NEW d \in [Node -> Nat],
           NEW e \in [Node -> SUBSET Pod], NEW f \in [Pod -> Life],
           NEW g \in [Pod -> PodPhase], NEW h \in [Pod -> Node \cup {NoNode}],
           NEW i \in [Pod -> Nat], NEW j \in [Pod -> ResizeStatus], NEW k \in Seq(Pod)
    PROVE  [nodes |-> a, allocatable |-> b, allocated |-> d, podsOn |-> e,
            pods |-> f, phase |-> g, node |-> h, requests |-> i,
            resize_status |-> j, pending_queue |-> k] \in ClusterType
    BY DEF ClusterType

\* ClusterState::new is a sound cluster with an exact queue.
LEMMA EmptySound == Sound(EmptyCluster) /\ QueueExact(EmptyCluster)
<1>1. EmptyCluster \in ClusterType
    BY EmptySeq, Fields DEF EmptyCluster, Life, PodPhase, ResizeStatus
<1>2. FiniteLists(EmptyCluster)
    BY FS_EmptySet DEF FiniteLists, EmptyCluster
<1>3. AllocationExact(EmptyCluster)
    BY AllocationIs DEF EmptyCluster
<1> QED BY <1>1, <1>2, <1>3, EmptySeq
    DEF EmptyCluster, Sound, QueueExact, QueueSet, NoDuplicates, LinksAgree, Placed, Is, LivePod

\* A queue of pending pods alone is a queue of the kind above.
LEMMA ExactQueued ==
    ASSUME NEW c, c \in ClusterType, QueueExact(c)
    PROVE  Queued(c)
BY DEF QueueExact, Queued, Is, LivePod

\* A step that changes neither the pods' lives nor their phases nor the queue keeps it.
LEMMA QueueSame ==
    ASSUME NEW c, NEW d, d.pods = c.pods, d.phase = c.phase, d.pending_queue = c.pending_queue
    PROVE  /\ Queued(c) => Queued(d)
           /\ QueueExact(c) => QueueExact(d)
BY DEF Queued, QueueExact, Is, LivePod

\* A node that keeps its pods and its allocation keeps its books if the pods keep
\* their requests.
LEMMA BookedSame ==
    ASSUME NEW c \in ClusterType, NEW d, NEW n \in Node, FiniteLists(c), Booked(c, n),
           d.podsOn[n] = c.podsOn[n], d.allocated[n] = c.allocated[n],
           \A p \in c.podsOn[n] : d.requests[p] = c.requests[p]
    PROVE  Booked(d, n)
<1>1. \A p \in c.podsOn[n] : c.requests[p] \in Nat
    BY DEF ClusterType
<1>2. Sum(d.requests, c.podsOn[n]) = Sum(c.requests, c.podsOn[n])
    BY <1>1, SumSame DEF FiniteLists
<1> QED BY <1>2 DEF Booked

-----------------------------------------------------------------------------
(***************************************************************************)
(* Each operation keeps a sound cluster sound, and its queue.              *)
(***************************************************************************)
\* What a node that joins changes.
LEMMA AddNodeFields ==
    ASSUME NEW c \in ClusterType, NEW n \in Node, NEW capacity \in Nat,
           NEW d, d = AddNode(c, n, capacity)
    PROVE  d = [nodes |-> [c.nodes EXCEPT ![n] = "live"],
           allocatable |-> [c.allocatable EXCEPT ![n] = capacity],
           allocated |-> [c.allocated EXCEPT ![n] = 0],
           podsOn |-> [c.podsOn EXCEPT ![n] = {}],
           pods |-> c.pods, phase |-> c.phase, node |-> c.node, requests |-> c.requests,
           resize_status |-> c.resize_status, pending_queue |-> c.pending_queue]
    BY DEF ClusterType, AddNode

\* add_node: a fresh node lists nothing and books nothing.
LEMMA AddNodeKept ==
    ASSUME NEW c, Sound(c), NEW n \in Node, NEW capacity \in Nat, c.nodes[n] = "fresh",
           NEW d, d = AddNode(c, n, capacity)
    PROVE  Kept(c, d)
<1> USE DEF Sound
<1>1. d = [nodes |-> [c.nodes EXCEPT ![n] = "live"],
           allocatable |-> [c.allocatable EXCEPT ![n] = capacity],
           allocated |-> [c.allocated EXCEPT ![n] = 0],
           podsOn |-> [c.podsOn EXCEPT ![n] = {}],
           pods |-> c.pods, phase |-> c.phase, node |-> c.node, requests |-> c.requests,
           resize_status |-> c.resize_status, pending_queue |-> c.pending_queue]
    BY AddNodeFields
<1>2. d \in ClusterType
    <2>1. /\ [c.nodes EXCEPT ![n] = "live"] \in [Node -> Life]
          /\ [c.allocatable EXCEPT ![n] = capacity] \in [Node -> Nat]
          /\ [c.allocated EXCEPT ![n] = 0] \in [Node -> Nat]
          /\ [c.podsOn EXCEPT ![n] = {}] \in [Node -> SUBSET Pod]
        BY DEF ClusterType, Life
    <2> QED BY <1>1, <2>1, Fields DEF ClusterType
<1>3. /\ d.phase = c.phase /\ d.pods = c.pods /\ d.node = c.node
      /\ d.requests = c.requests /\ d.pending_queue = c.pending_queue
      /\ d.podsOn[n] = {} /\ d.allocated[n] = 0
      /\ \A m \in Node \ {n} : /\ d.podsOn[m] = c.podsOn[m] /\ d.nodes[m] = c.nodes[m]
                               /\ d.allocated[m] = c.allocated[m]
    BY <1>1 DEF ClusterType
<1>4. LinksAgree(d)
    <2>1. \A p \in Pod : Is(c, p, "Running") => c.node[p] # n
        BY DEF Placed, Is
    <2> QED BY <2>1, <1>3 DEF LinksAgree, Is, LivePod
<1>5. Placed(d)
    BY <1>1 DEF ClusterType, Placed, LivePod
<1>6. FiniteLists(d)
    BY <1>3, FS_EmptySet DEF FiniteLists
<1>7. AllocationExact(d)
    <2> SUFFICES ASSUME NEW m \in Node, d.nodes[m] = "live" PROVE Booked(d, m)
        BY AllocationIs
    <2>1. CASE m = n
        BY <1>3, <2>1, SumEmpty DEF Booked
    <2>2. CASE m # n
        BY <1>3, <2>2, AllocationIs, BookedSame
    <2> QED BY <2>1, <2>2
<1> QED BY <1>2, <1>3, <1>4, <1>5, <1>6, <1>7, QueueSame DEF Kept

\* The fields after remove_node.
LEMMA RemoveNodeFields ==
    ASSUME NEW c \in ClusterType, NEW n \in Node, LiveNode(c, n), NEW d, d = RemoveNode(c, n)
    PROVE  d = [nodes |-> [c.nodes EXCEPT ![n] = "gone"],
                allocatable |-> [c.allocatable EXCEPT ![n] = 0],
                allocated |-> [c.allocated EXCEPT ![n] = 0],
                podsOn |-> [c.podsOn EXCEPT ![n] = {}],
                pods |-> c.pods, phase |-> c.phase, node |-> c.node, requests |-> c.requests,
                resize_status |-> c.resize_status, pending_queue |-> c.pending_queue]
    BY DEF ClusterType, RemoveNode

\* remove_node: the pods it leaves behind name a node that is gone.
LEMMA RemoveNodeKept ==
    ASSUME NEW c, Sound(c), NEW n \in Node, NEW d, d = RemoveNode(c, n)
    PROVE  Kept(c, d)
<1> USE DEF Sound
<1>1. CASE ~ LiveNode(c, n)
    BY <1>1 DEF RemoveNode, Kept
<1>2. CASE LiveNode(c, n)
    <2>1. d = [nodes |-> [c.nodes EXCEPT ![n] = "gone"],
               allocatable |-> [c.allocatable EXCEPT ![n] = 0],
               allocated |-> [c.allocated EXCEPT ![n] = 0],
               podsOn |-> [c.podsOn EXCEPT ![n] = {}],
               pods |-> c.pods, phase |-> c.phase, node |-> c.node, requests |-> c.requests,
               resize_status |-> c.resize_status, pending_queue |-> c.pending_queue]
        BY <1>2, RemoveNodeFields
    <2>2. d \in ClusterType
        <3>1. /\ [c.nodes EXCEPT ![n] = "gone"] \in [Node -> Life]
              /\ [c.allocatable EXCEPT ![n] = 0] \in [Node -> Nat]
              /\ [c.allocated EXCEPT ![n] = 0] \in [Node -> Nat]
              /\ [c.podsOn EXCEPT ![n] = {}] \in [Node -> SUBSET Pod]
            BY DEF ClusterType, Life
        <3> QED BY <2>1, <3>1, Fields DEF ClusterType
    <2>3. /\ d.phase = c.phase /\ d.pods = c.pods /\ d.node = c.node
          /\ d.requests = c.requests /\ d.pending_queue = c.pending_queue
          /\ d.nodes[n] = "gone" /\ d.podsOn[n] = {}
          /\ \A m \in Node \ {n} : /\ d.podsOn[m] = c.podsOn[m] /\ d.nodes[m] = c.nodes[m]
                                   /\ d.allocated[m] = c.allocated[m]
        BY <2>1 DEF ClusterType
    <2>4. LinksAgree(d)
        BY <2>3 DEF LinksAgree, Is, LivePod
    <2>5. Placed(d)
        BY <2>1 DEF ClusterType, Placed, LivePod
    <2>6. FiniteLists(d)
        BY <2>3, FS_EmptySet DEF FiniteLists
    <2>7. AllocationExact(d)
        <3> SUFFICES ASSUME NEW m \in Node, d.nodes[m] = "live" PROVE Booked(d, m)
            BY AllocationIs
        <3>1. m # n
            BY <2>3
        <3> QED BY <2>3, <3>1, AllocationIs, BookedSame
    <2> QED BY <2>2, <2>3, <2>4, <2>5, <2>6, <2>7, QueueSame DEF Kept
<1> QED BY <1>1, <1>2

\* The fields after submit_pod.
LEMMA SubmitPodFields ==
    ASSUME NEW c \in ClusterType, NEW p \in Pod, NEW size \in Nat,
           NEW d, d = SubmitPod(c, p, size)
    PROVE  d = [nodes |-> c.nodes, allocatable |-> c.allocatable, allocated |-> c.allocated,
           podsOn |-> c.podsOn, pods |-> [c.pods EXCEPT ![p] = "live"],
           phase |-> [c.phase EXCEPT ![p] = "Pending"],
           node |-> [c.node EXCEPT ![p] = NoNode],
           requests |-> [c.requests EXCEPT ![p] = size],
           resize_status |-> c.resize_status, pending_queue |-> Append(c.pending_queue, p)]
    BY DEF ClusterType, SubmitPod

\* submit_pod: a fresh pod is on no node and not yet on the queue.
LEMMA SubmitPodKept ==
    ASSUME NEW c, Sound(c), NEW p \in Pod, NEW size \in Nat, c.pods[p] = "fresh",
           NEW d, d = SubmitPod(c, p, size)
    PROVE  Kept(c, d)
<1> USE DEF Sound
<1>1. d = [nodes |-> c.nodes, allocatable |-> c.allocatable, allocated |-> c.allocated,
           podsOn |-> c.podsOn, pods |-> [c.pods EXCEPT ![p] = "live"],
           phase |-> [c.phase EXCEPT ![p] = "Pending"],
           node |-> [c.node EXCEPT ![p] = NoNode],
           requests |-> [c.requests EXCEPT ![p] = size],
           resize_status |-> c.resize_status, pending_queue |-> Append(c.pending_queue, p)]
    BY SubmitPodFields
<1>2. c.pending_queue \in Seq(Pod)
    BY DEF ClusterType
<1>3. /\ d.pending_queue \in Seq(Pod)
      /\ QueueSet(d.pending_queue) = QueueSet(c.pending_queue) \cup {p}
      /\ NoDuplicates(c.pending_queue) /\ p \notin QueueSet(c.pending_queue)
            => NoDuplicates(d.pending_queue)
    BY <1>1, <1>2, AppendQueue
<1>4. d \in ClusterType
    <2>1. /\ [c.pods EXCEPT ![p] = "live"] \in [Pod -> Life]
          /\ [c.phase EXCEPT ![p] = "Pending"] \in [Pod -> PodPhase]
          /\ [c.node EXCEPT ![p] = NoNode] \in [Pod -> Node \cup {NoNode}]
          /\ [c.requests EXCEPT ![p] = size] \in [Pod -> Nat]
        BY DEF ClusterType, Life, PodPhase
    <2> QED BY <1>1, <1>3, <2>1, Fields DEF ClusterType
<1>5. /\ \A r \in Pod : Is(d, r, "Pending") <=> Is(c, r, "Pending") \/ r = p
      /\ \A r \in Pod : Is(d, r, "Running") <=> Is(c, r, "Running")
      /\ d.pods[p] # "fresh" /\ \A r \in Pod \ {p} : d.pods[r] = c.pods[r]
      /\ ~ Is(d, p, "Running")
    BY <1>1 DEF ClusterType, Is, LivePod
<1>6. Queued(c) => Queued(d)
    BY <1>3, <1>5 DEF Queued
<1>7. QueueExact(c) => QueueExact(d)
    <2>1. QueueExact(c) => p \notin QueueSet(c.pending_queue)
        BY DEF QueueExact, Is, LivePod
    <2> QED BY <1>3, <1>5, <2>1 DEF QueueExact
<1>8. LinksAgree(d)
    BY <1>1, <1>5 DEF ClusterType, LinksAgree, Is, LivePod
<1>9. Placed(d)
    BY <1>1 DEF ClusterType, Placed, LivePod
<1>10. FiniteLists(d)
    BY <1>1 DEF FiniteLists
<1>11. AllocationExact(d)
    <2> SUFFICES ASSUME NEW m \in Node, d.nodes[m] = "live" PROVE Booked(d, m)
        BY AllocationIs
    <2>1. c.nodes[m] = "live" /\ d.podsOn[m] = c.podsOn[m] /\ d.allocated[m] = c.allocated[m]
        BY <1>1
    <2>2. \A r \in c.podsOn[m] : r # p /\ d.requests[r] = c.requests[r]
        <3>1. \A r \in c.podsOn[m] : Is(c, r, "Running") /\ r \in Pod
            BY <2>1 DEF LinksAgree, ClusterType
        <3> QED BY <1>1, <3>1 DEF Is, LivePod, ClusterType
    <2> QED BY <2>1, <2>2, AllocationIs, BookedSame
<1> QED BY <1>4, <1>6, <1>7, <1>8, <1>9, <1>10, <1>11 DEF Kept

\* The fields after bind_pod, when it binds.
LEMMA BindPodFields ==
    ASSUME NEW c \in ClusterType, NEW p \in Pod, NEW n \in Node, CanBind(c, p, n),
           NEW d, d = BindPod(c, p, n)
    PROVE  d = [nodes |-> c.nodes, allocatable |-> c.allocatable,
                allocated |-> [c.allocated EXCEPT ![n] = @ + c.requests[p]],
                podsOn |-> [c.podsOn EXCEPT ![n] = @ \cup {p}],
                pods |-> c.pods, phase |-> [c.phase EXCEPT ![p] = "Running"],
                node |-> [c.node EXCEPT ![p] = n], requests |-> c.requests,
                resize_status |-> c.resize_status,
                pending_queue |-> SwapRemove(c.pending_queue, p)]
    BY DEF ClusterType, BindPod

\* The type does not depend on the queue's being free of duplicates.
LEMMA SwapRemoveType ==
    ASSUME NEW S, NEW q \in Seq(S), NEW p
    PROVE  SwapRemove(q, p) \in Seq(S)
<1>0. DOMAIN q = 1..Len(q) /\ Len(q) \in Nat
    BY LenProperties
<1>1. CASE ~ \E i \in DOMAIN q : q[i] = p
    BY <1>1 DEF SwapRemove
<1>2. CASE \E i \in DOMAIN q : q[i] = p
    <2> DEFINE k == CHOOSE i \in DOMAIN q : q[i] = p /\ \A j \in 1..i - 1 : q[j] # p
               moved == [q EXCEPT ![k] = q[Len(q)]]
               n == Len(q) - 1
    <2>1. n \in Nat /\ Len(q) = n + 1 /\ q[Len(q)] \in S
        BY <1>0, <1>2, ElementOfSeq
    <2>2. moved \in Seq(S) /\ Len(moved) = Len(q)
        <3>1. \A j \in 1..Len(q) : q[j] \in S
            BY ElementOfSeq
        <3> HIDE DEF k
        <3>2. moved \in [1..Len(q) -> S]
            BY <1>0, <2>1, <3>1
        <3> QED BY <1>0, <3>2, LenProperties, SeqDef
    <2>3. SwapRemove(q, p) = SubSeq(moved, 1, n)
        BY <1>2 DEF SwapRemove
    <2> HIDE DEF moved, n
    <2> QED BY <2>1, <2>2, <2>3, PopVec
<1> QED BY <1>1, <1>2

\* bind_pod: the node lists the pod and books what it requests, the queue lets it go.
LEMMA BindPodKept ==
    ASSUME NEW c, Sound(c), NEW p \in Pod, NEW n \in Node, NEW d, d = BindPod(c, p, n)
    PROVE  Kept(c, d)
<1> USE DEF Sound
<1>1. CASE ~ CanBind(c, p, n)
    BY <1>1 DEF BindPod, Kept
<1>2. CASE CanBind(c, p, n)
    <2>1. d = [nodes |-> c.nodes, allocatable |-> c.allocatable,
               allocated |-> [c.allocated EXCEPT ![n] = @ + c.requests[p]],
               podsOn |-> [c.podsOn EXCEPT ![n] = @ \cup {p}],
               pods |-> c.pods, phase |-> [c.phase EXCEPT ![p] = "Running"],
               node |-> [c.node EXCEPT ![p] = n], requests |-> c.requests,
               resize_status |-> c.resize_status,
               pending_queue |-> SwapRemove(c.pending_queue, p)]
        BY <1>2, BindPodFields
    <2>2. /\ d.pending_queue \in Seq(Pod)
          /\ NoDuplicates(c.pending_queue) =>
                /\ QueueSet(d.pending_queue) = QueueSet(c.pending_queue) \ {p}
                /\ NoDuplicates(d.pending_queue)
        BY <2>1, SwapRemoveType, SwapRemoveQueue DEF ClusterType
    <2>3. d \in ClusterType
        <3>1. /\ [c.allocated EXCEPT ![n] = @ + c.requests[p]] \in [Node -> Nat]
              /\ [c.podsOn EXCEPT ![n] = @ \cup {p}] \in [Node -> SUBSET Pod]
              /\ [c.phase EXCEPT ![p] = "Running"] \in [Pod -> PodPhase]
              /\ [c.node EXCEPT ![p] = n] \in [Pod -> Node \cup {NoNode}]
            BY DEF ClusterType, PodPhase
        <3> QED BY <2>1, <2>2, <3>1, Fields DEF ClusterType
    <2>4. /\ \A r \in Pod : Is(d, r, "Pending") <=> Is(c, r, "Pending") /\ r # p
          /\ \A r \in Pod : Is(d, r, "Running") <=> Is(c, r, "Running") \/ r = p
          /\ d.pods = c.pods
        BY <1>2, <2>1 DEF ClusterType, Is, LivePod, CanBind
    <2>5. QueueExact(c) => QueueExact(d)
        BY <2>2, <2>4 DEF QueueExact
    <2>6. Queued(c) => Queued(d)
        BY <2>2, <2>4 DEF Queued
    <2>7. LinksAgree(d)
        BY <1>2, <2>1 DEF ClusterType, LinksAgree, CanBind, Is, LivePod, LiveNode, Placed
    <2>8. Placed(d)
        BY <1>2, <2>1 DEF ClusterType, Placed, LivePod, CanBind, LiveNode
    <2>9. /\ p \notin c.podsOn[n] /\ IsFiniteSet(c.podsOn[n]) /\ c.podsOn[n] \subseteq Pod
          /\ c.nodes[n] = "live"
        BY <1>2 DEF LinksAgree, CanBind, Is, LiveNode, FiniteLists, ClusterType
    <2>10. \A m \in Node \ {n} : d.podsOn[m] = c.podsOn[m] /\ d.allocated[m] = c.allocated[m]
        BY <2>1 DEF ClusterType
    <2>11. d.podsOn[n] = c.podsOn[n] \cup {p} /\ d.allocated[n] = c.allocated[n] + c.requests[p]
        BY <2>1 DEF ClusterType
    <2>12. FiniteLists(d)
        BY <2>9, <2>10, <2>11, FS_AddElement DEF FiniteLists
    <2>13. AllocationExact(d)
        <3> SUFFICES ASSUME NEW m \in Node, d.nodes[m] = "live" PROVE Booked(d, m)
            BY AllocationIs
        <3>0. d.nodes = c.nodes /\ d.requests = c.requests
            BY <2>1
        <3>1. CASE m = n
            <4>1. \A r \in c.podsOn[n] \cup {p} : c.requests[r] \in Nat
                BY <2>9 DEF ClusterType
            <4>2. Sum(c.requests, c.podsOn[n] \cup {p}) = Sum(c.requests, c.podsOn[n]) + c.requests[p]
                BY <2>9, <4>1, SumAdd
            <4>3. Booked(c, n)
                BY <2>9, AllocationIs
            <4> QED BY <2>11, <3>0, <3>1, <4>2, <4>3 DEF Booked
        <3>2. CASE m # n
            BY <2>10, <3>0, <3>2, AllocationIs, BookedSame
        <3> QED BY <3>1, <3>2
    <2> QED BY <2>3, <2>5, <2>6, <2>7, <2>8, <2>12, <2>13 DEF Kept
<1> QED BY <1>1, <1>2

\* What Release leaves: the pod's share of a live node taken back, nothing else.
Released(c, p, n, a, b) ==
    /\ a \in [Node -> Nat]
    /\ b \in [Node -> SUBSET Pod]
    /\ \A m \in Node : /\ b[m] = IF m = n /\ LiveNode(c, m) THEN c.podsOn[m] \ {p} ELSE c.podsOn[m]
                       /\ a[m] = IF m = n /\ LiveNode(c, m)
                                 THEN SatSub(c.allocated[m], c.requests[p]) ELSE c.allocated[m]
    /\ Release(c, p, n) =
          [nodes |-> c.nodes, allocatable |-> c.allocatable, allocated |-> a, podsOn |-> b,
           pods |-> c.pods, phase |-> c.phase, node |-> c.node, requests |-> c.requests,
           resize_status |-> c.resize_status, pending_queue |-> c.pending_queue]

\* Giving back what a pod holds changes the books and the list of one live node alone.
LEMMA ReleaseFields ==
    ASSUME NEW c \in ClusterType, NEW p \in Pod, NEW n
    PROVE  \E a, b : Released(c, p, n, a, b)
<1>1. CASE ~ LiveNode(c, n)
    <2>1. Released(c, p, n, c.allocated, c.podsOn)
        BY <1>1 DEF Released, ClusterType, Release
    <2> QED BY <2>1
<1>2. CASE LiveNode(c, n)
    <2> DEFINE x == SatSub(c.allocated[n], c.requests[p])
               a == [c.allocated EXCEPT ![n] = x]
               b == [c.podsOn EXCEPT ![n] = @ \ {p}]
               r == Release(c, p, n)
    <2>0. n \in Node
        BY <1>2 DEF LiveNode
    <2>1. r = [c EXCEPT !.allocated[n] = x, !.podsOn[n] = @ \ {p}]
        BY <1>2 DEF Release
    <2>2. x \in Nat
        BY <2>0 DEF ClusterType, SatSub
    <2> HIDE DEF x, r
    <2>3. r = [nodes |-> c.nodes, allocatable |-> c.allocatable, allocated |-> a, podsOn |-> b,
               pods |-> c.pods, phase |-> c.phase, node |-> c.node,
               requests |-> c.requests, resize_status |-> c.resize_status,
               pending_queue |-> c.pending_queue]
        BY <2>0, <2>1 DEF ClusterType
    <2>4. a \in [Node -> Nat] /\ b \in [Node -> SUBSET Pod]
        BY <2>0, <2>2 DEF ClusterType
    <2>5. \A m \in Node : /\ b[m] = IF m = n THEN c.podsOn[m] \ {p} ELSE c.podsOn[m]
                          /\ a[m] = IF m = n THEN x ELSE c.allocated[m]
        BY <2>0 DEF ClusterType
    <2> HIDE DEF a, b
    <2>6. Released(c, p, n, a, b)
        BY <1>2, <2>3, <2>4, <2>5 DEF Released, r, x
    <2> QED BY <2>6
<1> QED BY <1>1, <1>2

\* What a running pod held on its node is what the books of the node lose.
LEMMA ReleasedBooked ==
    ASSUME NEW c, Sound(c), NEW p \in Pod, Is(c, p, "Running"), NEW a, NEW b,
           Released(c, p, c.node[p], a, b), NEW m \in Node, c.nodes[m] = "live"
    PROVE  a[m] = Sum(c.requests, b[m])
<1> USE DEF Sound
<1>0. Booked(c, m) /\ IsFiniteSet(c.podsOn[m]) /\ \A r \in c.podsOn[m] : c.requests[r] \in Nat
    BY AllocationIs DEF FiniteLists, ClusterType
<1>1. CASE m = c.node[p]
    <2>1. p \in c.podsOn[m] /\ LiveNode(c, m)
        BY <1>1 DEF LinksAgree, LiveNode
    <2>2. b[m] = c.podsOn[m] \ {p} /\ a[m] = SatSub(c.allocated[m], c.requests[p])
        BY <1>1, <2>1 DEF Released
    <2>3. Sum(c.requests, c.podsOn[m]) = c.requests[p] + Sum(c.requests, c.podsOn[m] \ {p})
        BY <1>0, <2>1, SumRemove
    <2>4. Sum(c.requests, c.podsOn[m] \ {p}) \in Nat
        <3>1. IsFiniteSet(c.podsOn[m] \ {p})
            BY <1>0, FS_RemoveElement
        <3> QED BY <1>0, <3>1, SumNat
    <2>5. c.requests[p] \in Nat
        BY DEF ClusterType
    <2>6. a[m] = Sum(c.requests, c.podsOn[m] \ {p})
        BY <1>0, <2>2, <2>3, <2>4, <2>5 DEF Booked, SatSub
    <2> QED BY <2>2, <2>6, Zenon
<1>2. CASE m # c.node[p]
    BY <1>0, <1>2 DEF Released, Booked
<1> QED BY <1>1, <1>2

\* The fields after evict_pod, when it evicts.
LEMMA EvictPodFields ==
    ASSUME NEW c \in ClusterType, NEW p \in Pod, CanEvict(c, p), NEW d, d = EvictPod(c, p)
    PROVE  \E a, b :
              /\ Released(c, p, c.node[p], a, b)
              /\ d = [nodes |-> c.nodes, allocatable |-> c.allocatable, allocated |-> a,
                      podsOn |-> b, pods |-> c.pods,
                      phase |-> [c.phase EXCEPT ![p] = "Pending"],
                      node |-> [c.node EXCEPT ![p] = NoNode], requests |-> c.requests,
                      resize_status |-> c.resize_status,
                      pending_queue |-> Append(c.pending_queue, p)]
<1> DEFINE r == Release(c, p, c.node[p])
<1>1. PICK a, b : Released(c, p, c.node[p], a, b)
    BY ReleaseFields
<1>2. d = [r EXCEPT !.phase[p] = "Pending", !.node[p] = NoNode,
                    !.pending_queue = Append(r.pending_queue, p)]
    BY DEF EvictPod
<1>3. r = [nodes |-> c.nodes, allocatable |-> c.allocatable, allocated |-> a, podsOn |-> b,
           pods |-> c.pods, phase |-> c.phase, node |-> c.node, requests |-> c.requests,
           resize_status |-> c.resize_status, pending_queue |-> c.pending_queue]
    BY <1>1 DEF Released
<1> HIDE DEF r
<1>4. d = [nodes |-> c.nodes, allocatable |-> c.allocatable, allocated |-> a,
           podsOn |-> b, pods |-> c.pods,
           phase |-> [c.phase EXCEPT ![p] = "Pending"],
           node |-> [c.node EXCEPT ![p] = NoNode], requests |-> c.requests,
           resize_status |-> c.resize_status,
           pending_queue |-> Append(c.pending_queue, p)]
    BY <1>2, <1>3 DEF ClusterType
<1> QED BY <1>1, <1>4

\* evict_pod keeps the shape of the cluster.
LEMMA EvictPodType ==
    ASSUME NEW c \in ClusterType, NEW p \in Pod, NEW d, d = EvictPod(c, p)
    PROVE  d \in ClusterType
<1>1. CASE ~ CanEvict(c, p)
    BY <1>1 DEF EvictPod
<1>2. CASE CanEvict(c, p)
    <2>1. PICK a, b :
              /\ Released(c, p, c.node[p], a, b)
              /\ d = [nodes |-> c.nodes, allocatable |-> c.allocatable, allocated |-> a,
                      podsOn |-> b, pods |-> c.pods,
                      phase |-> [c.phase EXCEPT ![p] = "Pending"],
                      node |-> [c.node EXCEPT ![p] = NoNode], requests |-> c.requests,
                      resize_status |-> c.resize_status,
                      pending_queue |-> Append(c.pending_queue, p)]
        BY <1>2, EvictPodFields
    <2>2. Append(c.pending_queue, p) \in Seq(Pod)
        BY AppendProperties DEF ClusterType
    <2>3. /\ [c.phase EXCEPT ![p] = "Pending"] \in [Pod -> PodPhase]
          /\ [c.node EXCEPT ![p] = NoNode] \in [Pod -> Node \cup {NoNode}]
        BY DEF ClusterType, PodPhase
    <2> QED BY <2>1, <2>2, <2>3, Fields DEF ClusterType, Released
<1> QED BY <1>1, <1>2

\* evict_pod: the node gives back what the pod requests, the queue gets it once.
LEMMA EvictPodKept ==
    ASSUME NEW c, Sound(c), NEW p \in Pod, NEW d, d = EvictPod(c, p)
    PROVE  Kept(c, d)
<1> USE DEF Sound
<1>1. CASE ~ CanEvict(c, p)
    BY <1>1 DEF EvictPod, Kept
<1>2. CASE CanEvict(c, p)
    <2>1. PICK a, b :
              /\ Released(c, p, c.node[p], a, b)
              /\ d = [nodes |-> c.nodes, allocatable |-> c.allocatable, allocated |-> a,
                      podsOn |-> b, pods |-> c.pods,
                      phase |-> [c.phase EXCEPT ![p] = "Pending"],
                      node |-> [c.node EXCEPT ![p] = NoNode], requests |-> c.requests,
                      resize_status |-> c.resize_status,
                      pending_queue |-> Append(c.pending_queue, p)]
        BY <1>2, EvictPodFields
    <2>2. d \in ClusterType
        BY EvictPodType
    <2>3. /\ QueueSet(d.pending_queue) = QueueSet(c.pending_queue) \cup {p}
          /\ NoDuplicates(c.pending_queue) /\ p \notin QueueSet(c.pending_queue)
                => NoDuplicates(d.pending_queue)
        BY <2>1, AppendQueue DEF ClusterType
    <2>4. /\ \A q \in Pod : /\ Is(d, q, "Running") <=> Is(c, q, "Running") /\ q # p
                            /\ Is(d, q, "Pending") <=> Is(c, q, "Pending") \/ q = p
          /\ d.pods = c.pods /\ Is(c, p, "Running") /\ c.pods[p] # "fresh"
        BY <1>2, <2>1 DEF ClusterType, Is, LivePod, CanEvict
    <2>5. QueueExact(c) => QueueExact(d)
        <3>1. QueueExact(c) => p \notin QueueSet(c.pending_queue)
            BY <2>4 DEF QueueExact, Is
        <3> QED BY <2>3, <2>4, <3>1 DEF QueueExact
    <2>6. Queued(c) => Queued(d)
        BY <2>3, <2>4 DEF Queued
    <2>7. LinksAgree(d)
        <3>1. \A q \in Pod \ {p} : d.node[q] = c.node[q]
            BY <2>1 DEF ClusterType
        <3>2. d.nodes = c.nodes /\ d.podsOn = b
            BY <2>1
        <3> SUFFICES ASSUME NEW m \in Node, c.nodes[m] = "live", NEW q \in Pod
                     PROVE  q \in d.podsOn[m] <=> Is(d, q, "Running") /\ d.node[q] = m
            BY <3>2 DEF LinksAgree
        <3>3. LiveNode(c, m)
            BY DEF LiveNode
        <3>4. q \in c.podsOn[m] <=> Is(c, q, "Running") /\ c.node[q] = m
            BY DEF LinksAgree
        <3> QED BY <2>1, <2>4, <3>1, <3>2, <3>3, <3>4 DEF Released
    <2>8. Placed(d)
        BY <2>1 DEF ClusterType, Placed, LivePod
    <2>9. FiniteLists(d)
        <3>1. \A m \in Node : d.podsOn[m] = c.podsOn[m] \/ d.podsOn[m] = c.podsOn[m] \ {p}
            BY <2>1 DEF Released
        <3>2. \A m \in Node : IsFiniteSet(c.podsOn[m]) /\ IsFiniteSet(c.podsOn[m] \ {p})
            BY FS_Subset DEF FiniteLists
        <3> QED BY <3>1, <3>2 DEF FiniteLists
    <2>10. AllocationExact(d)
        <3> SUFFICES ASSUME NEW m \in Node, d.nodes[m] = "live" PROVE Booked(d, m)
            BY AllocationIs
        <3>1. a[m] = Sum(c.requests, b[m])
            BY <2>1, <2>4, ReleasedBooked
        <3> QED BY <2>1, <3>1 DEF Booked
    <2> QED BY <2>2, <2>5, <2>6, <2>7, <2>8, <2>9, <2>10 DEF Kept
<1> QED BY <1>1, <1>2

\* A resize that is granted.
LEMMA ResizeGranted ==
    ASSUME NEW c \in ClusterType, NEW p \in Pod, NEW size \in Nat, NEW n, n = c.node[p],
           CanResize(c, p), ResizeFits(c, p, size), NEW d, d = ResizePod(c, p, size)
    PROVE  /\ n \in Node
           /\ d = [nodes |-> c.nodes, allocatable |-> c.allocatable,
                   allocated |-> [c.allocated EXCEPT ![n] = SatSub(@, c.requests[p]) + size],
                   podsOn |-> c.podsOn, pods |-> c.pods, phase |-> c.phase, node |-> c.node,
                   requests |-> [c.requests EXCEPT ![p] = size],
                   resize_status |-> [c.resize_status EXCEPT ![p] = "Completed"],
                   pending_queue |-> c.pending_queue]
<1>1. n \in Node
    BY DEF CanResize, LiveNode
<1>2. d = [c EXCEPT !.allocated[n] = SatSub(c.allocated[n], c.requests[p]) + size,
                    !.requests[p] = size, !.resize_status[p] = "Completed"]
    BY DEF ResizePod
<1>3. d = [nodes |-> c.nodes, allocatable |-> c.allocatable,
           allocated |-> [c.allocated EXCEPT ![n] = SatSub(c.allocated[n], c.requests[p]) + size],
           podsOn |-> c.podsOn, pods |-> c.pods, phase |-> c.phase, node |-> c.node,
           requests |-> [c.requests EXCEPT ![p] = size],
           resize_status |-> [c.resize_status EXCEPT ![p] = "Completed"],
           pending_queue |-> c.pending_queue]
    BY <1>1, <1>2 DEF ClusterType
<1> QED BY <1>1, <1>3

\* A resize that is refused changes its own status alone.
LEMMA ResizeRefused ==
    ASSUME NEW c \in ClusterType, NEW p \in Pod, NEW size \in Nat,
           ~ CanResize(c, p) \/ ~ ResizeFits(c, p, size), NEW d, d = ResizePod(c, p, size)
    PROVE  \E status \in [Pod -> ResizeStatus] :
               d = [nodes |-> c.nodes, allocatable |-> c.allocatable, allocated |-> c.allocated,
                    podsOn |-> c.podsOn, pods |-> c.pods, phase |-> c.phase, node |-> c.node,
                    requests |-> c.requests, resize_status |-> status,
                    pending_queue |-> c.pending_queue]
<1> DEFINE Outcome(status) ==
               [nodes |-> c.nodes, allocatable |-> c.allocatable, allocated |-> c.allocated,
                podsOn |-> c.podsOn, pods |-> c.pods, phase |-> c.phase, node |-> c.node,
                requests |-> c.requests, resize_status |-> status,
                pending_queue |-> c.pending_queue]
<1>1. CASE ~ CanResize(c, p)
    <2>1. d = Outcome(c.resize_status) /\ c.resize_status \in [Pod -> ResizeStatus]
        BY <1>1 DEF ResizePod, ClusterType
    <2> QED BY <2>1
<1>2. CASE CanResize(c, p)
    <2> DEFINE status == [c.resize_status EXCEPT ![p] = "Infeasible"]
    <2>1. d = [c EXCEPT !.resize_status[p] = "Infeasible"]
        BY <1>2 DEF ResizePod
    <2>2. d = Outcome(status) /\ status \in [Pod -> ResizeStatus]
        BY <2>1 DEF ClusterType, ResizeStatus
    <2> QED BY <2>2
<1> QED BY <1>1, <1>2

\* resize_pod_requests keeps the shape of the cluster.
LEMMA ResizePodType ==
    ASSUME NEW c \in ClusterType, NEW p \in Pod, NEW size \in Nat,
           NEW d, d = ResizePod(c, p, size)
    PROVE  d \in ClusterType
<1>1. CASE ~ CanResize(c, p) \/ ~ ResizeFits(c, p, size)
    <2>1. PICK status \in [Pod -> ResizeStatus] :
               d = [nodes |-> c.nodes, allocatable |-> c.allocatable, allocated |-> c.allocated,
                    podsOn |-> c.podsOn, pods |-> c.pods, phase |-> c.phase, node |-> c.node,
                    requests |-> c.requests, resize_status |-> status,
                    pending_queue |-> c.pending_queue]
        BY <1>1, ResizeRefused
    <2> QED BY <2>1, Fields DEF ClusterType
<1>2. CASE CanResize(c, p) /\ ResizeFits(c, p, size)
    <2> DEFINE n == c.node[p]
               x == SatSub(c.allocated[n], c.requests[p]) + size
    <2>1. /\ n \in Node
          /\ d = [nodes |-> c.nodes, allocatable |-> c.allocatable,
                   allocated |-> [c.allocated EXCEPT ![n] = x],
                   podsOn |-> c.podsOn, pods |-> c.pods, phase |-> c.phase, node |-> c.node,
                   requests |-> [c.requests EXCEPT ![p] = size],
                   resize_status |-> [c.resize_status EXCEPT ![p] = "Completed"],
                   pending_queue |-> c.pending_queue]
        BY <1>2, ResizeGranted
    <2>2. x \in Nat
        BY <2>1 DEF ClusterType, SatSub
    <2> HIDE DEF x
    <2>3. /\ [c.allocated EXCEPT ![n] = x] \in [Node -> Nat]
          /\ [c.requests EXCEPT ![p] = size] \in [Pod -> Nat]
          /\ [c.resize_status EXCEPT ![p] = "Completed"] \in [Pod -> ResizeStatus]
        BY <2>1, <2>2 DEF ClusterType, ResizeStatus
    <2> HIDE DEF n
    <2> QED BY <2>1, <2>3, Fields DEF ClusterType
<1> QED BY <1>1, <1>2

\* resize_pod_requests: the node books the new request in place of the old one.
LEMMA ResizePodKept ==
    ASSUME NEW c, Sound(c), NEW p \in Pod, NEW size \in Nat, NEW d, d = ResizePod(c, p, size)
    PROVE  Kept(c, d)
<1> USE DEF Sound
<1>1. CASE ~ CanResize(c, p) \/ ~ ResizeFits(c, p, size)
    <2>1. d \in ClusterType
        BY ResizePodType
    <2>2. /\ d.nodes = c.nodes /\ d.podsOn = c.podsOn /\ d.pods = c.pods /\ d.phase = c.phase
          /\ d.node = c.node /\ d.pending_queue = c.pending_queue
          /\ d.requests = c.requests /\ d.allocated = c.allocated
        BY <1>1, ResizeRefused
    <2>3. LinksAgree(d) /\ Placed(d) /\ FiniteLists(d)
        BY <2>2 DEF LinksAgree, Placed, FiniteLists, Is, LivePod
    <2>4. AllocationExact(d)
        BY <2>2, AllocationIs DEF Booked
    <2> QED BY <2>1, <2>2, <2>3, <2>4, QueueSame DEF Kept
<1>2. CASE CanResize(c, p) /\ ResizeFits(c, p, size)
    <2> DEFINE n == c.node[p]
    <2>1. d \in ClusterType
        BY ResizePodType
    <2>1a. /\ n \in Node /\ Is(c, p, "Running")
           /\ d = [nodes |-> c.nodes, allocatable |-> c.allocatable,
                   allocated |-> [c.allocated EXCEPT ![n] = SatSub(@, c.requests[p]) + size],
                   podsOn |-> c.podsOn, pods |-> c.pods, phase |-> c.phase, node |-> c.node,
                   requests |-> [c.requests EXCEPT ![p] = size],
                   resize_status |-> [c.resize_status EXCEPT ![p] = "Completed"],
                   pending_queue |-> c.pending_queue]
        BY <1>2, ResizeGranted DEF CanResize
    <2>2. /\ d.nodes = c.nodes /\ d.podsOn = c.podsOn /\ d.pods = c.pods /\ d.phase = c.phase
          /\ d.node = c.node /\ d.pending_queue = c.pending_queue
          /\ \A q \in Pod \ {p} : d.requests[q] = c.requests[q]
          /\ \A m \in Node \ {n} : d.allocated[m] = c.allocated[m]
        BY <2>1a DEF ClusterType
    <2>3. LinksAgree(d) /\ Placed(d) /\ FiniteLists(d)
        BY <2>2 DEF LinksAgree, Placed, FiniteLists, Is, LivePod
    <2>4. AllocationExact(d)
        <3> SUFFICES ASSUME NEW m \in Node, c.nodes[m] = "live" PROVE Booked(d, m)
            BY <2>2, AllocationIs
        <3>0. /\ Booked(c, m) /\ IsFiniteSet(c.podsOn[m]) /\ c.podsOn[m] \subseteq Pod
              /\ c.allocated[m] \in Nat
            BY AllocationIs DEF FiniteLists, ClusterType
        <3>1. CASE m # n
            <4>1. p \notin c.podsOn[m]
                BY <3>1 DEF LinksAgree
            <4>2. \A q \in c.podsOn[m] : d.requests[q] = c.requests[q]
                BY <2>2, <3>0, <4>1
            <4> QED BY <2>2, <3>0, <3>1, <4>2, BookedSame
        <3>2. CASE m = n
            <4> DEFINE rest == c.podsOn[m] \ {p}
            <4>1. p \in c.podsOn[m]
                BY <2>1a, <3>2 DEF LinksAgree
            <4>2. IsFiniteSet(rest) /\ rest \subseteq Pod /\ p \notin rest
                BY <3>0, FS_RemoveElement
            <4>3. /\ Sum(c.requests, c.podsOn[m]) = c.requests[p] + Sum(c.requests, rest)
                  /\ Sum(d.requests, c.podsOn[m]) = d.requests[p] + Sum(d.requests, rest)
                <5>1. \A q \in c.podsOn[m] : c.requests[q] \in Nat /\ d.requests[q] \in Nat
                    BY <2>1, <3>0 DEF ClusterType
                <5> QED BY <3>0, <4>1, <5>1, SumRemove
            <4> HIDE DEF rest
            <4>4. \A q \in rest : c.requests[q] \in Nat /\ d.requests[q] = c.requests[q]
                BY <2>2, <4>2 DEF ClusterType
            <4>5. Sum(d.requests, rest) = Sum(c.requests, rest) /\ Sum(c.requests, rest) \in Nat
                BY <4>2, <4>4, SumSame, SumNat
            <4>6. d.requests[p] = size /\ d.allocated[m] = SatSub(c.allocated[m], c.requests[p]) + size
                BY <2>1a, <3>2 DEF ClusterType
            <4>7. c.requests[p] \in Nat
                BY DEF ClusterType
            <4>8. d.allocated[m] = Sum(d.requests, c.podsOn[m])
                BY <3>0, <4>3, <4>5, <4>6, <4>7 DEF Booked, SatSub
            <4> QED BY <2>2, <4>8 DEF Booked
        <3> QED BY <3>1, <3>2
    <2> QED BY <2>1, <2>2, <2>3, <2>4, QueueSame DEF Kept
<1> QED BY <1>1, <1>2

\* The fields after remove_pod, when the pod is live.
LEMMA RemovePodFields ==
    ASSUME NEW c \in ClusterType, NEW p \in Pod, LivePod(c, p)
    PROVE  \E a, b :
              /\ Released(c, p, c.node[p], a, b)
              /\ RemovePod(c, p) =
                     [nodes |-> c.nodes, allocatable |-> c.allocatable, allocated |-> a,
                      podsOn |-> b, pods |-> [c.pods EXCEPT ![p] = "gone"],
                      phase |-> [c.phase EXCEPT ![p] = "Pending"],
                      node |-> [c.node EXCEPT ![p] = NoNode],
                      requests |-> [c.requests EXCEPT ![p] = 0],
                      resize_status |-> [c.resize_status EXCEPT ![p] = "None"],
                      pending_queue |-> SwapRemove(c.pending_queue, p)]
<1> DEFINE r == Release(c, p, c.node[p])
           d == RemovePod(c, p)
<1>1. PICK a, b : Released(c, p, c.node[p], a, b)
    BY ReleaseFields
<1>2. d = [r EXCEPT !.pods[p] = "gone", !.phase[p] = "Pending", !.node[p] = NoNode,
                    !.requests[p] = 0, !.resize_status[p] = "None",
                    !.pending_queue = SwapRemove(r.pending_queue, p)]
    BY DEF RemovePod
<1>3. r = [nodes |-> c.nodes, allocatable |-> c.allocatable, allocated |-> a, podsOn |-> b,
           pods |-> c.pods, phase |-> c.phase, node |-> c.node, requests |-> c.requests,
           resize_status |-> c.resize_status, pending_queue |-> c.pending_queue]
    BY <1>1 DEF Released
<1> HIDE DEF r, d
<1>4. d = [nodes |-> c.nodes, allocatable |-> c.allocatable, allocated |-> a,
           podsOn |-> b, pods |-> [c.pods EXCEPT ![p] = "gone"],
           phase |-> [c.phase EXCEPT ![p] = "Pending"],
           node |-> [c.node EXCEPT ![p] = NoNode],
           requests |-> [c.requests EXCEPT ![p] = 0],
           resize_status |-> [c.resize_status EXCEPT ![p] = "None"],
           pending_queue |-> SwapRemove(c.pending_queue, p)]
    BY <1>2, <1>3 DEF ClusterType
<1> QED BY <1>1, <1>4 DEF d

\* The removal of a pod keeps the cluster sound and the queue exact.
LEMMA RemovePodKept ==
    ASSUME NEW c, Sound(c), QueueExact(c), NEW p \in Pod, NEW d, d = RemovePod(c, p)
    PROVE  Sound(d) /\ QueueExact(d)
<1> USE DEF Sound
<1>1. CASE ~ LivePod(c, p)
    BY <1>1 DEF RemovePod
<1>2. CASE LivePod(c, p)
    <2>1. PICK a, b :
              /\ Released(c, p, c.node[p], a, b)
              /\ d = [nodes |-> c.nodes, allocatable |-> c.allocatable, allocated |-> a,
                      podsOn |-> b, pods |-> [c.pods EXCEPT ![p] = "gone"],
                      phase |-> [c.phase EXCEPT ![p] = "Pending"],
                      node |-> [c.node EXCEPT ![p] = NoNode],
                      requests |-> [c.requests EXCEPT ![p] = 0],
                      resize_status |-> [c.resize_status EXCEPT ![p] = "None"],
                      pending_queue |-> SwapRemove(c.pending_queue, p)]
        BY <1>2, RemovePodFields
    <2>2. /\ d.pending_queue \in Seq(Pod)
          /\ QueueSet(d.pending_queue) = QueueSet(c.pending_queue) \ {p}
          /\ NoDuplicates(d.pending_queue)
        BY <2>1, SwapRemoveQueue DEF ClusterType, QueueExact
    <2>3. d \in ClusterType
        <3>1. /\ [c.pods EXCEPT ![p] = "gone"] \in [Pod -> Life]
              /\ [c.phase EXCEPT ![p] = "Pending"] \in [Pod -> PodPhase]
              /\ [c.node EXCEPT ![p] = NoNode] \in [Pod -> Node \cup {NoNode}]
              /\ [c.requests EXCEPT ![p] = 0] \in [Pod -> Nat]
              /\ [c.resize_status EXCEPT ![p] = "None"] \in [Pod -> ResizeStatus]
            BY DEF ClusterType, Life, PodPhase, ResizeStatus
        <3> QED BY <2>1, <2>2, <3>1, Fields DEF ClusterType, Released
    <2>4. \A q \in Pod, ph \in PodPhase : Is(d, q, ph) <=> Is(c, q, ph) /\ q # p
        BY <2>1 DEF ClusterType, Is, LivePod
    <2>5. QueueExact(d)
        BY <2>2, <2>4 DEF QueueExact, PodPhase
    <2>6. d.nodes = c.nodes /\ d.podsOn = b /\ \A q \in Pod \ {p} : d.node[q] = c.node[q]
        BY <2>1 DEF ClusterType
    <2>7. LinksAgree(d)
        <3> SUFFICES ASSUME NEW m \in Node, c.nodes[m] = "live", NEW q \in Pod
                     PROVE  q \in d.podsOn[m] <=> Is(d, q, "Running") /\ d.node[q] = m
            BY <2>6 DEF LinksAgree
        <3>1. LiveNode(c, m)
            BY DEF LiveNode
        <3>2. q \in c.podsOn[m] <=> Is(c, q, "Running") /\ c.node[q] = m
            BY DEF LinksAgree
        <3> QED BY <2>1, <2>4, <2>6, <3>1, <3>2 DEF PodPhase, Released
    <2>8. Placed(d)
        BY <2>1 DEF ClusterType, Placed, LivePod
    <2>9. FiniteLists(d)
        <3>1. \A m \in Node : d.podsOn[m] = c.podsOn[m] \/ d.podsOn[m] = c.podsOn[m] \ {p}
            BY <2>1 DEF Released
        <3>2. \A m \in Node : IsFiniteSet(c.podsOn[m]) /\ IsFiniteSet(c.podsOn[m] \ {p})
            BY FS_Subset DEF FiniteLists
        <3> QED BY <3>1, <3>2 DEF FiniteLists
    <2>10. AllocationExact(d)
        <3> SUFFICES ASSUME NEW m \in Node, c.nodes[m] = "live" PROVE Booked(d, m)
            BY <2>6, AllocationIs
        <3>1. p \notin b[m] /\ IsFiniteSet(b[m]) /\ b[m] \subseteq Pod
            <4>1. LiveNode(c, m)
                BY DEF LiveNode
            <4>2. p \in c.podsOn[m] => c.node[p] = m
                BY DEF LinksAgree
            <4>3. p \notin b[m] /\ b[m] \subseteq Pod
                BY <2>1, <4>1, <4>2 DEF Released
            <4> QED BY <2>6, <2>9, <4>3 DEF FiniteLists
        <3>2. a[m] = Sum(c.requests, b[m])
            <4>1. CASE Is(c, p, "Running")
                BY <2>1, <4>1, ReleasedBooked
            <4>2. CASE ~ Is(c, p, "Running")
                <5>1. c.node[p] = NoNode
                    BY <1>2, <4>2 DEF Placed, Is
                <5>2. a[m] = c.allocated[m] /\ b[m] = c.podsOn[m]
                    BY <2>1, <5>1, NoNodeAssumption DEF Released
                <5> QED BY <5>2, AllocationIs DEF Booked
            <4> QED BY <4>1, <4>2
        <3>3. \A q \in b[m] : c.requests[q] \in Nat /\ d.requests[q] = c.requests[q]
            BY <2>1, <3>1 DEF ClusterType
        <3>4. Sum(d.requests, b[m]) = Sum(c.requests, b[m])
            BY <3>1, <3>3, SumSame
        <3> QED BY <2>1, <3>2, <3>4 DEF Booked
    <2> QED BY <2>3, <2>5, <2>7, <2>8, <2>9, <2>10
<1> QED BY <1>1, <1>2

-----------------------------------------------------------------------------
(***************************************************************************)
(* What an eviction and a binding come to on a sound cluster.              *)
(***************************************************************************)
\* Nothing but pods, their phases and their nodes changes.
SameFrame(c, d) ==
    /\ d.nodes = c.nodes /\ d.allocatable = c.allocatable
    /\ d.pods = c.pods /\ d.requests = c.requests

\* No pod comes to its end.
NoneSucceeds(c, d) == \A q \in Pod : d.phase[q] = "Succeeded" => c.phase[q] = "Succeeded"

\* The pods of S have been evicted.
EvictedFrom(c, d, S) ==
    /\ SameFrame(c, d) /\ NoneSucceeds(c, d)
    /\ \A n \in Node : c.nodes[n] = "live" => d.podsOn[n] = c.podsOn[n] \ S
    /\ \A q \in Pod : /\ Is(d, q, "Running") <=> Is(c, q, "Running") /\ q \notin S
                      /\ q \notin S => d.phase[q] = c.phase[q] /\ d.node[q] = c.node[q]

\* What add_node changes.
LEMMA AddNodeEffect ==
    ASSUME NEW c \in ClusterType, NEW n \in Node, NEW capacity \in Nat,
           NEW d, d = AddNode(c, n, capacity)
    PROVE  /\ d.nodes[n] = "live" /\ d.podsOn[n] = {} /\ d.allocatable[n] = capacity
           /\ \A m \in Node \ {n} : /\ d.podsOn[m] = c.podsOn[m] /\ d.nodes[m] = c.nodes[m]
                                    /\ d.allocatable[m] = c.allocatable[m]
           /\ d.pods = c.pods /\ d.phase = c.phase /\ d.node = c.node
           /\ d.requests = c.requests /\ d.pending_queue = c.pending_queue
<1>1. d = [nodes |-> [c.nodes EXCEPT ![n] = "live"],
           allocatable |-> [c.allocatable EXCEPT ![n] = capacity],
           allocated |-> [c.allocated EXCEPT ![n] = 0],
           podsOn |-> [c.podsOn EXCEPT ![n] = {}],
           pods |-> c.pods, phase |-> c.phase, node |-> c.node, requests |-> c.requests,
           resize_status |-> c.resize_status, pending_queue |-> c.pending_queue]
    BY AddNodeFields
<1> QED BY <1>1 DEF ClusterType

\* What remove_node changes: a node that is live is gone, and its pods stay as they are.
LEMMA RemoveNodeEffect ==
    ASSUME NEW c \in ClusterType, NEW n \in Node, NEW d, d = RemoveNode(c, n)
    PROVE  /\ d.nodes[n] = IF LiveNode(c, n) THEN "gone" ELSE c.nodes[n]
           /\ \A m \in Node \ {n} : /\ d.podsOn[m] = c.podsOn[m] /\ d.nodes[m] = c.nodes[m]
                                    /\ d.allocatable[m] = c.allocatable[m]
           /\ d.pods = c.pods /\ d.phase = c.phase /\ d.node = c.node
           /\ d.requests = c.requests /\ d.pending_queue = c.pending_queue
<1>1. CASE ~ LiveNode(c, n)
    BY <1>1 DEF RemoveNode
<1>2. CASE LiveNode(c, n)
    <2>1. d = [nodes |-> [c.nodes EXCEPT ![n] = "gone"],
               allocatable |-> [c.allocatable EXCEPT ![n] = 0],
               allocated |-> [c.allocated EXCEPT ![n] = 0],
               podsOn |-> [c.podsOn EXCEPT ![n] = {}],
               pods |-> c.pods, phase |-> c.phase, node |-> c.node, requests |-> c.requests,
               resize_status |-> c.resize_status, pending_queue |-> c.pending_queue]
        BY <1>2, RemoveNodeFields
    <2> QED BY <1>2, <2>1 DEF ClusterType
<1> QED BY <1>1, <1>2

\* What submit_pod changes.
LEMMA SubmitPodEffect ==
    ASSUME NEW c \in ClusterType, NEW p \in Pod, NEW size \in Nat,
           NEW d, d = SubmitPod(c, p, size)
    PROVE  /\ d.nodes = c.nodes /\ d.allocatable = c.allocatable /\ d.podsOn = c.podsOn
           /\ Is(d, p, "Pending") /\ d.requests[p] = size
           /\ \A q \in Pod \ {p} : /\ d.pods[q] = c.pods[q] /\ d.phase[q] = c.phase[q]
                                   /\ d.node[q] = c.node[q] /\ d.requests[q] = c.requests[q]
           /\ d.pending_queue = Append(c.pending_queue, p)
<1>1. d = [nodes |-> c.nodes, allocatable |-> c.allocatable, allocated |-> c.allocated,
           podsOn |-> c.podsOn, pods |-> [c.pods EXCEPT ![p] = "live"],
           phase |-> [c.phase EXCEPT ![p] = "Pending"],
           node |-> [c.node EXCEPT ![p] = NoNode],
           requests |-> [c.requests EXCEPT ![p] = size],
           resize_status |-> c.resize_status, pending_queue |-> Append(c.pending_queue, p)]
    BY SubmitPodFields
<1> QED BY <1>1 DEF ClusterType, Is, LivePod

\* What remove_pod changes for the other pods.
LEMMA RemovePodEffect ==
    ASSUME NEW c \in ClusterType, NEW p \in Pod, NEW d, d = RemovePod(c, p)
    PROVE  /\ ~ LivePod(d, p)
           /\ \A q \in Pod \ {p} : d.pods[q] = c.pods[q] /\ d.phase[q] = c.phase[q]
<1>1. CASE ~ LivePod(c, p)
    BY <1>1 DEF RemovePod
<1>2. CASE LivePod(c, p)
    <2>1. PICK a, b :
              d = [nodes |-> c.nodes, allocatable |-> c.allocatable, allocated |-> a,
                   podsOn |-> b, pods |-> [c.pods EXCEPT ![p] = "gone"],
                   phase |-> [c.phase EXCEPT ![p] = "Pending"],
                   node |-> [c.node EXCEPT ![p] = NoNode],
                   requests |-> [c.requests EXCEPT ![p] = 0],
                   resize_status |-> [c.resize_status EXCEPT ![p] = "None"],
                   pending_queue |-> SwapRemove(c.pending_queue, p)]
        BY <1>2, RemovePodFields
    <2> QED BY <2>1 DEF ClusterType, LivePod
<1> QED BY <1>1, <1>2

\* evict_pod takes the pod off the node it names.
LEMMA EvictPodEffect ==
    ASSUME NEW c, Sound(c), NEW p \in Pod, NEW d, d = EvictPod(c, p)
    PROVE  EvictedFrom(c, d, {p})
<1> USE DEF Sound
<1>0. /\ Is(c, p, "Running") => CanEvict(c, p)
      /\ \A n \in Node : c.nodes[n] = "live" /\ p \in c.podsOn[n]
            => Is(c, p, "Running") /\ c.node[p] = n
    BY NoNodeAssumption DEF CanEvict, Placed, LinksAgree, Is
<1>1. CASE ~ CanEvict(c, p)
    <2>1. d = c
        BY <1>1 DEF EvictPod
    <2>2. ~ Is(c, p, "Running") /\ \A n \in Node : c.nodes[n] = "live" => c.podsOn[n] \ {p} = c.podsOn[n]
        BY <1>0, <1>1
    <2> QED BY <2>1, <2>2 DEF EvictedFrom, SameFrame, NoneSucceeds
<1>2. CASE CanEvict(c, p)
    <2>1. PICK a, b :
              /\ Released(c, p, c.node[p], a, b)
              /\ d = [nodes |-> c.nodes, allocatable |-> c.allocatable, allocated |-> a,
                      podsOn |-> b, pods |-> c.pods,
                      phase |-> [c.phase EXCEPT ![p] = "Pending"],
                      node |-> [c.node EXCEPT ![p] = NoNode], requests |-> c.requests,
                      resize_status |-> c.resize_status,
                      pending_queue |-> Append(c.pending_queue, p)]
        BY <1>2, EvictPodFields
    <2>2. SameFrame(c, d)
        BY <2>1 DEF SameFrame
    <2>3. ASSUME NEW n \in Node, c.nodes[n] = "live" PROVE d.podsOn[n] = c.podsOn[n] \ {p}
        <3>1. b[n] = IF n = c.node[p] THEN c.podsOn[n] \ {p} ELSE c.podsOn[n]
            BY <2>1, <2>3 DEF Released, LiveNode
        <3>2. n # c.node[p] => c.podsOn[n] \ {p} = c.podsOn[n]
            BY <1>0, <2>3
        <3> QED BY <2>1, <3>1, <3>2
    <2>4. \A q \in Pod : /\ Is(d, q, "Running") <=> Is(c, q, "Running") /\ q \notin {p}
                         /\ q \notin {p} => d.phase[q] = c.phase[q] /\ d.node[q] = c.node[q]
        BY <2>1 DEF ClusterType, Is, LivePod
    <2>5. NoneSucceeds(c, d)
        BY <2>1 DEF ClusterType, NoneSucceeds
    <2> QED BY <2>2, <2>3, <2>4, <2>5 DEF EvictedFrom
<1> QED BY <1>1, <1>2

\* bind_pod keeps the shape of the cluster.
LEMMA BindPodType ==
    ASSUME NEW c \in ClusterType, NEW p \in Pod, NEW n \in Node, NEW d, d = BindPod(c, p, n)
    PROVE  d \in ClusterType
<1>1. CASE ~ CanBind(c, p, n)
    BY <1>1 DEF BindPod
<1>2. CASE CanBind(c, p, n)
    <2>1. /\ [c.allocated EXCEPT ![n] = @ + c.requests[p]] \in [Node -> Nat]
          /\ [c.podsOn EXCEPT ![n] = @ \cup {p}] \in [Node -> SUBSET Pod]
          /\ [c.phase EXCEPT ![p] = "Running"] \in [Pod -> PodPhase]
          /\ [c.node EXCEPT ![p] = n] \in [Pod -> Node \cup {NoNode}]
          /\ SwapRemove(c.pending_queue, p) \in Seq(Pod)
        BY SwapRemoveType DEF ClusterType, PodPhase
    <2>2. d = [nodes |-> c.nodes, allocatable |-> c.allocatable,
                allocated |-> [c.allocated EXCEPT ![n] = @ + c.requests[p]],
                podsOn |-> [c.podsOn EXCEPT ![n] = @ \cup {p}],
                pods |-> c.pods, phase |-> [c.phase EXCEPT ![p] = "Running"],
                node |-> [c.node EXCEPT ![p] = n], requests |-> c.requests,
                resize_status |-> c.resize_status,
                pending_queue |-> SwapRemove(c.pending_queue, p)]
        BY <1>2, BindPodFields
    <2> QED BY <2>1, <2>2, Fields DEF ClusterType
<1> QED BY <1>1, <1>2

\* What bind_pod changes, whether it binds or not.
LEMMA BindPodEffect ==
    ASSUME NEW c \in ClusterType, NEW p \in Pod, NEW n \in Node, NEW d, d = BindPod(c, p, n)
    PROVE  /\ SameFrame(c, d) /\ NoneSucceeds(c, d)
           /\ \A m \in Node :
                  \/ d.podsOn[m] = c.podsOn[m]
                  \/ m = n /\ CanBind(c, p, n) /\ d.podsOn[m] = c.podsOn[m] \cup {p}
           /\ \A q \in Pod :
                  Is(d, q, "Running") <=> Is(c, q, "Running") \/ (q = p /\ CanBind(c, p, n))
           /\ \A q \in Pod \ {p} : d.phase[q] = c.phase[q] /\ d.node[q] = c.node[q]
           /\ d.node[p] = IF CanBind(c, p, n) THEN n ELSE c.node[p]
<1>1. CASE ~ CanBind(c, p, n)
    BY <1>1 DEF BindPod, SameFrame, NoneSucceeds
<1>2. CASE CanBind(c, p, n)
    <2>1. d = [nodes |-> c.nodes, allocatable |-> c.allocatable,
                allocated |-> [c.allocated EXCEPT ![n] = @ + c.requests[p]],
                podsOn |-> [c.podsOn EXCEPT ![n] = @ \cup {p}],
                pods |-> c.pods, phase |-> [c.phase EXCEPT ![p] = "Running"],
                node |-> [c.node EXCEPT ![p] = n], requests |-> c.requests,
                resize_status |-> c.resize_status,
                pending_queue |-> SwapRemove(c.pending_queue, p)]
        BY <1>2, BindPodFields
    <2> QED BY <1>2, <2>1 DEF ClusterType, Is, LivePod, SameFrame, CanBind, NoneSucceeds
<1> QED BY <1>1, <1>2

\* Evictions one after the other come to the eviction of all.
LEMMA EvictedChain ==
    ASSUME NEW c, NEW d, NEW e, NEW S, NEW T, EvictedFrom(c, d, S), EvictedFrom(d, e, T)
    PROVE  EvictedFrom(c, e, S \cup T)
<1>1. SameFrame(c, e) /\ NoneSucceeds(c, e) /\ d.nodes = c.nodes
    BY DEF EvictedFrom, SameFrame, NoneSucceeds
<1>2. ASSUME NEW n \in Node, c.nodes[n] = "live" PROVE e.podsOn[n] = c.podsOn[n] \ (S \cup T)
    <2>1. d.podsOn[n] = c.podsOn[n] \ S /\ e.podsOn[n] = d.podsOn[n] \ T
        BY <1>1, <1>2 DEF EvictedFrom
    <2> QED BY <2>1
<1>3. \A q \in Pod : /\ Is(e, q, "Running") <=> Is(c, q, "Running") /\ q \notin S \cup T
                     /\ q \notin S \cup T => e.phase[q] = c.phase[q] /\ e.node[q] = c.node[q]
    BY DEF EvictedFrom
<1> QED BY <1>1, <1>2, <1>3 DEF EvictedFrom

\* One step after another that a sound cluster survives.
LEMMA KeptChain ==
    ASSUME NEW c, NEW d, NEW e, Kept(c, d), Kept(d, e)
    PROVE  Kept(c, e)
BY DEF Kept

\* Evicting a sequence of pods is a walk along it.
LEMMA EvictWalk ==
    ASSUME NEW c \in ClusterType, NEW s \in Seq(Pod)
    PROVE  \E w \in [0..Len(s) -> ClusterType] :
              /\ w[0] = c
              /\ \A i \in 1..Len(s) : w[i] = EvictPod(w[i - 1], s[i])
              /\ FoldLeft(EvictPod, c, s) = w[Len(s)]
<1> DEFINE n == Len(s)
           Eqn(g) == g = [t \in SUBSET (1..n) |->
                             IF t = {} THEN c ELSE EvictPod(g[t \ {Max(t)}], s[Max(t)])]
           g == CHOOSE h : Eqn(h)
           step == [i \in 1..n |-> [d \in ClusterType |-> EvictPod(d, s[i])]]
<1>0. n \in Nat /\ DOMAIN s = 1..n /\ \A i \in 1..n : s[i] \in Pod
    BY LenProperties, ElementOfSeq
<1>1. FoldLeft(EvictPod, c, s) = g[1..n]
    BY <1>0 DEF FoldLeft, MapThenFoldSet
<1>2. step \in [1..n -> [ClusterType -> ClusterType]]
    BY <1>0, EvictPodType
<1>3. \A t \in SUBSET (1..n) : t # {} => Max(t) \in t
    BY <1>0, MaxOf
<1> HIDE DEF n, step
<1>4. \E h : Eqn(h)
    <2>1. PICK h : Solves(h, n, ClusterType, step, c)
        BY <1>0, <1>2, FoldSolved
    <2>2. \A t \in SUBSET (1..n) :
              h[t] = IF t = {} THEN c ELSE EvictPod(h[t \ {Max(t)}], s[Max(t)])
        BY <1>3, <2>1 DEF Solves, step
    <2>3. Eqn(h)
        BY <2>1, <2>2 DEF Solves
    <2> QED BY <2>3
<1>5. Eqn(g)
    BY <1>4
<1> HIDE DEF g
<1>6. Tracks(g, n, ClusterType, step, c)
    BY <1>3, <1>5 DEF Tracks, step
<1>7. PICK w : Walk(w, n, ClusterType, step, c) /\ w[n] = g[1..n]
    BY <1>0, <1>2, <1>6, FoldWalked
<1>8. \A i \in 1..n : w[i] = EvictPod(w[i - 1], s[i])
    <2> TAKE i \in 1..n
    <2>1. w[i - 1] \in ClusterType /\ w[i] = step[i][w[i - 1]]
        BY <1>0, <1>7 DEF Walk
    <2> QED BY <2>1 DEF step
<1> QED BY <1>1, <1>7, <1>8 DEF Walk, n

\* The eviction of a list of pods.
LEMMA EvictAllKept ==
    ASSUME NEW c, Sound(c), NEW s \in Seq(Pod), NEW d, d = FoldLeft(EvictPod, c, s)
    PROVE  Kept(c, d) /\ EvictedFrom(c, d, QueueSet(s))
<1> DEFINE n == Len(s)
           Upto(i) == {s[k] : k \in 1..i}
<1>0. n \in Nat /\ \A i \in 1..n : s[i] \in Pod
    BY LenProperties, ElementOfSeq
<1>1. PICK w \in [0..n -> ClusterType] :
              /\ w[0] = c
              /\ \A i \in 1..n : w[i] = EvictPod(w[i - 1], s[i])
              /\ d = w[n]
    BY EvictWalk DEF Sound
<1> DEFINE P == {i \in 0..n : Kept(c, w[i]) /\ EvictedFrom(c, w[i], Upto(i))}
<1>2. 0 \in P
    <2>1. Kept(c, c) /\ EvictedFrom(c, c, {})
        BY DEF Kept, EvictedFrom, SameFrame, NoneSucceeds
    <2>2. Upto(0) = {}
        OBVIOUS
    <2> HIDE DEF Upto
    <2>3. Kept(c, w[0]) /\ EvictedFrom(c, w[0], Upto(0))
        BY <1>1, <2>1, <2>2, Zenon
    <2> QED BY <1>0, <2>3
<1>3. ASSUME NEW i \in 1..n, i - 1 \in P PROVE i \in P
    <2>1. Kept(c, w[i - 1]) /\ EvictedFrom(c, w[i - 1], Upto(i - 1))
        BY <1>3
    <2>2. Sound(w[i - 1]) /\ w[i] = EvictPod(w[i - 1], s[i]) /\ s[i] \in Pod
        BY <1>0, <1>1, <2>1 DEF Kept
    <2>3. Kept(w[i - 1], w[i]) /\ EvictedFrom(w[i - 1], w[i], {s[i]})
        BY <2>2, EvictPodKept, EvictPodEffect
    <2>4. Upto(i) = Upto(i - 1) \cup {s[i]}
        <3>1. 1..i = (1..(i - 1)) \cup {i}
            BY <1>0
        <3> QED BY <3>1
    <2> HIDE DEF Upto
    <2>5. Kept(c, w[i]) /\ EvictedFrom(c, w[i], Upto(i - 1) \cup {s[i]})
        BY <2>1, <2>3, KeptChain, EvictedChain
    <2> QED BY <1>0, <2>4, <2>5
<1> HIDE DEF P, n
<1>4. n \in P
    <2>1. \A i \in 1..n : i - 1 \in P => i \in P
        BY <1>3
    <2> QED BY <1>0, <1>2, <2>1, WalkInduction
<1>5. Kept(c, w[n]) /\ EvictedFrom(c, w[n], Upto(n))
    BY <1>4 DEF P
<1> QED BY <1>1, <1>5 DEF QueueSet, n

-----------------------------------------------------------------------------
(***************************************************************************)
(* Passes: what every outcome of a scheduling pass has in common with the  *)
(* cluster it started from, whichever nodes and victims the pass picks:    *)
(* PassedTo below, shown for one pod and, along the fold over the          *)
(* snapshot, for the pass.                                                 *)
(***************************************************************************)
\* The pods of W and the others, of which none yields to one of W.
Ranked(W) ==
    /\ Priority \in [Pod -> Int]
    /\ W \subseteq Pod
    /\ \A p \in W, d \in Pod \ W : Priority[p] <= Priority[d]

\* The pods of W on a node fit it.
Fitting(c, W) ==
    \A n \in Node : c.nodes[n] = "live" =>
        Sum(c.requests, c.podsOn[n] \cap W) <= c.allocatable[n]

\* From c to d by a pass over pods of W among the nodes of up: no pod ends, a pod that lost
\* its node is outranked by one of Q, the other pods than W stay where they are, the pods that join
\* a node are of Q and the node is of up, the nodes that are not keep their pods, none is
\* on a node that is gone if it was not before, and those of W still fit.
PassedTo(c, d, W, Q, up) ==
    /\ Kept(c, d)
    /\ SameFrame(c, d) /\ NoneSucceeds(c, d)
    /\ \A v \in Pod : Is(c, v, "Running") /\ ~ Is(d, v, "Running")
            => \E p \in Q : Priority[p] > Priority[v]
    /\ \A n \in Node : c.nodes[n] = "live" =>
          /\ d.podsOn[n] \ W = c.podsOn[n] \ W
          /\ d.podsOn[n] \subseteq c.podsOn[n] \cup Q
          /\ n \notin up => d.podsOn[n] = c.podsOn[n]
    /\ \A v \in Pod : Ghost(d, v) => Ghost(c, v)
    /\ Fitting(c, W) => Fitting(d, W)

\* A pass may leave everything as it is.
LEMMA PassedSelf ==
    ASSUME NEW c, Sound(c), NEW W, NEW Q, NEW up
    PROVE  PassedTo(c, c, W, Q, up)
BY DEF PassedTo, Kept, SameFrame, NoneSucceeds

\* One part of a pass after another.
LEMMA PassedChain ==
    ASSUME NEW c, NEW d, NEW e, NEW W, NEW Q, NEW up,
           PassedTo(c, d, W, Q, up), PassedTo(d, e, W, Q, up)
    PROVE  PassedTo(c, e, W, Q, up)
<1>1. Kept(c, e) /\ SameFrame(c, e) /\ NoneSucceeds(c, e) /\ d.nodes = c.nodes
    BY KeptChain DEF PassedTo, SameFrame, NoneSucceeds
<1>2. \A v \in Pod : Is(c, v, "Running") /\ ~ Is(e, v, "Running")
            => \E p \in Q : Priority[p] > Priority[v]
    BY DEF PassedTo
<1>3. ASSUME NEW n \in Node, c.nodes[n] = "live"
      PROVE  /\ e.podsOn[n] \ W = c.podsOn[n] \ W
             /\ e.podsOn[n] \subseteq c.podsOn[n] \cup Q
             /\ n \notin up => e.podsOn[n] = c.podsOn[n]
    <2>1. /\ d.podsOn[n] \ W = c.podsOn[n] \ W
          /\ d.podsOn[n] \subseteq c.podsOn[n] \cup Q
          /\ n \notin up => d.podsOn[n] = c.podsOn[n]
        BY <1>3 DEF PassedTo
    <2>2. /\ e.podsOn[n] \ W = d.podsOn[n] \ W
          /\ e.podsOn[n] \subseteq d.podsOn[n] \cup Q
          /\ n \notin up => e.podsOn[n] = d.podsOn[n]
        BY <1>1, <1>3 DEF PassedTo
    <2> QED BY <2>1, <2>2
<1>4. Fitting(c, W) => Fitting(e, W)
    BY DEF PassedTo
<1>5. \A v \in Pod : Ghost(e, v) => Ghost(c, v)
    BY DEF PassedTo
<1> QED BY <1>1, <1>2, <1>3, <1>4, <1>5 DEF PassedTo

-----------------------------------------------------------------------------
(***************************************************************************)
(* The victims.                                                            *)
(***************************************************************************)
\* What the pods of a sequence request, added up one by one.
LEMMA RequestedWalk ==
    ASSUME NEW c \in ClusterType, NEW s \in Seq(Pod)
    PROVE  \E w \in [0..Len(s) -> Nat] :
              /\ w[0] = 0
              /\ \A i \in 1..Len(s) : w[i] = w[i - 1] + c.requests[s[i]]
              /\ Requested(c, s) = w[Len(s)]
<1> DEFINE n == Len(s)
           Eqn(g) == g = [t \in SUBSET (1..n) |->
                             IF t = {} THEN 0 ELSE g[t \ {Max(t)}] + c.requests[s[Max(t)]]]
           g == CHOOSE h : Eqn(h)
           step == [i \in 1..n |-> [k \in Nat |-> k + c.requests[s[i]]]]
<1>0. n \in Nat /\ DOMAIN s = 1..n /\ \A i \in 1..n : c.requests[s[i]] \in Nat
    BY LenProperties, ElementOfSeq DEF ClusterType
<1>1. Requested(c, s) = g[1..n]
    BY <1>0 DEF Requested, FoldLeft, MapThenFoldSet
<1>2. step \in [1..n -> [Nat -> Nat]]
    BY <1>0
<1>3. \A t \in SUBSET (1..n) : t # {} => Max(t) \in t
    BY <1>0, MaxOf
<1> HIDE DEF n, step
<1>4. \E h : Eqn(h)
    <2>1. PICK h : Solves(h, n, Nat, step, 0)
        BY <1>0, <1>2, FoldSolved
    <2>2. \A t \in SUBSET (1..n) :
              h[t] = IF t = {} THEN 0 ELSE h[t \ {Max(t)}] + c.requests[s[Max(t)]]
        BY <1>3, <2>1 DEF Solves, step
    <2>3. Eqn(h)
        BY <2>1, <2>2 DEF Solves
    <2> QED BY <2>3
<1>5. Eqn(g)
    BY <1>4
<1> HIDE DEF g
<1>6. Tracks(g, n, Nat, step, 0)
    BY <1>3, <1>5 DEF Tracks, step
<1>7. PICK w : Walk(w, n, Nat, step, 0) /\ w[n] = g[1..n]
    <2> DEFINE C == Nat
               zero == 0
    <2>1. zero \in C /\ step \in [1..n -> [C -> C]] /\ Tracks(g, n, C, step, zero)
        BY <1>2, <1>6
    <2> HIDE DEF C, zero
    <2>2. \E w : Walk(w, n, C, step, zero) /\ w[n] = g[1..n]
        BY <1>0, <2>1, FoldWalked
    <2> QED BY <2>2 DEF C, zero
<1>8. \A i \in 1..n : w[i] = w[i - 1] + c.requests[s[i]]
    <2> TAKE i \in 1..n
    <2>1. w[i - 1] \in Nat /\ w[i] = step[i][w[i - 1]]
        BY <1>0, <1>7 DEF Walk
    <2> QED BY <2>1 DEF step
<1> QED BY <1>1, <1>7, <1>8 DEF Walk, n

\* What different pods request together.
LEMMA RequestedSum ==
    ASSUME NEW c \in ClusterType, NEW s \in Seq(Pod), NoDuplicates(s)
    PROVE  /\ IsFiniteSet(QueueSet(s))
           /\ Requested(c, s) = Sum(c.requests, QueueSet(s))
<1> DEFINE n == Len(s)
           Upto(i) == {s[k] : k \in 1..i}
<1>0. n \in Nat /\ \A i \in 1..n : s[i] \in Pod
    BY LenProperties, ElementOfSeq
<1>1. PICK w \in [0..n -> Nat] :
              /\ w[0] = 0
              /\ \A i \in 1..n : w[i] = w[i - 1] + c.requests[s[i]]
              /\ Requested(c, s) = w[n]
    BY RequestedWalk
<1> DEFINE P == {i \in 0..n : IsFiniteSet(Upto(i)) /\ w[i] = Sum(c.requests, Upto(i))}
<1>2. 0 \in P
    <2>1. Upto(0) = {}
        OBVIOUS
    <2> HIDE DEF Upto
    <2>2. IsFiniteSet(Upto(0)) /\ Sum(c.requests, Upto(0)) = 0
        BY <2>1, FS_EmptySet, SumEmpty, Zenon
    <2> QED BY <1>0, <1>1, <2>2
<1>3. ASSUME NEW i \in 1..n, i - 1 \in P PROVE i \in P
    <2>1. IsFiniteSet(Upto(i - 1)) /\ w[i - 1] = Sum(c.requests, Upto(i - 1))
        BY <1>3
    <2>2. Upto(i) = Upto(i - 1) \cup {s[i]}
        <3>1. 1..i = (1..(i - 1)) \cup {i}
            BY <1>0
        <3> QED BY <3>1
    <2>3. s[i] \notin Upto(i - 1) /\ Upto(i - 1) \subseteq Pod
        <3>1. \A k \in 1..(i - 1) : k \in 1..n /\ k # i
            BY <1>0
        <3> QED BY <1>0, <3>1 DEF NoDuplicates
    <2> HIDE DEF Upto
    <2>4. IsFiniteSet(Upto(i)) /\ Upto(i) \subseteq Pod
        BY <1>0, <2>1, <2>2, <2>3, FS_AddElement
    <2>5. Sum(c.requests, Upto(i - 1) \cup {s[i]}) = Sum(c.requests, Upto(i - 1)) + c.requests[s[i]]
        <3>1. \A x \in Upto(i - 1) \cup {s[i]} : c.requests[x] \in Nat
            BY <1>0, <2>3 DEF ClusterType
        <3>2. IsFiniteSet(Upto(i - 1)) /\ s[i] \notin Upto(i - 1)
            BY <2>1, <2>3
        <3> QED BY <3>1, <3>2, SumAdd
    <2>6. Sum(c.requests, Upto(i)) = Sum(c.requests, Upto(i - 1)) + c.requests[s[i]]
        BY <2>2, <2>5, Zenon
    <2>7. w[i] = Sum(c.requests, Upto(i))
        BY <1>1, <2>1, <2>6
    <2> QED BY <1>0, <2>4, <2>7
<1> HIDE DEF P, n
<1>4. n \in P
    <2>1. \A i \in 1..n : i - 1 \in P => i \in P
        BY <1>3
    <2> QED BY <1>0, <1>2, <2>1, WalkInduction
<1>5. Upto(n) = QueueSet(s)
    BY DEF QueueSet, n
<1> HIDE DEF Upto
<1>6. IsFiniteSet(Upto(n)) /\ Requested(c, s) = Sum(c.requests, Upto(n))
    BY <1>1, <1>4 DEF P
<1> QED BY <1>5, <1>6, Zenon

\* Victims are different pods of the node, outranked by the pod they make room for.
LEMMA VictimsAre ==
    ASSUME NEW c, Sound(c), NEW p, NEW n \in Node, NEW s \in Victims(c, p, n)
    PROVE  /\ s \in Seq(Pod) /\ NoDuplicates(s)
           /\ QueueSet(s) \subseteq {v \in c.podsOn[n] : Priority[v] < Priority[p]}
           /\ c.requests[p] <= Available(c, n) + Requested(c, s)
<1> DEFINE L == {v \in c.podsOn[n] : Priority[v] < Priority[p]}
<1>1. PICK t \in Evictable(c, p, n) : s \in Prefixes(t)
    BY DEF Victims
<1>2. IsFiniteSet(L) /\ L \subseteq Pod
    BY FS_Subset DEF Sound, FiniteLists, ClusterType
<1>3. t \in SetToSeqs(L)
    BY <1>1 DEF Evictable
<1> HIDE DEF L
<1> DEFINE k == Len(t)
<1>4. t \in Seq(L) /\ NoDuplicates(t) /\ k \in Nat
    BY <1>2, <1>3, OrderOf, LenProperties
<1>5. \A i \in 1..k : t[i] \in L
    BY <1>4, ElementOfSeq
<1>6. PICK l \in 0..k : s = SubSeq(t, 1, l)
    BY <1>1 DEF Prefixes
<1>7. s \in Seq(L) /\ Len(s) = l /\ \A i \in 1..l : s[i] = t[i] /\ t[i] \in L
    <2>1. \A i \in 1..l : t[i] \in L
        BY <1>4, <1>5
    <2>2. /\ SubSeq(t, 1, l) \in Seq(L)
          /\ Len(SubSeq(t, 1, l)) = IF 1 <= l THEN l - 1 + 1 ELSE 0
          /\ \A i \in 1..l - 1 + 1 : SubSeq(t, 1, l)[i] = t[1 + i - 1]
        BY <1>4, <2>1, SubSeqProperties
    <2>3. (IF 1 <= l THEN l - 1 + 1 ELSE 0) = l
        <3>1. CASE 1 <= l
            BY <3>1
        <3>2. CASE ~ (1 <= l)
            BY <3>2
        <3> QED BY <3>1, <3>2
    <2>4. \A i \in 1..l : i \in 1..l - 1 + 1 /\ 1 + i - 1 = i
        OBVIOUS
    <2> QED BY <1>6, <2>1, <2>2, <2>3, <2>4
<1>8. s \in Seq(Pod)
    BY <1>2, <1>7, SeqMonotonic
<1>9. NoDuplicates(s)
    <2>1. \A i \in 1..l : i \in 1..k
        BY <1>4
    <2> QED BY <1>4, <1>7, <2>1 DEF NoDuplicates
<1>10. QueueSet(s) \subseteq L
    BY <1>7 DEF QueueSet
<1>11. c.requests[p] <= Available(c, n) + Requested(c, s)
    BY DEF Victims
<1> QED BY <1>8, <1>9, <1>10, <1>11 DEF L

-----------------------------------------------------------------------------
(***************************************************************************)
(* One pod.                                                                *)
(***************************************************************************)
\* If pod p fits in what is left of node n without the pods V, which it outranks, then
\* the pods of W still fit the node when p has taken their place: daemons may overcommit
\* the node, and what is left of it is zero then, but they are not of W.
LEMMA StillFits ==
    ASSUME NEW c, Sound(c), NEW W \in SUBSET Pod, NEW n \in Node, c.nodes[n] = "live",
           NEW p \in W, NEW V, V \subseteq c.podsOn[n] \cap W,
           c.requests[p] <= Available(c, n) + Sum(c.requests, V),
           Sum(c.requests, c.podsOn[n] \cap W) <= c.allocatable[n],
           p \notin c.podsOn[n] \ V
    PROVE  /\ Sum(c.requests, (c.podsOn[n] \ V) \cap W) <= c.allocatable[n]
           /\ Sum(c.requests, ((c.podsOn[n] \ V) \cup {p}) \cap W) <= c.allocatable[n]
<1> DEFINE A == c.podsOn[n] \cap W
           R == A \ V
<1>0. /\ c.requests \in [Pod -> Nat] /\ c.allocatable[n] \in Nat /\ c.allocated[n] \in Nat
      /\ IsFiniteSet(c.podsOn[n]) /\ c.podsOn[n] \subseteq Pod
    BY DEF Sound, FiniteLists, ClusterType
<1>1. /\ A \in SUBSET c.podsOn[n] /\ V \in SUBSET A /\ R \in SUBSET A /\ A \subseteq Pod
      /\ (c.podsOn[n] \ V) \cap W = R /\ ((c.podsOn[n] \ V) \cup {p}) \cap W = R \cup {p}
      /\ p \notin R /\ R = A \ V
    OBVIOUS
<1> HIDE DEF A, R
<1>2. IsFiniteSet(A) /\ IsFiniteSet(R) /\ IsFiniteSet(V)
    BY <1>0, <1>1, FS_Subset
<1>3. /\ \A x \in c.podsOn[n] : c.requests[x] \in Nat
      /\ \A x \in A : c.requests[x] \in Nat
      /\ \A x \in R : c.requests[x] \in Nat
      /\ \A x \in V : c.requests[x] \in Nat
      /\ \A x \in R \cup {p} : c.requests[x] \in Nat
      /\ c.requests[p] \in Nat
    BY <1>0, <1>1
<1>4. Sum(c.requests, A) = Sum(c.requests, V) + Sum(c.requests, A \ V)
    BY <1>1, <1>2, <1>3, SumSplit
<1>5. Sum(c.requests, A \ V) = Sum(c.requests, R)
    BY <1>1, Zenon
<1>6. Sum(c.requests, R \cup {p}) = Sum(c.requests, R) + c.requests[p]
    BY <1>1, <1>2, <1>3, SumAdd
<1>7. Sum(c.requests, A) <= Sum(c.requests, c.podsOn[n])
    BY <1>0, <1>1, <1>3, SumPart
<1>8. c.allocated[n] = Sum(c.requests, c.podsOn[n])
    BY AllocationIs DEF Sound, Booked
<1>9. Sum(c.requests, R) \in Nat /\ Sum(c.requests, V) \in Nat /\ Sum(c.requests, A) \in Nat
    BY <1>2, <1>3, SumNat
<1>10. Sum(c.requests, A) <= c.allocatable[n]
    BY DEF A
<1>11. /\ Sum(c.requests, R) <= c.allocatable[n]
       /\ Sum(c.requests, R) + c.requests[p] <= c.allocatable[n]
    <2>1. CASE c.allocatable[n] >= c.allocated[n]
        <3>1. Available(c, n) = c.allocatable[n] - c.allocated[n]
            BY <2>1 DEF Available, SatSub
        <3> QED BY <1>0, <1>3, <1>4, <1>5, <1>7, <1>8, <1>9, <1>10, <3>1
    <2>2. CASE ~ (c.allocatable[n] >= c.allocated[n])
        <3>1. Available(c, n) = 0
            BY <2>2 DEF Available, SatSub
        <3> QED BY <1>0, <1>3, <1>4, <1>5, <1>9, <1>10, <3>1
    <2> QED BY <2>1, <2>2
<1>12. Sum(c.requests, R \cup {p}) <= c.allocatable[n]
    BY <1>6, <1>11
<1> QED BY <1>1, <1>11, <1>12, Zenon

\* The pod takes the place of victims that it outranks (none, if it fits as it is).
LEMMA BoundAfter ==
    ASSUME NEW c, Sound(c), NEW W, Ranked(W), NEW up \in SUBSET Node, NEW Q,
           NEW p \in Q, p \in W, NEW n \in up, c.nodes[n] = "live",
           NEW V, V \subseteq {v \in c.podsOn[n] : Priority[v] < Priority[p]},
           NEW e, Kept(c, e), EvictedFrom(c, e, V),
           c.requests[p] <= Available(c, n) + Sum(c.requests, V),
           NEW d, d = BindPod(e, p, n)
    PROVE  PassedTo(c, d, W, Q, up)
<1>0. /\ c \in ClusterType /\ e \in ClusterType /\ Sound(e) /\ p \in Pod /\ W \in SUBSET Pod
      /\ n \in Node /\ e.nodes = c.nodes
    BY DEF Sound, Kept, Ranked, EvictedFrom, SameFrame
<1>1. V \subseteq c.podsOn[n] \cap W /\ V \subseteq Pod
    <2> SUFFICES ASSUME NEW v \in V PROVE v \in Pod /\ v \in W
        OBVIOUS
    <2>1. v \in Pod
        BY <1>0 DEF ClusterType
    <2>2. Priority[v] < Priority[p] /\ Priority[v] \in Int /\ Priority[p] \in Int
        BY <1>0, <2>1 DEF Ranked
    <2> QED BY <2>1, <2>2 DEF Ranked
<1>2. Kept(c, d)
    BY <1>0, BindPodKept, KeptChain
<1>3. /\ SameFrame(e, d) /\ NoneSucceeds(e, d)
      /\ \A m \in Node :
            \/ d.podsOn[m] = e.podsOn[m]
            \/ m = n /\ CanBind(e, p, n) /\ d.podsOn[m] = e.podsOn[m] \cup {p}
      /\ \A q \in Pod :
            Is(d, q, "Running") <=> Is(e, q, "Running") \/ (q = p /\ CanBind(e, p, n))
      /\ \A q \in Pod \ {p} : d.node[q] = e.node[q]
      /\ d.node[p] = IF CanBind(e, p, n) THEN n ELSE e.node[p]
    BY <1>0, BindPodEffect
<1>4. SameFrame(c, d) /\ NoneSucceeds(c, d)
    BY <1>3 DEF EvictedFrom, SameFrame, NoneSucceeds
<1>5. \A v \in Pod : Is(c, v, "Running") /\ ~ Is(d, v, "Running")
            => \E q \in Q : Priority[q] > Priority[v]
    <2> SUFFICES ASSUME NEW v \in Pod, Is(c, v, "Running"), ~ Is(d, v, "Running")
                 PROVE  Priority[p] > Priority[v]
        OBVIOUS
    <2>1. v \in V
        BY <1>3 DEF EvictedFrom
    <2>2. Priority[v] < Priority[p] /\ Priority[v] \in Int /\ Priority[p] \in Int
        BY <1>0, <2>1 DEF Ranked
    <2> QED BY <2>2
<1>6. \A m \in Node : c.nodes[m] = "live" =>
            /\ d.podsOn[m] = c.podsOn[m] \ V
               \/ (m = n /\ CanBind(e, p, n) /\ d.podsOn[m] = (c.podsOn[m] \ V) \cup {p})
    BY <1>3 DEF EvictedFrom
<1>7. \A m \in Node : c.nodes[m] = "live" =>
          /\ d.podsOn[m] \ W = c.podsOn[m] \ W
          /\ d.podsOn[m] \subseteq c.podsOn[m] \cup Q
          /\ m \notin up => d.podsOn[m] = c.podsOn[m]
    <2> SUFFICES ASSUME NEW m \in Node, c.nodes[m] = "live"
                 PROVE  /\ d.podsOn[m] \ W = c.podsOn[m] \ W
                        /\ d.podsOn[m] \subseteq c.podsOn[m] \cup Q
                        /\ m \notin up => d.podsOn[m] = c.podsOn[m]
        OBVIOUS
    <2>1. \/ d.podsOn[m] = c.podsOn[m] \ V
          \/ m = n /\ d.podsOn[m] = (c.podsOn[m] \ V) \cup {p}
        BY <1>6
    <2>2. m # n => c.podsOn[m] \cap V = {}
        BY <1>0, <1>1 DEF Sound, LinksAgree
    <2>3. m \notin up => d.podsOn[m] = c.podsOn[m]
        BY <1>6, <2>2
    <2> QED BY <1>1, <2>1, <2>3
<1>8. Fitting(c, W) => Fitting(d, W)
    <2> SUFFICES ASSUME Fitting(c, W), NEW m \in Node, c.nodes[m] = "live"
                 PROVE  Sum(c.requests, d.podsOn[m] \cap W) <= c.allocatable[m]
        BY <1>4 DEF Fitting, SameFrame
    <2>1. Sum(c.requests, c.podsOn[m] \cap W) <= c.allocatable[m]
        BY DEF Fitting
    <2>2. CASE d.podsOn[m] = c.podsOn[m] \ V
        <3> DEFINE A == c.podsOn[m] \cap W
                   B == (c.podsOn[m] \ V) \cap W
        <3>1. IsFiniteSet(A) /\ B \in SUBSET A /\ A \subseteq Pod
            BY <1>0, FS_Subset DEF Sound, FiniteLists
        <3> HIDE DEF A, B
        <3>2. \A x \in A : c.requests[x] \in Nat
            BY <1>0, <3>1 DEF ClusterType
        <3>3. Sum(c.requests, B) <= Sum(c.requests, A) /\ Sum(c.requests, B) \in Nat
              /\ Sum(c.requests, A) \in Nat
            <4>1. IsFiniteSet(B) /\ \A x \in B : c.requests[x] \in Nat
                BY <3>1, <3>2, FS_Subset
            <4> QED BY <3>1, <3>2, <4>1, SumPart, SumNat
        <3>4. Sum(c.requests, d.podsOn[m] \cap W) = Sum(c.requests, B)
            BY <2>2, Zenon DEF B
        <3>5. Sum(c.requests, A) <= c.allocatable[m] /\ c.allocatable[m] \in Nat
            BY <1>0, <2>1 DEF A, ClusterType
        <3> QED BY <3>3, <3>4, <3>5
    <2>3. CASE m = n /\ CanBind(e, p, n) /\ d.podsOn[m] = (c.podsOn[m] \ V) \cup {p}
        <3>1. p \notin c.podsOn[n] \ V
            <4>1. e.podsOn[n] = c.podsOn[n] \ V
                BY <2>3 DEF EvictedFrom
            <4>2. p \notin e.podsOn[n]
                BY <1>0, <2>3 DEF CanBind, Is, Sound, LinksAgree
            <4> QED BY <4>1, <4>2
        <3>2. Sum(c.requests, ((c.podsOn[n] \ V) \cup {p}) \cap W) <= c.allocatable[n]
            BY <1>0, <1>1, <2>1, <2>3, <3>1, StillFits
        <3> QED BY <2>3, <3>2, Zenon
    <2> QED BY <1>6, <2>2, <2>3
<1>9. \A v \in Pod : Ghost(d, v) => Ghost(c, v)
    <2> SUFFICES ASSUME NEW v \in Pod, Ghost(d, v) PROVE Ghost(c, v)
        OBVIOUS
    <2>1. Is(d, v, "Running") /\ ~ LiveNode(c, d.node[v])
        BY <1>4 DEF Ghost, LiveNode, SameFrame
    <2>2. ~ (v = p /\ CanBind(e, p, n))
        BY <1>0, <1>3, <2>1 DEF LiveNode
    <2>3. Is(e, v, "Running") /\ d.node[v] = e.node[v]
        BY <1>3, <2>1, <2>2
    <2>4. Is(c, v, "Running") /\ e.node[v] = c.node[v]
        BY <2>3 DEF EvictedFrom
    <2> QED BY <2>1, <2>3, <2>4 DEF Ghost
<1> QED BY <1>2, <1>4, <1>5, <1>7, <1>8, <1>9 DEF PassedTo

\* A node that takes the pod as it is.
LEMMA BindPasses ==
    ASSUME NEW c, Sound(c), NEW W, Ranked(W), NEW up \in SUBSET Node, NEW Q,
           NEW p \in Q, p \in W, NEW n \in BestNodes(c, up, p), NEW d, d = BindPod(c, p, n)
    PROVE  PassedTo(c, d, W, Q, up)
<1>1. n \in up /\ c.nodes[n] = "live" /\ c.requests[p] <= Available(c, n)
    BY DEF BestNodes, Feasible, LiveNode, Fits
<1>2. Kept(c, c)
    BY DEF Kept
<1>3. EvictedFrom(c, c, {})
    BY DEF EvictedFrom, SameFrame, NoneSucceeds
<1>4. c.requests[p] <= Available(c, n) + Sum(c.requests, {})
    <2>1. Available(c, n) \in Nat
        BY <1>1 DEF Available, SatSub, Sound, ClusterType
    <2>2. Sum(c.requests, {}) = 0
        BY SumEmpty
    <2> QED BY <1>1, <2>1, <2>2
<1> QED BY <1>1, <1>2, <1>3, <1>4, BoundAfter

\* A preemption.
LEMMA PreemptPasses ==
    ASSUME NEW c, Sound(c), NEW W, Ranked(W), NEW up \in SUBSET Node, NEW Q,
           NEW p \in Q, p \in W, NEW x \in Preemptions(c, up, p),
           NEW d, d = Preempt(c, p, x[1], x[2])
    PROVE  PassedTo(c, d, W, Q, up)
<1>1. PICK n \in up : LiveNode(c, n) /\ x \in {n} \X Victims(c, p, n)
    BY DEF Preemptions
<1> DEFINE s == x[2]
           V == QueueSet(s)
           e == FoldLeft(EvictPod, c, s)
<1>2. x[1] = n /\ s \in Victims(c, p, n) /\ c.nodes[n] = "live" /\ n \in Node
    BY <1>1 DEF LiveNode
<1>3. d = BindPod(e, p, n)
    BY <1>2 DEF Preempt
<1> HIDE DEF s, e
<1>4. /\ s \in Seq(Pod) /\ NoDuplicates(s)
      /\ V \subseteq {v \in c.podsOn[n] : Priority[v] < Priority[p]}
      /\ c.requests[p] <= Available(c, n) + Requested(c, s)
    BY <1>2, VictimsAre
<1>5. Requested(c, s) = Sum(c.requests, V)
    BY <1>4, RequestedSum DEF Sound
<1>6. Kept(c, e) /\ EvictedFrom(c, e, V)
    BY <1>4, EvictAllKept DEF e
<1> HIDE DEF V
<1> QED BY <1>2, <1>3, <1>4, <1>5, <1>6, BoundAfter

-----------------------------------------------------------------------------
(***************************************************************************)
(* The pass.                                                               *)
(***************************************************************************)
PassType == [c : ClusterType, open : SUBSET Node, bound : BOOLEAN, skip : SUBSET Nat,
             over : BOOLEAN]

\* The passes that cluster c may have come to.
PassesFrom(c, W, Q, up) == {s \in PassType : PassedTo(c, s.c, W, Q, up)}

\* A record with the right fields is a state of a pass.
LEMMA PassFields ==
    ASSUME NEW c \in ClusterType, NEW open \in SUBSET Node, NEW bound \in BOOLEAN,
           NEW skip \in SUBSET Nat, NEW over \in BOOLEAN
    PROVE  [c |-> c, open |-> open, bound |-> bound, skip |-> skip, over |-> over] \in PassType
BY DEF PassType

\* Looking at one more pod of Q keeps the outcome of a pass what it should be.
LEMMA PassStepFrom ==
    ASSUME NEW c, Sound(c), NEW W, Ranked(W), NEW up \in SUBSET Node, NEW Q, Q \subseteq W,
           NEW s \in PassesFrom(c, W, Q, up), NEW least, NEW p \in Q
    PROVE  PassStep(s, up, least, p) \subseteq PassesFrom(c, W, Q, up)
<1>1. s \in PassType /\ PassedTo(c, s.c, W, Q, up) /\ Sound(s.c) /\ p \in Pod /\ p \in W
    BY DEF PassesFrom, PassedTo, Kept, Ranked
<1>2. /\ s.c \in ClusterType /\ s.open \in SUBSET Node /\ s.bound \in BOOLEAN
      /\ s.skip \in SUBSET Nat /\ s.over \in BOOLEAN
      /\ s = [c |-> s.c, open |-> s.open, bound |-> s.bound, skip |-> s.skip, over |-> s.over]
    BY <1>1 DEF PassType
<1> DEFINE From == PassesFrom(c, W, Q, up)
<1>3. ASSUME NEW t \in PassStep(s, up, least, p) PROVE t \in From
    <2>1. CASE t = [s EXCEPT !.over = TRUE]
        <3>1. t = [c |-> s.c, open |-> s.open, bound |-> s.bound, skip |-> s.skip, over |-> TRUE]
            BY <1>2, <2>1
        <3>2. t \in PassType /\ t.c = s.c
            BY <1>2, <3>1, PassFields
        <3> QED BY <1>1, <3>2 DEF PassesFrom
    <2>2. CASE t = s
        BY <2>2
    <2>3. CASE \E n \in BestNodes(s.c, up, p) : t = PassBinds(s, least, p, n)
        <3>1. PICK n \in BestNodes(s.c, up, p) : t = PassBinds(s, least, p, n)
            BY <2>3
        <3> DEFINE d == BindPod(s.c, p, n)
                   open == {m \in s.open : HasRoom(d, least, m)}
        <3>2. PassedTo(s.c, d, W, Q, up)
            BY <1>1, BindPasses
        <3>3. t = [s EXCEPT !.c = d, !.bound = TRUE, !.skip = {}, !.open = open]
            BY <3>1 DEF PassBinds
        <3>4. open \in SUBSET Node
            BY <1>2
        <3> HIDE DEF d, open
        <3>5. t = [c |-> d, open |-> open, bound |-> TRUE, skip |-> {}, over |-> s.over]
            BY <1>2, <3>3
        <3>6. d \in ClusterType
            BY <3>2 DEF PassedTo, Kept, Sound
        <3>7. t \in PassType /\ t.c = d
            BY <1>2, <3>4, <3>5, <3>6, PassFields
        <3>8. PassedTo(c, d, W, Q, up)
            BY <1>1, <3>2, PassedChain
        <3> QED BY <3>7, <3>8 DEF PassesFrom
    <2>4. CASE \E x \in Preemptions(s.c, up, p) : t = PassPreempts(s, p, x)
        <3>1. PICK x \in Preemptions(s.c, up, p) : t = PassPreempts(s, p, x)
            BY <2>4
        <3> DEFINE d == Preempt(s.c, p, x[1], x[2])
        <3>2. PassedTo(s.c, d, W, Q, up)
            BY <1>1, PreemptPasses
        <3>3. t = [s EXCEPT !.c = d, !.bound = TRUE, !.skip = {}]
            BY <3>1 DEF PassPreempts
        <3> HIDE DEF d
        <3>4. t = [c |-> d, open |-> s.open, bound |-> TRUE, skip |-> {}, over |-> s.over]
            BY <1>2, <3>3
        <3>5. d \in ClusterType
            BY <3>2 DEF PassedTo, Kept, Sound
        <3>6. t \in PassType /\ t.c = d
            BY <1>2, <3>4, <3>5, PassFields
        <3>7. PassedTo(c, d, W, Q, up)
            BY <1>1, <3>2, PassedChain
        <3> QED BY <3>6, <3>7 DEF PassesFrom
    <2>5. CASE t = [s EXCEPT !.skip = {s.c.requests[p]}]
        <3>1. s.c.requests[p] \in Nat
            BY <1>1, <1>2 DEF ClusterType
        <3>2. t = [c |-> s.c, open |-> s.open, bound |-> s.bound, skip |-> {s.c.requests[p]},
                   over |-> s.over]
            BY <1>2, <2>5
        <3>3. t \in PassType /\ t.c = s.c
            BY <1>2, <3>1, <3>2, PassFields
        <3> QED BY <1>1, <3>3 DEF PassesFrom
    <2> QED BY <1>3, <2>1, <2>2, <2>3, <2>4, <2>5 DEF PassStep, PassFails
<1> QED BY <1>3

\* Every outcome of a pass over a snapshot q of pods of W.
THEOREM PassOutcome ==
    ASSUME NEW c, Sound(c), NEW W, Ranked(W), NEW up \in SUBSET Node, NEW q \in Seq(Pod),
           QueueSet(q) \subseteq W, NEW d \in SchedulePendingFrom(c, up, q)
    PROVE  PassedTo(c, d, W, QueueSet(q), up)
<1> DEFINE live == {p \in QueueSet(q) : LivePod(c, p)}
           least == IF live = {} THEN 0 ELSE Min({c.requests[p] : p \in live})
           Step(passes, p) == UNION {PassStep(s, up, least, p) : s \in passes}
           Q == QueueSet(q)
           From == PassesFrom(c, W, Q, up)
           C == SUBSET From
           base == {PassStart(c, up, least)}
           n == Len(q)
           Eqn(g) == g = [t \in SUBSET (1..n) |->
                             IF t = {} THEN base ELSE Step(g[t \ {Max(t)}], q[Max(t)])]
           g == CHOOSE h : Eqn(h)
           step == [i \in 1..n |-> [passes \in C |-> Step(passes, q[i])]]
<1>0. n \in Nat /\ DOMAIN q = 1..n /\ \A i \in 1..n : q[i] \in Q
    BY LenProperties DEF QueueSet
<1>1. PICK s \in g[1..n] : d = s.c
    BY <1>0 DEF SchedulePendingFrom, FoldLeft, MapThenFoldSet
<1> HIDE DEF least
<1>2. \A passes \in C, p \in Q : Step(passes, p) \in C
    <2> SUFFICES ASSUME NEW passes \in C, NEW p \in Q, NEW r \in passes
                 PROVE  PassStep(r, up, least, p) \subseteq From
        OBVIOUS
    <2>1. r \in From
        OBVIOUS
    <2> HIDE DEF Q
    <2> QED BY <2>1, PassStepFrom DEF Q
<1>3. base \in C
    <2> DEFINE start == PassStart(c, up, least)
               open == {m \in up : HasRoom(c, least, m)}
    <2>1. start = [c |-> c, open |-> open, bound |-> FALSE, skip |-> {}, over |-> FALSE]
        BY DEF PassStart
    <2>2. open \in SUBSET Node
        OBVIOUS
    <2> HIDE DEF open
    <2>3. start \in PassType
        BY <2>1, <2>2, PassFields DEF Sound
    <2> HIDE DEF start
    <2>4. start.c = c
        BY <2>1
    <2> HIDE DEF Q
    <2>5. PassedTo(c, c, W, Q, up)
        BY PassedSelf
    <2>6. start \in From
        BY <2>3, <2>4, <2>5 DEF PassesFrom
    <2> QED BY <2>6 DEF start
<1> HIDE DEF From, Q, C, base, n, Step
<1>4. step \in [1..n -> [C -> C]]
    BY <1>0, <1>2
<1>5. \A t \in SUBSET (1..n) : t # {} => Max(t) \in t
    BY <1>0, MaxOf
<1>6. \E h : Eqn(h)
    <2> HIDE DEF step
    <2>1. PICK h : Solves(h, n, C, step, base)
        BY <1>0, <1>3, <1>4, FoldSolved
    <2>2. \A t \in SUBSET (1..n) :
              h[t] = IF t = {} THEN base ELSE Step(h[t \ {Max(t)}], q[Max(t)])
        BY <1>5, <2>1 DEF Solves, step
    <2>3. Eqn(h)
        BY <2>1, <2>2 DEF Solves
    <2> QED BY <2>3
<1>7. Eqn(g)
    BY <1>6
<1> HIDE DEF g
<1>8. Tracks(g, n, C, step, base)
    BY <1>5, <1>7 DEF Tracks
<1>9. g[1..n] \in C
    <2> HIDE DEF step
    <2>0. /\ n \in Nat /\ base \in C
          /\ step \in [1..n -> [C -> C]] /\ Tracks(g, n, C, step, base)
        BY <1>0, <1>3, <1>4, <1>8
    <2> HIDE DEF Eqn
    <2>1. \E w : Walk(w, n, C, step, base) /\ w[n] = g[1..n]
        BY <2>0, FoldWalked
    <2>2. PICK w : Walk(w, n, C, step, base) /\ w[n] = g[1..n]
        BY <2>1
    <2>3. w \in [0..n -> C]
        BY <2>2 DEF Walk
    <2> QED BY <1>0, <2>2, <2>3
<1>10. s \in From
    BY <1>1, <1>9 DEF C
<1> QED BY <1>1, <1>10 DEF From, PassesFrom, Q

-----------------------------------------------------------------------------
(***************************************************************************)
(* The operations between the passes: each keeps a sound cluster, and the  *)
(* submitted pods on their nodes fit.                                      *)
(***************************************************************************)
\* Nodes whose pods, their requests and what they offer are the same still fit.
LEMMA FittingPart ==
    ASSUME NEW c, Sound(c), NEW d, NEW W \in SUBSET Pod, Fitting(c, W), NEW n \in Node,
           c.nodes[n] = "live", d.podsOn[n] \cap W \subseteq c.podsOn[n],
           d.allocatable[n] = c.allocatable[n],
           \A p \in d.podsOn[n] \cap W : d.requests[p] = c.requests[p]
    PROVE  Sum(d.requests, d.podsOn[n] \cap W) <= d.allocatable[n]
<1> DEFINE A == c.podsOn[n] \cap W
           B == d.podsOn[n] \cap W
<1>1. Sum(c.requests, A) <= c.allocatable[n]
    BY DEF Fitting
<1>2. IsFiniteSet(A) /\ B \in SUBSET A /\ A \subseteq Pod
    BY FS_Subset DEF Sound, FiniteLists
<1>3. \A p \in B : d.requests[p] = c.requests[p]
    OBVIOUS
<1> HIDE DEF A, B
<1>4. /\ \A p \in A : c.requests[p] \in Nat
      /\ \A p \in B : c.requests[p] \in Nat
      /\ IsFiniteSet(B) /\ c.allocatable[n] \in Nat
    BY <1>2, FS_Subset DEF Sound, ClusterType
<1>5. Sum(d.requests, B) = Sum(c.requests, B)
    BY <1>3, <1>4, SumSame
<1>6. Sum(c.requests, B) <= Sum(c.requests, A)
    BY <1>2, <1>4, SumPart
<1>7. Sum(c.requests, B) \in Nat /\ Sum(c.requests, A) \in Nat
    BY <1>2, <1>4, SumNat
<1>8. Sum(d.requests, B) <= d.allocatable[n]
    BY <1>1, <1>4, <1>5, <1>6, <1>7
<1> QED BY <1>8 DEF B

\* A pod that is new is on no node yet.
LEMMA SubmitPodFits ==
    ASSUME NEW c, Sound(c), NEW W \in SUBSET Pod, Fitting(c, W), NEW p \in Pod,
           c.pods[p] = "fresh", NEW size \in Nat, NEW d, d = SubmitPod(c, p, size)
    PROVE  Fitting(d, W)
<1>1. /\ d.nodes = c.nodes /\ d.allocatable = c.allocatable /\ d.podsOn = c.podsOn
      /\ \A q \in Pod \ {p} : d.requests[q] = c.requests[q]
    BY SubmitPodEffect DEF Sound
<1>2. ASSUME NEW n \in Node, c.nodes[n] = "live"
      PROVE  Sum(d.requests, d.podsOn[n] \cap W) <= d.allocatable[n]
    <2>1. p \notin c.podsOn[n]
        BY <1>2 DEF Sound, LinksAgree, Is, LivePod
    <2>2. \A q \in d.podsOn[n] \cap W : d.requests[q] = c.requests[q]
        BY <1>1, <2>1
    <2> QED BY <1>1, <1>2, <2>2, FittingPart
<1> QED BY <1>1, <1>2 DEF Fitting

\* A node that is new has no pods yet.
LEMMA AddNodeFits ==
    ASSUME NEW c, Sound(c), NEW W \in SUBSET Pod, Fitting(c, W), NEW n \in Node,
           NEW capacity \in Nat, NEW d, d = AddNode(c, n, capacity)
    PROVE  Fitting(d, W)
<1>1. /\ d.podsOn[n] = {} /\ d.allocatable[n] = capacity /\ d.requests = c.requests
      /\ \A m \in Node \ {n} : /\ d.podsOn[m] = c.podsOn[m] /\ d.nodes[m] = c.nodes[m]
                               /\ d.allocatable[m] = c.allocatable[m]
    BY AddNodeEffect DEF Sound
<1>2. ASSUME NEW m \in Node, d.nodes[m] = "live"
      PROVE  Sum(d.requests, d.podsOn[m] \cap W) <= d.allocatable[m]
    <2>1. CASE m = n
        <3>1. d.podsOn[m] \cap W = {}
            BY <1>1, <2>1
        <3>2. Sum(d.requests, {}) = 0
            BY SumEmpty
        <3>3. Sum(d.requests, d.podsOn[m] \cap W) = 0
            BY <3>1, <3>2, Zenon
        <3> QED BY <1>1, <2>1, <3>3
    <2>2. CASE m # n
        BY <1>1, <1>2, <2>2, FittingPart
    <2> QED BY <2>1, <2>2
<1> QED BY <1>2 DEF Fitting

\* A pod that is not of W takes nothing from those that are.
LEMMA BindOtherFits ==
    ASSUME NEW c, Sound(c), NEW W \in SUBSET Pod, Fitting(c, W), NEW p \in Pod \ W,
           NEW n \in Node, NEW d, d = BindPod(c, p, n)
    PROVE  Fitting(d, W)
<1>1. /\ d.nodes = c.nodes /\ d.allocatable = c.allocatable /\ d.requests = c.requests
      /\ \A m \in Node : d.podsOn[m] \cap W \subseteq c.podsOn[m]
    BY BindPodEffect DEF Sound, SameFrame
<1> QED BY <1>1, FittingPart DEF Fitting

\* Pod p has completed: it is off its node and, if it was in the queue, still there.
Ended(c, p) ==
    [Release(c, p, c.node[p]) EXCEPT !.phase[p] = "Succeeded", !.node[p] = NoNode]

\* The fields after a completion.
LEMMA CompletedFields ==
    ASSUME NEW c \in ClusterType, NEW p \in Pod, LivePod(c, p), NEW d, d = Ended(c, p)
    PROVE  \E a, b :
              /\ Released(c, p, c.node[p], a, b)
              /\ d = [nodes |-> c.nodes, allocatable |-> c.allocatable, allocated |-> a,
                      podsOn |-> b, pods |-> c.pods,
                      phase |-> [c.phase EXCEPT ![p] = "Succeeded"],
                      node |-> [c.node EXCEPT ![p] = NoNode], requests |-> c.requests,
                      resize_status |-> c.resize_status, pending_queue |-> c.pending_queue]
<1> DEFINE r == Release(c, p, c.node[p])
<1>1. PICK a, b : Released(c, p, c.node[p], a, b)
    BY ReleaseFields
<1>2. d = [r EXCEPT !.phase[p] = "Succeeded", !.node[p] = NoNode]
    BY DEF Ended
<1>3. r = [nodes |-> c.nodes, allocatable |-> c.allocatable, allocated |-> a, podsOn |-> b,
           pods |-> c.pods, phase |-> c.phase, node |-> c.node, requests |-> c.requests,
           resize_status |-> c.resize_status, pending_queue |-> c.pending_queue]
    BY <1>1 DEF Released
<1> HIDE DEF r
<1>4. d = [nodes |-> c.nodes, allocatable |-> c.allocatable, allocated |-> a,
           podsOn |-> b, pods |-> c.pods,
           phase |-> [c.phase EXCEPT ![p] = "Succeeded"],
           node |-> [c.node EXCEPT ![p] = NoNode], requests |-> c.requests,
           resize_status |-> c.resize_status, pending_queue |-> c.pending_queue]
    BY <1>2, <1>3 DEF ClusterType
<1> QED BY <1>1, <1>4

\* A completion takes the pod off its node, whatever its phase was, and leaves a pod that
\* was pending in the queue.
LEMMA CompletedKept ==
    ASSUME NEW c, Sound(c), NEW p \in Pod, LivePod(c, p), NEW d, d = Ended(c, p)
    PROVE  /\ Sound(d)
           /\ Queued(c) => Queued(d)
           /\ d.nodes = c.nodes /\ d.allocatable = c.allocatable
           /\ d.pods = c.pods /\ d.requests = c.requests /\ d.phase[p] = "Succeeded"
           /\ \A q \in Pod \ {p} : d.phase[q] = c.phase[q] /\ d.node[q] = c.node[q]
           /\ \A n \in Node : d.podsOn[n] = c.podsOn[n] \/ d.podsOn[n] = c.podsOn[n] \ {p}
<1> USE DEF Sound
<1>1. PICK a, b :
          /\ Released(c, p, c.node[p], a, b)
          /\ d = [nodes |-> c.nodes, allocatable |-> c.allocatable, allocated |-> a,
                  podsOn |-> b, pods |-> c.pods,
                  phase |-> [c.phase EXCEPT ![p] = "Succeeded"],
                  node |-> [c.node EXCEPT ![p] = NoNode], requests |-> c.requests,
                  resize_status |-> c.resize_status, pending_queue |-> c.pending_queue]
    BY CompletedFields
<1>2. d \in ClusterType
    <2>1. /\ [c.phase EXCEPT ![p] = "Succeeded"] \in [Pod -> PodPhase]
          /\ [c.node EXCEPT ![p] = NoNode] \in [Pod -> Node \cup {NoNode}]
        BY DEF ClusterType, PodPhase
    <2> QED BY <1>1, <2>1, Fields DEF ClusterType, Released
<1>3. /\ \A q \in Pod : /\ Is(d, q, "Running") <=> Is(c, q, "Running") /\ q # p
                        /\ Is(d, q, "Pending") <=> Is(c, q, "Pending") /\ q # p
      /\ d.pods = c.pods /\ d.nodes = c.nodes /\ d.allocatable = c.allocatable
      /\ d.requests = c.requests /\ d.pending_queue = c.pending_queue
      /\ d.podsOn = b /\ d.allocated = a /\ d.phase[p] = "Succeeded"
      /\ \A q \in Pod \ {p} : d.phase[q] = c.phase[q] /\ d.node[q] = c.node[q]
    BY <1>1 DEF ClusterType, Is, LivePod
<1>4. Queued(c) => Queued(d)
    BY <1>3 DEF Queued
<1>5. \A m \in Node : d.podsOn[m] = c.podsOn[m] \/ d.podsOn[m] = c.podsOn[m] \ {p}
    BY <1>1, <1>3 DEF Released
<1>6. LinksAgree(d)
    <2> SUFFICES ASSUME NEW m \in Node, c.nodes[m] = "live", NEW q \in Pod
                 PROVE  q \in d.podsOn[m] <=> Is(d, q, "Running") /\ d.node[q] = m
        BY <1>3 DEF LinksAgree
    <2>1. LiveNode(c, m)
        BY DEF LiveNode
    <2>2. q \in c.podsOn[m] <=> Is(c, q, "Running") /\ c.node[q] = m
        BY DEF LinksAgree
    <2> QED BY <1>1, <1>3, <2>1, <2>2 DEF Released
<1>7. Placed(d)
    BY <1>1 DEF ClusterType, Placed, LivePod
<1>8. FiniteLists(d)
    <2>1. \A m \in Node : IsFiniteSet(c.podsOn[m]) /\ IsFiniteSet(c.podsOn[m] \ {p})
        BY FS_Subset DEF FiniteLists
    <2> QED BY <1>5, <2>1 DEF FiniteLists
<1>9. AllocationExact(d)
    <2> SUFFICES ASSUME NEW m \in Node, c.nodes[m] = "live" PROVE a[m] = Sum(c.requests, b[m])
        BY <1>3, AllocationIs DEF Booked
    <2>1. CASE Is(c, p, "Running")
        BY <1>1, <2>1, ReleasedBooked
    <2>2. CASE ~ Is(c, p, "Running")
        <3>1. c.node[p] = NoNode
            BY <2>2 DEF Placed, Is
        <3>2. a[m] = c.allocated[m] /\ b[m] = c.podsOn[m]
            BY <1>1, <3>1, NoNodeAssumption DEF Released
        <3> QED BY <3>2, AllocationIs DEF Booked
    <2> QED BY <2>1, <2>2
<1> QED BY <1>2, <1>3, <1>4, <1>5, <1>6, <1>7, <1>8, <1>9

\* A completion leaves room.
LEMMA CompletedFits ==
    ASSUME NEW c, Sound(c), NEW W \in SUBSET Pod, Fitting(c, W), NEW p \in Pod,
           LivePod(c, p), NEW d, d = Ended(c, p)
    PROVE  Fitting(d, W)
<1>1. /\ d.nodes = c.nodes /\ d.allocatable = c.allocatable /\ d.requests = c.requests
      /\ \A n \in Node : d.podsOn[n] = c.podsOn[n] \/ d.podsOn[n] = c.podsOn[n] \ {p}
    BY CompletedKept
<1>2. ASSUME NEW n \in Node, c.nodes[n] = "live"
      PROVE  Sum(d.requests, d.podsOn[n] \cap W) <= d.allocatable[n]
    <2>1. d.podsOn[n] \cap W \subseteq c.podsOn[n]
        BY <1>1
    <2> QED BY <1>1, <1>2, <2>1, FittingPart
<1> QED BY <1>1, <1>2 DEF Fitting
=============================================================================

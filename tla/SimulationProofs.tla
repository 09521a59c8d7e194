---------------------------- MODULE SimulationProofs ----------------------------
(***************************************************************************)
(* Proofs about Simulation for every set of nodes and pods, every table of *)
(* sizes, priorities, lifetimes and submission times, any resizes and any  *)
(* daemonset: the cluster stays sound between the events of the engine,    *)
(* the submitted pods fit their nodes, preemption serves priority, and     *)
(* every node has its daemonset pod.                                       *)
(***************************************************************************)
EXTENDS Stepping, ClusterProofs

-----------------------------------------------------------------------------
(***************************************************************************)
(* The engine's queue: what is left of it when an event is taken off, and  *)
(* what is on it when events are added.                                    *)
(***************************************************************************)
Timed(q) == \A e \in DOMAIN q : e = [after |-> e.after, event |-> e.event] /\ e.after \in Int

Events(q) == {e.event : e \in DOMAIN q}

\* An event is on the queue at one time at most, and once.
Once(q, ev) ==
    \A e, f \in DOMAIN q : e.event = ev /\ f.event = ev => e = f /\ q[e] = 1

\* Event f of the queue, when e has been taken.
Sooner(f, e) == [after |-> f.after - e.after, event |-> f.event]

\* What is left was there before, and what was there and is not e is left.
LEMMA PopIs ==
    ASSUME NEW q, Timed(q), NEW e \in DOMAIN q, NEW r, r = Pop(q, e)
    PROVE  /\ \A x \in DOMAIN r : \E f \in DOMAIN q :
                 /\ x = Sooner(f, e)
                 /\ IF f = e THEN q[f] - 1 > 0 /\ r[x] = q[f] - 1 ELSE r[x] = q[f]
           /\ \A f \in DOMAIN q : f # e /\ q[f] > 0 => Sooner(f, e) \in DOMAIN r
<1> DEFINE b == q (-) SetToBag({e})
           Moved(f) == [f EXCEPT !.after = @ - e.after]
           Back(x) == [x EXCEPT !.after = @ + e.after]
<1>1. /\ DOMAIN b = {f \in DOMAIN q : IF f = e THEN q[f] - 1 > 0 ELSE q[f] > 0}
      /\ \A f \in DOMAIN b : b[f] = IF f = e THEN q[f] - 1 ELSE q[f]
    BY DEF SetToBag, (-)
<1>2. r = [x \in {Moved(f) : f \in DOMAIN b} |-> b[Back(x)]]
    BY DEF Pop, Elapse
<1> HIDE DEF b
<1>3. \A f \in DOMAIN q : Moved(f) = Sooner(f, e) /\ Back(Sooner(f, e)) = f
    <2> SUFFICES ASSUME NEW f \in DOMAIN q PROVE Moved(f) = Sooner(f, e) /\ Back(Sooner(f, e)) = f
        OBVIOUS
    <2>1. /\ f = [after |-> f.after, event |-> f.event] /\ f.after \in Int
          /\ e.after \in Int
        BY DEF Timed
    <2>2. Moved(f) = Sooner(f, e)
        BY <2>1 DEF Sooner
    <2>3. f.after - e.after + e.after = f.after
        BY <2>1
    <2>4. Back(Sooner(f, e)) = [after |-> f.after - e.after + e.after, event |-> f.event]
        BY DEF Sooner
    <2> QED BY <2>1, <2>2, <2>3, <2>4
<1> HIDE DEF Moved, Back
<1>4. \A x \in DOMAIN r : \E f \in DOMAIN b : x = Moved(f) /\ r[x] = b[Back(x)]
    BY <1>2
<1>5. \A f \in DOMAIN b : Moved(f) \in DOMAIN r
    BY <1>2
<1>6. ASSUME NEW x \in DOMAIN r
      PROVE  \E f \in DOMAIN q :
                 /\ x = Sooner(f, e)
                 /\ IF f = e THEN q[f] - 1 > 0 /\ r[x] = q[f] - 1 ELSE r[x] = q[f]
    <2>1. PICK f \in DOMAIN b : x = Moved(f) /\ r[x] = b[Back(x)]
        BY <1>4
    <2>2. f \in DOMAIN q /\ x = Sooner(f, e) /\ r[x] = b[f]
        BY <1>1, <1>3, <2>1
    <2> QED BY <1>1, <2>2
<1>7. \A f \in DOMAIN q : f # e /\ q[f] > 0 => Sooner(f, e) \in DOMAIN r
    BY <1>1, <1>3, <1>5
<1> QED BY <1>6, <1>7

\* The events that are left; one that was there once is there no more when it is taken,
\* and stays when another is.
LEMMA PopEvents ==
    ASSUME NEW q, Timed(q), NEW e \in DOMAIN q, NEW r, r = Pop(q, e)
    PROVE  /\ Timed(r)
           /\ Events(r) \subseteq Events(q)
           /\ \A ev : Once(q, ev) => Once(r, ev)
           /\ Once(q, e.event) => e.event \notin Events(r)
           /\ \A ev \in Events(q) : Once(q, ev) /\ ev # e.event => ev \in Events(r)
<1>1. /\ \A x \in DOMAIN r : \E f \in DOMAIN q :
                 /\ x = Sooner(f, e)
                 /\ IF f = e THEN q[f] - 1 > 0 /\ r[x] = q[f] - 1 ELSE r[x] = q[f]
      /\ \A f \in DOMAIN q : f # e /\ q[f] > 0 => Sooner(f, e) \in DOMAIN r
    BY PopIs
<1>2. \A f : Sooner(f, e).event = f.event /\ Sooner(f, e).after = f.after - e.after
             /\ Sooner(f, e) = [after |-> f.after - e.after, event |-> f.event]
    BY DEF Sooner
<1> HIDE DEF Sooner
<1>3. Timed(r)
    <2> SUFFICES ASSUME NEW x \in DOMAIN r
                 PROVE  x = [after |-> x.after, event |-> x.event] /\ x.after \in Int
        BY DEF Timed
    <2>1. PICK f \in DOMAIN q : x = Sooner(f, e)
        BY <1>1
    <2>2. f.after \in Int /\ e.after \in Int
        BY DEF Timed
    <2>3. x.event = f.event /\ x.after = f.after - e.after
          /\ x = [after |-> f.after - e.after, event |-> f.event]
        BY <1>2, <2>1
    <2> QED BY <2>2, <2>3
<1>4. Events(r) \subseteq Events(q)
    BY <1>1, <1>2 DEF Events
<1>5. ASSUME NEW ev, Once(q, ev) PROVE Once(r, ev)
    <2> SUFFICES ASSUME NEW x \in DOMAIN r, NEW y \in DOMAIN r, x.event = ev, y.event = ev
                 PROVE  x = y /\ r[x] = 1
        BY DEF Once
    <2>1. PICK f \in DOMAIN q :
                 /\ x = Sooner(f, e)
                 /\ IF f = e THEN q[f] - 1 > 0 /\ r[x] = q[f] - 1 ELSE r[x] = q[f]
        BY <1>1
    <2>2. PICK g \in DOMAIN q : y = Sooner(g, e)
        BY <1>1
    <2>3. f = g /\ q[f] = 1
        BY <1>2, <1>5, <2>1, <2>2 DEF Once
    <2> QED BY <2>1, <2>2, <2>3
<1>6. ASSUME Once(q, e.event) PROVE e.event \notin Events(r)
    <2> SUFFICES ASSUME NEW x \in DOMAIN r, x.event = e.event PROVE FALSE
        BY DEF Events
    <2>1. PICK f \in DOMAIN q :
                 /\ x = Sooner(f, e)
                 /\ IF f = e THEN q[f] - 1 > 0 /\ r[x] = q[f] - 1 ELSE r[x] = q[f]
        BY <1>1
    <2>2. f = e /\ q[f] = 1
        BY <1>2, <1>6, <2>1 DEF Once
    <2> QED BY <2>1, <2>2
<1>7. ASSUME NEW ev \in Events(q), Once(q, ev), ev # e.event PROVE ev \in Events(r)
    <2>1. PICK f \in DOMAIN q : f.event = ev
        BY DEF Events
    <2>2. f # e /\ q[f] > 0
        BY <1>7, <2>1 DEF Once
    <2>3. Sooner(f, e) \in DOMAIN r
        BY <1>1, <2>2
    <2>4. Sooner(f, e).event = ev
        BY <1>2, <2>1
    <2> QED BY <2>3, <2>4 DEF Events
<1> QED BY <1>3, <1>4, <1>5, <1>6, <1>7

\* Both queues are on the new one, and an event that only one of them has comes once still.
LEMMA AddEvents ==
    ASSUME NEW q, Timed(q), NEW b, Timed(b), NEW r, r = q (+) b
    PROVE  /\ Timed(r)
           /\ Events(r) = Events(q) \cup Events(b)
           /\ \A ev : Once(q, ev) /\ ev \notin Events(b) => Once(r, ev)
           /\ \A ev : Once(b, ev) /\ ev \notin Events(q) => Once(r, ev)
<1>1. /\ DOMAIN r = DOMAIN q \cup DOMAIN b
      /\ \A e \in DOMAIN r : r[e] = (IF e \in DOMAIN q THEN q[e] ELSE 0)
                                    + (IF e \in DOMAIN b THEN b[e] ELSE 0)
    BY DEF (+)
<1>2. Timed(r) /\ Events(r) = Events(q) \cup Events(b)
    BY <1>1 DEF Timed, Events
<1>3. ASSUME NEW ev, Once(q, ev), ev \notin Events(b) PROVE Once(r, ev)
    <2> SUFFICES ASSUME NEW e \in DOMAIN r, NEW f \in DOMAIN r, e.event = ev, f.event = ev
                 PROVE  e = f /\ r[e] = 1
        BY DEF Once
    <2>1. e \in DOMAIN q /\ f \in DOMAIN q /\ e \notin DOMAIN b
        BY <1>1, <1>3 DEF Events
    <2>2. e = f /\ q[e] = 1
        BY <1>3, <2>1 DEF Once
    <2> QED BY <1>1, <2>1, <2>2
<1>4. ASSUME NEW ev, Once(b, ev), ev \notin Events(q) PROVE Once(r, ev)
    <2> SUFFICES ASSUME NEW e \in DOMAIN r, NEW f \in DOMAIN r, e.event = ev, f.event = ev
                 PROVE  e = f /\ r[e] = 1
        BY DEF Once
    <2>1. e \in DOMAIN b /\ f \in DOMAIN b /\ e \notin DOMAIN q
        BY <1>1, <1>4 DEF Events
    <2>2. e = f /\ b[e] = 1
        BY <1>4, <2>1 DEF Once
    <2> QED BY <1>1, <2>1, <2>2
<1> QED BY <1>2, <1>3, <1>4

\* The empty queue.
LEMMA NoEvents == Timed(EmptyBag) /\ Events(EmptyBag) = {}
BY DEF Timed, Events, EmptyBag, SetToBag

\* A queue of one event.
LEMMA OneEvent ==
    ASSUME NEW t \in Int, NEW ev
    PROVE  Timed(At(t, ev)) /\ Events(At(t, ev)) = {ev} /\ Once(At(t, ev), ev)
<1>1. /\ DOMAIN At(t, ev) = {[after |-> t, event |-> ev]}
      /\ At(t, ev)[[after |-> t, event |-> ev]] = 1
    BY DEF At, SetToBag
<1> QED BY <1>1 DEF Timed, Events, Once

-----------------------------------------------------------------------------
(***************************************************************************)
(* The operations between the passes: each keeps a sound cluster, and the  *)
(* submitted pods on their nodes fit.                                      *)
(***************************************************************************)
\* The assumptions on the constants, in the form the lemmas about passes want.
LEMMA WorkRanked == Ranked(Work) /\ IsFiniteSet(Pod)
BY SimulationAssumption DEF Ranked, Work

\* The fields after a completion.
LEMMA CompletePodFields ==
    ASSUME NEW c \in ClusterType, NEW p \in Pod, LivePod(c, p), NEW d, d = CompletePod(c, p)
    PROVE  \E a, b :
              /\ Released(c, p, c.node[p], a, b)
              /\ d = [nodes |-> c.nodes, allocatable |-> c.allocatable, allocated |-> a,
                      podsOn |-> b, pods |-> c.pods,
                      phase |-> [c.phase EXCEPT ![p] = "Succeeded"],
                      node |-> [c.node EXCEPT ![p] = NoNode], requests |-> c.requests,
                      resize_status |-> c.resize_status, pending_queue |-> c.pending_queue]
<1>1. d = Ended(c, p)
    BY DEF CompletePod, Ended
<1> QED BY <1>1, CompletedFields

\* A completion takes the pod off its node, whatever its phase was, and leaves a pod that
\* was pending in the queue; what fitted fits.
LEMMA CompletePodKept ==
    ASSUME NEW c, Sound(c), NEW p \in Pod, NEW d, d = CompletePod(c, p)
    PROVE  /\ Sound(d)
           /\ Queued(c) => Queued(d)
           /\ d.nodes = c.nodes /\ d.allocatable = c.allocatable
           /\ d.pods = c.pods /\ d.requests = c.requests
           /\ \A q \in Pod \ {p} : d.phase[q] = c.phase[q]
           /\ \A n \in Node : d.podsOn[n] = c.podsOn[n] \/ d.podsOn[n] = c.podsOn[n] \ {p}
<1>1. CASE ~ LivePod(c, p)
    BY <1>1 DEF CompletePod
<1>2. CASE LivePod(c, p)
    <2>1. d = Ended(c, p)
        BY <1>2 DEF CompletePod, Ended
    <2> QED BY <1>2, <2>1, CompletedKept
<1> QED BY <1>1, <1>2

\* A completion leaves room.
LEMMA CompletePodFits ==
    ASSUME NEW c, Sound(c), NEW W \in SUBSET Pod, Fitting(c, W), NEW p \in Pod,
           NEW d, d = CompletePod(c, p)
    PROVE  Fitting(d, W)
<1>1. CASE ~ LivePod(c, p)
    BY <1>1 DEF CompletePod
<1>2. CASE LivePod(c, p)
    <2>1. d = Ended(c, p)
        BY <1>2 DEF CompletePod, Ended
    <2> QED BY <1>2, <2>1, CompletedFits
<1> QED BY <1>1, <1>2

\* A resize that is granted fits in what the node has left when the pod's own share is
\* given back; where daemons overcommit the node, the pod can only shrink.
LEMMA ResizePodFits ==
    ASSUME NEW c, Sound(c), NEW W \in SUBSET Pod, Fitting(c, W), NEW p \in Pod,
           NEW size \in Nat, NEW d, d = ResizePod(c, p, size)
    PROVE  Fitting(d, W)
<1> USE DEF Sound
<1>1. CASE ~ CanResize(c, p) \/ ~ ResizeFits(c, p, size)
    <2>1. /\ d.nodes = c.nodes /\ d.allocatable = c.allocatable /\ d.requests = c.requests
          /\ d.podsOn = c.podsOn
        BY <1>1, ResizeRefused
    <2> QED BY <2>1 DEF Fitting
<1>2. CASE CanResize(c, p) /\ ResizeFits(c, p, size)
    <2> DEFINE n == c.node[p]
    <2>1. /\ n \in Node /\ c.nodes[n] = "live" /\ p \in c.podsOn[n]
          /\ size <= SatSub(c.allocatable[n], c.allocated[n]) + c.requests[p]
        BY <1>2 DEF CanResize, ResizeFits, LiveNode, LinksAgree
    <2>2. /\ d.nodes = c.nodes /\ d.allocatable = c.allocatable /\ d.podsOn = c.podsOn
          /\ d.requests[p] = size /\ \A q \in Pod \ {p} : d.requests[q] = c.requests[q]
        <3>1. d = [nodes |-> c.nodes, allocatable |-> c.allocatable,
                   allocated |-> [c.allocated EXCEPT ![n] = SatSub(@, c.requests[p]) + size],
                   podsOn |-> c.podsOn, pods |-> c.pods, phase |-> c.phase, node |-> c.node,
                   requests |-> [c.requests EXCEPT ![p] = size],
                   resize_status |-> [c.resize_status EXCEPT ![p] = "Completed"],
                   pending_queue |-> c.pending_queue]
            BY <1>2, ResizeGranted
        <3> QED BY <3>1 DEF ClusterType
    <2>3. ASSUME NEW m \in Node, c.nodes[m] = "live", p \notin c.podsOn[m] \cap W
          PROVE  Sum(d.requests, d.podsOn[m] \cap W) <= d.allocatable[m]
        <3>1. \A q \in d.podsOn[m] \cap W : d.requests[q] = c.requests[q]
            BY <2>2, <2>3
        <3> QED BY <2>2, <2>3, <3>1, FittingPart
    <2>4. ASSUME NEW m \in Node, c.nodes[m] = "live", p \in c.podsOn[m] \cap W
          PROVE  Sum(d.requests, d.podsOn[m] \cap W) <= d.allocatable[m]
        <3> DEFINE A == c.podsOn[m] \cap W
                   R == A \ {p}
        <3>1. m = n
            BY <2>4 DEF LinksAgree
        <3>2. /\ p \in A /\ IsFiniteSet(A) /\ A \subseteq Pod /\ A \in SUBSET c.podsOn[m]
              /\ IsFiniteSet(R) /\ p \notin R /\ R \subseteq Pod /\ R = A \ {p}
              /\ IsFiniteSet(c.podsOn[m]) /\ c.podsOn[m] \subseteq Pod
            BY <2>4, FS_Subset DEF FiniteLists, ClusterType
        <3>3. Sum(c.requests, A) <= c.allocatable[m]
            BY <2>4 DEF Fitting
        <3> HIDE DEF A, R
        <3>4. d \in ClusterType
            BY ResizePodType
        <3>5. /\ \A q \in A : c.requests[q] \in Nat /\ d.requests[q] \in Nat
              /\ \A q \in R : c.requests[q] \in Nat /\ d.requests[q] = c.requests[q]
              /\ \A q \in c.podsOn[m] : c.requests[q] \in Nat
              /\ c.requests[p] \in Nat /\ c.allocatable[m] \in Nat /\ c.allocated[m] \in Nat
            BY <2>2, <3>2, <3>4 DEF ClusterType
        <3>6. Sum(c.requests, A) = c.requests[p] + Sum(c.requests, A \ {p})
              /\ Sum(d.requests, A) = d.requests[p] + Sum(d.requests, A \ {p})
            BY <3>2, <3>5, SumRemove
        <3>7. Sum(c.requests, A \ {p}) = Sum(c.requests, R)
              /\ Sum(d.requests, A \ {p}) = Sum(d.requests, R)
            BY <3>2, Zenon
        <3>8. Sum(d.requests, R) = Sum(c.requests, R) /\ Sum(c.requests, R) \in Nat
            BY <3>2, <3>5, SumSame, SumNat
        <3>9. Sum(c.requests, A) <= c.allocated[m]
            <4>1. Sum(c.requests, A) <= Sum(c.requests, c.podsOn[m])
                BY <3>2, <3>5, SumPart
            <4>2. c.allocated[m] = Sum(c.requests, c.podsOn[m])
                BY <2>4, AllocationIs DEF Booked
            <4> QED BY <4>1, <4>2
        <3>10. size <= SatSub(c.allocatable[m], c.allocated[m]) + c.requests[p]
            BY <2>1, <3>1
        <3>11. Sum(d.requests, A) <= c.allocatable[m]
            BY <2>2, <3>3, <3>5, <3>6, <3>7, <3>8, <3>9, <3>10 DEF SatSub
        <3> QED BY <2>2, <3>11 DEF A
    <2> QED BY <2>2, <2>3, <2>4 DEF Fitting
<1> QED BY <1>1, <1>2

\* From c to d by resizes.
ResizedTo(c, d) ==
    /\ Kept(c, d)
    /\ d.nodes = c.nodes /\ d.podsOn = c.podsOn /\ d.pods = c.pods /\ d.phase = c.phase
    /\ \A W \in SUBSET Pod : Fitting(c, W) => Fitting(d, W)

\* resize_pod_requests changes requests and books alone.
LEMMA ResizePodIs ==
    ASSUME NEW c, Sound(c), NEW p \in Pod, NEW size \in Nat, NEW d, d = ResizePod(c, p, size)
    PROVE  ResizedTo(c, d)
<1>1. d.nodes = c.nodes /\ d.podsOn = c.podsOn /\ d.pods = c.pods /\ d.phase = c.phase
    <2>1. CASE ~ CanResize(c, p) \/ ~ ResizeFits(c, p, size)
        BY <2>1, ResizeRefused DEF Sound
    <2>2. CASE CanResize(c, p) /\ ResizeFits(c, p, size)
        BY <2>2, ResizeGranted DEF Sound
    <2> QED BY <2>1, <2>2
<1> QED BY <1>1, ResizePodKept, ResizePodFits DEF ResizedTo

\* Resizing the pods of an owner is a walk along their order.
LEMMA ResizeWalk ==
    ASSUME NEW c \in ClusterType, NEW s \in Seq(Pod), NEW size \in Nat
    PROVE  \E w \in [0..Len(s) -> ClusterType] :
              /\ w[0] = c
              /\ \A i \in 1..Len(s) : w[i] = ResizePod(w[i - 1], s[i], size)
              /\ FoldLeft(LAMBDA b, p : ResizePod(b, p, size), c, s) = w[Len(s)]
<1> DEFINE n == Len(s)
           Eqn(g) == g = [t \in SUBSET (1..n) |->
                             IF t = {} THEN c ELSE ResizePod(g[t \ {Max(t)}], s[Max(t)], size)]
           g == CHOOSE h : Eqn(h)
           step == [i \in 1..n |-> [d \in ClusterType |-> ResizePod(d, s[i], size)]]
<1>0. n \in Nat /\ DOMAIN s = 1..n /\ \A i \in 1..n : s[i] \in Pod
    BY LenProperties, ElementOfSeq
<1>1. FoldLeft(LAMBDA b, p : ResizePod(b, p, size), c, s) = g[1..n]
    BY <1>0 DEF FoldLeft, MapThenFoldSet
<1>2. step \in [1..n -> [ClusterType -> ClusterType]]
    BY <1>0, ResizePodType
<1>3. \A t \in SUBSET (1..n) : t # {} => Max(t) \in t
    BY <1>0, MaxOf
<1> HIDE DEF n, step
<1>4. \E h : Eqn(h)
    <2>1. PICK h : Solves(h, n, ClusterType, step, c)
        BY <1>0, <1>2, FoldSolved
    <2>2. \A t \in SUBSET (1..n) :
              h[t] = IF t = {} THEN c ELSE ResizePod(h[t \ {Max(t)}], s[Max(t)], size)
        BY <1>3, <2>1 DEF Solves, step
    <2>3. Eqn(h)
        BY <2>1, <2>2 DEF Solves
    <2> QED BY <2>3
<1>5. Eqn(g)
    BY <1>4
<1> HIDE DEF g
<1>6. Tracks(g, n, ClusterType, step, c)
    BY <1>3, <1>5 DEF Tracks, step
<1>7. PICK w : Walk(w, n, ClusterType, step, c) /\ w[n] = g[1..n]
    BY <1>0, <1>2, <1>6, FoldWalked
<1>8. \A i \in 1..n : w[i] = ResizePod(w[i - 1], s[i], size)
    <2> TAKE i \in 1..n
    <2>1. w[i - 1] \in ClusterType /\ w[i] = step[i][w[i - 1]]
        BY <1>0, <1>7 DEF Walk
    <2> QED BY <2>1 DEF step
<1> QED BY <1>1, <1>7, <1>8 DEF Walk, n

\* An owner's pods are resized one after the other.
LEMMA ResizeAll ==
    ASSUME NEW c, Sound(c), NEW s \in Seq(Pod), NEW size \in Nat
    PROVE  ResizedTo(c, FoldLeft(LAMBDA b, p : ResizePod(b, p, size), c, s))
<1> DEFINE n == Len(s)
           d == FoldLeft(LAMBDA b, p : ResizePod(b, p, size), c, s)
<1>0. n \in Nat /\ \A i \in 1..n : s[i] \in Pod
    BY LenProperties, ElementOfSeq
<1>1. PICK w \in [0..n -> ClusterType] :
              /\ w[0] = c
              /\ \A i \in 1..n : w[i] = ResizePod(w[i - 1], s[i], size)
              /\ d = w[n]
    BY ResizeWalk DEF Sound
<1> HIDE DEF d
<1> DEFINE P == {i \in 0..n : Sound(w[i]) /\ ResizedTo(c, w[i])}
<1>2. 0 \in P
    <2>1. ResizedTo(c, c)
        BY DEF ResizedTo, Kept
    <2>2. Sound(w[0]) /\ ResizedTo(c, w[0])
        BY <1>1, <2>1, Zenon
    <2> QED BY <1>0, <2>2
<1>3. ASSUME NEW i \in 1..n, i - 1 \in P PROVE i \in P
    <2>1. Sound(w[i - 1]) /\ ResizedTo(c, w[i - 1])
        BY <1>3
    <2>2. ResizedTo(w[i - 1], w[i])
        <3>1. w[i] = ResizePod(w[i - 1], s[i], size) /\ s[i] \in Pod
            BY <1>0, <1>1
        <3> QED BY <2>1, <3>1, ResizePodIs
    <2>3. Sound(w[i]) /\ ResizedTo(c, w[i])
        BY <2>1, <2>2, KeptChain DEF ResizedTo, Kept
    <2> QED BY <1>0, <2>3
<1> HIDE DEF P, n
<1>4. n \in P
    <2>1. \A i \in 1..n : i - 1 \in P => i \in P
        BY <1>3
    <2> QED BY <1>0, <1>2, <2>1, WalkInduction
<1>5. ResizedTo(c, w[n])
    BY <1>4 DEF P
<1>6. ResizedTo(c, d)
    BY <1>1, <1>5, Zenon
<1> QED BY <1>6 DEF d

-----------------------------------------------------------------------------
(***************************************************************************)
(* The inductive invariant.  Between events the cluster is sound, every    *)
(* pending pod is queued, the submitted pods fit, and a daemonset pod runs *)
(* from the event that brings it; what an event on the queue is about is   *)
(* what its handler takes for granted.                                     *)
(***************************************************************************)
DaemonsRun(c) == \A p \in Daemon : c.pods[p] = "fresh" \/ Is(c, p, "Running")

Steady(c) == Sound(c) /\ Queued(c) /\ Fitting(c, Work) /\ DaemonsRun(c)

Submission(p) == [kind |-> "PodSubmitted", pod |-> p]
Readiness(n) == [kind |-> "NodeReady", node |-> n]

EventSound(c, ev) ==
    /\ ev.kind = "PodSubmitted" =>
          /\ ev = Submission(ev.pod)
          /\ ev.pod \in Work /\ c.pods[ev.pod] = "fresh"
    /\ ev.kind = "NodeReady" =>
          /\ ev = Readiness(ev.node)
          /\ ev.node \in Node /\ c.nodes[ev.node] # "fresh"
    /\ ev.kind = "PodCompleted" => ev.pod \in Work
    /\ ev.kind = "PodResizeByOwner" => ev.size \in Nat
    /\ ev.kind = "NodeLaunching" => ev.capacity \in Nat

\* The events that come once for a pod or a node.
Single(ev) == ev.kind \in {"PodSubmitted", "NodeReady"}

QueueSound(c, q) ==
    /\ Timed(q)
    /\ \A ev \in Events(q) : EventSound(c, ev) /\ (Single(ev) => Once(q, ev))

\* A live node has its daemonset pod unless its NodeReady is still to come.
DaemonsOn(c, E) ==
    \A n \in Node : c.nodes[n] = "live" =>
        IF Readiness(n) \in E THEN c.podsOn[n] \cap Daemon = {}
                              ELSE Cardinality(c.podsOn[n] \cap Daemon) = 1

IInv ==
    /\ Steady(state)
    /\ QueueSound(state, queue)
    /\ DaemonSize # 0 => DaemonsOn(state, Events(queue))

\* What taking an event leaves of a sound queue.
LEMMA QueueTaken ==
    ASSUME NEW c, NEW q, QueueSound(c, q), NEW e \in DOMAIN q, NEW r, r = Pop(q, e)
    PROVE  /\ e.event \in Events(q) /\ EventSound(c, e.event)
           /\ QueueSound(c, r)
           /\ Events(r) \subseteq Events(q)
           /\ Single(e.event) => e.event \notin Events(r)
           /\ \A ev \in Events(q) : Single(ev) /\ ev # e.event => ev \in Events(r)
<1>1. Timed(q) /\ \A ev \in Events(q) : EventSound(c, ev) /\ (Single(ev) => Once(q, ev))
    BY DEF QueueSound
<1>2. e.event \in Events(q)
    BY DEF Events
<1>3. /\ Timed(r)
      /\ Events(r) \subseteq Events(q)
      /\ \A ev : Once(q, ev) => Once(r, ev)
      /\ Once(q, e.event) => e.event \notin Events(r)
      /\ \A ev \in Events(q) : Once(q, ev) /\ ev # e.event => ev \in Events(r)
    BY <1>1, PopEvents
<1> QED BY <1>1, <1>2, <1>3 DEF QueueSound

\* A sound queue with more events on it.
LEMMA QueueAdded ==
    ASSUME NEW c, NEW q, QueueSound(c, q), NEW b, QueueSound(c, b),
           \A ev \in Events(b) : Single(ev) => ev \notin Events(q), NEW r, r = q (+) b
    PROVE  QueueSound(c, r) /\ Events(r) = Events(q) \cup Events(b)
<1>1. /\ Timed(q) /\ \A ev \in Events(q) : EventSound(c, ev) /\ (Single(ev) => Once(q, ev))
      /\ Timed(b) /\ \A ev \in Events(b) : EventSound(c, ev) /\ (Single(ev) => Once(b, ev))
    BY DEF QueueSound
<1>2. /\ Timed(r)
      /\ Events(r) = Events(q) \cup Events(b)
      /\ \A ev : Once(q, ev) /\ ev \notin Events(b) => Once(r, ev)
      /\ \A ev : Once(b, ev) /\ ev \notin Events(q) => Once(r, ev)
    BY <1>1, AddEvents
<1> QED BY <1>1, <1>2 DEF QueueSound

\* The empty queue is sound.
LEMMA QueueOfNone == ASSUME NEW c PROVE QueueSound(c, EmptyBag) /\ Events(EmptyBag) = {}
BY NoEvents DEF QueueSound

\* A queue with one sound event is sound.
LEMMA QueueOfOne ==
    ASSUME NEW c, NEW t \in Int, NEW ev, EventSound(c, ev)
    PROVE  QueueSound(c, At(t, ev)) /\ Events(At(t, ev)) = {ev}
BY OneEvent DEF QueueSound

\* From q to r by more events, none of which comes once.
Extends(c, q, r) ==
    /\ QueueSound(c, r)
    /\ Events(q) \subseteq Events(r)
    /\ \A ev \in Events(r) \ Events(q) : ~ Single(ev)

\* Sound events that may come more than once extend a queue.
LEMMA QueueExtended ==
    ASSUME NEW c, NEW q, QueueSound(c, q), NEW b, QueueSound(c, b),
           \A ev \in Events(b) : ~ Single(ev), NEW r, r = q (+) b
    PROVE  Extends(c, q, r)
<1>1. QueueSound(c, r) /\ Events(r) = Events(q) \cup Events(b)
    BY QueueAdded
<1> QED BY <1>1 DEF Extends

\* One extension after another.
LEMMA ExtendsChain ==
    ASSUME NEW c, NEW p, NEW q, NEW r, Extends(c, p, q), Extends(c, q, r)
    PROVE  Extends(c, p, r)
BY DEF Extends

\* Scheduling nothing.
LEMMA NothingQueued ==
    ASSUME NEW c, NEW q, QueueSound(c, q), NEW b, b = EmptyBag
    PROVE  Extends(c, q, q) /\ Extends(c, q, q (+) b)
<1>1. QueueSound(c, b) /\ Events(b) = {}
    BY QueueOfNone
<1>2. Extends(c, q, q (+) b)
    BY <1>1, QueueExtended
<1> QED BY <1>2 DEF Extends

\* Scheduling one event that may come more than once.
LEMMA OneQueued ==
    ASSUME NEW c, NEW q, QueueSound(c, q), NEW t \in Int, NEW ev, EventSound(c, ev), ~ Single(ev)
    PROVE  Extends(c, q, q (+) At(t, ev))
<1> DEFINE b == At(t, ev)
<1>1. QueueSound(c, b) /\ Events(b) = {ev}
    BY QueueOfOne
<1> HIDE DEF b
<1>2. Extends(c, q, q (+) b)
    BY <1>1, QueueExtended
<1> QED BY <1>2 DEF b

\* Scheduling the provisioning loop.
LEMMA LoopQueued ==
    ASSUME NEW c, NEW q, QueueSound(c, q), NEW t \in Int
    PROVE  Extends(c, q, q (+) At(t, ProvisioningLoop))
BY OneQueued DEF ProvisioningLoop, EventSound, Single

\* A queue stays sound when the cluster changes in nothing its events are about.
LEMMA QueueCarried ==
    ASSUME NEW c, NEW d, NEW q, QueueSound(c, q),
           \A p \in Work : c.pods[p] = "fresh" /\ Submission(p) \in Events(q) => d.pods[p] = "fresh",
           \A n \in Node : c.nodes[n] # "fresh" => d.nodes[n] # "fresh"
    PROVE  QueueSound(d, q)
BY DEF QueueSound, EventSound

-----------------------------------------------------------------------------
(***************************************************************************)
(* What the handlers do to a steady cluster.                               *)
(***************************************************************************)
\* Preemption never evicts a daemonset pod, and no pass joins one to a node.
LEMMA PassedSteady ==
    ASSUME NEW c, Steady(c), NEW Q, Q \subseteq Work, NEW up, NEW d, PassedTo(c, d, Work, Q, up)
    PROVE  /\ Steady(d) /\ d.nodes = c.nodes /\ d.pods = c.pods
           /\ \A n \in Node : c.nodes[n] = "live" => d.podsOn[n] \cap Daemon = c.podsOn[n] \cap Daemon
           /\ \A v \in Pod : Is(c, v, "Running") /\ ~ Is(d, v, "Running")
                  => \E p \in Q : Priority[p] > Priority[v]
<1>1. Daemon \subseteq Pod /\ Work = Pod \ Daemon
    BY SimulationAssumption DEF Work
<1>2. d.nodes = c.nodes /\ d.pods = c.pods
    BY DEF PassedTo, SameFrame
<1>3. \A v \in Pod : Is(c, v, "Running") /\ ~ Is(d, v, "Running")
            => \E p \in Q : Priority[p] > Priority[v]
    BY DEF PassedTo
<1>4. DaemonsRun(d)
    <2> SUFFICES ASSUME NEW v \in Daemon, Is(c, v, "Running"), ~ Is(d, v, "Running") PROVE FALSE
        BY <1>2 DEF Steady, DaemonsRun
    <2>1. PICK p \in Q : Priority[p] > Priority[v]
        BY <1>1, <1>3
    <2>2. /\ p \in Pod \ Daemon /\ v \in Pod
          /\ Priority[p] \in Int /\ Priority[v] \in Int /\ Priority[p] <= Priority[v]
        BY <1>1, SimulationAssumption
    <2> QED BY <2>1, <2>2
<1>5. ASSUME NEW n \in Node, c.nodes[n] = "live"
      PROVE  d.podsOn[n] \cap Daemon = c.podsOn[n] \cap Daemon
    <2>1. d.podsOn[n] \ Work = c.podsOn[n] \ Work
        BY <1>5 DEF PassedTo
    <2>2. d.podsOn[n] \subseteq Pod /\ c.podsOn[n] \subseteq Pod
        BY DEF PassedTo, Kept, Sound, ClusterType, Steady
    <2> QED BY <1>1, <2>1, <2>2
<1>6. Steady(d)
    BY <1>4 DEF PassedTo, Kept, Steady
<1> QED BY <1>2, <1>3, <1>5, <1>6

\* Only submitted pods wait.
LEMMA QueueIsWork ==
    ASSUME NEW c, Steady(c)
    PROVE  c.pending_queue \in Seq(Pod) /\ QueueSet(c.pending_queue) \subseteq Work
<1>1. c.pending_queue \in Seq(Pod) /\ Daemon \subseteq Pod
    BY SimulationAssumption DEF Steady, Sound, ClusterType
<1>2. QueueSet(c.pending_queue) \subseteq Pod
    BY <1>1, LenProperties, ElementOfSeq DEF QueueSet
<1>3. \A p \in Daemon : p \notin QueueSet(c.pending_queue)
    BY <1>1 DEF Steady, DaemonsRun, Queued
<1> QED BY <1>1, <1>2, <1>3 DEF Work

\* A pass over the pending queue of a steady cluster; only submitted pods are queued.
LEMMA PassSteady ==
    ASSUME NEW c, Steady(c), NEW up \in SUBSET Node,
           NEW d \in SchedulePendingFrom(c, up, c.pending_queue)
    PROVE  /\ Steady(d) /\ d.nodes = c.nodes /\ d.pods = c.pods
           /\ \A n \in Node : c.nodes[n] = "live" => d.podsOn[n] \cap Daemon = c.podsOn[n] \cap Daemon
           /\ \A v \in Pod : Is(c, v, "Running") /\ ~ Is(d, v, "Running")
                  => \E p \in QueueSet(c.pending_queue) : Priority[p] > Priority[v]
<1> DEFINE Q == QueueSet(c.pending_queue)
<1>1. PassedTo(c, d, Work, Q, up) /\ Q \subseteq Work
    BY QueueIsWork, WorkRanked, PassOutcome DEF Steady
<1> HIDE DEF Q
<1>2. /\ Steady(d) /\ d.nodes = c.nodes /\ d.pods = c.pods
      /\ \A n \in Node : c.nodes[n] = "live" => d.podsOn[n] \cap Daemon = c.podsOn[n] \cap Daemon
      /\ \A v \in Pod : Is(c, v, "Running") /\ ~ Is(d, v, "Running")
              => \E p \in Q : Priority[p] > Priority[v]
    BY <1>1, PassedSteady
<1> QED BY <1>2 DEF Q

\* A steady cluster takes a new pod.
LEMMA SubmitSteady ==
    ASSUME NEW c, Steady(c), NEW p \in Work, c.pods[p] = "fresh", NEW size \in Nat,
           NEW d, d = SubmitPod(c, p, size)
    PROVE  /\ Steady(d) /\ d.nodes = c.nodes /\ d.podsOn = c.podsOn
           /\ \A q \in Pod \ {p} : d.pods[q] = c.pods[q]
           /\ \A v \in Pod : Is(c, v, "Running") => Is(d, v, "Running")
<1>0. p \in Pod /\ p \notin Daemon /\ Daemon \subseteq Pod /\ Work \in SUBSET Pod
    BY SimulationAssumption DEF Work
<1>1. Kept(c, d)
    BY <1>0, SubmitPodKept DEF Steady
<1>2. Fitting(d, Work)
    BY <1>0, SubmitPodFits DEF Steady
<1>3. /\ d.nodes = c.nodes /\ d.podsOn = c.podsOn
      /\ \A q \in Pod \ {p} : d.pods[q] = c.pods[q] /\ d.phase[q] = c.phase[q]
    BY <1>0, SubmitPodEffect DEF Steady, Sound
<1>4. DaemonsRun(d)
    BY <1>0, <1>3 DEF Steady, DaemonsRun, Is, LivePod
<1>5. \A v \in Pod : Is(c, v, "Running") => Is(d, v, "Running")
    BY <1>3 DEF Is, LivePod
<1> QED BY <1>1, <1>2, <1>3, <1>4, <1>5 DEF Steady, Kept

\* A steady cluster stays so when a submitted pod completes, running or not.
LEMMA CompleteSteady ==
    ASSUME NEW c, Steady(c), NEW p \in Work, NEW d, d = CompletePod(c, p)
    PROVE  /\ Steady(d) /\ d.nodes = c.nodes /\ d.pods = c.pods
           /\ \A n \in Node : d.podsOn[n] \cap Daemon = c.podsOn[n] \cap Daemon
           /\ \A v \in Pod : Is(c, v, "Running") => d.phase[v] # "Pending"
<1>0. p \in Pod /\ p \notin Daemon /\ Daemon \subseteq Pod /\ Work \in SUBSET Pod
    BY SimulationAssumption DEF Work
<1>1. /\ Sound(d) /\ Queued(d)
      /\ d.nodes = c.nodes /\ d.allocatable = c.allocatable /\ d.pods = c.pods
      /\ \A q \in Pod \ {p} : d.phase[q] = c.phase[q]
      /\ \A n \in Node : d.podsOn[n] = c.podsOn[n] \/ d.podsOn[n] = c.podsOn[n] \ {p}
    BY <1>0, CompletePodKept DEF Steady
<1>2. Fitting(d, Work)
    BY <1>0, CompletePodFits DEF Steady
<1>3. DaemonsRun(d)
    BY <1>0, <1>1 DEF Steady, DaemonsRun, Is, LivePod
<1>4. \A n \in Node : d.podsOn[n] \cap Daemon = c.podsOn[n] \cap Daemon
    <2> SUFFICES ASSUME NEW n \in Node PROVE d.podsOn[n] \cap Daemon = c.podsOn[n] \cap Daemon
        OBVIOUS
    <2>1. d.podsOn[n] = c.podsOn[n] \/ d.podsOn[n] = c.podsOn[n] \ {p}
        BY <1>1
    <2> QED BY <1>0, <2>1
<1>5. LivePod(c, p) => d.phase[p] # "Pending"
    <2> SUFFICES ASSUME LivePod(c, p) PROVE d.phase[p] # "Pending"
        OBVIOUS
    <2>1. \E a, b : d = [nodes |-> c.nodes, allocatable |-> c.allocatable, allocated |-> a,
                      podsOn |-> b, pods |-> c.pods,
                      phase |-> [c.phase EXCEPT ![p] = "Succeeded"],
                      node |-> [c.node EXCEPT ![p] = NoNode], requests |-> c.requests,
                      resize_status |-> c.resize_status, pending_queue |-> c.pending_queue]
        BY <1>0, CompletePodFields DEF Steady, Sound
    <2> QED BY <1>0, <2>1 DEF Steady, Sound, ClusterType
<1>6. \A v \in Pod : Is(c, v, "Running") => d.phase[v] # "Pending"
    BY <1>1, <1>5 DEF Is
<1> QED BY <1>1, <1>2, <1>3, <1>4, <1>6 DEF Steady

\* A steady cluster stays so when running pods are resized.
LEMMA ResizeSteady ==
    ASSUME NEW c, Steady(c), NEW d, ResizedTo(c, d)
    PROVE  Steady(d) /\ d.nodes = c.nodes /\ d.podsOn = c.podsOn /\ d.pods = c.pods /\ d.phase = c.phase
<1>1. Work \in SUBSET Pod
    BY DEF Work
<1> QED BY <1>1 DEF ResizedTo, Steady, Kept, DaemonsRun, Is, LivePod

\* A steady cluster takes a new node.
LEMMA AddNodeSteady ==
    ASSUME NEW c, Steady(c), NEW n \in Node, c.nodes[n] = "fresh", NEW capacity \in Nat,
           NEW d, d = AddNode(c, n, capacity)
    PROVE  /\ Steady(d) /\ d.nodes[n] = "live" /\ d.podsOn[n] = {}
           /\ \A m \in Node \ {n} : d.nodes[m] = c.nodes[m] /\ d.podsOn[m] = c.podsOn[m]
           /\ d.pods = c.pods /\ d.phase = c.phase /\ d.pending_queue = c.pending_queue
<1>0. Work \in SUBSET Pod
    BY DEF Work
<1>1. Kept(c, d)
    BY AddNodeKept DEF Steady
<1>2. Fitting(d, Work)
    BY <1>0, AddNodeFits DEF Steady
<1>3. /\ d.nodes[n] = "live" /\ d.podsOn[n] = {}
      /\ \A m \in Node \ {n} : d.nodes[m] = c.nodes[m] /\ d.podsOn[m] = c.podsOn[m]
      /\ d.pods = c.pods /\ d.phase = c.phase /\ d.pending_queue = c.pending_queue
    BY AddNodeEffect DEF Steady, Sound
<1>4. DaemonsRun(d)
    BY <1>3 DEF Steady, DaemonsRun, Is, LivePod
<1> QED BY <1>1, <1>2, <1>3, <1>4 DEF Steady, Kept

\* The daemonset's pod runs on its node at once, whether it fits or not.
LEMMA StartDaemonSteady ==
    ASSUME NEW c, Steady(c), NEW n \in Node, DaemonSize = 0 \/ Unused(Daemon, c.pods) # {},
           NEW d, d = StartDaemon(c, n)
    PROVE  /\ Steady(d) /\ d.nodes = c.nodes
           /\ \A p \in Work : d.pods[p] = c.pods[p]
           /\ \A m \in Node \ {n} : d.podsOn[m] \cap Daemon = c.podsOn[m] \cap Daemon
           /\ DaemonSize # 0 /\ c.nodes[n] = "live"
                  => \E p \in Daemon : d.podsOn[n] \cap Daemon = (c.podsOn[n] \cap Daemon) \cup {p}
           /\ \A v \in Pod : Is(c, v, "Running") => Is(d, v, "Running")
<1>0. Daemon \subseteq Pod /\ Work = Pod \ Daemon /\ DaemonSize \in Nat /\ Work \in SUBSET Pod
    BY SimulationAssumption DEF Work
<1>1. CASE DaemonSize = 0 \/ ~ LiveNode(c, n)
    BY <1>1 DEF StartDaemon, LiveNode
<1>2. CASE DaemonSize # 0 /\ LiveNode(c, n)
    <2> DEFINE p == CHOOSE q \in Unused(Daemon, c.pods) : TRUE
               b == SubmitPod(c, p, DaemonSize)
    <2>1. p \in Daemon /\ c.pods[p] = "fresh" /\ p \in Pod /\ p \in Pod \ Work
        <3>1. p \in Unused(Daemon, c.pods)
            BY <1>2
        <3> QED BY <1>0, <3>1 DEF Unused
    <2>2. d = BindPod(b, p, n)
        BY <1>2 DEF StartDaemon
    <2> HIDE DEF p
    <2>3. Kept(c, b) /\ Fitting(b, Work)
        BY <1>0, <2>1, SubmitPodKept, SubmitPodFits DEF Steady
    <2>4. /\ b.nodes = c.nodes /\ b.podsOn = c.podsOn /\ Is(b, p, "Pending")
          /\ \A q \in Pod \ {p} : b.pods[q] = c.pods[q] /\ b.phase[q] = c.phase[q]
        BY <1>0, <2>1, SubmitPodEffect DEF Steady, Sound
    <2> HIDE DEF b
    <2>5. Sound(b) /\ Queued(b) /\ b \in ClusterType
        BY <2>3 DEF Kept, Steady, Sound
    <2>6. Kept(b, d) /\ Fitting(d, Work)
        BY <1>0, <2>1, <2>2, <2>3, <2>5, BindPodKept, BindOtherFits
    <2>7. CanBind(b, p, n)
        BY <1>2, <2>4 DEF CanBind, LiveNode
    <2>8. /\ d.nodes = b.nodes /\ d.pods = b.pods
          /\ \A m \in Node :
                  \/ d.podsOn[m] = b.podsOn[m]
                  \/ m = n /\ CanBind(b, p, n) /\ d.podsOn[m] = b.podsOn[m] \cup {p}
          /\ \A q \in Pod :
                  Is(d, q, "Running") <=> Is(b, q, "Running") \/ (q = p /\ CanBind(b, p, n))
        BY <2>1, <2>2, <2>5, BindPodEffect DEF SameFrame
    <2>9. \A v \in Pod : Is(c, v, "Running") => Is(d, v, "Running")
        BY <2>4, <2>7, <2>8 DEF Is, LivePod
    <2>10. DaemonsRun(d)
        BY <1>0, <2>1, <2>4, <2>7, <2>8 DEF Steady, DaemonsRun, Is, LivePod
    <2>11. p \in d.podsOn[n]
        BY <2>1, <2>2, <2>7, <2>5 DEF BindPod, ClusterType
    <2>12. d.podsOn[n] = c.podsOn[n] \cup {p}
        BY <2>4, <2>8, <2>11
    <2>13. \A m \in Node \ {n} : d.podsOn[m] = c.podsOn[m]
        BY <2>4, <2>8
    <2>14. d.podsOn[n] \cap Daemon = (c.podsOn[n] \cap Daemon) \cup {p}
        BY <2>1, <2>12
    <2>15. \A q \in Work : d.pods[q] = c.pods[q]
        BY <1>0, <2>1, <2>4, <2>8
    <2> QED BY <2>1, <2>4, <2>5, <2>6, <2>8, <2>9, <2>10, <2>13, <2>14, <2>15 DEF Steady, Kept
<1> QED BY <1>1, <1>2

-----------------------------------------------------------------------------
(***************************************************************************)
(* The initial states.                                                     *)
(***************************************************************************)
\* The cluster a run starts with: the initial nodes, and no pods.
LEMMA InitialCluster ==
    ASSUME NEW more, InitWith(more)
    PROVE  /\ Steady(state)
           /\ \A p \in Pod : state.pods[p] = "fresh"
           /\ \A n \in Node : /\ state.podsOn[n] = {}
                              /\ state.nodes[n] = IF n \in InitialNodes THEN "live" ELSE "fresh"
<1>1. PICK capacity \in [InitialNodes -> Capacities] :
          state = [EmptyCluster EXCEPT
                      !.nodes = [n \in Node |-> IF n \in InitialNodes THEN "live" ELSE "fresh"],
                      !.allocatable = [n \in Node |-> IF n \in InitialNodes THEN capacity[n] ELSE 0]]
    BY DEF InitWith
<1> DEFINE nodes == [n \in Node |-> IF n \in InitialNodes THEN "live" ELSE "fresh"]
           allocatable == [n \in Node |-> IF n \in InitialNodes THEN capacity[n] ELSE 0]
<1>2. nodes \in [Node -> Life] /\ allocatable \in [Node -> Nat]
    BY CapacitiesAssumption DEF Life
<1>3. \A n \in Node : nodes[n] = IF n \in InitialNodes THEN "live" ELSE "fresh"
    OBVIOUS
<1> HIDE DEF nodes, allocatable
<1>4. state = [nodes |-> nodes, allocatable |-> allocatable,
               allocated |-> [n \in Node |-> 0], podsOn |-> [n \in Node |-> {}],
               pods |-> [p \in Pod |-> "fresh"], phase |-> [p \in Pod |-> "Pending"],
               node |-> [p \in Pod |-> NoNode], requests |-> [p \in Pod |-> 0],
               resize_status |-> [p \in Pod |-> "None"], pending_queue |-> <<>>]
    BY <1>1 DEF EmptyCluster, nodes, allocatable
<1>5. state \in ClusterType
    BY <1>2, <1>4, EmptySeq, Fields DEF Life, PodPhase, ResizeStatus
<1>6. FiniteLists(state)
    BY <1>4, FS_EmptySet DEF FiniteLists
<1>7. AllocationExact(state)
    BY <1>4, AllocationIs, SumEmpty DEF Booked
<1>8. LinksAgree(state) /\ Placed(state) /\ Queued(state) /\ DaemonsRun(state)
    BY <1>4, EmptySeq, SimulationAssumption
    DEF LinksAgree, Placed, Queued, QueueSet, NoDuplicates, Is, LivePod, DaemonsRun
<1>9. Fitting(state, Work)
    <2> SUFFICES ASSUME NEW n \in Node
                 PROVE  Sum(state.requests, state.podsOn[n] \cap Work) <= state.allocatable[n]
        BY DEF Fitting
    <2>1. state.podsOn[n] \cap Work = {}
        BY <1>4
    <2>2. Sum(state.requests, {}) = 0
        BY SumEmpty
    <2>3. Sum(state.requests, state.podsOn[n] \cap Work) = 0
        BY <2>1, <2>2, Zenon
    <2> QED BY <1>5, <2>3 DEF ClusterType
<1> QED BY <1>3, <1>4, <1>5, <1>6, <1>7, <1>8, <1>9 DEF Sound, Steady

\* The events a run starts with.
LEMMA InitialQueue ==
    ASSUME NEW more, InitWith(more),
           \A c : QueueSound(c, more), \A ev \in Events(more) : ~ Single(ev)
    PROVE  /\ QueueSound(state, queue)
           /\ \A n \in InitialNodes : Readiness(n) \in Events(queue)
<1> DEFINE Submitted(time) == {[after |-> time[p], event |-> [kind |-> "PodSubmitted", pod |-> p]] : p \in Work}
           Readied == {[after |-> 0, event |-> [kind |-> "NodeReady", node |-> n]] : n \in InitialNodes}
           Resized == {[after |-> x.after, event |-> [kind |-> "PodResizeByOwner",
                                        owner |-> x.owner, size |-> x.size]] : x \in Resizes}
<1>1. PICK time \in [Work -> UNION {SubmitTimes[p] : p \in Work}] :
          /\ \A p \in Work : time[p] \in SubmitTimes[p]
          /\ queue = SetToBag(Submitted(time) \cup Readied \cup Resized)
                     (+) At(1, ProvisioningLoop) (+) more
    BY DEF InitWith
<1> DEFINE All == Submitted(time) \cup Readied \cup Resized
           q == SetToBag(All)
<1>2. /\ \A e \in All : \/ \E p \in Work : e = [after |-> time[p], event |-> Submission(p)]
                        \/ \E n \in InitialNodes : e = [after |-> 0, event |-> Readiness(n)]
                        \/ \E x \in Resizes : e = [after |-> x.after, event |-> [kind |-> "PodResizeByOwner",
                                                    owner |-> x.owner, size |-> x.size]]
      /\ \A n \in InitialNodes : [after |-> 0, event |-> Readiness(n)] \in All
    BY DEF Submission, Readiness
<1>3. DOMAIN q = All /\ \A e \in All : q[e] = 1
    BY DEF SetToBag
<1>4. queue = (q (+) At(1, ProvisioningLoop)) (+) more
    BY <1>1
<1> HIDE DEF All, q
<1>5. \A p \in Work : time[p] \in Int
    BY <1>1, SimulationAssumption DEF Work
<1>6. Timed(q)
    BY <1>2, <1>3, <1>5, SimulationAssumption DEF Timed
<1>7. \A p : Submission(p).kind = "PodSubmitted" /\ Submission(p).pod = p
      /\ \A n : Readiness(n).kind = "NodeReady" /\ Readiness(n).node = n
    BY DEF Submission, Readiness
<1>8. \A ev \in Events(q) : EventSound(state, ev)
    <2> SUFFICES ASSUME NEW e \in All PROVE EventSound(state, e.event)
        BY <1>3 DEF Events
    <2>1. CASE \E p \in Work : e = [after |-> time[p], event |-> Submission(p)]
        BY <1>7, <2>1, InitialCluster DEF EventSound, Work
    <2>2. CASE \E n \in InitialNodes : e = [after |-> 0, event |-> Readiness(n)]
        BY <1>7, <2>2, InitialCluster, SimulationAssumption DEF EventSound
    <2>3. CASE \E x \in Resizes : e = [after |-> x.after, event |-> [kind |-> "PodResizeByOwner",
                                          owner |-> x.owner, size |-> x.size]]
        BY <2>3, SimulationAssumption DEF EventSound
    <2> QED BY <1>2, <2>1, <2>2, <2>3
<1>9. \A ev : Single(ev) => Once(q, ev)
    <2> SUFFICES ASSUME NEW e \in All, NEW f \in All, e.event = f.event, Single(e.event)
                 PROVE  e = f
        BY <1>3 DEF Once
    <2>1. CASE \E p \in Work : e = [after |-> time[p], event |-> Submission(p)]
        BY <1>2, <1>7, <2>1
    <2>2. CASE \E n \in InitialNodes : e = [after |-> 0, event |-> Readiness(n)]
        BY <1>2, <1>7, <2>2
    <2>3. CASE \E x \in Resizes : e = [after |-> x.after, event |-> [kind |-> "PodResizeByOwner",
                                          owner |-> x.owner, size |-> x.size]]
        BY <2>3 DEF Single
    <2> QED BY <1>2, <2>1, <2>2, <2>3
<1>10. QueueSound(state, q)
    BY <1>6, <1>8, <1>9 DEF QueueSound
<1>11. \A n \in InitialNodes : Readiness(n) \in Events(q)
    <2> SUFFICES ASSUME NEW n \in InitialNodes PROVE Readiness(n) \in Events(q)
        OBVIOUS
    <2>1. [after |-> 0, event |-> Readiness(n)] \in DOMAIN q
        BY <1>2, <1>3
    <2> QED BY <2>1 DEF Events
<1> DEFINE r == q (+) At(1, ProvisioningLoop)
<1>12. Extends(state, q, r)
    BY <1>10, LoopQueued
<1> HIDE DEF r
<1>13. Extends(state, r, r (+) more)
    BY <1>12, QueueExtended DEF Extends
<1>14. Extends(state, q, queue)
    BY <1>4, <1>12, <1>13, ExtendsChain DEF r
<1> QED BY <1>11, <1>14 DEF Extends

-----------------------------------------------------------------------------
(***************************************************************************)
(* The events.                                                             *)
(***************************************************************************)
\* No pod that runs in c is sent back to pending in d, unless one of Q outranks it.
Outranks(c, d, Q) ==
    \A v \in Pod : Is(c, v, "Running") /\ d.phase[v] = "Pending"
        => \E p \in Q : Priority[p] > Priority[v]

\* From c to d by the handlers of an event that readies no node and adds none.
Handles(c, d, ev) ==
    /\ Steady(d) /\ d.nodes = c.nodes
    /\ \A p \in Work : c.pods[p] = "fresh" /\ Submission(p) # ev => d.pods[p] = "fresh"
    /\ \A n \in Node : c.nodes[n] = "live" => d.podsOn[n] \cap Daemon = c.podsOn[n] \cap Daemon

\* What is left of the queue suits the cluster that a handler leaves behind.
LEMMA HandledLeft ==
    ASSUME IInv, NEW e \in DOMAIN queue, NEW d, Handles(state, d, e.event)
    PROVE  QueueSound(d, Pop(queue, e))
<1> DEFINE r == Pop(queue, e)
<1>1. /\ QueueSound(state, r) /\ EventSound(state, e.event)
      /\ Single(e.event) => e.event \notin Events(r)
    BY QueueTaken DEF IInv
<1> HIDE DEF r
<1>2. \A p \in Work : state.pods[p] = "fresh" /\ Submission(p) \in Events(r) => d.pods[p] = "fresh"
    <2> SUFFICES ASSUME NEW p \in Work, state.pods[p] = "fresh", Submission(p) \in Events(r)
                 PROVE  Submission(p) # e.event
        BY DEF Handles
    <2>1. Single(Submission(p))
        BY DEF Single, Submission
    <2> QED BY <1>1, <2>1
<1>3. \A n \in Node : state.nodes[n] # "fresh" => d.nodes[n] # "fresh"
    BY DEF Handles
<1>4. QueueSound(d, r)
    BY <1>1, <1>2, <1>3, QueueCarried
<1> QED BY <1>4 DEF r

\* A handler that readies no node, adds none and schedules no event that comes once
\* keeps the invariant.
LEMMA HandledInv ==
    ASSUME IInv, NEW e \in DOMAIN queue, e.event.kind # "NodeReady",
           Handles(state, state', e.event), Extends(state', Pop(queue, e), queue')
    PROVE  IInv'
<1> DEFINE r == Pop(queue, e)
<1>1. /\ Events(r) \subseteq Events(queue)
      /\ \A ev \in Events(queue) : Single(ev) /\ ev # e.event => ev \in Events(r)
    BY QueueTaken DEF IInv
<1> HIDE DEF r
<1>2. Steady(state') /\ QueueSound(state', queue')
    BY DEF Handles, Extends
<1>3. ASSUME DaemonSize # 0 PROVE DaemonsOn(state', Events(queue'))
    <2> SUFFICES ASSUME NEW n \in Node, state.nodes[n] = "live"
                 PROVE  IF Readiness(n) \in Events(queue') THEN state'.podsOn[n] \cap Daemon = {}
                        ELSE Cardinality(state'.podsOn[n] \cap Daemon) = 1
        BY DEF DaemonsOn, Handles
    <2>1. Readiness(n) # e.event /\ Single(Readiness(n))
        BY DEF Readiness, Single
    <2>2. Readiness(n) \in Events(queue') <=> Readiness(n) \in Events(queue)
        BY <1>1, <2>1 DEF Extends, r
    <2>3. state'.podsOn[n] \cap Daemon = state.podsOn[n] \cap Daemon
        BY DEF Handles
    <2>4. IF Readiness(n) \in Events(queue) THEN state.podsOn[n] \cap Daemon = {}
          ELSE Cardinality(state.podsOn[n] \cap Daemon) = 1
        BY <1>3 DEF IInv, DaemonsOn
    <2> QED BY <2>2, <2>3, <2>4
<1> QED BY <1>2, <1>3 DEF IInv

\* What a handler of an event of some kind may rely on.
LEMMA DueIs ==
    ASSUME IInv, NEW kind, NEW e \in Due(kind)
    PROVE  e \in DOMAIN queue /\ e.event.kind = kind /\ EventSound(state, e.event)
<1>1. e \in DOMAIN queue /\ e.event.kind = kind
    BY DEF Due, Earliest
<1> QED BY <1>1, QueueTaken DEF IInv

\* Nodes that are up are nodes.
LEMMA UpNodes == ASSUME NEW c, NEW r PROVE Up(c, r) \in SUBSET Node
BY DEF Up

\* A submitted pod evicts nobody.
LEMMA PodSubmittedStep ==
    ASSUME IInv, PodSubmitted
    PROVE  IInv' /\ Outranks(state, state', QueueSet(state.pending_queue))
<1>1. PICK e \in Due("PodSubmitted") :
        LET p == e.event.pod
            c == SubmitPod(state, p, Size[p])
            nodes == BestNodes(c, Up(c, ready), p)
        IN  IF nodes = {}
            THEN /\ state' = c
                 /\ queue' = Pop(queue, e) (+) At(1, ProvisioningLoop)
            ELSE /\ \E n \in nodes : state' = BindPod(c, p, n)
                 /\ queue' = Pop(queue, e) (+)
                       IF Duration[p] = 0 THEN EmptyBag
                       ELSE At(Duration[p], [kind |-> "PodCompleted", pod |-> p])
    BY DEF PodSubmitted
<1> DEFINE p == e.event.pod
           size == Size[p]
           c == SubmitPod(state, p, size)
           up == Up(c, ready)
           r == Pop(queue, e)
<1>2. /\ e \in DOMAIN queue /\ e.event.kind = "PodSubmitted"
      /\ e.event = Submission(p) /\ p \in Work /\ state.pods[p] = "fresh"
    BY DueIs DEF EventSound
<1>3. p \in Pod /\ size \in Nat /\ Duration[p] \in Nat /\ Steady(state)
    BY <1>2, SimulationAssumption DEF Work, IInv
<1>3a. \/ state' = c /\ queue' = r (+) At(1, ProvisioningLoop)
       \/ /\ \E n \in BestNodes(c, up, p) : state' = BindPod(c, p, n)
          /\ \/ queue' = r (+) EmptyBag
             \/ queue' = r (+) At(Duration[p], [kind |-> "PodCompleted", pod |-> p])
    BY <1>1
<1> HIDE DEF p, size, r
<1>4. /\ Steady(c) /\ c.nodes = state.nodes /\ c.podsOn = state.podsOn
      /\ \A q \in Pod \ {p} : c.pods[q] = state.pods[q]
      /\ \A v \in Pod : Is(state, v, "Running") => Is(c, v, "Running")
    BY <1>2, <1>3, SubmitSteady
<1>5. up \in SUBSET Node
    BY UpNodes
<1> HIDE DEF c, up
<1>6. /\ Steady(state') /\ state'.nodes = c.nodes /\ state'.pods = c.pods
      /\ \A n \in Node : c.nodes[n] = "live" => state'.podsOn[n] \cap Daemon = c.podsOn[n] \cap Daemon
      /\ \A v \in Pod : Is(c, v, "Running") => Is(state', v, "Running")
    <2>1. CASE state' = c
        BY <1>4, <2>1
    <2>2. CASE \E n \in BestNodes(c, up, p) : state' = BindPod(c, p, n)
        <3>1. PICK n \in BestNodes(c, up, p) : state' = BindPod(c, p, n)
            BY <2>2
        <3>2. n \in Node /\ Sound(c) /\ c \in ClusterType
            BY <1>4, <1>5 DEF BestNodes, Feasible, Steady, Sound
        <3> DEFINE Q == {p}
        <3>3. PassedTo(c, state', Work, Q, up) /\ Q \subseteq Work
            BY <1>2, <1>5, <3>1, <3>2, WorkRanked, BindPasses
        <3> HIDE DEF Q
        <3>4. /\ Steady(state') /\ state'.nodes = c.nodes /\ state'.pods = c.pods
              /\ \A m \in Node : c.nodes[m] = "live"
                    => state'.podsOn[m] \cap Daemon = c.podsOn[m] \cap Daemon
            <4>1. Steady(c)
                BY <1>4
            <4> QED BY <3>3, <4>1, PassedSteady
        <3>5. \A v \in Pod : Is(c, v, "Running") => Is(state', v, "Running")
            BY <1>3, <3>1, <3>2, BindPodEffect
        <3> QED BY <3>4, <3>5
    <2> QED BY <1>3a, <2>1, <2>2
<1>7. Handles(state, state', e.event)
    BY <1>2, <1>4, <1>6 DEF Handles, Work
<1>8. QueueSound(state', r)
    BY <1>2, <1>7, HandledLeft DEF r
<1>9. Extends(state', r, queue')
    <2>1. CASE queue' = r (+) At(1, ProvisioningLoop)
        BY <1>8, <2>1, LoopQueued
    <2>2. CASE queue' = r (+) EmptyBag
        BY <1>8, <2>2, NothingQueued
    <2>3. CASE queue' = r (+) At(Duration[p], [kind |-> "PodCompleted", pod |-> p])
        <3> DEFINE ev == [kind |-> "PodCompleted", pod |-> p]
        <3>1. EventSound(state', ev) /\ ~ Single(ev)
            BY <1>2 DEF EventSound, Single
        <3> HIDE DEF ev
        <3>2. Extends(state', r, r (+) At(Duration[p], ev))
            BY <1>3, <1>8, <3>1, OneQueued
        <3> QED BY <2>3, <3>2 DEF ev
    <2> QED BY <1>3a, <2>1, <2>2, <2>3
<1>10. IInv'
    BY <1>2, <1>7, <1>9, HandledInv DEF r
<1>11. Outranks(state, state', QueueSet(state.pending_queue))
    BY <1>4, <1>6 DEF Outranks, Is
<1> QED BY <1>10, <1>11

\* A completion evicts nobody.
LEMMA PodCompletedStep ==
    ASSUME IInv, PodCompleted
    PROVE  IInv' /\ Outranks(state, state', QueueSet(state.pending_queue))
<1>1. PICK e \in Due("PodCompleted") :
        state' = CompletePod(state, e.event.pod) /\ queue' = Pop(queue, e)
    BY DEF PodCompleted
<1>2. e \in DOMAIN queue /\ e.event.kind = "PodCompleted" /\ e.event.pod \in Work
    BY DueIs DEF EventSound
<1>3. /\ Steady(state') /\ state'.nodes = state.nodes /\ state'.pods = state.pods
      /\ \A n \in Node : state'.podsOn[n] \cap Daemon = state.podsOn[n] \cap Daemon
      /\ \A v \in Pod : Is(state, v, "Running") => state'.phase[v] # "Pending"
    BY <1>1, <1>2, CompleteSteady DEF IInv
<1>4. Handles(state, state', e.event)
    BY <1>3 DEF Handles
<1>5. QueueSound(state', queue')
    BY <1>1, <1>2, <1>4, HandledLeft
<1>6. Extends(state', Pop(queue, e), queue')
    BY <1>1, <1>5 DEF Extends
<1>7. IInv'
    BY <1>2, <1>4, <1>6, HandledInv
<1> QED BY <1>3, <1>7 DEF Outranks

\* A resize evicts nobody.
LEMMA PodResizeStep ==
    ASSUME IInv, PodResizeByOwner
    PROVE  IInv' /\ Outranks(state, state', QueueSet(state.pending_queue))
<1>1. PICK e \in Due("PodResizeByOwner") :
        LET resized == {p \in Pod : Is(state, p, "Running") /\ Owner[p] = e.event.owner}
        IN  /\ \E order \in SetToSeqs(resized) :
                  state' = FoldLeft(LAMBDA c, p : ResizePod(c, p, e.event.size), state, order)
            /\ queue' = Pop(queue, e)
    BY DEF PodResizeByOwner
<1> DEFINE resized == {p \in Pod : Is(state, p, "Running") /\ Owner[p] = e.event.owner}
           size == e.event.size
<1>2. e \in DOMAIN queue /\ e.event.kind = "PodResizeByOwner" /\ size \in Nat
    BY DueIs DEF EventSound
<1>3. queue' = Pop(queue, e) /\ Steady(state)
    BY <1>1 DEF IInv
<1>4. IsFiniteSet(resized) /\ resized \subseteq Pod
    BY WorkRanked, FS_Subset
<1> HIDE DEF resized, size
<1>5. PICK order \in SetToSeqs(resized) :
        state' = FoldLeft(LAMBDA c, p : ResizePod(c, p, size), state, order)
    BY <1>1 DEF resized, size
<1>6. order \in Seq(Pod)
    <2> DEFINE k == Cardinality(resized)
    <2>1. k \in Nat /\ order \in [1..k -> resized]
        BY <1>4, FS_CardinalityType DEF SetToSeqs
    <2> HIDE DEF k
    <2>2. order \in Seq(resized)
        BY <2>1, SeqDef
    <2> QED BY <1>4, <2>2, SeqMonotonic
<1>7. ResizedTo(state, state')
    <2> DEFINE d == FoldLeft(LAMBDA c, p : ResizePod(c, p, size), state, order)
    <2>1. ResizedTo(state, d)
        BY <1>2, <1>3, <1>6, ResizeAll DEF Steady
    <2>2. state' = d
        BY <1>5
    <2> HIDE DEF d
    <2> QED BY <2>1, <2>2, Zenon
<1>8. /\ Steady(state') /\ state'.nodes = state.nodes /\ state'.podsOn = state.podsOn
      /\ state'.pods = state.pods /\ state'.phase = state.phase
    BY <1>3, <1>7, ResizeSteady
<1>9. Handles(state, state', e.event)
    BY <1>8 DEF Handles
<1>10. QueueSound(state', queue')
    BY <1>2, <1>3, <1>9, HandledLeft
<1>11. Extends(state', Pop(queue, e), queue')
    BY <1>3, <1>10 DEF Extends
<1>12. IInv'
    BY <1>2, <1>9, <1>11, HandledInv
<1> QED BY <1>8, <1>12 DEF Outranks, Is

\* The loop's own pass, then a skip or the launches.
LEMMA LoopStep ==
    ASSUME IInv, KarpenterProvisioningLoop
    PROVE  IInv' /\ Outranks(state, state', QueueSet(state.pending_queue))
<1>1. PICK e \in Due("KarpenterProvisioningLoop") :
        /\ state' \in SchedulePendingFrom(state, Up(state, ready), state.pending_queue)
        /\ \E pending, claims :
              \/ Skip(pending, Pop(queue, e))
              \/ Launch(pending, claims, Pop(queue, e))
    BY DEF KarpenterProvisioningLoop
<1> DEFINE r == Pop(queue, e)
<1>2. e \in DOMAIN queue /\ e.event.kind = "KarpenterProvisioningLoop"
    BY DueIs
<1>3. /\ Steady(state') /\ state'.nodes = state.nodes /\ state'.pods = state.pods
      /\ \A n \in Node : state.nodes[n] = "live"
            => state'.podsOn[n] \cap Daemon = state.podsOn[n] \cap Daemon
      /\ \A v \in Pod : Is(state, v, "Running") /\ ~ Is(state', v, "Running")
              => \E p \in QueueSet(state.pending_queue) : Priority[p] > Priority[v]
    BY <1>1, UpNodes, PassSteady DEF IInv
<1>4. Handles(state, state', e.event)
    BY <1>3 DEF Handles
<1> HIDE DEF r
<1>5. QueueSound(state', r)
    BY <1>2, <1>4, HandledLeft DEF r
<1>6. LoopInterval \in Int /\ ReconcileInterval \in Int
    BY SimulationAssumption
<1>7. ASSUME NEW t \in Int, NEW q, Extends(state', r, q)
      PROVE  Extends(state', r, q (+) Again(t))
    BY <1>7, LoopQueued, ExtendsChain DEF Extends, Again
<1>8. ASSUME NEW q, Extends(state', r, q)
      PROVE  Extends(state', r, q (+) EmptyBag)
    <2> DEFINE b == EmptyBag
    <2> HIDE DEF b
    <2>1. Extends(state', r, q (+) b)
        BY <1>8, NothingQueued, ExtendsChain DEF Extends, b
    <2> QED BY <2>1 DEF b
<1>9. Extends(state', r, r)
    BY <1>5 DEF Extends
<1>10. ASSUME NEW pending, Skip(pending, r) PROVE Extends(state', r, queue')
    <2>1. queue' = r (+) EmptyBag \/ queue' = r (+) Again(ReconcileInterval)
        BY <1>10 DEF Skip
    <2> QED BY <1>6, <1>7, <1>8, <1>9, <2>1
<1>11. ASSUME NEW pending, NEW claims, Launch(pending, claims, r) PROVE Extends(state', r, queue')
    <2>1. CASE claims = <<>>
        BY <1>9, <1>11, <2>1 DEF Launch
    <2>2. CASE claims # <<>>
        <3>1. PICK type \in LaunchTypes(claims) :
                   queue' = r (+) Launching(type) (+) Again(ReconcileInterval)
                        (+) IF pending > Addressed(claims) THEN Again(LoopInterval) ELSE EmptyBag
            BY <1>11, <2>2 DEF Launch
        <3> DEFINE b == Launching(type)
                   q == r (+) b
                   s == q (+) Again(ReconcileInterval)
        <3>2. \A i \in DOMAIN type : type[i] \in Nat
            BY CapacitiesAssumption DEF LaunchTypes
        <3>3. \A e2 \in DOMAIN b : \E k \in Nat :
                 e2 = [after |-> 1, event |-> [kind |-> "NodeLaunching", capacity |-> k]]
            BY <3>2 DEF Launching
        <3> HIDE DEF b
        <3>4. Timed(b) /\ \A ev \in Events(b) : EventSound(state', ev) /\ ~ Single(ev)
            BY <3>3 DEF Timed, Events, EventSound, Single
        <3>5. QueueSound(state', b)
            BY <3>4 DEF QueueSound
        <3>6. Extends(state', r, q)
            BY <1>5, <3>4, <3>5, QueueExtended
        <3> HIDE DEF q
        <3>7. Extends(state', r, s)
            BY <1>6, <1>7, <3>6
        <3>8. queue' = s (+) EmptyBag \/ queue' = s (+) Again(LoopInterval)
            BY <3>1 DEF q, b
        <3> HIDE DEF s
        <3> QED BY <1>6, <1>7, <1>8, <3>7, <3>8
    <2> QED BY <2>1, <2>2
<1>12. Extends(state', r, queue')
    BY <1>1, <1>10, <1>11 DEF r
<1>13. IInv'
    BY <1>2, <1>4, <1>12, HandledInv DEF r
<1> QED BY <1>3, <1>13 DEF Outranks, Is

\* A node joins with its NodeReady to come and nothing of the daemonset on it.
LEMMA NodeLaunchingStep ==
    ASSUME IInv, NodeLaunching
    PROVE  IInv' /\ Outranks(state, state', QueueSet(state.pending_queue))
<1>1. PICK e \in Due("NodeLaunching") :
        /\ Unused(Node, state.nodes) # {}
        /\ LET n == CHOOSE m \in Unused(Node, state.nodes) : TRUE
               c == AddNode(state, n, e.event.capacity)
           IN  /\ IF Startup = 0
                  THEN state' \in SchedulePendingFrom(c, Up(c, ready'), c.pending_queue)
                  ELSE state' = c
               /\ queue' = Pop(queue, e) (+) At(Max({Startup, 1}), [kind |-> "NodeReady", node |-> n])
    BY DEF NodeLaunching
<1> DEFINE n == CHOOSE m \in Unused(Node, state.nodes) : TRUE
           k == e.event.capacity
           c == AddNode(state, n, k)
           r == Pop(queue, e)
           t == Max({Startup, 1})
           b == At(t, Readiness(n))
<1>2. e \in DOMAIN queue /\ e.event.kind = "NodeLaunching" /\ k \in Nat
    BY DueIs DEF EventSound
<1>3. n \in Node /\ state.nodes[n] = "fresh"
    <2>1. n \in Unused(Node, state.nodes)
        BY <1>1
    <2> QED BY <2>1 DEF Unused
<1>4. t \in Int
    BY SimulationAssumption DEF Max
<1>5. /\ state' = c \/ state' \in SchedulePendingFrom(c, Up(c, ready'), c.pending_queue)
      /\ queue' = r (+) b
    BY <1>1 DEF Readiness
<1> HIDE DEF n, k, t, r
<1>6. /\ Steady(c) /\ c.nodes[n] = "live" /\ c.podsOn[n] = {}
      /\ \A m \in Node \ {n} : c.nodes[m] = state.nodes[m] /\ c.podsOn[m] = state.podsOn[m]
      /\ c.pods = state.pods /\ c.phase = state.phase /\ c.pending_queue = state.pending_queue
    BY <1>2, <1>3, AddNodeSteady DEF IInv
<1> HIDE DEF c
<1>7. /\ Steady(state') /\ state'.nodes = c.nodes /\ state'.pods = c.pods
      /\ \A m \in Node : c.nodes[m] = "live" => state'.podsOn[m] \cap Daemon = c.podsOn[m] \cap Daemon
      /\ Outranks(state, state', QueueSet(state.pending_queue))
    <2>1. CASE state' = c
        BY <1>6, <2>1 DEF Outranks, Is
    <2>2. CASE state' \in SchedulePendingFrom(c, Up(c, ready'), c.pending_queue)
        <3> DEFINE up == Up(c, ready')
                   Q == QueueSet(c.pending_queue)
        <3>1. up \in SUBSET Node
            BY UpNodes
        <3>2. state' \in SchedulePendingFrom(c, up, c.pending_queue) /\ Steady(c)
            BY <1>6, <2>2
        <3> HIDE DEF up
        <3>3. /\ Steady(state') /\ state'.nodes = c.nodes /\ state'.pods = c.pods
              /\ \A m \in Node : c.nodes[m] = "live"
                    => state'.podsOn[m] \cap Daemon = c.podsOn[m] \cap Daemon
              /\ \A v \in Pod : Is(c, v, "Running") /\ ~ Is(state', v, "Running")
                    => \E p \in Q : Priority[p] > Priority[v]
            BY <3>1, <3>2, PassSteady
        <3> QED BY <1>6, <3>3 DEF Outranks, Is, LivePod
    <2> QED BY <1>5, <2>1, <2>2
<1>8. /\ QueueSound(state, r) /\ Events(r) \subseteq Events(queue)
      /\ \A ev \in Events(queue) : Single(ev) /\ ev # e.event => ev \in Events(r)
    BY <1>2, QueueTaken DEF IInv, r
<1>9. QueueSound(state', r)
    <2>1. \A p \in Work : state.pods[p] = "fresh" /\ Submission(p) \in Events(r)
                => state'.pods[p] = "fresh"
        BY <1>6, <1>7
    <2>2. \A m \in Node : state.nodes[m] # "fresh" => state'.nodes[m] # "fresh"
        BY <1>6, <1>7
    <2> QED BY <1>8, <2>1, <2>2, QueueCarried
<1>10. \A m : Readiness(m).kind = "NodeReady" /\ Readiness(m).node = m /\ Single(Readiness(m))
    BY DEF Readiness, Single
<1>11. QueueSound(state', b) /\ Events(b) = {Readiness(n)}
    <2>1. EventSound(state', Readiness(n))
        BY <1>3, <1>6, <1>7, <1>10 DEF EventSound
    <2> QED BY <1>4, <2>1, QueueOfOne
<1>12. Readiness(n) \notin Events(queue)
    BY <1>3, <1>10 DEF IInv, QueueSound, EventSound
<1> HIDE DEF b
<1>13. QueueSound(state', queue') /\ Events(queue') = Events(r) \cup {Readiness(n)}
    <2>1. \A ev \in Events(b) : Single(ev) => ev \notin Events(r)
        BY <1>8, <1>11, <1>12
    <2>2. QueueSound(state', r (+) b) /\ Events(r (+) b) = Events(r) \cup Events(b)
        BY <1>9, <1>11, <2>1, QueueAdded
    <2> QED BY <1>5, <1>11, <2>2
<1>14. ASSUME DaemonSize # 0 PROVE DaemonsOn(state', Events(queue'))
    <2> SUFFICES ASSUME NEW m \in Node, c.nodes[m] = "live"
                 PROVE  IF Readiness(m) \in Events(queue') THEN c.podsOn[m] \cap Daemon = {}
                        ELSE Cardinality(c.podsOn[m] \cap Daemon) = 1
        BY <1>7 DEF DaemonsOn
    <2>1. CASE m = n
        BY <1>6, <1>13, <2>1
    <2>2. CASE m # n
        <3>1. Readiness(m) \in Events(queue') <=> Readiness(m) \in Events(queue)
            BY <1>2, <1>8, <1>10, <1>13, <2>2
        <3>2. IF Readiness(m) \in Events(queue) THEN state.podsOn[m] \cap Daemon = {}
              ELSE Cardinality(state.podsOn[m] \cap Daemon) = 1
            BY <1>6, <1>14, <2>2 DEF IInv, DaemonsOn
        <3> QED BY <1>6, <2>2, <3>1, <3>2
    <2> QED BY <2>1, <2>2
<1> QED BY <1>7, <1>13, <1>14 DEF IInv

\* A node that becomes ready gets its daemonset pod after the pass.
LEMMA NodeReadyStep ==
    ASSUME IInv, NodeReady
    PROVE  IInv' /\ Outranks(state, state', QueueSet(state.pending_queue))
<1>1. PICK e \in Due("NodeReady") :
        LET n == e.event.node
        IN  /\ DaemonSize = 0 \/ Unused(Daemon, state.pods) # {}
            /\ \E c \in SchedulePendingFrom(state, Up(state, ready'), state.pending_queue) :
                  /\ state' = StartDaemon(c, n)
                  /\ queue' = Pop(queue, e) (+)
                        IF c.pending_queue = <<>> THEN EmptyBag ELSE At(1, ProvisioningLoop)
    BY DEF NodeReady
<1> DEFINE n == e.event.node
           r == Pop(queue, e)
           up == Up(state, ready')
<1>2. /\ e \in DOMAIN queue /\ e.event.kind = "NodeReady"
      /\ e.event = Readiness(n) /\ n \in Node
    BY DueIs DEF EventSound
<1> HIDE DEF n
<1>3. /\ DaemonSize = 0 \/ Unused(Daemon, state.pods) # {}
      /\ Steady(state)
      /\ up \in SUBSET Node
    BY <1>1, UpNodes DEF IInv
<1>4. PICK c \in SchedulePendingFrom(state, up, state.pending_queue) :
        /\ state' = StartDaemon(c, n)
        /\ queue' = r (+) EmptyBag \/ queue' = r (+) At(1, ProvisioningLoop)
    BY <1>1 DEF n
<1> HIDE DEF up, r
<1>5. /\ Steady(c) /\ c.nodes = state.nodes /\ c.pods = state.pods
      /\ \A m \in Node : state.nodes[m] = "live"
            => c.podsOn[m] \cap Daemon = state.podsOn[m] \cap Daemon
      /\ \A v \in Pod : Is(state, v, "Running") /\ ~ Is(c, v, "Running")
              => \E p \in QueueSet(state.pending_queue) : Priority[p] > Priority[v]
    BY <1>3, PassSteady
<1>6. DaemonSize = 0 \/ Unused(Daemon, c.pods) # {}
    BY <1>3, <1>5
<1>7. /\ Steady(state') /\ state'.nodes = c.nodes
      /\ \A p \in Work : state'.pods[p] = c.pods[p]
      /\ \A m \in Node \ {n} : state'.podsOn[m] \cap Daemon = c.podsOn[m] \cap Daemon
      /\ DaemonSize # 0 /\ c.nodes[n] = "live"
              => \E p \in Daemon : state'.podsOn[n] \cap Daemon = (c.podsOn[n] \cap Daemon) \cup {p}
      /\ \A v \in Pod : Is(c, v, "Running") => Is(state', v, "Running")
    <2>1. Steady(c)
        BY <1>5
    <2> QED BY <1>2, <1>4, <1>6, <2>1, StartDaemonSteady
<1>8. /\ QueueSound(state, r) /\ Events(r) \subseteq Events(queue)
      /\ Single(e.event) => e.event \notin Events(r)
      /\ e.event \in Events(queue)
      /\ \A ev \in Events(queue) : Single(ev) /\ ev # e.event => ev \in Events(r)
    BY <1>2, QueueTaken DEF IInv, r
<1>9. QueueSound(state', r)
    <2>1. \A p \in Work : state.pods[p] = "fresh" /\ Submission(p) \in Events(r)
                => state'.pods[p] = "fresh"
        BY <1>5, <1>7
    <2>2. \A m \in Node : state.nodes[m] # "fresh" => state'.nodes[m] # "fresh"
        BY <1>5, <1>7
    <2> QED BY <1>8, <2>1, <2>2, QueueCarried
<1>10. Extends(state', r, queue')
    BY <1>4, <1>9, NothingQueued, LoopQueued
<1>11. \A m : Single(Readiness(m)) /\ Readiness(m).node = m
    BY DEF Readiness, Single
<1>12. ASSUME DaemonSize # 0 PROVE DaemonsOn(state', Events(queue'))
    <2> SUFFICES ASSUME NEW m \in Node, state.nodes[m] = "live"
                 PROVE  IF Readiness(m) \in Events(queue') THEN state'.podsOn[m] \cap Daemon = {}
                        ELSE Cardinality(state'.podsOn[m] \cap Daemon) = 1
        BY <1>5, <1>7 DEF DaemonsOn
    <2>0. IF Readiness(m) \in Events(queue) THEN state.podsOn[m] \cap Daemon = {}
          ELSE Cardinality(state.podsOn[m] \cap Daemon) = 1
        BY <1>12 DEF IInv, DaemonsOn
    <2>1. CASE m = n
        <3>1. Readiness(m) \in Events(queue) /\ Readiness(m) \notin Events(queue')
            BY <1>2, <1>8, <1>10, <1>11, <2>1 DEF Extends
        <3>2. PICK p \in Daemon : state'.podsOn[n] \cap Daemon = (c.podsOn[n] \cap Daemon) \cup {p}
            BY <1>5, <1>7, <1>12, <2>1
        <3>3. state'.podsOn[n] \cap Daemon = {p}
            BY <1>5, <2>0, <2>1, <3>1, <3>2
        <3>4. Cardinality({p}) = 1
            BY FS_Singleton
        <3>5. Cardinality(state'.podsOn[n] \cap Daemon) = 1
            BY <3>3, <3>4, Zenon
        <3> QED BY <2>1, <3>1, <3>5
    <2>2. CASE m # n
        <3>1. Readiness(m) # e.event
            BY <1>2, <1>11, <2>2
        <3>2. Readiness(m) \in Events(queue') <=> Readiness(m) \in Events(queue)
            BY <1>8, <1>10, <1>11, <3>1 DEF Extends
        <3>3. state'.podsOn[m] \cap Daemon = state.podsOn[m] \cap Daemon
            BY <1>5, <1>7, <2>2
        <3> QED BY <2>0, <3>2, <3>3
    <2> QED BY <2>1, <2>2
<1>13. Outranks(state, state', QueueSet(state.pending_queue))
    BY <1>5, <1>7 DEF Outranks, Is
<1> QED BY <1>7, <1>10, <1>12, <1>13 DEF IInv, Extends

-----------------------------------------------------------------------------
(***************************************************************************)
(* The theorems.                                                           *)
(***************************************************************************)
\* A run starts with what its handlers count on.
LEMMA InitInv == Init => IInv
<1> SUFFICES ASSUME Init PROVE IInv
    OBVIOUS
<1>1. /\ Steady(state) /\ QueueSound(state, queue)
      /\ \A n \in Node : /\ state.podsOn[n] = {}
                         /\ state.nodes[n] = IF n \in InitialNodes THEN "live" ELSE "fresh"
      /\ \A n \in InitialNodes : Readiness(n) \in Events(queue)
    <2> DEFINE none == EmptyBag
    <2>1. InitWith(none)
        BY DEF Init
    <2>2. \A c : QueueSound(c, none) /\ \A ev \in Events(none) : ~ Single(ev)
        BY QueueOfNone
    <2> HIDE DEF none
    <2> QED BY <2>1, <2>2, InitialCluster, InitialQueue
<1>2. DaemonsOn(state, Events(queue))
    BY <1>1 DEF DaemonsOn
<1> QED BY <1>1, <1>2 DEF IInv

\* Every event keeps it, and evicts for a pod of higher priority only.
LEMMA StepInv ==
    ASSUME IInv, [Next]_vars
    PROVE  IInv' /\ (Outranks(state, state', QueueSet(state.pending_queue)) \/ UNCHANGED state)
<1>1. CASE PodSubmitted
    BY <1>1, PodSubmittedStep
<1>2. CASE PodCompleted
    BY <1>2, PodCompletedStep
<1>3. CASE PodResizeByOwner
    BY <1>3, PodResizeStep
<1>4. CASE NodeLaunching
    BY <1>4, NodeLaunchingStep
<1>5. CASE NodeReady
    BY <1>5, NodeReadyStep
<1>6. CASE KarpenterProvisioningLoop
    BY <1>6, LoopStep
<1>7. CASE UNCHANGED vars
    <2>1. state' = state /\ queue' = queue
        BY <1>7 DEF vars
    <2>2. IInv'
        BY <2>1 DEF IInv
    <2> QED BY <2>1, <2>2
<1> QED BY <1>1, <1>2, <1>3, <1>4, <1>5, <1>6, <1>7 DEF Next, Finished

\* Whatever the order of the events, the cluster is steady between them and each event
\* on the queue still finds what its handler takes for granted.
THEOREM SimulationInvariant == Spec => []IInv
<1>1. IInv /\ [Next]_vars => IInv'
    BY StepInv
<1> QED BY InitInv, <1>1, PTL DEF Spec

\* A live node lists its running pods and its allocation is what they request, in every
\* reachable state.
THEOREM BooksBalanceCorrect == Spec => []BooksBalance
<1>1. IInv => BooksBalance
    BY DEF IInv, Steady, Sound, BooksBalance
<1> QED BY SimulationInvariant, <1>1, PTL

\* No pending pod is ever outside the pending queue, or on it twice.
THEOREM PendingQueuedCorrect == Spec => []PendingQueued
<1>1. IInv => PendingQueued
    BY DEF IInv, Steady, Queued, PendingQueued, Pending
<1> QED BY SimulationInvariant, <1>1, PTL

\* The submitted pods of a node never outgrow it, however far its daemonset pod
\* overcommits it and whatever is preempted there.
THEOREM WorkFitsCorrect == Spec => []WorkFits
<1>1. IInv => WorkFits
    <2> SUFFICES ASSUME IInv, NEW n \in Node, LiveNode(state, n)
                 PROVE  Sum(state.requests, state.podsOn[n] \cap Work) <= state.allocatable[n]
        BY DEF WorkFits, Sum, MapThenSumSet, MapThenFoldSet
    <2> QED BY DEF IInv, Steady, Fitting, LiveNode
<1> QED BY SimulationInvariant, <1>1, PTL

\* A node whose NodeReady has been handled runs exactly one daemonset pod, if the run has
\* a daemonset.
THEOREM OneDaemonCorrect == DaemonSize # 0 => (Spec => []OneDaemonPerNode)
<1>1. ASSUME DaemonSize # 0 PROVE IInv => OneDaemonPerNode
    <2> SUFFICES ASSUME IInv, NEW n \in Node, LiveNode(state, n),
                        \A e \in Scheduled({"NodeReady"}) : e.event.node # n
                 PROVE  Cardinality(state.podsOn[n] \cap Daemon) = 1
        BY DEF OneDaemonPerNode
    <2>1. Readiness(n) \notin Events(queue)
        <3> SUFFICES ASSUME NEW e \in DOMAIN queue, e.event = Readiness(n) PROVE FALSE
            BY DEF Events
        <3>1. Readiness(n).kind = "NodeReady" /\ Readiness(n).node = n
            BY DEF Readiness
        <3> QED BY <3>1 DEF Scheduled
    <2> QED BY <1>1, <2>1 DEF IInv, DaemonsOn, LiveNode
<1>2. ASSUME DaemonSize # 0 PROVE Spec => []OneDaemonPerNode
    <2>1. IInv => OneDaemonPerNode
        BY <1>1, <1>2
    <2> QED BY SimulationInvariant, <2>1, PTL
<1> QED BY <1>2

\* A running pod goes back to pending only when a pod that waited outranks it.
THEOREM EvictedForHigherCorrect == Spec => EvictedForHigher
<1> DEFINE Deserved == \A v \in Evicted : \E p \in QueueSet(state.pending_queue) :
                           Priority[p] > Priority[v]
<1>1. IInv /\ [Next]_vars => [Deserved]_vars
    <2> SUFFICES ASSUME IInv, [Next]_vars PROVE Deserved
        OBVIOUS
    <2>1. CASE Outranks(state, state', QueueSet(state.pending_queue))
        BY <2>1 DEF Outranks, Evicted
    <2>2. CASE UNCHANGED state
        BY <2>2 DEF Evicted, Is
    <2> QED BY StepInv, <2>1, <2>2
<1> HIDE DEF Deserved
<1>2. Spec => [][Deserved]_vars
    BY SimulationInvariant, <1>1, PTL DEF Spec
<1> QED BY <1>2 DEF EvictedForHigher, Deserved

-----------------------------------------------------------------------------
(***************************************************************************)
(* Consolidation.  What a plan counts on when its events are handled: the  *)
(* queue never holds an event that is overdue, and what the events of      *)
(* Simulation put on it.                                                   *)
(***************************************************************************)
Punctual(q) == IsABag(q) /\ Timed(q) /\ \A e \in DOMAIN q : e.after >= 0

\* From q to r by more events, of the kinds of K.
Added(q, r, K) ==
    /\ Punctual(r)
    /\ DOMAIN q \subseteq DOMAIN r
    /\ \A e \in DOMAIN r \ DOMAIN q : e.event.kind \in K

\* Nothing is added, then something, then more.
LEMMA AddedSelf == ASSUME NEW q, Punctual(q), NEW K PROVE Added(q, q, K)
BY DEF Added

\* One addition after the other.
LEMMA AddedChain ==
    ASSUME NEW p, NEW q, NEW r, NEW K, Added(p, q, K), Added(q, r, K)
    PROVE  Added(p, r, K)
BY DEF Added

\* Adding the events of another queue.
LEMMA AddedBag ==
    ASSUME NEW q, Punctual(q), NEW b, Punctual(b), NEW K, \A e \in DOMAIN b : e.event.kind \in K,
           NEW r, r = q (+) b
    PROVE  Added(q, r, K) /\ DOMAIN r = DOMAIN q \cup DOMAIN b
<1>1. r = [e \in DOMAIN q \cup DOMAIN b |-> (IF e \in DOMAIN q THEN q[e] ELSE 0)
                                            + (IF e \in DOMAIN b THEN b[e] ELSE 0)]
    BY DEF (+)
<1>2. DOMAIN r = DOMAIN q \cup DOMAIN b
    BY <1>1
<1>3. \A e \in DOMAIN r : r[e] \in Nat /\ r[e] > 0
    <2> SUFFICES ASSUME NEW e \in DOMAIN r PROVE r[e] \in Nat /\ r[e] > 0
        OBVIOUS
    <2>1. e \in DOMAIN q => q[e] \in Nat /\ q[e] > 0
        BY DEF Punctual, IsABag
    <2>2. e \in DOMAIN b => b[e] \in Nat /\ b[e] > 0
        BY DEF Punctual, IsABag
    <2>3. r[e] = (IF e \in DOMAIN q THEN q[e] ELSE 0) + (IF e \in DOMAIN b THEN b[e] ELSE 0)
        BY <1>1, <1>2
    <2> QED BY <1>2, <2>1, <2>2, <2>3
<1>4. IsABag(r)
    <2>1. r = [e \in DOMAIN r |-> r[e]]
        BY <1>1
    <2> QED BY <1>3, <2>1 DEF IsABag
<1>5. Punctual(r)
    BY <1>2, <1>4 DEF Punctual, Timed
<1> QED BY <1>2, <1>5 DEF Added

\* One event that is due now or later.
LEMMA PunctualOne ==
    ASSUME NEW t \in Nat, NEW ev
    PROVE  Punctual(At(t, ev)) /\ DOMAIN At(t, ev) = {[after |-> t, event |-> ev]}
BY DEF Punctual, Timed, At, SetToBag, IsABag

\* No event.
LEMMA PunctualNone == Punctual(EmptyBag) /\ DOMAIN EmptyBag = {}
BY DEF Punctual, Timed, EmptyBag, SetToBag, IsABag

\* One more event.
LEMMA AddedOne ==
    ASSUME NEW q, Punctual(q), NEW t \in Nat, NEW ev, NEW K, ev.kind \in K, NEW r, r = q (+) At(t, ev)
    PROVE  Added(q, r, K) /\ DOMAIN r = DOMAIN q \cup {[after |-> t, event |-> ev]}
<1> DEFINE b == At(t, ev)
<1>1. Punctual(b) /\ DOMAIN b = {[after |-> t, event |-> ev]}
    BY PunctualOne
<1>2. \A e \in DOMAIN b : e.event.kind \in K
    BY <1>1
<1> HIDE DEF b
<1>3. r = q (+) b
    BY DEF b
<1>4. Added(q, r, K) /\ DOMAIN r = DOMAIN q \cup DOMAIN b
    BY <1>1, <1>2, <1>3, AddedBag
<1> QED BY <1>1, <1>4

\* Taking the event that is due first leaves none overdue, and the others in their order.
LEMMA PunctualPop ==
    ASSUME NEW q, Punctual(q), NEW e \in Earliest(q), NEW r, r = Pop(q, e)
    PROVE  /\ Punctual(r)
           /\ e \in DOMAIN q /\ e.after \in Nat
           /\ \A x \in DOMAIN r : \E f \in DOMAIN q : x = Sooner(f, e)
           /\ \A f \in DOMAIN q : f # e => Sooner(f, e) \in DOMAIN r
<1>0. e \in DOMAIN q /\ \A f \in DOMAIN q : e.after <= f.after
    BY DEF Earliest
<1>1. Timed(q) /\ IsABag(q) /\ \A f \in DOMAIN q : q[f] \in Nat /\ q[f] > 0
    BY DEF Punctual, IsABag
<1>2. /\ \A x \in DOMAIN r : \E f \in DOMAIN q :
             /\ x = Sooner(f, e)
             /\ IF f = e THEN q[f] - 1 > 0 /\ r[x] = q[f] - 1 ELSE r[x] = q[f]
      /\ \A f \in DOMAIN q : f # e /\ q[f] > 0 => Sooner(f, e) \in DOMAIN r
    BY <1>0, <1>1, PopIs
<1>3. ASSUME NEW x \in DOMAIN r
      PROVE  /\ r[x] \in Nat /\ r[x] > 0
             /\ x = [after |-> x.after, event |-> x.event] /\ x.after \in Int /\ x.after >= 0
    <2>1. PICK f \in DOMAIN q : /\ x = Sooner(f, e)
                                /\ IF f = e THEN q[f] - 1 > 0 /\ r[x] = q[f] - 1 ELSE r[x] = q[f]
        BY <1>2
    <2>2. f.after \in Int /\ e.after \in Int /\ e.after <= f.after
        BY <1>0, <1>1 DEF Timed
    <2> QED BY <1>1, <2>1, <2>2 DEF Sooner
<1>4. IsABag(r)
    <2>1. r = [x \in DOMAIN r |-> r[x]]
        BY DEF Pop, Elapse
    <2> QED BY <1>3, <2>1 DEF IsABag
<1>5. Punctual(r)
    BY <1>3, <1>4 DEF Punctual, Timed
<1>6. e.after \in Nat
    BY <1>0 DEF Punctual, Timed
<1> QED BY <1>0, <1>1, <1>2, <1>5, <1>6

-----------------------------------------------------------------------------
(***************************************************************************)
(* Sequences that are filtered or cut short.                               *)
(***************************************************************************)
\* A filter leaves a sequence of the elements it lets through.
LEMMA InOrderSeq ==
    ASSUME NEW S, NEW s \in Seq(S), NEW T
    PROVE  InOrder(s, T) \in Seq(S \cap T)
<1> DEFINE n == Len(s)
           C == Seq(S \cap T)
           step == [i \in 1..n |-> [t \in C |-> IF s[i] \in T THEN Append(t, s[i]) ELSE t]]
           Solved(f) == f = [i \in 0..n |-> IF i = 0 THEN <<>>
                                 ELSE IF s[i] \in T THEN Append(f[i - 1], s[i]) ELSE f[i - 1]]
           upTo == CHOOSE f : Solved(f)
<1>1. n \in Nat /\ \A i \in 1..n : s[i] \in S
    OBVIOUS
<1>2. <<>> \in C
    OBVIOUS
<1>3. \A t \in C, x \in S \cap T : Append(t, x) \in C
    OBVIOUS
<1>4. step \in [1..n -> [C -> C]]
    <2> HIDE DEF C, n
    <2>1. ASSUME NEW i \in 1..n, NEW t \in C
          PROVE  (IF s[i] \in T THEN Append(t, s[i]) ELSE t) \in C
        BY <1>1, <1>3
    <2> QED BY <2>1
<1> HIDE DEF C
<1>5. PICK w : Walk(w, n, C, step, <<>>)
    BY <1>1, <1>2, <1>4, WalkExists, Zenon
<1>6. Solved(w)
    <2>1. w \in [0..n -> C] /\ w[0] = <<>> /\ \A i \in 1..n : w[i] = step[i][w[i - 1]]
        BY <1>5 DEF Walk
    <2>2. ASSUME NEW i \in 1..n
          PROVE  w[i] = IF s[i] \in T THEN Append(w[i - 1], s[i]) ELSE w[i - 1]
        <3>1. i - 1 \in 0..n
            BY <1>1
        <3> QED BY <2>1, <3>1
    <2> HIDE DEF step
    <2>3. \A i \in 0..n : i # 0 => i \in 1..n
        BY <1>1
    <2> QED BY <2>1, <2>2, <2>3
<1>7. Solved(upTo)
    BY <1>6, Zenon
<1> HIDE DEF upTo, step
<1> DEFINE P == {i \in 0..n : upTo[i] \in C}
<1>8. 0 \in P
    BY <1>1, <1>2, <1>7
<1>9. \A i \in 1..n : i - 1 \in P => i \in P
    <2> SUFFICES ASSUME NEW i \in 1..n, i - 1 \in P PROVE upTo[i] \in C
        BY <1>1
    <2>1. upTo[i] = IF s[i] \in T THEN Append(upTo[i - 1], s[i]) ELSE upTo[i - 1]
        <3>1. i \in 0..n /\ i # 0
            BY <1>1
        <3> HIDE DEF P, n
        <3> QED BY <1>7, <3>1
    <2>2. upTo[i - 1] \in C
        OBVIOUS
    <2> QED BY <1>1, <1>3, <2>1, <2>2
<1>10. n \in P
    <2> HIDE DEF P
    <2> QED BY <1>1, <1>8, <1>9, WalkInduction
<1>11. InOrder(s, T) = upTo[n]
    BY DEF InOrder, upTo
<1> QED BY <1>10, <1>11 DEF C

\* What is left of a sequence is a sequence of its elements.
LEMMA SubSeqType ==
    ASSUME NEW S, NEW s \in Seq(S), NEW k \in Int, k <= Len(s)
    PROVE  SubSeq(s, 1, k) \in Seq(S)
<1>1. Len(s) \in Nat /\ \A i \in 1..Len(s) : s[i] \in S
    OBVIOUS
<1>2. CASE k <= 0
    <2>1. SubSeq(s, 1, k) = <<>>
        BY <1>2
    <2> QED BY <2>1
<1>3. CASE k > 0
    BY <1>1, <1>3
<1> QED BY <1>2, <1>3

\* The first elements of a sequence.
LEMMA FirstOfType ==
    ASSUME NEW S, NEW s \in Seq(S), NEW k \in Int
    PROVE  FirstOf(s, k) \in Seq(S)
<1> DEFINE m == Min({k, Len(s)})
<1>1. Len(s) \in Int
    OBVIOUS
<1>2. m \in Int /\ m <= Len(s)
    BY <1>1, MinOfTwo
<1> HIDE DEF m
<1> QED BY <1>2, SubSeqType DEF FirstOf, m

\* A sequence has finitely many elements.
LEMMA FiniteElements ==
    ASSUME NEW S, NEW q \in Seq(S)
    PROVE  IsFiniteSet(ToSet(q)) /\ ToSet(q) \subseteq S
<1> DEFINE n == Len(q)
           T == ToSet(q)
<1>1. n \in Nat /\ DOMAIN q = 1..n /\ q \in [1..n -> S]
    OBVIOUS
<1>2. T = {q[i] : i \in 1..n}
    BY <1>1 DEF ToSet
<1> HIDE DEF n, T
<1>3. q \in Surjection(1..n, T)
    BY <1>1, <1>2 DEF Surjection
<1>4. IsFiniteSet(1..n)
    BY <1>1, FS_Interval
<1>5. IsFiniteSet(T)
    BY <1>3, <1>4, FS_Surjection
<1> QED BY <1>1, <1>2, <1>5 DEF T

\* A sort of a sequence has its elements.
LEMMA SortedSeq ==
    ASSUME NEW S, NEW q \in Seq(S), NEW s \in SetToSeqs(ToSet(q))
    PROVE  s \in Seq(S)
<1>1. IsFiniteSet(ToSet(q)) /\ ToSet(q) \subseteq S
    BY FiniteElements
<1>2. s \in Seq(ToSet(q))
    BY <1>1, OrderOf
<1> QED BY <1>1, <1>2, SeqMonotonic

-----------------------------------------------------------------------------
(***************************************************************************)
(* What a plan consists of: the nodes were candidates when it was made,    *)
(* what it terminates at once runs nothing but its daemonset pod, and what *)
(* it drains holds no protected pod.                                       *)
(***************************************************************************)
Action ==
    [kind : {"TerminateEmpty"}, node : {n \in Candidates : WorkOn(n) = {}}]
    \cup [kind : {"DrainAndTerminate"}, node : Disruptable]
    \cup [kind : {"Replace"}, node : Disruptable, type : Capacities]

\* The empty nodes, in any order the arena may have them.
LEMMA EmptyNodesAre ==
    ASSUME NEW S, NEW arena \in Seq(S)
    PROVE  EmptyNodes(arena) \in Seq(Action)
<1> DEFINE T == {n \in Candidates : Old(n) /\ WorkOn(n) = {}}
           nodes == InOrder(arena, T)
           plan == [i \in DOMAIN nodes |-> [kind |-> "TerminateEmpty", node |-> nodes[i]]]
<1>1. nodes \in Seq(S \cap T)
    BY InOrderSeq
<1> HIDE DEF nodes
<1>2. DOMAIN nodes = 1..Len(nodes) /\ Len(nodes) \in Nat /\ \A i \in DOMAIN nodes : nodes[i] \in T
    <2> HIDE DEF T
    <2> QED BY <1>1
<1>3. \A i \in 1..Len(nodes) : plan[i] \in Action
    BY <1>2 DEF Action
<1>4. plan \in Seq(Action)
    <2>1. plan = [i \in 1..Len(nodes) |-> plan[i]]
        BY <1>2
    <2> HIDE DEF plan
    <2> QED BY <1>2, <1>3, <2>1
<1> QED BY <1>4 DEF EmptyNodes, nodes

\* The drains of some nodes, all of which may be disrupted.
LEMMA DrainsAre ==
    ASSUME NEW arena, NEW order, NEW nodes \in Seq(Disruptable)
    PROVE  Drains(arena, order, nodes) \in Seq(Action)
<1> DEFINE T == {nodes[i] : i \in Chosen(arena, order, nodes)}
           chosen == InOrder(nodes, T)
           plan == [i \in DOMAIN chosen |-> [kind |-> "DrainAndTerminate", node |-> chosen[i]]]
<1> HIDE DEF T
<1>1. chosen \in Seq(Disruptable \cap T)
    BY InOrderSeq
<1> HIDE DEF chosen
<1>2. /\ DOMAIN chosen = 1..Len(chosen) /\ Len(chosen) \in Nat
      /\ \A i \in DOMAIN chosen : chosen[i] \in Disruptable
    BY <1>1
<1>3. \A i \in 1..Len(chosen) : plan[i] \in Action
    BY <1>2 DEF Action
<1>4. plan \in Seq(Action)
    <2>1. plan = [i \in 1..Len(chosen) |-> plan[i]]
        BY <1>2
    <2> HIDE DEF plan
    <2> QED BY <1>2, <1>3, <2>1
<1> QED BY <1>4 DEF Drains, chosen, T

\* Nodes that may be disrupted, sorted.
LEMMA RankedAre ==
    ASSUME NEW S, NEW arena \in Seq(S), NEW T \in SUBSET Disruptable,
           NEW nodes \in SetToSeqs(ToSet(InOrder(arena, T)))
    PROVE  nodes \in Seq(Disruptable)
<1>1. InOrder(arena, T) \in Seq(S \cap T)
    BY InOrderSeq
<1>2. nodes \in Seq(S \cap T)
    BY <1>1, SortedSeq
<1> QED BY <1>2, SeqMonotonic

\* Of the types that are cheaper than a node's one is the cheapest.
LEMMA CheapestType ==
    ASSUME NEW T \in SUBSET Capacities, T # {}
    PROVE  \E k \in T : \A j \in T : Price[k] <= Price[j]
<1> DEFINE S == {Price[k] : k \in T}
<1>1. S \in SUBSET Nat /\ S # {}
    BY CapacitiesAssumption
<1>2. Min(S) \in S /\ \A y \in S : Min(S) <= y
    <2> HIDE DEF S
    <2> QED BY <1>1, MinNat
<1> QED BY <1>2

\* Every plan to replace nodes replaces drainable ones by types that there are.
LEMMA ReplaceableAre ==
    ASSUME NEW S, NEW arena \in Seq(S), NEW order, NEW plan \in Replaceable(arena, order)
    PROVE  plan \in Seq(Action)
<1> DEFINE T == {n \in Disruptable : /\ ~ CanReschedule(arena, order, n, {})
                                     /\ CheaperTypes(n) # {}}
           Best(n) == CHOOSE k \in CheaperTypes(n) : \A j \in CheaperTypes(n) : Price[k] <= Price[j]
<1>1. PICK nodes \in ByRank(arena, T) :
        plan = [i \in DOMAIN nodes |-> [kind |-> "Replace", node |-> nodes[i], type |-> Best(nodes[i])]]
    BY DEF Replaceable
<1>2. nodes \in SetToSeqs(ToSet(InOrder(arena, T)))
    BY DEF ByRank, SortedBy
<1>3. nodes \in Seq(T)
    <2>1. InOrder(arena, T) \in Seq(S \cap T)
        BY InOrderSeq
    <2> HIDE DEF T
    <2>2. nodes \in Seq(S \cap T)
        BY <1>2, <2>1, SortedSeq
    <2> QED BY <2>2, SeqMonotonic
<1>4. \A n \in T : n \in Disruptable /\ Best(n) \in Capacities
    <2> SUFFICES ASSUME NEW n \in T PROVE Best(n) \in Capacities
        OBVIOUS
    <2>1. CheaperTypes(n) \in SUBSET Capacities /\ CheaperTypes(n) # {}
        BY DEF CheaperTypes, Holding
    <2> QED BY <2>1, CheapestType
<1> HIDE DEF T, Best
<1>5. DOMAIN nodes = 1..Len(nodes) /\ Len(nodes) \in Nat /\ \A i \in DOMAIN nodes : nodes[i] \in T
    BY <1>3
<1>6. \A i \in DOMAIN nodes : plan[i] \in Action
    <2> SUFFICES ASSUME NEW i \in DOMAIN nodes PROVE plan[i] \in Action
        OBVIOUS
    <2>1. plan[i] = [kind |-> "Replace", node |-> nodes[i], type |-> Best(nodes[i])]
        BY <1>1
    <2>2. nodes[i] \in Disruptable /\ Best(nodes[i]) \in Capacities
        BY <1>4, <1>5
    <2> QED BY <2>1, <2>2 DEF Action
<1>7. plan = [i \in 1..Len(nodes) |-> plan[i]]
    BY <1>1, <1>5
<1> QED BY <1>5, <1>6, <1>7

\* The budgets are numbers.
LEMMA BudgetType ==
    Cardinality(LiveNodes) \in Nat /\ Budget \in Nat /\ ReasonBudget \in Nat
<1>1. IsFiniteSet(LiveNodes) /\ Cardinality(LiveNodes) \in Nat
    <2>1. LiveNodes \in SUBSET Node
        BY DEF LiveNodes
    <2> QED BY <2>1, DisruptionAssumption, FS_Subset, FS_CardinalityType
<1> DEFINE c == Cardinality(LiveNodes)
           share == (c * MaxDisruptedPct) \div 100
<1>2. share \in Nat
    <2>1. c * MaxDisruptedPct \in Nat
        BY <1>1, DisruptionAssumption
    <2> QED BY <2>1
<1>3. Max({share, 1}) \in Nat
    <2> HIDE DEF share
    <2>1. Max({share, 1}) \in {share, 1}
        <3>1. share \in Int /\ 1 \in Int
            BY <1>2
        <3> QED BY <3>1, MaxOfTwo
    <2> QED BY <1>2, <2>1
<1>4. Max({Min(MaxDisruptedCount \cup {c}), 1}) \in Nat
    <2>1. MaxDisruptedCount \cup {c} \in SUBSET Nat /\ MaxDisruptedCount \cup {c} # {}
        BY <1>1, DisruptionAssumption
    <2> HIDE DEF c
    <2> DEFINE m == Min(MaxDisruptedCount \cup {c})
    <2>2. m \in Nat
        BY <2>1, MinNat
    <2> HIDE DEF m
    <2>3. Max({m, 1}) \in {m, 1}
        <3>1. m \in Int /\ 1 \in Int
            BY <2>2
        <3> QED BY <3>1, MaxOfTwo
    <2> QED BY <2>2, <2>3 DEF m
<1> QED BY <1>1, <1>3, <1>4 DEF Budget, ReasonBudget

\* What the policy does besides removing empty nodes, whichever it is.
LEMMA OthersAre ==
    ASSUME NEW S, NEW arena \in Seq(S), NEW order, NEW plan \in Others(arena, order)
    PROVE  plan \in Seq(Action)
<1>0. MaxCandidates \in Int
    BY DisruptionAssumption
<1>1. \A nodes \in Seq(Disruptable) : Drains(arena, order, FirstOf(nodes, MaxCandidates)) \in Seq(Action)
    BY <1>0, FirstOfType, DrainsAre
<1>2. ASSUME NEW drains \in Underutilized(arena, order) PROVE drains \in Seq(Action)
    <2> DEFINE T == {n \in Disruptable : Old(n)}
    <2>1. PICK nodes \in ByRank(arena, T) : drains = Drains(arena, order, FirstOf(nodes, MaxCandidates))
        BY <1>2 DEF Underutilized
    <2>2. nodes \in SetToSeqs(ToSet(InOrder(arena, T))) /\ T \in SUBSET Disruptable
        BY DEF ByRank, SortedBy
    <2> HIDE DEF T
    <2>3. nodes \in Seq(Disruptable)
        BY <2>2, RankedAre
    <2> QED BY <1>1, <2>1, <2>3
<1>3. ASSUME NEW drains \in CostJustified(arena, order) PROVE drains \in Seq(Action)
    <2> DEFINE T == {n \in Disruptable : Old(n) /\ Justified(n)}
    <2>1. PICK nodes \in SortedBy(InOrder(arena, T), SavesMore) :
            drains = Drains(arena, order, FirstOf(nodes, MaxCandidates))
        BY <1>3 DEF CostJustified
    <2>2. nodes \in SetToSeqs(ToSet(InOrder(arena, T))) /\ T \in SUBSET Disruptable
        BY DEF SortedBy
    <2> HIDE DEF T
    <2>3. nodes \in Seq(Disruptable)
        BY <2>2, RankedAre
    <2> QED BY <1>1, <2>1, <2>3
<1>4. CASE Policy = "WhenEmpty"
    BY <1>4 DEF Others
<1>5. CASE Policy = "WhenUnderutilized"
    <2>1. PICK drains \in Underutilized(arena, order),
               more \in IF SingleNode THEN {<<>>} ELSE Replaceable(arena, order) :
                   plan = drains \o more
        BY <1>5 DEF Others
    <2>2. more \in Seq(Action)
        <3>1. CASE SingleNode
            BY <2>1, <3>1
        <3>2. CASE ~ SingleNode
            BY <2>1, <3>2, ReplaceableAre
        <3> QED BY <3>1, <3>2
    <2> QED BY <1>2, <2>1, <2>2, ConcatProperties
<1>6. CASE Policy = "WhenCostJustifiesDisruption"
    BY <1>3, <1>6 DEF Others
<1> QED BY <1>4, <1>5, <1>6, DisruptionAssumption

\* An evaluation under the budget makes a plan of actions.
LEMMA EvaluateIs ==
    ASSUME NEW S, NEW arena \in Seq(S), NEW order, NEW plan \in Evaluate(arena, order)
    PROVE  plan \in Seq(Action)
<1> DEFINE k == Min({ReasonBudget, Budget})
           empty == FirstOf(EmptyNodes(arena), k)
           l == Min({ReasonBudget, Budget - Len(empty)})
<1>1. k \in Int
    <2>1. ReasonBudget \in Int /\ Budget \in Int
        BY BudgetType
    <2> QED BY <2>1, MinOfTwo
<1>2. empty \in Seq(Action)
    <2> HIDE DEF k
    <2>1. EmptyNodes(arena) \in Seq(Action)
        BY EmptyNodesAre
    <2> QED BY <1>1, <2>1, FirstOfType
<1>3. PICK others \in Others(arena, order) : plan = empty \o FirstOf(others, l)
    BY DEF Evaluate
<1> HIDE DEF empty
<1>4. l \in Int
    <2>1. Budget - Len(empty) \in Int /\ ReasonBudget \in Int
        BY <1>2, BudgetType
    <2> QED BY <2>1, MinOfTwo
<1> HIDE DEF l
<1>5. FirstOf(others, l) \in Seq(Action)
    BY <1>4, OthersAre, FirstOfType
<1> QED BY <1>2, <1>3, <1>5, ConcatProperties

\* The simulation cuts a plan short.
LEMMA FeasiblyIs ==
    ASSUME NEW S, NEW plan \in Seq(S), NEW arena, NEW order
    PROVE  Feasibly(arena, order, plan) \in Seq(S)
<1> DEFINE Fit(k) == FirstFit(InOrder(arena, Candidates \ NodesOf(SubSeq(plan, 1, k))),
                              Displaced(order, SubSeq(plan, 1, k)))
           T == {0} \cup {k \in 1..Len(plan) : Fit(k)}
<1> HIDE DEF Fit
<1>1. Len(plan) \in Nat /\ 0..Len(plan) \in SUBSET Int /\ IsFiniteSet(0..Len(plan))
    BY FS_Interval
<1>2. T \in SUBSET (0..Len(plan)) /\ T # {}
    BY <1>1
<1> HIDE DEF T
<1>3. Max(T) \in 0..Len(plan)
    BY <1>1, <1>2, FS_Subset, MaxFinite
<1>4. Max(T) \in Int /\ Max(T) <= Len(plan)
    BY <1>1, <1>3
<1> QED BY <1>4, SubSeqType DEF Feasibly, T, Fit

\* The validation drops some actions of a plan.
LEMMA ValidatedIs ==
    ASSUME NEW S, NEW plan \in Seq(S), NEW arena, NEW order
    PROVE  Validated(arena, order, plan) \in Seq(S)
<1> DEFINE T == {plan[i] : i \in Confirmed(arena, order, plan)}
<1> HIDE DEF T
<1>1. InOrder(plan, T) \in Seq(S \cap T)
    BY InOrderSeq
<1>2. InOrder(plan, T) \in Seq(S)
    BY <1>1, SeqMonotonic
<1> QED BY <1>2 DEF Validated, T

\* Every plan is a sequence of such actions.
LEMMA PlansAre ==
    ASSUME NEW plan \in Plans
    PROVE  plan \in Seq(Action)
<1>1. PICK x \in SetToSeqs(LiveNodes) \X SetToSeqs(UNION {WorkOn(n) : n \in Candidates}) :
        \E e \in Evaluate(x[1], x[2]) : plan = Validated(x[1], x[2], Feasibly(x[1], x[2], e))
    <2>1. PICK x \in SetToSeqs(LiveNodes) \X SetToSeqs(UNION {WorkOn(n) : n \in Candidates}) :
            plan \in {Validated(x[1], x[2], f) : f \in {Feasibly(x[1], x[2], e) : e \in Evaluate(x[1], x[2])}}
        BY DEF Plans
    <2> QED BY <2>1
<1>2. PICK e \in Evaluate(x[1], x[2]) : plan = Validated(x[1], x[2], Feasibly(x[1], x[2], e))
    BY <1>1
<1>3. x[1] \in Seq(LiveNodes)
    <2>1. IsFiniteSet(LiveNodes)
        <3>1. LiveNodes \in SUBSET Node
            BY DEF LiveNodes
        <3> QED BY <3>1, DisruptionAssumption, FS_Subset
    <2>2. x[1] \in SetToSeqs(LiveNodes)
        OBVIOUS
    <2> QED BY <2>1, <2>2, OrderOf
<1>4. e \in Seq(Action)
    BY <1>3, EvaluateIs
<1>5. Feasibly(x[1], x[2], e) \in Seq(Action)
    BY <1>4, FeasiblyIs
<1> QED BY <1>2, <1>5, ValidatedIs

-----------------------------------------------------------------------------
(***************************************************************************)
(* What a plan puts on the queue.                                          *)
(***************************************************************************)
PlanKinds == {"NodeCordoned", "NodeDrained", "NodeTerminated"}

\* What an event of a plan counts on as long as its node lives: the node is cordoned, a
\* drain meets no protected pod, and a termination finds at most the daemonset pod on the
\* node or has the drain before it.
Meant(c, k, q, e) ==
    e.event.kind \in PlanKinds =>
        LET n == e.event.node
        IN  /\ n \in Node /\ c.nodes[n] # "fresh"
            /\ c.nodes[n] = "live" =>
                  /\ k[n]
                  /\ e.event.kind = "NodeDrained" => c.podsOn[n] \cap Protected = {}
                  /\ e.event.kind = "NodeTerminated" =>
                        \/ c.podsOn[n] \subseteq Daemon
                        \/ \E f \in DOMAIN q : /\ f.event.kind = "NodeDrained" /\ f.event.node = n
                                               /\ f.after < e.after

Planned(c, k, q) == \A e \in DOMAIN q : Meant(c, k, q, e)

\* More events take nothing away.
LEMMA MeantStill ==
    ASSUME NEW c, NEW k, NEW q, NEW r, DOMAIN q \subseteq DOMAIN r, NEW e, Meant(c, k, q, e)
    PROVE  Meant(c, k, r, e)
BY DEF Meant

\* A queue of events that suit the cluster and come any number of times.
Fit(c, k, b) ==
    /\ Punctual(b) /\ Planned(c, k, b)
    /\ \A e \in DOMAIN b : EventSound(c, e.event) /\ ~ Single(e.event)

\* Two queues with no event overdue, together.
LEMMA PunctualSum ==
    ASSUME NEW a, Punctual(a), NEW b, Punctual(b), NEW r, r = a (+) b
    PROVE  Punctual(r) /\ DOMAIN r = DOMAIN a \cup DOMAIN b
<1> DEFINE K == {e.event.kind : e \in DOMAIN b}
<1>1. \A e \in DOMAIN b : e.event.kind \in K
    OBVIOUS
<1> HIDE DEF K
<1>2. Added(a, r, K) /\ DOMAIN r = DOMAIN a \cup DOMAIN b
    BY <1>1, AddedBag
<1> QED BY <1>2 DEF Added

\* An event for a node, in its turn.
LEMMA NodeEventIs ==
    ASSUME NEW t \in Nat, NEW kind, NEW n
    PROVE  /\ Punctual(NodeEvent(t, kind, n))
           /\ DOMAIN NodeEvent(t, kind, n) = {[after |-> t, event |-> [kind |-> kind, node |-> n]]}
BY PunctualOne DEF NodeEvent

\* What an action schedules.
LEMMA FollowUpsAre ==
    ASSUME NEW a \in Action, NEW t \in Nat, NEW k, k[a.node], NEW b, b = FollowUps(a, t)
    PROVE  Fit(state, k, b)
<1>1. PICK t1 \in Nat, t2 \in Nat, t3 \in Nat, t4 \in Nat :
        t1 = t + 1 /\ t2 = t + 2 /\ t3 = t + 3 /\ t4 = t + 4
    OBVIOUS
<1> DEFINE n == a.node
           e1 == [after |-> t1, event |-> [kind |-> "NodeCordoned", node |-> n]]
           e2 == [after |-> t2, event |-> [kind |-> "NodeDrained", node |-> n]]
           e3 == [after |-> t3, event |-> [kind |-> "NodeTerminated", node |-> n]]
           e0 == [after |-> t2, event |-> [kind |-> "NodeTerminated", node |-> n]]
           ev == [kind |-> "NodeLaunching", capacity |-> a.type]
           e4 == [after |-> t4, event |-> ev]
           b1 == NodeEvent(t1, "NodeCordoned", n)
           b2 == NodeEvent(t2, "NodeDrained", n)
           b3 == NodeEvent(t3, "NodeTerminated", n)
           b0 == NodeEvent(t2, "NodeTerminated", n)
           b4 == At(t4, ev)
<1>2. /\ Punctual(b1) /\ DOMAIN b1 = {e1}
      /\ Punctual(b2) /\ DOMAIN b2 = {e2}
      /\ Punctual(b3) /\ DOMAIN b3 = {e3}
      /\ Punctual(b0) /\ DOMAIN b0 = {e0}
      /\ Punctual(b4) /\ DOMAIN b4 = {e4}
    <2> HIDE DEF n, ev
    <2>1. Punctual(b1) /\ DOMAIN b1 = {e1}
        BY <1>1, NodeEventIs
    <2>2. Punctual(b2) /\ DOMAIN b2 = {e2}
        BY <1>1, NodeEventIs
    <2>3. Punctual(b3) /\ DOMAIN b3 = {e3}
        BY <1>1, NodeEventIs
    <2>4. Punctual(b0) /\ DOMAIN b0 = {e0}
        BY <1>1, NodeEventIs
    <2>5. Punctual(b4) /\ DOMAIN b4 = {e4}
        BY PunctualOne
    <2> QED BY <2>1, <2>2, <2>3, <2>4, <2>5
<1>3. n \in Node /\ state.nodes[n] = "live" /\ k[n]
    BY DEF Action, Disruptable, Candidates, Up, LiveNode
<1>4. /\ a.kind = "TerminateEmpty" => state.podsOn[n] \subseteq Daemon
      /\ a.kind \in {"DrainAndTerminate", "Replace"} => state.podsOn[n] \cap Protected = {}
      /\ a.kind = "Replace" => a.type \in Nat
      /\ a.kind \in {"TerminateEmpty", "DrainAndTerminate", "Replace"}
    <2>1. Protected \cap Daemon = {}
        BY DisruptionAssumption DEF Work
    <2>2. Capacities \subseteq Nat
        BY CapacitiesAssumption
    <2> QED BY <2>1, <2>2 DEF Action, Disruptable, WorkOn
<1>5. b = b1 (+) CASE a.kind = "TerminateEmpty" -> b0
                   [] a.kind = "DrainAndTerminate" -> b2 (+) b3
                   [] a.kind = "Replace" -> b2 (+) b3 (+) b4
    BY <1>1 DEF FollowUps
<1> HIDE DEF b0, b1, b2, b3, b4, e0, e1, e2, e3, e4, ev, n
<1>6. CASE a.kind = "TerminateEmpty"
    <2>1. b = b1 (+) b0
        BY <1>5, <1>6
    <2>2. Punctual(b) /\ DOMAIN b = {e1} \cup {e0}
        BY <1>2, <2>1, PunctualSum
    <2>3. Planned(state, k, b)
        BY <1>3, <1>4, <1>6, <2>2 DEF Planned, Meant, e0, e1
    <2>4. \A e \in DOMAIN b : EventSound(state, e.event) /\ ~ Single(e.event)
        BY <2>2 DEF EventSound, Single, e0, e1
    <2> QED BY <2>2, <2>3, <2>4 DEF Fit
<1>7. CASE a.kind = "DrainAndTerminate"
    <2> DEFINE c == b2 (+) b3
    <2>1. b = b1 (+) c
        BY <1>5, <1>7
    <2>2. Punctual(c) /\ DOMAIN c = {e2} \cup {e3}
        BY <1>2, PunctualSum
    <2> HIDE DEF c
    <2>3. Punctual(b) /\ DOMAIN b = {e1} \cup ({e2} \cup {e3})
        <3>1. Punctual(b1) /\ Punctual(c)
            BY <1>2, <2>2
        <3>2. Punctual(b) /\ DOMAIN b = DOMAIN b1 \cup DOMAIN c
            BY <2>1, <3>1, PunctualSum, Zenon
        <3> QED BY <1>2, <2>2, <3>2, Zenon
    <2>4. Planned(state, k, b)
        <3>1. e2 \in DOMAIN b /\ e2.after < e3.after
            BY <1>1, <2>3 DEF e2, e3
        <3>2. Meant(state, k, b, e1) /\ Meant(state, k, b, e2) /\ Meant(state, k, b, e3)
            BY <1>3, <1>4, <1>7, <3>1 DEF Meant, e1, e2, e3
        <3> QED BY <2>3, <3>2 DEF Planned
    <2>5. \A e \in DOMAIN b : EventSound(state, e.event) /\ ~ Single(e.event)
        BY <2>3 DEF EventSound, Single, e1, e2, e3
    <2> QED BY <2>3, <2>4, <2>5 DEF Fit
<1>8. CASE a.kind = "Replace"
    <2> DEFINE c == b2 (+) b3
               d == c (+) b4
    <2>1. b = b1 (+) d
        BY <1>5, <1>8
    <2>2. Punctual(c) /\ DOMAIN c = {e2} \cup {e3}
        BY <1>2, PunctualSum
    <2> HIDE DEF c
    <2>3. d = c (+) b4
        OBVIOUS
    <2> HIDE DEF d
    <2>4. Punctual(d) /\ DOMAIN d = ({e2} \cup {e3}) \cup {e4}
        <3>1. Punctual(c) /\ Punctual(b4)
            BY <1>2, <2>2
        <3>2. Punctual(d) /\ DOMAIN d = DOMAIN c \cup DOMAIN b4
            BY <2>3, <3>1, PunctualSum, Zenon
        <3> QED BY <1>2, <2>2, <3>2, Zenon
    <2>5. Punctual(b) /\ DOMAIN b = {e1} \cup (({e2} \cup {e3}) \cup {e4})
        <3>1. Punctual(b1) /\ Punctual(d)
            BY <1>2, <2>4
        <3>2. Punctual(b) /\ DOMAIN b = DOMAIN b1 \cup DOMAIN d
            BY <2>1, <3>1, PunctualSum, Zenon
        <3> QED BY <1>2, <2>4, <3>2, Zenon
    <2>6. Planned(state, k, b)
        <3>1. e2 \in DOMAIN b /\ e2.after < e3.after
            BY <1>1, <2>5 DEF e2, e3
        <3>2. Meant(state, k, b, e1) /\ Meant(state, k, b, e2) /\ Meant(state, k, b, e3)
            BY <1>3, <1>4, <1>8, <3>1 DEF Meant, e1, e2, e3
        <3>3. Meant(state, k, b, e4)
            BY DEF Meant, PlanKinds, e4, ev
        <3> QED BY <2>5, <3>2, <3>3 DEF Planned
    <2>7. \A e \in DOMAIN b : EventSound(state, e.event) /\ ~ Single(e.event)
        BY <1>4, <1>8, <2>5 DEF EventSound, Single, e1, e2, e3, e4, ev
    <2> QED BY <2>5, <2>6, <2>7 DEF Fit
<1> QED BY <1>4, <1>6, <1>7, <1>8

\* From q to r by events that suit the cluster.
Scheduling(c, k, q, r) ==
    /\ Punctual(r) /\ Extends(c, q, r)
    /\ DOMAIN q \subseteq DOMAIN r
    /\ \A e \in DOMAIN r \ DOMAIN q : Meant(c, k, r, e) /\ ~ Single(e.event)

\* Scheduling nothing.
LEMMA SchedulingSelf ==
    ASSUME NEW c, NEW k, NEW q, Punctual(q), QueueSound(c, q)
    PROVE  Scheduling(c, k, q, q)
BY DEF Scheduling, Extends

\* Scheduling more than before.
LEMMA SchedulingMore ==
    ASSUME NEW c, NEW k, NEW p, NEW q, Scheduling(c, k, p, q), NEW b, Fit(c, k, b),
           NEW r, r = q (+) b
    PROVE  Scheduling(c, k, p, r)
<1>1. Punctual(r) /\ DOMAIN r = DOMAIN q \cup DOMAIN b
    BY PunctualSum DEF Scheduling, Fit
<1>2. QueueSound(c, b) /\ \A ev \in Events(b) : ~ Single(ev)
    BY DEF Fit, Punctual, QueueSound, Events
<1>3. Extends(c, p, r)
    <2>1. QueueSound(c, q)
        BY DEF Scheduling, Extends
    <2>2. Extends(c, q, r)
        BY <1>2, <2>1, QueueExtended
    <2> QED BY <2>2, ExtendsChain DEF Scheduling
<1>4. ASSUME NEW e \in DOMAIN r \ DOMAIN p PROVE Meant(c, k, r, e) /\ ~ Single(e.event)
    <2>1. CASE e \in DOMAIN q
        <3>1. Meant(c, k, q, e) /\ ~ Single(e.event)
            BY <2>1 DEF Scheduling
        <3> QED BY <1>1, <3>1, MeantStill
    <2>2. CASE e \in DOMAIN b
        <3>1. Meant(c, k, b, e) /\ ~ Single(e.event)
            BY <2>2 DEF Fit, Planned
        <3> QED BY <1>1, <3>1, MeantStill
    <2> QED BY <1>1, <2>1, <2>2
<1> QED BY <1>1, <1>3, <1>4 DEF Scheduling

\* The actions take their turns one after the other.
LEMMA ScheduleWalk ==
    ASSUME NEW actions \in Seq(Action), NEW r, Punctual(r)
    PROVE  \E w :
              /\ w[0] = r
              /\ \A i \in 1..Len(actions) : w[i] = w[i - 1] (+) FollowUps(actions[i], Turn(i))
              /\ FoldLeft(LAMBDA q, i : q (+) FollowUps(actions[i], Turn(i)), r,
                          [i \in DOMAIN actions |-> i]) = w[Len(actions)]
<1> DEFINE n == Len(actions)
           F(i) == FollowUps(actions[i], Turn(i))
           E == DOMAIN r \cup UNION {DOMAIN F(i) : i \in 1..n}
           C == UNION {[D -> Nat \ {0}] : D \in SUBSET E}
           s == [i \in DOMAIN actions |-> i]
           Eqn(g) == g = [t \in SUBSET (1..n) |->
                             IF t = {} THEN r ELSE g[t \ {Max(t)}] (+) F(s[Max(t)])]
           g == CHOOSE h : Eqn(h)
           step == [i \in 1..n |-> [q \in C |-> q (+) F(i)]]
<1>0. n \in Nat /\ DOMAIN actions = 1..n /\ \A i \in 1..n : actions[i] \in Action /\ s[i] = i
    OBVIOUS
<1>1. FoldLeft(LAMBDA q, i : q (+) FollowUps(actions[i], Turn(i)), r,
               [i \in DOMAIN actions |-> i]) = g[1..n]
    BY <1>0 DEF FoldLeft, MapThenFoldSet
<1>2. \A i \in 1..n : Punctual(F(i))
    <2> SUFFICES ASSUME NEW i \in 1..n PROVE Punctual(F(i))
        OBVIOUS
    <2> DEFINE k == [m \in Node |-> TRUE]
               a == actions[i]
    <2>1. Turn(i) \in Nat
        <3>1. i - 1 \in Nat /\ Stabilization \in Nat
            BY <1>0, DisruptionAssumption
        <3> QED BY <3>1 DEF Turn
    <2>2. a \in Action /\ a.node \in Node
        BY <1>0 DEF Action, Disruptable, Candidates, Up
    <2>3. k[a.node]
        BY <2>2
    <2> HIDE DEF k, a
    <2>4. Fit(state, k, FollowUps(a, Turn(i)))
        BY <2>1, <2>2, <2>3, FollowUpsAre
    <2> QED BY <2>4 DEF Fit, a
<1> HIDE DEF F, n, s
<1>3. \A q : Punctual(q) /\ DOMAIN q \subseteq E => q \in C
    <2> SUFFICES ASSUME NEW q, Punctual(q), DOMAIN q \subseteq E PROVE q \in C
        OBVIOUS
    <2>1. q = [e \in DOMAIN q |-> q[e]] /\ \A e \in DOMAIN q : q[e] \in Nat \ {0}
        BY DEF Punctual, IsABag
    <2>2. q \in [DOMAIN q -> Nat \ {0}]
        BY <2>1
    <2> HIDE DEF E
    <2> QED BY <2>2
<1>4. \A q \in C, i \in 1..n : q (+) F(i) \in C
    <2> SUFFICES ASSUME NEW q \in C, NEW i \in 1..n PROVE q (+) F(i) \in C
        OBVIOUS
    <2> DEFINE b == F(i)
               u == q (+) b
    <2>1. Punctual(b) /\ DOMAIN b \subseteq E
        BY <1>2
    <2>2. q = [e \in DOMAIN q |-> q[e]] /\ DOMAIN q \subseteq E
          /\ \A e \in DOMAIN q : q[e] \in Nat /\ q[e] > 0
        <3> HIDE DEF E
        <3>1. PICK D \in SUBSET E : q \in [D -> Nat \ {0}]
            OBVIOUS
        <3> QED BY <3>1
    <2>3. \A e \in DOMAIN b : b[e] \in Nat /\ b[e] > 0
        BY <2>1 DEF Punctual, IsABag
    <2> HIDE DEF b, E
    <2>4. u = [e \in DOMAIN q \cup DOMAIN b |-> (IF e \in DOMAIN q THEN q[e] ELSE 0)
                                                + (IF e \in DOMAIN b THEN b[e] ELSE 0)]
        BY DEF (+)
    <2>5. \A e \in DOMAIN q \cup DOMAIN b :
              (IF e \in DOMAIN q THEN q[e] ELSE 0) + (IF e \in DOMAIN b THEN b[e] ELSE 0)
                  \in Nat \ {0}
        BY <2>2, <2>3
    <2>6. u \in [DOMAIN q \cup DOMAIN b -> Nat \ {0}]
        BY <2>4, <2>5
    <2>7. DOMAIN q \cup DOMAIN b \in SUBSET E
        BY <2>1, <2>2
    <2> HIDE DEF u
    <2>8. u \in C
        BY <2>6, <2>7
    <2> QED BY <2>8 DEF u, b
<1>5. r \in C
    BY <1>3
<1> HIDE DEF E, C
<1>6. step \in [1..n -> [C -> C]]
    BY <1>4
<1>7. \A t \in SUBSET (1..n) : t # {} => Max(t) \in t /\ s[Max(t)] = Max(t)
    BY <1>0, MaxOf
<1> HIDE DEF step
<1>8. \E h : Eqn(h)
    <2>1. PICK h : Solves(h, n, C, step, r)
        BY <1>0, <1>5, <1>6, FoldSolved
    <2>2. \A t \in SUBSET (1..n) : h[t] = IF t = {} THEN r ELSE h[t \ {Max(t)}] (+) F(s[Max(t)])
        BY <1>7, <2>1 DEF Solves, step
    <2>3. Eqn(h)
        BY <2>1, <2>2 DEF Solves
    <2> QED BY <2>3
<1>9. Eqn(g)
    BY <1>8
<1> HIDE DEF g
<1>10. Tracks(g, n, C, step, r)
    BY <1>7, <1>9 DEF Tracks, step
<1>11. PICK w : Walk(w, n, C, step, r) /\ w[n] = g[1..n]
    BY <1>0, <1>5, <1>6, <1>10, FoldWalked
<1>12. \A i \in 1..n : w[i] = w[i - 1] (+) F(i)
    <2> TAKE i \in 1..n
    <2>1. w[i - 1] \in C /\ w[i] = step[i][w[i - 1]]
        BY <1>0, <1>11 DEF Walk
    <2> QED BY <2>1 DEF step
<1> QED BY <1>1, <1>11, <1>12 DEF Walk, n, F

\* The queue after a plan: what was left, the events of the plan and the next loop.
LEMMA SchedulesQueue ==
    ASSUME NEW actions \in Seq(Action), NEW r, Punctual(r), QueueSound(state, r),
           NEW k, \A i \in DOMAIN actions : k[actions[i].node]
    PROVE  Scheduling(state, k, r,
               FoldLeft(LAMBDA q, i : q (+) FollowUps(actions[i], Turn(i)), r,
                        [i \in DOMAIN actions |-> i]))
<1> DEFINE n == Len(actions)
           d == FoldLeft(LAMBDA q, i : q (+) FollowUps(actions[i], Turn(i)), r,
                         [i \in DOMAIN actions |-> i])
<1>0. n \in Nat /\ DOMAIN actions = 1..n /\ \A i \in 1..n : actions[i] \in Action
    OBVIOUS
<1>1. PICK w :
              /\ w[0] = r
              /\ \A i \in 1..n : w[i] = w[i - 1] (+) FollowUps(actions[i], Turn(i))
              /\ d = w[n]
    BY ScheduleWalk
<1> HIDE DEF d
<1> DEFINE P == {i \in 0..n : Scheduling(state, k, r, w[i])}
<1>2. 0 \in P
    <2>1. Scheduling(state, k, r, r)
        BY SchedulingSelf
    <2>2. Scheduling(state, k, r, w[0])
        BY <1>1, <2>1, Zenon
    <2> QED BY <1>0, <2>2
<1>3. ASSUME NEW i \in 1..n, i - 1 \in P PROVE i \in P
    <2> DEFINE a == actions[i]
               b == FollowUps(a, Turn(i))
    <2>1. Turn(i) \in Nat
        <3>1. i - 1 \in Nat /\ Stabilization \in Nat
            BY <1>0, DisruptionAssumption
        <3> QED BY <3>1 DEF Turn
    <2>2. a \in Action /\ k[a.node]
        BY <1>0
    <2> HIDE DEF a
    <2>3. Fit(state, k, b)
        BY <2>1, <2>2, FollowUpsAre
    <2> HIDE DEF b
    <2>4. Scheduling(state, k, r, w[i - 1])
        BY <1>3
    <2>5. w[i] = w[i - 1] (+) b
        BY <1>1 DEF a, b
    <2>6. Scheduling(state, k, r, w[i])
        BY <2>3, <2>4, <2>5, SchedulingMore
    <2> QED BY <1>0, <2>6
<1> HIDE DEF P, n
<1>4. n \in P
    <2>1. \A i \in 1..n : i - 1 \in P => i \in P
        BY <1>3
    <2> QED BY <1>0, <1>2, <2>1, WalkInduction
<1>5. Scheduling(state, k, r, w[n])
    BY <1>4 DEF P
<1>6. Scheduling(state, k, r, d)
    BY <1>1, <1>5, Zenon
<1> QED BY <1>6 DEF d

-----------------------------------------------------------------------------
(***************************************************************************)
(* What the provisioner decides, by either path.                           *)
(***************************************************************************)
Claim == [pods : Nat, total : Nat]

\* Some type is the largest, and it offers something.
LEMMA LargestIs == Largest \in Nat \ {0}
<1>1. Capacities \in SUBSET Int /\ IsFiniteSet(Capacities) /\ Capacities # {}
    BY CapacitiesAssumption
<1> QED BY <1>1, MaxFinite, CapacitiesAssumption DEF Largest

\* The claims for pods that request the same.
LEMMA UniformType ==
    ASSUME NEW c \in ClusterType, NEW q \in Seq(Pod), AllSame(c, q)
    PROVE  UniformClaims(c, q) \in Seq(Claim)
<1> DEFINE size == c.requests[q[1]]
           perClaim == IF size = 0 THEN Len(q) ELSE Max({Largest \div size, 1})
           needed == (Len(q) + perClaim - 1) \div perClaim
           Dealt(i) == Cardinality({k \in 0..Len(q) - 1 : k % needed = i - 1})
           claims == [i \in 1..needed |-> [pods |-> Dealt(i), total |-> size * Dealt(i)]]
<1>1. Len(q) \in Nat /\ Len(q) > 1
    BY DEF AllSame
<1>2. size \in Nat
    <2>1. q[1] \in Pod
        BY <1>1
    <2> QED BY <2>1 DEF ClusterType
<1> HIDE DEF size
<1>3. perClaim \in Nat \ {0}
    <2>1. CASE size = 0
        BY <1>1, <2>1
    <2>2. CASE size # 0
        <3> DEFINE d == Largest \div size
        <3>1. d \in Int /\ 1 \in Int
            BY <1>2, <2>2, LargestIs
        <3> HIDE DEF d
        <3>2. Max({d, 1}) \in Int /\ Max({d, 1}) >= 1
            BY <3>1, MaxOfTwo
        <3> QED BY <2>2, <3>2 DEF d
    <2> QED BY <2>1, <2>2
<1> HIDE DEF perClaim
<1>4. needed \in Nat
    <2>1. Len(q) + perClaim - 1 \in Nat
        BY <1>1, <1>3
    <2> QED BY <1>3, <2>1
<1> HIDE DEF needed
<1>5. \A i \in 1..needed : Dealt(i) \in Nat
    <2> SUFFICES ASSUME NEW i \in 1..needed PROVE Dealt(i) \in Nat
        OBVIOUS
    <2>1. IsFiniteSet(0..Len(q) - 1)
        BY <1>1, FS_Interval
    <2>2. {k \in 0..Len(q) - 1 : k % needed = i - 1} \in SUBSET (0..Len(q) - 1)
        OBVIOUS
    <2> QED BY <2>1, <2>2, FS_Subset, FS_CardinalityType
<1> HIDE DEF Dealt
<1>6. \A i \in 1..needed : [pods |-> Dealt(i), total |-> size * Dealt(i)] \in Claim
    <2> SUFFICES ASSUME NEW i \in 1..needed
                 PROVE  [pods |-> Dealt(i), total |-> size * Dealt(i)] \in Claim
        OBVIOUS
    <2>1. Dealt(i) \in Nat /\ size * Dealt(i) \in Nat
        BY <1>2, <1>5
    <2> QED BY <2>1 DEF Claim
<1>7. claims \in Seq(Claim)
    BY <1>4, <1>6
<1> QED BY <1>7 DEF UniformClaims, claims, needed, perClaim, size, Dealt

Placing == [claims : Seq(Claim), over : BOOLEAN]

\* A pod is put into a claim or gets one of its own.
LEMMA PlacePodType ==
    ASSUME NEW c \in ClusterType, NEW k \in Nat, NEW acc \in Placing, NEW p \in Pod
    PROVE  PlacePod(c, k, acc, p) \in Placing
<1> DEFINE size == c.requests[p]
           roomy == {i \in DOMAIN acc.claims : acc.claims[i].total + size <= Largest}
           m == Min(roomy)
           grown == [acc.claims EXCEPT ![m] = [pods |-> @.pods + 1, total |-> @.total + size]]
<1>1. size \in Nat
    BY DEF ClusterType
<1>2. acc.claims \in Seq(Claim) /\ acc = [claims |-> acc.claims, over |-> acc.over] /\ acc.over \in BOOLEAN
    BY DEF Placing
<1> HIDE DEF size
<1>3. CASE acc.over
    BY <1>3 DEF PlacePod
<1>4. CASE ~ acc.over /\ roomy # {}
    <2>0. DOMAIN acc.claims = 1..Len(acc.claims) /\ Len(acc.claims) \in Nat
        BY <1>2
    <2>1. m \in DOMAIN acc.claims
        <3>1. roomy \in SUBSET Nat /\ roomy # {}
            BY <1>4, <2>0
        <3> HIDE DEF roomy
        <3>2. m \in roomy
            BY <3>1, MinNat
        <3> QED BY <3>2 DEF roomy
    <2> HIDE DEF m
    <2> DEFINE x == acc.claims[m]
               y == [pods |-> x.pods + 1, total |-> x.total + size]
    <2>2. x \in Claim
        BY <1>2, <2>1
    <2>3. y \in Claim
        BY <1>1, <2>2 DEF Claim
    <2>4. grown = [acc.claims EXCEPT ![m] = y]
        OBVIOUS
    <2> HIDE DEF x, y
    <2>5. grown \in Seq(Claim) /\ DOMAIN grown = DOMAIN acc.claims
        BY <1>2, <2>1, <2>3, <2>4
    <2> HIDE DEF grown
    <2>6. 1 \in DOMAIN grown /\ m \in DOMAIN grown
        BY <2>0, <2>1, <2>5
    <2>7. ToFront(grown, m) \in Seq(Claim)
        BY <2>5, <2>6 DEF ToFront
    <2>8. PlacePod(c, k, acc, p) = [acc EXCEPT !.claims = ToFront(grown, m)]
        BY <1>4 DEF PlacePod, grown, m, size
    <2> QED BY <1>2, <2>7, <2>8 DEF Placing
<1>5. CASE ~ acc.over /\ roomy = {}
    <2>1. Append(acc.claims, Opened(size)) \in Seq(Claim)
        <3>1. Opened(size) \in Claim
            BY <1>1 DEF Opened, Claim
        <3> QED BY <1>2, <3>1
    <2>2. \/ PlacePod(c, k, acc, p) = [acc EXCEPT !.over = TRUE]
          \/ PlacePod(c, k, acc, p) = [acc EXCEPT !.claims = Append(@, Opened(size))]
        BY <1>5 DEF PlacePod, size
    <2> QED BY <1>2, <2>1, <2>2 DEF Placing
<1> QED BY <1>3, <1>4, <1>5

\* The claims for pods that request different amounts.
LEMMA MixedType ==
    ASSUME NEW c \in ClusterType, NEW k \in Nat, NEW q \in Seq(Pod)
    PROVE  MixedClaims(c, k, q) \in Seq(Claim)
<1> DEFINE n == Len(q)
           base == [claims |-> <<>>, over |-> FALSE]
           Eqn(g) == g = [t \in SUBSET (1..n) |->
                             IF t = {} THEN base ELSE PlacePod(c, k, g[t \ {Max(t)}], q[Max(t)])]
           g == CHOOSE h : Eqn(h)
           step == [i \in 1..n |-> [a \in Placing |-> PlacePod(c, k, a, q[i])]]
<1>0. n \in Nat /\ DOMAIN q = 1..n /\ \A i \in 1..n : q[i] \in Pod
    OBVIOUS
<1>1. MixedClaims(c, k, q) = g[1..n].claims
    BY <1>0 DEF MixedClaims, FoldLeft, MapThenFoldSet
<1>2. step \in [1..n -> [Placing -> Placing]]
    BY <1>0, PlacePodType
<1>3. base \in Placing
    BY DEF Placing
<1>4. \A t \in SUBSET (1..n) : t # {} => Max(t) \in t
    BY <1>0, MaxOf
<1> HIDE DEF n, step, base
<1>5. \E h : Eqn(h)
    <2>1. PICK h : Solves(h, n, Placing, step, base)
        BY <1>0, <1>2, <1>3, FoldSolved
    <2>2. \A t \in SUBSET (1..n) :
              h[t] = IF t = {} THEN base ELSE PlacePod(c, k, h[t \ {Max(t)}], q[Max(t)])
        BY <1>4, <2>1 DEF Solves, step
    <2>3. Eqn(h)
        BY <2>1, <2>2 DEF Solves
    <2> QED BY <2>3
<1>6. Eqn(g)
    BY <1>5
<1> HIDE DEF g
<1>7. Tracks(g, n, Placing, step, base)
    BY <1>4, <1>6 DEF Tracks, step
<1>8. g[1..n] \in Placing
    BY <1>0, <1>2, <1>3, <1>7, FoldTyped
<1> QED BY <1>1, <1>8 DEF Placing

Filling == [claims : Seq(Claim), pods : Nat, left : Nat, over : BOOLEAN]

\* A full node is a claim.
LEMMA FilledIs == ASSUME NEW k \in Nat PROVE Filled(k) \in Claim
BY LargestIs DEF Filled, Claim

\* A filling stays one when a pod is added or a new node begun.
LEMMA FillingExcept ==
    ASSUME NEW S, NEW acc \in [claims : S, pods : Nat, left : Nat, over : BOOLEAN],
           NEW claims \in S, NEW pods \in Nat, NEW rest \in Nat
    PROVE  /\ [acc EXCEPT !.claims = claims, !.pods = 0, !.over = TRUE]
                  \in [claims : S, pods : Nat, left : Nat, over : BOOLEAN]
           /\ [acc EXCEPT !.claims = claims, !.pods = pods, !.left = rest]
                  \in [claims : S, pods : Nat, left : Nat, over : BOOLEAN]
OBVIOUS

\* A sequence of elements with one more.
LEMMA AppendTyped ==
    ASSUME NEW S, NEW s \in Seq(S), NEW x \in S
    PROVE  Append(s, x) \in Seq(S) /\ <<x>> \in Seq(S) /\ <<>> \in Seq(S)
OBVIOUS

\* The largest type is filled pod by pod.
LEMMA FillLargestType ==
    ASSUME NEW c \in ClusterType, NEW k \in Nat, NEW acc \in Filling, NEW p \in Pod
    PROVE  FillLargest(c, k, acc, p) \in Filling
<1> DEFINE size == c.requests[p]
           full == size > acc.left
           claims == IF full /\ acc.pods > 0 THEN Append(acc.claims, Filled(acc.pods)) ELSE acc.claims
           pods == IF full THEN 1 ELSE acc.pods + 1
           rest == SatSub(IF full THEN Largest ELSE acc.left, size)
<1>1. size \in Nat
    BY DEF ClusterType
<1>2. /\ acc.claims \in Seq(Claim) /\ acc.pods \in Nat /\ acc.left \in Nat /\ acc.over \in BOOLEAN
      /\ acc = [claims |-> acc.claims, pods |-> acc.pods, left |-> acc.left, over |-> acc.over]
    BY DEF Filling
<1>3. claims \in Seq(Claim)
    BY <1>2, FilledIs
<1>4. pods \in Nat
    BY <1>2
<1>5. rest \in Nat
    BY <1>1, <1>2, LargestIs DEF SatSub
<1>6. \/ FillLargest(c, k, acc, p) = acc
      \/ FillLargest(c, k, acc, p) = [acc EXCEPT !.claims = claims, !.pods = 0, !.over = TRUE]
      \/ FillLargest(c, k, acc, p) = [acc EXCEPT !.claims = claims, !.pods = pods, !.left = rest]
    BY DEF FillLargest
<1> HIDE DEF size, full, claims, pods, rest
<1>7. /\ [acc EXCEPT !.claims = claims, !.pods = 0, !.over = TRUE] \in Filling
      /\ [acc EXCEPT !.claims = claims, !.pods = pods, !.left = rest] \in Filling
    BY <1>3, <1>4, <1>5, FillingExcept DEF Filling
<1> QED BY <1>6, <1>7

\* The claims of the path without batching.
LEMMA LegacyType ==
    ASSUME NEW c \in ClusterType, NEW k \in Nat, NEW q \in Seq(Pod)
    PROVE  LegacyClaims(c, k, q) \in Seq(Claim)
<1> DEFINE n == Len(q)
           base == [claims |-> <<>>, pods |-> 0, left |-> Largest, over |-> FALSE]
           Eqn(g) == g = [t \in SUBSET (1..n) |->
                             IF t = {} THEN base ELSE FillLargest(c, k, g[t \ {Max(t)}], q[Max(t)])]
           g == CHOOSE h : Eqn(h)
           step == [i \in 1..n |-> [a \in Filling |-> FillLargest(c, k, a, q[i])]]
           one == SelectInstance(c, k, q)
           acc == FoldLeft(LAMBDA a, p : FillLargest(c, k, a, p), base, q)
<1>0. n \in Nat /\ DOMAIN q = 1..n /\ \A i \in 1..n : q[i] \in Pod
    OBVIOUS
<1>1. acc = g[1..n]
    BY <1>0 DEF FoldLeft, MapThenFoldSet
<1>2. step \in [1..n -> [Filling -> Filling]]
    BY <1>0, FillLargestType
<1>3. base \in Filling
    BY LargestIs DEF Filling
<1>4. \A t \in SUBSET (1..n) : t # {} => Max(t) \in t
    BY <1>0, MaxOf
<1>5. one \in Seq(Claim)
    <2> DEFINE total == Requested(c, q)
    <2>1. total \in Nat
        <3>1. PICK w \in [0..Len(q) -> Nat] : total = w[Len(q)]
            BY RequestedWalk
        <3> HIDE DEF total
        <3> QED BY <1>0, <3>1
    <2>2. one = <<>> \/ one = <<[pods |-> Len(q), total |-> total]>>
        BY DEF SelectInstance, Requested
    <2> HIDE DEF total, one
    <2>3. [pods |-> Len(q), total |-> total] \in Claim
        BY <1>0, <2>1 DEF Claim
    <2>4. <<>> \in Seq(Claim) /\ <<[pods |-> Len(q), total |-> total]>> \in Seq(Claim)
        BY <2>3, AppendTyped
    <2> QED BY <2>2, <2>4
<1>6. \/ LegacyClaims(c, k, q) = one
      \/ LegacyClaims(c, k, q) = acc.claims
      \/ LegacyClaims(c, k, q) = Append(acc.claims, Filled(acc.pods))
    BY DEF LegacyClaims
<1> HIDE DEF n, step, base, one, acc
<1>7. \E h : Eqn(h)
    <2>1. PICK h : Solves(h, n, Filling, step, base)
        BY <1>0, <1>2, <1>3, FoldSolved
    <2>2. \A t \in SUBSET (1..n) :
              h[t] = IF t = {} THEN base ELSE FillLargest(c, k, h[t \ {Max(t)}], q[Max(t)])
        BY <1>4, <2>1 DEF Solves, step
    <2>3. Eqn(h)
        BY <2>1, <2>2 DEF Solves
    <2> QED BY <2>3
<1>8. Eqn(g)
    BY <1>7
<1> HIDE DEF g
<1>9. Tracks(g, n, Filling, step, base)
    BY <1>4, <1>8 DEF Tracks, step
<1>10. acc \in Filling
    BY <1>0, <1>1, <1>2, <1>3, <1>9, FoldTyped
<1>11. acc.claims \in Seq(Claim) /\ Filled(acc.pods) \in Claim
    BY <1>10, FilledIs DEF Filling
<1>12. Append(acc.claims, Filled(acc.pods)) \in Seq(Claim)
    BY <1>11, AppendTyped
<1> QED BY <1>5, <1>6, <1>11, <1>12

\* The pods that claims are for are so many.
LEMMA AddressedType ==
    ASSUME NEW claims \in Seq(Claim)
    PROVE  Addressed(claims) \in Nat
<1> DEFINE n == Len(claims)
           Eqn(g) == g = [t \in SUBSET (1..n) |->
                             IF t = {} THEN 0 ELSE g[t \ {Max(t)}] + claims[Max(t)].pods]
           g == CHOOSE h : Eqn(h)
           step == [i \in 1..n |-> [a \in Nat |-> a + claims[i].pods]]
<1>0. n \in Nat /\ DOMAIN claims = 1..n /\ \A i \in 1..n : claims[i].pods \in Nat
    <2>1. \A i \in 1..n : claims[i] \in Claim
        OBVIOUS
    <2>2. \A x \in Claim : x.pods \in Nat
        BY DEF Claim
    <2> QED BY <2>1, <2>2
<1>1. Addressed(claims) = g[1..n]
    BY <1>0 DEF Addressed, FoldLeft, MapThenFoldSet
<1>2. step \in [1..n -> [Nat -> Nat]]
    BY <1>0
<1>3. \A t \in SUBSET (1..n) : t # {} => Max(t) \in t
    BY <1>0, MaxOf
<1> HIDE DEF n, step
<1>4. \E h : Eqn(h)
    <2>1. PICK h : Solves(h, n, Nat, step, 0)
        BY <1>0, <1>2, FoldSolved
    <2>2. \A t \in SUBSET (1..n) :
              h[t] = IF t = {} THEN 0 ELSE h[t \ {Max(t)}] + claims[Max(t)].pods
        BY <1>3, <2>1 DEF Solves, step
    <2>3. Eqn(h)
        BY <2>1, <2>2 DEF Solves
    <2> QED BY <2>3
<1>5. Eqn(g)
    BY <1>4
<1> HIDE DEF g
<1>6. Tracks(g, n, Nat, step, 0)
    BY <1>3, <1>5 DEF Tracks, step
<1>7. 0 \in Nat /\ n \in Nat
    BY <1>0
<1>8. g[1..n] \in Nat
    BY <1>2, <1>6, <1>7, FoldTyped
<1> QED BY <1>1, <1>8

\* Every decision is a sequence of claims.
LEMMA ClaimsAre ==
    ASSUME NEW c \in ClusterType, NEW k \in Nat, NEW claims \in Claims(c, k)
    PROVE  claims \in Seq(Claim)
<1> DEFINE batch == Batch(c)
<1>1. batch \in Seq(Pod)
    <2> DEFINE T == {p \in Pod : Is(c, p, "Pending")}
    <2>1. c.pending_queue \in Seq(Pod)
        BY DEF ClusterType
    <2>2. InOrder(c.pending_queue, T) \in Seq(Pod \cap T)
        BY <2>1, InOrderSeq
    <2>3. InOrder(c.pending_queue, T) \in Seq(Pod)
        <3> HIDE DEF T
        <3> QED BY <2>2, SeqMonotonic
    <2> QED BY <2>3 DEF Batch
<1> HIDE DEF batch
<1>2. CASE Version = "V0_35"
    <2>1. claims = LegacyClaims(c, k, batch)
        BY <1>2 DEF Claims, batch
    <2> QED BY <1>1, <2>1, LegacyType
<1>3. CASE Version # "V0_35"
    <2>1. PICK q \in BySize(c) : claims = FlexibleClaims(c, k, q)
        BY <1>3 DEF Claims
    <2>2. q \in Seq(Pod)
        <3>1. q \in SetToSeqs(ToSet(batch))
            BY <2>1 DEF BySize, SortedBy, batch
        <3> QED BY <1>1, <3>1, SortedSeq
    <2> DEFINE all == IF AllSame(c, q) THEN UniformClaims(c, q) ELSE MixedClaims(c, k, q)
               T == {claim \in ToSet(all) : claim.total <= Largest}
    <2>3. all \in Seq(Claim)
        BY <2>2, UniformType, MixedType
    <2> HIDE DEF all, T
    <2>4. claims = InOrder(all, T)
        BY <2>1 DEF FlexibleClaims, all, T
    <2>5. claims \in Seq(Claim \cap T)
        BY <2>3, <2>4, InOrderSeq
    <2> QED BY <2>5, SeqMonotonic
<1> QED BY <1>2, <1>3

-----------------------------------------------------------------------------
(***************************************************************************)
(* What the events of Simulation leave to those of a plan.                 *)
(***************************************************************************)
SimKinds == {"PodSubmitted", "PodCompleted", "PodResizeByOwner", "NodeLaunching", "NodeReady",
             "KarpenterProvisioningLoop"}

RunsOnCordoned(v) ==
    Is(state, v, "Running") /\ cordoned[state.node[v]] /\ state.nodes[state.node[v]] = "live"

\* The nodes that were there stay as they are, those that are cordoned get at most the
\* daemonset pod of their own NodeReady, and what is scheduled is of these kinds; a NodeReady
\* is that of a node that joins, unready if nodes need time to start.  No pod on a cordoned
\* node goes back to pending.
Simulates(e) ==
    /\ e.event.kind \in SimKinds
    /\ Added(Pop(queue, e), queue', SimKinds)
    /\ \A x \in DOMAIN queue' \ DOMAIN Pop(queue, e) : x.event.kind = "NodeReady" =>
          \E n \in Node : /\ x.event = Readiness(n) /\ state.nodes[n] = "fresh"
                          /\ Startup # 0 => ~ ready'[n]
    /\ cordoned' = cordoned
    /\ \A n \in Node : state.nodes[n] # "fresh" =>
          /\ state'.nodes[n] = state.nodes[n]
          /\ e.event = Readiness(n) \/ ready'[n] = ready[n]
    /\ \A n \in Node : cordoned[n] /\ state.nodes[n] = "live" =>
          state'.podsOn[n] \subseteq state.podsOn[n]
              \cup (IF e.event = Readiness(n) /\ DaemonSize # 0 THEN Daemon ELSE {})
    /\ \A v \in Pod : RunsOnCordoned(v) => state'.phase[v] # "Pending"

\* A pass leaves the nodes alone that are not up.
LEMMA PassElsewhere ==
    ASSUME NEW c, Steady(c), NEW up \in SUBSET Node,
           NEW d \in SchedulePendingFrom(c, up, c.pending_queue),
           NEW n \in Node, c.nodes[n] = "live", n \notin up
    PROVE  /\ d.podsOn[n] = c.podsOn[n]
           /\ \A v \in Pod : Is(c, v, "Running") /\ c.node[v] = n => Is(d, v, "Running")
<1> DEFINE Q == QueueSet(c.pending_queue)
<1>1. PassedTo(c, d, Work, Q, up)
    BY QueueIsWork, WorkRanked, PassOutcome DEF Steady
<1>2. d.podsOn[n] = c.podsOn[n] /\ d.nodes[n] = "live" /\ LinksAgree(c) /\ LinksAgree(d)
    BY <1>1 DEF PassedTo, SameFrame, Kept, Steady, Sound
<1> QED BY <1>2 DEF LinksAgree

\* An event of some kind that is due leaves the others, sooner.
LEMMA DueLeaves ==
    ASSUME Punctual(queue), NEW kind, NEW e \in Due(kind)
    PROVE  /\ e \in Earliest(queue) /\ e.event.kind = kind
           /\ Punctual(Pop(queue, e))
BY PunctualPop DEF Due

\* A submission.
LEMMA SubmittedSimulates ==
    ASSUME IInv, Punctual(queue), PodSubmitted
    PROVE  \E e \in Earliest(queue) : Simulates(e)
<1>1. PICK e \in Due("PodSubmitted") :
        LET p == e.event.pod
            c == SubmitPod(state, p, Size[p])
            nodes == BestNodes(c, Up(c, ready), p)
        IN  /\ IF nodes = {}
               THEN /\ state' = c
                    /\ queue' = Pop(queue, e) (+) At(1, ProvisioningLoop)
               ELSE /\ \E n \in nodes : state' = BindPod(c, p, n)
                    /\ queue' = Pop(queue, e) (+)
                          IF Duration[p] = 0 THEN EmptyBag
                          ELSE At(Duration[p], [kind |-> "PodCompleted", pod |-> p])
            /\ UNCHANGED <<ready, cordoned, inflight, launched>>
    BY DEF PodSubmitted
<1> DEFINE p == e.event.pod
           size == Size[p]
           c == SubmitPod(state, p, size)
           up == Up(c, ready)
           r == Pop(queue, e)
           done == [kind |-> "PodCompleted", pod |-> p]
           none == EmptyBag
<1>2. /\ e.event.kind = "PodSubmitted" /\ p \in Work /\ state.pods[p] = "fresh"
      /\ e \in Earliest(queue) /\ Punctual(r)
    BY DueIs, DueLeaves DEF EventSound
<1>3. p \in Pod /\ size \in Nat /\ Duration[p] \in Nat /\ Steady(state)
    BY <1>2, SimulationAssumption DEF Work, IInv
<1>4. /\ \/ state' = c
         \/ \E n \in BestNodes(c, up, p) : state' = BindPod(c, p, n)
      /\ \/ queue' = r (+) At(1, ProvisioningLoop)
         \/ queue' = r (+) none
         \/ queue' = r (+) At(Duration[p], done)
      /\ ready' = ready /\ cordoned' = cordoned
    BY <1>1
<1> HIDE DEF p, size, r, none
<1>5. /\ Steady(c) /\ c.nodes = state.nodes /\ c.podsOn = state.podsOn
      /\ \A v \in Pod : Is(state, v, "Running") => Is(c, v, "Running")
    BY <1>2, <1>3, SubmitSteady
<1>5a. up \subseteq Node /\ \A n \in up : ~ cordoned[n]
    BY DEF Up
<1> HIDE DEF c, up
<1>6. /\ state'.nodes = state.nodes
      /\ \A n \in Node : cordoned[n] => state'.podsOn[n] = state.podsOn[n]
      /\ \A v \in Pod : Is(state, v, "Running") => state'.phase[v] # "Pending"
    <2>1. CASE state' = c
        BY <1>5, <2>1 DEF Is
    <2>2. CASE \E n \in BestNodes(c, up, p) : state' = BindPod(c, p, n)
        <3>1. PICK n \in BestNodes(c, up, p) : state' = BindPod(c, p, n)
            BY <2>2
        <3>2. n \in Node /\ n \in up /\ c \in ClusterType
            BY <1>5, <1>5a DEF BestNodes, Feasible, Steady, Sound
        <3>3. /\ SameFrame(c, state')
              /\ \A m \in Node : state'.podsOn[m] = c.podsOn[m] \/ m = n
              /\ \A v \in Pod : Is(c, v, "Running") => Is(state', v, "Running")
            BY <1>3, <3>1, <3>2, BindPodEffect
        <3> QED BY <1>5, <1>5a, <3>2, <3>3 DEF SameFrame, Is
    <2> QED BY <1>4, <2>1, <2>2
<1> DEFINE K == {"KarpenterProvisioningLoop", "PodCompleted"}
<1>7. Added(r, queue', K)
    <2>1. CASE queue' = r (+) At(1, ProvisioningLoop)
        <3>1. ProvisioningLoop.kind \in K
            BY DEF ProvisioningLoop
        <3> HIDE DEF K
        <3> QED BY <1>2, <2>1, <3>1, AddedOne
    <2>2. CASE queue' = r (+) none
        <3>1. Punctual(none) /\ \A x \in DOMAIN none : x.event.kind \in K
            BY PunctualNone DEF none
        <3> HIDE DEF K
        <3> QED BY <1>2, <2>2, <3>1, AddedBag
    <2>3. CASE queue' = r (+) At(Duration[p], done)
        <3>1. done.kind \in K
            OBVIOUS
        <3> HIDE DEF K, done
        <3> QED BY <1>2, <1>3, <2>3, <3>1, AddedOne
    <2> QED BY <1>4, <2>1, <2>2, <2>3
<1>8. Added(r, queue', SimKinds) /\ \A x \in DOMAIN queue' \ DOMAIN r : x.event.kind # "NodeReady"
    BY <1>7 DEF Added, SimKinds
<1>9. Simulates(e)
    BY <1>2, <1>4, <1>6, <1>8 DEF Simulates, SimKinds, RunsOnCordoned, r
<1> QED BY <1>2, <1>9

\* A completion.
LEMMA CompletedSimulates ==
    ASSUME IInv, Punctual(queue), PodCompleted
    PROVE  \E e \in Earliest(queue) : Simulates(e)
<1>1. PICK e \in Due("PodCompleted") :
        /\ state' = CompletePod(state, e.event.pod)
        /\ queue' = Pop(queue, e)
        /\ UNCHANGED <<ready, cordoned, inflight, launched>>
    BY DEF PodCompleted
<1> DEFINE p == e.event.pod
<1>2. /\ e.event.kind = "PodCompleted" /\ p \in Pod
      /\ e \in Earliest(queue) /\ Punctual(queue') /\ Steady(state) /\ p \in Work
    BY <1>1, DueIs, DueLeaves DEF EventSound, Work, IInv
<1>3. /\ state'.nodes = state.nodes
      /\ \A n \in Node : state'.podsOn[n] \subseteq state.podsOn[n]
      /\ \A v \in Pod : Is(state, v, "Running") => state'.phase[v] # "Pending"
    BY <1>1, <1>2, CompletePodKept, CompleteSteady DEF Steady
<1>4. Added(Pop(queue, e), queue', SimKinds)
    BY <1>1, <1>2, AddedSelf
<1>5. DOMAIN queue' \ DOMAIN Pop(queue, e) = {}
    BY <1>1
<1>6. Simulates(e)
    BY <1>1, <1>2, <1>3, <1>4, <1>5 DEF Simulates, SimKinds, RunsOnCordoned
<1> QED BY <1>2, <1>6

\* A resize.
LEMMA ResizeSimulates ==
    ASSUME IInv, Punctual(queue), PodResizeByOwner
    PROVE  \E e \in Earliest(queue) : Simulates(e)
<1>1. PICK e \in Due("PodResizeByOwner") :
        LET resized == {p \in Pod : Is(state, p, "Running") /\ Owner[p] = e.event.owner}
        IN  /\ \E order \in SetToSeqs(resized) :
                  state' = FoldLeft(LAMBDA c, p : ResizePod(c, p, e.event.size), state, order)
            /\ queue' = Pop(queue, e)
            /\ UNCHANGED <<ready, cordoned, inflight, launched>>
    BY DEF PodResizeByOwner
<1> DEFINE resized == {p \in Pod : Is(state, p, "Running") /\ Owner[p] = e.event.owner}
           size == e.event.size
<1>2. /\ e.event.kind = "PodResizeByOwner" /\ size \in Nat
      /\ e \in Earliest(queue) /\ Punctual(Pop(queue, e)) /\ Steady(state)
    BY DueIs, DueLeaves DEF EventSound, IInv
<1>3. queue' = Pop(queue, e) /\ ready' = ready /\ cordoned' = cordoned
    BY <1>1
<1>4. IsFiniteSet(resized) /\ resized \subseteq Pod
    BY WorkRanked, FS_Subset
<1> HIDE DEF resized, size
<1>5. PICK order \in SetToSeqs(resized) :
        state' = FoldLeft(LAMBDA c, p : ResizePod(c, p, size), state, order)
    BY <1>1 DEF resized, size
<1>6. order \in Seq(Pod)
    <2>1. order \in Seq(resized)
        BY <1>4, OrderOf
    <2> QED BY <1>4, <2>1, SeqMonotonic
<1>7. ResizedTo(state, state')
    <2> DEFINE d == FoldLeft(LAMBDA c, p : ResizePod(c, p, size), state, order)
    <2>1. ResizedTo(state, d)
        BY <1>2, <1>6, ResizeAll DEF Steady
    <2>2. state' = d
        BY <1>5
    <2> HIDE DEF d
    <2> QED BY <2>1, <2>2, Zenon
<1>8. state'.nodes = state.nodes /\ state'.podsOn = state.podsOn /\ state'.phase = state.phase
    BY <1>2, <1>7, ResizeSteady
<1>9. Added(Pop(queue, e), queue', SimKinds)
    BY <1>2, <1>3, AddedSelf
<1>10. DOMAIN queue' \ DOMAIN Pop(queue, e) = {}
    BY <1>3
<1>11. Simulates(e)
    BY <1>2, <1>3, <1>8, <1>9, <1>10 DEF Simulates, SimKinds, RunsOnCordoned, Is
<1> QED BY <1>2, <1>11

\* What ProvisioningHandler counts.
Tallied == inflight \in Nat /\ launched \in Nat

\* The launches of some claims are events, due in a nanosecond.
LEMMA LaunchingBag ==
    ASSUME NEW claims \in Seq(Claim), NEW type \in LaunchTypes(claims)
    PROVE  /\ Punctual(Launching(type))
           /\ \A x \in DOMAIN Launching(type) : x.event.kind = "NodeLaunching"
<1> DEFINE b == Launching(type)
           Count(x) == Cardinality({i \in DOMAIN type : type[i] = x.event.capacity})
<1>1. DOMAIN type = 1..Len(claims) /\ Len(claims) \in Nat
    BY DEF LaunchTypes
<1>2. IsFiniteSet(DOMAIN type)
    BY <1>1, FS_Interval
<1>3. /\ b = [x \in DOMAIN b |-> Count(x)]
      /\ \A x \in DOMAIN b : \E i \in DOMAIN type :
             x = [after |-> 1, event |-> [kind |-> "NodeLaunching", capacity |-> type[i]]]
    BY DEF Launching
<1>4. ASSUME NEW x \in DOMAIN b PROVE Count(x) \in Nat /\ Count(x) > 0
    <2> DEFINE S == {i \in DOMAIN type : type[i] = x.event.capacity}
    <2>1. S # {} /\ S \subseteq DOMAIN type
        BY <1>3
    <2>2. IsFiniteSet(S)
        BY <1>2, <2>1, FS_Subset
    <2> HIDE DEF S
    <2>3. Cardinality(S) \in Nat /\ Cardinality(S) # 0
        BY <2>1, <2>2, FS_CardinalityType, FS_EmptySet
    <2> QED BY <2>3 DEF S
<1> HIDE DEF b, Count
<1>5. IsABag(b)
    BY <1>3, <1>4 DEF IsABag
<1>6. \A x \in DOMAIN b : x = [after |-> x.after, event |-> x.event] /\ x.after \in Int /\ x.after >= 0
                          /\ x.event.kind = "NodeLaunching"
    BY <1>3
<1> QED BY <1>5, <1>6 DEF Punctual, Timed, b

\* What the loop schedules after its pass, and what it counts.
LEMMA SkipAdds ==
    ASSUME Tallied, NEW pending \in Nat, NEW r, Punctual(r), Skip(pending, r)
    PROVE  Tallied' /\ Added(r, queue', {"KarpenterProvisioningLoop", "NodeLaunching"})
<1> DEFINE K == {"KarpenterProvisioningLoop", "NodeLaunching"}
           none == EmptyBag
<1>1. ProvisioningLoop.kind \in K
    BY DEF ProvisioningLoop
<1> HIDE DEF K
<1>2. CASE queue' = r (+) none
    <2>1. Punctual(none) /\ \A x \in DOMAIN none : x.event.kind \in K
        BY PunctualNone
    <2> HIDE DEF none
    <2>2. Added(r, queue', K)
        BY <1>2, <2>1, AddedBag
    <2> QED BY <2>2 DEF Skip, Tallied, K
<1>3. CASE queue' = r (+) At(ReconcileInterval, ProvisioningLoop)
    <2>1. ReconcileInterval \in Nat
        BY SimulationAssumption
    <2>2. Added(r, queue', K)
        BY <1>1, <1>3, <2>1, AddedOne
    <2> QED BY <2>2 DEF Skip, Tallied, K
<1> QED BY <1>2, <1>3 DEF Skip, Again

\* A launch schedules the joining of nodes and more provisioning loops.
LEMMA LaunchAdds ==
    ASSUME Tallied, NEW pending \in Nat, NEW claims \in Seq(Claim), NEW r, Punctual(r),
           Launch(pending, claims, r)
    PROVE  Tallied' /\ Added(r, queue', {"KarpenterProvisioningLoop", "NodeLaunching"})
<1> DEFINE K == {"KarpenterProvisioningLoop", "NodeLaunching"}
           none == EmptyBag
<1>1. ProvisioningLoop.kind \in K
    BY DEF ProvisioningLoop
<1>2. ReconcileInterval \in Nat /\ LoopInterval \in Nat
    BY SimulationAssumption
<1>3. Tallied'
    <2>1. Addressed(claims) \in Nat /\ Len(claims) \in Nat
        BY AddressedType
    <2> QED BY <2>1 DEF Launch, Tallied
<1>4. CASE claims = <<>>
    BY <1>3, <1>4, AddedSelf DEF Launch
<1>5. CASE claims # <<>>
    <2>1. PICK type \in LaunchTypes(claims) :
               queue' = r (+) Launching(type) (+) Again(ReconcileInterval)
                    (+) IF pending > Addressed(claims) THEN Again(LoopInterval) ELSE EmptyBag
        BY <1>5 DEF Launch
    <2> DEFINE b == Launching(type)
               q == r (+) b
               s == q (+) At(ReconcileInterval, ProvisioningLoop)
    <2>2. Punctual(b) /\ \A x \in DOMAIN b : x.event.kind \in K
        BY LaunchingBag
    <2>3. queue' = s (+) none \/ queue' = s (+) At(LoopInterval, ProvisioningLoop)
        BY <2>1 DEF Again
    <2> HIDE DEF K, b, none
    <2>4. Added(r, q, K)
        BY <2>2, AddedBag
    <2> HIDE DEF q
    <2>5. Added(q, s, K)
        <3>1. Punctual(q)
            BY <2>4 DEF Added
        <3> QED BY <1>1, <1>2, <3>1, AddedOne DEF K
    <2> HIDE DEF s
    <2>6. Added(s, queue', K)
        <3>1. Punctual(s)
            BY <2>5 DEF Added
        <3>2. CASE queue' = s (+) none
            <4>1. Punctual(none) /\ \A x \in DOMAIN none : x.event.kind \in K
                BY PunctualNone DEF none
            <4> QED BY <3>1, <3>2, <4>1, AddedBag
        <3>3. CASE queue' = s (+) At(LoopInterval, ProvisioningLoop)
            BY <1>1, <1>2, <3>1, <3>3, AddedOne DEF K
        <3> QED BY <2>3, <3>2, <3>3
    <2> QED BY <1>3, <2>4, <2>5, <2>6, AddedChain DEF K
<1> QED BY <1>4, <1>5

\* A running pod has a node.
LEMMA RunningSomewhere ==
    ASSUME NEW c, Steady(c), NEW v \in Pod, Is(c, v, "Running")
    PROVE  c.node[v] \in Node
BY DEF Steady, Sound, Placed, Is

\* The provisioning loop.
LEMMA LoopSimulates ==
    ASSUME IInv, Punctual(queue), Tallied, KarpenterProvisioningLoop
    PROVE  Tallied' /\ \E e \in Earliest(queue) : Simulates(e)
<1>1. PICK e \in Due("KarpenterProvisioningLoop"),
           c \in SchedulePendingFrom(state, Up(state, ready), state.pending_queue) :
        /\ state' = c
        /\ \/ Skip(Len(c.pending_queue), Pop(queue, e))
           \/ \E claims \in Claims(c, launched) :
                  Launch(Len(c.pending_queue), claims, Pop(queue, e))
        /\ UNCHANGED <<ready, cordoned>>
    BY DEF KarpenterProvisioningLoop
<1> DEFINE r == Pop(queue, e)
           K == {"KarpenterProvisioningLoop", "NodeLaunching"}
           up == Up(state, ready)
<1>2. /\ e.event.kind = "KarpenterProvisioningLoop" /\ e \in Earliest(queue)
      /\ Punctual(r) /\ Steady(state)
    BY DueLeaves DEF IInv
<1>3. up \in SUBSET Node /\ \A n \in up : ~ cordoned[n]
    BY DEF Up
<1>4. c \in SchedulePendingFrom(state, up, state.pending_queue)
    OBVIOUS
<1> HIDE DEF up
<1>5. Steady(c) /\ c.nodes = state.nodes
    BY <1>2, <1>3, <1>4, PassSteady
<1>6. \A n \in Node : cordoned[n] /\ state.nodes[n] = "live" =>
          /\ c.podsOn[n] = state.podsOn[n]
          /\ \A v \in Pod : Is(state, v, "Running") /\ state.node[v] = n => Is(c, v, "Running")
    BY <1>2, <1>3, <1>4, PassElsewhere
<1>7. c \in ClusterType /\ Len(c.pending_queue) \in Nat
    BY <1>5 DEF Steady, Sound, ClusterType
<1>8. Tallied' /\ Added(r, queue', K)
    <2>1. CASE Skip(Len(c.pending_queue), r)
        BY <1>2, <1>7, <2>1, SkipAdds
    <2>2. CASE \E claims \in Claims(c, launched) : Launch(Len(c.pending_queue), claims, r)
        <3>1. PICK claims \in Claims(c, launched) : Launch(Len(c.pending_queue), claims, r)
            BY <2>2
        <3>2. claims \in Seq(Claim)
            BY <1>7, ClaimsAre DEF Tallied
        <3> HIDE DEF r
        <3> QED BY <1>2, <1>7, <3>1, <3>2, LaunchAdds
    <2> QED BY <1>1, <2>1, <2>2
<1>9. Added(r, queue', SimKinds) /\ \A x \in DOMAIN queue' \ DOMAIN r : x.event.kind # "NodeReady"
    BY <1>8 DEF Added, SimKinds
<1> HIDE DEF r
<1>6a. \A v \in Pod : RunsOnCordoned(v) => state'.phase[v] # "Pending"
    <2> SUFFICES ASSUME NEW v \in Pod, RunsOnCordoned(v) PROVE c.phase[v] # "Pending"
        BY <1>1
    <2>1. state.node[v] \in Node
        BY <1>2, RunningSomewhere DEF RunsOnCordoned
    <2> QED BY <1>6, <2>1 DEF RunsOnCordoned, Is
<1>10. Simulates(e)
    BY <1>1, <1>2, <1>5, <1>6, <1>6a, <1>9 DEF Simulates, SimKinds, r
<1> QED BY <1>2, <1>8, <1>10

\* A node joins.
LEMMA LaunchingSimulates ==
    ASSUME IInv, Punctual(queue), ready \in [Node -> BOOLEAN], NodeLaunching
    PROVE  \E e \in Earliest(queue) : Simulates(e)
<1>1. PICK e \in Due("NodeLaunching") :
        /\ Unused(Node, state.nodes) # {}
        /\ LET n == CHOOSE m \in Unused(Node, state.nodes) : TRUE
               c == AddNode(state, n, e.event.capacity)
           IN  /\ ready' = [ready EXCEPT ![n] = (Startup = 0)]
               /\ IF Startup = 0
                  THEN state' \in SchedulePendingFrom(c, Up(c, ready'), c.pending_queue)
                  ELSE state' = c
               /\ queue' = Pop(queue, e) (+) At(Max({Startup, 1}), [kind |-> "NodeReady", node |-> n])
               /\ cordoned' = cordoned
    BY DEF NodeLaunching
<1> DEFINE n == CHOOSE m \in Unused(Node, state.nodes) : TRUE
           k == e.event.capacity
           c == AddNode(state, n, k)
           r == Pop(queue, e)
           t == Max({Startup, 1})
           up == Up(c, ready')
           ev == Readiness(n)
<1>2. /\ e.event.kind = "NodeLaunching" /\ k \in Nat /\ e \in Earliest(queue)
      /\ Punctual(r) /\ Steady(state)
    BY DueIs, DueLeaves DEF EventSound, IInv
<1>3. n \in Node /\ state.nodes[n] = "fresh"
    <2>1. n \in Unused(Node, state.nodes)
        BY <1>1
    <2> QED BY <2>1 DEF Unused
<1>4. t \in Nat
    <2>1. Startup \in Int /\ 1 \in Int /\ Startup \in Nat
        BY SimulationAssumption
    <2> QED BY <2>1, MaxOfTwo
<1>5. /\ ready' = [ready EXCEPT ![n] = (Startup = 0)]
      /\ state' = c \/ state' \in SchedulePendingFrom(c, up, c.pending_queue)
      /\ queue' = r (+) At(t, ev)
      /\ cordoned' = cordoned
    BY <1>1 DEF Readiness
<1>6. up \in SUBSET Node /\ \A m \in up : ~ cordoned[m]
    <2>1. \A m \in up : m \in Node /\ ~ cordoned[m]
        BY DEF Up
    <2> QED BY <2>1
<1> HIDE DEF n, k, t, r, up
<1>7. /\ Steady(c) /\ c.nodes[n] = "live" /\ c.podsOn[n] = {}
      /\ \A m \in Node \ {n} : c.nodes[m] = state.nodes[m] /\ c.podsOn[m] = state.podsOn[m]
      /\ c.phase = state.phase /\ c.pods = state.pods /\ c.node = state.node
    <2>1. c.node = state.node
        BY <1>2, <1>3, AddNodeEffect DEF c, Steady, Sound
    <2> QED BY <1>2, <1>3, <2>1, AddNodeSteady
<1> HIDE DEF c
<1>8. /\ state'.nodes = c.nodes
      /\ \A m \in Node : cordoned[m] /\ c.nodes[m] = "live" =>
            /\ state'.podsOn[m] = c.podsOn[m]
            /\ \A v \in Pod : Is(c, v, "Running") /\ c.node[v] = m => Is(state', v, "Running")
    <2>1. CASE state' = c
        BY <2>1
    <2>2. CASE state' \in SchedulePendingFrom(c, up, c.pending_queue)
        <3>1. state'.nodes = c.nodes
            BY <1>6, <1>7, <2>2, PassSteady
        <3>2. \A m \in Node : cordoned[m] /\ c.nodes[m] = "live" =>
                /\ state'.podsOn[m] = c.podsOn[m]
                /\ \A v \in Pod : Is(c, v, "Running") /\ c.node[v] = m => Is(state', v, "Running")
            BY <1>6, <1>7, <2>2, PassElsewhere
        <3> QED BY <3>1, <3>2
    <2> QED BY <1>5, <2>1, <2>2
<1>9. ev.kind = "NodeReady" /\ ev.kind \in SimKinds
    BY DEF Readiness, SimKinds
<1> HIDE DEF ev
<1>10. /\ Added(r, queue', SimKinds)
       /\ DOMAIN queue' = DOMAIN r \cup {[after |-> t, event |-> ev]}
    BY <1>2, <1>4, <1>5, <1>9, AddedOne
<1>11. \A x \in DOMAIN queue' \ DOMAIN r : x.event = ev
    BY <1>10
<1>12. Startup # 0 => ~ ready'[n]
    BY <1>3, <1>5
<1>13. \A m \in Node : state.nodes[m] # "fresh" => ready'[m] = ready[m] /\ m # n
    BY <1>3, <1>5
<1>14. \A m \in Node : cordoned[m] /\ state.nodes[m] = "live" => state'.podsOn[m] = state.podsOn[m]
    BY <1>7, <1>8, <1>13
<1>15. \A m \in Node : state.nodes[m] # "fresh" => state'.nodes[m] = state.nodes[m]
    BY <1>7, <1>8, <1>13
<1>15a. \A v \in Pod : RunsOnCordoned(v) => state'.phase[v] # "Pending"
    <2> SUFFICES ASSUME NEW v \in Pod, RunsOnCordoned(v) PROVE state'.phase[v] # "Pending"
        OBVIOUS
    <2> DEFINE m == state.node[v]
    <2>1. m \in Node
        BY <1>2, RunningSomewhere DEF RunsOnCordoned
    <2>2. m # n /\ cordoned[m] /\ c.nodes[m] = "live" /\ c.node[v] = m
        BY <1>3, <1>7, <2>1 DEF RunsOnCordoned
    <2>3. Is(c, v, "Running")
        BY <1>7 DEF RunsOnCordoned, Is, LivePod
    <2>4. Is(state', v, "Running")
        BY <1>8, <2>1, <2>2, <2>3
    <2> QED BY <2>4 DEF Is
<1>16. Simulates(e)
    BY <1>2, <1>3, <1>5, <1>10, <1>11, <1>12, <1>13, <1>14, <1>15, <1>15a DEF Simulates, SimKinds, r, ev
<1> QED BY <1>2, <1>16

\* Whatever joins a node with NodeReady is a daemonset pod.
LEMMA StartDaemonJoins ==
    ASSUME NEW c, Steady(c), NEW n \in Node, DaemonSize = 0 \/ Unused(Daemon, c.pods) # {},
           NEW d, d = StartDaemon(c, n)
    PROVE  \A m \in Node : d.podsOn[m] \subseteq
               c.podsOn[m] \cup (IF m = n /\ DaemonSize # 0 THEN Daemon ELSE {})
<1>1. CASE DaemonSize = 0 \/ ~ LiveNode(c, n)
    BY <1>1 DEF StartDaemon
<1>2. CASE DaemonSize # 0 /\ LiveNode(c, n)
    <2> DEFINE p == CHOOSE q \in Unused(Daemon, c.pods) : TRUE
               b == SubmitPod(c, p, DaemonSize)
    <2>1. p \in Daemon /\ c.pods[p] = "fresh" /\ p \in Pod /\ DaemonSize \in Nat
        <3>1. p \in Unused(Daemon, c.pods)
            BY <1>2
        <3> QED BY <3>1, SimulationAssumption DEF Unused
    <2>2. d = BindPod(b, p, n)
        BY <1>2 DEF StartDaemon
    <2> HIDE DEF p
    <2>3. b.podsOn = c.podsOn /\ Kept(c, b)
        BY <2>1, SubmitPodEffect, SubmitPodKept DEF Steady, Sound
    <2> HIDE DEF b
    <2>4. b \in ClusterType
        BY <2>3 DEF Kept, Sound
    <2>5. \A m \in Node : d.podsOn[m] = b.podsOn[m] \/ (m = n /\ d.podsOn[m] = b.podsOn[m] \cup {p})
        BY <2>1, <2>2, <2>4, BindPodEffect
    <2> QED BY <1>2, <2>1, <2>3, <2>5
<1> QED BY <1>1, <1>2

\* A node becomes ready.
LEMMA ReadySimulates ==
    ASSUME IInv, Punctual(queue), Tallied, ready \in [Node -> BOOLEAN], NodeReady
    PROVE  Tallied' /\ \E e \in Earliest(queue) : Simulates(e)
<1>1. PICK e \in Due("NodeReady") :
        LET n == e.event.node
        IN  /\ DaemonSize = 0 \/ Unused(Daemon, state.pods) # {}
            /\ ready' = [ready EXCEPT ![n] = LiveNode(state, n)]
            /\ \E c \in SchedulePendingFrom(state, Up(state, ready'), state.pending_queue) :
                  /\ state' = StartDaemon(c, n)
                  /\ inflight' = CapInflight(state')
                  /\ queue' = Pop(queue, e) (+)
                        IF c.pending_queue = <<>> THEN EmptyBag ELSE At(1, ProvisioningLoop)
            /\ UNCHANGED <<cordoned, launched>>
    BY DEF NodeReady
<1> DEFINE n == e.event.node
           r == Pop(queue, e)
           up == Up(state, ready')
           none == EmptyBag
           K == {"KarpenterProvisioningLoop"}
<1>2. /\ e.event.kind = "NodeReady" /\ e.event = Readiness(n) /\ n \in Node
      /\ e \in Earliest(queue) /\ Punctual(r) /\ Steady(state)
    BY DueIs, DueLeaves DEF EventSound, IInv
<1>3. up \in SUBSET Node /\ \A m \in up : ~ cordoned[m]
    <2>1. \A m \in up : m \in Node /\ ~ cordoned[m]
        BY DEF Up
    <2> QED BY <2>1
<1>4. /\ DaemonSize = 0 \/ Unused(Daemon, state.pods) # {}
      /\ ready' = [ready EXCEPT ![n] = LiveNode(state, n)]
      /\ cordoned' = cordoned /\ launched' = launched
    BY <1>1
<1>5. PICK c \in SchedulePendingFrom(state, up, state.pending_queue) :
        /\ state' = StartDaemon(c, n)
        /\ inflight' = CapInflight(state')
        /\ queue' = r (+) none \/ queue' = r (+) At(1, ProvisioningLoop)
    BY <1>1
<1> HIDE DEF n, r, up, none
<1>6. Steady(c) /\ c.nodes = state.nodes /\ c.pods = state.pods
    BY <1>2, <1>3, PassSteady
<1>7. \A m \in Node : cordoned[m] /\ state.nodes[m] = "live" =>
          /\ c.podsOn[m] = state.podsOn[m]
          /\ \A v \in Pod : Is(state, v, "Running") /\ state.node[v] = m => Is(c, v, "Running")
    BY <1>2, <1>3, PassElsewhere
<1>8. DaemonSize = 0 \/ Unused(Daemon, c.pods) # {}
    BY <1>4, <1>6
<1>9. /\ Steady(state') /\ state'.nodes = c.nodes
      /\ \A v \in Pod : Is(c, v, "Running") => Is(state', v, "Running")
    BY <1>2, <1>5, <1>6, <1>8, StartDaemonSteady
<1>10. \A m \in Node : state'.podsOn[m] \subseteq
            c.podsOn[m] \cup (IF m = n /\ DaemonSize # 0 THEN Daemon ELSE {})
    BY <1>2, <1>5, <1>6, <1>8, StartDaemonJoins
<1>11. Added(r, queue', K)
    <2>1. CASE queue' = r (+) At(1, ProvisioningLoop)
        <3>1. ProvisioningLoop.kind \in K
            BY DEF ProvisioningLoop
        <3> HIDE DEF K
        <3> QED BY <1>2, <2>1, <3>1, AddedOne
    <2>2. CASE queue' = r (+) none
        <3>1. Punctual(none) /\ \A x \in DOMAIN none : x.event.kind \in K
            BY PunctualNone DEF none
        <3> HIDE DEF K
        <3> QED BY <1>2, <2>2, <3>1, AddedBag
    <2> QED BY <1>5, <2>1, <2>2
<1>12. Added(r, queue', SimKinds) /\ \A x \in DOMAIN queue' \ DOMAIN r : x.event.kind # "NodeReady"
    BY <1>11 DEF Added, SimKinds
<1>13. \A m : Readiness(m) = e.event <=> m = n
    BY <1>2 DEF Readiness
<1>14. \A m \in Node : e.event = Readiness(m) \/ ready'[m] = ready[m]
    BY <1>4, <1>13
<1>15. \A m \in Node : cordoned[m] /\ state.nodes[m] = "live" =>
            state'.podsOn[m] \subseteq state.podsOn[m]
                \cup (IF e.event = Readiness(m) /\ DaemonSize # 0 THEN Daemon ELSE {})
    BY <1>7, <1>10, <1>13
<1>15a. \A v \in Pod : RunsOnCordoned(v) => state'.phase[v] # "Pending"
    <2> SUFFICES ASSUME NEW v \in Pod, RunsOnCordoned(v) PROVE state'.phase[v] # "Pending"
        OBVIOUS
    <2>1. state.node[v] \in Node
        BY <1>2, RunningSomewhere DEF RunsOnCordoned
    <2>2. Is(c, v, "Running")
        BY <1>7, <2>1 DEF RunsOnCordoned
    <2>3. Is(state', v, "Running")
        BY <1>9, <2>2
    <2> QED BY <2>3 DEF Is
<1>16. Simulates(e)
    BY <1>2, <1>4, <1>6, <1>9, <1>12, <1>14, <1>15, <1>15a DEF Simulates, SimKinds, r
<1>17. Tallied'
    <2> DEFINE k == Len(state'.pending_queue)
    <2>1. k \in Int /\ k \in Nat /\ inflight \in Int /\ inflight \in Nat
        BY <1>9 DEF Steady, Sound, ClusterType, Tallied
    <2>2. inflight' = Min({inflight, k})
        BY <1>5 DEF CapInflight
    <2> HIDE DEF k
    <2>3. inflight' \in Nat
        BY <2>1, <2>2, MinOfTwo
    <2> QED BY <1>4, <2>3 DEF Tallied
<1> QED BY <1>2, <1>16, <1>17

-----------------------------------------------------------------------------
(***************************************************************************)
(* The invariant of a run that consolidates.                               *)
(***************************************************************************)
\* A live node whose NodeReady is to come is not cordoned, and if it is ready already its
\* NodeReady comes before the next consolidation.
Newcomers(c, r, k, q) ==
    \A n \in Node : c.nodes[n] = "live" /\ Readiness(n) \in Events(q) =>
        /\ ~ k[n]
        /\ r[n] => \A x, l \in DOMAIN q :
                      x.event = Readiness(n) /\ l.event.kind = "KarpenterConsolidationLoop" => x.after < l.after

\* What the handlers of consolidation count on beside IInv: no event is overdue, the loop
\* is always on the queue, only live nodes are cordoned and the plans still hold.
DInv ==
    /\ IInv
    /\ Punctual(queue) /\ ConsolidationLoop \in Events(queue)
    /\ Tallied
    /\ ready \in [Node -> BOOLEAN] /\ cordoned \in [Node -> BOOLEAN]
    /\ \A n \in Node : cordoned[n] => state.nodes[n] = "live"
    /\ current_interval \in ConsolidationInterval..MaxInterval
    /\ Planned(state, cordoned, queue)
    /\ Startup # 0 => Newcomers(state, ready, cordoned, queue)

\* Plans hold after an event if it leaves the cordoned nodes live and cordoned or removes
\* them, joins no submitted pod to one, and leaves nothing to drain if it is a drain.
LEMMA PlannedStill ==
    ASSUME Punctual(queue), Planned(state, cordoned, queue), NEW e \in Earliest(queue),
           NEW d, NEW k, NEW r, DOMAIN Pop(queue, e) \subseteq DOMAIN r,
           \A x \in DOMAIN r \ DOMAIN Pop(queue, e) : Meant(d, k, r, x),
           \A n \in Node : state.nodes[n] # "fresh" =>
               \/ d.nodes[n] = "gone"
               \/ /\ d.nodes[n] = state.nodes[n]
                  /\ cordoned[n] /\ state.nodes[n] = "live" =>
                        k[n] /\ d.podsOn[n] \subseteq state.podsOn[n] \cup Daemon,
           e.event.kind = "NodeDrained" /\ d.nodes[e.event.node] = "live"
               => d.podsOn[e.event.node] \subseteq Daemon
    PROVE  Planned(d, k, r)
<1> SUFFICES ASSUME NEW x \in DOMAIN r PROVE Meant(d, k, r, x)
    BY DEF Planned
<1> DEFINE p == Pop(queue, e)
<1>1. /\ e \in DOMAIN queue
      /\ \A y \in DOMAIN p : \E f \in DOMAIN queue : y = Sooner(f, e)
      /\ \A f \in DOMAIN queue : f # e => Sooner(f, e) \in DOMAIN p
    BY PunctualPop
<1> HIDE DEF p
<1>2. CASE x \notin DOMAIN p
    BY <1>2 DEF p
<1>3. CASE x \in DOMAIN p
    <2>1. PICK f \in DOMAIN queue : x = Sooner(f, e)
        BY <1>1, <1>3
    <2>2. Meant(state, cordoned, queue, f) /\ x.event = f.event
        BY <2>1 DEF Planned, Sooner
    <2> SUFFICES ASSUME x.event.kind \in PlanKinds PROVE Meant(d, k, r, x)
        BY DEF Meant
    <2> DEFINE n == x.event.node
    <2>3. n \in Node /\ state.nodes[n] # "fresh"
        BY <2>2 DEF Meant
    <2>4. CASE d.nodes[n] = "gone"
        BY <2>3, <2>4 DEF Meant
    <2>5. CASE d.nodes[n] # "gone"
        <3>1. d.nodes[n] = state.nodes[n]
            BY <2>3, <2>5
        <3> SUFFICES ASSUME state.nodes[n] = "live" PROVE Meant(d, k, r, x)
            BY <2>3, <3>1 DEF Meant
        <3>2. /\ cordoned[n]
              /\ f.event.kind = "NodeDrained" => state.podsOn[n] \cap Protected = {}
              /\ f.event.kind = "NodeTerminated" =>
                    \/ state.podsOn[n] \subseteq Daemon
                    \/ \E g \in DOMAIN queue : /\ g.event.kind = "NodeDrained" /\ g.event.node = n
                                               /\ g.after < f.after
            BY <2>2 DEF Meant
        <3>3. k[n] /\ d.podsOn[n] \subseteq state.podsOn[n] \cup Daemon
            BY <2>3, <2>5, <3>2
        <3>4. x.event.kind = "NodeDrained" => d.podsOn[n] \cap Protected = {}
            <4>1. Protected \cap Daemon = {}
                BY DisruptionAssumption DEF Work
            <4> QED BY <2>2, <3>2, <3>3, <4>1
        <3>5. x.event.kind = "NodeTerminated" =>
                 \/ d.podsOn[n] \subseteq Daemon
                 \/ \E g \in DOMAIN r : /\ g.event.kind = "NodeDrained" /\ g.event.node = n
                                        /\ g.after < x.after
            <4> SUFFICES ASSUME x.event.kind = "NodeTerminated", ~ (d.podsOn[n] \subseteq Daemon)
                         PROVE  \E g \in DOMAIN r : /\ g.event.kind = "NodeDrained" /\ g.event.node = n
                                                    /\ g.after < x.after
                OBVIOUS
            <4>1. PICK g \in DOMAIN queue : /\ g.event.kind = "NodeDrained" /\ g.event.node = n
                                            /\ g.after < f.after
                BY <2>2, <3>2, <3>3
            <4>2. g # e
                BY <3>1, <4>1
            <4>3. Sooner(g, e) \in DOMAIN r
                BY <1>1, <4>1, <4>2 DEF p
            <4>4. g.after \in Int /\ f.after \in Int /\ e.after \in Int
                BY <1>1 DEF Punctual, Timed
            <4>5. Sooner(g, e).after < x.after /\ Sooner(g, e).event = g.event
                BY <2>1, <4>1, <4>4 DEF Sooner
            <4> QED BY <4>1, <4>3, <4>5
        <3> QED BY <2>3, <3>1, <3>3, <3>4, <3>5 DEF Meant
    <2> QED BY <2>4, <2>5
<1> QED BY <1>2, <1>3

\* What joins joins unready and uncordoned, the others change in nothing that matters.
LEMMA NewcomersStill ==
    ASSUME IInv, Punctual(queue), NEW e \in Earliest(queue),
           Newcomers(state, ready, cordoned, queue),
           NEW d, NEW u, NEW k, NEW r, DOMAIN Pop(queue, e) \subseteq DOMAIN r,
           \A x \in DOMAIN r \ DOMAIN Pop(queue, e) :
               /\ x.event.kind = "KarpenterConsolidationLoop"
                     => e.event.kind = "KarpenterConsolidationLoop"
               /\ \A n \in Node : x.event = Readiness(n) =>
                     state.nodes[n] = "fresh" /\ ~ u[n] /\ ~ k[n],
           \A n \in Node : d.nodes[n] = "live" /\ state.nodes[n] # "fresh" =>
               /\ state.nodes[n] = "live"
               /\ Readiness(n) \in Events(queue) /\ Readiness(n) # e.event =>
                     /\ u[n] => ready[n]
                     /\ k[n] => cordoned[n]
    PROVE  Newcomers(d, u, k, r)
<1> DEFINE p == Pop(queue, e)
<1>1. /\ e \in DOMAIN queue
      /\ \A y \in DOMAIN p : \E f \in DOMAIN queue : y = Sooner(f, e)
      /\ \A f \in DOMAIN queue : e.after <= f.after
    BY PunctualPop DEF Earliest
<1>2. \A ev \in Events(p) : Single(ev) => ev # e.event
    <2>1. QueueSound(state, queue)
        BY DEF IInv
    <2> QED BY <1>1, <2>1, QueueTaken
<1> HIDE DEF p
<1> SUFFICES ASSUME NEW n \in Node, d.nodes[n] = "live", NEW x0 \in DOMAIN r, x0.event = Readiness(n)
             PROVE  /\ ~ k[n]
                    /\ u[n] => \A x, l \in DOMAIN r :
                          x.event = Readiness(n) /\ l.event.kind = "KarpenterConsolidationLoop" => x.after < l.after
    BY DEF Newcomers, Events
<1>3. CASE x0 \notin DOMAIN p
    BY <1>3 DEF p
<1>4. CASE x0 \in DOMAIN p
    <2>1. PICK f0 \in DOMAIN queue : x0 = Sooner(f0, e)
        BY <1>1, <1>4
    <2>2. f0.event = Readiness(n) /\ Readiness(n) \in Events(queue)
        BY <2>1 DEF Sooner, Events
    <2>3. Readiness(n).kind = "NodeReady" /\ Readiness(n).node = n
        BY DEF Readiness
    <2>4. state.nodes[n] # "fresh"
        BY <2>2, <2>3 DEF IInv, QueueSound, EventSound
    <2>5. Readiness(n) # e.event
        <3>1. Readiness(n) \in Events(p)
            BY <1>4 DEF Events
        <3> QED BY <1>2, <2>3, <3>1 DEF Single
    <2>6. /\ state.nodes[n] = "live"
          /\ u[n] => ready[n]
          /\ k[n] => cordoned[n]
        BY <2>2, <2>4, <2>5
    <2>7. /\ ~ cordoned[n]
          /\ ready[n] => \A x, l \in DOMAIN queue :
                x.event = Readiness(n) /\ l.event.kind = "KarpenterConsolidationLoop" => x.after < l.after
        BY <2>2, <2>6 DEF Newcomers
    <2>8. ASSUME u[n], NEW x \in DOMAIN r, NEW l \in DOMAIN r, x.event = Readiness(n),
                 l.event.kind = "KarpenterConsolidationLoop"
          PROVE  x.after < l.after
        <3>1. x \in DOMAIN p
            BY <2>4, <2>8 DEF p
        <3>2. PICK f \in DOMAIN queue : x = Sooner(f, e)
            BY <1>1, <3>1
        <3>3. f.event = Readiness(n)
            BY <2>8, <3>2 DEF Sooner
        <3>4. l \in DOMAIN p
            <4> SUFFICES ASSUME l \notin DOMAIN p PROVE FALSE
                OBVIOUS
            <4>1. e.event.kind = "KarpenterConsolidationLoop"
                BY <2>8 DEF p
            <4>2. f.after < e.after
                BY <1>1, <2>6, <2>7, <2>8, <3>3, <4>1
            <4>3. e.after <= f.after /\ e.after \in Int /\ f.after \in Int
                BY <1>1 DEF Punctual, Timed
            <4> QED BY <4>2, <4>3
        <3>5. PICK g \in DOMAIN queue : l = Sooner(g, e)
            BY <1>1, <3>4
        <3>6. g.event.kind = "KarpenterConsolidationLoop"
            BY <2>8, <3>5 DEF Sooner
        <3>7. f.after < g.after
            BY <2>6, <2>7, <2>8, <3>3, <3>6
        <3>8. f.after \in Int /\ g.after \in Int /\ e.after \in Int
            BY <1>1 DEF Punctual, Timed
        <3> QED BY <3>2, <3>5, <3>7, <3>8 DEF Sooner
    <2> QED BY <2>6, <2>7, <2>8
<1> QED BY <1>3, <1>4

\* An event that is not the consolidation loop leaves the loop on the queue.
LEMMA LoopStays ==
    ASSUME Punctual(queue), ConsolidationLoop \in Events(queue), NEW e \in Earliest(queue),
           e.event # ConsolidationLoop, NEW r, DOMAIN Pop(queue, e) \subseteq DOMAIN r
    PROVE  ConsolidationLoop \in Events(r)
<1>1. PICK f \in DOMAIN queue : f.event = ConsolidationLoop
    BY DEF Events
<1>2. Sooner(f, e) \in DOMAIN r
    BY <1>1, PunctualPop
<1>3. Sooner(f, e).event = ConsolidationLoop
    BY <1>1 DEF Sooner
<1> QED BY <1>2, <1>3 DEF Events

\* The events of Simulation keep the invariant.
LEMMA SimulatesKeeps ==
    ASSUME DInv, NEW e \in Earliest(queue), Simulates(e), IInv', Tallied',
           ready' \in [Node -> BOOLEAN], current_interval' = current_interval
    PROVE  DInv'
<1> DEFINE p == Pop(queue, e)
<1>1. /\ Punctual(queue') /\ DOMAIN p \subseteq DOMAIN queue'
      /\ \A x \in DOMAIN queue' \ DOMAIN p : x.event.kind \in SimKinds
    BY DEF Simulates, Added
<1>2. /\ e.event.kind \in SimKinds /\ cordoned' = cordoned
      /\ \A n \in Node : state.nodes[n] # "fresh" => state'.nodes[n] = state.nodes[n]
      /\ \A n \in Node : cordoned[n] /\ state.nodes[n] = "live" =>
            state'.podsOn[n] \subseteq state.podsOn[n] \cup Daemon
      /\ \A n \in Node : cordoned[n] => state.nodes[n] = "live"
    BY DEF Simulates, DInv
<1>3. \A ev : ev.kind \in SimKinds => ev # ConsolidationLoop /\ ev.kind # "KarpenterConsolidationLoop"
                                 /\ ev.kind \notin PlanKinds
    BY DEF SimKinds, ConsolidationLoop, PlanKinds
<1>4. ConsolidationLoop \in Events(queue')
    BY <1>1, <1>2, <1>3, LoopStays DEF DInv
<1>5. \A n \in Node : cordoned'[n] => state'.nodes[n] = "live"
    BY <1>2
<1>6. Planned(state', cordoned', queue')
    <2>1. \A x \in DOMAIN queue' \ DOMAIN p : Meant(state', cordoned', queue', x)
        BY <1>1, <1>3 DEF Meant
    <2>2. e.event.kind # "NodeDrained"
        BY <1>2 DEF SimKinds
    <2> HIDE DEF p
    <2>3. Punctual(queue) /\ Planned(state, cordoned, queue)
        BY DEF DInv
    <2> QED BY <1>1, <1>2, <2>1, <2>2, <2>3, PlannedStill DEF p
<1>7. ASSUME Startup # 0 PROVE Newcomers(state', ready', cordoned', queue')
    <2>1. ASSUME NEW x \in DOMAIN queue' \ DOMAIN p
          PROVE  /\ x.event.kind # "KarpenterConsolidationLoop"
                 /\ \A n \in Node : x.event = Readiness(n) =>
                       state.nodes[n] = "fresh" /\ ~ ready'[n] /\ ~ cordoned'[n]
        <3>1. x.event.kind # "KarpenterConsolidationLoop"
            BY <1>1, <1>3, <2>1
        <3>2. ASSUME NEW n \in Node, x.event = Readiness(n)
              PROVE  state.nodes[n] = "fresh" /\ ~ ready'[n] /\ ~ cordoned'[n]
            <4>1. x.event.kind = "NodeReady" /\ x.event.node = n
                BY <3>2 DEF Readiness
            <4>2. PICK m \in Node : /\ x.event = Readiness(m) /\ state.nodes[m] = "fresh"
                                    /\ Startup # 0 => ~ ready'[m]
                BY <2>1, <4>1 DEF Simulates
            <4>3. m = n
                BY <3>2, <4>1, <4>2 DEF Readiness
            <4> QED BY <1>2, <1>7, <4>2, <4>3
        <3> QED BY <3>1, <3>2
    <2>2. \A n \in Node : state'.nodes[n] = "live" /\ state.nodes[n] # "fresh" =>
               /\ state.nodes[n] = "live"
               /\ Readiness(n) # e.event => ready'[n] = ready[n] /\ cordoned'[n] = cordoned[n]
        BY <1>2 DEF Simulates
    <2>3. IInv /\ Punctual(queue) /\ Newcomers(state, ready, cordoned, queue)
        BY <1>7 DEF DInv
    <2> HIDE DEF p
    <2> QED BY <1>1, <2>1, <2>2, <2>3, NewcomersStill DEF p
<1>8. cordoned' \in [Node -> BOOLEAN] /\ current_interval' \in ConsolidationInterval..MaxInterval
    BY <1>2 DEF DInv
<1> QED BY <1>1, <1>4, <1>5, <1>6, <1>7, <1>8 DEF DInv

\* The events of Simulation.
LEMMA SimulatedStep ==
    ASSUME DInv, Next, current_interval' = current_interval
    PROVE  DInv' /\ \E e \in Earliest(queue) : Simulates(e)
<1>0. IInv /\ Punctual(queue) /\ Tallied /\ ready \in [Node -> BOOLEAN]
    BY DEF DInv
<1>1. IInv'
    BY <1>0, StepInv
<1>2. ready' \in [Node -> BOOLEAN] /\ Tallied' /\ \E e \in Earliest(queue) : Simulates(e)
    <2>1. CASE PodSubmitted
        <3>1. UNCHANGED <<ready, inflight, launched>>
            BY <2>1 DEF PodSubmitted
        <3> QED BY <1>0, <2>1, <3>1, SubmittedSimulates DEF Tallied
    <2>2. CASE PodCompleted
        <3>1. UNCHANGED <<ready, inflight, launched>>
            BY <2>2 DEF PodCompleted
        <3> QED BY <1>0, <2>2, <3>1, CompletedSimulates DEF Tallied
    <2>3. CASE PodResizeByOwner
        <3>1. UNCHANGED <<ready, inflight, launched>>
            BY <2>3 DEF PodResizeByOwner
        <3> QED BY <1>0, <2>3, <3>1, ResizeSimulates DEF Tallied
    <2>4. CASE NodeLaunching
        <3>1. UNCHANGED <<inflight, launched>> /\ \E n : ready' = [ready EXCEPT ![n] = (Startup = 0)]
            BY <2>4 DEF NodeLaunching
        <3>2. ready' \in [Node -> BOOLEAN]
            BY <1>0, <3>1
        <3> QED BY <1>0, <2>4, <3>1, <3>2, LaunchingSimulates DEF Tallied
    <2>5. CASE NodeReady
        <3>1. \E n : ready' = [ready EXCEPT ![n] = LiveNode(state, n)]
            BY <2>5 DEF NodeReady
        <3>2. ready' \in [Node -> BOOLEAN]
            BY <1>0, <3>1 DEF LiveNode
        <3> QED BY <1>0, <2>5, <3>2, ReadySimulates
    <2>6. CASE KarpenterProvisioningLoop
        <3>1. ready' = ready
            BY <2>6 DEF KarpenterProvisioningLoop
        <3> QED BY <1>0, <2>6, <3>1, LoopSimulates
    <2>7. queue # EmptyBag
        <3> DEFINE none == EmptyBag
        <3>1. Events(none) = {}
            BY NoEvents
        <3> HIDE DEF none
        <3>2. queue # none
            BY <3>1 DEF DInv
        <3> QED BY <3>2 DEF none
    <2> QED BY <2>1, <2>2, <2>3, <2>4, <2>5, <2>6, <2>7 DEF Next, Finished
<1>3. PICK e \in Earliest(queue) : Simulates(e)
    BY <1>2
<1>4. DInv'
    BY <1>1, <1>2, <1>3, SimulatesKeeps
<1> QED BY <1>3, <1>4

\* The backoff stays between its base and its cap.
LEMMA BackoffBounds ==
    ASSUME current_interval \in ConsolidationInterval..MaxInterval
    PROVE  /\ BackedOff \in ConsolidationInterval..MaxInterval
           /\ ConsolidationInterval \in ConsolidationInterval..MaxInterval
           /\ ConsolidationInterval..MaxInterval \subseteq Nat
<1>1. /\ ConsolidationInterval \in Nat /\ MaxInterval \in Nat /\ current_interval \in Int
      /\ ConsolidationInterval <= MaxInterval
      /\ ConsolidationInterval <= current_interval /\ current_interval <= MaxInterval
    BY DisruptionAssumption
<1> DEFINE twice == 2 * current_interval
<1>2. twice \in Int /\ MaxInterval \in Int /\ ConsolidationInterval <= twice
    BY <1>1
<1>3. BackedOff = Min({twice, MaxInterval})
    BY DEF BackedOff
<1> HIDE DEF twice
<1>4. BackedOff \in {twice, MaxInterval} /\ BackedOff \in Int /\ BackedOff <= MaxInterval
    BY <1>2, <1>3, MinOfTwo
<1>5. BackedOff \in ConsolidationInterval..MaxInterval
    BY <1>1, <1>2, <1>4
<1> QED BY <1>1, <1>5

\* The node of an action was up.
LEMMA ActionNode ==
    ASSUME NEW a \in Action
    PROVE  a.node \in Node /\ state.nodes[a.node] = "live" /\ ready[a.node]
BY DEF Action, Disruptable, Candidates, Up, LiveNode

\* The consolidation loop schedules itself again and, unless it skips, the events of a
\* plan; it touches the cluster only to cordon nodes.
LEMMA ConsolidationSchedules ==
    ASSUME DInv, KarpenterConsolidationLoop
    PROVE  \E e \in Earliest(queue), actions \in Seq(Action) :
              /\ e.event.kind = "KarpenterConsolidationLoop"
              /\ state' = state /\ ready' = ready /\ Tallied'
              /\ cordoned' = [n \in Node |-> cordoned[n] \/ n \in NodesOf(actions)]
              /\ current_interval' \in ConsolidationInterval..MaxInterval
              /\ Scheduling(state, cordoned', Pop(queue, e), queue')
              /\ ConsolidationLoop \in Events(queue')
<1>1. PICK e \in Due("KarpenterConsolidationLoop") :
        /\ \/ ConsolidationSkips(e)
           \/ \E actions \in Plans : ConsolidationActs(e, actions)
        /\ UNCHANGED <<state, ready, inflight, launched>>
    BY DEF KarpenterConsolidationLoop
<1> DEFINE r == Pop(queue, e)
<1>2. /\ e.event.kind = "KarpenterConsolidationLoop" /\ e \in Earliest(queue)
      /\ Punctual(r)
    BY DueLeaves DEF DInv
<1>3. e \in DOMAIN queue /\ QueueSound(state, r)
    BY <1>2, QueueTaken DEF Earliest, DInv, IInv
<1> HIDE DEF r
<1>5. ASSUME NEW t \in Nat, NEW k, NEW q, Scheduling(state, k, r, q), queue' = q (+) At(t, ConsolidationLoop)
      PROVE  Scheduling(state, k, r, queue') /\ ConsolidationLoop \in Events(queue')
    <2> DEFINE b == At(t, ConsolidationLoop)
    <2>1. Punctual(b) /\ DOMAIN b = {[after |-> t, event |-> ConsolidationLoop]}
        BY PunctualOne
    <2>2. Fit(state, k, b)
        BY <2>1 DEF Fit, Planned, Meant, PlanKinds, EventSound, Single, ConsolidationLoop
    <2> HIDE DEF b
    <2>3. Scheduling(state, k, r, queue')
        BY <1>5, <2>2, SchedulingMore DEF b
    <2>4. Punctual(q)
        BY <1>5 DEF Scheduling
    <2>5. DOMAIN queue' = DOMAIN q \cup DOMAIN b
        BY <1>5, <2>1, <2>4, PunctualSum DEF b
    <2>6. [after |-> t, event |-> ConsolidationLoop] \in DOMAIN queue'
        BY <2>1, <2>5
    <2> QED BY <2>3, <2>6 DEF Events
<1>6. /\ current_interval \in ConsolidationInterval..MaxInterval
      /\ cordoned \in [Node -> BOOLEAN]
      /\ BackedOff \in ConsolidationInterval..MaxInterval /\ BackedOff \in Nat
      /\ ConsolidationInterval \in ConsolidationInterval..MaxInterval /\ ConsolidationInterval \in Nat
    BY BackoffBounds DEF DInv
<1>7. Tallied' /\ e.event.kind = "KarpenterConsolidationLoop"
    <2>1. Tallied'
        BY <1>1 DEF DInv, Tallied
    <2> QED BY <1>2, <2>1
<1>8. CASE ConsolidationSkips(e)
    <2> DEFINE none == <<>>
    <2>1. /\ cordoned' = cordoned /\ current_interval' = BackedOff
          /\ queue' = r (+) At(BackedOff, ConsolidationLoop)
        BY <1>8 DEF ConsolidationSkips, r
    <2>2. Scheduling(state, cordoned', r, r)
        BY <1>2, <1>3, SchedulingSelf
    <2>3. Scheduling(state, cordoned', r, queue') /\ ConsolidationLoop \in Events(queue')
        BY <1>5, <1>6, <2>1, <2>2
    <2>4. none \in Seq(Action) /\ NodesOf(none) = {}
        BY DEF NodesOf
    <2>5. cordoned' = [n \in Node |-> cordoned[n] \/ n \in NodesOf(none)]
        BY <1>6, <2>1, <2>4
    <2> HIDE DEF none
    <2> QED BY <1>1, <1>2, <1>6, <1>7, <2>1, <2>3, <2>4, <2>5 DEF r
<1>9. CASE \E actions \in Plans : ConsolidationActs(e, actions)
    <2>1. PICK actions \in Plans : ConsolidationActs(e, actions)
        BY <1>9
    <2> DEFINE d == FoldLeft(LAMBDA q, i : q (+) FollowUps(actions[i], Turn(i)), r,
                             [i \in DOMAIN actions |-> i])
    <2>2. actions \in Seq(Action)
        BY PlansAre
    <2>3. /\ cordoned' = [n \in Node |-> cordoned[n] \/ n \in NodesOf(actions)]
          /\ current_interval' \in {BackedOff, ConsolidationInterval}
          /\ queue' = d (+) At(current_interval', ConsolidationLoop)
        BY <2>1 DEF ConsolidationActs, Schedules, r
    <2>4. \A i \in DOMAIN actions : cordoned'[actions[i].node]
        <3> SUFFICES ASSUME NEW i \in DOMAIN actions PROVE cordoned'[actions[i].node]
            OBVIOUS
        <3>1. actions[i] \in Action
            BY <2>2
        <3>2. actions[i].node \in Node
            BY <3>1, ActionNode
        <3> QED BY <2>3, <3>2 DEF NodesOf
    <2>5. Scheduling(state, cordoned', r, d)
        BY <1>2, <1>3, <2>2, <2>4, SchedulesQueue
    <2> HIDE DEF d
    <2>6. current_interval' \in Nat /\ current_interval' \in ConsolidationInterval..MaxInterval
        BY <1>6, <2>3
    <2>7. Scheduling(state, cordoned', r, queue') /\ ConsolidationLoop \in Events(queue')
        BY <1>5, <2>3, <2>5, <2>6
    <2> QED BY <1>1, <1>2, <1>7, <2>2, <2>3, <2>6, <2>7 DEF r
<1> QED BY <1>1, <1>8, <1>9

\* Consolidation itself keeps the invariant: it cordons nodes that are live and whose NodeReady
\* is through, and the events it schedules mean what they are to find.
LEMMA ConsolidationStep ==
    ASSUME DInv, KarpenterConsolidationLoop
    PROVE  DInv' /\ state' = state
<1>1. PICK e \in Earliest(queue), actions \in Seq(Action) :
              /\ e.event.kind = "KarpenterConsolidationLoop"
              /\ state' = state /\ ready' = ready /\ Tallied'
              /\ cordoned' = [n \in Node |-> cordoned[n] \/ n \in NodesOf(actions)]
              /\ current_interval' \in ConsolidationInterval..MaxInterval
              /\ Scheduling(state, cordoned', Pop(queue, e), queue')
              /\ ConsolidationLoop \in Events(queue')
    BY ConsolidationSchedules
<1> DEFINE p == Pop(queue, e)
           N == NodesOf(actions)
<1>0. /\ IInv /\ Punctual(queue) /\ Planned(state, cordoned, queue)
      /\ ready \in [Node -> BOOLEAN] /\ cordoned \in [Node -> BOOLEAN]
      /\ \A n \in Node : cordoned[n] => state.nodes[n] = "live"
      /\ Startup # 0 => Newcomers(state, ready, cordoned, queue)
    BY DEF DInv
<1>2. /\ Punctual(queue') /\ Extends(state, p, queue') /\ DOMAIN p \subseteq DOMAIN queue'
      /\ \A x \in DOMAIN queue' \ DOMAIN p : Meant(state, cordoned', queue', x) /\ ~ Single(x.event)
    BY <1>1 DEF Scheduling
<1>3. \A n \in N : n \in Node /\ state.nodes[n] = "live" /\ ready[n]
    <2> SUFFICES ASSUME NEW i \in DOMAIN actions
                 PROVE  LET n == actions[i].node IN n \in Node /\ state.nodes[n] = "live" /\ ready[n]
        BY DEF NodesOf
    <2>1. actions[i] \in Action
        OBVIOUS
    <2> QED BY <2>1, ActionNode
<1>4. e \in DOMAIN queue /\ \A f \in DOMAIN queue : e.after <= f.after
    BY DEF Earliest
<1> HIDE DEF p, N
<1>5. IInv'
    <2>1. Handles(state, state', e.event)
        BY <1>0, <1>1 DEF Handles, IInv
    <2>2. e.event.kind # "NodeReady"
        BY <1>1
    <2> QED BY <1>0, <1>1, <1>2, <1>4, <2>1, <2>2, HandledInv DEF p
<1>6. /\ cordoned' \in [Node -> BOOLEAN]
      /\ \A n \in Node : cordoned'[n] <=> cordoned[n] \/ n \in N
    BY <1>0, <1>1 DEF N
<1>7. \A n \in Node : cordoned'[n] => state'.nodes[n] = "live"
    BY <1>0, <1>1, <1>3, <1>6
<1>8. Planned(state', cordoned', queue')
    <2>1. \A x \in DOMAIN queue' \ DOMAIN Pop(queue, e) : Meant(state', cordoned', queue', x)
        BY <1>1, <1>2 DEF p
    <2>2. e.event.kind # "NodeDrained"
        BY <1>1
    <2>3. DOMAIN Pop(queue, e) \subseteq DOMAIN queue'
        BY <1>2 DEF p
    <2>4. \A n \in Node : state.nodes[n] # "fresh" =>
               \/ state'.nodes[n] = "gone"
               \/ /\ state'.nodes[n] = state.nodes[n]
                  /\ cordoned[n] /\ state.nodes[n] = "live" =>
                        cordoned'[n] /\ state'.podsOn[n] \subseteq state.podsOn[n] \cup Daemon
        BY <1>1, <1>6
    <2> QED BY <1>0, <2>1, <2>2, <2>3, <2>4, PlannedStill
<1>9. ASSUME Startup # 0 PROVE Newcomers(state', ready', cordoned', queue')
    <2>1. Newcomers(state, ready, cordoned, queue)
        BY <1>0, <1>9
    <2>2. ASSUME NEW n \in Node, state.nodes[n] = "live", Readiness(n) \in Events(queue)
          PROVE  n \notin N
        <3> SUFFICES ASSUME n \in N PROVE FALSE
            OBVIOUS
        <3>1. PICK x \in DOMAIN queue : x.event = Readiness(n)
            BY <2>2 DEF Events
        <3>2. ready[n]
            BY <1>3
        <3>3. x.after < e.after
            BY <1>1, <1>4, <2>1, <2>2, <3>1, <3>2 DEF Newcomers
        <3>4. e.after <= x.after /\ e.after \in Int /\ x.after \in Int
            BY <1>0, <1>4 DEF Punctual, Timed
        <3> QED BY <3>3, <3>4
    <2>3. ASSUME NEW x \in DOMAIN queue' \ DOMAIN p, NEW n \in Node PROVE x.event # Readiness(n)
        <3>1. ~ Single(x.event)
            BY <1>2, <2>3
        <3>2. Single(Readiness(n))
            BY DEF Single, Readiness
        <3> QED BY <3>1, <3>2
    <2>4. \A n \in Node : state'.nodes[n] = "live" /\ state.nodes[n] # "fresh" =>
               /\ state.nodes[n] = "live"
               /\ Readiness(n) \in Events(queue) /\ Readiness(n) # e.event =>
                     /\ ready'[n] => ready[n]
                     /\ cordoned'[n] => cordoned[n]
        BY <1>1, <1>6, <2>2
    <2>5. \A x \in DOMAIN queue' \ DOMAIN Pop(queue, e) :
               /\ x.event.kind = "KarpenterConsolidationLoop"
                     => e.event.kind = "KarpenterConsolidationLoop"
               /\ \A n \in Node : x.event = Readiness(n) =>
                     state.nodes[n] = "fresh" /\ ~ ready'[n] /\ ~ cordoned'[n]
        BY <1>1, <2>3 DEF p
    <2>6. DOMAIN Pop(queue, e) \subseteq DOMAIN queue'
        BY <1>2 DEF p
    <2> QED BY <1>0, <2>1, <2>4, <2>5, <2>6, NewcomersStill
<1> QED BY <1>0, <1>1, <1>2, <1>5, <1>6, <1>7, <1>8, <1>9 DEF DInv

-----------------------------------------------------------------------------
(***************************************************************************)
(* The events of a plan.                                                   *)
(***************************************************************************)
\* A steady cluster stays so when submitted pods are drained.
LEMMA DrainSteady ==
    ASSUME NEW c, Steady(c), NEW S \in SUBSET Work, NEW order \in SetToSeqs(S),
           NEW d, d = FoldLeft(EvictPod, c, order)
    PROVE  Steady(d) /\ EvictedFrom(c, d, S)
<1>0. S \subseteq Pod /\ IsFiniteSet(S) /\ Work \in SUBSET Pod /\ S \cap Daemon = {} /\ Daemon \subseteq Pod
    BY WorkRanked, FS_Subset, SimulationAssumption DEF Work
<1>1. order \in Seq(S) /\ QueueSet(order) = S
    BY <1>0, OrderOf
<1>2. order \in Seq(Pod)
    BY <1>0, <1>1, SeqMonotonic
<1>3. Kept(c, d) /\ EvictedFrom(c, d, S)
    BY <1>1, <1>2, EvictAllKept DEF Steady
<1>4. Fitting(d, Work)
    <2> SUFFICES ASSUME NEW n \in Node, d.nodes[n] = "live"
                 PROVE  Sum(d.requests, d.podsOn[n] \cap Work) <= d.allocatable[n]
        BY DEF Fitting
    <2>1. /\ c.nodes[n] = "live" /\ d.podsOn[n] = c.podsOn[n] \ S
          /\ d.allocatable[n] = c.allocatable[n] /\ d.requests = c.requests
        BY <1>3 DEF EvictedFrom, SameFrame
    <2> QED BY <1>0, <2>1, FittingPart DEF Steady
<1>5. DaemonsRun(d)
    BY <1>0, <1>3 DEF DaemonsRun, EvictedFrom, SameFrame, Steady
<1> QED BY <1>3, <1>4, <1>5 DEF Steady, Kept

\* A steady cluster stays so when a node goes.
LEMMA RemoveSteady ==
    ASSUME NEW c, Steady(c), NEW n \in Node, NEW d, d = RemoveNode(c, n)
    PROVE  Steady(d)
<1>0. Work \in SUBSET Pod
    BY DEF Work
<1>1. Kept(c, d)
    BY RemoveNodeKept DEF Steady
<1>2. /\ d.nodes[n] # "live"
      /\ \A m \in Node \ {n} : /\ d.podsOn[m] = c.podsOn[m] /\ d.nodes[m] = c.nodes[m]
                               /\ d.allocatable[m] = c.allocatable[m]
      /\ d.pods = c.pods /\ d.phase = c.phase /\ d.requests = c.requests
    BY RemoveNodeEffect DEF Steady, Sound, LiveNode
<1>3. Fitting(d, Work)
    <2> SUFFICES ASSUME NEW m \in Node, d.nodes[m] = "live"
                 PROVE  Sum(d.requests, d.podsOn[m] \cap Work) <= d.allocatable[m]
        BY DEF Fitting
    <2>1. m \in Node \ {n}
        BY <1>2
    <2> QED BY <1>0, <1>2, <2>1, FittingPart DEF Steady
<1>4. DaemonsRun(d)
    BY <1>2 DEF Steady, DaemonsRun, Is, LivePod
<1> QED BY <1>1, <1>3, <1>4 DEF Steady, Kept

\* An event that readies no node, adds none and cordons none keeps the plans.
LEMMA ChangedKeeps ==
    ASSUME DInv, IInv', NEW e \in Earliest(queue), e.event.kind # "KarpenterConsolidationLoop",
           Punctual(queue'), DOMAIN Pop(queue, e) \subseteq DOMAIN queue',
           \A x \in DOMAIN queue' \ DOMAIN Pop(queue, e) :
               x.event.kind \notin PlanKinds \cup {"NodeReady", "KarpenterConsolidationLoop"},
           ready' \in [Node -> BOOLEAN], cordoned' \in [Node -> BOOLEAN],
           Tallied', current_interval' = current_interval,
           \A n \in Node :
               /\ \/ state'.nodes[n] = state.nodes[n]
                  \/ (state.nodes[n] = "live" /\ state'.nodes[n] = "gone")
               /\ state'.nodes[n] = "live" =>
                     /\ ready'[n] = ready[n] /\ cordoned'[n] = cordoned[n]
                     /\ state'.podsOn[n] \subseteq state.podsOn[n]
               /\ state'.nodes[n] # "live" => ~ cordoned'[n],
           e.event.kind = "NodeDrained" /\ state'.nodes[e.event.node] = "live"
               => state'.podsOn[e.event.node] \subseteq Daemon
    PROVE  DInv'
<1>0. /\ IInv /\ Punctual(queue) /\ Planned(state, cordoned, queue)
      /\ ConsolidationLoop \in Events(queue)
      /\ Startup # 0 => Newcomers(state, ready, cordoned, queue)
    BY DEF DInv
<1>1. ConsolidationLoop \in Events(queue')
    <2>1. e.event # ConsolidationLoop
        BY DEF ConsolidationLoop
    <2> QED BY <1>0, <2>1, LoopStays
<1>2. Planned(state', cordoned', queue')
    <2>1. \A x \in DOMAIN queue' \ DOMAIN Pop(queue, e) : Meant(state', cordoned', queue', x)
        BY DEF Meant
    <2>2. \A n \in Node : state.nodes[n] # "fresh" =>
               \/ state'.nodes[n] = "gone"
               \/ /\ state'.nodes[n] = state.nodes[n]
                  /\ cordoned[n] /\ state.nodes[n] = "live" =>
                        cordoned'[n] /\ state'.podsOn[n] \subseteq state.podsOn[n] \cup Daemon
        OBVIOUS
    <2> QED BY <1>0, <2>1, <2>2, PlannedStill
<1>3. ASSUME Startup # 0 PROVE Newcomers(state', ready', cordoned', queue')
    <2>1. \A x \in DOMAIN queue' \ DOMAIN Pop(queue, e) :
               /\ x.event.kind = "KarpenterConsolidationLoop"
                     => e.event.kind = "KarpenterConsolidationLoop"
               /\ \A n \in Node : x.event = Readiness(n) =>
                     state.nodes[n] = "fresh" /\ ~ ready'[n] /\ ~ cordoned'[n]
        BY DEF Readiness
    <2>2. \A n \in Node : state'.nodes[n] = "live" /\ state.nodes[n] # "fresh" =>
               /\ state.nodes[n] = "live"
               /\ Readiness(n) \in Events(queue) /\ Readiness(n) # e.event =>
                     /\ ready'[n] => ready[n]
                     /\ cordoned'[n] => cordoned[n]
        OBVIOUS
    <2> QED BY <1>0, <1>3, <2>1, <2>2, NewcomersStill
<1>4. \A n \in Node : cordoned'[n] => state'.nodes[n] = "live"
    OBVIOUS
<1> QED BY <1>1, <1>2, <1>3, <1>4 DEF DInv

\* The event of a plan that is due next is what the plan meant.
LEMMA DueMeant ==
    ASSUME DInv, NEW kind \in PlanKinds, NEW e \in Due(kind)
    PROVE  /\ e \in Earliest(queue) /\ e \in DOMAIN queue /\ e.event.kind = kind
           /\ Punctual(Pop(queue, e))
           /\ e.event.node \in Node
           /\ state.nodes[e.event.node] = "live" =>
                 /\ cordoned[e.event.node]
                 /\ kind = "NodeDrained" => state.podsOn[e.event.node] \cap Protected = {}
                 /\ kind = "NodeTerminated" => state.podsOn[e.event.node] \subseteq Daemon
<1>1. e \in Earliest(queue) /\ e.event.kind = kind /\ Punctual(Pop(queue, e))
    BY DueLeaves DEF DInv
<1>2. e \in DOMAIN queue /\ \A f \in DOMAIN queue : e.after <= f.after
    BY <1>1 DEF Earliest
<1>3. Meant(state, cordoned, queue, e)
    BY <1>2 DEF DInv, Planned
<1>4. \A f \in DOMAIN queue : ~ (f.after < e.after)
    <2>1. \A f \in DOMAIN queue : f.after \in Int
        BY DEF DInv, Punctual, Timed
    <2> QED BY <1>2, <2>1
<1> QED BY <1>1, <1>2, <1>3, <1>4 DEF Meant

\* A node that is to be cordoned is cordoned already, or gone.
LEMMA CordonedStep ==
    ASSUME DInv, NodeCordoned
    PROVE  DInv' /\ state' = state
<1>1. PICK e \in Due("NodeCordoned") :
        /\ cordoned' = [cordoned EXCEPT ![e.event.node] = LiveNode(state, e.event.node)]
        /\ queue' = Pop(queue, e)
        /\ UNCHANGED <<state, ready, inflight, launched, handler>>
    BY DEF NodeCordoned
<1>2. /\ e \in Earliest(queue) /\ e \in DOMAIN queue /\ e.event.kind = "NodeCordoned"
      /\ Punctual(queue') /\ e.event.node \in Node
      /\ state.nodes[e.event.node] = "live" => cordoned[e.event.node]
    BY <1>1, DueMeant DEF PlanKinds
<1>3. cordoned' = cordoned
    BY <1>1, <1>2 DEF DInv, LiveNode
<1>4. IInv'
    <2>1. IInv
        BY DEF DInv
    <2>2. Handles(state, state', e.event)
        BY <1>1, <2>1 DEF Handles, IInv
    <2>3. QueueSound(state', queue')
        BY <1>1, <1>2, <2>1, <2>2, HandledLeft
    <2>4. Extends(state', Pop(queue, e), queue')
        BY <1>1, <2>3 DEF Extends
    <2> QED BY <1>2, <2>1, <2>2, <2>4, HandledInv
<1>5. Tallied' /\ current_interval' = current_interval
    BY <1>1 DEF handler, DInv, Tallied
<1>6. DInv'
    <2>1. /\ cordoned \in [Node -> BOOLEAN] /\ ready \in [Node -> BOOLEAN]
          /\ \A n \in Node : cordoned[n] => state.nodes[n] = "live"
        BY DEF DInv
    <2> QED BY <1>1, <1>2, <1>3, <1>4, <1>5, <2>1, ChangedKeeps
<1> QED BY <1>1, <1>6

\* A drain takes the running submitted pods off its node, no other and no protected one.
LEMMA DrainedStep ==
    ASSUME DInv, NodeDrained
    PROVE  /\ DInv' /\ state'.nodes = state.nodes /\ state'.pods = state.pods
           /\ \A n \in Node : state.nodes[n] = "live" => state'.podsOn[n] \subseteq state.podsOn[n]
           /\ \A p \in Protected : state'.phase[p] = state.phase[p]
           /\ \A p \in Evicted : cordoned[state.node[p]]
<1>1. PICK e \in Due("NodeDrained") :
        /\ Drain(e.event.node)
        /\ queue' = Pop(queue, e) (+) AfterDrain(e.event.node)
        /\ UNCHANGED <<ready, cordoned, inflight, launched, handler>>
    BY DEF NodeDrained
<1> DEFINE n == e.event.node
           S == DrainedPods(n)
           r == Pop(queue, e)
           none == EmptyBag
<1>2. /\ e \in Earliest(queue) /\ e \in DOMAIN queue /\ e.event.kind = "NodeDrained"
      /\ Punctual(r) /\ n \in Node
      /\ state.nodes[n] = "live" => cordoned[n] /\ state.podsOn[n] \cap Protected = {}
    BY DueMeant DEF PlanKinds
<1>0. IInv /\ Steady(state) /\ state \in ClusterType /\ LinksAgree(state)
    BY DEF DInv, IInv, Steady, Sound
<1>3. PICK order \in SetToSeqs(S) : state' = FoldLeft(EvictPod, state, order)
    BY <1>1 DEF Drain
<1>4. S \in SUBSET Work
    BY <1>0, <1>2 DEF DrainedPods, ClusterType, Work
<1>5. Steady(state') /\ EvictedFrom(state, state', S)
    <2> DEFINE d == FoldLeft(EvictPod, state, order)
    <2> HIDE DEF S
    <2>1. Steady(d) /\ EvictedFrom(state, d, S)
        BY <1>0, <1>4, DrainSteady
    <2> HIDE DEF d
    <2>2. state' = d
        BY <1>3 DEF S, d
    <2> QED BY <2>1, <2>2, Zenon
<1>6. /\ queue' = r (+) none \/ queue' = r (+) At(1, ProvisioningLoop)
    BY <1>1 DEF AfterDrain
<1>7. /\ ready' = ready /\ cordoned' = cordoned /\ inflight' = inflight /\ launched' = launched
      /\ current_interval' = current_interval
    BY <1>1 DEF handler
<1>8. \A p \in S : /\ state.nodes[n] = "live" /\ p \in state.podsOn[n] /\ state.node[p] = n
    BY <1>0, <1>2, <1>4 DEF DrainedPods, LiveNode, LinksAgree, Work
<1>9. state.nodes[n] = "live" => state.podsOn[n] \ S \subseteq Daemon
    BY <1>0, <1>2 DEF DrainedPods, LiveNode, LinksAgree, ClusterType
<1> HIDE DEF S, r, none
<1>10. /\ state'.nodes = state.nodes /\ state'.pods = state.pods
       /\ \A m \in Node : state.nodes[m] = "live" => state'.podsOn[m] = state.podsOn[m] \ S
       /\ \A q \in Pod : q \notin S => state'.phase[q] = state.phase[q]
    BY <1>5 DEF EvictedFrom, SameFrame
<1>11. Handles(state, state', e.event)
    <2>1. \A m \in Node : state.nodes[m] = "live"
              => state'.podsOn[m] \cap Daemon = state.podsOn[m] \cap Daemon
        BY <1>4, <1>10 DEF Work
    <2> QED BY <1>5, <1>10, <2>1 DEF Handles
<1>12. QueueSound(state', r)
    BY <1>0, <1>2, <1>11, HandledLeft DEF r
<1>13. Extends(state', r, queue')
    <2>1. CASE queue' = r (+) At(1, ProvisioningLoop)
        BY <1>12, <2>1, LoopQueued
    <2>2. CASE queue' = r (+) none
        BY <1>12, <2>2, NothingQueued DEF none
    <2> QED BY <1>6, <2>1, <2>2
<1>14. IInv'
    BY <1>0, <1>2, <1>11, <1>13, HandledInv DEF r
<1> DEFINE K == {"KarpenterProvisioningLoop"}
<1>15. Added(r, queue', K)
    <2>1. CASE queue' = r (+) At(1, ProvisioningLoop)
        <3>1. ProvisioningLoop.kind \in K
            BY DEF ProvisioningLoop
        <3> HIDE DEF K
        <3> QED BY <1>2, <2>1, <3>1, AddedOne
    <2>2. CASE queue' = r (+) none
        <3>1. Punctual(none) /\ \A x \in DOMAIN none : x.event.kind \in K
            BY PunctualNone DEF none
        <3> HIDE DEF K
        <3> QED BY <1>2, <2>2, <3>1, AddedBag
    <2> QED BY <1>6, <2>1, <2>2
<1>16. DInv'
    <2>1. /\ cordoned \in [Node -> BOOLEAN] /\ ready \in [Node -> BOOLEAN]
          /\ \A m \in Node : cordoned[m] => state.nodes[m] = "live"
          /\ Tallied'
        BY <1>7 DEF DInv, Tallied
    <2>2. /\ Punctual(queue') /\ DOMAIN Pop(queue, e) \subseteq DOMAIN queue'
          /\ \A x \in DOMAIN queue' \ DOMAIN Pop(queue, e) :
                x.event.kind \notin PlanKinds \cup {"NodeReady", "KarpenterConsolidationLoop"}
        BY <1>15 DEF Added, r, PlanKinds
    <2>3. state'.nodes[n] = "live" => state'.podsOn[n] \subseteq Daemon
        BY <1>2, <1>9, <1>10
    <2> QED BY <1>2, <1>7, <1>10, <1>14, <2>1, <2>2, <2>3, ChangedKeeps
<1>17. \A p \in Protected : state'.phase[p] = state.phase[p]
    <2>1. \A p \in Protected : p \in Pod /\ p \notin S
        BY <1>2, <1>8, DisruptionAssumption DEF Work
    <2> QED BY <1>10, <2>1
<1>18. \A p \in Evicted : cordoned[state.node[p]]
    BY <1>2, <1>8, <1>10 DEF Evicted, Is
<1> QED BY <1>10, <1>16, <1>17, <1>18

\* A node goes when nothing but its daemonset pod is on it.
LEMMA TerminatedStep ==
    ASSUME DInv, NodeTerminated
    PROVE  /\ DInv' /\ state'.phase = state.phase
           /\ \A n \in Node : state'.nodes[n] = "live" => state'.podsOn[n] \subseteq state.podsOn[n]
           /\ \A n \in Removed : state.podsOn[n] \subseteq Daemon
           /\ \A n \in Node : cordoned[n] => state'.podsOn[n] \subseteq state.podsOn[n]
<1>1. PICK e \in Due("NodeTerminated") :
        LET n == e.event.node
        IN  /\ state' = RemoveNode(state, n)
            /\ ready' = [ready EXCEPT ![n] = FALSE]
            /\ cordoned' = [cordoned EXCEPT ![n] = FALSE]
            /\ queue' = Pop(queue, e)
            /\ UNCHANGED <<inflight, launched, handler>>
    BY DEF NodeTerminated
<1> DEFINE n == e.event.node
<1>2. /\ e \in Earliest(queue) /\ e \in DOMAIN queue /\ e.event.kind = "NodeTerminated"
      /\ Punctual(queue') /\ n \in Node
      /\ state.nodes[n] = "live" => cordoned[n] /\ state.podsOn[n] \subseteq Daemon
    BY <1>1, DueMeant DEF PlanKinds
<1>0. IInv /\ Steady(state) /\ state \in ClusterType
    BY DEF DInv, IInv, Steady, Sound
<1> HIDE DEF n
<1>3. /\ state' = RemoveNode(state, n)
      /\ ready' = [ready EXCEPT ![n] = FALSE] /\ cordoned' = [cordoned EXCEPT ![n] = FALSE]
      /\ queue' = Pop(queue, e)
      /\ inflight' = inflight /\ launched' = launched /\ current_interval' = current_interval
    BY <1>1 DEF n, handler
<1>4. /\ Steady(state')
      /\ state'.nodes[n] = IF state.nodes[n] = "live" THEN "gone" ELSE state.nodes[n]
      /\ \A m \in Node \ {n} : state'.podsOn[m] = state.podsOn[m] /\ state'.nodes[m] = state.nodes[m]
      /\ state'.pods = state.pods /\ state'.phase = state.phase
    BY <1>0, <1>2, <1>3, RemoveSteady, RemoveNodeEffect DEF LiveNode
<1>5. IInv'
    <2>1. /\ QueueSound(state, queue') /\ Events(queue') \subseteq Events(queue)
          /\ \A ev \in Events(queue) : Single(ev) /\ ev # e.event => ev \in Events(queue')
        BY <1>0, <1>2, <1>3, QueueTaken DEF IInv
    <2>2. QueueSound(state', queue')
        BY <1>2, <1>4, <2>1, QueueCarried
    <2>3. ASSUME DaemonSize # 0 PROVE DaemonsOn(state', Events(queue'))
        <3> SUFFICES ASSUME NEW m \in Node, state'.nodes[m] = "live"
                     PROVE  IF Readiness(m) \in Events(queue') THEN state'.podsOn[m] \cap Daemon = {}
                            ELSE Cardinality(state'.podsOn[m] \cap Daemon) = 1
            BY DEF DaemonsOn
        <3>1. m # n /\ state.nodes[m] = "live" /\ state'.podsOn[m] = state.podsOn[m]
            BY <1>4
        <3>2. Readiness(m) # e.event /\ Single(Readiness(m))
            BY <1>2 DEF Readiness, Single
        <3>3. Readiness(m) \in Events(queue') <=> Readiness(m) \in Events(queue)
            BY <2>1, <3>2
        <3> QED BY <1>0, <2>3, <3>1, <3>3 DEF IInv, DaemonsOn
    <2> QED BY <1>4, <2>2, <2>3 DEF IInv
<1>6. DInv'
    <2>1. /\ cordoned \in [Node -> BOOLEAN] /\ ready \in [Node -> BOOLEAN]
          /\ \A m \in Node : cordoned[m] => state.nodes[m] = "live"
          /\ Tallied'
        BY <1>3 DEF DInv, Tallied
    <2>2. cordoned' \in [Node -> BOOLEAN] /\ ready' \in [Node -> BOOLEAN]
        BY <1>3, <2>1
    <2>3. \A m \in Node :
               /\ \/ state'.nodes[m] = state.nodes[m]
                  \/ (state.nodes[m] = "live" /\ state'.nodes[m] = "gone")
               /\ state'.nodes[m] = "live" =>
                     /\ ready'[m] = ready[m] /\ cordoned'[m] = cordoned[m]
                     /\ state'.podsOn[m] \subseteq state.podsOn[m]
               /\ state'.nodes[m] # "live" => ~ cordoned'[m]
        BY <1>2, <1>3, <1>4, <2>1
    <2> QED BY <1>2, <1>3, <1>5, <2>1, <2>2, <2>3, ChangedKeeps
<1>7. \A m \in Node : state'.nodes[m] = "live" => state'.podsOn[m] \subseteq state.podsOn[m]
    BY <1>4
<1>8. \A m \in Removed : state.podsOn[m] \subseteq Daemon
    BY <1>2, <1>4 DEF Removed, LiveNode
<1>9. \A m \in Node : cordoned[m] => state'.podsOn[m] \subseteq state.podsOn[m]
    <2> SUFFICES ASSUME cordoned[n], state.nodes[n] = "live" PROVE state'.podsOn[n] = {}
        BY <1>2, <1>4 DEF DInv
    <2> QED BY <1>0, <1>2, <1>3 DEF RemoveNode, LiveNode, ClusterType
<1> QED BY <1>4, <1>6, <1>7, <1>8, <1>9

-----------------------------------------------------------------------------
(***************************************************************************)
(* The theorems of Disruption.                                             *)
(***************************************************************************)
\* The events of a run's start are not overdue, and those that are no more than Simulation
\* starts with are of these kinds; the initial nodes are ready at once.
LEMMA InitialPunctual ==
    ASSUME NEW more, InitWith(more), Punctual(more)
    PROVE  /\ Punctual(queue) /\ DOMAIN more \subseteq DOMAIN queue
           /\ \A e \in DOMAIN queue \ DOMAIN more :
                 /\ e.event.kind \in SimKinds
                 /\ e.event.kind = "NodeReady" => e.after = 0
<1> DEFINE Submitted(time) == {[after |-> time[p], event |-> [kind |-> "PodSubmitted", pod |-> p]] : p \in Work}
           Readied == {[after |-> 0, event |-> [kind |-> "NodeReady", node |-> n]] : n \in InitialNodes}
           Resized == {[after |-> x.after, event |-> [kind |-> "PodResizeByOwner",
                                        owner |-> x.owner, size |-> x.size]] : x \in Resizes}
<1>1. PICK time \in [Work -> UNION {SubmitTimes[p] : p \in Work}] :
          /\ \A p \in Work : time[p] \in SubmitTimes[p]
          /\ queue = SetToBag(Submitted(time) \cup Readied \cup Resized)
                     (+) At(1, ProvisioningLoop) (+) more
    BY DEF InitWith
<1> DEFINE All == Submitted(time) \cup Readied \cup Resized
           q == SetToBag(All)
           loop == At(1, ProvisioningLoop)
           first == q (+) loop
<1>2. \A p \in Work : time[p] \in Nat
    BY <1>1, SimulationAssumption DEF Work
<1>3. \A e \in All : /\ e = [after |-> e.after, event |-> e.event] /\ e.after \in Nat
                     /\ e.event.kind \in SimKinds
                     /\ e.event.kind = "NodeReady" => e.after = 0
    <2> SUFFICES ASSUME NEW e \in All
                 PROVE  /\ e = [after |-> e.after, event |-> e.event] /\ e.after \in Nat
                        /\ e.event.kind \in SimKinds
                        /\ e.event.kind = "NodeReady" => e.after = 0
        OBVIOUS
    <2>1. CASE e \in Submitted(time)
        BY <1>2, <2>1 DEF SimKinds
    <2>2. CASE e \in Readied
        BY <2>2 DEF SimKinds
    <2>3. CASE e \in Resized
        BY <2>3, SimulationAssumption DEF SimKinds
    <2> QED BY <2>1, <2>2, <2>3
<1>4. queue = first (+) more
    BY <1>1
<1> HIDE DEF All
<1>5. Punctual(q) /\ DOMAIN q = All
    BY <1>3 DEF Punctual, Timed, SetToBag, IsABag
<1>6. Punctual(loop) /\ DOMAIN loop = {[after |-> 1, event |-> ProvisioningLoop]}
    BY PunctualOne
<1>7. ProvisioningLoop.kind = "KarpenterProvisioningLoop"
    BY DEF ProvisioningLoop
<1> HIDE DEF q, loop
<1>8. Punctual(first) /\ DOMAIN first = DOMAIN q \cup DOMAIN loop
    BY <1>5, <1>6, PunctualSum
<1> HIDE DEF first
<1>9. Punctual(queue) /\ DOMAIN queue = DOMAIN first \cup DOMAIN more
    BY <1>4, <1>8, PunctualSum
<1>10. \A e \in DOMAIN first : /\ e.event.kind \in SimKinds
                               /\ e.event.kind = "NodeReady" => e.after = 0
    BY <1>3, <1>5, <1>6, <1>7, <1>8 DEF SimKinds
<1> QED BY <1>9, <1>10

\* A run starts with no node cordoned and nothing planned.
LEMMA InitPlans ==
    ASSUME NEW more, InitWith(more), ConsolidationInit, Punctual(more),
           \A c : QueueSound(c, more),
           ConsolidationLoop \in Events(more),
           \A e \in DOMAIN more :
               /\ ~ Single(e.event) /\ e.event.kind \notin PlanKinds
               /\ e.event.kind = "KarpenterConsolidationLoop" => e.after >= 1
    PROVE  DInv
<1>1. /\ Punctual(queue) /\ DOMAIN more \subseteq DOMAIN queue
      /\ \A e \in DOMAIN queue \ DOMAIN more :
            /\ e.event.kind \in SimKinds
            /\ e.event.kind = "NodeReady" => e.after = 0
    BY InitialPunctual
<1>2. \A ev \in Events(more) : ~ Single(ev)
    BY DEF Events
<1>3. IInv
    <2>1. /\ Steady(state) /\ QueueSound(state, queue)
          /\ \A n \in Node : state.nodes[n] = "live" => n \in InitialNodes
          /\ \A n \in Node : state.podsOn[n] = {}
          /\ \A n \in InitialNodes : Readiness(n) \in Events(queue)
        BY <1>2, InitialCluster, InitialQueue
    <2>2. DaemonsOn(state, Events(queue))
        BY <2>1 DEF DaemonsOn
    <2> QED BY <2>1, <2>2 DEF IInv
<1>4. ConsolidationLoop \in Events(queue)
    BY <1>1 DEF Events
<1>5. /\ Tallied /\ ready \in [Node -> BOOLEAN] /\ cordoned \in [Node -> BOOLEAN]
      /\ \A n \in Node : ~ cordoned[n]
    BY DEF InitWith, Tallied
<1>6. current_interval \in ConsolidationInterval..MaxInterval
    BY DisruptionAssumption DEF ConsolidationInit
<1>7. Planned(state, cordoned, queue)
    BY <1>1 DEF Planned, Meant, SimKinds, PlanKinds
<1>8. Newcomers(state, ready, cordoned, queue)
    <2> SUFFICES ASSUME NEW n \in Node, NEW x \in DOMAIN queue, x.event = Readiness(n),
                        NEW l \in DOMAIN queue, l.event.kind = "KarpenterConsolidationLoop"
                 PROVE  x.after < l.after
        BY <1>5 DEF Newcomers
    <2>1. x.event.kind = "NodeReady" /\ Single(x.event)
        BY DEF Readiness, Single
    <2>2. x.after = 0
        BY <1>1, <2>1
    <2>3. l \in DOMAIN more /\ l.after >= 1
        BY <1>1 DEF SimKinds
    <2>4. l.after \in Int
        BY <1>1 DEF Punctual, Timed
    <2> QED BY <2>2, <2>3, <2>4
<1> QED BY <1>1, <1>3, <1>4, <1>5, <1>6, <1>7, <1>8 DEF DInv

\* What single events beside the workload's a run may start with.
LEMMA LoneEvent ==
    ASSUME NEW t \in Nat, NEW ev, ev \in {ConsolidationLoop, [kind |-> "MetricsSnapshot"]}
    PROVE  /\ Punctual(At(t, ev)) /\ DOMAIN At(t, ev) = {[after |-> t, event |-> ev]}
           /\ ~ Single(ev) /\ ev.kind \notin PlanKinds
           /\ \A c : QueueSound(c, At(t, ev))
<1>1. /\ ev.kind \in {"KarpenterConsolidationLoop", "MetricsSnapshot"}
      /\ ev = ConsolidationLoop \/ ev.kind # "KarpenterConsolidationLoop"
    BY DEF ConsolidationLoop
<1>2. ~ Single(ev) /\ ev.kind \notin PlanKinds /\ \A c : EventSound(c, ev)
    BY <1>1 DEF Single, EventSound, PlanKinds
<1>3. \A c : QueueSound(c, At(t, ev))
    BY <1>2, QueueOfOne
<1> QED BY <1>2, <1>3, PunctualOne

\* So does a run with consolidation.
LEMMA DisruptionInitPlans == DisruptionInit => DInv
<1> SUFFICES ASSUME DisruptionInit PROVE DInv
    OBVIOUS
<1> DEFINE more == At(1, ConsolidationLoop)
<1>1. InitWith(more) /\ ConsolidationInit
    BY DEF DisruptionInit
<1>2. /\ Punctual(more) /\ DOMAIN more = {[after |-> 1, event |-> ConsolidationLoop]}
      /\ ~ Single(ConsolidationLoop) /\ ConsolidationLoop.kind \notin PlanKinds
      /\ \A c : QueueSound(c, more)
    BY LoneEvent
<1> HIDE DEF more
<1>3. /\ ConsolidationLoop \in Events(more)
      /\ \A e \in DOMAIN more : e.event = ConsolidationLoop /\ e.after = 1
    BY <1>2 DEF Events
<1> QED BY <1>1, <1>2, <1>3, InitPlans

\* Every event of a run that consolidates keeps what the handlers count on.
LEMMA DisruptionStep ==
    ASSUME DInv, [DisruptionNext]_allVars
    PROVE  DInv'
<1>1. CASE Simulated
    BY <1>1, SimulatedStep DEF Simulated, handler
<1>2. CASE KarpenterConsolidationLoop
    BY <1>2, ConsolidationStep
<1>3. CASE NodeCordoned
    BY <1>3, CordonedStep
<1>4. CASE NodeDrained
    BY <1>4, DrainedStep
<1>5. CASE NodeTerminated
    BY <1>5, TerminatedStep
<1>6. CASE UNCHANGED allVars
    BY <1>6 DEF allVars, vars, handler, DInv, IInv, Tallied
<1> QED BY <1>1, <1>2, <1>3, <1>4, <1>5, <1>6 DEF DisruptionNext

\* Between any two events of a run that consolidates the plans on the queue still hold, and
\* with them everything Simulation's handlers count on.
THEOREM DisruptionInvariant == DisruptionSpec => []DInv
<1>1. DInv /\ [DisruptionNext]_allVars => DInv'
    BY DisruptionStep
<1> QED BY DisruptionInitPlans, <1>1, PTL DEF DisruptionSpec

\* In such a state the books balance, no pending pod is lost and no node is overfull.
LEMMA PlansBalance == DInv => BooksBalance /\ PendingQueued /\ WorkFits
<1> SUFFICES ASSUME DInv PROVE BooksBalance /\ PendingQueued /\ WorkFits
    OBVIOUS
<1>1. IInv
    BY DEF DInv
<1>2. BooksBalance /\ PendingQueued
    BY <1>1 DEF IInv, Steady, Sound, BooksBalance, Queued, PendingQueued, Pending
<1>3. ASSUME NEW n \in Node, LiveNode(state, n)
      PROVE  Sum(state.requests, state.podsOn[n] \cap Work) <= state.allocatable[n]
    BY <1>1, <1>3 DEF IInv, Steady, Fitting, LiveNode
<1>4. WorkFits
    BY <1>3 DEF WorkFits, Sum, MapThenSumSet, MapThenFoldSet
<1> QED BY <1>2, <1>4

\* The books balance, no pending pod is lost and no node is overfull with consolidation too.
THEOREM DisruptionSound == DisruptionSpec => [](BooksBalance /\ PendingQueued /\ WorkFits)
BY DisruptionInvariant, PlansBalance, PTL

\* A node that is removed runs nothing but its daemonset pod: every plan's drain comes before
\* its termination, and nothing is bound to a cordoned node in between.
THEOREM DrainedBeforeGoneCorrect == DisruptionSpec => DrainedBeforeGone
<1>1. ASSUME DInv, [DisruptionNext]_allVars
      PROVE  [\A n \in Removed : state.podsOn[n] \subseteq Daemon]_allVars
    <2>1. CASE Simulated
        <3>1. PICK e \in Earliest(queue) : Simulates(e)
            BY <1>1, <2>1, SimulatedStep DEF Simulated, handler
        <3>2. \A n \in Node : state.nodes[n] = "live" => state'.nodes[n] = "live"
            BY <3>1 DEF Simulates
        <3> QED BY <3>2 DEF Removed, LiveNode
    <2>2. CASE state'.nodes = state.nodes
        BY <2>2 DEF Removed, LiveNode
    <2>3. CASE NodeTerminated
        BY <1>1, <2>3, TerminatedStep
    <2>4. KarpenterConsolidationLoop \/ NodeCordoned => state' = state
        BY <1>1, ConsolidationStep, CordonedStep
    <2>5. NodeDrained => state'.nodes = state.nodes
        BY <1>1, DrainedStep
    <2> QED BY <1>1, <2>1, <2>2, <2>3, <2>4, <2>5 DEF DisruptionNext
<1> QED BY DisruptionInvariant, <1>1, PTL DEF DisruptionSpec, DrainedBeforeGone

\* A drain takes no pod with do_not_disrupt, though only the plan looked for them, one or
\* more stabilization times ago.
THEOREM ProtectedStayCorrect == DisruptionSpec => ProtectedStay
<1>1. ASSUME DInv, [DisruptionNext]_allVars
      PROVE  [NodeDrained => \A p \in Protected : state'.phase[p] = state.phase[p]]_allVars
    BY <1>1, DrainedStep
<1> QED BY DisruptionInvariant, <1>1, PTL DEF DisruptionSpec, ProtectedStay

\* A cordoned node gets no new pod until it is gone, if nodes take time to start or there is
\* no daemonset: with both, a node that is up at once may be cordoned before its NodeReady
\* brings the daemonset pod.
THEOREM NothingNewCorrect ==
    Startup # 0 \/ DaemonSize = 0 => (DisruptionSpec => NothingNewOnCordoned)
<1> SUFFICES ASSUME Startup # 0 \/ DaemonSize = 0
             PROVE  DisruptionSpec => NothingNewOnCordoned
    OBVIOUS
<1>1. ASSUME DInv, [DisruptionNext]_allVars
      PROVE  [\A n \in Node : cordoned[n] => state'.podsOn[n] \subseteq state.podsOn[n]]_allVars
    <2>0. \A n \in Node : cordoned[n] => state.nodes[n] = "live"
        BY <1>1 DEF DInv
    <2>1. CASE Simulated
        <3>1. PICK e \in Earliest(queue) : Simulates(e)
            BY <1>1, <2>1, SimulatedStep DEF Simulated, handler
        <3> SUFFICES ASSUME NEW n \in Node, cordoned[n]
                     PROVE  state'.podsOn[n] \subseteq state.podsOn[n]
            OBVIOUS
        <3>2. state'.podsOn[n] \subseteq state.podsOn[n]
                  \cup (IF e.event = Readiness(n) /\ DaemonSize # 0 THEN Daemon ELSE {})
            BY <2>0, <3>1 DEF Simulates
        <3>3. ASSUME e.event = Readiness(n) PROVE DaemonSize = 0
            <4>1. Readiness(n) \in Events(queue)
                BY <3>3 DEF Events, Earliest
            <4>2. Startup # 0 => ~ cordoned[n]
                BY <1>1, <2>0, <4>1 DEF DInv, Newcomers
            <4> QED BY <4>2
        <3> QED BY <3>2, <3>3
    <2>2. CASE state' = state
        BY <2>2
    <2>3. CASE NodeTerminated
        BY <1>1, <2>3, TerminatedStep
    <2>4. CASE NodeDrained
        BY <1>1, <2>0, <2>4, DrainedStep
    <2>5. KarpenterConsolidationLoop \/ NodeCordoned => state' = state
        BY <1>1, ConsolidationStep, CordonedStep
    <2> QED BY <1>1, <2>1, <2>2, <2>3, <2>4, <2>5 DEF DisruptionNext
<1> QED BY DisruptionInvariant, <1>1, PTL DEF DisruptionSpec, NothingNewOnCordoned

-----------------------------------------------------------------------------
\* A hash is a number.
LEMMA HashType ==
    ASSUME state \in ClusterType
    PROVE  StateHash \in Nat
<1> DEFINE q == <<Cardinality(LiveNodes), Cardinality({p \in Pod : LivePod(state, p)}),
                  Len(state.pending_queue),
                  1000 * MapThenSumSet(LAMBDA n : state.allocated[n], LiveNodes),
                  Cardinality({n \in LiveNodes : cordoned[n]})>>
           n == Len(q)
           Eqn(g) == g = [t \in SUBSET (1..n) |->
                             IF t = {} THEN 0 ELSE 31 * g[t \ {Max(t)}] + q[Max(t)]]
           g == CHOOSE h : Eqn(h)
           step == [i \in 1..n |-> [a \in Nat |-> 31 * a + q[i]]]
<1>0. n = 5 /\ n \in Nat
    OBVIOUS
<1>1. StateHash = g[1..n]
    BY <1>0 DEF StateHash, FoldLeft, MapThenFoldSet
<1>2. \A i \in 1..n : q[i] \in Nat
    <2>1. IsFiniteSet(LiveNodes) /\ IsFiniteSet({m \in LiveNodes : cordoned[m]})
        <3>1. LiveNodes \in SUBSET Node /\ {m \in LiveNodes : cordoned[m]} \in SUBSET Node
            BY DEF LiveNodes
        <3> QED BY <3>1, DisruptionAssumption, FS_Subset
    <2>2. IsFiniteSet({p \in Pod : LivePod(state, p)})
        BY SimulationAssumption, FS_Subset
    <2>3. Sum(state.allocated, LiveNodes) \in Nat
        BY <2>1, SumNat DEF ClusterType, LiveNodes
    <2>4. MapThenSumSet(LAMBDA m : state.allocated[m], LiveNodes) \in Nat
        BY <2>3 DEF Sum
    <2>5. Len(state.pending_queue) \in Nat
        BY DEF ClusterType
    <2>6. /\ Cardinality(LiveNodes) \in Nat /\ Cardinality({m \in LiveNodes : cordoned[m]}) \in Nat
          /\ Cardinality({p \in Pod : LivePod(state, p)}) \in Nat
        BY <2>1, <2>2, FS_CardinalityType
    <2> QED BY <1>0, <2>4, <2>5, <2>6
<1> HIDE DEF q
<1>3. step \in [1..n -> [Nat -> Nat]]
    BY <1>2
<1>4. \A t \in SUBSET (1..n) : t # {} => Max(t) \in t
    BY <1>0, MaxOf
<1> HIDE DEF n, step
<1>5. \E h : Eqn(h)
    <2>1. PICK h : Solves(h, n, Nat, step, 0)
        BY <1>0, <1>3, FoldSolved
    <2>2. \A t \in SUBSET (1..n) :
              h[t] = IF t = {} THEN 0 ELSE 31 * h[t \ {Max(t)}] + q[Max(t)]
        BY <1>4, <2>1 DEF Solves, step
    <2>3. Eqn(h)
        BY <2>1, <2>2 DEF Solves
    <2> QED BY <2>3
<1>6. Eqn(g)
    BY <1>5
<1> HIDE DEF g
<1>7. Tracks(g, n, Nat, step, 0)
    BY <1>4, <1>6 DEF Tracks, step
<1>8. g[1..n] \in Nat
    BY <1>0, <1>3, <1>7, FoldTyped
<1> QED BY <1>1, <1>8

\* The handler of consolidation and the ages of the nodes beside what it counts on.
TInv ==
    /\ DInv
    /\ young \in [Node -> 0..ConsolidateAfter]
    /\ last_state_hash \in Nat

\* Nodes age until they are consolidate_after old.
LEMMA AgedType ==
    ASSUME TInv, Aged
    PROVE  young' \in [Node -> 0..ConsolidateAfter]
<1>1. Elapsed \in Nat
    <2>1. {e.after : e \in DOMAIN queue} \in SUBSET Nat
        BY DEF TInv, DInv, Punctual, Timed
    <2>2. {e.after : e \in DOMAIN queue} # {}
        BY DEF TInv, DInv, Events
    <2> QED BY <2>1, <2>2, MinNat DEF Elapsed
<1> HIDE DEF Elapsed
<1>2. ConsolidateAfter \in Nat
    BY DisruptionAssumption
<1>3. \A n \in Node : SatSub(young[n], Elapsed) \in 0..ConsolidateAfter
    <2> SUFFICES ASSUME NEW n \in Node PROVE SatSub(young[n], Elapsed) \in 0..ConsolidateAfter
        OBVIOUS
    <2>1. young[n] \in 0..ConsolidateAfter
        BY DEF TInv
    <2> QED BY <1>1, <1>2, <2>1 DEF SatSub
<1> QED BY <1>2, <1>3 DEF Aged

\* The types and the bounds of the backoff, in every reachable state.
THEOREM DisruptionTypeCorrect == DisruptionSpec => []DisruptionTypeOK
<1>1. DisruptionInit => TInv
    <2> SUFFICES ASSUME DisruptionInit PROVE TInv
        OBVIOUS
    <2>1. DInv
        BY DisruptionInitPlans
    <2>2. young \in [Node -> 0..ConsolidateAfter] /\ last_state_hash \in Nat
        BY DisruptionAssumption DEF DisruptionInit, ConsolidationInit
    <2> QED BY <2>1, <2>2 DEF TInv
<1>2. TInv /\ [DisruptionNext]_allVars => TInv'
    <2> SUFFICES ASSUME TInv, [DisruptionNext]_allVars PROVE TInv'
        OBVIOUS
    <2>1. DInv /\ DInv'
        BY DisruptionStep DEF TInv
    <2>2. young' \in [Node -> 0..ConsolidateAfter]
        <3>1. CASE UNCHANGED allVars
            BY <3>1 DEF TInv, allVars
        <3>2. CASE DisruptionNext
            <4>1. Aged
                BY <3>2 DEF DisruptionNext, Simulated, KarpenterConsolidationLoop, NodeCordoned,
                            NodeDrained, NodeTerminated
            <4> QED BY <4>1, AgedType
        <3> QED BY <3>1, <3>2
    <2>3. last_state_hash' \in {last_state_hash, StateHash, 0}
        <3>1. CASE UNCHANGED allVars
            BY <3>1 DEF allVars, handler
        <3>2. CASE DisruptionNext
            BY <3>2 DEF DisruptionNext, Simulated, KarpenterConsolidationLoop, NodeCordoned,
                        NodeDrained, NodeTerminated, ConsolidationSkips, ConsolidationActs,
                        Schedules, handler
        <3> QED BY <3>1, <3>2
    <2>4. StateHash \in Nat
        BY <2>1, HashType DEF DInv, IInv, Steady, Sound
    <2> QED BY <2>1, <2>2, <2>3, <2>4 DEF TInv
<1>3. TInv => DisruptionTypeOK
    BY DEF TInv, DInv, DisruptionTypeOK, TypeOK, Punctual, IInv, Steady, Sound, Tallied
<1> QED BY <1>1, <1>2, <1>3, PTL DEF DisruptionSpec

-----------------------------------------------------------------------------
(***************************************************************************)
(* The theorems of Stepping.                                               *)
(***************************************************************************)
\* What the windows, the notices and the collector count on beside it.
SInv ==
    /\ DInv
    /\ notices \in Nat
    /\ "disruption_count" \in DOMAIN collector /\ collector.disruption_count \in Nat

\* An episode starts like a run, with a snapshot to come.
LEMMA StepInitPlans == StepInit => SInv
<1> SUFFICES ASSUME StepInit PROVE SInv
    OBVIOUS
<1> DEFINE loop == At(1, ConsolidationLoop)
           snapshot == At(FirstSnapshot, Snapshots)
           more == loop (+) snapshot
<1>1. InitWith(more) /\ ConsolidationInit
    BY DEF StepInit
<1>2. /\ Punctual(loop) /\ DOMAIN loop = {[after |-> 1, event |-> ConsolidationLoop]}
      /\ ~ Single(ConsolidationLoop) /\ ConsolidationLoop.kind \notin PlanKinds
      /\ \A c : QueueSound(c, loop)
    BY LoneEvent
<1>3. /\ Punctual(snapshot) /\ DOMAIN snapshot = {[after |-> FirstSnapshot, event |-> Snapshots]}
      /\ ~ Single(Snapshots) /\ Snapshots.kind \notin PlanKinds
      /\ \A c : EventSound(c, Snapshots)
    BY SteppingAssumption, LoneEvent DEF Snapshots, EventSound
<1>4. Snapshots.kind = "MetricsSnapshot"
    BY DEF Snapshots
<1>5. \A c : QueueSound(c, more)
    <2> SUFFICES ASSUME NEW c PROVE QueueSound(c, more)
        OBVIOUS
    <2>1. FirstSnapshot \in Int
        BY SteppingAssumption
    <2>2. Extends(c, loop, loop (+) At(FirstSnapshot, Snapshots))
        BY <1>2, <1>3, <2>1, OneQueued
    <2> QED BY <2>2 DEF Extends
<1> HIDE DEF loop, snapshot
<1>6. Punctual(more) /\ DOMAIN more = DOMAIN loop \cup DOMAIN snapshot
    BY <1>2, <1>3, PunctualSum
<1> HIDE DEF more
<1>7. /\ ConsolidationLoop \in Events(more)
      /\ \A e \in DOMAIN more : (e.event = ConsolidationLoop /\ e.after = 1) \/ e.event = Snapshots
    BY <1>2, <1>3, <1>6 DEF Events
<1>8. DInv
    BY <1>1, <1>2, <1>3, <1>4, <1>5, <1>6, <1>7, InitPlans
<1> QED BY <1>8 DEF SInv, StepInit, NewCollector

\* A snapshot leaves everything as it is and asks for the next one.
LEMMA SnapshotStep ==
    ASSUME DInv, MetricsSnapshot
    PROVE  DInv' /\ state' = state
<1>1. PICK e \in Due("MetricsSnapshot") :
        queue' = Pop(queue, e) (+) At(SnapshotInterval, Snapshots)
    BY DEF MetricsSnapshot
<1>2. UNCHANGED <<state, ready, cordoned, inflight, launched, handler>>
    BY DEF MetricsSnapshot
<1> DEFINE r == Pop(queue, e)
           b == At(SnapshotInterval, Snapshots)
<1>3. /\ e \in Earliest(queue) /\ e \in DOMAIN queue /\ e.event.kind = "MetricsSnapshot"
      /\ Punctual(r)
    BY <1>1, DueLeaves DEF DInv, Earliest
<1>4. Snapshots.kind = "MetricsSnapshot" /\ ~ Single(Snapshots) /\ \A c : EventSound(c, Snapshots)
    BY DEF Snapshots, Single, EventSound
<1>5. IInv
    BY DEF DInv
<1>6. Handles(state, state', e.event)
    BY <1>2, <1>5 DEF Handles, IInv
<1>7. QueueSound(state', r)
    BY <1>3, <1>5, <1>6, HandledLeft
<1> HIDE DEF r
<1>8. Extends(state', r, queue')
    BY <1>1, <1>4, <1>7, OneQueued, SteppingAssumption DEF r
<1>9. IInv'
    BY <1>3, <1>5, <1>6, <1>8, HandledInv DEF r
<1>10. Punctual(b) /\ DOMAIN b = {[after |-> SnapshotInterval, event |-> Snapshots]}
    BY PunctualOne, SteppingAssumption
<1>11. queue' = r (+) b
    BY <1>1 DEF r
<1> HIDE DEF b
<1>12. Punctual(queue') /\ DOMAIN queue' = DOMAIN r \cup DOMAIN b
    BY <1>3, <1>10, <1>11, PunctualSum
<1>13. DInv'
    <2>1. /\ cordoned \in [Node -> BOOLEAN] /\ ready \in [Node -> BOOLEAN]
          /\ \A m \in Node : cordoned[m] => state.nodes[m] = "live"
          /\ Tallied' /\ current_interval' = current_interval
        BY <1>2 DEF DInv, Tallied, handler
    <2>2. \A x \in DOMAIN queue' \ DOMAIN r :
             x.event.kind \notin PlanKinds \cup {"NodeReady", "KarpenterConsolidationLoop"}
        BY <1>4, <1>10, <1>12 DEF PlanKinds
    <2>3. DOMAIN Pop(queue, e) \subseteq DOMAIN queue' /\
          \A x \in DOMAIN queue' \ DOMAIN Pop(queue, e) :
             x.event.kind \notin PlanKinds \cup {"NodeReady", "KarpenterConsolidationLoop"}
        BY <1>12, <2>2 DEF r
    <2> QED BY <1>2, <1>3, <1>9, <1>12, <2>1, <2>3, ChangedKeeps
<1> QED BY <1>2, <1>13

\* Every step of an episode keeps it, and only a drain takes a running pod off a cordoned
\* node and back to pending.
LEMMA SteppingStep ==
    ASSUME SInv, [StepNext]_stepVars
    PROVE  /\ SInv'
           /\ Counted' = Counted + Cardinality({p \in Evicted : cordoned[state.node[p]]})
<1> DEFINE Off == {p \in Evicted : cordoned[state.node[p]]}
<1>0. DInv /\ notices \in Nat /\ "disruption_count" \in DOMAIN collector
      /\ collector.disruption_count \in Nat
    BY DEF SInv
<1>1. Cardinality({}) = 0
    BY FS_EmptySet
<1>2. ASSUME state'.phase = state.phase PROVE Off = {}
    BY <1>2 DEF Evicted, Is
<1>3. ASSUME DInv', Off = {}, notices' = notices, DOMAIN collector' = DOMAIN collector,
             collector'.disruption_count = collector.disruption_count
      PROVE  SInv' /\ Counted' = Counted + Cardinality(Off)
    BY <1>0, <1>1, <1>3 DEF SInv, Counted
<1>4. ASSUME UNCHANGED allVars PROVE DInv' /\ Off = {}
    <2>1. [DisruptionNext]_allVars /\ state' = state
        BY <1>4 DEF allVars, vars
    <2> QED BY <1>0, <1>2, <2>1, DisruptionStep
<1>5. CASE BeginStep \/ EndStep \/ Over \/ UNCHANGED stepVars
    <2>1. UNCHANGED allVars /\ notices' = notices /\ collector' = collector
        BY <1>5 DEF BeginStep, EndStep, Over, stepVars
    <2> QED BY <1>3, <1>4, <2>1
<1>6. CASE PodTerminating
    <2>1. /\ notices > 0 /\ notices' = notices - 1 /\ UNCHANGED allVars
          /\ collector' = [collector EXCEPT !.disruption_count = @ + 1,
                                            !.consolidation_evictions = @ + 1]
        BY <1>6 DEF PodTerminating, OnPodTerminating
    <2>2. /\ collector'.disruption_count = collector.disruption_count + 1
          /\ DOMAIN collector' = DOMAIN collector
        BY <1>0, <2>1
    <2>3. DInv' /\ Off = {}
        BY <1>4, <2>1
    <2>4. Cardinality(Off) = 0
        BY <1>1, <2>3
    <2> HIDE DEF Off
    <2>5. SInv'
        BY <1>0, <2>1, <2>2, <2>3 DEF SInv
    <2>6. Counted' = Counted + Cardinality(Off)
        BY <1>0, <2>1, <2>2, <2>4 DEF Counted
    <2> QED BY <2>5, <2>6 DEF Off
<1>7. CASE MetricsSnapshot
    <2>1. DInv' /\ state' = state
        BY <1>0, <1>7, SnapshotStep
    <2>2. /\ notices' = notices
          /\ \E s : collector' = [collector EXCEPT !.snapshots = s]
        BY <1>7 DEF MetricsSnapshot, OnMetricsSnapshot
    <2>3. /\ collector'.disruption_count = collector.disruption_count
          /\ DOMAIN collector' = DOMAIN collector
        BY <1>0, <2>2
    <2>4. Off = {}
        BY <1>2, <2>1
    <2> QED BY <1>3, <2>1, <2>2, <2>3, <2>4
<1>8. CASE OtherEvent /\ NodeDrained /\ notices' = notices + Cardinality(Notices)
           /\ UNCHANGED collector
    <2>1. /\ DInv' /\ state'.pods = state.pods
          /\ \A p \in Evicted : cordoned[state.node[p]]
        BY <1>0, <1>8, DrainedStep
    <2>2. Notices = Off
        BY <2>1 DEF Notices, Evicted, Is, LivePod
    <2>3. IsFiniteSet(Notices)
        BY SimulationAssumption, FS_Subset DEF Notices
    <2>4. Cardinality(Notices) \in Nat
        BY <2>3, FS_CardinalityType
    <2> HIDE DEF Off
    <2>5. SInv'
        BY <1>0, <1>8, <2>1, <2>4 DEF SInv
    <2>6. Counted' = Counted + Cardinality(Notices)
        BY <1>0, <1>8, <2>4 DEF Counted
    <2> QED BY <2>2, <2>5, <2>6 DEF Off
<1>9. CASE /\ Simulated \/ KarpenterConsolidationLoop \/ NodeCordoned \/ NodeTerminated
           /\ collector' = IF Submits THEN OnPodSubmitted(collector, state) ELSE collector
           /\ UNCHANGED notices
    <2>1. /\ collector'.disruption_count = collector.disruption_count
          /\ DOMAIN collector' = DOMAIN collector
        BY <1>0, <1>9 DEF OnPodSubmitted
    <2>2. DInv' /\ Off = {}
        <3>1. CASE Simulated
            <4>1. /\ DInv' /\ \E e \in Earliest(queue) : Simulates(e)
                BY <1>0, <3>1, SimulatedStep DEF Simulated, handler
            <4>2. \A v \in Pod : RunsOnCordoned(v) => state'.phase[v] # "Pending"
                BY <4>1 DEF Simulates
            <4>3. \A p \in Evicted : cordoned[state.node[p]] => RunsOnCordoned(p)
                <5> SUFFICES ASSUME NEW p \in Evicted, cordoned[state.node[p]]
                             PROVE  state.nodes[state.node[p]] = "live"
                    BY DEF RunsOnCordoned, Evicted
                <5>1. Steady(state) /\ p \in Pod /\ Is(state, p, "Running")
                    BY <1>0 DEF DInv, IInv, Evicted
                <5>2. state.node[p] \in Node
                    BY <5>1, RunningSomewhere
                <5> QED BY <1>0, <5>2 DEF DInv
            <4> QED BY <4>1, <4>2, <4>3 DEF Evicted
        <3>2. CASE KarpenterConsolidationLoop
            BY <1>0, <1>2, <3>2, ConsolidationStep
        <3>3. CASE NodeCordoned
            BY <1>0, <1>2, <3>3, CordonedStep
        <3>4. CASE NodeTerminated
            BY <1>0, <1>2, <3>4, TerminatedStep
        <3> QED BY <1>9, <3>1, <3>2, <3>3, <3>4
    <2> QED BY <1>3, <1>9, <2>1, <2>2
<1> QED BY <1>5, <1>6, <1>7, <1>8, <1>9 DEF StepNext, OtherEvent

\* Every pod that a drain takes off a cordoned node is counted or about to be, once, and
\* nothing else is in a step that preempts nobody, wherever the windows end and whatever
\* snapshots and passes come in between.
THEOREM DisruptionsAccountedCorrect == StepSpec => DisruptionsAccounted
<1>1. SInv /\ [StepNext]_stepVars => SInv'
    BY SteppingStep
<1>2. SInv /\ [StepNext]_stepVars =>
          [(\A p \in Evicted : cordoned[state.node[p]])
               => Counted' = Counted + Cardinality(Evicted)]_stepVars
    <2> SUFFICES ASSUME SInv, [StepNext]_stepVars, \A p \in Evicted : cordoned[state.node[p]]
                 PROVE  Counted' = Counted + Cardinality(Evicted)
        OBVIOUS
    <2>1. Evicted = {p \in Evicted : cordoned[state.node[p]]}
        OBVIOUS
    <2> QED BY <2>1, SteppingStep
<1> QED BY StepInitPlans, <1>1, <1>2, PTL DEF StepSpec, DisruptionsAccounted

\* What holds of a run that consolidates holds of an episode, taken window by window.
THEOREM SteppingSound == StepSpec => [](DInv /\ BooksBalance /\ PendingQueued /\ WorkFits)
<1>1. SInv /\ [StepNext]_stepVars => SInv'
    BY SteppingStep
<1>2. SInv => DInv /\ BooksBalance /\ PendingQueued /\ WorkFits
    BY PlansBalance DEF SInv
<1> QED BY StepInitPlans, <1>1, <1>2, PTL DEF StepSpec
=============================================================================

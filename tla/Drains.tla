------------------------------- MODULE Drains -------------------------------
(***************************************************************************)
(* The three ways in which nodes lose their pods and go, side by side:     *)
(* DriftHandler (kubesim-karpenter/src/drift.rs), DrainHandler             *)
(* (consolidation.rs) and SpotInterruptionHandler (spot.rs), under         *)
(* PodDisruptionBudgets, with SimHandler's and DaemonSetHandler's arms for *)
(* the node events.  Events are not timed: each comes at any moment, but   *)
(* for the orders that the delays of one handler fix.                      *)
(***************************************************************************)
EXTENDS Scheduler

CONSTANTS Size,          \* what the pods request
          Capacity,      \* what the nodes offer
          Daemon,        \* the ids kept for daemonset pods
          InitialNodes,  \* the nodes added before the run
          OtherType,     \* of these, the ones of a type that the pool no longer has
          OtherLabels,   \* and those without the labels that it has now
          HashBased,     \* VersionProfile.hash_based_drift
          Spot,          \* the nodes with a spot lifecycle
          Consolidated,  \* bound of the instance: the nodes a consolidation may pick
          Selected,      \* PodDisruptionBudget.selector: which pods each budget matches
          MinAvailable   \* PodDisruptionBudget.min_available

Budgets == DOMAIN Selected

ASSUME DrainsAssumption ==
    /\ \A d \in Daemon, p \in Pod \ Daemon : Priority[p] <= Priority[d]
    /\ Priority \in [Pod -> Int] /\ IsFiniteSet(Pod)
    /\ Size \in Nat \ {0} /\ Capacity \in Nat /\ Daemon \subseteq Pod
    /\ InitialNodes \subseteq Node /\ IsFiniteSet(InitialNodes) /\ OtherType \subseteq InitialNodes
    /\ OtherLabels \subseteq InitialNodes /\ HashBased \in BOOLEAN
    /\ Spot \subseteq Node /\ Consolidated \subseteq Node
    /\ Selected \in [Budgets -> SUBSET (Pod \ Daemon)] /\ MinAvailable \in [Budgets -> Nat]

VARIABLES state,     \* the cluster record
          ready,     \* Node.conditions.ready
          cordoned,  \* Node.cordoned
          draining,  \* DriftHandler.draining: the nodes, and whether their deadline is over
          events     \* the events on the engine's queue

vars == <<state, ready, cordoned, draining, events>>

Work == Pod \ Daemon
On(kind, n) == [kind |-> kind, node |-> n]
Loop == [kind |-> "KarpenterProvisioningLoop"]
ScanLoop == [kind |-> "KarpenterConsolidationLoop"]

LiveNodes == {n \in Node : LiveNode(state, n)}
Up(c, r) == {n \in Node : LiveNode(c, n) /\ r[n] /\ ~ cordoned[n]}

\* The cluster before the run: its nodes, then its pods one after the other.
InitialCluster ==
    [EmptyCluster EXCEPT
        !.nodes = [n \in Node |-> IF n \in InitialNodes THEN "live" ELSE "fresh"],
        !.allocatable = [n \in Node |-> IF n \in InitialNodes THEN Capacity ELSE 0]]

SubmitAll(c, pods) == FoldLeft(LAMBDA d, p : SubmitPod(d, p, Size), c, pods)

Init ==
    /\ \E order \in SetToSeqs(Work) : state = SubmitAll(InitialCluster, order)
    /\ ready = [n \in Node |-> n \in InitialNodes]
    /\ cordoned = [n \in Node |-> FALSE]
    /\ draining = [n \in Node |-> "no"]
    /\ events = {On("NodeReady", n) : n \in InitialNodes} \cup {Loop, ScanLoop}

-----------------------------------------------------------------------------
(***************************************************************************)
(* Disruption budgets.                                                     *)
(***************************************************************************)
\* count_available
Running(c, b) == Cardinality({p \in Selected[b] : Is(c, p, "Running")})

\* Mutant of Allows: one pod more must be there.
AllowsBeyond(c, p) == \A b \in Budgets : p \in Selected[b] => Running(c, b) > MinAvailable[b] + 1

\* pdb_allows_eviction, the same in drift.rs and consolidation.rs
Allows(c, p) == \A b \in Budgets : p \in Selected[b] => Running(c, b) > MinAvailable[b]

\* What s has of S, in its order.
InOrder(s, S) == FoldLeft(LAMBDA t, x : IF x \in S THEN Append(t, x) ELSE t, <<>>, s)

\* The orders in which the nodes of S may list their pods.
PodOrders(S) == SetToSeqs(UNION {state.podsOn[n] : n \in S})

EvictAll(c, pods) == FoldLeft(EvictPod, c, pods)

-----------------------------------------------------------------------------
(***************************************************************************)
(* DriftHandler.  A scan is [c, draining, out, cordon]: the cluster so     *)
(* far, its own list, the nodes removed and the nodes to cordon.           *)
(***************************************************************************)
Drifted(n) == n \in OtherType \/ (HashBased /\ n \in OtherLabels)

\* try_drain: what the budgets allow as things stand before the first eviction.
TryDrain(c, n, order) ==
    EvictAll(c, InOrder(order, {p \in c.podsOn[n] : Is(c, p, "Running") /\ Allows(c, p)}))

ForceDrain(c, n, order) == EvictAll(c, InOrder(order, c.podsOn[n]))

\* Mutant of Done: done when all that may go has gone.
DoneWhenStuck(c, n) == \A p \in c.podsOn[n] : ~ Allows(c, p)

Done(c, n) == c.podsOn[n] = {}

\* The outcome c of a drain: the node goes if it is empty, else it stays on the list.
Leaves(s, n, c) ==
    [s EXCEPT !.c = RemoveNode(c, n), !.draining[n] = "no", !.out = @ \cup {n}]
Stays(s, n, c) == [s EXCEPT !.c = c, !.draining[n] = IF @ = "no" THEN "draining" ELSE @]
After(s, n, c) == IF Done(c, n) THEN Leaves(s, n, c) ELSE Stays(s, n, c)

\* Mutant of Continue: the deadline is not looked at.
ContinuePatiently(s, n, order) ==
    IF ~ LiveNode(s.c, n) THEN [s EXCEPT !.draining[n] = "no"]
    ELSE After(s, n, TryDrain(s.c, n, order))

\* Phase 1, for a node on the list.
Continue(s, n, order) ==
    IF ~ LiveNode(s.c, n) THEN [s EXCEPT !.draining[n] = "no"]
    ELSE IF s.draining[n] = "expired" THEN Leaves(s, n, ForceDrain(s.c, n, order))
    ELSE After(s, n, TryDrain(s.c, n, order))

\* Phase 2, for a drifted node that is ready and not on the list.
Begin(s, n, order) ==
    LET begun == [s EXCEPT !.cordon = @ \cup {n}]
    IN  After(begun, n, TryDrain(s.c, n, order))

Found(s) == {n \in Node : LiveNode(s.c, n) /\ Drifted(n) /\ ready[n] /\ s.draining[n] = "no"}

\* Each phase takes its nodes one after the other.
ContinueAll(scan, nodes, order) == FoldLeft(LAMBDA s, n : Continue(s, n, order), scan, nodes)
BeginAll(scan, nodes, order) == FoldLeft(LAMBDA s, n : Begin(s, n, order), scan, nodes)

Scan(arena, order) ==
    LET start == [c |-> state, draining |-> draining, out |-> {}, cordon |-> {}]
        first == ContinueAll(start, InOrder(arena, {n \in Node : draining[n] # "no"}), order)
    IN  BeginAll(first, InOrder(arena, Found(first)), order)

\* KarpenterConsolidationLoop
DriftScan ==
    /\ ScanLoop \in events
    /\ \E arena \in SetToSeqs(InitialNodes), order \in PodOrders({n \in LiveNodes : Drifted(n)}) :
          \E s \in {Scan(arena, order)} :
              /\ state' = s.c
              /\ draining' = s.draining
              /\ events' = (events \ {ScanLoop})
                         \cup {On("NodeTerminated", n) : n \in s.out}
                         \cup {On("NodeCordoned", n) : n \in s.cordon}
                         \cup (IF s.out \cup s.cordon = {} THEN {} ELSE {Loop})
    /\ UNCHANGED <<ready, cordoned>>

\* scan_interval_ns later, when the loop that every scan schedules comes again.
ScanIntervalPasses ==
    /\ ScanLoop \notin events
    /\ events' = events \cup {ScanLoop}
    /\ UNCHANGED <<state, ready, cordoned, draining>>

\* drain_timeout_ns after a drain has begun.
DeadlinePasses(n) ==
    /\ draining[n] = "draining"
    /\ draining' = [draining EXCEPT ![n] = "expired"]
    /\ UNCHANGED <<state, ready, cordoned, events>>

-----------------------------------------------------------------------------
(***************************************************************************)
(* Consolidation: the plan cordons the node, a drain and a termination     *)
(* follow (Disruption has how the plan is made).                           *)
(***************************************************************************)
Consolidate(n) ==
    /\ n \in Consolidated \cap Up(state, ready)
    /\ cordoned' = [cordoned EXCEPT ![n] = TRUE]
    /\ events' = events \cup {On("NodeCordoned", n), On("NodeDrained", n)}
    /\ UNCHANGED <<state, ready, draining>>

\* Mutant of EvictOneByOne: the budgets are asked once for all.
EvictOneByOneAllowed(c, pods) == EvictAll(c, SelectSeq(pods, LAMBDA p : Allows(c, p)))

\* The budgets are asked again after every eviction.
EvictOneByOne(c, pods) ==
    FoldLeft(LAMBDA d, p : IF Is(d, p, "Running") /\ Allows(d, p) THEN EvictPod(d, p) ELSE d, c, pods)

\* DrainHandler leaves the daemonset pods.  The termination, due one nanosecond later,
\* is there from the plan on.
NodeDrained(n) ==
    /\ On("NodeDrained", n) \in events
    /\ \E order \in PodOrders({n}) :
          state' = EvictOneByOne(state, InOrder(order, state.podsOn[n] \ Daemon))
    /\ events' = (events \ {On("NodeDrained", n)}) \cup {On("NodeTerminated", n)}
                 \cup (IF LiveNode(state, n) /\ state'.pending_queue # <<>> THEN {Loop} ELSE {})
    /\ UNCHANGED <<ready, cordoned, draining>>

-----------------------------------------------------------------------------
\* SpotInterruptionHandler: the die says that the node goes.
SpotInterruptionCheck(n) ==
    /\ LiveNode(state, n) /\ n \in Spot /\ ready[n] /\ On("NodeReady", n) \notin events
    /\ events' = events \cup {On("SpotInterruption", n)}
    /\ UNCHANGED <<state, ready, cordoned, draining>>

\* The warning: all pods go at once, budgets or not.  The termination is due two minutes
\* after the check.
SpotInterruption(n) ==
    /\ On("SpotInterruption", n) \in events
    /\ \E order \in PodOrders({n}) : state' = ForceDrain(state, n, order)
    /\ ready' = [ready EXCEPT ![n] = FALSE]
    /\ events' = (events \ {On("SpotInterruption", n)}) \cup {On("NodeTerminated", n)}
    /\ UNCHANGED <<cordoned, draining>>

-----------------------------------------------------------------------------
\* SimHandler and DaemonSetHandler.
KarpenterProvisioningLoop ==
    /\ Loop \in events
    /\ state' \in SchedulePendingFrom(state, Up(state, ready), state.pending_queue)
    /\ events' = events \ {Loop}
    /\ UNCHANGED <<ready, cordoned, draining>>

NodeLaunching(n) ==
    /\ state.nodes[n] = "fresh" /\ state.pending_queue # <<>>
    /\ state' = AddNode(state, n, Capacity)
    /\ events' = events \cup {On("NodeReady", n)}
    /\ UNCHANGED <<ready, cordoned, draining>>

StartDaemon(c, n) ==
    LET p == CHOOSE q \in Daemon : c.pods[q] = "fresh"
    IN  IF Daemon = {} \/ ~ LiveNode(c, n) THEN c ELSE BindPod(SubmitPod(c, p, Size), p, n)

\* Daemon bounds how many nodes can become ready, as Node bounds how many are launched.
NodeReady(n) ==
    /\ On("NodeReady", n) \in events
    /\ Daemon = {} \/ \E q \in Daemon : state.pods[q] = "fresh"
    /\ ready' = [ready EXCEPT ![n] = LiveNode(state, n)]
    /\ \E c \in SchedulePendingFrom(state, Up(state, ready'), state.pending_queue) :
          /\ state' = StartDaemon(c, n)
          /\ events' = (events \ {On("NodeReady", n)}) \cup (IF c.pending_queue = <<>> THEN {} ELSE {Loop})
    /\ UNCHANGED <<cordoned, draining>>

NodeCordoned(n) ==
    /\ On("NodeCordoned", n) \in events
    /\ cordoned' = [cordoned EXCEPT ![n] = LiveNode(state, n)]
    /\ events' = events \ {On("NodeCordoned", n)}
    /\ UNCHANGED <<state, ready, draining>>

\* Both handlers call remove_node.
NodeTerminated(n) ==
    /\ On("NodeTerminated", n) \in events
    /\ state' = RemoveNode(state, n)
    /\ ready' = [ready EXCEPT ![n] = FALSE]
    /\ cordoned' = [cordoned EXCEPT ![n] = FALSE]
    /\ events' = events \ {On("NodeTerminated", n)}
    /\ UNCHANGED draining

Next ==
    \/ DriftScan \/ ScanIntervalPasses
    \/ KarpenterProvisioningLoop
    \/ \E n \in Node :
          \/ DeadlinePasses(n) \/ Consolidate(n) \/ NodeDrained(n)
          \/ SpotInterruptionCheck(n) \/ SpotInterruption(n)
          \/ NodeLaunching(n) \/ NodeReady(n) \/ NodeCordoned(n) \/ NodeTerminated(n)

Spec == Init /\ [][Next]_vars

\* Every event has its time and is taken, here the loop that a scan takes and puts back
\* (what is as much as WF_vars(DriftScan), with no need to try a scan in every state),
\* and time passes.
FairSpec ==
    /\ Spec
    /\ []<>(ScanLoop \notin events)
    /\ WF_vars(ScanIntervalPasses)
    /\ \A n \in Node : WF_vars(DeadlinePasses(n))
-----------------------------------------------------------------------------
\* The variables have their types, and a node's books agree with its pods through all
\* three ways of losing them.
TypeOK ==
    /\ state \in ClusterType
    /\ ready \in [Node -> BOOLEAN] /\ cordoned \in [Node -> BOOLEAN]
    /\ draining \in [Node -> {"no", "draining", "expired"}]
    /\ LinksAgree(state) /\ QueueExact(state) /\ AllocationExact(state)

\* DrainHandler never takes a budget below its minimum, however many of its pods share
\* the node and whatever drift and spot have taken before.
DrainKeepsBudget ==
    [][\A n \in Node, b \in Budgets : NodeDrained(n) =>
           \/ Running(state', b) >= MinAvailable[b]
           \/ Running(state', b) = Running(state, b)]_vars

\* A drifted node outlives a scan only for the sake of a budget: each pod left on it is
\* matched by one that stands at its minimum or below.
StaysForABudget ==
    [][DriftScan => \A n \in Node : draining'[n] # "no" =>
           \A p \in state'.podsOn[n] :
               \E b \in Budgets : p \in Selected[b] /\ Running(state', b) <= MinAvailable[b]]_vars

\* Only DrainHandler leaves pods behind on a node that goes, and only daemonset pods and
\* those a budget held back: neither a scan nor a spot interruption does, and no pass
\* between the steps of the three puts another pod on a node that is about to go.
StrandedOnlyByDrain ==
    [][\A p \in Pod : Ghost(state', p) /\ ~ Ghost(state, p) =>
           /\ state.node[p] \in Consolidated
           /\ p \in Daemon \/ \E b \in Budgets : p \in Selected[b]]_vars

\* A node on the drift list goes in the end, even if a budget never allows it.
DriftedGo == \A n \in Node : draining[n] # "no" ~> ~ LiveNode(state, n)

-----------------------------------------------------------------------------
\* Said by the repository and not true of the code.

\* "Drifted nodes are cordoned, drained respecting PDBs, and terminated after drain
\* completes or timeout expires."
DriftKeepsBudget ==
    [][DriftScan /\ (\A n \in Node : draining[n] # "expired") =>
           \A b \in Budgets : \/ Running(state', b) >= MinAvailable[b]
                              \/ Running(state', b) >= Running(state, b)]_vars

\* "auto-creates non-evictable pods on NodeReady"
DaemonsStay == \A d \in Daemon : LivePod(state, d) => Is(state, d, "Running")

\* "PDB-respecting drain": a budget holds pods back, it does not lose them.
HeldBackStay == \A p \in Work : ~ Ghost(state, p)

\* "Check if evicting one pod matching a PDB still satisfies min_available": of the pods
\* that run, not of those that went down with their node.
Serving(c, b) == Cardinality({p \in Selected[b] : Is(c, p, "Running") /\ ~ Ghost(c, p)})
DrainKeepsServing ==
    [][\A n \in Node, b \in Budgets : NodeDrained(n) =>
           \/ Serving(state', b) >= MinAvailable[b]
           \/ Serving(state', b) = Serving(state, b)]_vars
=============================================================================

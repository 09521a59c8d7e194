------------------------------ MODULE ReplicaSets ------------------------------
(***************************************************************************)
(* ReplicaSetController and DeletionCostController (kubesim-engine/src/    *)
(* replicaset.rs, deletion_cost.rs) beside a scheduler that places what    *)
(* pends and a consolidation that drains nodes.  A pending event may come  *)
(* at any moment.                                                          *)
(***************************************************************************)
EXTENDS Scheduler

CONSTANTS Owner,           \* Pod.owner, for the pods its ReplicaSet may create
          Replicas,        \* ReplicaSet.desired_replicas at the start
          Size,            \* pod_template.requests
          TemplateCost,    \* pod_template.deletion_cost, 0 for None
          Labelled,        \* the owners whose template has the do-not-disrupt label
          RsStrategy,      \* ReplicaSet.deletion_cost_strategy
          Controller,      \* DeletionCostController.strategy, "None" if there is none
          TopN,            \* TOP_N_CANDIDATES
          Capacity,        \* what every node offers
          ProtectedNodes,  \* the nodes with do_not_disrupt
          InitialNodes,    \* the nodes that are there from the start
          Drainable,       \* bound of the instance: the nodes a consolidation may pick
          Scales           \* the scale events of the workload: [kind, owner, count]

Owners == {Owner[p] : p \in Pod}

ASSUME ReplicaSetsAssumption ==
    /\ Pod \subseteq Nat /\ IsFiniteSet(Pod) /\ IsFiniteSet(Node)
    /\ Priority \in [Pod -> Int]
    /\ Replicas \in [Owners -> Nat] /\ Size \in [Owners -> Nat \ {0}]
    /\ TemplateCost \in [Owners -> Int] /\ Labelled \subseteq Owners
    /\ RsStrategy \in {"None", "PreferEmptyingNodes"}
    /\ Controller \in {"None", "Random", "PreferEmptyingNodes", "LargestFirst",
                       "UnallocatedVcpu", "PodDeletionCostController"}
    /\ TopN \in Nat /\ Capacity \in [Node -> Nat]
    /\ ProtectedNodes \subseteq Node /\ InitialNodes \subseteq Node /\ Drainable \subseteq Node
    /\ \A e \in Scales : /\ e.kind \in {"ScaleUp", "ScaleDown", "HpaEvaluation"}
                         /\ e.owner \in Owners /\ e.count \in Nat

VARIABLES state,    \* the cluster record
          slots,    \* the arena of the pods: their indices, the free ones, how many there are
          desired,  \* ReplicaSet.desired_replicas
          cost,     \* Pod.deletion_cost, 0 for None
          up,       \* the nodes that are ready and not cordoned
          events    \* the events on the engine's queue

vars == <<state, slots, desired, cost, up, events>>

BaseRank == -1000

Loop == [kind |-> "KarpenterProvisioningLoop"]
Reconciles(o) == [kind |-> "ReplicaSetReconcile", owner |-> o]
On(kind, n) == [kind |-> kind, node |-> n]
FollowUp(c) == IF c.pending_queue = <<>> THEN {} ELSE {Loop}

\* run_single: the replica sets are there and reconciled at their time, the scale events
\* at theirs.
Init ==
    /\ state = [EmptyCluster EXCEPT
                   !.nodes = [n \in Node |-> IF n \in InitialNodes THEN "live" ELSE "fresh"],
                   !.allocatable = [n \in Node |-> IF n \in InitialNodes THEN Capacity[n] ELSE 0]]
    /\ slots = [index |-> [p \in Pod |-> 0], free |-> <<>>, len |-> 0]
    /\ desired = Replicas
    /\ cost = [p \in Pod |-> 0]
    /\ up = InitialNodes
    /\ events = {Reconciles(o) : o \in Owners} \cup Scales

-----------------------------------------------------------------------------
\* Mutant of Owned: only running pods count.
OwnedRunning(c, o) == {p \in Pod : Is(c, p, "Running") /\ Owner[p] = o}

\* count_owned_pods
Owned(c, o) == {p \in Pod : Owner[p] = o /\ (Is(c, p, "Running") \/ Is(c, p, "Pending"))}

RunningOf(c, o) == {p \in Pod : Is(c, p, "Running") /\ Owner[p] = o}

\* Arena::insert and Arena::remove: the slot freed last is given out first.
Given(a, p) ==
    IF a.free = <<>> THEN [a EXCEPT !.index[p] = a.len, !.len = @ + 1]
    ELSE [a EXCEPT !.index[p] = Head(a.free), !.free = Tail(@)]
Freed(a, p) == [a EXCEPT !.free = <<a.index[p]>> \o @]

\* The pods of the owner on the node of p, p among them.
Colocated(c, p) ==
    IF LiveNode(c, c.node[p]) THEN Cardinality(c.podsOn[c.node[p]] \cap RunningOf(c, Owner[p])) ELSE 0

\* update_deletion_costs, for the strategy that has it.
UpdatedCosts(c, costs, o) ==
    [p \in Pod |-> IF RsStrategy = "PreferEmptyingNodes" /\ p \in RunningOf(c, o)
                   THEN - Colocated(c, p) ELSE costs[p]]

\* Pods in a total order, given by the set of those that come earlier than each.
Sorted(earlier) ==
    [i \in 1..Cardinality(DOMAIN earlier) |->
        CHOOSE p \in DOMAIN earlier : Cardinality(earlier[p]) = i - 1]

\* The order of the arena.
ByIndex(index, S) == Sorted([p \in S |-> {q \in S : index[q] < index[p]}])

\* The pods of an owner that a scale-down may take, as they are before the first one goes:
\* pending ones in the order of the arena, running ones by cost, by how many share their
\* node, and by index.
InVictimOrder(c, costs, o) ==
    LET Rank(p) == <<costs[p], - Colocated(c, p), - slots.index[p]>>
        Before(p, q) == \E i \in 1..3 : /\ Rank(p)[i] < Rank(q)[i]
                                        /\ \A j \in 1..i - 1 : Rank(p)[j] = Rank(q)[j]
    IN  [pending |-> ByIndex(slots.index, {p \in Owned(c, o) : Is(c, p, "Pending")}),
         running |-> Sorted([p \in RunningOf(c, o) |-> {q \in RunningOf(c, o) : Before(q, p)}])]

ScaleDownOrder(c, costs, o) ==
    InVictimOrder(c, costs, o).pending \o InVictimOrder(c, costs, o).running

SubmitAll(c, pods, size) == FoldLeft(LAMBDA d, p : SubmitPod(d, p, size), c, pods)

Unused(o) == {p \in Pod : state.pods[p] = "fresh" /\ Owner[p] = o}

\* An owner's pods are created in the order of their ids; Pod bounds how many a run can use.
ScaleUpTo(o, k) ==
    /\ Cardinality(Unused(o)) >= k
    /\ events' = (events \ {Reconciles(o)}) \cup {Loop}
    /\ \E new \in {SubSeq(ByIndex([p \in Pod |-> p], Unused(o)), 1, k)} :
          /\ state' = SubmitAll(state, new, Size[o])
          /\ slots' = FoldLeft(Given, slots, new)
          /\ cost' = [p \in Pod |-> IF p \in QueueSet(new) THEN TemplateCost[o] ELSE cost[p]]

ScaleDownBy(o, k) ==
    /\ events' = events \ {Reconciles(o)}
    /\ \E costs \in {UpdatedCosts(state, cost, o)} :
          \E victims \in {SubSeq(ScaleDownOrder(state, costs, o), 1, k)} :
              /\ state' = FoldLeft(RemovePod, state, victims)
              /\ slots' = FoldLeft(Freed, slots, victims)
              /\ cost' = UpdatedCosts(state', costs, o)

Settled(o) ==
    /\ events' = events \ {Reconciles(o)}
    /\ cost' = UpdatedCosts(state, cost, o)
    /\ UNCHANGED <<state, slots>>

\* A reconcile that creates pods returns before the costs are updated.
ReplicaSetReconcile(o) ==
    /\ Reconciles(o) \in events
    /\ UNCHANGED <<desired, up>>
    /\ LET actual == Cardinality(Owned(state, o))
       IN  \/ actual < desired[o] /\ ScaleUpTo(o, desired[o] - actual)
           \/ actual > desired[o] /\ ScaleDownBy(o, actual - desired[o])
           \/ actual = desired[o] /\ Settled(o)

\* The target is set.
ScaleUp(e) ==
    /\ e \in events /\ e.kind = "ScaleUp"
    /\ desired' = [desired EXCEPT ![e.owner] = e.count]
    /\ events' = (events \ {e}) \cup {Reconciles(e.owner)}
    /\ UNCHANGED <<state, slots, cost, up>>

\* The target is lowered by so many.
ScaleDown(e) ==
    /\ e \in events /\ e.kind = "ScaleDown"
    /\ desired' = [desired EXCEPT ![e.owner] = SatSub(@, e.count)]
    /\ events' = (events \ {e}) \cup {Reconciles(e.owner)}
    /\ UNCHANGED <<state, slots, cost, up>>

HpaEvaluation(e) ==
    /\ e \in events /\ e.kind = "HpaEvaluation"
    /\ events' = (events \ {e}) \cup {Reconciles(e.owner)}
    /\ UNCHANGED <<state, slots, desired, cost, up>>

PodTerminating(p) ==
    /\ [kind |-> "PodTerminating", pod |-> p] \in events
    /\ events' = (events \ {[kind |-> "PodTerminating", pod |-> p]})
                 \cup {Reconciles(o) : o \in {Owner[q] : q \in {r \in {p} : LivePod(state, r)}}}
    /\ UNCHANGED <<state, slots, desired, cost, up>>

-----------------------------------------------------------------------------
(***************************************************************************)
(* DeletionCostController: the active nodes are ranked, all pods of a node *)
(* get its rank.  Equals come in the order of the arena, here in any.      *)
(***************************************************************************)
Running(n) == {p \in state.podsOn[n] : Is(state, p, "Running")}
ActiveNodes == {n \in up : LiveNode(state, n) /\ Running(n) # {}}

DoNotDisrupt(n) == \E p \in Running(n) : Owner[p] \in Labelled

Protected(n) == DoNotDisrupt(n) \/ (Controller = "PodDeletionCostController" /\ n \in ProtectedNodes)

\* rank_nodes; the protected group is ranked by one strategy only.
NodeRank(n) ==
    LET pods == Cardinality(Running(n))
    IN  CASE Controller = "PodDeletionCostController" -> pods
          [] Protected(n) \/ Controller = "Random" -> 0
          [] Controller = "PreferEmptyingNodes" -> pods
          [] Controller = "LargestFirst" -> - state.allocatable[n]
          [] OTHER -> - (Available(state, n) \div pods)

\* Mutant of RanksBefore: the protected are ranked among the others.
RanksBeforeAll(m, n) == NodeRank(m) <= NodeRank(n)

RanksBefore(m, n) ==
    \/ ~ Protected(m) /\ Protected(n)
    \/ Protected(m) = Protected(n) /\ NodeRank(m) <= NodeRank(n)

Rankings == {s \in SetToSeqs(ActiveNodes) : \A i, j \in DOMAIN s : i < j => RanksBefore(s[i], s[j])}

DeletionCostReconcile ==
    /\ Controller # "None"
    /\ \E s \in Rankings :
          LET Annotated == IF Controller = "PodDeletionCostController" THEN 1..Min({TopN, Len(s)})
                                                                       ELSE DOMAIN s
              At(p) == {i \in Annotated : p \in Running(s[i])}
          IN  cost' = [p \in Pod |-> IF At(p) = {} THEN cost[p] ELSE BaseRank + Min(At(p)) - 1]
    /\ UNCHANGED <<state, slots, desired, up, events>>

-----------------------------------------------------------------------------
\* What SimHandler and the consolidation do meanwhile (Simulation and Disruption have it
\* in full): passes, nodes that join, nodes that are cordoned, drained, terminated.
KarpenterProvisioningLoop ==
    /\ Loop \in events
    /\ state' \in SchedulePendingFrom(state, up, state.pending_queue)
    /\ events' = events \ {Loop}
    /\ UNCHANGED <<slots, desired, cost, up>>

NodeReady(n) ==
    /\ state.nodes[n] = "fresh" /\ state.pending_queue # <<>>
    /\ up' = up \cup {n}
    /\ LET c == AddNode(state, n, Capacity[n])
       IN  state' \in SchedulePendingFrom(c, up', c.pending_queue)
    /\ events' = events \cup FollowUp(state')
    /\ UNCHANGED <<slots, desired, cost>>

NodeCordoned(n) ==
    /\ n \in up \cap Drainable
    /\ up' = up \ {n}
    /\ events' = events \cup {On("NodeDrained", n)}
    /\ UNCHANGED <<state, slots, desired, cost>>

\* Evicted pods keep their cost.
NodeDrained(n) ==
    /\ On("NodeDrained", n) \in events
    /\ \E order \in SetToSeqs(state.podsOn[n]) : state' = FoldLeft(EvictPod, state, order)
    /\ events' = (events \ {On("NodeDrained", n)}) \cup {On("NodeTerminated", n)}
                 \cup {[kind |-> "PodTerminating", pod |-> p] : p \in state.podsOn[n]}
                 \cup {Reconciles(o) : o \in {Owner[p] : p \in state.podsOn[n]}}
                 \cup FollowUp(state')
    /\ UNCHANGED <<slots, desired, cost, up>>

NodeTerminated(n) ==
    /\ On("NodeTerminated", n) \in events
    /\ state' = RemoveNode(state, n)
    /\ events' = events \ {On("NodeTerminated", n)}
    /\ UNCHANGED <<slots, desired, cost, up>>

Finished == events = {} /\ UNCHANGED vars

Next ==
    \/ \E o \in Owners : ReplicaSetReconcile(o)
    \/ \E e \in Scales : ScaleUp(e) \/ ScaleDown(e) \/ HpaEvaluation(e)
    \/ \E p \in Pod : PodTerminating(p)
    \/ DeletionCostReconcile
    \/ KarpenterProvisioningLoop
    \/ \E n \in Node : NodeReady(n) \/ NodeCordoned(n) \/ NodeDrained(n) \/ NodeTerminated(n)
    \/ Finished

Spec == Init /\ [][Next]_vars

\* Every event is due at some time and no handler schedules for the past, so every
\* event is taken.
FairSpec ==
    /\ Spec
    /\ \A o \in Owners : []<>(Reconciles(o) \notin events)
    /\ \A e \in Scales : []<>(e \notin events)

-----------------------------------------------------------------------------
Count == [o \in Owners |-> Cardinality(Owned(state, o))]

\* Each owner's number of pods goes to its target in one reconcile and is left alone by
\* drains, passes, preemptions, terminations and late events of removed pods: none of them
\* loses a replica or makes one too many.  Once the scale events are through no order of
\* them, of drains and of reconciles leaves a difference that nobody looks at again.
Target == INSTANCE ReplicaTarget WITH count <- Count
KeepsTarget == Target!SettlingSpec

\* Right after the controller has run, the pods of every protected node cost more than
\* those of every other, whatever ranks and template costs they brought along.
ProtectedRankHigher ==
    [][DeletionCostReconcile => \A m, n \in ActiveNodes : ~ Protected(m) /\ Protected(n) =>
           \A p \in Running(m), q \in Running(n) : cost'[p] < cost'[q]]_vars

-----------------------------------------------------------------------------
\* Said by the repository and not true of the code.

Removed(o) == {p \in RunningOf(state, o) : state'.pods[p] = "gone"}
Staying(o) == RunningOf(state', o)

\* "newer pods first (higher PodId index = newer)", among pods of equal cost on nodes with
\* equally many replicas.
NewerFirst ==
    [][\A o \in Owners : \A p \in Removed(o), q \in Staying(o) :
           cost[p] = cost[q] /\ Colocated(state, p) = Colocated(state, q) => p > q]_vars

\* "Protected group gets higher costs (preserved during scale-down)": of the pods the
\* controller has given a cost a scale-down takes one from a protected node only if no
\* other node has one.
ProtectedPreserved ==
    [][\A o \in Owners : \A p \in Removed(o), q \in Staying(o) :
           cost[p] # 0 /\ cost[q] # 0 /\ state.node[q] \in ActiveNodes /\ ~ Protected(state.node[q]) =>
           ~ Protected(state.node[p])]_vars

\* "nodes with fewer pods get lower deletion costs so RS scale-down removes their pods first"
EmptiestFirst ==
    [][\A o \in Owners : \A p \in Removed(o), q \in Staying(o) :
           Colocated(state, p) <= Colocated(state, q)]_vars
=============================================================================

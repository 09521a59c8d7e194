------------------------------ MODULE Disruption ------------------------------
(***************************************************************************)
(* The simulation with consolidation: ConsolidationHandler and             *)
(* DrainHandler (kubesim-karpenter/src/consolidation.rs) registered beside *)
(* the handlers of Simulation, and SimHandler's arms for the node events   *)
(* they schedule.  Without a version profile and with v1.x a plan removes  *)
(* several nodes or replaces them, with v0.35 it removes one.  Events that *)
(* no registered handler acts on (PodTerminating, and reconciles of      *)
(* owners without a replica set) are not put in the queue.                 *)
(***************************************************************************)
EXTENDS Simulation

CONSTANTS Policy,                 \* ConsolidationPolicy
          Threshold,              \* decision_ratio_threshold, in hundredths
          DeletionCost,           \* a pod's deletion_cost, 1 for None
          MaxCandidates,          \* VersionProfile.max_candidates, also its timeout
          MaxDisruptedCount,      \* {} for None, {k} for Some(k)
          MaxDisruptedPct,
          Protected,              \* the pods with do_not_disrupt
          ConsolidateAfter,       \* consolidate_after
          ConsolidationInterval,  \* ConsolidationHandler.loop_interval_ns
          MaxInterval,            \* max_interval
          Stabilization           \* STABILIZATION_NS

ASSUME DisruptionAssumption ==
    /\ Policy \in {"WhenEmpty", "WhenUnderutilized", "WhenCostJustifiesDisruption"}
    /\ Threshold \in Nat /\ DeletionCost \in [Work -> Int] /\ MaxCandidates \in Nat \ {0}
    /\ MaxDisruptedCount \subseteq Nat /\ Cardinality(MaxDisruptedCount) <= 1
    /\ MaxDisruptedPct \in Nat /\ Protected \subseteq Work
    /\ IsFiniteSet(Node)
    /\ ConsolidateAfter \in Nat /\ Stabilization \in Nat
    /\ ConsolidationInterval \in Nat \ {0} /\ MaxInterval \in Nat
    /\ ConsolidationInterval <= MaxInterval

VARIABLES young,             \* what is left until a node is consolidate_after old
          last_state_hash,   \* of the state last evaluated
          current_interval   \* the backoff interval

handler == <<last_state_hash, current_interval>>
allVars == <<vars, young, handler>>

ConsolidationLoop == [kind |-> "KarpenterConsolidationLoop"]

WorkOn(n) == state.podsOn[n] \ Daemon
Candidates == Up(state, ready)

-----------------------------------------------------------------------------
(***************************************************************************)
(* One evaluation.  arena is the order in which the arenas list the nodes, *)
(* order the one in which nodes list their pods; an action is a record of  *)
(* its kind, its node and the type a replacement is to have.               *)
(***************************************************************************)
\* Can the pods q go, first fit, to the nodes of slots?  An assignment says where each
\* goes: to the first node that has room beside the pods before it.
FirstFit(slots, q) ==
    LET Room(to, i) == {s \in DOMAIN slots :
            state.requests[q[i]] + MapThenSumSet(LAMBDA j : state.requests[q[j]],
                                                 {j \in 1..i - 1 : to[j] = s})
                <= Available(state, slots[s])}
    IN  \E to \in [DOMAIN q -> DOMAIN slots] :
            \A i \in DOMAIN q : to[i] \in Room(to, i) /\ to[i] = Min(Room(to, i))

\* pods_can_reschedule
CanReschedule(arena, order, n, removed) ==
    FirstFit(InOrder(arena, Candidates \ (removed \cup {n})), InOrder(order, WorkOn(n)))

\* candidate_score: what is cheapest to disrupt comes first, among equals the older.
Score(n) == <<Max({0} \cup {Priority[p] : p \in WorkOn(n)}), Cardinality(WorkOn(n)), young[n]>>
Before(m, n) == \E i \in 1..3 : /\ Score(m)[i] < Score(n)[i]
                                /\ \A j \in 1..i - 1 : Score(m)[j] = Score(n)[j]

\* Mutant of Disruptable: do_not_disrupt is not looked at.
DisruptableAll == {n \in Candidates : WorkOn(n) # {}}

Disruptable == {n \in Candidates : WorkOn(n) # {} /\ WorkOn(n) \cap Protected = {}}
ByRank(arena, S) == SortedBy(InOrder(arena, S), Before)

\* At the time of the event that is due next.
Elapsed == Min({e.after : e \in DOMAIN queue})
Old(n) == young[n] <= Elapsed

\* Time passes: a node that joins is as young as can be.
Aged == young' = [n \in Node |->
                     IF state.nodes[n] = "fresh" /\ state'.nodes[n] = "live"
                     THEN ConsolidateAfter ELSE SatSub(young[n], Elapsed)]

EmptyNodes(arena) ==
    LET nodes == InOrder(arena, {n \in Candidates : Old(n) /\ WorkOn(n) = {}})
    IN  [i \in DOMAIN nodes |-> [kind |-> "TerminateEmpty", node |-> nodes[i]]]

\* VersionProfile::new: v0.35 removes one node at a time and replaces none.
SingleNode == Version = "V0_35"

FirstOf(s, k) == SubSeq(s, 1, Min({k, Len(s)}))

\* Of the candidates in their order each is chosen whose pods can go to nodes not chosen
\* before it; the SingleNode strategy stops at the first.  A search that is cut
\* off at MaxCandidates never reaches its timeout.
Chosen(arena, order, nodes) ==
    CHOOSE S \in SUBSET DOMAIN nodes : \A i \in DOMAIN nodes :
        i \in S <=> /\ SingleNode => S \cap 1..i - 1 = {}
                    /\ CanReschedule(arena, order, nodes[i], {nodes[j] : j \in S \cap 1..i - 1})

Drains(arena, order, nodes) ==
    LET chosen == InOrder(nodes, {nodes[i] : i \in Chosen(arena, order, nodes)})
    IN  [i \in DOMAIN chosen |-> [kind |-> "DrainAndTerminate", node |-> chosen[i]]]

\* find_underutilized_nodes: the old nodes in their rank.
Underutilized(arena, order) ==
    {Drains(arena, order, FirstOf(nodes, MaxCandidates)) :
        nodes \in ByRank(arena, {n \in Disruptable : Old(n)})}

\* decision_ratio of deleting a node: the share it has of the pool's cost over the share
\* its pods have of the pool's disruption cost, the latter a thousandth at least.
NodeCost(n) == Price[state.allocatable[n]]
DisruptionCost(S) == MapThenSumSet(LAMBDA p : Max({DeletionCost[p], 0}), S)

Pool == {n \in Node : LiveNode(state, n) /\ ready[n]}
PoolDisruption == Max({DisruptionCost(UNION {WorkOn(n) : n \in Pool}), 1})
Disturbance(n) == Max({1000 * DisruptionCost(WorkOn(n)), PoolDisruption})

Justified(n) ==
    /\ NodeCost(n) > 0 \/ Threshold = 0
    /\ 1000 * NodeCost(n) * PoolDisruption * 100
           >= Threshold * MapThenSumSet(NodeCost, Pool) * Disturbance(n)

SavesMore(m, n) == NodeCost(m) * Disturbance(n) > NodeCost(n) * Disturbance(m)

\* find_cost_justified_nodes
CostJustified(arena, order) ==
    {Drains(arena, order, FirstOf(nodes, MaxCandidates)) :
        nodes \in SortedBy(InOrder(arena, {n \in Disruptable : Old(n) /\ Justified(n)}), SavesMore)}

\* find_replace_candidates: whatever their age and whatever the pool's limits.
CheaperTypes(n) ==
    LET total == MapThenSumSet(LAMBDA p : state.requests[p], WorkOn(n))
    IN  {k \in Holding(total) : Price[k] < Price[state.allocatable[n]]}

Replaceable(arena, order) ==
    LET Best(n) == CHOOSE k \in CheaperTypes(n) : \A j \in CheaperTypes(n) : Price[k] <= Price[j]
    IN  {[i \in DOMAIN nodes |->
             [kind |-> "Replace", node |-> nodes[i], type |-> Best(nodes[i])]] :
         nodes \in ByRank(arena, {n \in Disruptable : /\ ~ CanReschedule(arena, order, n, {})
                                                      /\ CheaperTypes(n) # {}})}

LiveNodes == {n \in Node : LiveNode(state, n)}
Budget == IF MaxDisruptedCount = {}
          THEN Max({(Cardinality(LiveNodes) * MaxDisruptedPct) \div 100, 1})
          ELSE Max({Min(MaxDisruptedCount \cup {Cardinality(LiveNodes)}), 1})

\* What a profile allows for each reason: the percentage, whatever the count.
ReasonBudget ==
    IF Version = "none" THEN Budget
    ELSE Max({(Cardinality(LiveNodes) * MaxDisruptedPct) \div 100, 1})

\* What the policy does besides removing empty nodes.
Others(arena, order) ==
    CASE Policy = "WhenEmpty" -> {<<>>}
      [] Policy = "WhenUnderutilized" ->
             {drains \o replacements :
                 drains \in Underutilized(arena, order),
                 replacements \in IF SingleNode THEN {<<>>} ELSE Replaceable(arena, order)}
      [] Policy = "WhenCostJustifiesDisruption" -> CostJustified(arena, order)

\* evaluate_versioned_with_metrics
Evaluate(arena, order) ==
    LET empty == FirstOf(EmptyNodes(arena), Min({ReasonBudget, Budget}))
    IN  {empty \o FirstOf(others, Min({ReasonBudget, Budget - Len(empty)})) :
         others \in Others(arena, order)}

NodesOf(actions) == {actions[i].node : i \in DOMAIN actions}

\* The pods of the drained nodes fit beside each other; those of replaced nodes do
\* not count.
Displaced(order, actions) ==
    FlattenSeq([i \in DOMAIN actions |->
        IF actions[i].kind = "DrainAndTerminate" THEN InOrder(order, WorkOn(actions[i].node))
                                                 ELSE <<>>])

\* simulate_and_validate: the last action is dropped until the rest is feasible.
Feasibly(arena, order, actions) ==
    LET Fit(k) == FirstFit(InOrder(arena, Candidates \ NodesOf(SubSeq(actions, 1, k))),
                           Displaced(order, SubSeq(actions, 1, k)))
    IN  SubSeq(actions, 1, Max({0} \cup {k \in 1..Len(actions) : Fit(k)}))

\* validate_before_execute: nothing has changed since, but each drain is tried again
\* beside all the actions kept before it.
Confirmed(arena, order, actions) ==
    CHOOSE K \in SUBSET DOMAIN actions : \A i \in DOMAIN actions :
        i \in K <=> \/ actions[i].kind # "DrainAndTerminate"
                    \/ CanReschedule(arena, order, actions[i].node,
                                     {actions[j].node : j \in K \cap 1..i - 1})

Validated(arena, order, actions) ==
    InOrder(actions, {actions[i] : i \in Confirmed(arena, order, actions)})

Plans ==
    UNION {{Validated(x[1], x[2], f) : f \in {Feasibly(x[1], x[2], e) : e \in Evaluate(x[1], x[2])}} :
           x \in SetToSeqs(LiveNodes) \X SetToSeqs(UNION {WorkOn(n) : n \in Candidates})}

-----------------------------------------------------------------------------
\* state_hash, with what the nodes have allocated in thousandths.
StateHash ==
    FoldLeft(LAMBDA h, x : 31 * h + x, 0,
             <<Cardinality(LiveNodes), Cardinality({p \in Pod : LivePod(state, p)}),
               Len(state.pending_queue),
               1000 * MapThenSumSet(LAMBDA n : state.allocated[n], LiveNodes),
               Cardinality({n \in LiveNodes : cordoned[n]})>>)

\* What an action schedules, counted from its turn.
NodeEvent(t, kind, n) == At(t, [kind |-> kind, node |-> n])

\* Mutant of FollowUps: a drained node is not terminated.
FollowUpsDrainOnly(a, t) ==
    NodeEvent(t + 1, "NodeCordoned", a.node) (+)
    IF a.kind = "TerminateEmpty" THEN NodeEvent(t + 2, "NodeTerminated", a.node)
                                 ELSE NodeEvent(t + 2, "NodeDrained", a.node)

FollowUps(a, t) ==
    NodeEvent(t + 1, "NodeCordoned", a.node) (+)
    CASE a.kind = "TerminateEmpty" -> NodeEvent(t + 2, "NodeTerminated", a.node)
      [] a.kind = "DrainAndTerminate" -> NodeEvent(t + 2, "NodeDrained", a.node)
                                         (+) NodeEvent(t + 3, "NodeTerminated", a.node)
      [] a.kind = "Replace" -> NodeEvent(t + 2, "NodeDrained", a.node)
                               (+) NodeEvent(t + 3, "NodeTerminated", a.node)
                               (+) At(t + 4, [kind |-> "NodeLaunching", capacity |-> a.type])

\* The actions take their turns Stabilization apart.
Turn(i) == (i - 1) * Stabilization

\* Mutant of BackedOff: no cap.
BackedOffFreely == 2 * current_interval

BackedOff == Min({2 * current_interval, MaxInterval})

\* The state has not changed since the last evaluation, as far as its hash tells.
ConsolidationSkips(e) ==
    /\ current_interval' = BackedOff
    /\ queue' = Pop(queue, e) (+) At(BackedOff, ConsolidationLoop)
    /\ UNCHANGED <<last_state_hash, cordoned>>

\* What a plan does to the backoff and the queue.
Schedules(e, actions) ==
    /\ last_state_hash' = IF actions = <<>> THEN StateHash ELSE 0
    /\ current_interval' = IF actions = <<>> THEN BackedOff ELSE ConsolidationInterval
    /\ queue' = FoldLeft(LAMBDA q, i : q (+) FollowUps(actions[i], Turn(i)), Pop(queue, e),
                         [i \in DOMAIN actions |-> i])
                (+) At(current_interval', ConsolidationLoop)

\* Mutant of ConsolidationActs: cordoning is left to the NodeCordoned events.
ConsolidationActsLater(e, actions) == Schedules(e, actions) /\ UNCHANGED cordoned

\* The chosen nodes are cordoned at once, the rest is for later events.
ConsolidationActs(e, actions) ==
    /\ cordoned' = [n \in Node |-> cordoned[n] \/ n \in NodesOf(actions)]
    /\ Schedules(e, actions)

KarpenterConsolidationLoop ==
    \E e \in Due("KarpenterConsolidationLoop") :
        /\ \/ /\ StateHash = last_state_hash
              /\ ConsolidationSkips(e)
           \/ /\ StateHash # last_state_hash
              /\ \E actions \in Plans : ConsolidationActs(e, actions)
        /\ UNCHANGED <<state, ready, inflight, launched>>
        /\ Aged

-----------------------------------------------------------------------------
NodeCordoned ==
    \E e \in Due("NodeCordoned") :
        /\ cordoned' = [cordoned EXCEPT ![e.event.node] = LiveNode(state, e.event.node)]
        /\ queue' = Pop(queue, e)
        /\ UNCHANGED <<state, ready, inflight, launched, handler>>
        /\ Aged

\* DrainHandler without disruption budgets: every running pod goes, daemonset pods stay, and
\* a node that is gone has none.
DrainedPods(n) == {p \in state.podsOn[n] \ Daemon : LiveNode(state, n) /\ Is(state, p, "Running")}

Drain(n) == \E order \in SetToSeqs(DrainedPods(n)) : state' = FoldLeft(EvictPod, state, order)

\* Mutant of AfterDrain: nobody is told.
AfterDrainNothing(n) == EmptyBag

AfterDrain(n) == IF LiveNode(state, n) /\ state'.pending_queue # <<>>
                 THEN At(1, ProvisioningLoop) ELSE EmptyBag

NodeDrained ==
    \E e \in Due("NodeDrained") :
        /\ Drain(e.event.node)
        /\ queue' = Pop(queue, e) (+) AfterDrain(e.event.node)
        /\ UNCHANGED <<ready, cordoned, inflight, launched, handler>>
        /\ Aged

\* SimHandler: whatever is still on the node.
NodeTerminated ==
    \E e \in Due("NodeTerminated") :
        LET n == e.event.node
        IN  /\ state' = RemoveNode(state, n)
            /\ ready' = [ready EXCEPT ![n] = FALSE]
            /\ cordoned' = [cordoned EXCEPT ![n] = FALSE]
            /\ queue' = Pop(queue, e)
            /\ UNCHANGED <<inflight, launched, handler>>
            /\ Aged

\* The events of Simulation, which leave consolidation alone.
Simulated == Next /\ Aged /\ UNCHANGED handler

ConsolidationInit ==
    /\ young = [n \in Node |-> IF n \in InitialNodes THEN ConsolidateAfter ELSE 0]
    /\ last_state_hash = 0
    /\ current_interval = ConsolidationInterval

DisruptionInit == InitWith(At(1, ConsolidationLoop)) /\ ConsolidationInit

DisruptionNext == \/ Simulated
                  \/ KarpenterConsolidationLoop
                  \/ NodeCordoned \/ NodeDrained \/ NodeTerminated

DisruptionSpec == DisruptionInit /\ [][DisruptionNext]_allVars

FairDisruption == DisruptionSpec /\ WF_allVars(DisruptionNext)
-----------------------------------------------------------------------------
\* The variables have their types, and the backoff stays between its base and its cap.
DisruptionTypeOK ==
    /\ TypeOK
    /\ young \in [Node -> 0..ConsolidateAfter]
    /\ last_state_hash \in Nat
    /\ current_interval \in ConsolidationInterval..MaxInterval

Removed == {n \in Node : LiveNode(state, n) /\ state'.nodes[n] = "gone"}

\* No submitted pod goes down with its node: between the plan and the termination,
\* which a stabilization time per action may separate, nothing is bound to the node
\* that the drain does not take off again.
DrainedBeforeGone == [][\A n \in Removed : state.podsOn[n] \subseteq Daemon]_allVars

\* From the plan on a node gets no new pod, whichever pass, submission or daemonset
\* comes in between.
NothingNewOnCordoned ==
    [][\A n \in Node : cordoned[n] => state'.podsOn[n] \subseteq state.podsOn[n]]_allVars

\* A drain never takes a pod with do_not_disrupt, though only the plan looks for them.
ProtectedStay ==
    [][NodeDrained => \A p \in Protected : state'.phase[p] = state.phase[p]]_allVars

\* The turns of one plan may outlast the interval, so that a later loop plans beside it:
\* still no node is planned for twice.  A cordoned node has one termination to come,
\* and no other node has any.
TerminatedOnce ==
    \A n \in Node :
        LET ends == {e \in DOMAIN queue : e.event.kind = "NodeTerminated" /\ e.event.node = n}
        IN  MapThenSumSet(LAMBDA e : queue[e], ends) = IF cordoned[n] THEN 1 ELSE 0

\* A cordoned node is terminated in the end.
CordonedGo == \A n \in Node : cordoned[n] ~> ~ cordoned[n]

-----------------------------------------------------------------------------
\* Said by the repository and not true of the code.

\* "Maximum percentage of nodes that may be disrupted simultaneously", or the count that
\* overrides it: a loop takes a full budget whatever earlier plans have cordoned.
Cordoned == {n \in LiveNodes : cordoned[n]}
BudgetHeld == Cardinality(Cordoned) <= Budget

\* "WhenEmpty: nodes with zero running pods are terminated immediately."
EmptyNodesGo ==
    \A n \in Node : n \in Candidates /\ state.podsOn[n] = {}
                        ~> LiveNode(state, n) => state.podsOn[n] # {}

\* "`consolidate_after_ns` exempts nodes younger than this duration from consolidation."
YoungAreExempt == [][\A n \in Node : cordoned'[n] => cordoned[n] \/ Old(n)]_allVars

\* "Current usage tracked against a NodePool's limits": no more than the nodes the pool
\* has and those it is launching.
Launches == {e \in DOMAIN queue : e.event.kind = "NodeLaunching"}
UsageIsCurrent ==
    launched <= Cardinality(LiveNodes \ InitialNodes)
                + MapThenSumSet(LAMBDA e : queue[e], Launches)

\* "Replace pods are excluded - they go on the replacement node": while a replacement
\* is about to be launched the provisioner launches nothing for its pods.
PodsAwaitReplacement ==
    [][launched' > launched => inflight > 0 \/ Launches = {}]_allVars
=============================================================================

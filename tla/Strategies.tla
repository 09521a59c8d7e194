------------------------------ MODULE Strategies ------------------------------
(***************************************************************************)
(* SimHandler of kubesim-py/src/lib.rs under each SchedulingStrategy, with *)
(* pods that have taints, affinities and spread constraints to meet.       *)
(* Simulation has the times and the provisioner of the FullScan strategy;  *)
(* here an event that is pending may come at any moment, and the           *)
(* provisioner may launch a node and look again whenever pods pend.        *)
(***************************************************************************)
EXTENDS SchedulingCaches, WaitQueue

CONSTANTS Strategy,      \* the strategies a run may have
          Size,          \* what every pod requests
          Batch,         \* the pods that have a duration
          Capacity,      \* what every node offers
          InitialNodes,  \* the nodes added before the run
          LaunchOrder,   \* the ids the arena hands out to launched nodes, in order
          Startup,       \* node_startup_ns
          Drainable,     \* bound of the instance: the nodes a consolidation may pick
          MaxCount       \* bound of the instance: no more loops once a cached count exceeds it

ASSUME StrategiesAssumption ==
    /\ Strategy \subseteq {"FullScan", "HintBased", "Partitioned", "NodePruning", "ReverseSchedule"}
    /\ Size \in [Pod -> Nat \ {0}] /\ Priority \in [Pod -> Int] /\ Batch \subseteq Pod
    /\ IsFiniteSet(Pod) /\ "host" \in Key
    /\ IsFiniteSet(Pdbs) /\ \A pdb \in Pdbs : pdb.min_available \in Nat
    /\ Capacity \in [Node -> Nat] /\ InitialNodes \subseteq Node /\ Startup \in Nat
    /\ LaunchOrder \in Seq(Node) /\ Node = InitialNodes \cup QueueSet(LaunchOrder)
    /\ \A p \in Pod :
           /\ Spread[p] \in Seq(Range(Spread[p])) /\ PodAffinity[p] \in Seq(Range(PodAffinity[p]))
           /\ \A i \in DOMAIN Spread[p] :
                  Spread[p][i].key \in Key /\ Spread[p][i].max_skew \in Nat \ {0}
           /\ \A i \in DOMAIN PodAffinity[p] : PodAffinity[p][i].anti \in BOOLEAN

VARIABLES strategy,        \* SimHandler.strategy
          state,           \* the cluster record
          ready,           \* Node.conditions.ready
          cordoned,        \* Node.cordoned
          events,          \* the events on the engine's queue
          caches,          \* SchedulingCaches
          saturated,       \* Scheduler.saturated_nodes
          launched_nodes,  \* the nodes in launch order (HintBased)
          hints,           \* pod_node_hints: the place in launched_nodes, 0 for no hint
          wait,            \* CapacityWaitQueue (ReverseSchedule)
          budgets          \* DomainBudget (ReverseSchedule)

memory == <<caches, saturated, launched_nodes, hints, wait, budgets>>
vars == <<strategy, state, ready, cordoned, events, caches, saturated, launched_nodes, hints,
          wait, budgets>>

Loop == [kind |-> "KarpenterProvisioningLoop"]
Launching == [kind |-> "NodeLaunching"]
On(kind, n) == [kind |-> kind, node |-> n]

InReverse == strategy = "ReverseSchedule"

Up(c, r) == {n \in Node : LiveNode(c, n) /\ r[n] /\ ~ cordoned[n]}

FollowUp(c) == IF c.pending_queue = <<>> THEN {} ELSE {Loop}

Init ==
    /\ strategy \in Strategy
    /\ state = [EmptyCluster EXCEPT
                   !.nodes = [n \in Node |-> IF n \in InitialNodes THEN "live" ELSE "fresh"],
                   !.allocatable = [n \in Node |-> IF n \in InitialNodes THEN Capacity[n] ELSE 0]]
    /\ ready = [n \in Node |-> n \in InitialNodes]
    /\ cordoned = [n \in Node |-> FALSE]
    /\ events = {On("NodeReady", n) : n \in InitialNodes} \cup {Loop}
    /\ caches = NoCaches /\ saturated = {}
    /\ launched_nodes = <<>> /\ hints = [p \in Pod |-> 0]
    /\ wait = NoWait /\ budgets = <<>>

-----------------------------------------------------------------------------
\* Submitted, and bound at once if a node passes the filters: they read the cluster, not
\* the caches, and the caches are not told.
PodSubmitted(p) ==
    /\ state.pods[p] = "fresh"
    /\ budgets' = IF InReverse THEN Registered(budgets, p) ELSE budgets
    /\ LET c == SubmitPod(state, p, Size[p])
           nodes == Winners(c, Up(c, ready), p)
       IN  \/ /\ \E n \in nodes : state' = BindPod(c, p, n)
              /\ events' = events \cup {[kind |-> "PodCompleted", pod |-> q] : q \in {p} \cap Batch}
              /\ UNCHANGED wait
           \/ /\ nodes = {}
              /\ state' = c
              /\ wait' = IF InReverse THEN AddWaiting(wait, p) ELSE wait
              /\ events' = events \cup {Loop}
    /\ UNCHANGED <<strategy, ready, cordoned, caches, saturated, launched_nodes, hints>>

\* One pass over q; every strategy but ReverseSchedule is made of them.
Passes(c, remembered, up, q) == CachedPass(c, remembered, up, saturated, q)

\* Mutant of Hinted: the place is taken after the node was pushed.
HintedAfter(c) ==
    IF strategy = "HintBased"
    THEN /\ launched_nodes' = Append(launched_nodes, CHOOSE n \in Node : c.nodes[n] # state.nodes[n])
         /\ hints' = [p \in Pod |-> IF hints[p] = 0 /\ p \in QueueSet(c.pending_queue)
                                    THEN Len(launched_nodes) + 2 ELSE hints[p]]
    ELSE UNCHANGED <<launched_nodes, hints>>

\* Hints are snapshots: a pod keeps its first hint wherever it goes.
Hinted(c) ==
    IF strategy = "HintBased"
    THEN /\ launched_nodes' = Append(launched_nodes, CHOOSE n \in Node : c.nodes[n] # state.nodes[n])
         /\ hints' = [p \in Pod |-> IF hints[p] = 0 /\ p \in QueueSet(c.pending_queue)
                                    THEN Len(launched_nodes) + 1 ELSE hints[p]]
    ELSE UNCHANGED <<launched_nodes, hints>>

NodeLaunching ==
    /\ Launching \in events
    /\ LET n == LaunchOrder[Min({i \in DOMAIN LaunchOrder : state.nodes[LaunchOrder[i]] = "fresh"})]
           c == AddNode(state, n, Capacity[n])
           told == OnNodeAdded(caches, n)
       IN  /\ ready' = [ready EXCEPT ![n] = (Startup = 0)]
           /\ Hinted(c)
           /\ IF Startup = 0 /\ ~ InReverse
              THEN \E x \in Passes(c, told, Up(c, ready'), c.pending_queue) :
                       state' = x.c /\ caches' = x.caches
              ELSE state' = c /\ caches' = told
           /\ events' = (events \ {Launching}) \cup {On("NodeReady", n)}
    /\ UNCHANGED <<strategy, cordoned, saturated, wait, budgets>>

-----------------------------------------------------------------------------
\* NodeReady, one action per strategy; up includes the node.
FullScan(up) ==
    /\ strategy = "FullScan"
    /\ \E x \in Passes(state, caches, up, state.pending_queue) :
           state' = x.c /\ caches' = x.caches
    /\ UNCHANGED <<saturated, launched_nodes, hints, wait, budgets>>

\* The hinted pods of the node in the order of a hash map, then whatever pends.
HintBased(n, up) ==
    /\ strategy = "HintBased"
    /\ LET hinted == {p \in Pod : hints[p] # 0 /\ launched_nodes[hints[p]] = n}
       IN  /\ \E order \in SetToSeqs(hinted) :
                 \E x \in Passes(state, caches, up, order) :
                     \E y \in Passes(x.c, x.caches, up, x.c.pending_queue) :
                         state' = y.c /\ caches' = y.caches
           /\ hints' = [p \in Pod |-> IF p \in hinted THEN 0 ELSE hints[p]]
    /\ UNCHANGED <<saturated, launched_nodes, wait, budgets>>

\* Pods without placement constraints, then one pod of every owner with some.
Unconstrained(p) ==
    /\ Spread[p] = <<>>
    /\ ~ \E i \in DOMAIN PodAffinity[p] : PodAffinity[p][i].anti /\ PodAffinity[p][i].required

Partitioned(up) ==
    /\ strategy = "Partitioned"
    /\ LET Seen(s, p) == \E q \in QueueSet(s) : Owner[q] = Owner[p]
           free == FoldLeft(LAMBDA s, p : IF Unconstrained(p) THEN Append(s, p) ELSE s,
                            <<>>, state.pending_queue)
           deduped == FoldLeft(LAMBDA s, p : IF Unconstrained(p) \/ Seen(s, p) THEN s
                                             ELSE Append(s, p),
                               <<>>, state.pending_queue)
       IN  \E x \in Passes(state, caches, up, free) :
               \E y \in Passes(x.c, x.caches, up, deduped) :
                   state' = y.c /\ caches' = y.caches
    /\ UNCHANGED <<saturated, launched_nodes, hints, wait, budgets>>

\* If the queue has changed in length, the nodes without room for the smallest pod left.
Saturated(c, up) ==
    LET sizes == {c.requests[p] : p \in QueueSet(c.pending_queue)}
        least == IF sizes = {} THEN 0 ELSE Min(sizes)
    IN  IF Len(c.pending_queue) = Len(state.pending_queue) THEN {}
        ELSE {n \in up : Available(c, n) < least}

NodePruning(up) ==
    /\ strategy = "NodePruning"
    /\ \E x \in Passes(state, caches, up, state.pending_queue) :
           /\ state' = x.c /\ caches' = x.caches
           /\ saturated' = saturated \cup Saturated(x.c, up)
    /\ UNCHANGED <<launched_nodes, hints, wait, budgets>>

\* The node is filled from the wait queue, whatever it asks of its pods.
ReverseSchedule(n) ==
    /\ InReverse
    /\ \E f \in FillNode(state, wait, budgets, n) :
           /\ state' = FoldLeft(LAMBDA c, p : BindPod(c, p, n), state, f.bind)
           /\ wait' = f.w /\ budgets' = f.budgets
    /\ UNCHANGED <<caches, saturated, launched_nodes, hints>>

NodeReady(n) ==
    /\ On("NodeReady", n) \in events
    /\ ready' = [ready EXCEPT ![n] = LiveNode(state, n)]
    /\ LET up == Up(state, ready')
       IN  \/ FullScan(up) \/ HintBased(n, up) \/ Partitioned(up) \/ NodePruning(up)
           \/ ReverseSchedule(n)
    /\ events' = (events \ {On("NodeReady", n)}) \cup FollowUp(state')
    /\ UNCHANGED <<strategy, cordoned>>

-----------------------------------------------------------------------------
\* Mutant of Requeued: evicted pods are not put back.
RequeuedNone(c) == wait

Requeued(c) ==
    FoldLeft(LAMBDA w, p : IF Is(c, p, "Pending") THEN AddWaiting(w, p) ELSE w, wait, c.pending_queue)

\* ProvisioningHandler, of which only this is kept: while pods pend it may launch a node
\* and may look again.  A completed pod in the queue is bound and counted in every pass.
Provisions(c) ==
    LET fresh == \E i \in DOMAIN LaunchOrder : c.nodes[LaunchOrder[i]] = "fresh"
        bounded == /\ \A k \in DOMAIN caches.spread : \A d \in DOMAIN caches.spread[k].counts :
                          caches.spread[k].counts[d] <= MaxCount
                   /\ \A k \in DOMAIN caches.count : caches.count[k] <= MaxCount
    IN  IF c.pending_queue = <<>> THEN {{}}
        ELSE SUBSET ({x \in {Loop} : bounded} \cup {x \in {Launching} : fresh})

KarpenterProvisioningLoop ==
    /\ Loop \in events
    /\ \/ /\ InReverse
          /\ wait' = Requeued(state)
          /\ UNCHANGED <<state, caches>>
       \/ /\ ~ InReverse
          /\ \E x \in Passes(state, caches, Up(state, ready), state.pending_queue) :
                 state' = x.c /\ caches' = x.caches
          /\ UNCHANGED wait
    /\ \E more \in Provisions(state') : events' = (events \ {Loop}) \cup more
    /\ UNCHANGED <<strategy, ready, cordoned, saturated, launched_nodes, hints, budgets>>

\* A decision of the consolidation to drain a node.
NodeCordoned(n) ==
    /\ n \in Drainable \cap Up(state, ready)
    /\ cordoned' = [cordoned EXCEPT ![n] = TRUE]
    /\ events' = events \cup {On("NodeDrained", n)}
    /\ UNCHANGED <<strategy, state, ready, memory>>

\* DrainHandler without a disruption budget that stops it.
NodeDrained(n) ==
    /\ On("NodeDrained", n) \in events
    /\ \E order \in SetToSeqs(state.podsOn[n]) : state' = FoldLeft(EvictPod, state, order)
    /\ events' = (events \ {On("NodeDrained", n)}) \cup {On("NodeTerminated", n)} \cup FollowUp(state')
    /\ UNCHANGED <<strategy, ready, cordoned, memory>>

\* invalidate_caches, clear_saturated
Forgotten == caches' = NoCaches /\ saturated' = {}

NodeTerminated(n) ==
    /\ On("NodeTerminated", n) \in events
    /\ state' = RemoveNode(state, n)
    /\ ready' = [ready EXCEPT ![n] = FALSE]
    /\ cordoned' = [cordoned EXCEPT ![n] = FALSE]
    /\ Forgotten
    /\ events' = events \ {On("NodeTerminated", n)}
    /\ UNCHANGED <<strategy, launched_nodes, hints, wait, budgets>>

\* Succeeded, whatever the phase was; a pending pod stays in the pending queue.
PodCompleted(p) ==
    /\ [kind |-> "PodCompleted", pod |-> p] \in events
    /\ wait' = RemoveWaiting(wait, p)
    /\ state' = [Release(state, p, state.node[p]) EXCEPT !.phase[p] = "Succeeded", !.node[p] = NoNode]
    /\ events' = events \ {[kind |-> "PodCompleted", pod |-> p]}
    /\ UNCHANGED <<strategy, ready, cordoned, caches, saturated, launched_nodes, hints, budgets>>

Finished == events = {} /\ (\A p \in Pod : state.pods[p] # "fresh") /\ UNCHANGED vars

Next ==
    \/ \E p \in Pod : PodSubmitted(p) \/ PodCompleted(p)
    \/ NodeLaunching \/ KarpenterProvisioningLoop
    \/ \E n \in Node : NodeReady(n) \/ NodeCordoned(n) \/ NodeDrained(n) \/ NodeTerminated(n)
    \/ Finished

Spec == Init /\ [][Next]_vars

-----------------------------------------------------------------------------
\* The variables have their types, and a hint names a node that was launched.
TypeOK ==
    /\ strategy \in Strategy /\ state \in ClusterType
    /\ ready \in [Node -> BOOLEAN] /\ cordoned \in [Node -> BOOLEAN]
    /\ caches.spread \in [DOMAIN caches.spread -> Entry!Entries]
    /\ caches.match \in [DOMAIN caches.match -> BOOLEAN]
    /\ caches.count \in [DOMAIN caches.count -> Nat]
    /\ saturated \subseteq Node /\ launched_nodes \in Seq(Node)
    /\ hints \in [Pod -> 0..Len(launched_nodes)]
    /\ wait.in_queue \subseteq Pod /\ DOMAIN budgets \subseteq {Owner[p] : p \in Pod} \X Key

Pending == {p \in Pod : Is(state, p, "Pending")}
NewlyBound == {p \in Pod : ~ Is(state, p, "Running") /\ Is(state', p, "Running")}

\* The submitted pods of a node fit it under every strategy, also when the node is filled
\* from a wait queue that was kept up over evictions and completions.
WorkFits == \A n \in Node : LiveNode(state, n) => state.allocated[n] <= state.allocatable[n]

\* No strategy but ReverseSchedule lets a pod onto a node whose taints it does not
\* tolerate or whose labels it does not want, by preemption neither.
Admitted ==
    ~ InReverse => \A p \in Pod : Is(state, p, "Running") /\ LiveNode(state, state.node[p]) =>
        TaintToleration(p, state.node[p]) /\ NodeAffinityFilter(p, state.node[p])

\* Where a pod runs it fits and is admitted.
WellPlaced == WorkFits /\ Admitted

\* A provisioning loop that changes nothing leaves no pod that a node would take as it
\* is: a stale cache or a stale saturated mark may reject the node, and then the
\* preemption check, which reads neither, finds it without victims.
NothingFeasibleLeft ==
    [][KarpenterProvisioningLoop /\ ~ InReverse /\ state' = state
           /\ QueueSet(state.pending_queue) \subseteq Pending =>
           \A p \in Pending : Admissible(state, Up(state, ready), p) = {}]_vars

\* Pods that keep apart: each has a required anti-affinity to the other in one domain.
OwnAnti(p) == {i \in DOMAIN PodAffinity[p] : /\ PodAffinity[p][i].anti /\ PodAffinity[p][i].required
                                             /\ PodAffinity[p][i].selector \in Matching[p]}

Apart(p, q) ==
    \A i \in OwnAnti(p), j \in OwnAnti(q) :
        LET key == PodAffinity[p][i].key
        IN  PodAffinity[p][i] = PodAffinity[q][j] /\ Labels[state.node[p]][key] # NoLabel =>
                Labels[state.node[p]][key] # Labels[state.node[q]][key]

\* No cached answer says that a domain holds no matching pod when it holds one.
NoMatchMissed ==
    \A k \in DOMAIN caches.match :
        HasMatchingPod(state, k[3], k[1], k[2]) => caches.match[k]

\* "the candidate node's topology domain must NOT contain any matching pod"
AntiAffinityHeld ==
    \A p, q \in Pod : /\ p # q /\ Is(state, p, "Running") /\ Is(state, q, "Running")
                      /\ LiveNode(state, state.node[p]) /\ LiveNode(state, state.node[q])
                      => Apart(p, q)

\* While the cache misses no match, no step of any strategy but ReverseSchedule puts two
\* such pods into one domain, whatever a pass binds, preempts and caches meanwhile.
ApartWhileKnown ==
    [][~ InReverse /\ NoMatchMissed /\ AntiAffinityHeld => AntiAffinityHeld']_vars

\* Under ReverseSchedule a pending pod waits in its queue, or the loop that puts it there
\* is on its way: only waiting pods are looked at when a node becomes ready.
PendingAreWaiting ==
    InReverse => \A p \in Pending : p \in wait.in_queue \/ Loop \in events

\* What waits has an entry in the queue that it would be found in.
WaitingHaveEntries ==
    \A p \in wait.in_queue :
        p \in QueueSet(IF Constrained(p) THEN wait.constrained[Owner[p]] ELSE wait.unconstrained)

\* No pod falls out of the wait queue, however completions, evictions and put-back pods
\* race with its lazy removal.
NobodyForgotten == PendingAreWaiting /\ WaitingHaveEntries

-----------------------------------------------------------------------------
\* Said by the repository and not true of the code.

\* "kubesim binds immediately after eviction in the same `schedule_pending` call": what a
\* NodeReady evicts makes room for a waiting pod of higher priority.
EvictedForWaiting ==
    [][\A v \in Pod : /\ Is(state, v, "Running") /\ ~ Is(state', v, "Running")
                      /\ \E n \in Node : NodeReady(n)
                      => \E p \in Pending : Priority[p] > Priority[v]]_vars

\* "enforce a hard cap: at most max_skew pods per domain"
HardCap ==
    InReverse => \A p \in Pod, i \in 1..2, n \in Node :
        /\ i \in HardSpread(p) /\ Spread[p][i].key = "host" /\ LiveNode(state, n)
        /\ Labels[n]["host"] # NoLabel
        => Cardinality({q \in state.podsOn[n] : Owner[q] = Owner[p] /\ HardSpread(q) # {}})
               <= Spread[p][i].max_skew

\* "Rejects nodes whose taints are not tolerated by the pod."
AlwaysAdmitted ==
    \A p \in Pod : Is(state, p, "Running") /\ LiveNode(state, state.node[p]) =>
        TaintToleration(p, state.node[p]) /\ NodeAffinityFilter(p, state.node[p])
=============================================================================

------------------------------ MODULE Simulation ------------------------------
(***************************************************************************)
(* One simulation run: the engine takes the earliest event and hands it to *)
(* every handler in turn, and each may change the cluster and schedule     *)
(* more events.  An action is one event with all that its handlers do, in  *)
(* the order run_single registers them: SimHandler, DaemonSetHandler, then *)
(* ProvisioningHandler (kubesim-py/src/lib.rs, kubesim-engine/src/         *)
(* daemonset.rs, kubesim-karpenter/src/handler.rs).  One node pool, the    *)
(* FullScan scheduling strategy.                                           *)
(***************************************************************************)
EXTENDS Scheduler, Provisioner, EventQueue

CONSTANTS Size,              \* what every pod requests when it is submitted
          Duration,          \* how long a pod runs; 0 for duration_ns = None
          SubmitTimes,       \* the times at which each pod may be submitted
          InitialNodes,      \* the nodes added before the run
          Daemon,            \* the ids kept for daemonset pods
          DaemonSize,        \* what a daemonset pod requests; 0 if there is no daemonset
          Resizes,           \* PodResizeByOwner events: [after, owner, size]
          Startup,           \* node_startup_ns
          LoopInterval,      \* loop_interval_ns
          ReconcileInterval  \* reconcile_interval_ns

ASSUME SimulationAssumption ==
    /\ Size \in [Pod -> Nat \ {0}] /\ Duration \in [Pod -> Nat]
    /\ Priority \in [Pod -> Int] /\ SubmitTimes \in [Pod -> SUBSET Nat]
    /\ InitialNodes \subseteq Node /\ Daemon \subseteq Pod
    /\ \A d \in Daemon, p \in Pod \ Daemon : Priority[p] <= Priority[d]
    /\ IsFiniteSet(Pod) /\ DaemonSize \in Nat
    /\ \A x \in Resizes : x.after \in Nat /\ x.size \in Nat
    /\ Startup \in Nat /\ LoopInterval \in Nat \ {0} /\ ReconcileInterval \in Nat \ {0}

VARIABLES state,     \* the cluster record
          ready,     \* Node.conditions.ready
          cordoned,  \* Node.cordoned
          queue,     \* the engine's events
          inflight,  \* ProvisioningHandler.inflight_pods
          launched   \* ProvisioningHandler.usage.node_count

vars == <<state, ready, cordoned, queue, inflight, launched>>

Work == Pod \ Daemon

\* Mutant of Up: cordoned nodes count.
UpWhenReady(c, r) == {n \in Node : LiveNode(c, n) /\ r[n]}

Up(c, r) == {n \in Node : LiveNode(c, n) /\ r[n] /\ ~ cordoned[n]}

ProvisioningLoop == [kind |-> "KarpenterProvisioningLoop"]

Due(kind) == {e \in Earliest(queue) : e.event.kind = kind}

-----------------------------------------------------------------------------
\* run_single: the initial nodes, every pod's submission, the provisioning loop, and
\* what else a composition schedules at the start.
InitWith(more) ==
    /\ \E capacity \in [InitialNodes -> Capacities] :
          state = [EmptyCluster EXCEPT
                      !.nodes = [n \in Node |-> IF n \in InitialNodes THEN "live" ELSE "fresh"],
                      !.allocatable = [n \in Node |-> IF n \in InitialNodes THEN capacity[n] ELSE 0]]
    /\ ready = [n \in Node |-> n \in InitialNodes]
    /\ cordoned = [n \in Node |-> FALSE]
    /\ \E time \in {f \in [Work -> UNION {SubmitTimes[p] : p \in Work}] :
                        \A p \in Work : f[p] \in SubmitTimes[p]} :
          queue = SetToBag({[after |-> time[p], event |-> [kind |-> "PodSubmitted", pod |-> p]] : p \in Work}
                           \cup {[after |-> 0, event |-> [kind |-> "NodeReady", node |-> n]] : n \in InitialNodes}
                           \cup {[after |-> x.after, event |-> [kind |-> "PodResizeByOwner",
                                        owner |-> x.owner, size |-> x.size]] : x \in Resizes})
                  (+) At(1, ProvisioningLoop) (+) more
    /\ inflight = 0
    /\ launched = 0

Init == InitWith(EmptyBag)

-----------------------------------------------------------------------------
\* The pod is tried at once: bound if some node takes it as it is, and its completion
\* scheduled; a preemption that schedule_one proposes is not carried out.
PodSubmitted ==
    \E e \in Due("PodSubmitted") :
        LET p == e.event.pod
            c == SubmitPod(state, p, Size[p])
            nodes == BestNodes(c, Up(c, ready), p)
        IN  /\ IF nodes = {}
               THEN /\ state' = c
                    /\ queue' = Pop(queue, e) (+) At(1, ProvisioningLoop)
               ELSE /\ \E n \in nodes : state' = BindPod(c, p, n)
                    /\ queue' = Pop(queue, e) (+)
                          IF Duration[p] = 0 THEN EmptyBag
                          ELSE At(Duration[p], [kind |-> "PodCompleted", pod |-> p])
            /\ UNCHANGED <<ready, cordoned, inflight, launched>>

\* Mutant of CompletePod: the node is not told.
CompletePodQuietly(c, p) ==
    IF LivePod(c, p) THEN [c EXCEPT !.phase[p] = "Succeeded", !.node[p] = NoNode] ELSE c

\* Succeeded whatever the phase was; the pod stays in the arena and, if it was
\* pending again, in the pending queue.
CompletePod(c, p) ==
    IF LivePod(c, p)
    THEN [Release(c, p, c.node[p]) EXCEPT !.phase[p] = "Succeeded", !.node[p] = NoNode]
    ELSE c

PodCompleted ==
    \E e \in Due("PodCompleted") :
        /\ state' = CompletePod(state, e.event.pod)
        /\ queue' = Pop(queue, e)
        /\ UNCHANGED <<ready, cordoned, inflight, launched>>

\* The running pods of an owner, in any order the arena may hold them.
PodResizeByOwner ==
    \E e \in Due("PodResizeByOwner") :
        LET running == {p \in Pod : Is(state, p, "Running") /\ Owner[p] = e.event.owner}
        IN  /\ \E order \in SetToSeqs(running) :
                  state' = FoldLeft(LAMBDA c, p : ResizePod(c, p, e.event.size), state, order)
            /\ queue' = Pop(queue, e)
            /\ UNCHANGED <<ready, cordoned, inflight, launched>>

\* The ids arenas hand out next; Node and Daemon bound how many a run can use, and an
\* event that needs one more has to wait.
Unused(ids, life) == {i \in ids : life[i] = "fresh"}

\* A launched node joins unready unless nodes start instantly; if they do, the
\* pending pods are placed at once.
NodeLaunching ==
    \E e \in Due("NodeLaunching") :
        /\ Unused(Node, state.nodes) # {}
        /\ LET n == CHOOSE m \in Unused(Node, state.nodes) : TRUE
               c == AddNode(state, n, e.event.capacity)
           IN  /\ ready' = [ready EXCEPT ![n] = (Startup = 0)]
               /\ IF Startup = 0
                  THEN state' \in SchedulePendingFrom(c, Up(c, ready'), c.pending_queue)
                  ELSE state' = c
               /\ queue' = Pop(queue, e) (+) At(Max({Startup, 1}), [kind |-> "NodeReady", node |-> n])
        /\ UNCHANGED <<cordoned, inflight, launched>>

\* DaemonSetHandler: a pod bound to the node without asking whether it fits.
StartDaemon(c, n) ==
    LET p == CHOOSE q \in Unused(Daemon, c.pods) : TRUE
    IN  IF DaemonSize = 0 \/ ~ LiveNode(c, n) THEN c
        ELSE BindPod(SubmitPod(c, p, DaemonSize), p, n)

\* ProvisioningHandler on NodeReady.
CapInflight(c) == Min({inflight, Len(c.pending_queue)})

NodeReady ==
    \E e \in Due("NodeReady") :
        LET n == e.event.node
        IN  /\ DaemonSize = 0 \/ Unused(Daemon, state.pods) # {}
            /\ ready' = [ready EXCEPT ![n] = LiveNode(state, n)]
            /\ \E c \in SchedulePendingFrom(state, Up(state, ready'), state.pending_queue) :
                  /\ state' = StartDaemon(c, n)
                  /\ inflight' = CapInflight(state')
                  /\ queue' = Pop(queue, e) (+)
                        IF c.pending_queue = <<>> THEN EmptyBag ELSE At(1, ProvisioningLoop)
            /\ UNCHANGED <<cordoned, launched>>

\* ProvisioningHandler: skip while the pods that launched nodes are for cover the
\* pending ones, else launch the claims and look again.
\* Mutant of Again: without delay.
AgainAtOnce(t) == At(0, ProvisioningLoop)

Again(t) == At(t, ProvisioningLoop)

Skip(pending, q) ==
    /\ pending <= inflight
    /\ queue' = q (+) IF pending = 0 THEN EmptyBag ELSE Again(ReconcileInterval)
    /\ UNCHANGED <<inflight, launched>>

\* One NodeLaunching a claim; those of one type are alike.
Launching(type) ==
    [e \in {[after |-> 1, event |-> [kind |-> "NodeLaunching", capacity |-> type[i]]] :
                 i \in DOMAIN type} |->
        Cardinality({i \in DOMAIN type : type[i] = e.event.capacity})]

Launch(pending, claims, q) ==
    /\ pending > inflight
    /\ inflight' = inflight + Addressed(claims)
    /\ launched' = launched + Len(claims)
    /\ IF claims = <<>> THEN queue' = q
       ELSE \E type \in LaunchTypes(claims) :
               queue' = q (+) Launching(type)
                        (+) Again(ReconcileInterval)
                        (+) IF pending > Addressed(claims) THEN Again(LoopInterval) ELSE EmptyBag

KarpenterProvisioningLoop ==
    \E e \in Due("KarpenterProvisioningLoop") :
        \E c \in SchedulePendingFrom(state, Up(state, ready), state.pending_queue) :
            /\ state' = c
            /\ \/ Skip(Len(c.pending_queue), Pop(queue, e))
               \/ \E claims \in Claims(c, launched) :
                      Launch(Len(c.pending_queue), claims, Pop(queue, e))
            /\ UNCHANGED <<ready, cordoned>>

\* step answers false on an empty queue and the run is over.
Finished == queue = EmptyBag /\ UNCHANGED vars

Next == \/ PodSubmitted \/ PodCompleted \/ PodResizeByOwner
        \/ NodeLaunching \/ NodeReady
        \/ KarpenterProvisioningLoop
        \/ Finished

Spec == Init /\ [][Next]_vars

\* run_until takes events for as long as there are any before its end time.
FairSpec == Spec /\ WF_vars(Next)

-----------------------------------------------------------------------------
TypeOK ==
    /\ state \in ClusterType
    /\ ready \in [Node -> BOOLEAN] /\ cordoned \in [Node -> BOOLEAN]
    /\ IsABag(queue)
    /\ inflight \in Nat /\ launched \in Nat

Pending == {p \in Pod : Is(state, p, "Pending")}
Scheduled(kinds) == {e \in DOMAIN queue : e.event.kind \in kinds}

\* Whatever order submissions, completions, resizes and preemptions come in, a live
\* node lists exactly its running pods and its allocation is what they request now:
\* the completion handler updates the node by hand and never calls state.rs.
BooksBalance == LinksAgree(state) /\ AllocationExact(state)

\* Every pending pod is in the pending queue, once: a pass, the provisioner and the
\* skip condition see the queue only, so a pod outside it would never be placed.
PendingQueued ==
    /\ NoDuplicates(state.pending_queue)
    /\ Pending \subseteq QueueSet(state.pending_queue)

\* The submitted pods of a node fit it.  Daemonset pods are bound blindly and may
\* overcommit the node, and preemption adds what it frees to an availability that
\* has saturated at zero: neither lets the submitted pods outgrow the node.
WorkFits ==
    \A n \in Node : LiveNode(state, n) =>
        MapThenSumSet(LAMBDA p : state.requests[p], state.podsOn[n] \cap Work)
            <= state.allocatable[n]

Evicted == {p \in Pod : Is(state, p, "Running") /\ state'.phase[p] = "Pending"}
NewlyOn(n) == state'.podsOn[n] \ state.podsOn[n]

\* Preemption serves priority: a running pod goes back to pending only in a pass in
\* which a waiting pod outranks it (find_victims).
EvictedForHigher ==
    [][\A v \in Evicted : \E p \in QueueSet(state.pending_queue) :
           Priority[p] > Priority[v]]_vars

\* A node whose NodeReady has been handled runs one daemonset pod, and no
\* preemption, completion or resize of others ever takes it away.
OneDaemonPerNode ==
    \A n \in Node :
        /\ LiveNode(state, n)
        /\ \A e \in Scheduled({"NodeReady"}) : e.event.node # n
        => Cardinality(state.podsOn[n] \cap Daemon) = 1

\* Every submitted pod is placed in the end when the pool may launch enough nodes:
\* the skip condition, the reconcile loop and the follow-ups of NodeReady never
\* leave a pod that nothing will look at again (handler.rs).
Served == \A p \in Work : LivePod(state, p) ~> state.phase[p] # "Pending"

-----------------------------------------------------------------------------
\* Said by the repository and not true of the code.

\* inflight_pods counts "Pods addressed by in-flight nodes (launched but not yet
\* ready)", so it is zero when no node is on its way.
InflightMeansNodesComing ==
    inflight > 0 => Scheduled({"NodeLaunching", "NodeReady"}) # {}

\* pending_queue holds "pods awaiting scheduling": a completed pod awaits nothing.
QueueAwaitsScheduling == QueueSet(state.pending_queue) \subseteq Pending

\* "Limits on what a NodePool can provision": never more than max_nodes.
WithinMaxNodes == launched <= MaxNodes

\* "Pod was bound after preempting lower-priority victims": the node a victim was
\* evicted from gets a pod that outranks it.
PreemptorIsBound ==
    [][\A v \in Evicted : \E p \in NewlyOn(state.node[v]) : Priority[p] > Priority[v]]_vars

\* "When no node passes filters, evaluate preemption candidates": a provisioning loop
\* that places nothing leaves no pending pod that could preempt.
PreemptsWhenFull ==
    [][KarpenterProvisioningLoop /\ state' = state =>
           \A p \in Pending : Preemptions(state, Up(state, ready), p) = {}]_vars

\* "Optional pod lifetime in nanoseconds (for batch jobs)": a pod that has one and runs
\* completes.
LifetimesEnd ==
    \A p \in Work : Duration[p] # 0 /\ Is(state, p, "Running") ~> state.phase[p] = "Succeeded"

\* "a periodic reconcile loop ... that re-checks the pending queue for unschedulable
\* pods": a pending pod that a node has room for is placed sooner or later.
RoomIsFound ==
    \A p \in Work : Is(state, p, "Pending") /\ Feasible(state, Up(state, ready), p) # {}
                       ~> ~ Is(state, p, "Pending")
=============================================================================

# Formal model of kubesim

kubesim is a discrete-event simulator of a Kubernetes cluster that Karpenter scales:
pods are submitted, scheduled, preempted, resized and completed; nodes are launched
for pending pods, drained and replaced by cheaper ones. Its core is about ten thousand
lines of Rust under `src/crates`. This directory holds TLA+ modules that model that core,
TLC configurations that check them on small instances and TLAPS proofs of theorems about
them. Paths below are relative to `src/crates` unless they start with `src/`.

## 1. Inventory

| Component | State | Operations | Interacts through | Modelled |
|---|---|---|---|---|
| Arena (`kubesim-core/src/arena.rs`) | entries with a generation, free stack, length | insert, remove, get, get_mut, iter | every `NodeId`, `PodId`, `ReplicaSetId` is one of its handles | yes |
| Cluster state (`kubesim-core/src/state.rs`, `types.rs`) | nodes, pods, replica sets, pending queue, disruption budgets | add/remove node, submit/bind/remove/evict/resize pod | called by every handler | yes |
| Engine (`kubesim-engine/src/lib.rs`) | binary heap of timed events, handlers | schedule, step, run_until | hands each event to every handler in order | yes |
| SimHandler, `run_single` (`kubesim-py/src/lib.rs`) | scheduler, strategy, wait queue, hints | one arm per event | scheduler, cluster state, events | partly |
| StepSimulation (`kubesim-py/src/lib.rs`) | engine, step counter | reset, step, observe | windows of `run_until` | yes |
| Scheduler (`kubesim-scheduler/src/lib.rs`) | topology caches, fingerprint of the last failure | filters, scores, preemption, schedule_one, schedule_pending_from | reads the cluster, binds and evicts | partly |
| Scheduling strategies (`kubesim-py`, `kubesim-scheduler`) | hints, saturated nodes, wait queue, domain budgets | FullScan, HintBased, Partitioned, NodePruning, ReverseSchedule | passes on NodeReady and on the provisioning loop | yes |
| DomainBudget, CapacityWaitQueue (`kubesim-py/src/lib.rs`) | placements per domain; two queues and a set | register, record, add, remove, fill a node | ReverseSchedule | yes |
| Provisioner (`kubesim-karpenter/src/provisioner.rs`, `nodepool.rs`) | claims and two indexes during a call | batch, deal into claims, decide | pending queue in, decisions out | partly |
| ProvisioningHandler (`handler.rs`) | inflight_pods, usage | skip, launch, look again | NodeLaunching, NodeReady | yes |
| ConsolidationHandler (`consolidation.rs`) | backoff interval, last state hash | plan, validate, cordon, schedule drains and replacements | NodeCordoned, NodeDrained, NodeTerminated, NodeLaunching | partly |
| DrainHandler (`consolidation.rs`) | none | evict a node's pods one by one under disruption budgets | evict_pod, PodTerminating, ReplicaSetReconcile, provisioning loop | partly, with the above |
| Version profiles (`version.rs`) | constants | strategy, batch limit, budgets per reason | both handlers above | partly |
| DriftHandler, SpotInterruptionHandler (`drift.rs`, `spot.rs`) | nodes being drained with their deadline; random generator | replace drifted nodes, interrupt spot nodes | cordon, evict, remove, launch | yes |
| ReplicaSetController, DeletionCostController (`kubesim-engine/src`) | none, ranking | reconcile to the desired count, rank victims | submit_pod, remove_pod | yes |
| DaemonSetHandler (`kubesim-engine/src/daemonset.rs`) | specs | submit and bind on NodeReady | submit_pod, bind_pod | yes |
| Metrics collector (`kubesim-metrics/src`) | counters, snapshots | one arm per event, totals | reads the cluster, reschedules its snapshot | partly |
| Workload loader, catalog, Python analysis | configuration, data | parsing, generation, reporting | before and after the event loop | no |

Everything runs on one thread, so what is hard is not data races but order. Events due at
the same instant come out of an unstable heap in any order. A node goes through launch,
start, cordon, drain and termination as separate events, with scheduling passes between
them. Ids are kept in events, lists, hints and indexes and used after what they named has
changed. Counters and caches (`inflight_pods`, `usage`, budgets, topology caches, saturated marks)
shadow state they are not always updated with. `PROJECT.json` lists these hazards
line by line with the properties that cover them.

What makes each part correct: *arena*: a stale handle never reads or writes another value,
no slot is given out twice. *Cluster state*: queue, links and allocations agree.
*Scheduler*: pods fit and are admitted, only lower priorities are evicted, a cache never
hides a place for ever. *Provisioning*: every pod is placed, a claim holds what it is decided for, limits hold.
*Consolidation, drain, drift, spot*: no pod is lost, pods' budgets hold, no node is planned for twice, a cordoned node
terminates. The nodes' own budget ought to hold too and does not (section 3). *Replica sets*: the count converges to the desired one. *Wait queue*: no pod is forgotten.
*Windows and metrics*: a window runs to its end, each pod that a drain takes is counted once.

## 2. Modules

| Module | Models |
|---|---|
| `HandleMap` | abstract: a partial map whose keys are never reused |
| `Arena` | `arena.rs`, which implements `HandleMap` |
| `Cluster`, `ClusterProofs` | `state.rs` as operators from a cluster record to the next; lemmas about folds, sums, these operators and what every pass of `Scheduler` comes to |
| `ClusterState` | `state.rs` under any caller |
| `CoreProofs` | the theorems about `Arena` and `ClusterState` |
| `EventQueue` | the engine's heap as a bag of events with the time left until each is due |
| `Scheduler` | the resource filter and score, preemption, `schedule_pending_from` |
| `Provisioner` | what a call of the provisioner comes to for pods without constraints, both paths |
| `NodeClaims`, `NodeClaimsProofs` | one call of the provisioner, pod by pod, for pods with anti-affinity and spread; the theorems about it |
| `Simulation`, `SimulationProofs` | the event loop: SimHandler, DaemonSetHandler, ProvisioningHandler; the theorems about it and the two modules that extend it, `Disruption` and `Stepping` |
| `Disruption` | extends `Simulation` with ConsolidationHandler, DrainHandler and the node events they schedule |
| `Metrics` | the collector's counters, snapshots and totals as operators |
| `Stepping` | extends `Disruption` and `Metrics`: StepSimulation's windows |
| `Constraints` | extends `Scheduler` with the filters and scores of taints, affinity and spread |
| `SpreadEntry`, `SpreadCache`, `SpreadCacheProofs` | one entry of the spread cache; the entry under any callers; the theorems about it |
| `SchedulingCaches` | extends `Constraints` with the caches and the passes that read them |
| `WaitQueue` | CapacityWaitQueue, DomainBudget and how they fill a node |
| `Strategies`, `StrategiesProofs` | SimHandler under each strategy, with both of the above; the theorems about it |
| `ReplicaTarget`, `ReplicaSets`, `ReplicaSetsProofs` | abstract: a count that moves to its target; the two controllers, which implement it; the theorems about them |
| `Drains`, `DrainsProofs` | drift, drain and spot interruption side by side under disruption budgets; the theorems about it |
| `MC...` | instances for TLC |

`Simulation`, `Disruption` and `Stepping` have the times of the code, because deadlines,
gaps and limits are what can go wrong there. `Strategies`, `ReplicaSets` and `Drains` have events
without times: a pending event may come at any moment, which allows every order the
times allow and more. So a safety property that holds there holds for every setting of the
delays; each module says which orders a delay fixes and keeps those.

### Arena
`entries`, `free` and `len` are the fields of the struct; `ret` records the last call and its
answer, so that the refinement is about what callers see. Slots count from 1. `Issued` is
the set of handles a caller can hold; every operation takes any of them, stale ones
included. `insert` is two actions (reuse, push), the others one each. `MaxSlots` and
`MaxGen` bound the instance. Generations are not wrapped: a u32 overflow needs 2^32 reuses of
one slot.

### Cluster, ClusterState
One record holds what `ClusterState` holds. Ids follow the arena's contract: `fresh`, `live`,
`gone`. Resources are one number, because the code treats its four dimensions alike;
subtraction saturates as in `Resources::saturating_sub`. `SwapRemove` reorders the queue as
`Vec::swap_remove` does. `pods` of a node is a set here and a vector in the code, where no
pod is ever listed twice (the phase check of `bind_pod`); where the order matters it is left
open, or chosen once and kept for a handler's run. `ClusterState` lets any caller
call anything with any id ever given out. Handlers compose the operators of `Cluster`.

### EventQueue, Simulation
An event carries the time left until it is due; taking one subtracts its time from the rest.
This is `state.time` without an unbounded clock. Each event kind is an action that does all
that the registered handlers do with it, in the order of `run_single`. The initial state has
the initial nodes (ready, each with a NodeReady event at time 0), one PodSubmitted per
pod at each time the instance allows, the first provisioning loop at time 1, and resize events.

* `PodSubmitted`: submit, try the pod at once, bind and schedule its completion, or ask
  for provisioning. The preemption `schedule_one` may propose is dropped, as in the code.
* `PodCompleted`: `Succeeded` whatever the phase, node updated by hand, queue untouched.
* `NodeLaunching`, `NodeReady`: a node joins (unready unless `Startup = 0`), then a pass
  over the pending queue, then the daemonset pod, then the cap on `inflight`.
* `KarpenterProvisioningLoop`: a pass, then skip or launch with both follow-up loops.

A pass (`SchedulePendingFrom`) keeps the three early exits of the code: no candidate node
left, the fingerprint of the last failure, and a failure after a success. The nodes with the
best score may win, any of them, since a seeded generator breaks ties; so a pass has a set of
outcomes. Memory is taken to go with CPU, so that BalancedAllocation scores all nodes alike.

Left out here: the batch jitter, logical time (only the constants differ), several pools,
HPA. Node ids and daemonset pod ids are finite: an event that needs an id that is not there
waits, so an instance with too few deadlocks, and deadlock is checked everywhere.

### Provisioner, NodeClaims
`Provisioner` gives the loop of `Simulation` its decisions: the fast path for identical pods,
the first fit with move-to-front, and the greedy path of the v0.35 profile. `NodeClaims` is the
same call step by step: `claims`, `available` and `holders` (the code's `owner_available` and
`label_to_claims`) are its local
variables, `Place`, `Open` and `GiveUp` one turn of its loop over the pods. `todo` is the rest of the
batch, dealt in the order `Before`; a claim is the pod that opened it and the set of pods it holds. A list of
`owner_available` is a set of positions, since its order is always that in which its claims were opened (`Sooner`).
A label is a value, a selector a set of labels; of the instance types only the largest tells what a claim may hold. Batches are dealt in any order, as the iteration over a hash map gives them.
CPU and memory limits of a pool and GPUs are left out.

### Disruption
Three variables are added. `young` is, per node, the time left until it is
`consolidate_after` old: `created_at` without a clock. `last_state_hash` and
`current_interval` are the handler's fields. `Simulated` lets every event of `Simulation`
happen and ages the nodes; the other actions are the events that are new.

* `KarpenterConsolidationLoop`: skip with backoff when `StateHash` is the last one evaluated;
  else plan, cordon and schedule. The hash is computed as in the code, from the same
  five numbers. `Plans` is `Evaluate` (empty nodes, then drains chosen one by one, then
  replacements, or the cost-justified choice, within the budgets of the loop and of each reason), `Feasibly`
  (`simulate_and_validate`) and `Validated` (`validate_before_execute`). The arena's order of
  nodes and the nodes' order of pods decide ties and first fits; one order of each is
  chosen per loop, so a loop has a set of plans.
* `NodeCordoned`, `NodeDrained`, `NodeTerminated`: the turns of a plan, `Stabilization` apart.
  The drain evicts running pods that are not a daemonset's, in any order, and asks for
  provisioning. `NodeTerminated` removes the node with whatever is on it.

First fit and the two greedy choices are stated by what characterises them (each pod goes to the
first node with room beside those before it; a node is chosen if and only if its pods fit
given the choices before it) and not by a loop.

Left out: budgets with a schedule or for one reason (no profile has one), several pools.
With several pools each pool's handler answers the one loop event and
reschedules it, so that the loops multiply: that hazard has no property.

### Constraints, SpreadEntry, SpreadCache, SchedulingCaches
The filters and scores of taints, node affinity, pod affinity and topology spread, hard and
soft, and preemption that counts violated disruption budgets. Labels are values under keys; a
selector stands for the pods it matches. `SpreadEntry` is an entry (domains, counts, minimum) with
its notices; `SpreadCache` puts one entry under callers that bind and remove pods with or
without a notice; `SchedulingCaches` is a map of entries, of match answers and of counts beside the
cluster, filled by what a pass asks for (`Filled`), with the pass of
`Scheduler` taken over these filters. Rounding of scores is left out.

### WaitQueue, Strategies
`AddWaiting`, `RemoveWaiting`, `Fresh` are the lazy queue; `Registered`, `BudgetAllows`,
`Recorded` the budgets; `FillNode` is what NodeReady does with them. `Strategies` has one action
per event of SimHandler; NodeReady and the loop branch on the strategy. Launches are up to
the provisioner, which is left open here: a node may be launched whenever pods pend.

### ReplicaTarget, ReplicaSets
`ReplicaTarget` lets a count move to its target in one step, or the target change, and says
that it settles. `ReplicaSets` maps the count to the pods of the owner that run or
pend. Pods get their indices from the arena's free list, since a scale-down goes by index. The
scheduler and one consolidation move the pods about.

### Drains
The run starts with `InitialNodes` and all pods submitted, in any order (`SubmitAll`). A scan is
two loops over the nodes, in the arena's order: `ContinueAll` over the handler's list, then `BeginAll`
over what has drifted since. `DriftScan` is one check with the retries and the timeout of the nodes it drains already;
`NodeDrained` is DrainHandler with budgets; `SpotInterruptionCheck` and `SpotInterruption` the
notice and the loss. A deadline is a step of its own that may come when it likes, since
nothing else depends on its length. DriftHandler is a handler that the engine's users register;
`run_single` does not.

### Metrics, Stepping
`windows` are the loop variables of `run_until` and `step`; `left` is the time to the end of the
window. `handled` counts against `EventBudget`. PodTerminating events, all due at once,
are the count `notices`. Snapshots are computed (`Survey`) at their events; shares are
percentages. The collector records scheduling latencies only at events that no handler schedules; these are
not modelled. `StepObs.disruptions` is the constant 0, as in the code.

## 3. Runs

| Run | Shows |
|---|---|
| `arena` | contract, free list and length under stale handles. 3 slots, 2 generations, 2 values: two vacated slots in either order, each reused while old handles are held |
| `cluster_state` | exact books under any calls. 2 nodes of 3, 3 pods of 1 or 2: some pairs of pods fit a node and some do not |
| `compete` | 4 pods of 4 priorities, one node of 4 and one launched, two completions, a resize of an owner, a daemonset pod per node that no fit is asked for; submission times vary, so passes, completions and node starts fall on the same instants |
| `consolidate` | 5 nodes of 2 and 4, 3 pods: one completes, one is protected, one comes before the first plan or between its turns. A plan of three takes turns at 0, 6 and 12 and its last node goes after the next loop, at 12, has made its own plan of drains or replacements: still no node is planned for twice, books stay exact, and no submitted pod goes down with its node |
| `rest` | liveness, with the v0.35 profile: pods fill nodes of 4 and 5, so that nodes are drained and launched; every cordoned node terminates and every pod is placed again |
| `stepping` | 3 windows over 3 nodes under the cost-justified policy, nodes that start instantly, 40 events per window, a late pod that preempts another in a pass: each window runs to its end, no pending pod is left to nobody, each eviction by a drain is counted once |
| `spread_cache` | 4 nodes in 2 zones or in none, 3 pods: a cached minimum is never too high, and an entry that is exact stays so over notices |
| `strategies` | 5 strategies, 4 pods with tolerations, anti-affinity, attraction and hard spread, an unlabelled node, two tainted ones launched one after the other, one of them drained |
| `claims` | all queues of up to 5 pods of 7 kinds, a largest type of 3, a pool at 0 or 3 of 5 nodes: four claims and the third miss happen, as does the limit |
| `replicas` | 2 owners of up to 3 pods, one labelled do-not-disrupt, scaled up and down while a node joins and another is drained, under PreferEmptyingNodes |
| `drains` | a drifted node, a spot node and a consolidated one, 2 pods of a budget that wants one, a daemonset pod each |
| `starved` | expected to fail, see below |

What some of the properties catch: `StaysForABudget` and `DriftedGo` say together that a budget delays
a drift and cannot stop it. `ApartWhileKnown` separates the passes, which keep pods apart,
from the one thing that breaks anti-affinity, a cached answer that a bind did not invalidate.
`KeepsTarget` is the refinement of `ReplicaTarget` with its liveness. `IndexesExact` recomputes
what the two indexes should say after any number of moves to the front.
`TerminatedOnce` counts the terminations on the queue, as a plan that took a node of an earlier plan again, while its turn is
still to come, would drain, terminate and perhaps replace it twice. `PendingLookedAfter` and `WindowsComplete` are about what keeps the simulation alive and what
keeps it from running away: every pending pod has an event ahead, and no window spends its limit of events.

Every property of a passing run has a mutant: a definition with a plausible bug
(`RemoveVacant`, `EvictPodForgets`, `MovedClaimsOnly`, ...) that stands before the definition it
mutates, and with which the run fails.

### What the code does not keep
The run `starved` and the configurations below each check one statement of the repository. `starved`
fails because a pod squeezed out of its node by another stays counted in `inflight_pods`
after the last node is ready (`handler.rs:125`, `:18`), and the provisioning loop skips it for ever.
The others give their counterexamples when run by hand
(`tlc -config <file> <module>`, the module being the first part of the file's name):

| Configuration | Statement | What happens |
|---|---|---|
| `MCSimulation_preemptor` | `kubesim-scheduler/src/lib.rs:889` bound after preempting | a preempted pod that completes stays in the queue; in a later pass it evicts a running pod, `bind_pod` refuses it and nothing takes the place |
| `MCSimulation_reconcile` | `handler.rs:18` the periodic loop re-checks the pending queue | at `max_nodes` the loop has stopped; a completion makes room and nobody looks |
| `MCDisruption_young` | `consolidation.rs:540` young nodes are exempt | a replacement does not look at the age |
| `MCDisruption_budget` | `nodepool.rs:30` "Maximum percentage of nodes that may be disrupted simultaneously", `:33` for the count | a loop takes a full budget whatever earlier plans have cordoned (`consolidation.rs:968`). Two turns end before the next loop, 15 s apart where the interval is 30 s; the third outlasts it, and the second plan exceeds the budget |
| `MCStrategies_apart` | `kubesim-scheduler/src/lib.rs:258` required anti-affinity | PodSubmitted binds without telling the caches; a later pass trusts the cached "no match" |
| `MCStrategies_hints` | `src/docs/accuracy-audit.md:92` binds immediately after eviction | a hinted pod that was bound before its node came is tried again: it preempts a running pod, `bind_pod` refuses it and another pod takes the place |
| `MCReplicaSets_newer` | `replicaset.rs`: newer pods first, higher index is newer | the arena reuses indices, so a newer pod may have the lower one |

Variations of the same files that fail too (keep the rest of the file, replace its properties):

| Base, changes, property | What happens |
|---|---|
| `MCSimulation_starved`, `SPECIFICATION Spec`: `InflightMeansNodesComing` | `handler.rs:35`; the cause of `starved` |
| `MCSimulation_starved`, `SPECIFICATION Spec`, `Priority <- SameRank`, `Owner <- SameOwner`, `Capacities = {4}`, `MaxNodes = 1`, `Size <- SameSize`: `WithinMaxNodes` | `nodepool.rs:5`: the fast path for identical pods ignores `max_nodes` |
| `MCSimulation_reconcile`, `Pod = {p1}`, `MaxNodes = 3`, `SubmitTimes <- Staggered`, `InitialNodes = {}`: `LifetimesEnd` | `kubesim-engine/src/lib.rs:44`: a pod bound by a later pass than its submission never completes |
| `MCSimulation_compete`: `QueueAwaitsScheduling` | `src/ARCHITECTURE.md:82`; the cause of `preemptor` |
| `MCSimulation_compete`, `Resizes = {}`: `PreemptsWhenFull` | `src/ARCHITECTURE.md:128`: on full nodes the pass ends before preemption is evaluated |
| `MCDisruption_budget`, `MaxDisruptedCount = {2}`, `Stabilization = 60`: `BudgetHeld` | `consolidation.rs:914`: in logical time the stabilization does not scale, and a budget of two is exceeded too |
| `MCDisruption_young`, `SPECIFICATION FairDisruption`, `Node = {n1, n2}`, `Capacities = {2}`, `InitialNodes = {n1, n2}`, `Policy = "WhenEmpty"`: `EmptyNodesGo` | `consolidation.rs:4`: the hash leaves out the time, so a node too young at the last evaluation stays for ever |
| `MCDisruption_young`: `PodsAwaitReplacement` | `consolidation.rs:728`: the provisioner launches a second node for the pods of a replaced one |
| `MCDisruption_consolidate`, six nodes, `Pod = {p1, p2, p3}`, `Size <- Filling`, `SubmitTimes <- Follow`, `InitialNodes = {n1}`, `Protected = {p2}`: `UsageIsCurrent` | `nodepool.rs:46`: a terminated node is counted for ever |
| `MCStrategies`, `Strategy = {"ReverseSchedule"}`, no symmetry: `AlwaysAdmitted` | a node is filled from the wait queue without asking for taints or node affinity |
| the same with `Taints <- NoTaints`, `Matching <- AllWeb`, `PodAffinity <- NoTerms`, `Spread <- HostSpread`: `HardCap` | `kubesim-py/src/lib.rs`: a submission binds past the domain budget |
| `MCReplicaSets`, `SPECIFICATION Spec`, `Pod = {1, 2, 3}`, `Replicas <- TwoWeb`, `InitialNodes = {n1, n2}`, `Scales <- Down`: `ProtectedPreserved` | `deletion_cost.rs`: a node that becomes protected after the ranking keeps the low costs of its pods until the next one |
| `MCReplicaSets_newer`, `Replicas <- Threes`, `RsStrategy = "PreferEmptyingNodes"`, `Scales <- Down`: `EmptiestFirst` | pods are costed by how many share their node, negated, so the fullest node goes first |
| `MCDrains`, `SPECIFICATION Spec`: `DriftKeepsBudget` | `drift.rs:39`: drained respecting budgets, but each pod is checked before any is evicted |
| `MCDrains`, `SPECIFICATION Spec`, `OtherLabels = {}`, `Spot = {}`, `Consolidated = {n1}`: `HeldBackStay` | a pod a budget held back is left running on a node that is gone |
| `MCDrains`, `SPECIFICATION Spec`, `Spot = {}`, `Consolidated = {}`: `DaemonsStay` | drift evicts daemonset pods |
| `MCDrains`, `SPECIFICATION Spec`, `OtherLabels = {}`, `Spot = {}`, `Consolidated = {n1, n2}`: `DrainKeepsServing` | a pod that went down with its node counts as available for the next drain |
| `MCStepping`: `PreemptionsCounted` | `src/ARCHITECTURE.md:235`, `kubesim-metrics/src/lib.rs:8` "Pod disruption count (evictions, preemptions, spot interruptions)": the collector counts PodTerminating events, which drains send for each pod they take; a pass evicts its victims without one (`kubesim-scheduler/src/lib.rs:1277`) |
| `MCStepping`: `SubmittedIsTracked` | `collector.rs:241`: the collector runs before the pod is added and takes another one |
| `MCStepping`, `EventBudget = 5`: `NothingOverdue` | `kubesim-engine/src/lib.rs:216`: at the limit of events `step` sets the clock past what is still due |
| `MCSpreadCache`: `MinIsLeast` | a cached minimum lags behind after removals; it is too low, never too high |
| `MCNodeClaims`: `SharedByAll` | `provisioner.rs:570`: a pod that spreads is tried only on claims its own owner opened |
| `MCNodeClaims`, `MaxPods = 2`, `MaxNodes = 1`, `Usages = {0}`, `Largest = 1`: `LimitUsed` | a pod too large for every type takes up the limit with a claim that is never launched |

### Bounds
The ratios of the code's times are kept where they matter: the loop's interval 30 s, the
stabilization 15 s and `consolidate_after` 15 s are 12, 6 and 6, so that the single-unit
steps of a turn (cordon +1, drain +2, termination +3, launch +4) stay within it, and a third turn does not stay within the interval. The cap of
the backoff is twice the interval instead of ten times. Instances have as many nodes as the longest chain of
replacements and launches needs, no more: a missing id would show as a deadlock. Three consecutive
misses in `claims` need four claims, so five pods; a wait queue that is used after a completion, an eviction and a
return needs a pod that does each, so four pods in `strategies`.

### Fairness
`FairSpec` of `Simulation` and `FairDisruption` are weak fairness of the whole next-state relation:
the engine takes the next event for as long as there is one (`run_until_with_budget`). Nothing is
assumed of which of several simultaneous events comes first. `ReplicaSets` and `Drains`, whose events have no
times, say instead that no event stays in the queue for ever: every event is due at some
time and no handler schedules for the past; in `Drains` also that time passes (`ScanIntervalPasses`,
`DeadlinePasses`). Nothing is assumed of spot interruptions, consolidations or scale events happening.
A real run has an end time, an event budget and a wall-clock limit; liveness is about
runs that are not cut off. `Finished` stutters on an empty queue, so a deadlock report means that
an instance ran out of ids.

## 4. Proofs

The assumptions are the named ones of the modules, and no more. A theorem is about every value of the
constants that satisfies them: the runs show the same properties on small instances.

`CoreProofs`, on the arena, for any values, slots and generations: `ArenaInvariant` proves the inductive
invariant `ArenaInv`, from which `TypeCorrect`, `FreeListCorrect` and `LenCorrect` follow.
The free list and the length are proved together: a pop gives a vacant slot only because the
stack is exact, and `len` counts occupied slots only if a push or pop changes occupancy by one.
`ArenaImplementsHandleMap` uses the invariant to map every step to one of
`HandleMap` or a stutter; that a reused slot's handle is new follows from `Issued`.

`ClusterProofs` has the lemmas that the others rest on, those of the arena and the spread cache apart.
*Folds*: a fold is, by its definition, the value of a recursive function at a set of positions.
`FoldSolved` shows that such a function exists, `FoldWalked` that its values at 1..n are a walk
from one state to the next; what a loop keeps is then shown step by step along the walk
(`WalkInduction`). The library's induction theorems take an operator, which no prover here instantiates; these
take the set of counterexamples instead, which has no least member (`NatDescent`, `SubsetDescent`).
*Sums*: `SumRecursion` and what follows from it, that a sum changes by the term that comes or goes
(`SumAdd`, `SumRemove`), is the same for equal terms and splits.
*The cluster*: `Sound` joins typing, `LinksAgree`, `AllocationExact`, that a running pod names a node that was
there (`Placed`) and that lists are finite. They need each other: an eviction gives
back what the pod requests, which keeps the sum exact only if the node it names lists it. `Kept(c, d)`
says that `Sound`, `Queued` and `QueueExact` pass from one cluster to another; each operation of `state.rs` has
a lemma `...Kept`, and a lemma `...Effect` with what it changes.

*Passes*: `PassOutcome` is about every outcome of a scheduling pass, whichever nodes and victims it
picks (`PassedTo`): the cluster is kept; a pod stops running only for one of higher
priority that was in the snapshot; a node that is not up gains no pod, others gain pods of the snapshot alone;
no pod is newly left on a node that is gone; and the pods of a class to which no other yields never outgrow a node.
The last needs the victims' part: `StillFits` shows that they free what the preemptor lacks, also where
pods outside the class overcommit the node.

`CoreProofs`, on the cluster's state, for any nodes, pods, sizes and capacities: `ClusterInvariant` proves that
the queue is exact and the cluster sound under any calls. `ClusterTypeCorrect`, `PendingCorrect`,
`LinkCorrect` and `AllocationCorrect` are its parts.

`SimulationProofs`, for any workload, sizes, priorities, lifetimes, resizes and daemonset:
`SimulationInvariant` proves `IInv`: the cluster is `Steady` (sound, pending pods queued, submitted pods fit,
daemonset pods run from the event that brings them), every event on the queue finds what its handler takes for granted
(`QueueSound`: a pod to be submitted is fresh, and is submitted once; a node that is to become ready was added), and each node
without a NodeReady to come has its daemonset pod (`DaemonsOn`). The queue has to be in it, since a second PodSubmitted
of one pod would put it on the queue twice. `BooksBalanceCorrect`, `PendingQueuedCorrect`, `WorkFitsCorrect`
and `OneDaemonCorrect` are its parts, `EvictedForHigherCorrect` an action property from the same steps. `QueueExact` is
not in it, as the code does not keep it here: a preempted pod that completes stays queued.

The same module goes on to `Disruption`, for any policy, profile and intervals: every handler of `Simulation` is shown to keep
what consolidation counts on, then each of the four of its own. `DisruptionInvariant` proves `DInv`, which adds to `IInv` that no event is
overdue (`Punctual`), that the loop is queued and only live nodes are cordoned, and what the events of a plan foretell (`Planned`): the node they name is cordoned while it lives, a drain finds no protected
pod on it, and a termination finds no submitted pod unless a drain still comes before it. A plan is made several
events before they arrive, with passes, launches and other plans in between, so this has to be kept by every handler:
`DrainedBeforeGone` and `ProtectedStay` are the moments at which it is used. `NothingNewCorrect` assumes that
nodes take time to start or that there is no daemonset, since TLC finds it violated otherwise: a node that is up at once may be
cordoned before its NodeReady brings the daemonset pod. With a startup time `Newcomers` says that a node with a NodeReady to come is not
cordoned, and comes up before the next loop could choose it. `DisruptionTypeCorrect` has the bounds of the backoff, and `DisruptionSound` says that
the books, the queue and the nodes' limits survive consolidation.

`Stepping` follows, for any windows, limits of events and snapshot intervals: `SteppingSound` carries `DInv` and its parts through
snapshots, notices and the ends of windows, and `DisruptionsAccountedCorrect` shows that what the collector has counted and what is due to be
counted together grow by the evicted pods in every step that takes pods off cordoned nodes alone, and stay as they are in a step that
evicts none. That needs `DInv`: a pod of a cordoned node leaves it by a drain, which sends the notices, and by no pass, because a pass
leaves those nodes alone. Of the steps that preempt it says nothing; the variation `PreemptionsCounted` of `MCStepping` shows that they are not counted.

`ReplicaSetsProofs`, for any owners, targets, scale events and strategies: `ReplicaSetsInvariant` proves `IInv`: sound books and an exact
queue, no pod ends (`Steady`), and the arena gives one slot to one pod (`Slotted`), without which a pod
that is scaled down would not be the one that was chosen. `ReplicaTargetImplemented` maps each step to one of `ReplicaTarget` or a stutter:
a reconcile submits what is missing or removes what is too much, one pod after the other along folds, and the number of
an owner's pods is the target at their end; drains, passes, joins and terminations change no owner's number. It is the
safety part of `KeepsTarget`; that a count settles is liveness. `ProtectedRankHigherCorrect` assumes that the limit of the one strategy
that has a limit covers the nodes; the others need nothing.

`DrainsProofs`, for any nodes, pods, budgets, and any drift, consolidation and spot interruption: `DrainsInvariant`
proves `IInv`: the cluster is sound and its queue exact, only drifted nodes that were there from the start are on the list of the drift
handler (`DrainListed`), and for each node what its events foretell (`Foreseen`): one that is to be terminated is `Doomed`,
that is empty and closed, or cordoned by a plan with only what a drain had to leave. `Doomed` is what keeps
a pass between drain and termination from putting a pod on the node. A step that only evicts pods and removes empty nodes
`Shrinks` the cluster; budgets count fewer pods then, so what a budget holds back stays held back, and along the two loops of a
scan a node that has been visited stays `Settled`. Of this follow `StaysForABudgetCorrect`; `DrainKeepsBudgetCorrect`, by a
walk along the drain's list that asks the budgets again at each pod; `StrandedOnlyByDrainCorrect`; and `TypeCorrect`.

`StrategiesProofs`, for any workload, nodes, labels and constraints of pods, and for every strategy: `StrategiesInvariant` proves `IInv`,
which has four parts. `Placing`: the cluster is sound, pods fit where they run and, but under ReverseSchedule, are admitted by the taints and
labels of their node. `Remembered`: the caches, hints, saturated marks and budgets keep their form, and whoever waits has an
entry in the queue of its owner (`WaitOk`). `Announced`: a launch on the queue has a node left to launch, a completion on it a pod
that was submitted. `PendingAreWaiting`: under ReverseSchedule who pends waits, or the loop is queued. They need each other: a pass
binds only pending pods because the queue is exact, a node filled from the wait queue is not overfilled because each entry handed out
pends and is handed out once (`FillNodeOutcome`: the fill is two folds, over owners and over free pods, and the pods to bind so far ask
for no more than what was open), and a pod that completes or is evicted leaves the wait queue to those who
still pend. `StrategiesTypeCorrect`, `WellPlacedCorrect` and `NobodyForgottenCorrect` are its parts.

The cached passes are those of `PassOutcome` with memory: `CachedPassOutcome` says that each outcome keeps what a pass keeps, that
bound pods are admitted, and `CachedTo` that, if the cache of matches missed none before, it misses none after and no two pods that keep
apart share a domain. The last holds though a pass reads the cache and not the nodes: an entry that says "none" is true when it is
filled, a pod bound by the pass turns to "some" every entry it matches, and an eviction can only leave an entry too
careful. `ApartWhileKnownCorrect` follows, for every event; its premise is needed, since PodSubmitted binds without telling the
caches (`MCStrategies_apart`). The caches, budgets and hints are tables of no fixed domain: `StrategiesAssumption` says of the data of
pods only what their types in the source say, that constraints are lists, that a skew is positive and that budgets ask for a
number of pods.

`NothingFeasibleLeftCorrect` is about how each try of a pass ends. `PassTriesAll` walks along the pass (`CachedPassWalks`): after each
pod either a pod that was pending has come to run (`Moved`; whoever evicts it again is such a pod), or the cluster is as it was and
what was tried was tried in vain (`InVain`). A pass that gives up at once has no node with room for the least
request; a pod that is skipped has the fingerprint of one that failed, and what admits a pod depends on no more (`SamePrint`);
and a pod that the caches or a saturated mark kept from a node with room is caught by preemption, for which no list of victims
ranks before the empty one (`LastResort`, `NoVictimsNeeded`, `ViolationsLeast`).

`SpreadCacheProofs`, for any nodes, pods and domains: `SpreadCacheInvariant` proves `CacheSafe`, which is
inductive as it stands: typing, the known domains and the minimum hold each other up, because a notice
for an unknown domain would start a count below the minimum. `CachedMinimumIsSafe` and `CachedDomainsAreLive` are its parts.
`NoticesKeepExact` is the action property: binding one pod raises one count by one
(`CountAfterBinding`), and the minimum is raised when the last domain that stood at it
leaves it (`LeastAfterNotice`).

`NodeClaimsProofs`, for any workloads, queues, limits and sizes: `Invariant` proves `IInv`, which joins
`IndexesExact` and `ClaimsSound` with `Typed` and `Apart`, that every pod is in one place: a batch to come, the rest
of the batch at hand, a claim or a decision. The indexes stay exact through a move because the exchange of two positions is its own
inverse (`SwapInvolution`), so that a renamed set is the set of what is renamed into it. A claim stays sound
because `SoundGrows`: the conflict is checked both ways and the count before the pod is below every skew.
The fast path checks nothing when it deals; its shares are sound because of arithmetic
(`ShareBound`): pods of one share have different quotients of their position, of which there are as
many as pods may share a claim. `IndexesCorrect` and `ClaimsCorrect` are the parts of the invariant.

`PackedCorrect` adds to that invariant `PInv`: `Packed` itself, that no node is empty, and `Keyed`, that pods not yet decided for
differ in their batch's key from the pods of every other batch, so that two nodes of different batches need not fit one. Within a
batch a pod without constraints opens a claim only after all claims refused it, for want of room alone, and a
claim only grows (`TightGrows`). The fast path compares nothing: its shares are tight because of arithmetic again. With `needed` the
least number of nodes, any two shares hold more pods than one node may (`SharesExceed`, from `TurnsOfTwo`: for `d` nodes, where
`d - 1` would not do, `n div d` and `(n + 1) div d` come to more than `most`), and pods of one size ask for a multiple of it
(`TotalUniform`). The sums are those of `ClusterProofs`, instantiated with no nodes and no pods, since its lemmas about sums speak of
neither.

Only model-checked:

* Liveness, which is out of the prover's reach: `Served`, `CordonedGo`, `DriftedGo`, and of `KeepsTarget` that a count settles.
* `TerminatedOnce`. That a later plan leaves alone what an earlier one cordoned follows from `Candidates`; that one plan does not both drain
  and replace a node is no theorem, since first fit is not monotone: pods that fit when some nodes are taken away may not when they are there.
* `WindowsComplete` and `PendingLookedAfter`. They depend on the limit of events and on the pool's limits: with other limits
  a window is cut off, and a pending pod is left to nobody (`MCSimulation_reconcile`).

## 5. Not modelled

* Workload loader, generators, scenario and trace formats; the instance catalog; export formats and entropies of the
  metrics; the Python analysis, the adversarial search and the KWOK comparison: parsing, data and
  reporting around the event loop.
* Several node pools, CPU and memory limits of a pool, GPUs, disruption schedules and budgets per
  reason: the instances have one pool
  of one resource, and no version profile has a budget with a schedule or a reason. Several pools would
  answer the same loop events (the hazard at `consolidation.rs:1069`).
* Functions no run calls: `schedule_for_node`, `cheapest_fit`, `score_best_instance`, `schedule_pending`.
* The conformance tests, which are tests and not part of the program.

## 6. Plan

1. Several pools that share the loop events, with limits on CPU and memory.
2. The v1 profiles' budgets with a schedule, once a profile uses them.

------------------------------- MODULE Stepping -------------------------------
(***************************************************************************)
(* StepSimulation (kubesim-py/src/lib.rs): the simulation advanced window  *)
(* by window, each a run_until of the engine (kubesim-engine/src/lib.rs)   *)
(* with its limit of events, and the collector that counts beside it.      *)
(* run_single is the case of one window.  The clock is the time of the     *)
(* last event; between windows the code sets it to the window's end, which *)
(* is ahead of the last event by what is left of the window.               *)
(***************************************************************************)
EXTENDS Disruption, Metrics

CONSTANTS StepDuration,      \* step_duration
          MaxSteps,          \* max_steps, at which an episode is truncated
          EventBudget,       \* max_events of run_until
          FirstSnapshot,     \* when the workload asks for the first snapshot
          SnapshotInterval   \* 30 ticks, or 30 s if the clock runs in nanoseconds

ASSUME SteppingAssumption ==
    /\ StepDuration \in Nat \ {0} /\ MaxSteps \in Nat /\ EventBudget \in Nat \ {0}
    /\ FirstSnapshot \in Nat /\ SnapshotInterval \in Nat \ {0}

VARIABLES running,       \* inside run_until
          left,          \* from the last event to the end of the window
          handled,       \* events of the window
          current_step,
          notices,       \* the PodTerminating events in the queue, all due at once
          collector,
          obs            \* what the last step returned

windows == <<running, left, handled, current_step>>
stepVars == <<allVars, windows, notices, collector, obs>>

Snapshots == [kind |-> "MetricsSnapshot"]

\* The time of the last event.
Now == (current_step + IF running THEN 1 ELSE 0) * StepDuration - left

\* Something is due before the window ends.
DueWithin == notices > 0 \/ (queue # EmptyBag /\ Elapsed <= left)

-----------------------------------------------------------------------------
\* StepSimulation::observe, which cannot see the collector.
Observe ==
    [survey |-> Survey(state), disruptions |-> 0, availability |-> Availability(Survey(state)),
     cpu_utils |-> [n \in NodesIn(state) |-> Utilization(state, n)]]

\* reset: the events of the workload, the loops, and the first snapshot.
StepInit ==
    /\ InitWith(At(1, ConsolidationLoop) (+) At(FirstSnapshot, Snapshots))
    /\ ConsolidationInit
    /\ running = FALSE /\ left = 0 /\ handled = 0 /\ current_step = 0
    /\ notices = 0 /\ collector = NewCollector
    /\ obs = Observe

\* step: run_until(state.time + step_duration).
BeginStep ==
    /\ ~ running /\ current_step < MaxSteps
    /\ running' = TRUE /\ left' = left + StepDuration /\ handled' = 0
    /\ UNCHANGED <<allVars, current_step, notices, collector, obs>>

EndStep ==
    /\ running
    /\ ~ DueWithin \/ handled = EventBudget
    /\ running' = FALSE /\ current_step' = current_step + 1
    /\ obs' = Observe
    /\ UNCHANGED <<allVars, left, handled, notices, collector>>

\* Engine::step takes an event that is due in d.
Takes(d) ==
    /\ running /\ handled < EventBudget
    /\ d <= left
    /\ left' = left - d /\ handled' = handled + 1
    /\ UNCHANGED <<running, current_step, obs>>

\* The collector sees a submission before SimHandler adds the pod.
Submits == \E p \in Work : ~ LivePod(state, p) /\ LivePod(state', p)

\* DrainHandler announces the pods it evicts.
Notices == {p \in Pod : Is(state, p, "Running") /\ Is(state', p, "Pending")}

\* An event of the other modules, handled by the handlers they model.
OtherEvent ==
    /\ queue # EmptyBag /\ Takes(Elapsed)
    /\ notices > 0 => Elapsed = 0
    /\ \/ /\ NodeDrained
          /\ notices' = notices + Cardinality(Notices)
          /\ UNCHANGED collector
       \/ /\ Simulated \/ KarpenterConsolidationLoop \/ NodeCordoned \/ NodeTerminated
          /\ collector' = IF Submits THEN OnPodSubmitted(collector, state) ELSE collector
          /\ UNCHANGED notices

PodTerminating ==
    /\ notices > 0 /\ Takes(0)
    /\ notices' = notices - 1
    /\ collector' = OnPodTerminating(collector, "Consolidation")
    /\ UNCHANGED allVars

MetricsSnapshot ==
    /\ queue # EmptyBag /\ Takes(Elapsed)
    /\ notices > 0 => Elapsed = 0
    /\ \E e \in Due("MetricsSnapshot") :
          /\ queue' = Pop(queue, e) (+) At(SnapshotInterval, Snapshots)
          /\ collector' = OnMetricsSnapshot(collector, state, Now + Elapsed)
    /\ UNCHANGED <<state, ready, cordoned, inflight, launched, handler, notices>>
    /\ Aged

terminated == notices = 0 /\ queue = EmptyBag /\ state.pending_queue = <<>>
truncated == current_step >= MaxSteps

\* Nobody steps an episode that was truncated.
Over == ~ running /\ truncated /\ UNCHANGED stepVars

StepNext == \/ BeginStep \/ EndStep
            \/ OtherEvent \/ PodTerminating \/ MetricsSnapshot
            \/ Over

StepSpec == StepInit /\ [][StepNext]_stepVars
-----------------------------------------------------------------------------
\* run_until stops at the end of its window and not at its limit of events: no chain of
\* loops, drains and launches reschedules itself without time passing, or multiplies.
WindowsComplete == running /\ handled = EventBudget => ~ DueWithin

\* In a step that evicts pods of cordoned nodes alone, or none, each is counted once and
\* nothing else is, however drains, snapshots and new plans are interleaved with the
\* notices.  Of a step that preempts this says nothing: see PreemptionsCounted.
Counted == collector.disruption_count + notices
DisruptionsAccounted ==
    [][(\A p \in Evicted : cordoned[state.node[p]])
           => Counted' = Counted + Cardinality(Evicted)]_stepVars

\* No window begins, ends or stops in between with a pending pod that nothing in the queue
\* will look at: after every drain, eviction and late submission a loop or a node is on its
\* way, so an episode goes on for as long as a pod waits.
PendingLookedAfter ==
    Pending # {} => Scheduled({"KarpenterProvisioningLoop", "NodeLaunching", "NodeReady"}) # {}

-----------------------------------------------------------------------------
\* Said by the repository and not true of the code.

\* "Pod disruption count (evictions, preemptions, spot interruptions)": a pass preempts
\* without an event that the collector would see.
PreemptionsCounted == [][Counted' = Counted + Cardinality(Evicted)]_stepVars

\* "Track pending time for the most recently added pod.  The pod was just inserted into
\* state by a prior handler."
SubmittedIsTracked ==
    [][Submits => \E p \in collector'.pending_since : ~ LivePod(state, p)]_stepVars

\* "Run until the queue is empty or `until` time is reached": between steps the clock, which
\* step sets to the window's end, is not ahead of an event.
NothingOverdue ==
    ~ running => (notices > 0 => left = 0) /\ (queue # EmptyBag => left <= Elapsed)
=============================================================================

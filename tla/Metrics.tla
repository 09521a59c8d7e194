------------------------------- MODULE Metrics -------------------------------
(***************************************************************************)
(* What a run measures: the collector inside SimHandler (kubesim-metrics/  *)
(* src/collector.rs, snapshot.rs), and the totals and observations that    *)
(* kubesim-py/src/lib.rs makes of the state and of the snapshots.  Shares  *)
(* are percentages and the entropies are left out, as is the arm for       *)
(* SpotInterruption, an event that does not occur in Stepping.             *)
(***************************************************************************)
EXTENDS Provisioner

\* One pass over the arenas, as take_snapshot, observe and the summary of a run make it.
NodesIn(c) == {n \in Node : LiveNode(c, n)}
InPhase(c, phase) == Cardinality({p \in Pod : LivePod(c, p) /\ c.phase[p] = phase})

Utilization(c, n) ==
    IF c.allocatable[n] = 0 THEN 0 ELSE (100 * c.allocated[n]) \div c.allocatable[n]

Survey(c) ==
    [node_count |-> Cardinality(NodesIn(c)),
     cost |-> MapThenSumSet(LAMBDA n : Price[c.allocatable[n]], NodesIn(c)),
     running |-> InPhase(c, "Running"),
     pending |-> InPhase(c, "Pending"),
     pod_count |-> Cardinality({p \in Pod : LivePod(c, p)})]

\* The fraction of the pods that are not over which run.
Availability(s) ==
    IF s.running + s.pending = 0 THEN 100 ELSE (100 * s.running) \div (s.running + s.pending)

\* percentile_sorted: the index is rounded, halves away from zero.
Percentile(c, k) ==
    LET Below(u) == {n \in NodesIn(c) : Utilization(c, n) <= u}
        index == (2 * k * (Cardinality(NodesIn(c)) - 1) + 100) \div 200
    IN  IF NodesIn(c) = {} THEN 0
        ELSE Min({u \in {Utilization(c, n) : n \in NodesIn(c)} : Cardinality(Below(u)) > index})

-----------------------------------------------------------------------------
\* MetricsCollector::handle, which SimHandler calls before it handles the event itself.
NewCollector ==
    [disruption_count |-> 0, consolidation_evictions |-> 0, scale_down |-> 0,
     pending_since |-> {}, snapshots |-> <<>>]

\* The time is recorded for the last pod of the queue.
OnPodSubmitted(m, c) ==
    IF c.pending_queue = <<>> THEN m
    ELSE [m EXCEPT !.pending_since = @ \cup {Last(c.pending_queue)}]

\* Mutant of OnPodTerminating: an eviction by consolidation counts as two disruptions.
OnPodTerminatingTwice(m, source) ==
    [m EXCEPT !.disruption_count = @ + 2, !.consolidation_evictions = @ + 1]

OnPodTerminating(m, source) ==
    CASE source = "Consolidation" -> [m EXCEPT !.disruption_count = @ + 1,
                                               !.consolidation_evictions = @ + 1]
      [] source \in {"SpotInterruption", "Unknown"} -> [m EXCEPT !.disruption_count = @ + 1]
      [] source = "ScaleDown" -> [m EXCEPT !.scale_down = @ + 1]

\* take_snapshot
OnMetricsSnapshot(m, c, time) ==
    [m EXCEPT !.snapshots = Append(@, [time |-> time, survey |-> Survey(c),
                                       cpu_utilization |-> [k \in {50, 90, 99} |-> Percentile(c, k)],
                                       disruption_count |-> m.disruption_count])]

-----------------------------------------------------------------------------
\* compute_cumulative.  The integrals are trapezoidal and doubled here; an interval that
\* saw disruptions counts whole for each of them.
Cumulative(snapshots) ==
    LET s == snapshots
        dt(i) == s[i].time - s[i - 1].time
        Twice(Rate(_)) == MapThenSumSet(LAMBDA i : (Rate(i - 1) + Rate(i)) * dt(i), 2..Len(s))
    IN  [node_time |-> Twice(LAMBDA i : s[i].survey.node_count),
         cost |-> Twice(LAMBDA i : s[i].survey.cost),
         pending_time |-> Twice(LAMBDA i : s[i].survey.pending),
         disruption_time |->
             MapThenSumSet(LAMBDA i : (s[i].disruption_count - s[i - 1].disruption_count) * dt(i), 2..Len(s)),
         disruption_count |-> IF s = <<>> THEN 0 ELSE Last(s).disruption_count,
         peak_node_count |-> Max({0} \cup {s[i].survey.node_count : i \in DOMAIN s}),
         time_to_stable |->
             Max({0} \cup {s[i].time : i \in {j \in 2..Len(s) :
                              s[j].survey.node_count # s[j - 1].survey.node_count}})]
=============================================================================

------------------------------- MODULE Scheduler -------------------------------
(***************************************************************************)
(* The scheduling passes of kubesim-scheduler/src/lib.rs as operators on a *)
(* cluster record, for the resource filter and preemption by priority.     *)
(* A seeded generator breaks ties between the nodes of the highest score:  *)
(* here any of them wins, so a pass has a set of outcomes.  up is the set  *)
(* of nodes that are ready and not cordoned.                               *)
(***************************************************************************)
EXTENDS Cluster, SequencesExt

CONSTANTS Priority,  \* the priority of every pod
          Scoring    \* the ScoringStrategy of the profile

ASSUME ScoringAssumption == Scoring \in {"MostAllocated", "LeastAllocated"}

Available(c, n) == SatSub(c.allocatable[n], c.allocated[n])

\* Mutant of Fits: what the node offers, whatever is on it.
FitsEmptyNode(c, p, n) == c.requests[p] <= c.allocatable[n]

Fits(c, p, n) == c.requests[p] <= Available(c, n)
Requested(c, q) == FoldLeft(LAMBDA total, p : total + c.requests[p], 0, q)

\* The filter phase of schedule_one.
Feasible(c, up, p) == {n \in up : LiveNode(c, n) /\ Fits(c, p, n)}

\* utilisation_score, in percent.  Memory is used in proportion to the CPU, so that
\* BalancedAllocation scores all nodes alike.
UtilisationScore(c, p, n) ==
    IF c.allocatable[n] = 0 THEN 0
    ELSE (100 * (c.allocated[n] + c.requests[p])) \div c.allocatable[n]

AllocationScore(c, p, n) ==
    IF Scoring = "MostAllocated" THEN UtilisationScore(c, p, n) ELSE 100 - UtilisationScore(c, p, n)

\* The nodes schedule_one may answer for a pod that asks for resources alone: those the
\* one scorer that tells them apart puts highest.
BestNodes(c, up, p) ==
    {n \in Feasible(c, up, p) :
        \A m \in Feasible(c, up, p) : AllocationScore(c, p, m) <= AllocationScore(c, p, n)}

\* Mutant of Evictable: whatever the priority.
EvictableAny(c, p, n) == SetToSeqs(c.podsOn[n])

\* The lower-priority pods of n in an order sort_by_key may leave them in.
Evictable(c, p, n) ==
    {s \in SetToSeqs({v \in c.podsOn[n] : Priority[v] < Priority[p]}) :
        \A i, j \in DOMAIN s : i < j => Priority[s[i]] <= Priority[s[j]]}

\* find_victims: the shortest prefix that makes room; no member if none does.
Victims(c, p, n) ==
    LET Room(s) == c.requests[p] <= Available(c, n) + Requested(c, s)
    IN  {s \in UNION {Prefixes(t) : t \in Evictable(c, p, n)} :
            Room(s) /\ \A t \in Prefixes(s) \ {s} : ~ Room(t)}

PreemptionCost(s) ==
    <<Len(s), FoldLeft(LAMBDA total, p : total + Priority[p], 0, s)>>
Cheaper(a, b) == a[1] < b[1] \/ (a[1] = b[1] /\ a[2] <= b[2])

\* evaluate_preemption: fewest victims, then least total priority.
Preemptions(c, up, p) ==
    {x \in UNION {{n} \X Victims(c, p, n) : n \in {m \in up : LiveNode(c, m)}} :
        \A n \in {m \in up : LiveNode(c, m) /\ Victims(c, p, m) # {}} :
            \E s \in Victims(c, p, n) : Cheaper(PreemptionCost(x[2]), PreemptionCost(s))}

Preempt(c, p, n, victims) == BindPod(FoldLeft(EvictPod, c, victims), p, n)

-----------------------------------------------------------------------------
(***************************************************************************)
(* schedule_pending_from: one pass over a snapshot q of pods.  A pass is   *)
(* [c, open, bound, skip, over]: the cluster so far, the candidate nodes,  *)
(* whether it bound any pod, the shape of the last unschedulable pod, and  *)
(* whether it has stopped.                                                 *)
(***************************************************************************)
HasRoom(c, least, n) == LiveNode(c, n) /\ Available(c, n) >= least

PassStart(c, up, least) ==
    [c |-> c, open |-> {n \in up : HasRoom(c, least, n)},
     bound |-> FALSE, skip |-> {}, over |-> FALSE]

PassBinds(s, least, p, n) ==
    LET c == BindPod(s.c, p, n)
    IN  [s EXCEPT !.c = c, !.bound = TRUE, !.skip = {},
                  !.open = {m \in @ : HasRoom(c, least, m)}]

PassPreempts(s, p, x) ==
    [s EXCEPT !.c = Preempt(@, p, x[1], x[2]), !.bound = TRUE, !.skip = {}]

PassFails(s, p) ==
    IF s.bound THEN [s EXCEPT !.over = TRUE]
               ELSE [s EXCEPT !.skip = {s.c.requests[p]}]

\* What one pod may do to a pass.  Neither the phase of the pod nor its priority
\* is looked at before it is scheduled.
PassStep(s, up, least, p) ==
    LET nodes == BestNodes(s.c, up, p)
        preemptions == Preemptions(s.c, up, p)
    IN  IF s.over \/ s.open = {} THEN {[s EXCEPT !.over = TRUE]}
        ELSE IF s.c.requests[p] \in s.skip THEN {s}
        ELSE IF nodes # {} THEN {PassBinds(s, least, p, n) : n \in nodes}
        ELSE IF preemptions # {} THEN {PassPreempts(s, p, x) : x \in preemptions}
        ELSE {PassFails(s, p)}

SchedulePendingFrom(c, up, q) ==
    LET live == {p \in QueueSet(q) : LivePod(c, p)}
        least == IF live = {} THEN 0 ELSE Min({c.requests[p] : p \in live})
        Step(passes, p) == UNION {PassStep(s, up, least, p) : s \in passes}
    IN  {s.c : s \in FoldLeft(Step, {PassStart(c, up, least)}, q)}
=============================================================================

------------------------------- MODULE Cluster -------------------------------
(***************************************************************************)
(* The operations of ClusterState (kubesim-core/src/state.rs) as operators *)
(* from one cluster record to the next, so that a handler that makes       *)
(* several calls is their composition.                                     *)
(*                                                                         *)
(* Nodes and pods live in arenas.  By the arena's contract an id is given  *)
(* out once and a call with the id of a removed value finds nothing, so an *)
(* id is a member of Node or Pod with a life: "fresh", then "live", then   *)
(* "gone".  Resources are one number: every check and every update of the  *)
(* code treats the four dimensions alike.                                  *)
(***************************************************************************)
EXTENDS Integers, Sequences, FiniteSetsExt

CONSTANTS Node,    \* node ids
          Pod,     \* pod ids
          NoNode   \* Pod.node = None

ASSUME NoNodeAssumption == NoNode \notin Node

Life == {"fresh", "live", "gone"}
PodPhase == {"Pending", "Running", "Succeeded"}
ResizeStatus == {"None", "Completed", "Infeasible"}

ClusterType ==
    [nodes : [Node -> Life], allocatable : [Node -> Nat], allocated : [Node -> Nat],
     podsOn : [Node -> SUBSET Pod],
     pods : [Pod -> Life], phase : [Pod -> PodPhase], node : [Pod -> Node \cup {NoNode}],
     requests : [Pod -> Nat], resize_status : [Pod -> ResizeStatus],
     pending_queue : Seq(Pod)]

\* ClusterState::new
EmptyCluster ==
    [nodes |-> [n \in Node |-> "fresh"], allocatable |-> [n \in Node |-> 0],
     allocated |-> [n \in Node |-> 0], podsOn |-> [n \in Node |-> {}],
     pods |-> [p \in Pod |-> "fresh"], phase |-> [p \in Pod |-> "Pending"],
     node |-> [p \in Pod |-> NoNode], requests |-> [p \in Pod |-> 0],
     resize_status |-> [p \in Pod |-> "None"], pending_queue |-> <<>>]

LiveNode(c, n) == n \in Node /\ c.nodes[n] = "live"
LivePod(c, p) == c.pods[p] = "live"
Is(c, p, ph) == LivePod(c, p) /\ c.phase[p] = ph

SatSub(a, b) == IF a >= b THEN a - b ELSE 0

\* Vec::swap_remove at the first occurrence of p, if there is one.
SwapRemove(q, p) ==
    IF \E i \in DOMAIN q : q[i] = p
    THEN LET i == CHOOSE i \in DOMAIN q : q[i] = p /\ \A j \in 1..i - 1 : q[j] # p
         IN  SubSeq([q EXCEPT ![i] = q[Len(q)]], 1, Len(q) - 1)
    ELSE q

-----------------------------------------------------------------------------
\* add_node: the arena gives out an id that was never used.
AddNode(c, n, capacity) ==
    [c EXCEPT !.nodes[n] = "live", !.allocatable[n] = capacity,
              !.allocated[n] = 0, !.podsOn[n] = {}]

\* remove_node drops the node's value and leaves its pods as they are.
RemoveNode(c, n) ==
    IF LiveNode(c, n)
    THEN [c EXCEPT !.nodes[n] = "gone", !.allocatable[n] = 0,
                   !.allocated[n] = 0, !.podsOn[n] = {}]
    ELSE c

SubmitPod(c, p, size) ==
    [c EXCEPT !.pods[p] = "live", !.phase[p] = "Pending", !.node[p] = NoNode,
              !.requests[p] = size, !.pending_queue = Append(@, p)]

\* bind_pod checks the phase and the node, never the fit.
CanBind(c, p, n) == Is(c, p, "Pending") /\ LiveNode(c, n)
BindPod(c, p, n) ==
    IF CanBind(c, p, n)
    THEN [c EXCEPT !.allocated[n] = @ + c.requests[p], !.podsOn[n] = @ \cup {p},
                   !.phase[p] = "Running", !.node[p] = n,
                   !.pending_queue = SwapRemove(@, p)]
    ELSE c

\* Mutant of Release: the node keeps listing the pod.
ReleaseKeepsLink(c, p, n) ==
    IF LiveNode(c, n) THEN [c EXCEPT !.allocated[n] = SatSub(@, c.requests[p])] ELSE c

\* Give back what pod p holds on node n, if the node still exists.
Release(c, p, n) ==
    IF LiveNode(c, n)
    THEN [c EXCEPT !.allocated[n] = SatSub(@, c.requests[p]), !.podsOn[n] = @ \ {p}]
    ELSE c

\* Mutant of RemovePod: the pending queue keeps the pod.
RemovePodKeepsQueue(c, p) ==
    IF LivePod(c, p)
    THEN [Release(c, p, c.node[p]) EXCEPT
              !.pods[p] = "gone", !.phase[p] = "Pending", !.node[p] = NoNode,
              !.requests[p] = 0, !.resize_status[p] = "None"]
    ELSE c

RemovePod(c, p) ==
    IF LivePod(c, p)
    THEN [Release(c, p, c.node[p]) EXCEPT
              !.pods[p] = "gone", !.phase[p] = "Pending", !.node[p] = NoNode,
              !.requests[p] = 0, !.resize_status[p] = "None",
              !.pending_queue = SwapRemove(@, p)]
    ELSE c

CanEvict(c, p) == Is(c, p, "Running") /\ c.node[p] # NoNode

\* Mutant of EvictPod: the pod is not put back on the queue.
EvictPodForgets(c, p) ==
    IF CanEvict(c, p)
    THEN [Release(c, p, c.node[p]) EXCEPT !.phase[p] = "Pending", !.node[p] = NoNode]
    ELSE c

EvictPod(c, p) ==
    IF CanEvict(c, p)
    THEN [Release(c, p, c.node[p]) EXCEPT !.phase[p] = "Pending", !.node[p] = NoNode,
                                          !.pending_queue = Append(@, p)]
    ELSE c

CanResize(c, p) == Is(c, p, "Running") /\ LiveNode(c, c.node[p])

ResizeFits(c, p, size) ==
    LET n == c.node[p]
    IN  size <= SatSub(c.allocatable[n], c.allocated[n]) + c.requests[p]

\* Mutants of ResizePod: old and new swapped; the node's books left as they are.
ResizePodSwapped(c, p, size) ==
    IF ~ CanResize(c, p) THEN c
    ELSE [c EXCEPT !.allocated[c.node[p]] = @ - size + c.requests[p], !.requests[p] = size]

ResizePodUnbooked(c, p, size) ==
    IF ~ CanResize(c, p) \/ ~ ResizeFits(c, p, size) THEN c
    ELSE [c EXCEPT !.requests[p] = size]

ResizePod(c, p, size) ==
    IF ~ CanResize(c, p) THEN c
    ELSE IF ~ ResizeFits(c, p, size) THEN [c EXCEPT !.resize_status[p] = "Infeasible"]
    ELSE [c EXCEPT !.allocated[c.node[p]] = SatSub(@, c.requests[p]) + size,
                   !.requests[p] = size, !.resize_status[p] = "Completed"]

-----------------------------------------------------------------------------
QueueSet(q) == {q[i] : i \in 1..Len(q)}
NoDuplicates(q) == \A i, j \in 1..Len(q) : q[i] = q[j] => i = j

\* The pending queue holds every pending pod once and nothing else.
QueueExact(c) ==
    /\ NoDuplicates(c.pending_queue)
    /\ QueueSet(c.pending_queue) = {p \in Pod : Is(c, p, "Pending")}

\* A live node lists exactly the running pods that name it.
LinksAgree(c) ==
    \A n \in Node : c.nodes[n] = "live" =>
        \A p \in Pod : p \in c.podsOn[n] <=> Is(c, p, "Running") /\ c.node[p] = n

\* A live node's allocation is what its pods request now.
AllocationExact(c) ==
    \A n \in Node : c.nodes[n] = "live" =>
        c.allocated[n] = MapThenSumSet(LAMBDA p : c.requests[p], c.podsOn[n])

\* Running on a node that no longer exists.
Ghost(c, p) == Is(c, p, "Running") /\ ~ LiveNode(c, c.node[p])
=============================================================================

----------------------------- MODULE ClusterState -----------------------------
(***************************************************************************)
(* ClusterState driven by any caller: every public operation, with any id  *)
(* ever given out, in any order.                                           *)
(***************************************************************************)
EXTENDS Cluster

CONSTANTS Sizes,      \* what a pod may request
          Capacities  \* what a node may offer

ASSUME SizesAssumption == Sizes \subseteq Nat /\ Capacities \subseteq Nat

VARIABLE state        \* the cluster record

ClusterInit == state = EmptyCluster

AddNodeStep(n, capacity) ==
    /\ state.nodes[n] = "fresh"
    /\ state' = AddNode(state, n, capacity)

RemoveNodeStep(n) ==
    /\ state.nodes[n] # "fresh"
    /\ state' = RemoveNode(state, n)

SubmitPodStep(p, size) ==
    /\ state.pods[p] = "fresh"
    /\ state' = SubmitPod(state, p, size)

BindPodStep(p, n) ==
    /\ state.pods[p] # "fresh" /\ state.nodes[n] # "fresh"
    /\ state' = BindPod(state, p, n)

RemovePodStep(p) ==
    /\ state.pods[p] # "fresh"
    /\ state' = RemovePod(state, p)

EvictPodStep(p) ==
    /\ state.pods[p] # "fresh"
    /\ state' = EvictPod(state, p)

ResizePodStep(p, size) ==
    /\ state.pods[p] # "fresh"
    /\ state' = ResizePod(state, p, size)

ClusterNext ==
    \/ \E n \in Node : \/ \E capacity \in Capacities : AddNodeStep(n, capacity)
                       \/ RemoveNodeStep(n)
    \/ \E p \in Pod : \/ \E size \in Sizes : SubmitPodStep(p, size)
                      \/ \E n \in Node : BindPodStep(p, n)
                      \/ RemovePodStep(p)
                      \/ EvictPodStep(p)
                      \/ \E size \in Sizes : ResizePodStep(p, size)

ClusterSpec == ClusterInit /\ [][ClusterNext]_state

-----------------------------------------------------------------------------
ClusterTypeOK == state \in ClusterType

\* The pending queue holds every pending pod once and nothing else, or the
\* scheduler would place a pod twice, or never (submit, bind, remove, evict).
PendingExact == QueueExact(state)

\* A live node lists exactly the running pods that name it: both ends of the
\* binding are written by different statements of bind, evict and remove.
LinkExact == LinksAgree(state)

\* A live node's allocation is the sum of the current requests of its pods: no
\* sequence of binds, resizes, evictions and removals leaks or frees capacity,
\* so the saturating subtractions never saturate.
AllocatedExact == AllocationExact(state)
=============================================================================

SPECIFICATION ClusterSpec
CONSTANTS
    Node = {n1, n2}
    Pod = {p1, p2, p3}
    NoNode = NoNode
    Sizes = {1, 2}
    Capacities = {3}
SYMMETRY Symmetry
INVARIANTS ClusterTypeOK PendingExact LinkExact AllocatedExact

SPECIFICATION DisruptionSpec
CONSTANTS
    p1 = p1  p2 = p2  p3 = p3  p4 = p4
    NoNode = NoNode
    Node = {n1, n2, n3, n4, n5, n6}
    Pod = {p1}
    Priority <- Ranks
    Scoring = "LeastAllocated"
    Owner <- Unowned
    Capacities = {2}
    Price <- Prices
    Version = "none"
    MaxNodes = 9
    Size <- Sizes
    Duration <- Brief
    SubmitTimes <- Visit
    InitialNodes = {n1, n2, n3, n4, n5, n6}
    Daemon = {}
    DaemonSize = 0
    Resizes = {}
    Startup = 3
    LoopInterval = 2
    ReconcileInterval = 4
    Policy = "WhenEmpty"
    Threshold = 50
    DeletionCost <- NoCosts
    MaxCandidates = 10
    MaxDisruptedCount = {3}
    MaxDisruptedPct = 10
    Protected = {}
    ConsolidateAfter = 6
    ConsolidationInterval = 12
    MaxInterval = 24
    Stabilization = 6
INVARIANTS BudgetHeld

SPECIFICATION FairDisruption
CONSTANTS
    p1 = p1  p2 = p2  p3 = p3  p4 = p4
    NoNode = NoNode
    Node = {n1, n2, n3, n4, n5, n6}
    Pod = {p1, p2, p4}
    Priority <- Ranks
    Scoring = "LeastAllocated"
    Owner <- Unowned
    Capacities = {4, 5}
    Price <- Prices
    Version = "V0_35"
    MaxNodes = 9
    Size <- Sizes
    Duration <- Durations
    SubmitTimes <- Times
    InitialNodes = {n1, n2}
    Daemon = {}
    DaemonSize = 0
    Resizes = {}
    Startup = 3
    LoopInterval = 2
    ReconcileInterval = 4
    Policy = "WhenUnderutilized"
    Threshold = 50
    DeletionCost <- NoCosts
    MaxCandidates = 10
    MaxDisruptedCount = {2}
    MaxDisruptedPct = 10
    Protected = {}
    ConsolidateAfter = 6
    ConsolidationInterval = 12
    MaxInterval = 24
    Stabilization = 6
PROPERTIES CordonedGo Served

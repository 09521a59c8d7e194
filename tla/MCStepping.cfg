SPECIFICATION StepSpec
CONSTANTS
    p1 = p1  p2 = p2  p3 = p3  p4 = p4
    NoNode = NoNode
    Node = {n1, n2, n3, n4, n5, n6, n7}
    Pod = {p1, p2, p3, p4}
    Priority <- Ranks
    Scoring = "LeastAllocated"
    Owner <- Unowned
    Capacities = {2, 4}
    Price <- Prices
    Version = "none"
    MaxNodes = 9
    Size <- Sizes
    Duration <- Durations
    SubmitTimes <- Times
    InitialNodes = {n1, n2, n3}
    Daemon = {}
    DaemonSize = 0
    Resizes = {}
    Startup = 0
    LoopInterval = 2
    ReconcileInterval = 4
    Policy = "WhenCostJustifiesDisruption"
    Threshold = 50
    DeletionCost <- NoCosts
    MaxCandidates = 3
    MaxDisruptedCount = {2}
    MaxDisruptedPct = 10
    Protected = {}
    ConsolidateAfter = 6
    ConsolidationInterval = 12
    MaxInterval = 24
    Stabilization = 6
    StepDuration = 14
    MaxSteps = 3
    EventBudget = 40
    FirstSnapshot = 10
    SnapshotInterval = 15
INVARIANTS WindowsComplete PendingLookedAfter
PROPERTIES DisruptionsAccounted

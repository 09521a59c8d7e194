SPECIFICATION DisruptionSpec
CONSTANTS
    p1 = p1  p2 = p2  p3 = p3  p4 = p4
    NoNode = NoNode
    Node = {n1, n2, n3, n4, n5, n6, n7, n8}
    Pod = {p1, p3, p4}
    Priority <- Ranks
    Scoring = "MostAllocated"
    Owner <- Unowned
    Capacities = {2, 4}
    Price <- Prices
    Version = "none"
    MaxNodes = 9
    Size <- Halves
    Duration <- Durations
    SubmitTimes <- Times
    InitialNodes = {n1, n2, n3, n4, n5}
    Daemon = {}
    DaemonSize = 0
    Resizes = {}
    Startup = 3
    LoopInterval = 2
    ReconcileInterval = 4
    Policy = "WhenUnderutilized"
    Threshold = 50
    DeletionCost <- NoCosts
    MaxCandidates = 10
    MaxDisruptedCount = {3}
    MaxDisruptedPct = 10
    Protected = {p3}
    ConsolidateAfter = 6
    ConsolidationInterval = 12
    MaxInterval = 24
    Stabilization = 6
INVARIANTS DisruptionTypeOK TerminatedOnce
PROPERTIES DrainedBeforeGone NothingNewOnCordoned ProtectedStay

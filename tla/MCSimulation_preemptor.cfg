SPECIFICATION Spec
CONSTANTS
    p1 = p1  p2 = p2  p3 = p3  p4 = p4  p5 = p5  p6 = p6
    web = web  job = job
    NoNode = NoNode
    Node = {n1, n2, n3}
    Pod = {p1, p2, p3, p4, p5, p6}
    Priority <- CrowdRanks
    Scoring = "LeastAllocated"
    Owner <- Unowned
    Capacities = {2, 3}
    Price <- Prices
    Version = "none"
    MaxNodes = 1
    Size <- CrowdSizes
    Duration <- CrowdDurations
    SubmitTimes <- CrowdTimes
    InitialNodes = {n1, n2}
    Daemon = {}
    DaemonSize = 0
    Resizes = {}
    Startup = 8
    LoopInterval = 2
    ReconcileInterval = 3
PROPERTIES PreemptorIsBound

SPECIFICATION FairSpec
CONSTANTS
    p1 = p1  p2 = p2  p3 = p3  p4 = p4  p5 = p5  p6 = p6
    web = web  job = job
    NoNode = NoNode
    Node = {n1, n2, n3}
    Pod = {p1, p2, p3}
    Priority <- Ranks
    Scoring = "LeastAllocated"
    Owner <- Owners
    Capacities = {3, 4}
    Price <- Prices
    Version = "none"
    MaxNodes = 3
    Size <- Sizes
    Duration <- Endless
    SubmitTimes <- AtStart
    InitialNodes = {}
    Daemon = {}
    DaemonSize = 0
    Resizes = {}
    Startup = 2
    LoopInterval = 2
    ReconcileInterval = 3
PROPERTIES Served

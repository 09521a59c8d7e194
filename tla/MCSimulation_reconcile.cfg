SPECIFICATION FairSpec
CONSTANTS
    p1 = p1  p2 = p2  p3 = p3  p4 = p4  p5 = p5  p6 = p6
    web = web  job = job
    NoNode = NoNode
    Node = {n1}
    Pod = {p1, p2, p3}
    Priority <- Ranks
    Scoring = "LeastAllocated"
    Owner <- Owners
    Capacities = {4}
    Price <- Prices
    Version = "none"
    MaxNodes = 0
    Size <- Sizes
    Duration <- Durations
    SubmitTimes <- Spread
    InitialNodes = {n1}
    Daemon = {}
    DaemonSize = 0
    Resizes = {}
    Startup = 2
    LoopInterval = 2
    ReconcileInterval = 3
PROPERTIES RoomIsFound

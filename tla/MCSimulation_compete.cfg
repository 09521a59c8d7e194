SPECIFICATION Spec
CONSTANTS
    p1 = p1  p2 = p2  p3 = p3  p4 = p4  p5 = p5  p6 = p6
    web = web  job = job
    NoNode = NoNode
    Node = {n1, n2}
    Pod = {p1, p2, p3, p4, d1, d2}
    Priority <- Ranks
    Scoring = "LeastAllocated"
    Owner <- Owners
    Capacities = {4}
    Price <- Prices
    Version = "none"
    MaxNodes = 1
    Size <- Sizes
    Duration <- Durations
    SubmitTimes <- Staggered
    InitialNodes = {n1}
    Daemon = {d1, d2}
    DaemonSize = 2
    Resizes <- Resized
    Startup = 2
    LoopInterval = 2
    ReconcileInterval = 3
INVARIANTS BooksBalance PendingQueued OneDaemonPerNode WorkFits
PROPERTIES EvictedForHigher

SPECIFICATION Spec
CONSTANTS
    n1 = n1  n2 = n2  n3 = n3
    p1 = p1  p2 = p2  p3 = p3  p4 = p4
    none = none  h2 = h2  h3 = h3  z2 = z2  z3 = z3
    app = app  web = web  job = job
    NoNode = NoNode
    NoLabel = none
    UnnamedHost = ""
    Node = {n2}
    Pod = {p1, p2, p3}
    Key = {"host", "zone"}
    Priority <- Ranks
    Scoring = "LeastAllocated"
    Labels <- NodeLabels
    Taints <- NoTaints
    Tolerations <- TolerateSome
    NodeAffinity <- AnyNode
    Matching <- GuestAndApp
    PodAffinity <- AllApart
    Spread <- NoTerms
    Pdbs = {}
    Owner <- Owners
    Strategy = {"FullScan"}
    Size <- Ones
    Batch = {}
    Capacity <- Wide
    InitialNodes = {}
    LaunchOrder <- LaunchedOne
    Startup = 1
    Drainable = {}
    MaxCount = 2
INVARIANTS AntiAffinityHeld

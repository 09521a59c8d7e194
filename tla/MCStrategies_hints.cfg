SPECIFICATION Spec
CONSTANTS
    n1 = n1  n2 = n2  n3 = n3
    p1 = p1  p2 = p2  p3 = p3  p4 = p4
    none = none  h2 = h2  h3 = h3  z2 = z2  z3 = z3
    app = app  web = web  job = job
    NoNode = NoNode
    NoLabel = none
    UnnamedHost = ""
    Node = {n1, n2}
    Pod = {p1, p2, p3, p4}
    Key = {"host", "zone"}
    Priority <- Ranks
    Scoring = "LeastAllocated"
    Labels <- NodeLabels
    Taints <- NoTaints
    Tolerations <- TolerateAll
    NodeAffinity <- ThirdZone
    Matching <- Selected
    PodAffinity <- NoTerms
    Spread <- NoTerms
    Pdbs = {}
    Owner <- Owners
    Strategy = {"HintBased"}
    Size <- SmallThird
    Batch = {}
    Capacity <- Uneven
    InitialNodes = {n1}
    LaunchOrder <- LaunchedOne
    Startup = 1
    Drainable = {}
    MaxCount = 2
PROPERTIES EvictedForWaiting

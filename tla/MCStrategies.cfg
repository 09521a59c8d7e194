SPECIFICATION Spec
CONSTANTS
    n1 = n1  n2 = n2  n3 = n3
    p1 = p1  p2 = p2  p3 = p3  p4 = p4
    none = none  h2 = h2  h3 = h3  z2 = z2  z3 = z3
    app = app  web = web  job = job
    NoNode = NoNode
    NoLabel = none
    UnnamedHost = ""
    Node = {n1, n2, n3}
    Pod = {p1, p2, p3, p4}
    Key = {"host", "zone"}
    Priority <- Ranks
    Scoring = "LeastAllocated"
    Labels <- NodeLabels
    Taints <- NodeTaints
    Tolerations <- TolerateSome
    NodeAffinity <- LastZone
    Matching <- Selected
    PodAffinity <- ApartNearWeb
    Spread <- ZoneAndHosts
    Pdbs = {}
    Owner <- Owners
    Strategy = {"FullScan", "HintBased", "Partitioned", "NodePruning", "ReverseSchedule"}
    Size <- Sizes
    Batch = {p3}
    Capacity <- Roomy
    InitialNodes = {n1}
    LaunchOrder <- Launched
    Startup = 1
    Drainable = {n2}
    MaxCount = 2
SYMMETRY Alike
INVARIANTS TypeOK WellPlaced NobodyForgotten
PROPERTIES NothingFeasibleLeft ApartWhileKnown

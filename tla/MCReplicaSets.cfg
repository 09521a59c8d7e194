SPECIFICATION FairSpec
CONSTANTS
    n1 = n1  n2 = n2  web = web  db = db
    NoNode = NoNode
    Node = {n1, n2}
    Pod = {1, 2, 3, 4}
    Priority <- SameRank
    Scoring = "LeastAllocated"
    Owner <- Owned1
    Replicas <- Ones
    Size <- Ones
    TemplateCost <- NoCost
    Labelled = {db}
    RsStrategy = "None"
    Controller = "PreferEmptyingNodes"
    TopN = 50
    Capacity <- Offered
    ProtectedNodes = {}
    InitialNodes = {n1}
    Drainable = {n1}
    Scales <- UpAndDown
PROPERTIES KeepsTarget ProtectedRankHigher

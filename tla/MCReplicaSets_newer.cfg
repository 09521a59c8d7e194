\* A slot of the arena that is reused: the pod with the highest index is not the newest.
SPECIFICATION Spec
CONSTANTS
    n1 = n1  n2 = n2  web = web  db = db
    NoNode = NoNode
    Node = {n1, n2}
    Pod = {1, 2, 3, 4, 5}
    Priority <- SameRank
    Scoring = "LeastAllocated"
    Owner <- OnlyWeb
    Replicas <- Twos
    Size <- Ones
    TemplateCost <- NoCost
    Labelled = {}
    RsStrategy = "None"
    Controller = "None"
    TopN = 50
    Capacity <- Offered
    ProtectedNodes = {}
    InitialNodes = {n1, n2}
    Drainable = {}
    Scales <- DownUpDown
PROPERTIES NewerFirst

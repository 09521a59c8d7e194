SPECIFICATION FairSpec
CONSTANTS
    n1 = n1  n2 = n2  n3 = n3
    p1 = p1  p2 = p2
    d1 = d1  d2 = d2  d3 = d3
    pdb = pdb
    NoNode = NoNode
    Node = {n1, n2, n3}
    Pod = {p1, p2, d1, d2, d3}
    Priority <- Ranks
    Scoring = "LeastAllocated"
    Size = 1
    Capacity = 3
    Daemon = {d1, d2, d3}
    InitialNodes = {n1}
    OtherType = {}
    OtherLabels = {n1}
    HashBased = TRUE
    Spot = {n2}
    Consolidated = {n3}
    Selected <- Web
    MinAvailable <- One
INVARIANTS TypeOK
PROPERTIES StrandedOnlyByDrain DrainKeepsBudget StaysForABudget DriftedGo

SPECIFICATION Spec
CONSTANTS
    n1 = n1  n2 = n2  n3 = n3  n4 = n4
    east = east  west = west
    Node = {n1, n2, n3, n4}
    Pod = {p1, p2, p3}
    Domain = {east, west}
    DomainOf <- ZoneOf
    NoDomain = NoDomain
    NoNode = NoNode
    MaxCount = 3
INVARIANTS CacheSafe
PROPERTIES NoticeKeepsExact

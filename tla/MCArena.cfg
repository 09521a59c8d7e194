SPECIFICATION Spec
CONSTANTS
    Value = {v1, v2}
    NoValue = NoValue
    MaxSlots = 3
    MaxGen = 1
INVARIANTS TypeOK FreeListExact LenCountsLive
PROPERTY ImplementsHandleMap

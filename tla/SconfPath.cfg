SPECIFICATION Spec
CONSTANTS
    NULL = NULL
    UNINIT = UNINIT
    n1 = n1
    n2 = n2
    b0 = b0
    b1 = b1
    b2 = b2
    b3 = b3
    b4 = b4
    b5 = b5
    bx = bx
    Ids = {1, 2, 3, 4}
    Root = 1
    RootTypes = {"dict", "array"}
    Names = {n1, n2}
    Brackets = {b1}
    IndexOf <- MCIndexOf
    UIntMod = 4
    ArrayMax = 2
    Values = {1, 2}
    MaxLen = 2
    LongPaths <- MCLongPaths
    Paths <- MCPaths
    SetTypes = {"str", "dict"}
    MaxDepth = 4
    AllocFaults = {"none", "node", "payload", "grow"}
INVARIANTS
    TypeOK
    Forest
    SlotsSound
    WalkInTree
    RoundTrip
    GetComplete
PROPERTIES
    PointersStable
    OnlyTargetWritten
    GrowsAlongPath

SPECIFICATION Spec
CONSTANTS
    NULL = NULL
    UNINIT = UNINIT
    n1 = n1
    n2 = n2
    b0 = b0
    b1 = b1
    b2 = b2
    b3 = b3
    b4 = b4
    b5 = b5
    bx = bx
    Ids = {1, 2, 3, 4}
    Root = 1
    RootTypes = {"array"}
    Names = {n1}
    Brackets = {b0, b2, b3, b4, b5, bx}
    IndexOf <- MCIndexOf
    UIntMod = 5
    ArrayMax = 3
    Values = {1}
    MaxLen = 2
    LongPaths = {}
    Paths <- MCPaths
    SetTypes = {"int", "other"}
    MaxDepth = 3
    AllocFaults = {"none", "payload", "grow"}
INVARIANTS
    IndexPastMaxRefused
CHECK_DEADLOCK FALSE

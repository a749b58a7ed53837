SPECIFICATION Spec
CONSTANTS
    NULL = NULL
    UNINIT = UNINIT
    n1 = n1
    b1 = b1
    Ids = {1, 2, 3}
    Names = {n1}
    Brackets = {b1}
    IndexOf <- MCIndexOf
    UIntMod = 5
    ArrayMax = 2
    Values = {1}
    NewTypes = {"dict", "array", "str"}
    Positions = {0, 1, 2}
    AllocFaults = {"none", "payload", "grow"}
INVARIANTS
    TypeOK
    OneOwner
    FramesAreBranch
PROPERTIES
    IterationExact
    RefusalsHarmless
    DestroyExact
    DestroyReturns

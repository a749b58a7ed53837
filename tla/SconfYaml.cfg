SPECIFICATION FairSpec
CONSTANTS
    NULL = NULL
    UNINIT = UNINIT
    n1 = n1
    n2 = n2
    b1 = b1
    Ids = {1, 2, 3, 4, 5}
    Root = 1
    Names = {n1, n2}
    Brackets = {b1}
    IndexOf <- MCIndexOf
    TextType <- MCTextType
    UIntMod = 4
    ArrayMax = 2
    Values = {n1, n2, b1}
    MaxDepth = 4
    MaxContent = 6
    MaxReads = 2
    YamlFaults = {"none", "node", "payload", "grow", "push", "key"}
INVARIANTS
    TypeOK
    Forest
    StackIsBranch
    ReadFaithful
PROPERTIES
    ReadReturns

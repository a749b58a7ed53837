SPECIFICATION Spec
CONSTANTS
    NULL = NULL
    a = a
    b = b
    c = c
    e0 = e0
    e1 = e1
    x = x
    f = f
    h = h
    i1 = i1
    i2 = i2
    f1 = f1
    f2 = f2
    T = T
    Names = {a, b, c}
    Brackets = {e0, e1}
    IndexOf <- MCIndexOf
    UIntMod = 4
    ArrayMax = 2
    Values = {i1, i2, f1, f2, T}
    TRUEVALUE = T
    MaxDepth = 4
    MaxEntries = 2
    MaxOptions = 2
    MaxRuns = 1
    Texts = {i1, i2, f1, f2}
    EnvTexts = {i2, f2}
    Unreadable = {i1, i2}
    Maps <- MCMaps
    ValueOf <- MCValueOf
    Files <- MCFiles
    Arguments <- MCArguments
    Accepts <- MCAccepts
CHECK_DEADLOCK FALSE
INVARIANTS
    SetIsPresent

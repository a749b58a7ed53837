SPECIFICATION Spec
CONSTANTS
    NULL = NULL
    CHAR_MAX = 4
    UINT8_MAX = 15
    OptstringMax = 12
    UsageMax = 50
    Colon = 3
    Question = 4
    MaxEntries = 3
    Headers = {8, 14, 50}
    Maps <- MCMaps
    ArgTypeLen <- MCArgTypeLen
CHECK_DEADLOCK FALSE
INVARIANTS
    TablesEnd
    TablesAgree
    MapChecked
    Aligned
    UsageWhole

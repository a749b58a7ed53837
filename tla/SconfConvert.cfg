SPECIFICATION Spec
CONSTANTS
    MaxLen = 5
    LLONG_MAX = 63
    FLOAT_MAX = 100
    Alphabet <- MCAlphabet
    Digit <- MCDigit
    TrueWords <- MCTrueWords
    FalseWords <- MCFalseWords
    FloatWords <- MCFloatWords
CHECK_DEADLOCK FALSE
INVARIANTS
    BaseAsInC
    SourcesAgree

CONSTANTS
    BaseSize = 2
    GroupBits = 2
    VarBits = 5
    Host = "little"
    Items <- Mixed
    Lengths = {0, 1, 3, 4, 5}
    FreshBytes = {7}
    MaxNodes = 3
    MaxWrites = 2
SPECIFICATION Spec
INVARIANTS CurIsAligned CodecIsExact LooksAgree FileHoldsTheRest
PROPERTIES ReadsBack ImplementsFlatBuffer

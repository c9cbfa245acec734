SPECIFICATION Spec
CONSTANTS
    Colors <- Names
    Length <- Lengths
    COLOR_MAX_LENGTH = 64
    Samples <- OnePerColor
    Depth = 1
INVARIANTS
    TypeOK
    SizesAgree
    OnlyLongColorsFail
    RoundTrip
    KeyIsColor

SPECIFICATION Spec
CONSTANTS
    NULL = NULL
    Vendors <- AllVendors
    Words <- AnyWord
    Argvs <- AllLines
    Numeral <- Numerals
    Levels = {"d"}
INVARIANTS
    RunAsAsked
    RefusedForCause

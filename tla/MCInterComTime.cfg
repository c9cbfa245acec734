SPECIFICATION Spec
CONSTANTS
    Billion = 5
    Half = 11
    LastSec = 4
    send_time <- ThreeNs
INVARIANT
    ProperTimes
PROPERTY
    ExactSpec

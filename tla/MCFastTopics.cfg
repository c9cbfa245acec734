SPECIFICATION Spec
CONSTANTS
    NULL = NULL
    Topics = {A, B}
    Configs <- AllConfigs
    Depth = 2
    Burst = 1
INVARIANT
    OwnTopics

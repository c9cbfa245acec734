SPECIFICATION Spec
CONSTANTS
    NULL = NULL
    Topics = {A, B}
    Configs <- AllConfigs
    Period = 3
    Lag = 1
    Far = 10
    Depth = 2
INVARIANTS
    TypeOK
    TopicsAsAsked
    AloneNotOverdue
PROPERTIES
    PacedSpec
    NeverSpins
    SamplesTaken

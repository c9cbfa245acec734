SPECIFICATION Spec
CONSTANTS
    NULL = NULL
    Signals = {1}
    SigThreads = {"main", "dds"}
    Configs <- LoopConfigs
    Period = 3
    Lag = 1
    Far = 10
    Depth = 2
    Burst = 2
INVARIANT
    AloneNotOverdue
PROPERTIES
    PacedSpec
    NeverSpins
    SignalStops
    SamplesTaken

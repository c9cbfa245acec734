SPECIFICATION Spec
CONSTANTS
    NULL = NULL
    Signals = {1, 2}
    SigThreads = {"main", "dds"}
    Configs <- AllConfigs
    Period = 1
    Lag = 0
    Far = 3
    Depth = 1
    Burst = 1
INVARIANTS
    TypeOK
    NoLostSignal
    OneLateSend
    FreedTouchNeedsRace
    FullySetUp

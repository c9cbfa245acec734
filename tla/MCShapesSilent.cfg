SPECIFICATION Spec
CONSTANTS
    NULL = NULL
    Signals = {1}
    SigThreads = {"main"}
    Configs <- Both
    Period = 2
    Lag = 1
    Far = 8
    Depth = 1
    Burst = 1
INVARIANT
    SendNotOverdue

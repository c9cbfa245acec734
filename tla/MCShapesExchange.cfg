SPECIFICATION Spec
CONSTANTS
    Procs = {1, 2}
    Period = 3
    Lag = 1
    Losses = 1
    Far = 16
INVARIANT
    SilentNeedsStop
    TopicNotSilent
PROPERTY
    AllSpeak
    EachPaced

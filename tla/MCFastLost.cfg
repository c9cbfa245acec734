SPECIFICATION Spec
CONSTANTS
    NULL = NULL
    Topics = {A, B}
    Configs <- SubOnly
    Depth = 2
    Burst = 1
PROPERTY
    SamplesTaken

SPECIFICATION Spec
CONSTANTS
    TickMod = 16
    Period = 2
    Timeout = 4
    MaxLag = 1
    Start = 13
    Horizon = 27
PROPERTY TimeoutHasSilence

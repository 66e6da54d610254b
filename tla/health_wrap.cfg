SPECIFICATION Spec
CONSTANTS
    TickMod = 16
    Period = 2
    Timeout = 4
    MaxLag = 1
    Start = 0
    Horizon = 21
PROPERTY RecoveryHasFrame

CONSTANTS
    TickMod = 16
    Period = 2
    Timeout = 4
    MaxLag = 1
    Start = 13
    Horizon = 27
    TickRange = 50
    DataPeriod = 1
    PhyPeriod = 2
    Retry = 2
    MaxPass = 2
    MaxOutage = 2
    Ticks = 9
    Starts = {0, 4, 6}
    MaxTime = 7
    Seqs = {1, 2}
    CmdDepth = 2
    MaxSessions = 2
    MaxPings = 3
    SessionTime = 3
SPECIFICATION ClockSpec
INVARIANTS LossDetected LossesCounted StartsInTime RestartTriedInTime CaptureTrue StampsTrue
PROPERTIES RecoveryHasFrame

CONSTANTS
    Frames <- FrameSet
    RingCap = 2
    TelemetryPeriod = 2
    HeartbeatPeriod = 1
    TickWrap = 4
    SeqWrap = 2
    MaxLag = 3
    MaxArrivals = 3
    MaxFaults = 1
SPECIFICATION FairSpec
INVARIANTS TypeOK NothingUncounted AnsweredOnce StatusHonest GapShowsLoss
PROPERTIES TelemetryPaced TelemetryKeepsComing
CONSTRAINT ArrivalBound

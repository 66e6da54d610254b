SPECIFICATION HostSpec
CONSTANTS
    Count = 6
    SeqRange = 5
    MaxFaults = 4
    Faults = {"late", "loss", "close", "refuse", "stop"}
    Telemetry = 4
    SeqMod = 8
    Starts = {0, 5, 7}
    DropEvery = 3
    MaxSent = 8
    MaxSpoilt = 3
    UdpFaults = {"loss", "repeat", "crc", "invalid", "reset"}
INVARIANTS ClientReportsTrue LossReportTrue
PROPERTIES PongNotThrownAway ProgramsEnd
CHECK_DEADLOCK FALSE

CONSTANTS
    GByte = {0, 1}
    GCapacity = 4
    GWrap = 8
    GMaxOverflow = 2
    UByte = {0, 1}
    USize = 4
    UMaxOverflow = 2
    Size = 4
    Mod = 8
    MaxPolls = 1
    MaxFrames = 5
    TxFaults = 3
    FrameLen = 2
    MaxBytes = 12
    RxFaults = 2
    Chunk = 2
SPECIFICATION Spec
INVARIANTS FramesIntact SuccessesTrue StreamIntact
PROPERTIES GatewayRingIsFifo RemoteRingIsFifo SocketsProgress

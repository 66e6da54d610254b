SPECIFICATION FairSpec
CONSTANTS
    ClientSeqs = {1}
    ClientMsgs = {"PING"}
    ClientLens = {0}
    CmdDepth = 1
    RespDepth = 1
    UdpDepth = 2
    UdpDrainLimit = 1
    RingCap = 3
    RxChunk = 1
    BringupTests = 0
    Window = 1
    MaxConn = 1
    MaxSent = 2
    MaxTlm = 2
    MaxFaults = 0
    Faults = {}
PROPERTY RequestAnswered TelemetrySent UdpInOrder

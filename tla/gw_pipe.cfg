SPECIFICATION FairSpec
CONSTANTS
    ClientSeqs = {1,2}
    ClientMsgs = {"PING"}
    ClientLens = {0}
    CmdDepth = 2
    RespDepth = 2
    UdpDepth = 1
    UdpDrainLimit = 1
    RingCap = 2
    RxChunk = 1
    BringupTests = 0
    Window = 2
    MaxConn = 1
    MaxSent = 2
    MaxTlm = 0
    MaxFaults = 0
    Faults = {}
PROPERTY RequestAnswered

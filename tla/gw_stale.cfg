SPECIFICATION Spec
CONSTANTS
    ClientSeqs = {1}
    ClientMsgs = {"PING"}
    ClientLens = {0}
    CmdDepth = 1
    RespDepth = 1
    UdpDepth = 1
    UdpDrainLimit = 1
    RingCap = 1
    RxChunk = 1
    BringupTests = 1
    Window = 1
    MaxConn = 2
    MaxSent = 1
    MaxTlm = 0
    MaxFaults = 1
    Faults = {"close"}
INVARIANT PongToItsConnection

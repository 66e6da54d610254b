SPECIFICATION Spec
CONSTANTS
    ClientSeqs = {1}
    ClientMsgs = {"PING"}
    ClientLens = {0}
    CmdDepth = 1
    RespDepth = 1
    UdpDepth = 1
    UdpDrainLimit = 1
    RingCap = 2
    RxChunk = 1
    BringupTests = 1
    Window = 2
    MaxConn = 1
    MaxSent = 2
    MaxTlm = 1
    MaxFaults = 1
    Faults = {"timeout","loss","hal","send"}
INVARIANTS TypeOK TxFrameStable NoLostWakeup
PROPERTY ServiceKept
CONSTRAINT TrafficBound

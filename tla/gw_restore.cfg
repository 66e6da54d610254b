SPECIFICATION FairSpec
CONSTANTS
    ClientSeqs = {1}
    ClientMsgs = {"PING", "READ_STATUS"}
    ClientLens = {0, 1}
    CmdDepth = 1
    RespDepth = 1
    UdpDepth = 1
    UdpDrainLimit = 1
    RingCap = 1
    RxChunk = 1
    BringupTests = 0
    Window = 1
    MaxConn = 2
    MaxSent = 1
    MaxTlm = 0
    MaxFaults = 1
    Faults = {"timeout","close","link","spi"}
INVARIANTS IInv SessionIsolated
PROPERTIES TxReleased ServiceRestored

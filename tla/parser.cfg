CONSTANTS
    MaxPayload = 12
    Crc <- crc16_ccitt_false
    Payloads <- PayloadSet
    Noise = {0, 1, 12, 85, 170}
    MaxPackets = 6
    MaxFaults = 1
SPECIFICATION Spec
INVARIANTS TypeOK NothingMadeUp LossBounded RejectionIsCheap LossNoticed
CHECK_DEADLOCK FALSE

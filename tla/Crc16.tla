------------------------------- MODULE Crc16 -------------------------------
(* common/crc16.c: CRC-16/CCITT-FALSE, polynomial 0x1021, initial value    *)
(* 0xFFFF, bit by bit from the most significant bit.                       *)
LOCAL INSTANCE Integers
LOCAL INSTANCE Sequences
LOCAL INSTANCE Bitwise

\* One round of the inner loop.
ShiftBit(crc) == IF crc >= 32768 THEN ((crc * 2) % 65536) ^^ 4129 ELSE crc * 2

\* One round of the outer loop.
CrcByte(crc, byte) ==
    LET shifted[bits \in 0..8] ==
            IF bits = 0 THEN crc ^^ (byte * 256) ELSE ShiftBit(shifted[bits - 1])
    IN shifted[8]

crc16_ccitt_false(data) ==
    LET crc[n \in 0..Len(data)] == IF n = 0 THEN 65535 ELSE CrcByte(crc[n - 1], data[n])
    IN crc[Len(data)]

\* The standard check value of this CRC, which tests/protocol_test.c also uses.
ASSUME CheckValue == crc16_ccitt_false(<<49, 50, 51, 52, 53, 54, 55, 56, 57>>) = 10673
=============================================================================

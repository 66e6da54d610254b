------------------------------ MODULE Protocol ------------------------------
(***************************************************************************)
(* Protocol V1 frames (common/protocol.c): encoding a packet into bytes    *)
(* and decoding a complete frame.  Bytes are numbers; the CRC is a         *)
(* parameter, so that facts about framing hold for any checksum.           *)
(***************************************************************************)
EXTENDS Integers, Sequences

CONSTANTS MaxPayload,   \* PROTOCOL_MAX_PAYLOAD
          Crc(_)        \* crc16_ccitt_false on a sequence of bytes

Byte == 0..255
U16Max == 65535                           \* UINT16_MAX
U16 == 0..U16Max

ASSUME PayloadAssumption == MaxPayload \in U16

\* crc16_ccitt_false returns a uint16_t.
CrcIsU16 == \A s \in Seq(Byte) : Crc(s) \in U16

HeaderSize   == 8                          \* PROTOCOL_FIXED_HEADER_SIZE
CrcSize      == 2                          \* PROTOCOL_CRC_SIZE
MinFrameSize == HeaderSize + CrcSize       \* PROTOCOL_MIN_FRAME_SIZE
MaxFrameSize == MinFrameSize + MaxPayload  \* PROTOCOL_MAX_FRAME_SIZE
MagicHi      == 170                        \* 0xAA, high byte of PROTOCOL_MAGIC
MagicLo      == 85                         \* 0x55, its low byte
Version      == 1                          \* PROTOCOL_VERSION

\* write_u16_be, and read_u16_be at the (1-based) position i of the buffer.
U16Bytes(v) == <<(v \div 256) % 256, v % 256>>
U16At(buffer, i) == buffer[i] * 256 + buffer[i + 1]

\* protocol_encode, of a packet with the right version and a payload that fits.
Encode(p) ==
    LET checked == <<Version, p.msg>> \o U16Bytes(p.seq) \o U16Bytes(Len(p.payload))
                       \o p.payload
    IN <<MagicHi, MagicLo>> \o checked \o U16Bytes(Crc(checked))

\* The payload length that a header announces.
AnnouncedLength(buffer) == U16At(buffer, 7)

\* protocol_decode: the result code ...
DecodeResult(buffer) ==
    LET n == Len(buffer)
    IN CASE n < MinFrameSize -> "BUFFER"
         [] n >= MinFrameSize /\ (buffer[1] # MagicHi \/ buffer[2] # MagicLo) -> "MAGIC"
         [] OTHER ->
            IF buffer[3] # Version THEN "VERSION"
            ELSE IF AnnouncedLength(buffer) > MaxPayload THEN "LENGTH"
            ELSE IF n # MinFrameSize + AnnouncedLength(buffer) THEN "FRAME_SIZE"
            ELSE IF Crc(SubSeq(buffer, 3, n - CrcSize)) # U16At(buffer, n - 1) THEN "CRC"
            ELSE "OK"

\* ... and the packet, when the result is OK.
Decoded(buffer) ==
    [msg |-> buffer[4], seq |-> U16At(buffer, 5),
     payload |-> SubSeq(buffer, HeaderSize + 1, Len(buffer) - CrcSize)]
=============================================================================

---------------------------- MODULE ParserProofs ----------------------------
(***************************************************************************)
(* Proofs about StreamParser and the frames of Protocol, for any payloads, *)
(* any bytes on the line and any checksum that is a 16-bit number: the     *)
(* parser never leaves its buffer, and what it makes of a frame that comes *)
(* through unharmed is the packet that was encoded.                        *)
(***************************************************************************)
EXTENDS StreamParser, SequenceTheorems, TLAPS

-----------------------------------------------------------------------------
(* Frames.                                                                 *)

\* The ranges are not expanded further on.
LEMMA ByteRange == \A b : b \in Byte <=> b \in Nat /\ b <= 255
  BY DEF Byte
LEMMA U16Range == \A v : v \in U16 <=> v \in Nat /\ v <= U16Max
  <1>1. U16Max \in Nat BY DEF U16Max
  <1> QED BY <1>1 DEF U16

\* write_u16_be and read_u16_be are inverse.
LEMMA U16RoundTrip ==
    ASSUME NEW v \in U16
    PROVE  /\ U16Bytes(v) \in Seq(Byte) /\ Len(U16Bytes(v)) = 2
           /\ U16Bytes(v)[1] * 256 + U16Bytes(v)[2] = v
  <1>0. v \in Nat /\ v <= 65535 BY U16Range DEF U16Max
  <1>1. PICK h \in Nat : h = v \div 256 /\ h <= 255 BY <1>0
  <1>2. PICK r \in Nat : r = v % 256 /\ r <= 255 BY <1>0
  <1>3. h * 256 + r = v BY <1>0, <1>1, <1>2
  <1>4. h % 256 = h BY <1>1
  <1>5. U16Bytes(v) = <<h, r>> BY <1>1, <1>2, <1>4 DEF U16Bytes
  <1>6. h \in Byte /\ r \in Byte BY <1>1, <1>2, ByteRange
  <1> QED BY <1>3, <1>5, <1>6

\* The bytes of two sequences put together.
LEMMA Joined ==
    ASSUME NEW S, NEW s \in Seq(S), NEW t \in Seq(S), NEW u, u = s \o t
    PROVE  /\ u \in Seq(S) /\ Len(u) = Len(s) + Len(t)
           /\ \A i \in 1..Len(s) : u[i] = s[i]
           /\ \A i \in 1..Len(t) : u[Len(s) + i] = t[i]
  BY ConcatProperties

\* A part of a sequence.
LEMMA Part ==
    ASSUME NEW S, NEW s \in Seq(S), NEW m \in Nat, NEW n \in Nat, m + n <= Len(s),
           NEW u, u = SubSeq(s, m + 1, m + n)
    PROVE  u \in Seq(S) /\ Len(u) = n /\ \A i \in 1..n : u[i] = s[m + i]
  <1>1. m + 1 \in 1..Len(s) + 1 /\ m + n \in m..Len(s) OBVIOUS
  <1> QED BY <1>1, SubSeqProperties

\* What is on the line for a packet, byte by byte.
IsFrameOf(e, p, l) ==
    /\ e \in Seq(Byte) /\ Len(e) = 10 + l
    /\ e[1] = MagicHi /\ e[2] = MagicLo /\ e[3] = Version /\ e[4] = p.msg
    /\ e[5] * 256 + e[6] = p.seq /\ e[7] * 256 + e[8] = l
    /\ \A i \in 1..l : e[8 + i] = p.payload[i]
    /\ Crc(SubSeq(e, 3, 8 + l)) = e[9 + l] * 256 + e[10 + l]

\* Packets that the protocol can carry.
Packets == [msg : Byte, seq : U16, payload : Seq(Byte)]

LEMMA EncodeBytes ==
    ASSUME CrcIsU16, NEW p \in Packets, NEW l, l = Len(p.payload), l <= MaxPayload,
           NEW e, e = Encode(p)
    PROVE  IsFrameOf(e, p, l)
  <1>0. p.msg \in Byte /\ p.seq \in U16 /\ p.payload \in Seq(Byte) BY DEF Packets
  <1>1. l \in Nat /\ l \in U16 BY <1>0, PayloadAssumption, U16Range DEF U16Max
  <1>2. PICK start : start = <<Version, p.msg>> BY Zenon
  <1>3. PICK seq : seq = U16Bytes(p.seq) BY Zenon
  <1>4. PICK len : len = U16Bytes(l) BY Zenon
  <1>5. PICK toSeq : toSeq = start \o seq BY Zenon
  <1>6. PICK toLen : toLen = toSeq \o len BY Zenon
  <1>7. PICK checked : checked = toLen \o p.payload BY Zenon
  <1>8. PICK magic : magic = <<MagicHi, MagicLo>> BY Zenon
  <1>9. PICK front : front = magic \o checked BY Zenon
  <1>10. PICK crc : crc = U16Bytes(Crc(checked)) BY Zenon
  <1>11. e = front \o crc
    <2>1. e = (magic \o checked) \o crc
      BY <1>2, <1>3, <1>4, <1>5, <1>6, <1>7, <1>8, <1>10, Zenon DEF Encode
    <2> QED BY <1>9, <2>1, Zenon
  <1>12. start \in Seq(Byte) /\ Len(start) = 2 /\ start[1] = Version /\ start[2] = p.msg
    BY <1>0, <1>2, ByteRange DEF Version
  <1>13. magic \in Seq(Byte) /\ Len(magic) = 2 /\ magic[1] = MagicHi /\ magic[2] = MagicLo
    BY <1>8, ByteRange DEF MagicHi, MagicLo
  <1>14. seq \in Seq(Byte) /\ Len(seq) = 2 /\ seq[1] * 256 + seq[2] = p.seq
    BY <1>0, <1>3, U16RoundTrip
  <1>15. len \in Seq(Byte) /\ Len(len) = 2 /\ len[1] * 256 + len[2] = l
    BY <1>1, <1>4, U16RoundTrip
  <1>16. /\ toSeq \in Seq(Byte) /\ Len(toSeq) = 4 /\ toSeq[1] = Version /\ toSeq[2] = p.msg
         /\ toSeq[3] = seq[1] /\ toSeq[4] = seq[2]
    <2>0. start \in Seq(Byte) /\ seq \in Seq(Byte) BY <1>12, <1>14
    <2>1. /\ toSeq \in Seq(Byte) /\ Len(toSeq) = Len(start) + Len(seq)
          /\ \A i \in 1..Len(start) : toSeq[i] = start[i]
          /\ \A i \in 1..Len(seq) : toSeq[Len(start) + i] = seq[i]
      BY <1>5, <2>0, Joined
    <2>2. toSeq[1] = start[1] /\ toSeq[2] = start[2] BY <1>12, <2>1
    <2>3. toSeq[2 + 1] = seq[1] /\ toSeq[2 + 2] = seq[2] BY <1>12, <1>14, <2>1
    <2> QED BY <1>12, <1>14, <2>1, <2>2, <2>3
  <1>17. /\ toLen \in Seq(Byte) /\ Len(toLen) = 6 /\ \A i \in 1..4 : toLen[i] = toSeq[i]
         /\ toLen[5] = len[1] /\ toLen[6] = len[2]
    <2>0. toSeq \in Seq(Byte) /\ len \in Seq(Byte) BY <1>15, <1>16
    <2>1. /\ toLen \in Seq(Byte) /\ Len(toLen) = Len(toSeq) + Len(len)
          /\ \A i \in 1..Len(toSeq) : toLen[i] = toSeq[i]
          /\ \A i \in 1..Len(len) : toLen[Len(toSeq) + i] = len[i]
      BY <1>6, <2>0, Joined
    <2>2. toLen[4 + 1] = len[1] /\ toLen[4 + 2] = len[2] BY <1>15, <1>16, <2>1
    <2> QED BY <1>15, <1>16, <2>1, <2>2
  <1>18. /\ checked \in Seq(Byte) /\ Len(checked) = 6 + l
         /\ \A i \in 1..6 : checked[i] = toLen[i]
         /\ \A i \in 1..l : checked[6 + i] = p.payload[i]
    <2>0. toLen \in Seq(Byte) /\ p.payload \in Seq(Byte) BY <1>0, <1>17
    <2>1. /\ checked \in Seq(Byte) /\ Len(checked) = Len(toLen) + Len(p.payload)
          /\ \A i \in 1..Len(toLen) : checked[i] = toLen[i]
          /\ \A i \in 1..Len(p.payload) : checked[Len(toLen) + i] = p.payload[i]
      BY <1>7, <2>0, Joined
    <2> QED BY <1>17, <2>1
  <1>19. Crc(checked) \in U16 BY <1>18 DEF CrcIsU16
  <1>20. crc \in Seq(Byte) /\ Len(crc) = 2 /\ crc[1] * 256 + crc[2] = Crc(checked)
    BY <1>10, <1>19, U16RoundTrip
  <1>21. /\ front \in Seq(Byte) /\ Len(front) = 8 + l
         /\ front[1] = MagicHi /\ front[2] = MagicLo
         /\ \A i \in 1..6 + l : front[2 + i] = checked[i]
    <2>0. magic \in Seq(Byte) /\ checked \in Seq(Byte) BY <1>13, <1>18
    <2>1. /\ front \in Seq(Byte) /\ Len(front) = Len(magic) + Len(checked)
          /\ \A i \in 1..Len(magic) : front[i] = magic[i]
          /\ \A i \in 1..Len(checked) : front[Len(magic) + i] = checked[i]
      BY <1>9, <2>0, Joined
    <2>2. front[1] = magic[1] /\ front[2] = magic[2] BY <1>13, <2>1
    <2> QED BY <1>1, <1>13, <1>18, <2>1, <2>2
  <1>22. /\ e \in Seq(Byte) /\ Len(e) = 10 + l /\ \A i \in 1..8 + l : e[i] = front[i]
         /\ e[9 + l] = crc[1] /\ e[10 + l] = crc[2]
    <2>0. front \in Seq(Byte) /\ crc \in Seq(Byte) BY <1>20, <1>21
    <2>1. /\ e \in Seq(Byte) /\ Len(e) = Len(front) + Len(crc)
          /\ \A i \in 1..Len(front) : e[i] = front[i]
          /\ \A i \in 1..Len(crc) : e[Len(front) + i] = crc[i]
      BY <1>11, <2>0, Joined
    <2>2. e[(8 + l) + 1] = crc[1] /\ e[(8 + l) + 2] = crc[2] BY <1>20, <1>21, <2>1
    <2>3. (8 + l) + 1 = 9 + l /\ (8 + l) + 2 = 10 + l BY <1>1
    <2> QED BY <1>1, <1>20, <1>21, <2>1, <2>2, <2>3
  <1>23. e[1] = MagicHi /\ e[2] = MagicLo BY <1>1, <1>21, <1>22
  <1>24. \A i \in 1..6 + l : e[2 + i] = checked[i]
    <2> SUFFICES ASSUME NEW i \in 1..6 + l PROVE e[2 + i] = checked[i] OBVIOUS
    <2>1. e[2 + i] = front[2 + i] BY <1>1, <1>22
    <2> QED BY <1>21, <2>1
  <1>25. /\ e[3] = checked[1] /\ e[4] = checked[2] /\ e[5] = checked[3] /\ e[6] = checked[4]
         /\ e[7] = checked[5] /\ e[8] = checked[6]
    <2>1. \A i \in 1..6 : e[2 + i] = checked[i] BY <1>1, <1>24
    <2> QED BY <2>1
  <1>26. e[3] = Version /\ e[4] = p.msg BY <1>16, <1>17, <1>18, <1>25
  <1>27. e[5] * 256 + e[6] = p.seq BY <1>14, <1>16, <1>17, <1>18, <1>25
  <1>28. e[7] * 256 + e[8] = l BY <1>15, <1>17, <1>18, <1>25
  <1>29. \A i \in 1..l : e[8 + i] = p.payload[i]
    <2> SUFFICES ASSUME NEW i \in 1..l PROVE e[8 + i] = p.payload[i] OBVIOUS
    <2>1. e[2 + (6 + i)] = checked[6 + i] BY <1>1, <1>24
    <2>2. 2 + (6 + i) = 8 + i BY <1>1
    <2> QED BY <1>18, <2>1, <2>2
  <1>30. Crc(SubSeq(e, 3, 8 + l)) = e[9 + l] * 256 + e[10 + l]
    <2>1. PICK part : part = SubSeq(e, 3, 8 + l) BY Zenon
    <2>2. 2 + 1 = 3 /\ 2 + (6 + l) = 8 + l /\ 6 + l \in Nat /\ 2 + (6 + l) <= Len(e)
      BY <1>1, <1>22
    <2>3. part = SubSeq(e, 2 + 1, 2 + (6 + l)) BY <2>1, <2>2, Zenon
    <2>4. part \in Seq(Byte) /\ Len(part) = 6 + l /\ \A i \in 1..6 + l : part[i] = e[2 + i]
      <3>1. e \in Seq(Byte) /\ 6 + l \in Nat /\ 2 \in Nat /\ 2 + (6 + l) <= Len(e) BY <1>22, <2>2
      <3> QED BY <2>3, <3>1, Part
    <2>5. \A i \in 1..6 + l : part[i] = checked[i] BY <1>24, <2>4
    <2>6. part = checked BY <1>18, <2>4, <2>5, SeqEqual
    <2>7. Crc(part) = e[9 + l] * 256 + e[10 + l] BY <1>20, <1>22, <2>6
    <2> QED BY <2>1, <2>7, Zenon
  <1> QED BY <1>22, <1>23, <1>26, <1>27, <1>28, <1>29, <1>30, Zenon DEF IsFrameOf

\* protocol_decode undoes protocol_encode.
LEMMA DecodeEncode ==
    ASSUME CrcIsU16, NEW p \in Packets, Len(p.payload) <= MaxPayload, NEW e, e = Encode(p)
    PROVE  DecodeResult(e) = "OK" /\ Decoded(e) = p
  <1>1. PICK l \in Nat : l = Len(p.payload) /\ l <= MaxPayload BY DEF Packets
  <1>2. /\ e \in Seq(Byte) /\ Len(e) = 10 + l
        /\ e[1] = MagicHi /\ e[2] = MagicLo /\ e[3] = Version /\ e[4] = p.msg
        /\ e[5] * 256 + e[6] = p.seq /\ e[7] * 256 + e[8] = l
        /\ \A i \in 1..l : e[8 + i] = p.payload[i]
        /\ Crc(SubSeq(e, 3, 8 + l)) = e[9 + l] * 256 + e[10 + l]
    <2>1. IsFrameOf(e, p, l) BY <1>1, EncodeBytes
    <2> QED BY <2>1, Zenon DEF IsFrameOf
  <1>3. /\ HeaderSize = 8 /\ CrcSize = 2 /\ MinFrameSize = 10
        /\ Len(e) - CrcSize = 8 + l /\ Len(e) - 1 = 9 + l /\ (9 + l) + 1 = 10 + l
    BY <1>2 DEF MinFrameSize, HeaderSize, CrcSize
  <1>4. DecodeResult(e) = "OK"
    <2>1. AnnouncedLength(e) = l BY <1>2 DEF AnnouncedLength, U16At
    <2>2. U16At(e, Len(e) - 1) = e[9 + l] * 256 + e[10 + l] BY <1>3 DEF U16At
    <2>3. Crc(SubSeq(e, 3, Len(e) - CrcSize)) = U16At(e, Len(e) - 1) BY <1>2, <1>3, <2>2
    <2>4. ~(Len(e) < MinFrameSize) /\ Len(e) = MinFrameSize + l /\ ~(l > MaxPayload)
      BY <1>1, <1>2, <1>3, PayloadAssumption, U16Range
    <2> QED BY <1>2, <2>1, <2>3, <2>4 DEF DecodeResult
  <1>5. Decoded(e) = p
    <2>1. PICK part : part = SubSeq(e, 9, 8 + l) BY Zenon
    <2>2. 8 + 1 = 9 /\ 8 + l <= Len(e) BY <1>2
    <2>3. part = SubSeq(e, 8 + 1, 8 + l) BY <2>1, <2>2, Zenon
    <2>4. part \in Seq(Byte) /\ Len(part) = l /\ \A i \in 1..l : part[i] = e[8 + i]
      <3>1. e \in Seq(Byte) /\ 8 \in Nat /\ 8 + l <= Len(e) BY <1>2, <2>2
      <3> QED BY <2>3, <3>1, Part
    <2>5. \A i \in 1..l : part[i] = p.payload[i] BY <1>2, <2>4
    <2>6. part = p.payload
      <3>1. p.payload \in Seq(Byte) BY DEF Packets
      <3> QED BY <1>1, <2>4, <2>5, <3>1, SeqEqual
    <2>7. U16At(e, 5) = p.seq BY <1>2 DEF U16At
    <2>8. SubSeq(e, HeaderSize + 1, Len(e) - CrcSize) = part BY <1>3, <2>1, <2>2, Zenon
    <2>9. Decoded(e) = [msg |-> p.msg, seq |-> p.seq, payload |-> p.payload]
      BY <1>2, <2>6, <2>7, <2>8, Zenon DEF Decoded
    <2> QED BY <2>9 DEF Packets
  <1> QED BY <1>4, <1>5
-----------------------------------------------------------------------------
(* The parser stays inside its buffer.                                     *)

LEMMA Appended ==
    ASSUME NEW s \in Seq(Byte), NEW b \in Byte, NEW u, u = Append(s, b)
    PROVE  /\ u \in Seq(Byte) /\ Len(u) = Len(s) + 1 /\ u[Len(s) + 1] = b
           /\ \A i \in 1..Len(s) : u[i] = s[i]
  BY AppendProperties

\* A whole frame can only be refused for its CRC: the header was checked before.
LEMMA RestVerdict ==
    ASSUME TypeOK, HeaderInv, state = "READ_REST", NEW f \in Seq(Byte),
           Len(f) = Len(buf) + 1, \A i \in 1..Len(buf) : f[i] = buf[i]
    PROVE  /\ \A i \in 1..8 : f[i] = buf[i]
           /\ Len(f) = expected => DecodeResult(f) \in {"OK", "CRC"}
  <1>1. buf \in Seq(Byte) BY DEF TypeOK
  <1>3. Len(buf) \in Nat /\ Len(buf) >= 8 BY <1>1 DEF TypeOK, HeaderSize
  <1>4. \A i \in 1..8 : f[i] = buf[i] BY <1>3
  <1>5. ASSUME Len(f) = expected PROVE DecodeResult(f) \in {"OK", "CRC"}
    <2>1. AnnouncedLength(f) = AnnouncedLength(buf) /\ f[1] = buf[1] /\ f[2] = buf[2] /\ f[3] = buf[3]
      <3>1. f[1] = buf[1] /\ f[2] = buf[2] /\ f[3] = buf[3] BY <1>4
      <3>2. f[7] = buf[7] /\ f[7 + 1] = buf[7 + 1] BY <1>4
      <3> QED BY <3>1, <3>2, Zenon DEF AnnouncedLength, U16At
    <2>2. /\ f[1] = MagicHi /\ f[2] = MagicLo /\ f[3] = Version
          /\ AnnouncedLength(f) <= MaxPayload /\ Len(f) = MinFrameSize + AnnouncedLength(f)
      BY <1>5, <2>1 DEF HeaderInv, LengthFits
    <2>3. AnnouncedLength(f) \in Nat
      <3>1. buf[7] \in Byte /\ buf[8] \in Byte
        <4>1. \A i \in 1..Len(buf) : buf[i] \in Byte BY <1>1, ElementOfSeq
        <4> QED BY <1>3, <4>1
      <3>2. AnnouncedLength(buf) \in Nat BY <3>1, ByteRange DEF AnnouncedLength, U16At
      <3> QED BY <2>1, <3>2
    <2>4. MaxPayload \in Nat BY PayloadAssumption, U16Range
    <2>5. ~(Len(f) < MinFrameSize) /\ ~(AnnouncedLength(f) > MaxPayload)
      BY <2>2, <2>3, <2>4 DEF MinFrameSize, HeaderSize, CrcSize
    <2>6. DecodeResult(f) = IF Crc(SubSeq(f, 3, Len(f) - CrcSize)) # U16At(f, Len(f) - 1)
                            THEN "CRC" ELSE "OK"
      BY <2>2, <2>5, Zenon DEF DecodeResult
    <2> QED BY <2>6, Zenon
  <1> QED BY <1>4, <1>5

\* stream_parser_reset_frame.
LEMMA ResetKeeps ==
    ASSUME ResetFrame, lastError' \in {"OK", "VERSION", "LENGTH", "CRC"},
           crcErrors' \in Nat, formatErrors' \in Nat, discarded' \in Nat
    PROVE  TypeOK' /\ HeaderInv'
  <1>1. MaxFrameSize \in Nat
    BY PayloadAssumption, U16Range DEF MaxFrameSize, MinFrameSize, HeaderSize, CrcSize
  <1>2. state' = "WAIT_MAGIC_1" /\ buf' = <<>> /\ expected' = 0 BY DEF ResetFrame
  <1>3. buf' \in Seq(Byte) /\ expected' \in 0..MaxFrameSize BY <1>1, <1>2
  <1>4. TypeOK' BY <1>2, <1>3 DEF TypeOK
  <1>5. HeaderInv' BY <1>2 DEF HeaderInv
  <1> QED BY <1>4, <1>5

\* resync_from_tail.
LEMMA ResyncKeeps ==
    ASSUME NEW h, ResyncFromTail(h), lastError' \in {"OK", "VERSION", "LENGTH", "CRC"},
           crcErrors' \in Nat, formatErrors' \in Nat, discarded' \in Nat
    PROVE  TypeOK' /\ HeaderInv'
  <1>1. MaxFrameSize \in Nat
    BY PayloadAssumption, U16Range DEF MaxFrameSize, MinFrameSize, HeaderSize, CrcSize
  <1>2. expected' = 0 /\ expected' \in 0..MaxFrameSize BY <1>1 DEF ResyncFromTail
  <1>3. MagicHi \in Byte /\ MagicLo \in Byte BY ByteRange DEF MagicHi, MagicLo
  <1>4. CASE state' = "READ_HEADER" /\ buf' = <<MagicHi, MagicLo>>
    <2>1. buf' \in Seq(Byte) /\ Len(buf') = 2 /\ buf'[1] = MagicHi /\ buf'[2] = MagicLo
      BY <1>3, <1>4
    <2> QED BY <1>2, <1>4, <2>1 DEF TypeOK, HeaderInv, HeaderSize
  <1>5. CASE state' = "WAIT_MAGIC_2" /\ buf' = <<MagicHi>>
    <2>1. buf' \in Seq(Byte) /\ Len(buf') = 1 BY <1>3, <1>5
    <2> QED BY <1>2, <1>5, <2>1 DEF TypeOK, HeaderInv
  <1>6. CASE state' = "WAIT_MAGIC_1" /\ buf' = <<>>
    <2>1. buf' \in Seq(Byte) BY <1>6
    <2> QED BY <1>2, <1>6, <2>1 DEF TypeOK, HeaderInv
  <1> QED BY <1>4, <1>5, <1>6, Zenon DEF ResyncFromTail

LEMMA HeaderKeeps ==
    ASSUME TypeOK, HeaderInv, NEW b \in Byte, ReadHeader(b)
    PROVE  TypeOK' /\ HeaderInv'
  <1>1. PICK h : h = Append(buf, b) BY Zenon
  <1>2. /\ state = "READ_HEADER" /\ UNCHANGED <<crcErrors, discarded, delivered>>
        /\ \/ /\ Len(h) < HeaderSize
              /\ buf' = h /\ UNCHANGED <<state, expected, lastError, formatErrors>>
           \/ Len(h) = HeaderSize /\ RejectHeader("VERSION", h)
           \/ Len(h) = HeaderSize /\ RejectHeader("LENGTH", h)
           \/ /\ Len(h) = HeaderSize /\ h[3] = Version /\ LengthFits(h)
              /\ state' = "READ_REST" /\ buf' = h
              /\ expected' = MinFrameSize + AnnouncedLength(h)
              /\ UNCHANGED <<lastError, formatErrors>>
    BY <1>1, Zenon DEF ReadHeader
  <1>3. buf \in Seq(Byte) /\ Len(buf) \in Nat /\ Len(buf) >= 2 /\ Len(buf) <= 7
    <2>1. state = "READ_HEADER" BY <1>2, Zenon
    <2>2. buf \in Seq(Byte) /\ Len(buf) \in 2..7 BY <2>1 DEF TypeOK, HeaderSize
    <2> QED BY <2>2
  <1>4. /\ h \in Seq(Byte) /\ Len(h) = Len(buf) + 1 /\ \A i \in 1..Len(buf) : h[i] = buf[i]
    BY <1>1, <1>3, Appended
  <1>5. h[1] = MagicHi /\ h[2] = MagicLo BY <1>2, <1>3, <1>4 DEF HeaderInv
  <1>6. CASE Len(h) < HeaderSize /\ buf' = h /\ UNCHANGED <<state, expected, lastError, formatErrors>>
    <2>1. buf' \in Seq(Byte) /\ Len(buf') \in 2..HeaderSize - 1
      <3>1. Len(h) \in 2..HeaderSize - 1 BY <1>3, <1>4, <1>6 DEF HeaderSize
      <3> QED BY <1>4, <1>6, <3>1
    <2>2. TypeOK' BY <1>2, <1>6, <2>1 DEF TypeOK
    <2>3. HeaderInv' BY <1>2, <1>5, <1>6 DEF HeaderInv
    <2> QED BY <2>2, <2>3
  <1>7. CASE RejectHeader("VERSION", h) \/ RejectHeader("LENGTH", h)
    <2>1. /\ lastError' \in {"OK", "VERSION", "LENGTH", "CRC"} /\ ResyncFromTail(h)
          /\ formatErrors' = formatErrors + 1
      BY <1>7 DEF RejectHeader
    <2>2. crcErrors' \in Nat /\ formatErrors' \in Nat /\ discarded' \in Nat
      BY <1>2, <2>1 DEF TypeOK
    <2> QED BY <2>1, <2>2, ResyncKeeps
  <1>8. CASE /\ Len(h) = HeaderSize /\ h[3] = Version /\ LengthFits(h)
             /\ state' = "READ_REST" /\ buf' = h
             /\ expected' = MinFrameSize + AnnouncedLength(h)
             /\ UNCHANGED <<lastError, formatErrors>>
    <2>1. Len(h) = 8 BY <1>8 DEF HeaderSize
    <2>2. h[7] \in Byte /\ h[8] \in Byte
      <3>1. \A i \in 1..Len(h) : h[i] \in Byte BY <1>4, ElementOfSeq
      <3> QED BY <2>1, <3>1
    <2>3. AnnouncedLength(h) \in Nat BY <2>2, ByteRange DEF AnnouncedLength, U16At
    <2>4. MaxPayload \in Nat /\ AnnouncedLength(h) <= MaxPayload
      BY <1>8, PayloadAssumption, U16Range DEF LengthFits
    <2>5. expected' \in 0..MaxFrameSize /\ 8 \in 8..expected' - 1
      BY <1>8, <2>3, <2>4 DEF MaxFrameSize, MinFrameSize, HeaderSize, CrcSize
    <2>6. buf' \in Seq(Byte) /\ Len(buf') \in HeaderSize..expected' - 1
      BY <1>4, <1>8, <2>1, <2>5 DEF HeaderSize
    <2>7. TypeOK' BY <1>2, <1>8, <2>5, <2>6 DEF TypeOK
    <2>8. AnnouncedLength(h)' = AnnouncedLength(h) OBVIOUS
    <2>9. HeaderInv'
      BY <1>5, <1>8, Zenon DEF HeaderInv, LengthFits, AnnouncedLength, U16At, MagicHi, MagicLo,
                               Version, MinFrameSize
    <2> QED BY <2>7, <2>9
  <1> QED BY <1>2, <1>6, <1>7, <1>8, Zenon

LEMMA RestKeeps ==
    ASSUME TypeOK, HeaderInv, NEW b \in Byte, ReadRest(b)
    PROVE  TypeOK' /\ HeaderInv'
  <1>1. PICK f : f = Append(buf, b) BY Zenon
  <1>2. /\ state = "READ_REST" /\ UNCHANGED discarded
        /\ \/ /\ Len(f) < expected /\ buf' = f
              /\ UNCHANGED <<state, expected, lastError, crcErrors, formatErrors, delivered>>
           \/ /\ Len(f) = expected /\ ResetFrame /\ lastError' = "OK"
              /\ UNCHANGED <<crcErrors, formatErrors>>
           \/ /\ Len(f) = expected /\ ResetFrame /\ lastError' = DecodeResult(f)
              /\ \/ crcErrors' = crcErrors + 1 /\ UNCHANGED formatErrors
                 \/ formatErrors' = formatErrors + 1 /\ UNCHANGED crcErrors
    BY <1>1, Zenon DEF ReadRest, Verdict
  <1>3. /\ f \in Seq(Byte) /\ Len(f) = Len(buf) + 1 /\ \A i \in 1..8 : f[i] = buf[i]
        /\ Len(f) = expected => DecodeResult(f) \in {"OK", "CRC"}
    <2>1. buf \in Seq(Byte) BY DEF TypeOK
    <2>2. /\ f \in Seq(Byte) /\ Len(f) = Len(buf) + 1 /\ \A i \in 1..Len(buf) : f[i] = buf[i]
      BY <1>1, <2>1, Appended
    <2> QED BY <1>2, <2>2, RestVerdict
  <1>4. CASE /\ Len(f) < expected /\ buf' = f
             /\ UNCHANGED <<state, expected, lastError, crcErrors, formatErrors, delivered>>
    <2>1. Len(buf) \in Nat /\ Len(buf) >= 8 /\ expected \in Int BY <1>2 DEF TypeOK, HeaderSize
    <2>2. buf' \in Seq(Byte) /\ Len(buf') \in HeaderSize..expected' - 1
      BY <1>3, <1>4, <2>1 DEF HeaderSize
    <2>3. TypeOK' BY <1>2, <1>4, <2>2 DEF TypeOK
    <2>4. /\ f[1] = buf[1] /\ f[2] = buf[2] /\ f[3] = buf[3]
          /\ f[7] = buf[7] /\ f[7 + 1] = buf[7 + 1]
      BY <1>3
    <2>5. HeaderInv'
      BY <1>2, <1>4, <2>4 DEF HeaderInv, LengthFits, AnnouncedLength, U16At, MagicHi, MagicLo,
                              Version, MinFrameSize, HeaderSize, CrcSize
    <2> QED BY <2>3, <2>5
  <1>5. CASE Len(f) = expected /\ ResetFrame /\ lastError' \in {"OK", DecodeResult(f)}
             /\ crcErrors' \in {crcErrors, crcErrors + 1}
             /\ formatErrors' \in {formatErrors, formatErrors + 1}
    <2>1. lastError' \in {"OK", "VERSION", "LENGTH", "CRC"} BY <1>3, <1>5
    <2>2. crcErrors' \in Nat /\ formatErrors' \in Nat /\ discarded' \in Nat
      BY <1>2, <1>5 DEF TypeOK
    <2> QED BY <1>5, <2>1, <2>2, ResetKeeps
  <1> QED BY <1>2, <1>4, <1>5, Zenon

\* stream_parser_feed_byte, whatever the byte.
LEMMA FeedKeeps ==
    ASSUME TypeOK, HeaderInv, NEW b \in Byte, FeedByte(b)
    PROVE  TypeOK' /\ HeaderInv'
  <1>0. MagicHi \in Byte /\ MagicLo \in Byte BY ByteRange DEF MagicHi, MagicLo
  <1>1. CASE WaitMagic1(b)
    <2>1. CASE state' = "WAIT_MAGIC_2" /\ buf' = <<b>>
      <3>1. buf' \in Seq(Byte) /\ Len(buf') = 1 BY <2>1
      <3> QED BY <1>1, <2>1, <3>1 DEF WaitMagic1, TypeOK, HeaderInv
    <2>2. CASE UNCHANGED <<state, buf>>
      <3>1. discarded' \in Nat BY <1>1 DEF WaitMagic1, TypeOK
      <3>2. state = "WAIT_MAGIC_1" BY <1>1 DEF WaitMagic1
      <3> QED BY <1>1, <2>2, <3>1, <3>2 DEF WaitMagic1, TypeOK, HeaderInv
    <2> QED BY <1>1, <2>1, <2>2, Zenon DEF WaitMagic1
  <1>2. CASE WaitMagic2(b)
    <2>1. CASE b = MagicLo /\ state' = "READ_HEADER" /\ buf' = <<MagicHi, b>> /\ UNCHANGED discarded
      <3>1. buf' \in Seq(Byte) /\ Len(buf') = 2 /\ buf'[1] = MagicHi /\ buf'[2] = MagicLo
        BY <1>0, <2>1
      <3> QED BY <1>2, <2>1, <3>1 DEF WaitMagic2, TypeOK, HeaderInv, HeaderSize
    <2>2. CASE buf' = <<b>> /\ discarded' = discarded + 1 /\ UNCHANGED state
      <3>1. buf' \in Seq(Byte) /\ Len(buf') = 1 /\ state = "WAIT_MAGIC_2" BY <1>2, <2>2 DEF WaitMagic2
      <3>2. discarded' \in Nat BY <2>2 DEF TypeOK
      <3> QED BY <1>2, <2>2, <3>1, <3>2 DEF WaitMagic2, TypeOK, HeaderInv
    <2>3. CASE state' = "WAIT_MAGIC_1" /\ buf' = <<>> /\ discarded' = discarded + 2
      <3>1. buf' \in Seq(Byte) /\ discarded' \in Nat BY <2>3 DEF TypeOK
      <3> QED BY <1>2, <2>3, <3>1 DEF WaitMagic2, TypeOK, HeaderInv
    <2> QED BY <1>2, <2>1, <2>2, <2>3, Zenon DEF WaitMagic2
  <1>3. CASE ReadHeader(b) BY <1>3, HeaderKeeps
  <1>4. CASE ReadRest(b) BY <1>4, RestKeeps
  <1> QED BY <1>1, <1>2, <1>3, <1>4 DEF FeedByte

\* The packets of the line are packets of the protocol.
LEMMA PacketIsSendable ==
    ASSUME NEW p \in Packet PROVE p \in Packets /\ Len(p.payload) <= MaxPayload
  <1>1. p.msg = PingId /\ p.seq \in 1..MaxPackets /\ p.payload \in Payloads BY DEF Packet
  <1>2. p.msg \in Byte BY <1>1, ByteRange DEF PingId
  <1>3. p.seq \in U16
    <2>1. MaxPackets \in Nat /\ MaxPackets <= U16Max /\ U16Max \in Nat
      BY StreamAssumption, U16Range DEF U16Max
    <2> QED BY <1>1, <2>1, U16Range
  <1>4. p.payload \in Seq(Byte) /\ Len(p.payload) <= MaxPayload BY <1>1, StreamAssumption
  <1> QED BY <1>2, <1>3, <1>4 DEF Packet, Packets

\* What SendPacket puts on the line.
LEMMA SendKeeps ==
    ASSUME CrcIsU16, LineInv, SendPacket
    PROVE  /\ LineInv' /\ toSend' # <<>>
           /\ \E p \in Packet : sentPkts' = Append(sentPkts, p) /\ toSend' = Encode(p)
  <1>1. PICK payload \in Payloads :
          /\ sentPkts' = Append(sentPkts, [msg |-> PingId, seq |-> Len(sentPkts) + 1,
                                           payload |-> payload])
          /\ toSend' = Encode([msg |-> PingId, seq |-> Len(sentPkts) + 1, payload |-> payload])
    BY Zenon DEF SendPacket
  <1>2. PICK p : p = [msg |-> PingId, seq |-> Len(sentPkts) + 1, payload |-> payload] BY Zenon
  <1>3. sentPkts' = Append(sentPkts, p) /\ toSend' = Encode(p) BY <1>1, <1>2, Zenon
  <1>4. sentPkts \in Seq(Packet) /\ Len(sentPkts) < MaxPackets /\ MaxPackets \in Nat
    BY StreamAssumption, U16Range DEF LineInv, SendPacket
  <1>5. Len(sentPkts) + 1 \in 1..MaxPackets BY <1>4
  <1>6. p \in Packet BY <1>2, <1>5 DEF Packet
  <1>7. PICK l : l = Len(p.payload) BY Zenon
  <1>8. PICK e : e = Encode(p) BY Zenon
  <1>9. IsFrameOf(e, p, l) BY <1>6, <1>7, <1>8, PacketIsSendable, EncodeBytes
  <1>10. e \in Seq(Byte) /\ Len(e) = 10 + l BY <1>9, Zenon DEF IsFrameOf
  <1>11. l \in Nat BY <1>6, <1>7, PacketIsSendable DEF Packets
  <1>12. e # <<>> BY <1>10, <1>11
  <1>13. sentPkts' \in Seq(Packet) /\ Len(sentPkts') = Len(sentPkts) + 1
    BY <1>3, <1>4, <1>6, AppendProperties
  <1>14. faults' = faults BY DEF SendPacket
  <1>15. LineInv' BY <1>3, <1>4, <1>8, <1>10, <1>13, <1>14 DEF LineInv
  <1> QED BY <1>3, <1>6, <1>8, <1>12, <1>15

\* The line's bytes.
LEMMA LineBytes ==
    ASSUME TypeOK, LineInv, toSend # <<>>
    PROVE  Head(toSend) \in Byte /\ Tail(toSend) \in Seq(Byte)
  BY DEF LineInv

LEMMA ParserInit == ASSUME Init PROVE ParserInv
  <1>1. MaxFrameSize \in Nat /\ MaxFaults \in Nat /\ MaxPackets \in Nat
    BY PayloadAssumption, StreamAssumption, U16Range
       DEF MaxFrameSize, MinFrameSize, HeaderSize, CrcSize
  <1>2. buf \in Seq(Byte) /\ toSend \in Seq(Byte) /\ sentPkts \in Seq(Packet) /\ Len(sentPkts) = 0
    BY DEF Init
  <1>3. TypeOK BY <1>1, <1>2 DEF Init, TypeOK
  <1>4. LineInv BY <1>1, <1>2 DEF Init, LineInv
  <1>5. HeaderInv BY DEF Init, HeaderInv
  <1> QED BY <1>3, <1>4, <1>5 DEF ParserInv

\* Where the parser is not fed, it stays as it is.
LEMMA NotFed ==
    ASSUME TypeOK, HeaderInv, UNCHANGED parserVars PROVE TypeOK' /\ HeaderInv'
  <1>1. TypeOK' BY DEF parserVars, TypeOK
  <1>2. HeaderInv'
    BY DEF parserVars, HeaderInv, LengthFits, AnnouncedLength, U16At, MagicHi, MagicLo, Version,
           MinFrameSize, HeaderSize, CrcSize
  <1> QED BY <1>1, <1>2

LEMMA ParserNext == ASSUME CrcIsU16, ParserInv, [Next]_vars PROVE ParserInv'
  <1>0. TypeOK /\ LineInv /\ HeaderInv BY DEF ParserInv
  <1>1. CASE SendPacket
    <2>1. LineInv' BY <1>0, <1>1, SendKeeps
    <2>2. TypeOK' /\ HeaderInv' BY <1>0, <1>1, NotFed DEF SendPacket
    <2> QED BY <2>1, <2>2 DEF ParserInv
  <1>2. CASE ByteArrives
    <2>1. FeedByte(Head(toSend)) /\ toSend # <<>> /\ toSend' = Tail(toSend)
          /\ UNCHANGED <<sentPkts, faults>>
      BY <1>2 DEF ByteArrives
    <2>2. Head(toSend) \in Byte /\ Tail(toSend) \in Seq(Byte) BY <1>0, <2>1, LineBytes
    <2>3. PICK b \in Byte : FeedByte(b) BY <2>1, <2>2, Zenon
    <2>4. TypeOK' /\ HeaderInv' BY <1>0, <2>3, FeedKeeps
    <2>5. LineInv' BY <1>0, <2>1, <2>2 DEF LineInv
    <2> QED BY <2>4, <2>5 DEF ParserInv
  <1>3. CASE ByteCorrupted \/ ByteInserted
    <2>1. toSend # <<>> /\ faults < MaxFaults /\ faults' = faults + 1 /\ sentPkts' = sentPkts
          /\ toSend' \in {toSend, Tail(toSend)}
      BY <1>3 DEF ByteCorrupted, ByteInserted, Spoilt
    <2>2. Tail(toSend) \in Seq(Byte) BY <1>0, <2>1, LineBytes
    <2>3. PICK b \in Noise : FeedByte(b) BY <1>3, Zenon DEF ByteCorrupted, ByteInserted
    <2>4. b \in Byte BY StreamAssumption
    <2>5. TypeOK' /\ HeaderInv' BY <1>0, <2>3, <2>4, FeedKeeps
    <2>6. faults' \in 0..MaxFaults BY <1>0, <2>1, StreamAssumption DEF LineInv
    <2>7. LineInv' BY <1>0, <2>1, <2>2, <2>6 DEF LineInv
    <2> QED BY <2>5, <2>7 DEF ParserInv
  <1>4. CASE ByteLost
    <2>1. toSend # <<>> /\ faults < MaxFaults /\ faults' = faults + 1 /\ sentPkts' = sentPkts
          /\ toSend' = Tail(toSend)
      BY <1>4 DEF ByteLost, Spoilt
    <2>2. Tail(toSend) \in Seq(Byte) BY <1>0, <2>1, LineBytes
    <2>3. faults' \in 0..MaxFaults BY <1>0, <2>1, StreamAssumption DEF LineInv
    <2>4. LineInv' BY <1>0, <2>1, <2>2, <2>3 DEF LineInv
    <2>5. TypeOK' /\ HeaderInv' BY <1>0, <1>4, NotFed DEF ByteLost
    <2> QED BY <2>4, <2>5 DEF ParserInv
  <1>5. CASE UNCHANGED vars
    <2>1. TypeOK' /\ HeaderInv' BY <1>0, <1>5, NotFed DEF vars
    <2>2. LineInv' BY <1>0, <1>5 DEF vars, LineInv
    <2> QED BY <2>1, <2>2 DEF ParserInv
  <1> QED BY <1>1, <1>2, <1>3, <1>4, <1>5 DEF Next

\* Whatever bytes come, stream_parser_feed_byte stays inside frame_buffer: a header is never
\* longer than PROTOCOL_FIXED_HEADER_SIZE, a frame never longer than the length its checked
\* header announces, which is never more than PROTOCOL_MAX_FRAME_SIZE, and a complete frame
\* is refused for nothing but its CRC.
THEOREM BufferNeverOverrun == ASSUME CrcIsU16 PROVE Spec => []TypeOK
  <1>1. Init => ParserInv BY ParserInit
  <1>2. ParserInv /\ [Next]_vars => ParserInv' BY ParserNext
  <1>3. ParserInv => TypeOK BY DEF ParserInv
  <1> QED BY <1>1, <1>2, <1>3, PTL DEF Spec
-----------------------------------------------------------------------------
(* A line that spoils nothing.                                             *)

\* A byte goes from the front of one sequence to the end of another.
LEMMA ByteMoves ==
    ASSUME NEW s \in Seq(Byte), NEW t \in Seq(Byte), t # <<>>
    PROVE  Append(s, Head(t)) \o Tail(t) = s \o t
  <1>1. PICK b \in Byte : b = Head(t) OBVIOUS
  <1>2. PICK r \in Seq(Byte) : r = Tail(t)
    <2>1. Tail(t) \in Seq(Byte) OBVIOUS
    <2> QED BY <2>1, Zenon
  <1>3. <<b>> \in Seq(Byte) OBVIOUS
  <1>4. t = <<b>> \o r BY <1>1, <1>2, HeadTailProperties, ConcatProperties, SeqEqual
  <1>5. Append(s, b) = s \o <<b>> BY AppendIsConcat
  <1>6. (s \o <<b>>) \o r = s \o (<<b>> \o r) BY <1>3, ConcatAssociative
  <1> QED BY <1>1, <1>2, <1>4, <1>5, <1>6, Zenon

\* Of the frame e, s has come and t has not; f is s and the next byte b.
Moves(e, f, b, s, t) ==
    /\ b \in Byte /\ Len(e) = Len(s) + Len(t)
    /\ f \in Seq(Byte) /\ Len(f) = Len(s) + 1 /\ f \o Tail(t) = e
    /\ \A i \in 1..Len(s) : s[i] = e[i]
    /\ \A i \in 1..Len(s) + 1 : f[i] = e[i]
    /\ Len(t) \in Nat \ {0} /\ (Tail(t) = <<>> <=> Len(t) = 1)
    /\ Tail(t) = <<>> => f = e

LEMMA NextByte ==
    ASSUME NEW s \in Seq(Byte), NEW t \in Seq(Byte), t # <<>>, NEW e, e = s \o t,
           NEW b, b = Head(t), NEW f, f = Append(s, b)
    PROVE  Moves(e, f, b, s, t)
  <1>1. b \in Byte /\ b = t[1] /\ Tail(t) \in Seq(Byte) OBVIOUS
  <1>2. Len(t) \in Nat \ {0} /\ (Tail(t) = <<>> <=> Len(t) = 1)
    <2>1. Len(t) \in Nat /\ Len(t) # 0 BY EmptySeq
    <2>2. Len(Tail(t)) = Len(t) - 1 BY HeadTailProperties
    <2>3. Tail(t) = <<>> <=> Len(Tail(t)) = 0 BY <1>1, EmptySeq
    <2> QED BY <2>1, <2>2, <2>3
  <1>3. /\ e \in Seq(Byte) /\ Len(e) = Len(s) + Len(t) /\ \A i \in 1..Len(s) : e[i] = s[i]
        /\ \A i \in 1..Len(t) : e[Len(s) + i] = t[i]
    BY Joined
  <1>4. e[Len(s) + 1] = b BY <1>1, <1>2, <1>3
  <1>5. /\ f \in Seq(Byte) /\ Len(f) = Len(s) + 1 /\ f[Len(s) + 1] = b
        /\ \A i \in 1..Len(s) : f[i] = s[i]
    BY <1>1, Appended
  <1>6. \A i \in 1..Len(s) + 1 : f[i] = e[i] BY <1>3, <1>4, <1>5
  <1>7. f \o Tail(t) = e BY ByteMoves, Zenon
  <1>8. Tail(t) = <<>> => f = e
    <2>1. f \o <<>> = f BY <1>5, ConcatEmptySeq
    <2> QED BY <1>7, <2>1, Zenon
  <1> QED BY <1>1, <1>2, <1>3, <1>4, <1>5, <1>6, <1>7, <1>8, Zenon DEF Moves

Extends(f, s, b) == f = Append(s, b)

\* The parser has taken the n bytes of buf from the frame e, and f is what it holds with the
\* next one.
Following(e, f, b, n) ==
    /\ n = Len(buf) /\ Extends(f, buf, b) /\ f \in Seq(Byte) /\ Len(f) = n + 1
    /\ Len(f) <= Len(e) /\ (Len(f) = Len(e) => f = e)
    /\ \A i \in 1..n : buf[i] = e[i]
    /\ \A i \in 1..n + 1 : f[i] = e[i]

\* A byte of a frame that is not the last one.
Kept(f) == /\ buf' = f /\ state' = StateAfter(Len(f)) /\ delivered' = delivered
           /\ UNCHANGED <<crcErrors, formatErrors, discarded>>

LEMMA CleanMagic ==
    ASSUME TypeOK, NEW p, NEW l \in Nat, NEW e, IsFrameOf(e, p, l), NEW b \in Byte, NEW f,
           NEW n \in {0, 1}, Following(e, f, b, n), state = StateAfter(n), FeedByte(b)
    PROVE  Kept(f)
  <1>1. buf \in Seq(Byte) BY DEF TypeOK
  <1>2. e[1] = MagicHi /\ e[2] = MagicLo BY Zenon DEF IsFrameOf
  <1>3. f \in Seq(Byte) /\ Len(f) = n + 1 /\ \A i \in 1..n + 1 : f[i] = e[i]
    BY Zenon DEF Following
  <1>4. f[n + 1] = b
    <2>1. f = Append(buf, b) /\ n = Len(buf) BY Zenon DEF Following, Extends
    <2>2. f[Len(buf) + 1] = b BY <1>1, <2>1, Appended
    <2> QED BY <2>1, <2>2, Zenon
  <1>5. MagicHi # MagicLo BY DEF MagicHi, MagicLo
  <1>6. CASE n = 0
    <2>1. b = MagicHi /\ Len(f) = 1 /\ f[1] = b BY <1>2, <1>3, <1>4, <1>6
    <2>2. state = "WAIT_MAGIC_1" BY <1>6 DEF StateAfter
    <2>3. WaitMagic1(b) BY <2>2 DEF FeedByte, WaitMagic2, ReadHeader, ReadRest
    <2>4. state' = "WAIT_MAGIC_2" /\ buf' = <<b>>
          /\ UNCHANGED <<crcErrors, formatErrors, discarded, delivered>>
      BY <2>1, <2>3, Zenon DEF WaitMagic1
    <2>5. f = <<b>>
      <3>1. PICK u : u = <<b>> BY Zenon
      <3>2. u \in Seq(Byte) /\ Len(u) = 1 /\ u[1] = b BY <3>1
      <3>3. f \in Seq(Byte) /\ Len(f) = Len(u) /\ \A i \in 1..Len(f) : f[i] = u[i]
        BY <1>3, <2>1, <3>2
      <3> QED BY <3>1, <3>2, <3>3, SeqEqual
    <2>6. StateAfter(Len(f)) = "WAIT_MAGIC_2" BY <2>1 DEF StateAfter
    <2> QED BY <2>4, <2>5, <2>6, Zenon DEF Kept
  <1>7. CASE n = 1
    <2>1. b = MagicLo /\ Len(f) = 2 /\ f[1] = MagicHi /\ f[2] = MagicLo
      BY <1>2, <1>3, <1>4, <1>7
    <2>2. state = "WAIT_MAGIC_2" BY <1>7 DEF StateAfter
    <2>3. WaitMagic2(b) BY <2>2 DEF FeedByte, WaitMagic1, ReadHeader, ReadRest
    <2>4. state' = "READ_HEADER" /\ buf' = <<MagicHi, b>>
          /\ UNCHANGED <<crcErrors, formatErrors, discarded, delivered>>
      BY <1>5, <2>1, <2>3 DEF WaitMagic2
    <2>5. f = <<MagicHi, b>>
      <3>1. MagicHi \in Byte BY ByteRange DEF MagicHi
      <3>2. PICK u : u = <<MagicHi, b>> BY Zenon
      <3>3. u \in Seq(Byte) /\ Len(u) = 2 /\ u[1] = MagicHi /\ u[2] = b BY <3>1, <3>2
      <3>4. f[1] = u[1] /\ f[2] = u[2] /\ Len(f) = Len(u) BY <2>1, <3>3
      <3>5. \A i \in {1, 2} : f[i] = u[i] BY <3>4
      <3>6. 1..Len(f) = {1, 2} BY <2>1
      <3>7. \A i \in 1..Len(f) : f[i] = u[i] BY <3>5, <3>6, Zenon
      <3>8. f \in Seq(Byte) /\ u \in Seq(Byte) /\ Len(f) = Len(u) BY <1>3, <3>3, <3>4
      <3> QED BY <3>2, <3>7, <3>8, SeqEqual
    <2>6. StateAfter(Len(f)) = "READ_HEADER" BY <2>1 DEF StateAfter, HeaderSize
    <2> QED BY <2>4, <2>5, <2>6, Zenon DEF Kept
  <1> QED BY <1>6, <1>7

LEMMA CleanHeader ==
    ASSUME TypeOK, NEW p, NEW l \in Nat, NEW e, IsFrameOf(e, p, l), l <= MaxPayload,
           NEW b \in Byte, NEW f, NEW n \in 2..7, Following(e, f, b, n), state = StateAfter(n),
           FeedByte(b)
    PROVE  Kept(f)
  <1>1. buf \in Seq(Byte) BY DEF TypeOK
  <1>2. e[3] = Version /\ e[7] * 256 + e[8] = l BY Zenon DEF IsFrameOf
  <1>3. f \in Seq(Byte) /\ Len(f) = n + 1 /\ \A i \in 1..n + 1 : f[i] = e[i]
    BY Zenon DEF Following
  <1>4. state = "READ_HEADER" BY DEF StateAfter, HeaderSize
  <1>5. ReadHeader(b) BY <1>4 DEF FeedByte, WaitMagic1, WaitMagic2, ReadRest
  <1>6. /\ UNCHANGED <<crcErrors, discarded, delivered>>
        /\ \/ /\ Len(f) < HeaderSize
              /\ buf' = f /\ UNCHANGED <<state, expected, lastError, formatErrors>>
           \/ Len(f) = HeaderSize /\ f[3] # Version
           \/ Len(f) = HeaderSize /\ ~LengthFits(f)
           \/ /\ Len(f) = HeaderSize /\ state' = "READ_REST" /\ buf' = f
              /\ UNCHANGED <<lastError, formatErrors>>
    BY <1>5, Zenon DEF ReadHeader, Following, Extends
  <1>7. CASE n < 7
    <2>1. Len(f) \in 3..7 BY <1>3, <1>7
    <2>2. Len(f) < HeaderSize /\ ~(Len(f) = HeaderSize) BY <1>3, <1>7 DEF HeaderSize
    <2>3. buf' = f /\ state' = state /\ formatErrors' = formatErrors BY <1>6, <2>2, Zenon
    <2>4. StateAfter(Len(f)) = "READ_HEADER" BY <2>1 DEF StateAfter, HeaderSize
    <2> QED BY <1>4, <1>6, <2>3, <2>4, Zenon DEF Kept
  <1>8. CASE n = 7
    <2>1. Len(f) = 8 BY <1>3, <1>8
    <2>2. f[3] = e[3] /\ f[7] = e[7] /\ f[8] = e[8] BY <1>3, <1>8
    <2>3. f[3] = Version BY <1>2, <2>2
    <2>4. LengthFits(f) BY <1>2, <2>2 DEF LengthFits, AnnouncedLength, U16At
    <2>5. ~(Len(f) < HeaderSize) BY <2>1 DEF HeaderSize
    <2>6. buf' = f /\ state' = "READ_REST" /\ formatErrors' = formatErrors
      BY <1>6, <2>3, <2>4, <2>5, Zenon
    <2>7. StateAfter(Len(f)) = "READ_REST" BY <2>1 DEF StateAfter, HeaderSize
    <2> QED BY <1>6, <2>6, <2>7, Zenon DEF Kept
  <1> QED BY <1>7, <1>8

LEMMA CleanRest ==
    ASSUME CrcIsU16, TypeOK, HeaderInv, NEW p \in Packet, NEW l \in Nat, NEW e, e = Encode(p),
           IsFrameOf(e, p, l), l <= MaxPayload, NEW b \in Byte, NEW f,
           NEW n \in Nat, n > 7, Following(e, f, b, n), state = StateAfter(n), FeedByte(b)
    PROVE  /\ Len(f) < Len(e) => Kept(f)
           /\ Len(f) = Len(e) => /\ ResetFrame /\ delivered' = Append(delivered, p)
                                 /\ UNCHANGED <<crcErrors, formatErrors, discarded>>
  <1>1. buf \in Seq(Byte) BY DEF TypeOK
  <1>2. Len(e) = 10 + l /\ e[7] * 256 + e[8] = l BY Zenon DEF IsFrameOf
  <1>3. /\ f \in Seq(Byte) /\ Len(f) = n + 1 /\ Len(f) <= Len(e)
        /\ \A i \in 1..n : buf[i] = e[i]
        /\ Len(f) = Len(e) => f = e
    BY Zenon DEF Following
  <1>4. state = "READ_REST" BY <1>1 DEF StateAfter, HeaderSize
  <1>5. expected = Len(e)
    <2>1. buf[7] = e[7] /\ buf[8] = e[8] BY <1>1, <1>3
    <2>2. AnnouncedLength(buf) = l BY <1>2, <2>1 DEF AnnouncedLength, U16At
    <2>3. expected = MinFrameSize + l BY <1>4, <2>2 DEF HeaderInv
    <2> QED BY <1>2, <2>3 DEF MinFrameSize, HeaderSize, CrcSize
  <1>6. ReadRest(b) BY <1>4 DEF FeedByte, WaitMagic1, WaitMagic2, ReadHeader
  <1>7. /\ UNCHANGED discarded
        /\ \/ /\ Len(f) < expected /\ buf' = f
              /\ UNCHANGED <<state, expected, lastError, crcErrors, formatErrors, delivered>>
           \/ /\ Len(f) = expected /\ ResetFrame
              /\ delivered' = Append(delivered, Decoded(f))
              /\ UNCHANGED <<crcErrors, formatErrors>>
           \/ Len(f) = expected /\ DecodeResult(f) # "OK"
    BY <1>6, Zenon DEF ReadRest, Verdict, Following, Extends
  <1>8. ASSUME Len(f) < Len(e) PROVE Kept(f)
    <2>1. Len(f) < expected /\ ~(Len(f) = expected) BY <1>1, <1>2, <1>3, <1>5, <1>8
    <2>2. buf' = f /\ state' = state /\ crcErrors' = crcErrors /\ formatErrors' = formatErrors
          /\ delivered' = delivered
      BY <1>7, <2>1, Zenon
    <2>3. StateAfter(Len(f)) = "READ_REST" BY <1>1, <1>3 DEF StateAfter, HeaderSize
    <2> QED BY <1>4, <1>7, <2>2, <2>3, Zenon DEF Kept
  <1>9. ASSUME Len(f) = Len(e)
        PROVE  /\ ResetFrame /\ delivered' = Append(delivered, p)
               /\ UNCHANGED <<crcErrors, formatErrors, discarded>>
    <2>1. f = e /\ ~(Len(f) < expected) BY <1>2, <1>3, <1>5, <1>9
    <2>2. p \in Packets /\ Len(p.payload) <= MaxPayload BY PacketIsSendable
    <2>3. DecodeResult(e) = "OK" /\ Decoded(e) = p BY <2>2, DecodeEncode
    <2> QED BY <1>7, <2>1, <2>3, Zenon
  <1> QED BY <1>8, <1>9

\* A byte arrives as it was sent.
LEMMA CleanByte ==
    ASSUME CrcIsU16, ParserInv, CleanInv, ByteArrives, faults = 0, faults' = 0
    PROVE  CleanInv'
  <1>0. TypeOK /\ LineInv /\ HeaderInv BY DEF ParserInv
  <1>1. /\ FeedByte(Head(toSend)) /\ toSend # <<>> /\ toSend' = Tail(toSend)
        /\ sentPkts' = sentPkts
    BY DEF ByteArrives
  <1>2. PICK p : p = sentPkts[Len(sentPkts)] BY Zenon
  <1>3. /\ crcErrors = 0 /\ formatErrors = 0 /\ discarded = 0 /\ delivered \in Seq(Packet)
        /\ state = StateAfter(Len(buf))
        /\ sentPkts # <<>> /\ sentPkts = Append(delivered, p) /\ buf \o toSend = Encode(p)
    BY <1>1, <1>2, Zenon DEF CleanInv
  <1>4. p \in Packet
    <2>1. sentPkts \in Seq(Packet) BY <1>0 DEF LineInv
    <2>2. Len(sentPkts) \in 1..Len(sentPkts) BY <1>3, <2>1, EmptySeq
    <2> QED BY <1>2, <2>1, <2>2, ElementOfSeq
  <1>5. p \in Packets /\ Len(p.payload) <= MaxPayload BY <1>4, PacketIsSendable
  <1>6. PICK l \in Nat : l = Len(p.payload) /\ l <= MaxPayload BY <1>5 DEF Packets
  <1>7. PICK e : e = Encode(p) BY Zenon
  <1>8. IsFrameOf(e, p, l) BY <1>5, <1>6, <1>7, EncodeBytes
  <1>9. PICK b : b = Head(toSend) BY Zenon
  <1>10. PICK f : f = Append(buf, b) BY Zenon
  <1>11. buf \in Seq(Byte) /\ toSend \in Seq(Byte) BY <1>0 DEF TypeOK, LineInv
  <1>12. PICK n \in Nat : n = Len(buf) BY <1>11
  <1>13. /\ b \in Byte /\ Len(e) = Len(buf) + Len(toSend)
         /\ f \in Seq(Byte) /\ Len(f) = Len(buf) + 1 /\ f \o Tail(toSend) = e
         /\ \A i \in 1..Len(buf) : buf[i] = e[i]
         /\ \A i \in 1..Len(buf) + 1 : f[i] = e[i]
         /\ Len(toSend) \in Nat \ {0} /\ (Tail(toSend) = <<>> <=> Len(toSend) = 1)
         /\ Tail(toSend) = <<>> => f = e
    <2>1. e = buf \o toSend BY <1>3, <1>7, Zenon
    <2>2. toSend # <<>> BY <1>1
    <2>3. Moves(e, f, b, buf, toSend) BY <1>9, <1>10, <1>11, <2>1, <2>2, NextByte
    <2> QED BY <2>3, Zenon DEF Moves
  <1>14. PICK m \in Nat : m = Len(toSend) /\ m >= 1 BY <1>13
  <1>15. /\ Len(e) = n + m /\ Len(f) = n + 1 /\ Len(f) <= Len(e)
         /\ (Len(f) = Len(e) <=> m = 1) /\ (Len(f) < Len(e) <=> m # 1)
    BY <1>12, <1>13, <1>14
  <1>16. Len(f) = Len(e) <=> Tail(toSend) = <<>> BY <1>13, <1>14, <1>15
  <1>17. Following(e, f, b, n)
    BY <1>10, <1>12, <1>13, <1>15, <1>16, Zenon DEF Following, Extends
  <1>18. FeedByte(b) /\ state = StateAfter(n) BY <1>1, <1>3, <1>9, <1>12, Zenon
  <1>19. CASE Len(f) < Len(e)
    <2>1. Kept(f)
      <3>1. CASE n \in {0, 1} BY <1>0, <1>8, <1>13, <1>17, <1>18, <3>1, CleanMagic
      <3>2. CASE n \in 2..7 BY <1>0, <1>6, <1>8, <1>13, <1>17, <1>18, <3>2, CleanHeader
      <3>3. CASE n > 7
        BY <1>0, <1>4, <1>6, <1>7, <1>8, <1>13, <1>17, <1>18, <1>19, <3>3, CleanRest
      <3>4. n \in {0, 1} \/ n \in 2..7 \/ n > 7 OBVIOUS
      <3> QED BY <3>1, <3>2, <3>3, <3>4, Zenon
    <2>2. ~(Len(f) = Len(e)) BY <1>15, <1>19
    <2>3. toSend' # <<>> BY <1>1, <1>16, <2>2, Zenon
    <2>4. buf' \o toSend' = Encode(p) BY <1>1, <1>7, <1>13, <2>1, Zenon DEF Kept
    <2>5. sentPkts'[Len(sentPkts')] = p BY <1>1, <1>2, Zenon
    <2>6. state' = StateAfter(Len(buf')) BY <2>1, Zenon DEF Kept
    <2>7. /\ crcErrors' = 0 /\ formatErrors' = 0 /\ discarded' = 0 /\ delivered' \in Seq(Packet)
          /\ sentPkts' # <<>> /\ sentPkts' = Append(delivered', p)
      BY <1>1, <1>3, <2>1, Zenon DEF Kept
    <2> QED BY <2>3, <2>4, <2>5, <2>6, <2>7, Zenon DEF CleanInv
  <1>20. CASE Len(f) = Len(e)
    <2>1. n > 7 BY <1>8, <1>6, <1>15, <1>20 DEF IsFrameOf
    <2>2. /\ ResetFrame /\ delivered' = Append(delivered, p)
          /\ UNCHANGED <<crcErrors, formatErrors, discarded>>
      BY <1>0, <1>4, <1>6, <1>7, <1>8, <1>13, <1>17, <1>18, <1>20, <2>1, CleanRest
    <2>3. toSend' = <<>> BY <1>1, <1>16, <1>20, Zenon
    <2>4. state' = "WAIT_MAGIC_1" /\ buf' = <<>> BY <2>2 DEF ResetFrame
    <2>5. state' = StateAfter(Len(buf'))
      <3>1. Len(buf') = 0 BY <2>4
      <3> QED BY <2>4, <3>1 DEF StateAfter
    <2>6. delivered' = sentPkts' BY <1>1, <1>3, <2>2, Zenon
    <2>7. delivered' \in Seq(Packet) BY <1>0, <1>1, <2>6 DEF LineInv
    <2>8. crcErrors' = 0 /\ formatErrors' = 0 /\ discarded' = 0 BY <1>3, <2>2
    <2> QED BY <2>3, <2>4, <2>5, <2>6, <2>7, <2>8, Zenon DEF CleanInv
  <1>21. Len(f) < Len(e) \/ Len(f) = Len(e) BY <1>15
  <1> QED BY <1>19, <1>20, <1>21

LEMMA CleanInit == ASSUME Init PROVE CleanInv
  <1>1. Len(buf) = 0 /\ delivered \in Seq(Packet) BY DEF Init
  <1>2. state = StateAfter(Len(buf)) BY <1>1 DEF Init, StateAfter
  <1> QED BY <1>1, <1>2 DEF Init, CleanInv

LEMMA CleanNext == ASSUME CrcIsU16, ParserInv, CleanInv, [Next]_vars PROVE CleanInv'
  <1> SUFFICES ASSUME faults' = 0 PROVE CleanInv' BY Zenon DEF CleanInv
  <1>0. TypeOK /\ LineInv /\ faults \in Nat BY StreamAssumption DEF ParserInv, LineInv
  <1>1. CASE SendPacket
    <2>1. faults = 0 /\ toSend = <<>> /\ delivered' = delivered /\ UNCHANGED parserVars
      BY <1>1 DEF SendPacket
    <2>2. toSend' # <<>> BY <1>0, <1>1, SendKeeps
    <2>3. PICK p \in Packet : sentPkts' = Append(sentPkts, p) /\ toSend' = Encode(p)
      BY <1>0, <1>1, SendKeeps
    <2>4. /\ crcErrors = 0 /\ formatErrors = 0 /\ discarded = 0 /\ delivered \in Seq(Packet)
          /\ state = StateAfter(Len(buf)) /\ buf = <<>> /\ delivered = sentPkts
      BY <2>1, Zenon DEF CleanInv
    <2>5. sentPkts \in Seq(Packet) BY <1>0 DEF LineInv
    <2>6. sentPkts' # <<>> /\ sentPkts'[Len(sentPkts')] = p BY <2>3, <2>5, AppendProperties
    <2>7. toSend' \in Seq(Byte) BY <1>0, <1>1, SendKeeps DEF LineInv
    <2>8. buf' \o toSend' = Encode(p)
      <3>1. buf' = <<>> BY <2>1, <2>4 DEF parserVars
      <3>2. <<>> \o toSend' = toSend' BY <2>7, ConcatEmptySeq
      <3> QED BY <2>3, <3>1, <3>2, Zenon
    <2>9. sentPkts' = Append(delivered', p) BY <2>1, <2>3, <2>4, Zenon
    <2>10. /\ crcErrors' = 0 /\ formatErrors' = 0 /\ discarded' = 0 /\ delivered' \in Seq(Packet)
           /\ state' = StateAfter(Len(buf'))
      BY <2>1, <2>4, Zenon DEF parserVars
    <2> QED BY <2>2, <2>6, <2>8, <2>9, <2>10, Zenon DEF CleanInv
  <1>2. CASE ByteArrives
    <2>1. faults = 0 BY <1>2 DEF ByteArrives
    <2> QED BY <1>2, <2>1, CleanByte
  <1>3. CASE ByteCorrupted \/ ByteLost \/ ByteInserted
    <2>1. faults' = faults + 1 BY <1>3 DEF ByteCorrupted, ByteLost, ByteInserted, Spoilt
    <2> QED BY <1>0, <2>1
  <1>4. CASE UNCHANGED vars
    BY <1>4, Zenon DEF CleanInv, vars, parserVars
  <1> QED BY <1>1, <1>2, <1>3, <1>4 DEF Next

\* On a line that spoils nothing the parser returns every packet that protocol_encode put on
\* it, in order and unchanged, as soon as its last byte is there, and counts no error:
\* decoding undoes encoding for every packet, payloads that hold a MAGIC included.
THEOREM CleanLineDelivers == ASSUME CrcIsU16 PROVE Spec => []CleanDelivery
  <1>1. Init => ParserInv /\ CleanInv BY ParserInit, CleanInit
  <1>2. ParserInv /\ CleanInv /\ [Next]_vars => (ParserInv /\ CleanInv)'
    BY ParserNext, CleanNext
  <1>3. ParserInv /\ CleanInv => CleanDelivery
    <2> SUFFICES ASSUME ParserInv, CleanInv, faults = 0
                 PROVE  /\ Missed = 0 /\ \A i \in 1..Len(delivered) : delivered[i] = sentPkts[i]
                        /\ crcErrors = 0 /\ formatErrors = 0 /\ discarded = 0
      BY DEF CleanDelivery
    <2>1. crcErrors = 0 /\ formatErrors = 0 /\ discarded = 0 /\ delivered \in Seq(Packet)
      BY Zenon DEF CleanInv
    <2>2. CASE toSend = <<>>
      <3>1. delivered = sentPkts BY <2>2, Zenon DEF CleanInv
      <3>2. Len(sentPkts) \in Nat BY <2>1, <3>1
      <3>3. Missed = 0 BY <2>2, <3>1, <3>2 DEF Missed, Complete
      <3> QED BY <2>1, <3>1, <3>3
    <2>3. CASE toSend # <<>>
      <3>1. sentPkts = Append(delivered, sentPkts[Len(sentPkts)]) BY <2>3, Zenon DEF CleanInv
      <3>2. PICK p : p = sentPkts[Len(sentPkts)] BY Zenon
      <3>3. sentPkts = Append(delivered, p) BY <3>1, <3>2, Zenon
      <3>4. sentPkts \in Seq(Packet) /\ p \in Packet
        <4>1. sentPkts \in Seq(Packet) BY DEF ParserInv, LineInv
        <4>2. sentPkts # <<>> BY <2>3, Zenon DEF CleanInv
        <4>3. Len(sentPkts) \in 1..Len(sentPkts) BY <4>1, <4>2, EmptySeq
        <4> QED BY <3>2, <4>1, <4>3, ElementOfSeq
      <3>5. /\ Len(sentPkts) = Len(delivered) + 1
            /\ \A i \in 1..Len(delivered) : sentPkts[i] = delivered[i]
        BY <2>1, <3>3, <3>4, AppendProperties
      <3>6. Len(delivered) \in Nat BY <2>1
      <3>7. Missed = 0 BY <2>3, <3>5, <3>6 DEF Missed, Complete
      <3> QED BY <2>1, <3>5, <3>7
    <2> QED BY <2>2, <2>3
  <1> QED BY <1>1, <1>2, <1>3, PTL DEF Spec
=============================================================================

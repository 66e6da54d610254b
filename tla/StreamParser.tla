---------------------------- MODULE StreamParser ----------------------------
(***************************************************************************)
(* common/stream_parser.c, which both boards run on the bytes of the       *)
(* RS-422 line and the gateway also on the TCP stream, behind a line that  *)
(* corrupts, loses and inserts bytes.                                      *)
(*                                                                         *)
(* buf is frame_buffer up to frame_index.  The tests that guard the buffer *)
(* before a byte is stored (frame_index >= size, index > expected length)  *)
(* are left out: TypeOK says that they never find anything.                *)
(***************************************************************************)
EXTENDS Protocol

CONSTANTS Payloads,    \* payloads of the packets that are sent
          Noise,       \* byte values the line may make up
          MaxPackets,  \* bound: packets of a behaviour
          MaxFaults    \* bound: bytes that the line spoils

PingId == 1            \* MSG_PING

ASSUME StreamAssumption ==
    /\ Payloads \subseteq Seq(Byte) /\ \A p \in Payloads : Len(p) <= MaxPayload
    /\ Noise \subseteq Byte /\ MaxPackets \in U16 /\ MaxFaults \in Nat

VARIABLES
    state,             \* stream_parser_state_t
    buf,               \* frame_buffer[0 .. frame_index - 1]
    expected,          \* expected_frame_length
    lastError,         \* last_error
    crcErrors, formatErrors, discarded,  \* the statistics
    \* the line and what came out
    toSend,            \* bytes of the current frame still to come
    sentPkts,          \* packets whose frames were put on the line
    faults,            \* bytes spoilt so far
    delivered          \* packets that the parser returned with EVENT_FRAME

parserVars == <<state, buf, expected, lastError, crcErrors, formatErrors, discarded>>
vars == <<parserVars, toSend, sentPkts, faults, delivered>>

\* stream_parser_init, and an idle line.
Init ==
    /\ state = "WAIT_MAGIC_1" /\ buf = <<>> /\ expected = 0 /\ lastError = "OK"
    /\ crcErrors = 0 /\ formatErrors = 0 /\ discarded = 0
    /\ toSend = <<>> /\ sentPkts = <<>> /\ faults = 0 /\ delivered = <<>>

-----------------------------------------------------------------------------
\* stream_parser_reset_frame, which leaves last_error to its caller.
ResetFrame == state' = "WAIT_MAGIC_1" /\ buf' = <<>> /\ expected' = 0

\* Mutant: the tail of a rejected header is not looked at.
ResyncToStart(rejected) == ResetFrame

\* resync_from_tail: the last bytes of a rejected header may begin the next frame.
ResyncFromTail(rejected) ==
    LET n == Len(rejected)
    IN /\ expected' = 0
       /\ IF rejected[n - 1] = MagicHi /\ rejected[n] = MagicLo
          THEN state' = "READ_HEADER" /\ buf' = <<MagicHi, MagicLo>>
          ELSE IF rejected[n] = MagicHi
          THEN state' = "WAIT_MAGIC_2" /\ buf' = <<MagicHi>>
          ELSE state' = "WAIT_MAGIC_1" /\ buf' = <<>>

\* Mutant: noise before a MAGIC is not counted.
SkipSilently(b) ==
    /\ state = "WAIT_MAGIC_1"
    /\ IF b = MagicHi
       THEN state' = "WAIT_MAGIC_2" /\ buf' = <<b>>
       ELSE UNCHANGED <<state, buf>>
    /\ UNCHANGED <<expected, lastError, crcErrors, formatErrors, discarded, delivered>>

WaitMagic1(b) ==
    /\ state = "WAIT_MAGIC_1"
    /\ IF b = MagicHi
       THEN state' = "WAIT_MAGIC_2" /\ buf' = <<b>> /\ UNCHANGED discarded
       ELSE discarded' = discarded + 1 /\ UNCHANGED <<state, buf>>
    /\ UNCHANGED <<expected, lastError, crcErrors, formatErrors, delivered>>

WaitMagic2(b) ==
    /\ state = "WAIT_MAGIC_2"
    /\ CASE b = MagicLo -> state' = "READ_HEADER" /\ buf' = <<MagicHi, b>>
                           /\ UNCHANGED discarded
         [] b = MagicHi -> buf' = <<b>> /\ discarded' = discarded + 1 /\ UNCHANGED state
         [] OTHER -> state' = "WAIT_MAGIC_1" /\ buf' = <<>> /\ discarded' = discarded + 2
    /\ UNCHANGED <<expected, lastError, crcErrors, formatErrors, delivered>>

RejectHeader(error, header) ==
    /\ lastError' = error /\ formatErrors' = formatErrors + 1
    /\ ResyncFromTail(header)

\* Mutant: any length that a header announces is believed.
LengthTrusted(header) == TRUE

\* The header announces a payload that fits into frame_buffer.
LengthFits(header) == AnnouncedLength(header) <= MaxPayload

ReadHeader(b) ==
    /\ state = "READ_HEADER"
    /\ LET header == Append(buf, b)
       IN \/ /\ Len(header) < HeaderSize
             /\ buf' = header /\ UNCHANGED <<state, expected, lastError, formatErrors>>
          \/ /\ Len(header) = HeaderSize /\ header[3] # Version
             /\ RejectHeader("VERSION", header)
          \/ /\ Len(header) = HeaderSize /\ header[3] = Version /\ ~LengthFits(header)
             /\ RejectHeader("LENGTH", header)
          \/ /\ Len(header) = HeaderSize /\ header[3] = Version /\ LengthFits(header)
             /\ state' = "READ_REST" /\ buf' = header
             /\ expected' = MinFrameSize + AnnouncedLength(header)
             /\ UNCHANGED <<lastError, formatErrors>>
    /\ UNCHANGED <<crcErrors, discarded, delivered>>

\* Mutant: the checksum is not compared.
AcceptAny(frame) == "OK"

\* The verdict of protocol_decode on a complete candidate frame.
Verdict(frame) == DecodeResult(frame)

ReadRest(b) ==
    /\ state = "READ_REST"
    /\ LET frame == Append(buf, b)
       IN \/ /\ Len(frame) < expected
             /\ buf' = frame
             /\ UNCHANGED <<state, expected, lastError, crcErrors, formatErrors, delivered>>
          \/ /\ Len(frame) = expected /\ Verdict(frame) = "OK"
             /\ delivered' = Append(delivered, Decoded(frame))
             /\ ResetFrame /\ lastError' = "OK"
             /\ UNCHANGED <<crcErrors, formatErrors>>
          \/ /\ Len(frame) = expected /\ Verdict(frame) # "OK"
             /\ lastError' = Verdict(frame)
             /\ IF Verdict(frame) = "CRC"
                THEN crcErrors' = crcErrors + 1 /\ UNCHANGED formatErrors
                ELSE formatErrors' = formatErrors + 1 /\ UNCHANGED crcErrors
             /\ ResetFrame /\ UNCHANGED delivered
    /\ UNCHANGED discarded

\* stream_parser_feed_byte.
FeedByte(b) == WaitMagic1(b) \/ WaitMagic2(b) \/ ReadHeader(b) \/ ReadRest(b)

-----------------------------------------------------------------------------
(* The line.                                                               *)

\* The sender encodes the next packet; its SEQ is its number.
SendPacket ==
    /\ toSend = <<>> /\ Len(sentPkts) < MaxPackets
    /\ \E payload \in Payloads :
          LET p == [msg |-> PingId, seq |-> Len(sentPkts) + 1, payload |-> payload]
          IN sentPkts' = Append(sentPkts, p) /\ toSend' = Encode(p)
    /\ UNCHANGED <<parserVars, faults, delivered>>

\* A byte arrives as it was sent.
ByteArrives ==
    /\ toSend # <<>>
    /\ FeedByte(Head(toSend)) /\ toSend' = Tail(toSend)
    /\ UNCHANGED <<sentPkts, faults>>

Spoilt == faults < MaxFaults /\ toSend # <<>> /\ faults' = faults + 1

\* A byte is corrupted, lost or made up.
ByteCorrupted ==
    /\ Spoilt
    /\ \E b \in Noise \ {Head(toSend)} : FeedByte(b)
    /\ toSend' = Tail(toSend)
    /\ UNCHANGED sentPkts

ByteLost ==
    /\ Spoilt
    /\ toSend' = Tail(toSend)
    /\ UNCHANGED <<parserVars, sentPkts, delivered>>

ByteInserted ==
    /\ Spoilt
    /\ \E b \in Noise : FeedByte(b)
    /\ UNCHANGED <<toSend, sentPkts>>

Next == SendPacket \/ ByteArrives \/ ByteCorrupted \/ ByteLost \/ ByteInserted

Spec == Init /\ [][Next]_vars

-----------------------------------------------------------------------------
(* Properties.                                                             *)

\* The parser stays inside its buffer: between bytes, a header is shorter than
\* PROTOCOL_FIXED_HEADER_SIZE and a frame shorter than the length it expects, which
\* is never more than PROTOCOL_MAX_FRAME_SIZE.
TypeOK ==
    /\ state \in {"WAIT_MAGIC_1", "WAIT_MAGIC_2", "READ_HEADER", "READ_REST"}
    /\ buf \in Seq(Byte) /\ expected \in 0..MaxFrameSize
    /\ state = "WAIT_MAGIC_1" => buf = <<>>
    /\ state = "WAIT_MAGIC_2" => Len(buf) = 1
    /\ state = "READ_HEADER" => Len(buf) \in 2..HeaderSize - 1
    /\ state = "READ_REST" => Len(buf) \in HeaderSize..expected - 1
    /\ lastError \in {"OK", "VERSION", "LENGTH", "CRC"}
    /\ crcErrors \in Nat /\ formatErrors \in Nat /\ discarded \in Nat

\* Packets sent and completely on the line, and those that the parser missed.
Complete == Len(sentPkts) - (IF toSend = <<>> THEN 0 ELSE 1)
Missed == Complete - Len(delivered)

\* Whatever the line does to a byte, the parser returns only packets that were sent,
\* in their order and none twice.
NothingMadeUp ==
    \A i \in 1..Len(delivered) :
        /\ delivered[i].seq \in 1..Len(sentPkts)
        /\ delivered[i] = sentPkts[delivered[i].seq]
        /\ i > 1 => delivered[i - 1].seq < delivered[i].seq

\* A spoilt byte costs its own packet and at most those that MaxPayload bytes too many
\* reach: after the CRC has failed the parser finds a later MAGIC.
MissedPerFault == 1 + (MaxPayload + MinFrameSize - 1) \div MinFrameSize
LossBounded == Missed <= faults * MissedPerFault

\* Only a wrong length that is plausible, found out by its CRC, costs packets after the
\* spoilt one: a header that is rejected gives back the MAGIC at its end, also when it
\* began inside a packet.  (This is about payloads whose MAGIC stands at least six bytes
\* before the next frame: resync_from_tail looks at the last two bytes of the header only,
\* so that a MAGIC nearer to the next frame costs that frame too.)
RejectionIsCheap == crcErrors = 0 /\ state = "WAIT_MAGIC_1" => Missed <= faults

\* No packet disappears without a trace in the statistics.
LossNoticed ==
    Missed > 0 /\ state = "WAIT_MAGIC_1" => crcErrors + formatErrors + discarded > 0
\* On a line that spoils nothing every packet is delivered, in order and as it was sent,
\* as soon as its frame is complete, and no error is counted.
CleanDelivery ==
    faults = 0 =>
        /\ Missed = 0 /\ \A i \in 1..Len(delivered) : delivered[i] = sentPkts[i]
        /\ crcErrors = 0 /\ formatErrors = 0 /\ discarded = 0

-----------------------------------------------------------------------------
(* The inductive invariants behind TypeOK and CleanDelivery.               *)

\* The packets that are sent.
Packet == [msg : {PingId}, seq : 1..MaxPackets, payload : Payloads]
LineInv == /\ toSend \in Seq(Byte) /\ faults \in 0..MaxFaults
           /\ sentPkts \in Seq(Packet) /\ Len(sentPkts) <= MaxPackets

\* What a header has been checked for once its bytes are behind the parser.
HeaderInv ==
    /\ state \in {"READ_HEADER", "READ_REST"} => buf[1] = MagicHi /\ buf[2] = MagicLo
    /\ state = "READ_REST" => /\ buf[3] = Version /\ LengthFits(buf)
                              /\ expected = MinFrameSize + AnnouncedLength(buf)

ParserInv == TypeOK /\ LineInv /\ HeaderInv

\* The parser holds what the line has brought of the frame under way.
StateAfter(n) == CASE n = 0 -> "WAIT_MAGIC_1"
                   [] n = 1 -> "WAIT_MAGIC_2"
                   [] n \in 2..HeaderSize - 1 -> "READ_HEADER"
                   [] OTHER -> "READ_REST"
CleanInv ==
    faults = 0 =>
        /\ crcErrors = 0 /\ formatErrors = 0 /\ discarded = 0
        /\ state = StateAfter(Len(buf)) /\ delivered \in Seq(Packet)
        /\ toSend = <<>> => buf = <<>> /\ delivered = sentPkts
        /\ toSend # <<>> => LET last == sentPkts[Len(sentPkts)]
                            IN /\ sentPkts # <<>> /\ sentPkts = Append(delivered, last)
                               /\ buf \o toSend = Encode(last)
=============================================================================

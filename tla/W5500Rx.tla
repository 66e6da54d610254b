------------------------------ MODULE W5500Rx ------------------------------
(***************************************************************************)
(* Taking received bytes out of the TCP socket of the W5500, one SPI       *)
(* transfer per step (g474_gateway/Core/Src/main.c, w5500_tcp_process_rx). *)
(* Bytes keep arriving between any two transfers.                          *)
(*                                                                         *)
(* The chip is external.  What is assumed of it: RX_RSR is what lies       *)
(* between RX_RD and RX_WR at the last RECV, plus what arrived since; the  *)
(* host's write of RX_RD takes effect with the next RECV; the peer is held *)
(* to the room that RECV has released.                                     *)
(***************************************************************************)
EXTENDS Integers, Sequences

CONSTANTS
    MaxBytes,       \* bound: bytes of a behaviour
    Chunk,          \* W5500_TCP_RX_CHUNK_SIZE
    Size,           \* cells of the receive buffer (2 KB in the chip)
    Mod,            \* modulus of the 16-bit buffer pointers
    MaxPolls,       \* polls of CR before the driver's time-out
    MaxFaults,      \* bound: failed transfers
    FaultAt         \* transfers that may fail

\* What the constants must be.
RxAssumption ==
    /\ MaxBytes \in Nat /\ Chunk \in Nat \ {0} /\ Size \in Nat \ {0}
    /\ Mod \in Nat /\ Mod > Size /\ Mod % Size = 0
    /\ MaxPolls \in Nat /\ MaxFaults \in Nat
    /\ FaultAt \subseteq {"size", "rd", "buf", "wrrd", "cmd", "crwait"}

VARIABLES
    \* the chip and the peer
    mem,        \* receive buffer
    rxWr,       \* Sn_RX_WR
    rxRd,       \* Sn_RX_RD, as the host wrote it
    taken,      \* RX_RD at the last RECV
    rsr,        \* Sn_RX_RSR
    cr,         \* Sn_CR: a RECV that is not executed yet
    arrived,    \* history: bytes that have arrived
    \* the driver
    pc, polls,
    len,        \* read_length
    rptr,       \* rx_read_pointer
    buf,        \* g_w5500_tcp_rx_chunk
    nf,
    parsed      \* history: bytes fed to the stream parser

vars == <<mem, rxWr, rxRd, taken, rsr, cr, arrived, pc, polls, len, rptr, buf, nf, parsed>>
chipVars == <<mem, rxWr, rxRd, taken, rsr, cr, arrived>>
Points == {"idle", "rd", "buf", "wrrd", "cmd", "crwait"}

Init ==
    /\ mem = [a \in 0..(Size - 1) |-> 0]
    /\ rxWr = 0 /\ rxRd = 0 /\ taken = 0 /\ rsr = 0 /\ cr = FALSE /\ arrived = 0
    /\ pc = "idle" /\ polls = 0 /\ len = 0 /\ rptr = 0 /\ buf = <<>>
    /\ nf = 0 /\ parsed = <<>>

-----------------------------------------------------------------------------
(* The chip and the peer (external).                                       *)

\* Bytes are numbered: the n-th byte of the stream is n.
Arrive ==
    /\ arrived < MaxBytes /\ (rxWr - taken) % Mod < Size
    /\ mem' = [mem EXCEPT ![rxWr % Size] = arrived + 1]
    /\ rxWr' = (rxWr + 1) % Mod /\ rsr' = (rsr + 1) % Mod /\ arrived' = arrived + 1
    /\ UNCHANGED <<rxRd, taken, cr, pc, polls, len, rptr, buf, nf, parsed>>

ChipRecv ==
    /\ cr /\ cr' = FALSE
    /\ taken' = rxRd /\ rsr' = (rxWr - rxRd) % Mod
    /\ UNCHANGED <<mem, rxWr, rxRd, arrived, pc, polls, len, rptr, buf, nf, parsed>>

-----------------------------------------------------------------------------
(* The driver.                                                             *)

Fail(k) == k \in FaultAt /\ nf < MaxFaults /\ nf' = nf + 1
Return == pc' = "idle" /\ UNCHANGED <<polls, len, rptr, buf, parsed>>
Least(a, b) == IF a < b THEN a ELSE b

\* read_length.
ReadLength(n) == Least(n, Chunk)

\* Mutant: a single byte is not worth a read.
AtMostOne(n) == n <= 1

\* received_size = 0: nothing to do.
NothingReceived(n) == n = 0

\* RX_RSR, read until two reads agree, and the length of this read.
ReadSize ==
    /\ pc = "idle" /\ UNCHANGED chipVars
    /\ \/ /\ ~NothingReceived(rsr) /\ len' = ReadLength(rsr) /\ pc' = "rd"
          /\ UNCHANGED <<polls, rptr, buf, nf, parsed>>
       \/ Fail("size") /\ Return

\* read_u16 of RX_RD.
ReadRd ==
    /\ pc = "rd" /\ UNCHANGED chipVars
    /\ \/ rptr' = rxRd /\ pc' = "buf" /\ UNCHANGED <<polls, len, buf, nf, parsed>>
       \/ Fail("rd") /\ Return

\* read_rx_buffer.
ReadRxBuffer ==
    /\ pc = "buf" /\ UNCHANGED chipVars
    /\ \/ /\ buf' = [k \in 1..len |-> mem[((rptr + k - 1) % Mod) % Size]]
          /\ pc' = "wrrd" /\ UNCHANGED <<polls, len, rptr, nf, parsed>>
       \/ Fail("buf") /\ Return

\* Mutant: the pointer goes one byte too far.
LongRd == (rptr + len + 1) % Mod

\* new_rx_read_pointer.
NewRd == (rptr + len) % Mod

\* A transfer that is reported as failed may have reached the chip or not.
WriteRd ==
    /\ pc = "wrrd" /\ UNCHANGED <<mem, rxWr, taken, rsr, cr, arrived>>
    /\ \/ rxRd' = NewRd /\ pc' = "cmd" /\ UNCHANGED <<polls, len, rptr, buf, nf, parsed>>
       \/ rxRd' \in {rxRd, NewRd} /\ Fail("wrrd") /\ Return

\* execute_command(RECV): the write of CR ...
WriteCommand ==
    /\ pc = "cmd" /\ UNCHANGED <<mem, rxWr, rxRd, taken, rsr, arrived>>
    /\ \/ /\ cr' = TRUE /\ pc' = "crwait" /\ polls' = 0
          /\ UNCHANGED <<len, rptr, buf, nf, parsed>>
       \/ cr' \in {cr, TRUE} /\ Fail("cmd") /\ Return

\* Mutant: the command is not awaited.
CommandNotAwaited == TRUE

\* command_register = 0: RECV has been executed.
CommandDone == ~cr

\* ... the polling until it reads zero, and the bytes go to the parser.
WaitForCommand ==
    /\ pc = "crwait" /\ UNCHANGED chipVars
    /\ \/ /\ CommandDone /\ parsed' = parsed \o buf /\ pc' = "idle"
          /\ UNCHANGED <<polls, len, rptr, buf, nf>>
       \/ /\ ~CommandDone /\ polls < MaxPolls /\ polls' = polls + 1
          /\ UNCHANGED <<pc, len, rptr, buf, nf, parsed>>
       \/ ~CommandDone /\ polls = MaxPolls /\ Fail("crwait") /\ Return

Driver == \/ ReadSize \/ ReadRd \/ ReadRxBuffer \/ WriteRd \/ WriteCommand \/ WaitForCommand

Done == arrived = MaxBytes /\ pc = "idle" /\ rsr = 0 /\ ~cr /\ UNCHANGED vars

Next == Arrive \/ ChipRecv \/ Driver \/ Done

\* EthernetTask polls the socket every millisecond and the chip executes RECV.
Fairness == WF_vars(Driver) /\ WF_vars(ChipRecv)

Spec == Init /\ [][Next]_vars /\ Fairness

-----------------------------------------------------------------------------
\* Type invariant.
TypeOK ==
    /\ mem \in [0..(Size - 1) -> 0..MaxBytes] /\ arrived \in 0..MaxBytes
    /\ rxWr \in 0..(Mod - 1) /\ rxRd \in 0..(Mod - 1) /\ taken \in 0..(Mod - 1)
    /\ rsr \in 0..(Mod - 1) /\ cr \in BOOLEAN /\ pc \in Points /\ polls \in 0..MaxPolls
    /\ len \in 0..Chunk /\ rptr \in 0..(Mod - 1) /\ buf \in Seq(0..MaxBytes)
    /\ nf \in 0..MaxFaults /\ parsed \in Seq(0..MaxBytes)

\* The parser is fed the stream: every byte once, in order and none that did not
\* arrive, although bytes keep coming while RX_RSR, RX_RD and the buffer are read
\* one after another and reads that fail are made again.
ParsedIsThePrefix ==
    /\ Len(parsed) <= arrived
    /\ \A n \in 1..Len(parsed) : parsed[n] = n

\* A byte that has arrived is never overwritten before it is parsed.
UnreadBytesKept ==
    \A n \in (Len(parsed) + 1)..arrived :
        \/ \E a \in 0..(Size - 1) : mem[a] = n
        \/ pc \in {"wrrd", "cmd", "crwait"} /\ \E k \in 1..Len(buf) : buf[k] = n

\* Both together: the stream that the parser sees is the one that arrived.
StreamIntact == TypeOK /\ ParsedIsThePrefix /\ UnreadBytesKept

\* Whenever the peer pauses, all that has arrived is parsed in the end, down to the
\* last byte, as long as reads do not fail for ever.
EverythingParsed == []<>(Len(parsed) = arrived)
-----------------------------------------------------------------------------
(* The inductive invariant behind StreamIntact, as long as no transfer     *)
(* fails from the write of RX_RD on.                                       *)

\* Bytes of the stream up to which RX_RD is written, and RECV has released the room.
Told == Len(parsed) + (IF pc \in {"cmd", "crwait"} THEN len ELSE 0)
Released == Len(parsed) + (IF pc = "crwait" /\ ~cr THEN len ELSE 0)

PointerInv ==
    /\ rxWr = arrived % Mod /\ rxRd = Told % Mod /\ taken = Released % Mod
    /\ Released <= arrived /\ arrived - Released <= Size /\ rsr = arrived - Released
    /\ cr => pc = "crwait"
    /\ pc # "idle" => Len(parsed) + len <= arrived
    /\ pc \in {"buf", "wrrd", "cmd", "crwait"} => rptr = Len(parsed) % Mod

\* What is not released is in the buffer, what is being handed over in the chunk.
ContentInv ==
    /\ \A n \in Released + 1..arrived : mem[(n - 1) % Size] = n
    /\ pc \in {"wrrd", "cmd", "crwait"} =>
          Len(buf) = len /\ \A k \in 1..len : buf[k] = Len(parsed) + k
    /\ \A n \in 1..Len(parsed) : parsed[n] = n

RxInv == TypeOK /\ PointerInv /\ ContentInv
=============================================================================

------------------------------ MODULE W5500Tx ------------------------------
(***************************************************************************)
(* Sending one frame through a W5500 socket, one SPI transfer per step     *)
(* (g474_gateway/Core/Src/main.c, w5500_tcp_send_frame for socket 0 and    *)
(* w5500_udp_send_frame for socket 1, which are the same code on other     *)
(* register blocks).  EthernetTask calls it for one frame after another;   *)
(* the chip executes commands and reports results on its own, between any  *)
(* two transfers.                                                          *)
(*                                                                         *)
(* The chip is external.  What is assumed of it: SEND transmits what lies  *)
(* between TX_RD and TX_WR when the command is accepted, one command at a  *)
(* time; CR reads non-zero until the command is accepted; the result is a  *)
(* bit of IR; TX_FSR is the room that unsent bytes leave.                  *)
(***************************************************************************)
EXTENDS Integers, Sequences, FiniteSets

CONSTANTS
    MaxFrames,      \* bound: frames of a behaviour
    FrameLen,       \* cells a frame takes in the transmit buffer
    Size,           \* cells of the transmit buffer (2 KB in the chip)
    Mod,            \* modulus of the 16-bit buffer pointers
    MaxPolls,       \* polls of a register before the driver's time-out
    MaxFaults       \* bound: failed transfers and negative send results

\* What the constants must be.
TxAssumption ==
    /\ MaxFrames \in Nat /\ FrameLen \in 1..Size /\ Size \in Nat \ {0}
    /\ Mod \in Nat /\ Mod > Size /\ Mod % Size = 0
    /\ MaxPolls \in Nat /\ MaxFaults \in Nat

VARIABLES
    \* the chip
    mem,        \* transmit buffer
    txRd, txWr, \* Sn_TX_RD and Sn_TX_WR
    cr,         \* Sn_CR: a SEND that is not accepted yet
    job,        \* TX_WR at the SEND under way, or Idle
    ir,         \* Sn_IR
    \* the driver
    pc, polls,
    frame,      \* number of the frame being sent, or sent last
    wptr,       \* tx_write_pointer
    res,        \* send_result
    \* history
    nf,         \* faults so far
    left,       \* what each SEND put on the network, in order
    oks,        \* frames for which the send returned HAL_OK
    smooth      \* no transfer has failed, no wait was given up while the chip was at work

vars == <<mem, txRd, txWr, cr, job, ir, pc, polls, frame, wptr, res, nf, left, oks, smooth>>
chipVars == <<mem, txRd, txWr, cr, job, ir>>

Idle == -1
Blank == <<0, 0>>
Cell(f, i) == <<f, i>>
SendBits == {"SEND_OK", "TIMEOUT"}
Points == {"idle", "free", "rdwr", "buf", "wr", "clr", "cmd", "crwait", "result", "resclr"}

\* Cells from pointer a up to pointer b, in order.
Between(a, b) == [k \in 1..((b - a) % Mod) |-> mem[((a + k - 1) % Mod) % Size]]

\* Sn_TX_FSR.
FreeSize == Size - ((txWr - txRd) % Mod)

Init ==
    /\ mem = [a \in 0..(Size - 1) |-> Blank]
    /\ txRd = 0 /\ txWr = 0 /\ cr = FALSE /\ job = Idle /\ ir = {}
    /\ pc = "idle" /\ polls = 0 /\ frame = 0 /\ wptr = 0 /\ res = {}
    /\ nf = 0 /\ left = <<>> /\ oks = {} /\ smooth = TRUE

-----------------------------------------------------------------------------
(* The driver.                                                             *)

Fault == nf < MaxFaults /\ nf' = nf + 1
Goto(p) == pc' = p /\ polls' = 0

\* A transfer fails: the caller returns the error and the send ends.
Failed == /\ Fault /\ Goto("idle") /\ smooth' = FALSE
          /\ UNCHANGED <<frame, wptr, res, left, oks>>

\* The register does not show what is awaited: poll again, or give up.  The chip
\* may outlast the time-out.
PollAgain == polls < MaxPolls /\ polls' = polls + 1 /\ UNCHANGED <<pc, smooth>>
GiveUp == /\ polls = MaxPolls
          /\ Goto("idle") /\ smooth' = (smooth /\ ~cr /\ job = Idle)
Poll == /\ PollAgain \/ GiveUp
        /\ UNCHANGED <<chipVars, frame, wptr, res, nf, left, oks>>

\* Mutant: the wait for a result has no time-out.
PollForEver == /\ UNCHANGED <<pc, polls>>
               /\ UNCHANGED <<chipVars, frame, wptr, res, nf, left, oks, smooth>>

\* wait_for_send_result's polling.
PollResult == Poll

\* EthernetTask hands over the next frame.
Send ==
    /\ pc = "idle" /\ frame < MaxFrames
    /\ frame' = frame + 1 /\ Goto("free")
    /\ UNCHANGED <<chipVars, wptr, res, nf, left, oks, smooth>>

\* Mutant: the room is not awaited.
NoWaitForTxFree ==
    /\ pc = "free" /\ Goto("rdwr")
    /\ UNCHANGED <<chipVars, frame, wptr, res, nf, left, oks, smooth>>

\* wait_for_tx_free: TX_FSR, read until two reads agree.
WaitForTxFree ==
    /\ pc = "free"
    /\ \/ /\ FreeSize >= FrameLen /\ Goto("rdwr")
          /\ UNCHANGED <<chipVars, frame, wptr, res, nf, left, oks, smooth>>
       \/ FreeSize < FrameLen /\ Poll
       \/ Failed /\ UNCHANGED chipVars

\* read_u16 of TX_WR.
ReadTxWr ==
    /\ pc = "rdwr"
    /\ \/ /\ wptr' = txWr /\ Goto("buf")
          /\ UNCHANGED <<chipVars, frame, res, nf, left, oks, smooth>>
       \/ Failed /\ UNCHANGED chipVars

\* The first n cells of the frame are in the buffer.
Written(n) == [a \in 0..(Size - 1) |->
                 IF \E k \in 1..n : a = ((wptr + k - 1) % Mod) % Size
                 THEN Cell(frame, CHOOSE k \in 1..n : a = ((wptr + k - 1) % Mod) % Size)
                 ELSE mem[a]]

\* write_tx_buffer, in chunks: a failure leaves a part of the frame behind.
WriteTxBuffer ==
    /\ pc = "buf"
    /\ \/ mem' = Written(FrameLen) /\ Goto("wr") /\ UNCHANGED <<frame, wptr, res, nf, left, oks, smooth>>
       \/ (\E n \in 0..FrameLen : mem' = Written(n)) /\ Failed
    /\ UNCHANGED <<txRd, txWr, cr, job, ir>>

\* new_tx_write_pointer.
NewTxWr == (wptr + FrameLen) % Mod

\* A transfer that is reported as failed may have reached the chip or not.
WriteTxWr ==
    /\ pc = "wr"
    /\ \/ txWr' = NewTxWr /\ Goto("clr") /\ UNCHANGED <<frame, wptr, res, nf, left, oks, smooth>>
       \/ txWr' \in {txWr, NewTxWr} /\ Failed
    /\ UNCHANGED <<mem, txRd, cr, job, ir>>

\* Sn_IR is write-one-to-clear: the result bits go before SEND.
ClearStale ==
    /\ pc = "clr"
    /\ \/ ir' = ir \ SendBits /\ Goto("cmd") /\ UNCHANGED <<frame, wptr, res, nf, left, oks, smooth>>
       \/ ir' \in {ir, ir \ SendBits} /\ Failed
    /\ UNCHANGED <<mem, txRd, txWr, cr, job>>

\* execute_command(SEND): the write of CR ...
WriteCommand ==
    /\ pc = "cmd"
    /\ \/ cr' = TRUE /\ Goto("crwait") /\ UNCHANGED <<frame, wptr, res, nf, left, oks, smooth>>
       \/ cr' \in {cr, TRUE} /\ Failed
    /\ UNCHANGED <<mem, txRd, txWr, job, ir>>

\* ... and the polling until it reads zero.
WaitForCommand ==
    /\ pc = "crwait"
    /\ \/ /\ ~cr /\ Goto("result")
          /\ UNCHANGED <<chipVars, frame, wptr, res, nf, left, oks, smooth>>
       \/ cr /\ Poll
       \/ Failed /\ UNCHANGED chipVars

\* Mutant: the send is taken for done once the command is accepted.
ResultNotAwaited ==
    /\ pc = "result" /\ Goto("idle")
    /\ oks' = oks \cup {frame}
    /\ UNCHANGED <<chipVars, frame, wptr, res, nf, left, smooth>>

\* wait_for_send_result: IR is read ...
WaitForResult ==
    /\ pc = "result"
    /\ \/ /\ ir \cap SendBits # {} /\ res' = ir \cap SendBits /\ Goto("resclr")
          /\ UNCHANGED <<chipVars, frame, wptr, nf, left, oks, smooth>>
       \/ ir \cap SendBits = {} /\ PollResult
       \/ Failed /\ UNCHANGED chipVars

\* Mutant: any result is taken for a success.
AnyResultIsOk ==
    /\ pc = "resclr"
    /\ ir' = ir \ res /\ Goto("idle") /\ oks' = oks \cup {frame}
    /\ UNCHANGED <<mem, txRd, txWr, cr, job, frame, wptr, res, nf, left, smooth>>

\* ... and the bits read are cleared; TIMEOUT wins over SEND_OK.
TakeResult ==
    /\ pc = "resclr"
    /\ \/ /\ ir' = ir \ res /\ Goto("idle")
          /\ oks' = IF "TIMEOUT" \in res THEN oks ELSE oks \cup {frame}
          /\ UNCHANGED <<frame, wptr, res, nf, left, smooth>>
       \/ ir' \in {ir, ir \ res} /\ Failed
    /\ UNCHANGED <<mem, txRd, txWr, cr, job>>

Driver == \/ Send \/ WaitForTxFree \/ ReadTxWr \/ WriteTxBuffer \/ WriteTxWr \/ ClearStale
          \/ WriteCommand \/ WaitForCommand \/ WaitForResult \/ TakeResult

-----------------------------------------------------------------------------
(* The chip (external).                                                    *)

ChipAccept ==
    /\ cr /\ job = Idle
    /\ cr' = FALSE /\ job' = txWr
    /\ UNCHANGED <<mem, txRd, txWr, ir, pc, polls, frame, wptr, res, nf, left, oks, smooth>>

ChipSent ==
    /\ job # Idle
    /\ left' = Append(left, Between(txRd, job))
    /\ txRd' = job /\ job' = Idle /\ ir' = ir \cup {"SEND_OK"}
    /\ UNCHANGED <<mem, txWr, cr, pc, polls, frame, wptr, res, nf, oks, smooth>>

\* No answer to ARP, or no acknowledgement: whether the chip drops the bytes or
\* keeps them for the next SEND is left open.
ChipTimeout ==
    /\ job # Idle /\ Fault
    /\ txRd' \in {txRd, job} /\ job' = Idle /\ ir' = ir \cup {"TIMEOUT"}
    /\ UNCHANGED <<mem, txWr, cr, pc, polls, frame, wptr, res, left, oks, smooth>>

Chip == ChipAccept \/ ChipSent \/ ChipTimeout

Done == pc = "idle" /\ frame = MaxFrames /\ ~cr /\ job = Idle /\ UNCHANGED vars

Next == Driver \/ Chip \/ Done

\* The task runs and every wait of the driver is bounded by its own time-out:
\* nothing is assumed of the chip.
Fairness == WF_vars(Driver)

Spec == Init /\ [][Next]_vars /\ Fairness

-----------------------------------------------------------------------------
\* Type invariant.
TypeOK ==
    /\ mem \in [0..(Size - 1) -> {Blank} \cup ((1..MaxFrames) \X (1..FrameLen))]
    /\ txRd \in 0..(Mod - 1) /\ txWr \in 0..(Mod - 1) /\ cr \in BOOLEAN
    /\ job \in {Idle} \cup 0..(Mod - 1) /\ ir \subseteq SendBits
    /\ pc \in Points /\ polls \in 0..MaxPolls /\ frame \in 0..MaxFrames
    /\ wptr \in 0..(Mod - 1) /\ res \subseteq SendBits /\ nf \in 0..MaxFaults
    /\ left \in Seq(Seq({Blank} \cup ((1..MaxFrames) \X (1..FrameLen))))
    /\ oks \subseteq 1..MaxFrames /\ smooth \in BOOLEAN

\* The frames a datagram carries, as whole frames.
WholeFrames(d) ==
    /\ Len(d) % FrameLen = 0
    /\ \A k \in 1..Len(d) :
         /\ d[k][1] # 0
         /\ d[k][2] = 1 + ((k - 1) % FrameLen)
         /\ d[k][2] > 1 => d[k][1] = d[k - 1][1]
FrameIds(d) == {d[k][1] : k \in 1..Len(d)}
LeftFrames == UNION {FrameIds(left[n]) : n \in 1..Len(left)}

\* Whatever transfers fail and however late the chip is, what leaves the socket
\* is made of whole frames, each at most once and in the order in which they
\* were handed over: the buffer is never overwritten before it is sent and no
\* pointer is ever off.
WholeFramesInOrder ==
    /\ \A n \in 1..Len(left) : WholeFrames(left[n])
    /\ \A n \in 1..Len(left) : \A k \in 2..Len(left[n]) :
         left[n][k][2] = 1 => left[n][k - 1][1] < left[n][k][1]
    /\ \A m, n \in 1..Len(left) : m < n =>
         \A f \in FrameIds(left[m]), g \in FrameIds(left[n]) : f < g

\* g_w5500_tcp_pong_count and g_w5500_udp_tx_packet_count: no SEND that the chip
\* completed is counted as two successes, even when a late result is taken for
\* that of another frame.
SuccessesNotOverstated == Cardinality(oks) <= Len(left)

\* A send that returns HAL_OK has put its frame on the network, as long as no transfer
\* has failed and no wait was given up while the chip was still at work.
OkMeansLeft == smooth => oks \subseteq LeftFrames

\* EthernetTask never hangs in a send, whatever the chip does.
SendReturns == pc # "idle" ~> pc = "idle"

-----------------------------------------------------------------------------
(* The inductive invariants behind the safety properties.                  *)

\* What is in the buffer and not sent, and how much of it the SEND under way takes.
Unsent == Between(txRd, txWr)
Held == (txWr - txRd) % Mod
JobLen == (job - txRd) % Mod

\* The pointers are whole frames apart, and there is room for the frame being written.
PointerInv ==
    /\ Held <= Size /\ Held % FrameLen = 0
    /\ job # Idle => JobLen <= Held /\ JobLen % FrameLen = 0
    /\ pc \in {"rdwr", "buf", "wr"} => Held + FrameLen <= Size
    /\ pc \in {"buf", "wr"} => wptr = txWr
    /\ pc = "wr" => \A k \in 1..FrameLen : mem[((wptr + k - 1) % Mod) % Size] = Cell(frame, k)
    /\ pc # "idle" => frame > 0

\* Whole frames, in the order in which they were handed over.
Frames(d) ==
    /\ WholeFrames(d)
    /\ \A k \in 2..Len(d) : d[k][2] = 1 => d[k - 1][1] < d[k][1]
    /\ \A j, k \in 1..Len(d) : j <= k => d[j][1] <= d[k][1]

\* The frame that was last made visible to the chip is not a later one.
Last == IF pc \in {"free", "rdwr", "buf", "wr"} THEN frame - 1 ELSE frame

\* What has left and what is still to leave, in one order.
ContentInv ==
    /\ Frames(Unsent)
    /\ WholeFramesInOrder
    /\ \A n \in 1..Len(left) : \A f \in FrameIds(left[n]) :
          f <= Last /\ \A g \in FrameIds(Unsent) : f < g
    /\ \A g \in FrameIds(Unsent) : g <= Last

\* A SEND_OK in IR is that of a SEND no success was counted for.
CountInv ==
    /\ Cardinality(oks) + (IF "SEND_OK" \in ir THEN 1 ELSE 0) <= Len(left)
    /\ pc = "resclr" => res # {} /\ res \subseteq ir

\* As long as all goes well the chip is at work for the present frame or idle, and the
\* result in IR is that of the present frame.
SmoothInv ==
    smooth =>
        /\ pc \notin {"crwait", "result"} => ~cr /\ job = Idle
        /\ pc = "result" => ~cr
        /\ cr => job = Idle
        /\ job # Idle => job = txWr
        /\ pc \in {"clr", "cmd"} \/ cr \/ job # Idle => frame \in FrameIds(Unsent)
        /\ pc = "cmd" \/ cr \/ job # Idle => ir = {}
        /\ pc \in {"crwait", "result"} /\ ~cr /\ job = Idle => ir # {}
        /\ pc \in {"crwait", "result", "resclr"} /\ "SEND_OK" \in ir => frame \in LeftFrames

TxInv == TypeOK /\ PointerInv /\ ContentInv /\ CountInv /\ SmoothInv /\ OkMeansLeft
=============================================================================

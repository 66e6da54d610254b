------------------------------ MODULE Buffers ------------------------------
(* The buffers with wrapping pointers: both receive rings and the transmit *)
(* and receive buffers of a W5500 socket.  They share nothing, so that a   *)
(* behaviour exercises one of them: their states add up instead of         *)
(* multiplying.                                                            *)
EXTENDS GatewayRxRing, UartRxRing, FiniteSets

CONSTANTS
    Size, Mod, MaxPolls,            \* of both directions of a socket
    MaxFrames, TxFaults, FrameLen,  \* of W5500Tx
    MaxBytes, RxFaults, Chunk       \* of W5500Rx

VARIABLES
    part,       \* which buffer this behaviour is about
    tMem, txRd, txWr, tCr, job, ir, tPc, tPolls, frame, wptr, res, tNf, left, oks, smooth,
    rMem, rxWr, rxRd, taken, rsr, rCr, arrived, rPc, rPolls, len, rptr, buf, rNf, parsed

tVars == <<tMem, txRd, txWr, tCr, job, ir, tPc, tPolls, frame, wptr, res, tNf, left, oks, smooth>>
rVars == <<rMem, rxWr, rxRd, taken, rsr, rCr, arrived, rPc, rPolls, len, rptr, buf, rNf, parsed>>
allVars == <<part, gVars, uVars, tVars, rVars>>

\* Transfers fail, sends are not answered, and the chip may be slower than the
\* driver's time-outs.
Tx == INSTANCE W5500Tx WITH MaxFaults <- TxFaults,
        mem <- tMem, cr <- tCr, pc <- tPc, polls <- tPolls, nf <- tNf
\* Transfers may fail up to the reading of the buffer.
Rx == INSTANCE W5500Rx WITH MaxFaults <- RxFaults, FaultAt <- {"size", "rd", "buf"},
        mem <- rMem, cr <- rCr, pc <- rPc, polls <- rPolls, nf <- rNf

ASSUME SocketAssumption == Tx!TxAssumption /\ Rx!RxAssumption

Init == /\ part \in {"gateway", "remote", "tx", "rx"}
        /\ GInit /\ UInit /\ Tx!Init /\ Rx!Init

Next ==
    /\ UNCHANGED part
    /\ \/ part = "gateway" /\ GNext   /\ UNCHANGED <<uVars, tVars, rVars>>
       \/ part = "remote"  /\ UNext   /\ UNCHANGED <<gVars, tVars, rVars>>
       \/ part = "tx"      /\ Tx!Next /\ UNCHANGED <<gVars, uVars, rVars>>
       \/ part = "rx"      /\ Rx!Next /\ UNCHANGED <<gVars, uVars, tVars>>

\* The fairness of W5500Tx and W5500Rx.
Fairness == /\ WF_tVars(part = "tx" /\ Tx!Driver)
            /\ WF_rVars(part = "rx" /\ Rx!Driver)
            /\ WF_rVars(part = "rx" /\ Rx!ChipRecv)

Spec == Init /\ [][Next]_allVars /\ Fairness

-----------------------------------------------------------------------------
(* The properties of the sockets, from those of their modules.             *)

\* w5500_tcp_send_frame, w5500_udp_send_frame: what leaves the socket is whole frames,
\* each at most once and in order, whatever transfers fail and however late the chip is.
FramesIntact == Tx!TypeOK /\ Tx!WholeFramesInOrder

\* The successes they return: never more than the chip completed, and each of them for a
\* frame that has left until a transfer fails or the chip outlasts a time-out.
SuccessesTrue == Tx!SuccessesNotOverstated /\ Tx!OkMeansLeft

\* w5500_tcp_process_rx: the parser is fed every byte once and in order, and no byte is
\* overwritten before, although bytes arrive between any two of its transfers.
StreamIntact == Rx!StreamIntact

\* EthernetTask never hangs in a send, whatever the chip does, and all that has arrived
\* is parsed whenever the peer pauses.
SocketsProgress == (part = "tx" => Tx!SendReturns) /\ (part = "rx" => Rx!EverythingParsed)
=============================================================================

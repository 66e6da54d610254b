--------------------------- MODULE GatewayProofs ---------------------------
(***************************************************************************)
(* Proofs about Gateway, for every value of its constants: type            *)
(* correctness, the stability of the frame being transmitted, the          *)
(* isolation of TCP sessions and the absence of lost wake-ups in RS422Task.*)
(* The three safety results rest on one inductive invariant, CoreInv; each *)
(* of its conjuncts has a lemma that every step preserves it.              *)
(***************************************************************************)
EXTENDS Gateway, SequenceTheorems, TLAPS

USE DEF chipVars, linkVars, passVars, rsVars, lineVars, histVars, queueVars, ethVars,
        bootVars, rsFrame, ethFrame, ethLocal, startFrame, lineFrame, envFrame

-----------------------------------------------------------------------------
(* Sequences of packets.                                                   *)

\* What Head and Tail give on a queue that is not empty.
LEMMA HeadTail ==
    ASSUME NEW q \in Seq(Packet), q # <<>>
    PROVE  /\ Head(q) \in Packet /\ Tail(q) \in Seq(Packet)
           /\ Len(q) \in Nat /\ Len(Tail(q)) = Len(q) - 1
  OBVIOUS

\* Appending a packet to a queue.
LEMMA AppendPacket ==
    ASSUME NEW q \in Seq(Packet), NEW p \in Packet
    PROVE  /\ Append(q, p) \in Seq(Packet)
           /\ Len(q) \in Nat /\ Len(Append(q, p)) = Len(q) + 1
  OBVIOUS

\* osMessageQueuePut never exceeds the depth of the queue.
LEMMA PutType ==
    ASSUME NEW q \in Seq(Packet), NEW depth \in Nat, NEW p \in Packet, Len(q) <= depth
    PROVE  Put(q, depth, p) \in Seq(Packet) /\ Len(Put(q, depth, p)) <= depth
  BY DEF Put

\* The two parts into which a read cuts the receive buffer.
LEMMA CutType ==
    ASSUME NEW q \in Seq(Packet), NEW k \in 1..Len(q)
    PROVE  SubSeq(q, 1, k) \in Seq(Packet) /\ SubSeq(q, k + 1, Len(q)) \in Seq(Packet)
  OBVIOUS

\* NoPkt stands for the absence of a packet.
LEMMA PacketNotNoPkt == ASSUME NEW p \in Packet PROVE p # NoPkt
  BY DEF Packet, NoPkt, MsgIds

\* The remote node answers a packet with a packet.
LEMMA ReplyType == ASSUME NEW p \in Packet PROVE RemoteReply(p) \in Packet
  BY DEF RemoteReply, Packet, MsgIds

\* What a client sends is a packet.
LEMMA ClientPacket ==
    ASSUME NEW m \in ClientMsgs, NEW s \in ClientSeqs, NEW l \in ClientLens, NEW t \in Nat
    PROVE  Pkt(m, s, l, t) \in Packet
  <1>1. m \in MsgIds /\ s \in Nat /\ l \in Nat BY ConstantsAssumption DEF MsgIds
  <1> QED BY <1>1 DEF Pkt, Packet

\* The count of faults stays within its bound.
LEMMA FaultBound ==
    ASSUME nf \in 0..MaxFaults, NEW k, NoFault \/ Fault(k) PROVE nf' \in 0..MaxFaults
  BY ConstantsAssumption DEF NoFault, Fault

-----------------------------------------------------------------------------
(* Type correctness.                                                       *)

\* Steps of RS422Task keep every variable in its type.
LEMMA TypeRs422 == CoreInv /\ Rs422Step => TypeOK'
  <1> SUFFICES ASSUME CoreInv, Rs422Step PROVE TypeOK' OBVIOUS
  <1> USE DEF CoreInv, TypeOK
  <1>1. CASE RsPop
    <2> USE <1>1 DEF RsPop, RoutesToTcp
    <2>0. Head(ring) \in Packet /\ Tail(ring) \in Seq(Packet)
                     /\ Len(Tail(ring)) <= RingCap
      BY HeadTail, ConstantsAssumption DEF LineType
    <2>2. PcType' BY DEF PcType
    <2>3. QueueType' BY <2>0, PutType, ConstantsAssumption DEF QueueType
    <2>4. RsType' BY DEF RsType
    <2>5. LineType' BY <2>0 DEF LineType
    <2> QED BY <2>2, <2>3, <2>4, <2>5 DEF ChipType, LinkType, PassType, HistType
  <1>2. CASE BringupNext
    <2> USE <1>2 DEF BringupNext, TestDone
    <2>0. Pkt("PING", tests + 1, 0, 0) \in Packet BY DEF RsType, Pkt, Packet, MsgIds
    <2>1. cmd' \in Packet \cup {NoPkt} /\ txFrame' \in Packet \cup {NoPkt}
      BY <2>0 DEF RsType
    <2>2a. forwarding' \in BOOLEAN BY DEF RsType
    <2>2b. tests' \in Nat BY DEF RsType
    <2>3. PcType' BY DEF PcType, RsPoints, RxPoints, RsBlocking
    <2>4. RsType' BY <2>1, <2>2a, <2>2b DEF RsType
    <2> QED BY <2>3, <2>4 DEF ChipType, LinkType, PassType, QueueType, LineType,
          HistType
  <1>3. CASE CmdGet
    <2> USE <1>3 DEF CmdGet
    <2>0. cmdQ # <<>> => Head(cmdQ) \in Packet /\ Tail(cmdQ) \in Seq(Packet)
                     /\ Len(Tail(cmdQ)) <= CmdDepth
      BY HeadTail, ConstantsAssumption DEF QueueType
    <2>2. PcType' BY DEF PcType, RsPoints, RxPoints, RsBlocking
    <2>3. QueueType' BY <2>0 DEF QueueType
    <2>4. RsType' BY <2>0 DEF RsType
    <2> QED BY <2>2, <2>3, <2>4 DEF ChipType, LinkType, PassType, LineType, HistType
  <1>4. CASE Forward
    <2> USE <1>4 DEF Forward
    <2>0. cmd.seq \in Nat BY DEF RsType, Packet, NoPkt
    <2>2. PcType' BY DEF PcType, RsPoints, RxPoints, RsBlocking
    <2>3. RsType' BY <2>0 DEF RsType
    <2> QED BY <2>2, <2>3 DEF ChipType, LinkType, PassType, QueueType, LineType,
          HistType
  <1>5. CASE Transmit
    <2> USE <1>5 DEF Transmit, TxFailed, TestDone, DropPending
    <2>0. txBusy' \in BOOLEAN /\ matched' \in BOOLEAN BY DEF RsType
    <2>1a. pending' \in BOOLEAN BY DEF RsType
    <2>1b. pendingSeq' \in Nat BY DEF RsType
    <2>1c. tests' \in Nat BY DEF RsType
    <2>2. PcType' BY FaultBound DEF PcType, RsPoints, RxPoints, RsBlocking
    <2>3. RsType' BY <2>0, <2>1a, <2>1b, <2>1c DEF RsType
    <2>4. LineType' BY DEF LineType, RsType
    <2> QED BY <2>2, <2>3, <2>4 DEF ChipType, LinkType, PassType, QueueType, HistType
  <1>6. CASE RxDone
    <2> USE <1>6 DEF RxDone, TestDone, AfterTx, TestsAfterTx
    <2>2. PcType' BY DEF PcType, RsPoints, RxPoints, RsBlocking
    <2>3. RsType' BY DEF RsType
    <2> QED BY <2>2, <2>3 DEF ChipType, LinkType, PassType, QueueType, LineType,
          HistType
  <1>7. CASE TxPoll
    <2> USE <1>7 DEF TxPoll, TakeFlags, ContextReset, TxDone
    <2>2. PcType' BY DEF PcType, RsPoints, RxPoints, RsBlocking
    <2>3. RsType' BY DEF RsType
    <2> QED BY <2>2, <2>3 DEF ChipType, LinkType, PassType, QueueType, LineType,
          HistType
  <1>8. CASE TxWake
    <2> USE <1>8 DEF TxWake, AfterTx, TestsAfterTx, TakeFlags, ContextReset, TxDone
    <2>0. pending' \in BOOLEAN /\ pendingSeq' \in Nat BY DEF RsType
    <2>1. txBusy' \in BOOLEAN BY DEF RsType
    <2>2. tests' \in Nat BY DEF RsType
    <2>3. PcType' BY DEF PcType, RsPoints, RxPoints, RsBlocking
    <2>4. RsType' BY <2>0, <2>1, <2>2 DEF RsType
    <2> QED BY <2>3, <2>4 DEF ChipType, LinkType, PassType, QueueType, LineType,
          HistType
  <1>9. CASE TxTimeout
    <2> USE <1>9 DEF TxTimeout, TxFailed, TestDone, DropPending
    <2>2. PcType' BY DEF PcType, RsPoints, RxPoints, RsBlocking
    <2>3a. pending' \in BOOLEAN BY DEF RsType
    <2>3b. pendingSeq' \in Nat BY DEF RsType
    <2>3c. tests' \in Nat BY DEF RsType
    <2>3. RsType' BY <2>3a, <2>3b, <2>3c DEF RsType
    <2> QED BY <2>2, <2>3 DEF ChipType, LinkType, PassType, QueueType, LineType,
          HistType
  <1>10. CASE PongWake
    <2> USE <1>10 DEF PongWake, TakeFlags, ContextReset, TxDone
    <2>2. PcType' BY DEF PcType, RsPoints, RxPoints, RsBlocking
    <2>3. RsType' BY DEF RsType
    <2> QED BY <2>2, <2>3 DEF ChipType, LinkType, PassType, QueueType, LineType,
          HistType
  <1>11. CASE PongTimeout
    <2> USE <1>11 DEF PongTimeout, TestDone
    <2>2. PcType' BY DEF PcType, RsPoints, RxPoints, RsBlocking
    <2>3. RsType' BY DEF RsType
    <2> QED BY <2>2, <2>3 DEF ChipType, LinkType, PassType, QueueType, LineType,
          HistType
  <1>12. CASE MainWake
    <2> USE <1>12 DEF MainWake, TakeFlags, ContextReset, TxDone
    <2>2. PcType' BY DEF PcType, RsPoints, RxPoints, RsBlocking
    <2>3. RsType' BY DEF RsType
    <2> QED BY <2>2, <2>3 DEF ChipType, LinkType, PassType, QueueType, LineType,
          HistType
  <1> QED BY <1>1, <1>2, <1>3, <1>4, <1>5, <1>6, <1>7, <1>8, <1>9, <1>10, <1>11,
        <1>12 DEF Rs422Step

\* So do the steps of EthernetTask ...
LEMMA TypeEthernet == CoreInv /\ EthernetStep => TypeOK'
  <1> SUFFICES ASSUME CoreInv, EthernetStep PROVE TypeOK' OBVIOUS
  <1> USE DEF CoreInv, TypeOK
  <1>1. ASSUME NEW data \in BOOLEAN, NEW control \in BOOLEAN, EthWake(data, control) PROVE TypeOK'
    <2> USE <1>1 DEF EthWake, NoFault
    <2>2. PassType' BY DEF PassType, PcType
    <2>3. PcType' BY DEF PcType, EthPoints
    <2> QED BY <2>2, <2>3 DEF ChipType, LinkType, QueueType, RsType, LineType, HistType
  <1>2. CASE EthBoot
    <2> USE <1>2 DEF EthBoot
    <2>1. LinkType' BY DEF LinkType
    <2>2. PcType' BY FaultBound DEF PcType, EthPoints
    <2> QED BY <2>1, <2>2 DEF ChipType, PassType, QueueType, RsType, LineType, HistType
  <1>2a. CASE UdpOpen
    <2> USE <1>2a DEF UdpOpen
    <2>1. LinkType' BY DEF LinkType
    <2>2. PcType' BY FaultBound DEF PcType, EthPoints
    <2> QED BY <2>1, <2>2 DEF ChipType, PassType, QueueType, RsType, LineType, HistType
  <1>3. CASE CtlPhy
    <2> USE <1>3 DEF CtlPhy, Invalidate
    <2>0. epc' \in EthPoints /\ eret' \in EthPoints \cup {"start", "restart"}
      BY DEF PcType, EthPoints
    <2>1. nf' \in 0..MaxFaults BY FaultBound DEF PcType
    <2>2. LinkType' BY DEF LinkType, ChipType
    <2>3. PcType' BY <2>0, <2>1 DEF PcType
    <2> QED BY <2>2, <2>3 DEF ChipType, PassType, QueueType, RsType, LineType, HistType
  <1>4. CASE CtlSock
    <2> USE <1>4 DEF CtlSock, CtlIdle, CtlHealthy, CtlRestart, CtlDisconnect, CtlTransientTimeout,
           CtlStart, Invalidate
    <2>0. epc' \in EthPoints /\ eret' \in EthPoints \cup {"start", "restart"}
      BY DEF PcType, EthPoints
    <2>1. sessionActive' \in BOOLEAN BY DEF PcType
    <2>2. nf' \in 0..MaxFaults BY FaultBound DEF PcType
    <2>3. ChipType' BY DEF ChipType, SockStates
    <2>4. LinkType' BY DEF LinkType
    <2>5. PcType' BY <2>0, <2>1, <2>2 DEF PcType
    <2> QED BY <2>3, <2>4, <2>5 DEF PassType, QueueType, RsType, LineType, HistType
  <1>5. CASE InvFlag
    <2> USE <1>5 DEF InvFlag, NoFault
    <2>2. PassType' BY ConstantsAssumption DEF PassType
    <2>3. PcType' BY DEF PcType, EthPoints, RsEvents
    <2> QED BY <2>2, <2>3 DEF ChipType, LinkType, QueueType, RsType, LineType, HistType
  <1>6. CASE Discard
    <2> USE <1>6 DEF Discard, NoFault
    <2>0. respQ # <<>> => Head(respQ) \in Packet /\ Tail(respQ) \in Seq(Packet)
                     /\ Len(Tail(respQ)) <= RespDepth
      BY HeadTail, ConstantsAssumption DEF QueueType
    <2>2. PassType' BY DEF PassType
    <2>3. PcType' BY DEF PcType, ReturnInv
    <2>4. QueueType' BY <2>0 DEF QueueType
    <2> QED BY <2>2, <2>3, <2>4 DEF ChipType, LinkType, RsType, LineType, HistType
  <1>7. CASE SockClose
    <2> USE <1>7 DEF SockClose
    <2>0. epc' \in EthPoints /\ eret' \in EthPoints \cup {"start", "restart"}
      BY DEF PcType, ReturnInv, EthPoints
    <2>1. nf' \in 0..MaxFaults BY FaultBound DEF PcType
    <2>2. sock' \in SockStates BY DEF ChipType, SockStates
    <2>3. ChipType' BY <2>2 DEF ChipType
    <2>4. LinkType' BY DEF LinkType, SockStates
    <2>5. PassType' BY ConstantsAssumption DEF PassType, ReturnInv
    <2>6. PcType' BY <2>0, <2>1 DEF PcType
    <2> QED BY <2>3, <2>4, <2>5, <2>6 DEF QueueType, RsType, LineType, HistType
  <1>8. CASE SockOpen
    <2> USE <1>8 DEF SockOpen, StartFailed
    <2>0. epc' \in EthPoints /\ eret' \in EthPoints \cup {"start", "restart"}
      BY DEF PcType, ReturnInv, EthPoints
    <2>1. nf' \in 0..MaxFaults BY FaultBound DEF PcType
    <2>1a. sock' \in SockStates BY DEF ChipType, SockStates
    <2>1b. rx0' \in Seq(Packet) BY DEF ChipType
    <2>2. ChipType' BY <2>1a, <2>1b DEF ChipType
    <2>3. LinkType' BY DEF LinkType, SockStates
    <2>4. PassType' BY ConstantsAssumption DEF PassType, ReturnInv
    <2>5. PcType' BY <2>0, <2>1 DEF PcType
    <2> QED BY <2>2, <2>3, <2>4, <2>5 DEF QueueType, RsType, LineType, HistType
  <1>9. CASE SockListen
    <2> USE <1>9 DEF SockListen, StartFailed
    <2>0. epc' \in EthPoints /\ eret' \in EthPoints \cup {"start", "restart"}
      BY DEF PcType, ReturnInv, EthPoints
    <2>1. nf' \in 0..MaxFaults BY FaultBound DEF PcType
    <2>2. ChipType' BY DEF ChipType, SockStates
    <2>3. LinkType' BY DEF LinkType, SockStates
    <2>4. PassType' BY ConstantsAssumption DEF PassType, ReturnInv
    <2>5. PcType' BY <2>0, <2>1 DEF PcType
    <2> QED BY <2>2, <2>3, <2>4, <2>5 DEF QueueType, RsType, LineType, HistType
  <1>10. CASE ListenWait
    <2> USE <1>10 DEF ListenWait, StartSucceeded, StartFailed
    <2>0. epc' \in EthPoints /\ eret' \in EthPoints \cup {"start", "restart"}
      BY DEF PcType, ReturnInv, EthPoints
    <2>1. nf' \in 0..MaxFaults BY FaultBound DEF PcType
    <2>2. LinkType' BY DEF LinkType, ChipType
    <2>3. PassType' BY ConstantsAssumption DEF PassType, ReturnInv
    <2>4. PcType' BY <2>0, <2>1 DEF PcType
    <2> QED BY <2>2, <2>3, <2>4 DEF ChipType, QueueType, RsType, LineType, HistType
  <1>11. CASE DataStatus
    <2> USE <1>11 DEF DataStatus, Invalidate
    <2>0. epc' \in EthPoints /\ eret' \in EthPoints \cup {"start", "restart"}
      BY DEF PcType, EthPoints
    <2>1. nf' \in 0..MaxFaults BY FaultBound DEF PcType
    <2>2. LinkType' BY DEF LinkType, ChipType
    <2>3. PassType' BY ConstantsAssumption DEF PassType
    <2>4. PcType' BY <2>0, <2>1 DEF PcType
    <2> QED BY <2>2, <2>3, <2>4 DEF ChipType, QueueType, RsType, LineType, HistType
  <1>12. CASE Activate
    <2> USE <1>12 DEF Activate, NoFault
    <2>2. PcType' BY DEF PcType, EthPoints
    <2> QED BY <2>2 DEF ChipType, LinkType, PassType, QueueType, RsType, LineType,
          HistType
  <1>13. CASE Traffic
    <2> USE <1>13 DEF Traffic, NoFault
    <2>2. PassType' BY ConstantsAssumption DEF PassType
    <2>3. PcType' BY DEF PcType, EthPoints
    <2> QED BY <2>2, <2>3 DEF ChipType, LinkType, QueueType, RsType, LineType, HistType
  <1>14. CASE TcpRead
    <2> USE <1>14 DEF TcpRead
    <2>2. ChipType' BY CutType DEF ChipType
    <2>3. PassType' BY CutType DEF PassType, ChipType
    <2>4. PcType' BY FaultBound DEF PcType, EthPoints
    <2> QED BY <2>2, <2>3, <2>4 DEF LinkType, QueueType, RsType, LineType, HistType
  <1>15. CASE TcpFrame
    <2> USE <1>15 DEF TcpFrame, NoFault
    <2>0. chunk # <<>> => Head(chunk) \in Packet /\ Tail(chunk) \in Seq(Packet)
      BY HeadTail DEF PassType
    <2>1a. chunk # <<>> => /\ Append(cmdQ, Head(chunk)) \in Seq(Packet)
                           /\ Len(Append(cmdQ, Head(chunk))) = Len(cmdQ) + 1
                           /\ Len(cmdQ) \in Nat
      BY <2>0, AppendPacket DEF QueueType
    <2>1b. cmdQ' \in Seq(Packet) BY <2>1a DEF QueueType
    <2>1. cmdQ' \in Seq(Packet) /\ Len(cmdQ') <= CmdDepth
      BY <2>1a, <2>1b, ConstantsAssumption DEF QueueType
    <2>2. PassType' BY <2>0 DEF PassType
    <2>3. PcType' BY DEF PcType, EthPoints
    <2>4. QueueType' BY <2>1 DEF QueueType
    <2>5. HistType' BY DEF HistType
    <2> QED BY <2>2, <2>3, <2>4, <2>5 DEF ChipType, LinkType, RsType, LineType
  <1>16. CASE CmdFlag
    <2> USE <1>16 DEF CmdFlag, NoFault
    <2>2. PcType' BY DEF PcType, EthPoints, RsEvents
    <2> QED BY <2>2 DEF ChipType, LinkType, PassType, QueueType, RsType, LineType,
          HistType
  <1>17. CASE Drain
    <2> USE <1>17 DEF Drain, NoFault
    <2>0. respQ # <<>> => Head(respQ) \in Packet /\ Tail(respQ) \in Seq(Packet)
                     /\ Len(Tail(respQ)) <= RespDepth
      BY HeadTail, ConstantsAssumption DEF QueueType
    <2>2. PassType' BY <2>0, ConstantsAssumption DEF PassType
    <2>3. PcType' BY DEF PcType, EthPoints
    <2>4. QueueType' BY <2>0 DEF QueueType
    <2> QED BY <2>2, <2>3, <2>4 DEF ChipType, LinkType, RsType, LineType, HistType
  <1>18. CASE TcpSend
    <2> USE <1>18 DEF TcpSend
    <2>2. ChipType' BY DEF ChipType
    <2>3. PcType' BY FaultBound DEF PcType, EthPoints
    <2>4. HistType' BY ConstantsAssumption DEF HistType, ChipType, PassType
    <2> QED BY <2>2, <2>3, <2>4 DEF LinkType, PassType, QueueType, RsType, LineType
  <1>19. CASE UdpGet
    <2> USE <1>19 DEF UdpGet
    <2>0. udpQ # <<>> => Head(udpQ) \in Packet /\ Tail(udpQ) \in Seq(Packet)
                     /\ Len(Tail(udpQ)) <= UdpDepth
      BY HeadTail, ConstantsAssumption DEF QueueType
    <2>2. PassType' BY <2>0 DEF PassType
    <2>3. PcType' BY FaultBound DEF PcType, EthPoints
    <2>4. QueueType' BY <2>0 DEF QueueType
    <2> QED BY <2>2, <2>3, <2>4 DEF ChipType, LinkType, RsType, LineType, HistType
  <1>20. CASE UdpSend
    <2> USE <1>20 DEF UdpSend
    <2>0. epkt.seq \in Nat BY DEF PassType, Packet, NoPkt
    <2>2. PcType' BY FaultBound DEF PcType, EthPoints
    <2>3. HistType' BY <2>0 DEF HistType
    <2> QED BY <2>2, <2>3 DEF ChipType, LinkType, PassType, QueueType, RsType, LineType
  <1> QED BY <1>1, <1>2, <1>2a, <1>3, <1>4, <1>5, <1>6, <1>7, <1>8, <1>9, <1>10, <1>11, <1>12,
        <1>13, <1>14, <1>15, <1>16, <1>17, <1>18, <1>19, <1>20 DEF EthernetStep

\* ... the interrupts, the line, the W5500 and the clients.
LEMMA TypeEnvironment == CoreInv /\ Environment => TypeOK'
  <1> SUFFICES ASSUME CoreInv, Environment PROVE TypeOK' OBVIOUS
  <1> USE DEF CoreInv, TypeOK
  <1>1. CASE UartTxIsr
    <2> USE <1>1 DEF UartTxIsr, NoFault
    <2>2. PcType' BY DEF PcType, RsEvents
    <2>3. LineType' BY AppendPacket DEF LineType
    <2> QED BY <2>2, <2>3 DEF ChipType, LinkType, PassType, QueueType, RsType, HistType
  <1>2. CASE UartRxIsr
    <2> USE <1>2 DEF UartRxIsr, NoFault
    <2>0. wireIn # <<>> => Head(wireIn) \in Packet /\ Tail(wireIn) \in Seq(Packet)
      BY HeadTail DEF LineType
    <2>2. PcType' BY DEF PcType, RsEvents
    <2>3. LineType' BY <2>0, PutType, ConstantsAssumption DEF LineType
    <2> QED BY <2>2, <2>3 DEF ChipType, LinkType, PassType, QueueType, RsType, HistType
  <1>3. CASE UartErrorIsr
    <2> USE <1>3 DEF UartErrorIsr, Fault
    <2>0. wireIn # <<>> => Head(wireIn) \in Packet /\ Tail(wireIn) \in Seq(Packet)
      BY HeadTail DEF LineType
    <2>2. PcType' BY ConstantsAssumption DEF PcType, RsEvents
    <2>3. LineType' BY <2>0 DEF LineType
    <2> QED BY <2>2, <2>3 DEF ChipType, LinkType, PassType, QueueType, RsType, HistType
  <1>4. CASE LineLoss
    <2> USE <1>4 DEF LineLoss, Fault
    <2>0. wireOut # <<>> => Head(wireOut) \in Packet /\ Tail(wireOut) \in Seq(Packet)
      BY HeadTail DEF LineType
    <2>2. PcType' BY ConstantsAssumption DEF PcType
    <2>3. LineType' BY <2>0 DEF LineType
    <2> QED BY <2>2, <2>3 DEF ChipType, LinkType, PassType, QueueType, RsType, HistType
  <1>5. CASE RemoteAnswer
    <2> USE <1>5 DEF RemoteAnswer, NoFault
    <2>0. wireOut # <<>> => Head(wireOut) \in Packet /\ Tail(wireOut) \in Seq(Packet)
      BY HeadTail DEF LineType
    <2>2. PcType' BY DEF PcType
    <2>3. LineType' BY <2>0, ReplyType, AppendPacket DEF LineType
    <2> QED BY <2>2, <2>3 DEF ChipType, LinkType, PassType, QueueType, RsType, HistType
  <1>6. CASE RemoteTelemetry
    <2> USE <1>6 DEF RemoteTelemetry, NoFault
    <2>0. Pkt("TELEMETRY", tlm + 1, 0, 0) \in Packet
      BY ConstantsAssumption DEF LineType, Pkt, Packet, MsgIds
    <2>2. PcType' BY DEF PcType
    <2>3. LineType' BY <2>0, AppendPacket, ConstantsAssumption DEF LineType
    <2> QED BY <2>2, <2>3 DEF ChipType, LinkType, PassType, QueueType, RsType, HistType
  <1>7a. CASE ClientSyn
    <2> USE <1>7a DEF ClientSyn, NoFault
    <2>2. ChipType' BY ConstantsAssumption DEF ChipType, SockStates
    <2>3. PcType' BY DEF PcType
    <2> QED BY <2>2, <2>3 DEF LinkType, PassType, QueueType, RsType, LineType, HistType
  <1>7. CASE ClientConnect
    <2> USE <1>7 DEF ClientConnect, NoFault
    <2>2. ChipType' BY ConstantsAssumption DEF ChipType, SockStates
    <2>3. PcType' BY DEF PcType
    <2> QED BY <2>2, <2>3 DEF LinkType, PassType, QueueType, RsType, LineType, HistType
  <1>8. CASE ClientSend
    <2> USE <1>8 DEF ClientSend, NoFault
    <2>0. conn \in Nat BY ConstantsAssumption DEF ChipType
    <2>1. \A m \in ClientMsgs, s \in ClientSeqs, l \in ClientLens :
             Pkt(m, s, l, conn) \in Packet
      BY <2>0, ClientPacket
    <2>2. ChipType' BY <2>1, AppendPacket, ConstantsAssumption DEF ChipType
    <2>3. PcType' BY DEF PcType
    <2> QED BY <2>2, <2>3 DEF LinkType, PassType, QueueType, RsType, LineType, HistType
  <1>9. CASE ClientClose
    <2> USE <1>9 DEF ClientClose, Fault
    <2>2. ChipType' BY DEF ChipType, SockStates
    <2>3. PcType' BY ConstantsAssumption DEF PcType
    <2> QED BY <2>2, <2>3 DEF LinkType, PassType, QueueType, RsType, LineType, HistType
  <1>10. CASE ChipClosed
    <2> USE <1>10 DEF ChipClosed, NoFault
    <2>2. ChipType' BY DEF ChipType, SockStates
    <2>3. PcType' BY DEF PcType
    <2> QED BY <2>2, <2>3 DEF LinkType, PassType, QueueType, RsType, LineType, HistType
  <1>11. CASE LinkDown
    <2> USE <1>11 DEF LinkDown, Fault
    <2>2. ChipType' BY DEF ChipType
    <2>3. PcType' BY ConstantsAssumption DEF PcType
    <2> QED BY <2>2, <2>3 DEF LinkType, PassType, QueueType, RsType, LineType, HistType
  <1>12. CASE LinkUp
    <2> USE <1>12 DEF LinkUp, NoFault
    <2>2. ChipType' BY DEF ChipType
    <2>3. PcType' BY DEF PcType
    <2> QED BY <2>2, <2>3 DEF LinkType, PassType, QueueType, RsType, LineType, HistType
  <1>13. CASE RetryTimer
    <2> USE <1>13 DEF RetryTimer, NoFault
    <2>2. LinkType' BY DEF LinkType
    <2>3. PcType' BY DEF PcType
    <2> QED BY <2>2, <2>3 DEF ChipType, PassType, QueueType, RsType, LineType, HistType
  <1> QED BY <1>1, <1>2, <1>3, <1>4, <1>5, <1>6, <1>7a, <1>7, <1>8, <1>9, <1>10, <1>11, <1>12,
        <1>13 DEF Environment

-----------------------------------------------------------------------------
(* What each actor leaves alone.                                           *)

\* RS422Task writes nothing that belongs to EthernetTask.
LEMMA Rs422Keeps ==
    ASSUME Rs422Step PROVE UNCHANGED <<epc, eret, sessionActive, budget>>
  <1>1. CASE RsPop
    BY <1>1 DEF RsPop, RoutesToTcp
  <1>2. CASE BringupNext
    BY <1>2 DEF BringupNext, TestDone
  <1>3. CASE CmdGet
    BY <1>3 DEF CmdGet
  <1>4. CASE Forward
    BY <1>4 DEF Forward
  <1>5. CASE Transmit
    BY <1>5 DEF Transmit, TxFailed, TestDone, DropPending
  <1>6. CASE RxDone
    BY <1>6 DEF RxDone, TestDone, AfterTx, TestsAfterTx
  <1>7. CASE TxPoll
    BY <1>7 DEF TxPoll, TakeFlags, ContextReset, TxDone
  <1>8. CASE TxWake
    BY <1>8 DEF TxWake, AfterTx, TestsAfterTx, TakeFlags, ContextReset, TxDone
  <1>9. CASE TxTimeout
    BY <1>9 DEF TxTimeout, TxFailed, TestDone, DropPending
  <1>10. CASE PongWake
    BY <1>10 DEF PongWake, TakeFlags, ContextReset, TxDone
  <1>11. CASE PongTimeout
    BY <1>11 DEF PongTimeout, TestDone
  <1>12. CASE MainWake
    BY <1>12 DEF MainWake, TakeFlags, ContextReset, TxDone
  <1> QED BY <1>1, <1>2, <1>3, <1>4, <1>5, <1>6, <1>7, <1>8, <1>9, <1>10, <1>11,
        <1>12 DEF Rs422Step

\* EthernetTask runs only while RS422Task is blocked, and sets no UART event.
LEMMA EthernetKeeps ==
    ASSUME EthernetStep
    PROVE  /\ Rs422Blocked /\ UNCHANGED <<rsVars, lineVars>>
           /\ flags \subseteq flags'
           /\ flags' \subseteq flags \cup {"CMD_READY", "TCP_CONTEXT_RESET"}
  <1> DEFINE Goal == /\ Rs422Blocked /\ UNCHANGED <<rsVars, lineVars>>
                     /\ flags \subseteq flags'
                     /\ flags' \subseteq flags \cup {"CMD_READY", "TCP_CONTEXT_RESET"}
  <1> SUFFICES Goal OBVIOUS
  <1>1. ASSUME NEW data \in BOOLEAN, NEW control \in BOOLEAN, EthWake(data, control) PROVE Goal
    BY <1>1 DEF EthWake
  <1>2. CASE EthBoot
    BY <1>2 DEF EthBoot
  <1>2a. CASE UdpOpen
    BY <1>2a DEF UdpOpen
  <1>3. CASE CtlPhy
    BY <1>3 DEF CtlPhy, Invalidate
  <1>4. CASE CtlSock
    BY <1>4 DEF CtlSock, CtlIdle, CtlHealthy, CtlRestart, CtlDisconnect,
         CtlTransientTimeout, CtlStart, Invalidate
  <1>5. CASE InvFlag
    BY <1>5 DEF InvFlag
  <1>6. CASE Discard
    BY <1>6 DEF Discard
  <1>7. CASE SockClose
    BY <1>7 DEF SockClose
  <1>8. CASE SockOpen
    BY <1>8 DEF SockOpen, StartFailed
  <1>9. CASE SockListen
    BY <1>9 DEF SockListen, StartFailed
  <1>10. CASE ListenWait
    BY <1>10 DEF ListenWait, StartSucceeded, StartFailed
  <1>11. CASE DataStatus
    BY <1>11 DEF DataStatus, Invalidate
  <1>12. CASE Activate
    BY <1>12 DEF Activate
  <1>13. CASE Traffic
    BY <1>13 DEF Traffic
  <1>14. CASE TcpRead
    BY <1>14 DEF TcpRead
  <1>15. CASE TcpFrame
    BY <1>15 DEF TcpFrame
  <1>16. CASE CmdFlag
    BY <1>16 DEF CmdFlag
  <1>17. CASE Drain
    BY <1>17 DEF Drain
  <1>18. CASE TcpSend
    BY <1>18 DEF TcpSend
  <1>19. CASE UdpGet
    BY <1>19 DEF UdpGet
  <1>20. CASE UdpSend
    BY <1>20 DEF UdpSend
  <1> QED BY <1>1, <1>2, <1>2a, <1>3, <1>4, <1>5, <1>6, <1>7, <1>8, <1>9, <1>10, <1>11, <1>12,
        <1>13, <1>14, <1>15, <1>16, <1>17, <1>18, <1>19, <1>20 DEF EthernetStep

\* Interrupts only add events; the environment runs no task.
LEMMA EnvironmentKeeps ==
    ASSUME Environment
    PROVE  /\ UNCHANGED <<epc, eret, sessionActive, budget, queueVars, rsVars>>
           /\ flags \subseteq flags' /\ flags' \subseteq flags \cup {"RX", "TX_DONE"}
  <1>1. CASE UartTxIsr
    BY <1>1 DEF UartTxIsr
  <1>2. CASE UartRxIsr
    BY <1>2 DEF UartRxIsr
  <1>3. CASE UartErrorIsr
    BY <1>3 DEF UartErrorIsr
  <1>4. CASE LineLoss
    BY <1>4 DEF LineLoss
  <1>5. CASE RemoteAnswer
    BY <1>5 DEF RemoteAnswer
  <1>6. CASE RemoteTelemetry
    BY <1>6 DEF RemoteTelemetry
  <1>7a. CASE ClientSyn
    BY <1>7a DEF ClientSyn
  <1>7. CASE ClientConnect
    BY <1>7 DEF ClientConnect
  <1>8. CASE ClientSend
    BY <1>8 DEF ClientSend
  <1>9. CASE ClientClose
    BY <1>9 DEF ClientClose
  <1>10. CASE ChipClosed
    BY <1>10 DEF ChipClosed
  <1>11. CASE LinkDown
    BY <1>11 DEF LinkDown
  <1>12. CASE LinkUp
    BY <1>12 DEF LinkUp
  <1>13. CASE RetryTimer
    BY <1>13 DEF RetryTimer
  <1> QED BY <1>1, <1>2, <1>3, <1>4, <1>5, <1>6, <1>7a, <1>7, <1>8, <1>9, <1>10, <1>11, <1>12,
        <1>13 DEF Environment

-----------------------------------------------------------------------------
(* The other conjuncts of CoreInv, one lemma each for the actor that matters. *)

\* Every subroutine of EthernetTask returns to a control point of its caller.
LEMMA ReturnStep == CoreInv /\ EthernetStep => ReturnInv'
  <1> SUFFICES ASSUME CoreInv, EthernetStep PROVE ReturnInv' OBVIOUS
  <1> USE DEF CoreInv, ReturnInv, EthPoints
  <1>1. ASSUME NEW data \in BOOLEAN, NEW control \in BOOLEAN, EthWake(data, control) PROVE ReturnInv'
    BY <1>1 DEF EthWake
  <1>2. CASE EthBoot
    BY <1>2 DEF EthBoot
  <1>2a. CASE UdpOpen
    BY <1>2a DEF UdpOpen
  <1>3. CASE CtlPhy
    BY <1>3 DEF CtlPhy, Invalidate
  <1>4. CASE CtlSock
    BY <1>4 DEF CtlSock, CtlIdle, CtlHealthy, CtlRestart, CtlDisconnect,
         CtlTransientTimeout, CtlStart, Invalidate
  <1>5. CASE InvFlag
    BY <1>5 DEF InvFlag
  <1>6. CASE Discard
    BY <1>6 DEF Discard, TypeOK, PcType
  <1>7. CASE SockClose
    BY <1>7 DEF SockClose
  <1>8. CASE SockOpen
    BY <1>8 DEF SockOpen, StartFailed
  <1>9. CASE SockListen
    BY <1>9 DEF SockListen, StartFailed
  <1>10. CASE ListenWait
    BY <1>10 DEF ListenWait, StartSucceeded, StartFailed
  <1>11. CASE DataStatus
    BY <1>11 DEF DataStatus, Invalidate
  <1>12. CASE Activate
    BY <1>12 DEF Activate
  <1>13. CASE Traffic
    BY <1>13 DEF Traffic
  <1>14. CASE TcpRead
    BY <1>14 DEF TcpRead
  <1>15. CASE TcpFrame
    BY <1>15 DEF TcpFrame
  <1>16. CASE CmdFlag
    BY <1>16 DEF CmdFlag
  <1>17. CASE Drain
    BY <1>17 DEF Drain
  <1>18. CASE TcpSend
    BY <1>18 DEF TcpSend
  <1>19. CASE UdpGet
    BY <1>19 DEF UdpGet
  <1>20. CASE UdpSend
    BY <1>20 DEF UdpSend
  <1> QED BY <1>1, <1>2, <1>2a, <1>3, <1>4, <1>5, <1>6, <1>7, <1>8, <1>9, <1>10, <1>11, <1>12,
        <1>13, <1>14, <1>15, <1>16, <1>17, <1>18, <1>19, <1>20 DEF EthernetStep

\* The bring-up loop ends after BringupTests tests.
LEMMA BringupStep == CoreInv /\ Rs422Step => BringupInv'
  <1> SUFFICES ASSUME CoreInv, Rs422Step PROVE BringupInv' OBVIOUS
  <1> USE DEF CoreInv, TypeOK, RsType, BringupInv, RxPoints
  <1>1. CASE RsPop
    BY <1>1, ConstantsAssumption DEF RsPop, RoutesToTcp
  <1>2. CASE BringupNext
    BY <1>2, ConstantsAssumption DEF BringupNext, TestDone
  <1>3. CASE CmdGet
    BY <1>3, ConstantsAssumption DEF CmdGet
  <1>4. CASE Forward
    BY <1>4, ConstantsAssumption DEF Forward
  <1>5. CASE Transmit
    BY <1>5, ConstantsAssumption DEF Transmit, TxFailed, TestDone, DropPending
  <1>6. CASE RxDone
    BY <1>6, ConstantsAssumption DEF RxDone, TestDone, AfterTx, TestsAfterTx
  <1>7. CASE TxPoll
    BY <1>7, ConstantsAssumption DEF TxPoll, TakeFlags, ContextReset, TxDone
  <1>8. CASE TxWake
    BY <1>8, ConstantsAssumption DEF TxWake, AfterTx, TestsAfterTx, TakeFlags,
         ContextReset, TxDone
  <1>9. CASE TxTimeout
    BY <1>9, ConstantsAssumption DEF TxTimeout, TxFailed, TestDone, DropPending
  <1>10. CASE PongWake
    BY <1>10, ConstantsAssumption DEF PongWake, TakeFlags, ContextReset, TxDone
  <1>11. CASE PongTimeout
    BY <1>11, ConstantsAssumption DEF PongTimeout, TestDone
  <1>12. CASE MainWake
    BY <1>12, ConstantsAssumption DEF MainWake, TakeFlags, ContextReset, TxDone
  <1> QED BY <1>1, <1>2, <1>3, <1>4, <1>5, <1>6, <1>7, <1>8, <1>9, <1>10, <1>11,
        <1>12 DEF Rs422Step

\* Only RS422Task starts a transmission, and only when UART4 is idle.
LEMMA TxRs422 == CoreInv /\ Rs422Step => TxInv'
  <1> SUFFICES ASSUME CoreInv, Rs422Step PROVE TxInv' OBVIOUS
  <1> USE DEF CoreInv, TxInv, TypeOK, RsType, LineType
  <1>1. CASE RsPop
    BY <1>1 DEF RsPop, RoutesToTcp
  <1>2. CASE BringupNext
    <2>1. Pkt("PING", tests + 1, 0, 0) # NoPkt BY DEF Pkt, NoPkt
    <2> QED BY <1>2, <2>1 DEF BringupNext, TestDone, StillBusy
  <1>3. CASE CmdGet
    <2>1. cmdQ # <<>> => Head(cmdQ) # NoPkt BY HeadTail, PacketNotNoPkt DEF QueueType
    <2> QED BY <1>3, <2>1 DEF CmdGet
  <1>4. CASE Forward
    BY <1>4 DEF Forward, StillBusy
  <1>5. CASE Transmit
    <2>1. uart = NoPkt /\ rpc = "xmit" /\ ~txBusy /\ "TX_DONE" \notin flags
      BY <1>5 DEF Transmit
    <2>2. UNCHANGED <<flags, txFrame>> /\ rpc' \notin {"fwd", "xmit"}
      BY <1>5 DEF Transmit, TxFailed, TestDone
    <2>3. \/ uart' = txFrame /\ txBusy' = TRUE
          \/ uart' = uart /\ txBusy' = FALSE
      BY <1>5, <2>1 DEF Transmit
    <2>4. txFrame # NoPkt
      BY <2>1
    <2> QED BY <1>5, <2>1, <2>2, <2>3, <2>4
  <1>6. CASE RxDone
    BY <1>6 DEF RxDone, TestDone, AfterTx, TestsAfterTx
  <1>7. CASE TxPoll
    BY <1>7 DEF TxPoll, TakeFlags, ContextReset, TxDone
  <1>8. CASE TxWake
    BY <1>8 DEF TxWake, AfterTx, TestsAfterTx, TakeFlags, ContextReset, TxDone
  <1>9. CASE TxTimeout
    BY <1>9 DEF TxTimeout, TxFailed, TestDone, DropPending
  <1>10. CASE PongWake
    BY <1>10 DEF PongWake, TakeFlags, ContextReset, TxDone
  <1>11. CASE PongTimeout
    BY <1>11 DEF PongTimeout, TestDone
  <1>12. CASE MainWake
    BY <1>12 DEF MainWake, TakeFlags, ContextReset, TxDone
  <1> QED BY <1>1, <1>2, <1>3, <1>4, <1>5, <1>6, <1>7, <1>8, <1>9, <1>10, <1>11,
        <1>12 DEF Rs422Step

\* The end of a transmission sets TX_DONE.
LEMMA TxEnvironment == CoreInv /\ Environment => TxInv'
  <1> SUFFICES ASSUME CoreInv, Environment PROVE TxInv' OBVIOUS
  <1> USE DEF CoreInv, TxInv
  <1>1. CASE UartTxIsr
    BY <1>1 DEF UartTxIsr
  <1>2. CASE UartRxIsr
    BY <1>2 DEF UartRxIsr
  <1>3. CASE UartErrorIsr
    BY <1>3 DEF UartErrorIsr
  <1>4. CASE LineLoss
    BY <1>4 DEF LineLoss
  <1>5. CASE RemoteAnswer
    BY <1>5 DEF RemoteAnswer
  <1>6. CASE RemoteTelemetry
    BY <1>6 DEF RemoteTelemetry
  <1>7a. CASE ClientSyn
    BY <1>7a DEF ClientSyn
  <1>7. CASE ClientConnect
    BY <1>7 DEF ClientConnect
  <1>8. CASE ClientSend
    BY <1>8 DEF ClientSend
  <1>9. CASE ClientClose
    BY <1>9 DEF ClientClose
  <1>10. CASE ChipClosed
    BY <1>10 DEF ChipClosed
  <1>11. CASE LinkDown
    BY <1>11 DEF LinkDown
  <1>12. CASE LinkUp
    BY <1>12 DEF LinkUp
  <1>13. CASE RetryTimer
    BY <1>13 DEF RetryTimer
  <1> QED BY <1>1, <1>2, <1>3, <1>4, <1>5, <1>6, <1>7a, <1>7, <1>8, <1>9, <1>10, <1>11, <1>12,
        <1>13 DEF Environment

\* RS422Task adds nothing to the responses of a session that is over.
LEMMA SessionRs422 == CoreInv /\ Rs422Step => SessionInv'
  <1> SUFFICES ASSUME CoreInv, Rs422Step PROVE SessionInv' OBVIOUS
  <1> USE DEF CoreInv, SessionInv
  <1>1. CASE RsPop
    BY <1>1 DEF RsPop, RoutesToTcp
  <1>2. CASE BringupNext
    BY <1>2 DEF BringupNext, TestDone
  <1>3. CASE CmdGet
    BY <1>3 DEF CmdGet
  <1>4. CASE Forward
    BY <1>4 DEF Forward
  <1>5. CASE Transmit
    BY <1>5 DEF Transmit, TxFailed, TestDone, DropPending
  <1>6. CASE RxDone
    BY <1>6 DEF RxDone, TestDone, AfterTx, TestsAfterTx
  <1>7. CASE TxPoll
    BY <1>7 DEF TxPoll, TakeFlags, ContextReset, TxDone
  <1>8. CASE TxWake
    BY <1>8 DEF TxWake, AfterTx, TestsAfterTx, TakeFlags, ContextReset, TxDone
  <1>9. CASE TxTimeout
    BY <1>9 DEF TxTimeout, TxFailed, TestDone, DropPending
  <1>10. CASE PongWake
    BY <1>10 DEF PongWake, TakeFlags, ContextReset, TxDone
  <1>11. CASE PongTimeout
    BY <1>11 DEF PongTimeout, TestDone
  <1>12. CASE MainWake
    BY <1>12 DEF MainWake, TakeFlags, ContextReset, TxDone
  <1> QED BY <1>1, <1>2, <1>3, <1>4, <1>5, <1>6, <1>7, <1>8, <1>9, <1>10, <1>11,
        <1>12 DEF Rs422Step

\* EthernetTask ends a session before it forgets it.
LEMMA SessionEthernet == CoreInv /\ EthernetStep => SessionInv'
  <1> SUFFICES ASSUME CoreInv, EthernetStep PROVE SessionInv' OBVIOUS
  <1> USE DEF CoreInv, SessionInv, TypeOK, PassType, QueueType
  <1>1. ASSUME NEW data \in BOOLEAN, NEW control \in BOOLEAN, EthWake(data, control) PROVE SessionInv'
    BY <1>1, ConstantsAssumption DEF EthWake
  <1>2. CASE EthBoot
    BY <1>2, ConstantsAssumption DEF EthBoot
  <1>2a. CASE UdpOpen
    BY <1>2a, ConstantsAssumption DEF UdpOpen
  <1>3. CASE CtlPhy
    BY <1>3, ConstantsAssumption DEF CtlPhy, Invalidate
  <1>4. CASE CtlSock
    BY <1>4, ConstantsAssumption DEF CtlSock, CtlIdle, CtlHealthy, CtlRestart,
         CtlDisconnect, CtlTransientTimeout, CtlStart, Invalidate
  <1>5. CASE InvFlag
    BY <1>5, ConstantsAssumption DEF InvFlag
  <1>6. CASE Discard
    BY <1>6, ConstantsAssumption DEF Discard
  <1>7. CASE SockClose
    BY <1>7, ConstantsAssumption DEF SockClose
  <1>8. CASE SockOpen
    <2>1. eret \in {"udp_open", "start", "restart"} BY <1>8 DEF SockOpen, ReturnInv
    <2>2. UNCHANGED <<sessionActive, pending, flags, respQ>> /\ epc \notin {"inv_flag", "discard"}
      BY <1>8 DEF SockOpen
    <2>3. epc' # "inv_flag" /\ (epc' = "discard" => budget' = RespDepth)
      BY <1>8, <2>1 DEF SockOpen, StartFailed
    <2> QED BY <2>2, <2>3, ConstantsAssumption
  <1>9. CASE SockListen
    <2>1. eret \in {"udp_open", "start", "restart"} BY <1>9 DEF SockListen, ReturnInv
    <2>2. UNCHANGED <<sessionActive, pending, flags, respQ>> /\ epc \notin {"inv_flag", "discard"}
      BY <1>9 DEF SockListen
    <2>3. epc' # "inv_flag" /\ (epc' = "discard" => budget' = RespDepth)
      BY <1>9, <2>1 DEF SockListen, StartFailed
    <2> QED BY <2>2, <2>3, ConstantsAssumption
  <1>10. CASE ListenWait
    <2>1. eret \in {"udp_open", "start", "restart"} BY <1>10 DEF ListenWait, ReturnInv
    <2>2. UNCHANGED <<sessionActive, pending, flags, respQ>> /\ epc \notin {"inv_flag", "discard"}
      BY <1>10 DEF ListenWait
    <2>3. epc' # "inv_flag" /\ (epc' = "discard" => budget' = RespDepth)
      BY <1>10, <2>1 DEF ListenWait, StartSucceeded, StartFailed
    <2> QED BY <2>2, <2>3, ConstantsAssumption
  <1>11. CASE DataStatus
    BY <1>11, ConstantsAssumption DEF DataStatus, Invalidate
  <1>12. CASE Activate
    BY <1>12, ConstantsAssumption DEF Activate
  <1>13. CASE Traffic
    BY <1>13, ConstantsAssumption DEF Traffic
  <1>14. CASE TcpRead
    BY <1>14, ConstantsAssumption DEF TcpRead
  <1>15. CASE TcpFrame
    BY <1>15, ConstantsAssumption DEF TcpFrame
  <1>16. CASE CmdFlag
    BY <1>16, ConstantsAssumption DEF CmdFlag
  <1>17. CASE Drain
    BY <1>17, ConstantsAssumption DEF Drain
  <1>18. CASE TcpSend
    BY <1>18, ConstantsAssumption DEF TcpSend
  <1>19. CASE UdpGet
    BY <1>19, ConstantsAssumption DEF UdpGet
  <1>20. CASE UdpSend
    BY <1>20, ConstantsAssumption DEF UdpSend
  <1> QED BY <1>1, <1>2, <1>2a, <1>3, <1>4, <1>5, <1>6, <1>7, <1>8, <1>9, <1>10, <1>11, <1>12,
        <1>13, <1>14, <1>15, <1>16, <1>17, <1>18, <1>19, <1>20 DEF EthernetStep

\* RS422Task looks at the ring and the queue before it waits.
LEMMA WakeRs422 == CoreInv /\ Rs422Step => WakeInv'
  <1> SUFFICES ASSUME CoreInv, Rs422Step PROVE WakeInv' OBVIOUS
  <1> USE DEF CoreInv, WakeInv, RxPoints
  <1>1. CASE RsPop
    BY <1>1 DEF RsPop, RoutesToTcp
  <1>2. CASE BringupNext
    BY <1>2 DEF BringupNext, TestDone
  <1>3. CASE CmdGet
    BY <1>3 DEF CmdGet
  <1>4. CASE Forward
    BY <1>4 DEF Forward
  <1>5. CASE Transmit
    BY <1>5 DEF Transmit, TxFailed, TestDone, DropPending
  <1>6. CASE RxDone
    BY <1>6 DEF RxDone, TestDone, AfterTx, TestsAfterTx
  <1>7. CASE TxPoll
    BY <1>7 DEF TxPoll, TakeFlags, ContextReset, TxDone
  <1>8. CASE TxWake
    BY <1>8 DEF TxWake, AfterTx, TestsAfterTx, TakeFlags, ContextReset, TxDone
  <1>9. CASE TxTimeout
    BY <1>9 DEF TxTimeout, TxFailed, TestDone, DropPending
  <1>10. CASE PongWake
    BY <1>10 DEF PongWake, TakeFlags, ContextReset, TxDone
  <1>11. CASE PongTimeout
    BY <1>11 DEF PongTimeout, TestDone
  <1>12. CASE MainWake
    BY <1>12 DEF MainWake, TakeFlags, ContextReset, TxDone
  <1> QED BY <1>1, <1>2, <1>3, <1>4, <1>5, <1>6, <1>7, <1>8, <1>9, <1>10, <1>11,
        <1>12 DEF Rs422Step

\* A command that is queued is announced.
LEMMA WakeEthernet == CoreInv /\ EthernetStep => WakeInv'
  <1> SUFFICES ASSUME CoreInv, EthernetStep PROVE WakeInv' OBVIOUS
  <1> USE DEF CoreInv, WakeInv
  <1>1. ASSUME NEW data \in BOOLEAN, NEW control \in BOOLEAN, EthWake(data, control) PROVE WakeInv'
    BY <1>1 DEF EthWake
  <1>2. CASE EthBoot
    BY <1>2 DEF EthBoot
  <1>2a. CASE UdpOpen
    BY <1>2a DEF UdpOpen
  <1>3. CASE CtlPhy
    BY <1>3 DEF CtlPhy, Invalidate
  <1>4. CASE CtlSock
    BY <1>4 DEF CtlSock, CtlIdle, CtlHealthy, CtlRestart, CtlDisconnect,
         CtlTransientTimeout, CtlStart, Invalidate
  <1>5. CASE InvFlag
    BY <1>5 DEF InvFlag
  <1>6. CASE Discard
    BY <1>6 DEF Discard
  <1>7. CASE SockClose
    BY <1>7 DEF SockClose
  <1>8. CASE SockOpen
    BY <1>8 DEF SockOpen, StartFailed
  <1>9. CASE SockListen
    BY <1>9 DEF SockListen, StartFailed
  <1>10. CASE ListenWait
    BY <1>10 DEF ListenWait, StartSucceeded, StartFailed
  <1>11. CASE DataStatus
    BY <1>11 DEF DataStatus, Invalidate
  <1>12. CASE Activate
    BY <1>12 DEF Activate
  <1>13. CASE Traffic
    BY <1>13 DEF Traffic
  <1>14. CASE TcpRead
    BY <1>14 DEF TcpRead
  <1>15. CASE TcpFrame
    BY <1>15 DEF TcpFrame
  <1>16. CASE CmdFlag
    BY <1>16 DEF CmdFlag
  <1>17. CASE Drain
    BY <1>17 DEF Drain
  <1>18. CASE TcpSend
    BY <1>18 DEF TcpSend
  <1>19. CASE UdpGet
    BY <1>19 DEF UdpGet
  <1>20. CASE UdpSend
    BY <1>20 DEF UdpSend
  <1> QED BY <1>1, <1>2, <1>2a, <1>3, <1>4, <1>5, <1>6, <1>7, <1>8, <1>9, <1>10, <1>11, <1>12,
        <1>13, <1>14, <1>15, <1>16, <1>17, <1>18, <1>19, <1>20 DEF EthernetStep

\* A frame that is received is announced.
LEMMA WakeEnvironment == CoreInv /\ Environment => WakeInv'
  <1> SUFFICES ASSUME CoreInv, Environment PROVE WakeInv' OBVIOUS
  <1> USE DEF CoreInv, WakeInv
  <1>1. CASE UartTxIsr
    BY <1>1 DEF UartTxIsr
  <1>2. CASE UartRxIsr
    BY <1>2 DEF UartRxIsr
  <1>3. CASE UartErrorIsr
    BY <1>3 DEF UartErrorIsr
  <1>4. CASE LineLoss
    BY <1>4 DEF LineLoss
  <1>5. CASE RemoteAnswer
    BY <1>5 DEF RemoteAnswer
  <1>6. CASE RemoteTelemetry
    BY <1>6 DEF RemoteTelemetry
  <1>7a. CASE ClientSyn
    BY <1>7a DEF ClientSyn
  <1>7. CASE ClientConnect
    BY <1>7 DEF ClientConnect
  <1>8. CASE ClientSend
    BY <1>8 DEF ClientSend
  <1>9. CASE ClientClose
    BY <1>9 DEF ClientClose
  <1>10. CASE ChipClosed
    BY <1>10 DEF ChipClosed
  <1>11. CASE LinkDown
    BY <1>11 DEF LinkDown
  <1>12. CASE LinkUp
    BY <1>12 DEF LinkUp
  <1>13. CASE RetryTimer
    BY <1>13 DEF RetryTimer
  <1> QED BY <1>1, <1>2, <1>3, <1>4, <1>5, <1>6, <1>7a, <1>7, <1>8, <1>9, <1>10, <1>11, <1>12,
        <1>13 DEF Environment

-----------------------------------------------------------------------------
(* The theorems.                                                           *)

\* The initial states satisfy the inductive invariant.
LEMMA CoreInit == Init => CoreInv
  <1> SUFFICES ASSUME Init PROVE CoreInv OBVIOUS
  <1> USE ConstantsAssumption DEF Init
  <1>1. TypeOK
    <2>1a. ChipType BY DEF ChipType, SockStates
    <2>1b. LinkType BY DEF LinkType, SockStates
    <2>1c. PassType
      <3>1. due \in BOOLEAN /\ ev \in BOOLEAN /\ budget \in Nat OBVIOUS
      <3>2. chunk \in Seq(Packet) OBVIOUS
      <3> QED BY <3>1, <3>2 DEF PassType
    <2>2a. epc \in EthPoints /\ eret \in EthPoints /\ rpc \in RsPoints
      BY DEF EthPoints, RsPoints
    <2>2b. flags \subseteq RsEvents OBVIOUS
    <2>2c. sessionActive \in BOOLEAN /\ eflag \in BOOLEAN OBVIOUS
    <2>2d. nf \in 0..MaxFaults OBVIOUS
    <2>2. PcType BY <2>2a, <2>2b, <2>2c, <2>2d DEF PcType
    <2>3. QueueType /\ LineType BY DEF QueueType, LineType
    <2>4. RsType /\ HistType BY DEF RsType, HistType, Seqs, NoDelivery
    <2> QED BY <2>1a, <2>1b, <2>1c, <2>2, <2>3, <2>4 DEF TypeOK
  <1>2. ReturnInv /\ BringupInv BY DEF ReturnInv, BringupInv
  <1>3. TxInv BY DEF TxInv
  <1>4. SessionInv /\ WakeInv BY DEF SessionInv, WakeInv
  <1> QED BY <1>1, <1>2, <1>3, <1>4 DEF CoreInv

\* Every step preserves the inductive invariant: each conjunct by the lemmas of
\* the actors that can disturb it, and because the others leave its state alone.
LEMMA CoreNext == CoreInv /\ [Next]_vars => CoreInv'
  <1> SUFFICES ASSUME CoreInv, [Next]_vars PROVE CoreInv' OBVIOUS
  <1>1. CASE Rs422Step
    <2>1. TypeOK' /\ BringupInv' /\ TxInv' /\ SessionInv' /\ WakeInv'
      BY <1>1, TypeRs422, BringupStep, TxRs422, SessionRs422, WakeRs422
    <2>2. ReturnInv' BY <1>1, Rs422Keeps DEF CoreInv, ReturnInv
    <2> QED BY <2>1, <2>2 DEF CoreInv
  <1>2. CASE EthernetStep
    <2>1. TypeOK' /\ ReturnInv' /\ SessionInv' /\ WakeInv'
      BY <1>2, TypeEthernet, ReturnStep, SessionEthernet, WakeEthernet
    <2>2. BringupInv' BY <1>2, EthernetKeeps DEF CoreInv, BringupInv
    <2>3. TxInv' BY <1>2, EthernetKeeps DEF CoreInv, TxInv, Rs422Blocked, RsBlocking
    <2> QED BY <2>1, <2>2, <2>3 DEF CoreInv
  <1>3. CASE Environment
    <2>1. TypeOK' /\ TxInv' /\ WakeInv'
      BY <1>3, TypeEnvironment, TxEnvironment, WakeEnvironment
    <2>2. ReturnInv' /\ BringupInv' BY <1>3, EnvironmentKeeps DEF CoreInv, ReturnInv, BringupInv
    <2>3. SessionInv' BY <1>3, EnvironmentKeeps DEF CoreInv, SessionInv
    <2> QED BY <2>1, <2>2, <2>3 DEF CoreInv
  <1>4. CASE UNCHANGED vars
    <2> USE <1>4 DEF vars, CoreInv
    <2>1. TypeOK'
      BY DEF TypeOK, ChipType, LinkType, PassType, PcType, QueueType, RsType, LineType,
             HistType
    <2>2. ReturnInv' /\ BringupInv' BY DEF ReturnInv, BringupInv
    <2>3. TxInv' BY DEF TxInv
    <2>4. SessionInv' /\ WakeInv' BY DEF SessionInv, WakeInv
    <2> QED BY <2>1, <2>2, <2>3, <2>4
  <1> QED BY <1>1, <1>2, <1>3, <1>4 DEF Next

\* The inductive invariant holds in every reachable state of the gateway.
THEOREM CoreInvariance == Spec => []CoreInv
  BY CoreInit, CoreNext, PTL DEF Spec

\* Every variable keeps its type; in particular no queue and no ring is ever longer
\* than its depth, whatever the depths, the traffic and the faults are.
THEOREM TypeCorrect == Spec => []TypeOK
  <1>1. CoreInv => TypeOK BY DEF CoreInv
  <1> QED BY <1>1, CoreInvariance, PTL

\* g_rs422_tx_frame is never written while UART4 shifts it out: neither a command
\* nor a bring-up test gets past g_rs422_tx_busy before TX_DONE has been seen.
THEOREM FrameStable == Spec => []TxFrameStable
  <1>1. CoreInv => TxFrameStable BY DEF CoreInv, TxInv, TxFrameStable
  <1> QED BY <1>1, CoreInvariance, PTL

\* No response and no pending PING of a TCP session outlives it, in any order of
\* connections, faults and RS-422 traffic.
THEOREM SessionsIsolated == Spec => []SessionIsolated
  <1>1. CoreInv => SessionIsolated BY DEF CoreInv, SessionInv, SessionIsolated
  <1> QED BY <1>1, CoreInvariance, PTL

\* RS422Task never sleeps in osWaitForever on a received frame, on an announced
\* command or on a UART that will not report.
THEOREM Rs422Wakes == Spec => []Rs422NotStuck
  <1>1. CoreInv => Rs422NotStuck BY DEF CoreInv, WakeInv, TxInv, Rs422NotStuck
  <1> QED BY <1>1, CoreInvariance, PTL

=============================================================================

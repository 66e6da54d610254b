------------------------ MODULE GatewayRoutingProofs ------------------------
(***************************************************************************)
(* Proofs about what Gateway does over several passes of its tasks, for    *)
(* every value of its constants: no response is slept on, no PING gives    *)
(* rise to two PONGs, telemetry keeps its order, and thereby the gateway   *)
(* implements GatewayService.  Each result has an invariant of its own     *)
(* beside CoreInv, which GatewayProofs establishes.                        *)
(***************************************************************************)
EXTENDS GatewayProofs, FiniteSetTheorems

USE DEF chipVars, linkVars, passVars, rsVars, lineVars, histVars, queueVars, ethVars,
        bootVars, rsFrame, ethFrame, ethLocal, startFrame, lineFrame, envFrame

-----------------------------------------------------------------------------
(* What each actor leaves alone, beyond the lemmas of GatewayProofs.       *)

\* RS422Task reads the ring and moves what it finds only in RsPop.
LEMMA Rs422Frame ==
    ASSUME Rs422Step
    PROVE  /\ UNCHANGED <<chipVars, ethVars, histVars, wireIn, tlm>>
           /\ RsPop \/ UNCHANGED <<respQ, udpQ, eflag, ring>>
  <1>1. CASE RsPop
    BY <1>1 DEF RsPop, RoutesToTcp
  <1>2. CASE BringupNext
    BY <1>2 DEF BringupNext, TestDone
  <1>3. CASE CmdGet
    BY <1>3 DEF CmdGet
  <1>4. CASE Forward
    BY <1>4 DEF Forward
  <1>5. CASE Transmit
    BY <1>5 DEF Transmit, TxFailed, TestDone, DropPending
  <1>6. CASE RxDone
    BY <1>6 DEF RxDone, TestDone, AfterTx, TestsAfterTx
  <1>7. CASE TxPoll
    BY <1>7 DEF TxPoll, TakeFlags, ContextReset, TxDone
  <1>8. CASE TxWake
    BY <1>8 DEF TxWake, AfterTx, TestsAfterTx, TakeFlags, ContextReset, TxDone
  <1>9. CASE TxTimeout
    BY <1>9 DEF TxTimeout, TxFailed, TestDone, DropPending
  <1>10. CASE PongWake
    BY <1>10 DEF PongWake, TakeFlags, ContextReset, TxDone
  <1>11. CASE PongTimeout
    BY <1>11 DEF PongTimeout, TestDone
  <1>12. CASE MainWake
    BY <1>12 DEF MainWake, TakeFlags, ContextReset, TxDone
  <1> QED BY <1>1, <1>2, <1>3, <1>4, <1>5, <1>6, <1>7, <1>8, <1>9, <1>10, <1>11, <1>12 DEF Rs422Step

\* The environment writes nothing of the tasks, and no response event.
LEMMA EnvironmentFrame ==
    ASSUME Environment
    PROVE  UNCHANGED <<epc, eret, sessionActive, passVars, linkUp, sockStatus, eflag,
                       queueVars, rsVars, histVars>>
  <1>1. CASE UartTxIsr
    BY <1>1 DEF UartTxIsr
  <1>2. CASE UartRxIsr
    BY <1>2 DEF UartRxIsr
  <1>3. CASE UartErrorIsr
    BY <1>3 DEF UartErrorIsr
  <1>4. CASE LineLoss
    BY <1>4 DEF LineLoss
  <1>5. CASE RemoteAnswer
    BY <1>5 DEF RemoteAnswer
  <1>6. CASE RemoteTelemetry
    BY <1>6 DEF RemoteTelemetry
  <1>7. CASE ClientSyn
    BY <1>7 DEF ClientSyn
  <1>8. CASE ClientConnect
    BY <1>8 DEF ClientConnect
  <1>9. CASE ClientSend
    BY <1>9 DEF ClientSend
  <1>10. CASE ClientClose
    BY <1>10 DEF ClientClose
  <1>11. CASE ChipClosed
    BY <1>11 DEF ChipClosed
  <1>12. CASE LinkDown
    BY <1>12 DEF LinkDown
  <1>13. CASE LinkUp
    BY <1>13 DEF LinkUp
  <1>14. CASE RetryTimer
    BY <1>14 DEF RetryTimer
  <1> QED BY <1>1, <1>2, <1>3, <1>4, <1>5, <1>6, <1>7, <1>8, <1>9, <1>10, <1>11, <1>12,
        <1>13, <1>14 DEF Environment

-----------------------------------------------------------------------------
(* Responses and the event that announces them.                            *)

\* EthernetTask ends a session before its link or its socket is taken for lost.
LEMMA LinkEthernet == CoreInv /\ LinkInv /\ EthernetStep => LinkInv'
  <1> SUFFICES ASSUME CoreInv, LinkInv, EthernetStep PROVE LinkInv' OBVIOUS
  <1> USE DEF CoreInv, LinkInv, Unserved, ReturnInv, TypeOK, PcType
  <1>1. ASSUME NEW data \in BOOLEAN, NEW control \in BOOLEAN, EthWake(data, control)
        PROVE  LinkInv'
    BY <1>1 DEF EthWake
  <1>2. CASE EthBoot
    BY <1>2 DEF EthBoot
  <1>3. CASE UdpOpen
    BY <1>3 DEF UdpOpen
  <1>4. CASE CtlPhy
    BY <1>4 DEF CtlPhy, Invalidate
  <1>5. CASE CtlSock
    BY <1>5
      DEF CtlSock, CtlIdle, CtlHealthy, CtlRestart, CtlDisconnect, CtlTransientTimeout,
        CtlStart, Invalidate
  <1>6. CASE InvFlag
    BY <1>6 DEF InvFlag
  <1>7. CASE Discard
    BY <1>7 DEF Discard
  <1>8. CASE SockClose
    BY <1>8 DEF SockClose
  <1>9. CASE SockOpen
    BY <1>9 DEF SockOpen, StartFailed
  <1>10. CASE SockListen
    BY <1>10 DEF SockListen, StartFailed
  <1>11. CASE ListenWait
    BY <1>11 DEF ListenWait, StartSucceeded, StartFailed
  <1>12. CASE DataStatus
    BY <1>12 DEF DataStatus, Invalidate
  <1>13. CASE Activate
    BY <1>13 DEF Activate
  <1>14. CASE Traffic
    BY <1>14 DEF Traffic
  <1>15. CASE TcpRead
    BY <1>15 DEF TcpRead
  <1>16. CASE TcpFrame
    BY <1>16 DEF TcpFrame
  <1>17. CASE CmdFlag
    BY <1>17 DEF CmdFlag
  <1>18. CASE Drain
    BY <1>18 DEF Drain
  <1>19. CASE TcpSend
    BY <1>19 DEF TcpSend
  <1>20. CASE UdpGet
    BY <1>20 DEF UdpGet
  <1>21. CASE UdpSend
    BY <1>21 DEF UdpSend
  <1> QED BY <1>1, <1>2, <1>3, <1>4, <1>5, <1>6, <1>7, <1>8, <1>9, <1>10, <1>11, <1>12,
        <1>13, <1>14, <1>15, <1>16, <1>17, <1>18, <1>19, <1>20, <1>21 DEF EthernetStep

\* A response that EthernetTask leaves in the queue has its event set again.
LEMMA RespEthernet == CoreInv /\ LinkInv /\ RespInv /\ EthernetStep => RespInv'
  <1> SUFFICES ASSUME CoreInv, LinkInv, RespInv, EthernetStep PROVE RespInv' OBVIOUS
  <1> USE ConstantsAssumption
      DEF CoreInv, LinkInv, Unserved, RespInv, ReturnInv, SessionInv, TypeOK, PassType, QueueType,
          PcType
  <1>1. ASSUME NEW data \in BOOLEAN, NEW control \in BOOLEAN, EthWake(data, control)
        PROVE  RespInv'
    BY <1>1 DEF EthWake
  <1>2. CASE EthBoot
    BY <1>2 DEF EthBoot
  <1>3. CASE UdpOpen
    BY <1>3 DEF UdpOpen
  <1>4. CASE CtlPhy
    BY <1>4 DEF CtlPhy, Invalidate
  <1>5. CASE CtlSock
    BY <1>5
      DEF CtlSock, CtlIdle, CtlHealthy, CtlRestart, CtlDisconnect, CtlTransientTimeout,
        CtlStart, Invalidate
  <1>6. CASE InvFlag
    BY <1>6 DEF InvFlag
  <1>7. CASE Discard
    BY <1>7 DEF Discard
  <1>8. CASE SockClose
    BY <1>8 DEF SockClose
  <1>9. CASE SockOpen
    BY <1>9 DEF SockOpen, StartFailed
  <1>10. CASE SockListen
    BY <1>10 DEF SockListen, StartFailed
  <1>11. CASE ListenWait
    BY <1>11 DEF ListenWait, StartSucceeded, StartFailed
  <1>12. CASE DataStatus
    BY <1>12 DEF DataStatus, Invalidate
  <1>13. CASE Activate
    BY <1>13 DEF Activate
  <1>14. CASE Traffic
    BY <1>14 DEF Traffic
  <1>15. CASE TcpRead
    BY <1>15 DEF TcpRead
  <1>16. CASE TcpFrame
    BY <1>16 DEF TcpFrame
  <1>17. CASE CmdFlag
    BY <1>17 DEF CmdFlag
  <1>18. CASE Drain
    BY <1>18 DEF Drain
  <1>19. CASE TcpSend
    BY <1>19 DEF TcpSend
  <1>20. CASE UdpGet
    BY <1>20 DEF UdpGet
  <1>21. CASE UdpSend
    BY <1>21 DEF UdpSend
  <1> QED BY <1>1, <1>2, <1>3, <1>4, <1>5, <1>6, <1>7, <1>8, <1>9, <1>10, <1>11, <1>12,
        <1>13, <1>14, <1>15, <1>16, <1>17, <1>18, <1>19, <1>20, <1>21 DEF EthernetStep

\* RS422Task sets the event with every response that it puts into the queue.
LEMMA RespRs422 == CoreInv /\ RespInv /\ Rs422Step => RespInv'
  <1> SUFFICES ASSUME CoreInv, RespInv, Rs422Step PROVE RespInv' OBVIOUS
  <1>1. UNCHANGED ethVars BY Rs422Frame
  <1>2. CASE UNCHANGED <<respQ, eflag>> BY <1>1, <1>2 DEF RespInv
  <1>3. CASE RsPop
    <2>1. CASE Len(respQ) < RespDepth
      BY <1>1, <1>3, <2>1 DEF RsPop, CoreInv, TypeOK, PcType, RespInv
    <2>2. CASE ~(Len(respQ) < RespDepth)
      BY <1>1, <1>3, <2>2 DEF RsPop, Put, CoreInv, TypeOK, PcType, RespInv
    <2> QED BY <2>1, <2>2
  <1> QED BY <1>2, <1>3, Rs422Frame

-----------------------------------------------------------------------------
(* Every PING is in one place, and every PONG answers one.                 *)

\* What SMT needs to know of the numbers that PongInv adds up.
LEMMA CountType ==
    ASSUME NEW q \in Seq(Packet), NEW s
    PROVE  /\ IsFiniteSet({i \in 1..Len(q) : q[i].seq = s})
           /\ CountOf(q, s) \in Nat
  <1>1. IsFiniteSet(1..Len(q)) BY FS_Interval
  <1>2. {i \in 1..Len(q) : q[i].seq = s} \in SUBSET (1..Len(q)) OBVIOUS
  <1>3. IsFiniteSet({i \in 1..Len(q) : q[i].seq = s}) BY <1>1, <1>2, FS_Subset
  <1> QED BY <1>3, FS_CardinalityType DEF CountOf

\* An empty queue holds no packet of any SEQ.
LEMMA CountEmpty == ASSUME NEW s PROVE CountOf(<<>>, s) = 0
  <1>1. {i \in 1..Len(<<>>) : <<>>[i].seq = s} = {} OBVIOUS
  <1> QED BY <1>1, FS_EmptySet DEF CountOf

\* A packet put into a queue counts for its own SEQ.
LEMMA CountAppend ==
    ASSUME NEW q \in Seq(Packet), NEW p \in Packet, NEW s
    PROVE  CountOf(Append(q, p), s) = CountOf(q, s) + One(p.seq = s)
  <1> DEFINE S == {i \in 1..Len(q) : q[i].seq = s}
             T == {i \in 1..Len(Append(q, p)) : Append(q, p)[i].seq = s}
  <1>1. IsFiniteSet(S) /\ Cardinality(S) \in Nat BY CountType DEF CountOf
  <1>2. CASE p.seq = s
    <2>1. T = S \cup {Len(q) + 1} BY <1>2
    <2>2. Len(q) + 1 \notin S OBVIOUS
    <2>3. Cardinality(T) = Cardinality(S) + 1
      <3> HIDE DEF S, T
      <3> QED BY <1>1, <2>1, <2>2, FS_AddElement
    <2> QED BY <1>2, <2>3 DEF CountOf, One
  <1>3. CASE p.seq # s
    <2>1. T = S BY <1>3
    <2>2. Cardinality(T) = Cardinality(S) + 0
      <3> HIDE DEF S, T
      <3> QED BY <1>1, <2>1
    <2> QED BY <1>3, <2>2 DEF CountOf, One
  <1> QED BY <1>2, <1>3

\* A packet taken from a queue no longer counts.
LEMMA CountTail ==
    ASSUME NEW q \in Seq(Packet), q # <<>>, NEW s
    PROVE  CountOf(q, s) = CountOf(Tail(q), s) + One(Head(q).seq = s)
  <1> DEFINE S == {i \in 1..Len(q) : q[i].seq = s}
             T == {i \in 1..Len(Tail(q)) : Tail(q)[i].seq = s}
             f == [i \in T |-> i + 1]
  <1>0. Len(q) \in Nat \ {0} /\ Len(Tail(q)) = Len(q) - 1 /\ Tail(q) \in Seq(Packet)
    BY HeadTail
  <1>1. IsFiniteSet(S) /\ IsFiniteSet(T) /\ Cardinality(S) \in Nat /\ Cardinality(T) \in Nat
    BY <1>0, CountType DEF CountOf
  <1>2. \A i \in 1..Len(Tail(q)) : Tail(q)[i] = q[i + 1] BY <1>0
  <1>3. \A i \in T : i \in Nat /\ i + 1 \in S \ {1} BY <1>0, <1>2
  <1>4. \A i \in S \ {1} : i \in Nat /\ i - 1 \in T BY <1>0, <1>2
  <1>5. f \in Bijection(T, S \ {1})
    <2> HIDE DEF S, T
    <2>1. f \in [T -> S \ {1}] BY <1>3
    <2>2. \A i, j \in T : f[i] = f[j] => i = j BY <1>3
    <2>3. \A j \in S \ {1} : \E i \in T : f[i] = j
      <3> SUFFICES ASSUME NEW j \in S \ {1} PROVE \E i \in T : f[i] = j OBVIOUS
      <3>1. j - 1 \in T /\ j \in Nat BY <1>4
      <3>2. f[j - 1] = j BY <3>1
      <3> QED BY <3>1, <3>2
    <2> QED BY <2>1, <2>2, <2>3 DEF Bijection, Injection, Surjection, IsInjective
  <1>6. Cardinality(S \ {1}) = Cardinality(T)
    <2> HIDE DEF S, T, f
    <2> QED BY <1>1, <1>5, FS_Bijection DEF ExistsBijection
  <1>7. Cardinality(S \ {1}) = IF 1 \in S THEN Cardinality(S) - 1 ELSE Cardinality(S)
    <2> HIDE DEF S, T, f
    <2> QED BY <1>1, FS_RemoveElement
  <1>8. 1 \in S <=> Head(q).seq = s BY <1>0
  <1>9. Cardinality(S) = Cardinality(T) + One(Head(q).seq = s)
    <2> HIDE DEF S, T, f
    <2> QED BY <1>1, <1>6, <1>7, <1>8 DEF One
  <1> QED BY <1>9 DEF CountOf

\* RS422Task puts a PING into the state of the transmission in CmdGet and in Forward
\* only, and a response into the queue in RsPop only.
LEMMA Rs422Quiet ==
    ASSUME CoreInv, Rs422Step
    PROVE  \/ RsPop \/ CmdGet \/ Forward
           \/ /\ UNCHANGED <<respQ, cmdQ>> /\ rpc' # "fwd"
              /\ pending' => pending /\ pendingSeq' = pendingSeq
  <1> USE DEF CoreInv, TypeOK, RsType
  <1>1. CASE RsPop
    BY <1>1 DEF RsPop, RoutesToTcp
  <1>2. CASE BringupNext
    BY <1>2 DEF BringupNext, TestDone
  <1>3. CASE CmdGet
    BY <1>3 DEF CmdGet
  <1>4. CASE Forward
    BY <1>4 DEF Forward
  <1>5. CASE Transmit
    BY <1>5 DEF Transmit, TxFailed, TestDone, DropPending
  <1>6. CASE RxDone
    BY <1>6 DEF RxDone, TestDone, AfterTx, TestsAfterTx
  <1>7. CASE TxPoll
    BY <1>7 DEF TxPoll, TakeFlags, ContextReset, TxDone
  <1>8. CASE TxWake
    BY <1>8 DEF TxWake, AfterTx, TestsAfterTx, TakeFlags, ContextReset, TxDone
  <1>9. CASE TxTimeout
    BY <1>9 DEF TxTimeout, TxFailed, TestDone, DropPending
  <1>10. CASE PongWake
    BY <1>10 DEF PongWake, TakeFlags, ContextReset, TxDone
  <1>11. CASE PongTimeout
    BY <1>11 DEF PongTimeout, TestDone
  <1>12. CASE MainWake
    BY <1>12 DEF MainWake, TakeFlags, ContextReset, TxDone
  <1> QED BY <1>1, <1>2, <1>3, <1>4, <1>5, <1>6, <1>7, <1>8, <1>9, <1>10, <1>11, <1>12 DEF Rs422Step

\* EthernetTask does not touch what belongs to RS422Task and the line, and it moves
\* PINGs, responses and telemetry in the steps named here only.
LEMMA EthernetFrame ==
    ASSUME CoreInv, EthernetStep
    PROVE  /\ UNCHANGED <<rsVars, lineVars>>
           /\ \/ TcpFrame \/ Discard \/ Drain \/ TcpSend
              \/ UNCHANGED <<respQ, cmdQ, asked, answered>> /\ epc' # "send"
           /\ \/ UdpGet \/ UdpSend
              \/ UNCHANGED <<udpQ, lastUdp>> /\ epc # "udp_send" /\ epc' # "udp_send"
  <1> USE DEF CoreInv, ReturnInv
  <1> DEFINE Moves == TcpFrame \/ Discard \/ Drain \/ TcpSend \/ UdpGet \/ UdpSend
             Kept  == /\ UNCHANGED <<rsVars, lineVars, respQ, cmdQ, asked, answered, udpQ, lastUdp>>
                      /\ epc # "udp_send" /\ epc' \notin {"send", "udp_send"}
  <1>0. CASE Moves
    <2>1. UNCHANGED <<rsVars, lineVars>>
      BY <1>0 DEF TcpFrame, Discard, Drain, TcpSend, UdpGet, UdpSend
    <2>2. TcpFrame \/ Discard \/ Drain \/ TcpSend =>
              UNCHANGED <<udpQ, lastUdp>> /\ epc # "udp_send" /\ epc' # "udp_send"
      BY DEF TcpFrame, Discard, Drain, TcpSend
    <2>3. UdpGet \/ UdpSend => UNCHANGED <<respQ, cmdQ, asked, answered>> /\ epc' # "send"
      BY DEF UdpGet, UdpSend
    <2> QED BY <1>0, <2>1, <2>2, <2>3
  <1>1. ASSUME NEW data \in BOOLEAN, NEW control \in BOOLEAN, EthWake(data, control)
        PROVE  Kept
    BY <1>1 DEF EthWake
  <1>2. ASSUME EthBoot PROVE Kept
    BY <1>2 DEF EthBoot
  <1>3. ASSUME UdpOpen PROVE Kept
    BY <1>3 DEF UdpOpen
  <1>4. ASSUME CtlPhy PROVE Kept
    BY <1>4 DEF CtlPhy, Invalidate
  <1>5. ASSUME CtlSock PROVE Kept
    BY <1>5
      DEF CtlSock, CtlIdle, CtlHealthy, CtlRestart, CtlDisconnect, CtlTransientTimeout,
        CtlStart, Invalidate
  <1>6. ASSUME InvFlag PROVE Kept
    BY <1>6 DEF InvFlag
  <1>7. ASSUME SockClose PROVE Kept
    BY <1>7 DEF SockClose
  <1>8. ASSUME SockOpen PROVE Kept
    BY <1>8 DEF SockOpen, StartFailed
  <1>9. ASSUME SockListen PROVE Kept
    BY <1>9 DEF SockListen, StartFailed
  <1>10. ASSUME ListenWait PROVE Kept
    BY <1>10 DEF ListenWait, StartSucceeded, StartFailed
  <1>11. ASSUME DataStatus PROVE Kept
    BY <1>11 DEF DataStatus, Invalidate
  <1>12. ASSUME Activate PROVE Kept
    BY <1>12 DEF Activate
  <1>13. ASSUME Traffic PROVE Kept
    BY <1>13 DEF Traffic
  <1>14. ASSUME TcpRead PROVE Kept
    BY <1>14 DEF TcpRead
  <1>15. ASSUME CmdFlag PROVE Kept
    BY <1>15 DEF CmdFlag
  <1> QED BY <1>0, <1>1, <1>2, <1>3, <1>4, <1>5, <1>6, <1>7, <1>8, <1>9, <1>10, <1>11, <1>12,
        <1>13, <1>14, <1>15 DEF EthernetStep

\* The numbers that PongInv adds up, for one SEQ.
LEMMA PongTypes ==
    ASSUME TypeOK, NEW s \in Seqs
    PROVE  /\ answered[s] \in Nat /\ asked[s] \in Nat
           /\ CountOf(respQ, s) \in Nat /\ CountOf(cmdQ, s) \in Nat
  BY CountType DEF TypeOK, HistType, QueueType

\* RS422Task hands a PING on without doubling it.
LEMMA PongRs422 == CoreInv /\ PongInv /\ Rs422Step => PongInv'
  <1> SUFFICES ASSUME CoreInv, PongInv, Rs422Step, NEW s \in Seqs
               PROVE  (answered[s] + One(epc = "send" /\ epkt.seq = s) + CountOf(respQ, s)
                         + One(pending /\ pendingSeq = s)
                         + One(rpc = "fwd" /\ cmd.seq = s) + CountOf(cmdQ, s) <= asked[s])'
    BY DEF PongInv
  <1>1. answered[s] + One(epc = "send" /\ epkt.seq = s) + CountOf(respQ, s)
           + One(pending /\ pendingSeq = s)
           + One(rpc = "fwd" /\ cmd.seq = s) + CountOf(cmdQ, s) <= asked[s]
    BY DEF PongInv
  <1>2. /\ answered[s] \in Nat /\ asked[s] \in Nat
        /\ CountOf(respQ, s) \in Nat /\ CountOf(cmdQ, s) \in Nat
    BY PongTypes DEF CoreInv
  <1>3. UNCHANGED <<answered, asked, epc, epkt>> BY Rs422Frame
  <1>4. CASE RsPop
    <2>1. UNCHANGED <<cmdQ, rpc, cmd, pendingSeq>> BY <1>4 DEF RsPop
    <2>2. CASE RoutesToTcp(Head(ring)) /\ Len(respQ) < RespDepth
      <3>1. respQ' = Append(respQ, Head(ring)) /\ ~pending' BY <1>4, <2>2 DEF RsPop, Put
      <3>2. Head(ring) \in Packet
        BY <1>4, HeadTail DEF RsPop, CoreInv, TypeOK, LineType
      <3>3. CountOf(respQ', s) = CountOf(respQ, s) + One(Head(ring).seq = s)
        BY <3>1, <3>2, CountAppend DEF CoreInv, TypeOK, QueueType
      <3>4. pending /\ Head(ring).seq = pendingSeq BY <2>2 DEF RoutesToTcp
      <3> QED BY <1>1, <1>2, <1>3, <2>1, <3>1, <3>3, <3>4 DEF One
    <2>3. CASE ~(RoutesToTcp(Head(ring)) /\ Len(respQ) < RespDepth)
      <3>1. respQ' = respQ /\ (pending' => pending) BY <1>4, <2>3 DEF RsPop, Put
      <3> QED BY <1>1, <1>2, <1>3, <2>1, <3>1 DEF One
    <2> QED BY <2>2, <2>3
  <1>5. CASE CmdGet
    <2>1. UNCHANGED <<respQ, pending, pendingSeq>> /\ rpc # "fwd" BY <1>5 DEF CmdGet
    <2>2. CASE cmdQ = <<>>
      <3>1. cmdQ' = cmdQ /\ rpc' # "fwd" BY <1>5, <2>2 DEF CmdGet
      <3> QED BY <1>1, <1>2, <1>3, <2>1, <3>1 DEF One
    <2>3. CASE cmdQ # <<>>
      <3>1. cmdQ' = Tail(cmdQ) /\ cmd' = Head(cmdQ) BY <1>5, <2>3 DEF CmdGet
      <3>2. CountOf(cmdQ, s) = CountOf(Tail(cmdQ), s) + One(Head(cmdQ).seq = s)
        BY <2>3, CountTail DEF CoreInv, TypeOK, QueueType
      <3>3. CountOf(Tail(cmdQ), s) \in Nat
        BY <2>3, CountType, HeadTail DEF CoreInv, TypeOK, QueueType
      <3> QED BY <1>1, <1>2, <1>3, <2>1, <3>1, <3>2, <3>3 DEF One
    <2> QED BY <2>2, <2>3
  <1>6. CASE Forward
    <2>1. UNCHANGED <<respQ, cmdQ>> /\ rpc = "fwd" /\ rpc' # "fwd" BY <1>6 DEF Forward
    <2>2. UNCHANGED <<pending, pendingSeq>> \/ (pending' /\ pendingSeq' = cmd.seq)
      BY <1>6 DEF Forward
    <2> QED BY <1>1, <1>2, <1>3, <2>1, <2>2 DEF One
  <1>7. CASE /\ UNCHANGED <<respQ, cmdQ>> /\ rpc' # "fwd"
             /\ pending' => pending /\ pendingSeq' = pendingSeq
    BY <1>1, <1>2, <1>3, <1>7 DEF One
  <1> QED BY <1>4, <1>5, <1>6, <1>7, Rs422Quiet

\* EthernetTask counts a PING when it queues it, and a PONG when it sends it.
LEMMA PongEthernet == CoreInv /\ PongInv /\ EthernetStep => PongInv'
  <1> SUFFICES ASSUME CoreInv, PongInv, EthernetStep, NEW s \in Seqs
               PROVE  (answered[s] + One(epc = "send" /\ epkt.seq = s) + CountOf(respQ, s)
                         + One(pending /\ pendingSeq = s)
                         + One(rpc = "fwd" /\ cmd.seq = s) + CountOf(cmdQ, s) <= asked[s])'
    BY DEF PongInv
  <1>1. answered[s] + One(epc = "send" /\ epkt.seq = s) + CountOf(respQ, s)
           + One(pending /\ pendingSeq = s)
           + One(rpc = "fwd" /\ cmd.seq = s) + CountOf(cmdQ, s) <= asked[s]
    BY DEF PongInv
  <1>2. /\ answered[s] \in Nat /\ asked[s] \in Nat
        /\ CountOf(respQ, s) \in Nat /\ CountOf(cmdQ, s) \in Nat
    BY PongTypes DEF CoreInv
  <1>3. UNCHANGED <<pending, pendingSeq, rpc, cmd>> BY EthernetFrame
  <1>4. respQ # <<>> => /\ CountOf(respQ, s) = CountOf(Tail(respQ), s) + One(Head(respQ).seq = s)
                        /\ CountOf(Tail(respQ), s) \in Nat
    BY CountTail, CountType, HeadTail DEF CoreInv, TypeOK, QueueType
  <1>5. CASE TcpFrame
    <2>1. UNCHANGED <<respQ, answered>> /\ epc # "send" /\ epc' # "send"
      BY <1>5 DEF TcpFrame
    <2>2. CASE UNCHANGED <<cmdQ, asked>>
      BY <1>1, <1>2, <1>3, <2>1, <2>2 DEF One
    <2>3. CASE ~ UNCHANGED <<cmdQ, asked>>
      <3>1. /\ chunk # <<>> /\ cmdQ' = Append(cmdQ, Head(chunk))
            /\ asked' = [asked EXCEPT ![Head(chunk).seq] = @ + 1]
        BY <1>5, <2>3 DEF TcpFrame
      <3>2. Head(chunk) \in Packet
        BY <3>1, HeadTail DEF CoreInv, TypeOK, PassType
      <3>3. CountOf(cmdQ', s) = CountOf(cmdQ, s) + One(Head(chunk).seq = s)
        BY <3>1, <3>2, CountAppend DEF CoreInv, TypeOK, QueueType
      <3>4. asked'[s] = asked[s] + One(Head(chunk).seq = s)
        BY <1>2, <3>1 DEF One, CoreInv, TypeOK, HistType
      <3> QED BY <1>1, <1>2, <1>3, <2>1, <3>3, <3>4 DEF One
    <2> QED BY <2>2, <2>3
  <1>6. CASE Discard
    <2>1. UNCHANGED <<cmdQ, asked, answered>> /\ epc # "send" BY <1>6 DEF Discard
    <2>2. epc' # "send" BY <1>6 DEF Discard, CoreInv, ReturnInv
    <2>3. respQ' = respQ \/ (respQ # <<>> /\ respQ' = Tail(respQ)) BY <1>6 DEF Discard
    <2>4. CASE respQ' = respQ BY <1>1, <1>2, <1>3, <2>1, <2>2, <2>4 DEF One
    <2>5. CASE respQ # <<>> /\ respQ' = Tail(respQ)
      <3>1. CountOf(respQ, s) >= CountOf(respQ', s) /\ CountOf(respQ', s) \in Nat
        BY <1>4, <2>5 DEF One
      <3> QED BY <1>1, <1>2, <1>3, <2>1, <2>2, <3>1 DEF One
    <2> QED BY <2>3, <2>4, <2>5
  <1>7. CASE Drain
    <2>1. UNCHANGED <<cmdQ, asked, answered>> /\ epc # "send" BY <1>7 DEF Drain
    <2>2. \/ respQ' = respQ /\ epc' # "send"
          \/ respQ # <<>> /\ respQ' = Tail(respQ) /\ epkt' = Head(respQ)
      BY <1>7 DEF Drain
    <2>3. CASE respQ' = respQ /\ epc' # "send" BY <1>1, <1>2, <1>3, <2>1, <2>3 DEF One
    <2>4. CASE respQ # <<>> /\ respQ' = Tail(respQ) /\ epkt' = Head(respQ)
      <3>1. /\ CountOf(respQ, s) = CountOf(respQ', s) + One(epkt'.seq = s)
            /\ CountOf(respQ', s) \in Nat
        BY <1>4, <2>4
      <3> QED BY <1>1, <1>2, <1>3, <2>1, <3>1 DEF One
    <2> QED BY <2>2, <2>3, <2>4
  <1>8. CASE TcpSend
    <2>1. UNCHANGED <<cmdQ, respQ, asked, epkt>> /\ epc = "send" /\ epc' # "send"
      BY <1>8 DEF TcpSend
    <2>2. UNCHANGED answered \/ answered' = [answered EXCEPT ![epkt.seq] = @ + 1]
      BY <1>8 DEF TcpSend
    <2>3. answered'[s] = answered[s] \/ answered'[s] = answered[s] + One(epkt.seq = s)
      BY <1>2, <2>2 DEF One, CoreInv, TypeOK, HistType
    <2> QED BY <1>1, <1>2, <1>3, <2>1, <2>3 DEF One
  <1>9. CASE UNCHANGED <<respQ, cmdQ, asked, answered>> /\ epc' # "send"
    BY <1>1, <1>2, <1>3, <1>9 DEF One
  <1> QED BY <1>5, <1>6, <1>7, <1>8, <1>9, EthernetFrame

-----------------------------------------------------------------------------
(* Telemetry keeps its order.                                              *)

\* What taking the head off a queue leaves.
LEMMA OrderTail ==
    ASSUME NEW q \in Seq(Packet), q # <<>>, Ascending(q),
           NEW low \in Nat, NEW high \in Nat, Within(q, low, high)
    PROVE  /\ Ascending(Tail(q)) /\ Within(Tail(q), low, high)
           /\ IsTlm(Head(q)) => Head(q).seq \in low + 1 .. high /\ Within(Tail(q), Head(q).seq, high)
           /\ \A i \in 1..Len(Tail(q)) : Tail(q)[i] = q[i + 1] /\ i + 1 \in 1..Len(q)
  <1>1. Len(q) \in Nat \ {0} /\ Len(Tail(q)) = Len(q) - 1 BY HeadTail
  <1>2. \A i \in 1..Len(Tail(q)) : Tail(q)[i] = q[i + 1] /\ i + 1 \in 1..Len(q) BY <1>1
  <1>3. Ascending(Tail(q)) BY <1>1, <1>2 DEF Ascending
  <1>4. Within(Tail(q), low, high) BY <1>1, <1>2 DEF Within
  <1>5. Head(q) = q[1] /\ 1 \in 1..Len(q) /\ q[1] \in Packet BY <1>1
  <1>6. ASSUME IsTlm(Head(q))
        PROVE  Head(q).seq \in low + 1 .. high /\ Within(Tail(q), Head(q).seq, high)
    <2>1. Head(q).seq \in low + 1 .. high BY <1>5, <1>6 DEF Within, Packet
    <2>2. ASSUME NEW i \in 1..Len(Tail(q)), IsTlm(Tail(q)[i])
          PROVE  Head(q).seq < Tail(q)[i].seq /\ Tail(q)[i].seq <= high
      <3>1. i + 1 \in 1..Len(q) /\ 1 < i + 1 /\ Tail(q)[i] = q[i + 1] BY <1>1, <1>2
      <3> QED BY <1>5, <1>6, <2>2, <3>1 DEF Ascending, Within
    <2> QED BY <2>1, <2>2 DEF Within
  <1> QED BY <1>2, <1>3, <1>4, <1>6

\* A queue behind another stays behind what is left of it, and what is left of it.
LEMMA PrecedesTail ==
    ASSUME NEW q \in Seq(Packet), NEW r \in Seq(Packet), Precedes(q, r)
    PROVE  /\ q # <<>> => Precedes(Tail(q), r)
           /\ r # <<>> => Precedes(q, Tail(r))
  <1>1. ASSUME q # <<>> PROVE Precedes(Tail(q), r)
    <2>1. \A i \in 1..Len(Tail(q)) : Tail(q)[i] = q[i + 1] /\ i + 1 \in 1..Len(q)
      BY <1>1, HeadTail
    <2> QED BY <2>1 DEF Precedes
  <1>2. ASSUME r # <<>> PROVE Precedes(q, Tail(r))
    <2>1. \A i \in 1..Len(Tail(r)) : Tail(r)[i] = r[i + 1] /\ i + 1 \in 1..Len(r)
      BY <1>2, HeadTail
    <2> QED BY <2>1 DEF Precedes
  <1> QED BY <1>1, <1>2

\* Moving the head of one queue to the end of the one before it keeps the order.
LEMMA OrderMove ==
    ASSUME NEW q \in Seq(Packet), NEW r \in Seq(Packet), r # <<>>,
           Ascending(q), Ascending(r), Precedes(q, r)
    PROVE  Ascending(Append(q, Head(r))) /\ Precedes(Append(q, Head(r)), Tail(r))
  <1> DEFINE a == Append(q, Head(r))
  <1>1. Len(q) \in Nat /\ Len(a) = Len(q) + 1 /\ a[Len(q) + 1] = Head(r) BY HeadTail
  <1>2. \A i \in 1..Len(a) : i = Len(q) + 1 \/ (i \in 1..Len(q) /\ a[i] = q[i]) BY HeadTail
  <1>3. Len(r) \in Nat \ {0} /\ Head(r) = r[1] /\ 1 \in 1..Len(r) BY HeadTail
  <1>4. \A i \in 1..Len(Tail(r)) : Tail(r)[i] = r[i + 1] /\ i + 1 \in 1..Len(r) /\ 1 < i + 1
    BY HeadTail
  <1> HIDE DEF a
  <1>5. Ascending(a)
    <2> SUFFICES ASSUME NEW i \in 1..Len(a), NEW j \in 1..Len(a), i < j, IsTlm(a[i]), IsTlm(a[j])
                 PROVE  a[i].seq < a[j].seq
      BY DEF Ascending
    <2>1. i \in 1..Len(q) /\ a[i] = q[i] BY <1>1, <1>2
    <2>2. CASE j \in 1..Len(q) /\ a[j] = q[j] BY <2>1, <2>2 DEF Ascending
    <2>3. CASE j = Len(q) + 1 BY <1>1, <1>3, <2>1, <2>3 DEF Precedes
    <2> QED BY <1>2, <2>2, <2>3
  <1>6. Precedes(a, Tail(r))
    <2> SUFFICES ASSUME NEW i \in 1..Len(a), NEW j \in 1..Len(Tail(r)),
                        IsTlm(a[i]), IsTlm(Tail(r)[j])
                 PROVE  a[i].seq < Tail(r)[j].seq
      BY DEF Precedes
    <2>1. CASE i \in 1..Len(q) /\ a[i] = q[i] BY <1>4, <2>1 DEF Precedes
    <2>2. CASE i = Len(q) + 1 BY <1>1, <1>3, <1>4, <2>2 DEF Ascending
    <2> QED BY <1>2, <2>1, <2>2
  <1> QED BY <1>5, <1>6 DEF a

\* Appending a packet that comes after all of a queue, or is no telemetry.
LEMMA OrderAppend ==
    ASSUME NEW q \in Seq(Packet), NEW p \in Packet, NEW low \in Nat, NEW high \in Nat,
           NEW top \in Nat, high <= top, Ascending(q), Within(q, low, high),
           IsTlm(p) => high < p.seq /\ low < p.seq /\ p.seq <= top
    PROVE  Ascending(Append(q, p)) /\ Within(Append(q, p), low, top)
  <1> DEFINE a == Append(q, p)
  <1>1. Len(q) \in Nat /\ Len(a) = Len(q) + 1 /\ a[Len(q) + 1] = p OBVIOUS
  <1>2. \A i \in 1..Len(a) : i = Len(q) + 1 \/ (i \in 1..Len(q) /\ a[i] = q[i]) OBVIOUS
  <1>3. \A i \in 1..Len(q) : q[i].seq \in Nat
    <2>1. \A i \in 1..Len(q) : q[i] \in Packet OBVIOUS
    <2> QED BY <2>1 DEF Packet
  <1> HIDE DEF a
  <1>4. Within(a, low, top)
    <2> SUFFICES ASSUME NEW i \in 1..Len(a), IsTlm(a[i]) PROVE low < a[i].seq /\ a[i].seq <= top
      BY DEF Within
    <2>1. CASE i \in 1..Len(q) /\ a[i] = q[i] BY <1>3, <2>1 DEF Within
    <2>2. CASE i = Len(q) + 1 BY <1>1, <2>2
    <2> QED BY <1>2, <2>1, <2>2
  <1>5. Ascending(a)
    <2> SUFFICES ASSUME NEW i \in 1..Len(a), NEW j \in 1..Len(a), i < j, IsTlm(a[i]), IsTlm(a[j])
                 PROVE  a[i].seq < a[j].seq
      BY DEF Ascending
    <2>1. i \in 1..Len(q) /\ a[i] = q[i] BY <1>1, <1>2
    <2>2. CASE j \in 1..Len(q) /\ a[j] = q[j] BY <2>1, <2>2 DEF Ascending
    <2>3. CASE j = Len(q) + 1
      <3>1. q[i].seq <= high /\ q[i].seq \in Nat /\ p.seq \in Nat
        BY <1>3, <2>1 DEF Within, Packet
      <3> QED BY <1>1, <2>1, <2>3, <3>1
    <2> QED BY <1>2, <2>2, <2>3
  <1> QED BY <1>4, <1>5 DEF a

\* Bounds that hold for all the telemetry of a queue hold further out.
LEMMA WithinWider ==
    ASSUME NEW q \in Seq(Packet), NEW low \in Nat, NEW high \in Nat, Within(q, low, high),
           NEW bottom \in Nat, NEW top \in Nat, bottom <= low, high <= top
    PROVE  Within(q, bottom, top)
  <1>1. \A i \in 1..Len(q) : q[i].seq \in Nat
    <2>1. \A i \in 1..Len(q) : q[i] \in Packet OBVIOUS
    <2> QED BY <2>1 DEF Packet
  <1> QED BY <1>1 DEF Within

\* What comes behind a queue comes after its head.
LEMMA WithinBehind ==
    ASSUME NEW q \in Seq(Packet), q # <<>>, IsTlm(Head(q)), NEW r \in Seq(Packet),
           Precedes(q, r), NEW low \in Nat, NEW high \in Nat, Within(r, low, high)
    PROVE  Within(r, Head(q).seq, high)
  <1>1. Head(q) = q[1] /\ 1 \in 1..Len(q) BY HeadTail
  <1> QED BY <1>1 DEF Within, Precedes

\* The bounds of a queue, and its place among others, when it takes the head of the
\* next one.
LEMMA MoveKeeps ==
    ASSUME NEW q \in Seq(Packet), NEW r \in Seq(Packet), r # <<>>, NEW other \in Seq(Packet)
    PROVE  /\ \A low, high \in Nat : Within(q, low, high) /\ Within(r, low, high)
                  => Within(Append(q, Head(r)), low, high)
           /\ Precedes(q, other) /\ Precedes(r, other) => Precedes(Append(q, Head(r)), other)
           /\ Precedes(other, q) /\ Precedes(other, r) => Precedes(other, Append(q, Head(r)))
  <1> DEFINE a == Append(q, Head(r))
  <1>1. Len(q) \in Nat /\ Len(a) = Len(q) + 1 /\ a[Len(q) + 1] = Head(r) BY HeadTail
  <1>2. \A i \in 1..Len(a) : i = Len(q) + 1 \/ (i \in 1..Len(q) /\ a[i] = q[i]) BY HeadTail
  <1>3. Head(r) = r[1] /\ 1 \in 1..Len(r) BY HeadTail
  <1>4. \A i \in 1..Len(a) : \/ i \in 1..Len(q) /\ a[i] = q[i]
                             \/ a[i] = r[1]
    BY <1>1, <1>2, <1>3
  <1> HIDE DEF a
  <1>5. ASSUME NEW low \in Nat, NEW high \in Nat, Within(q, low, high), Within(r, low, high)
        PROVE  Within(a, low, high)
    BY <1>3, <1>4, <1>5 DEF Within
  <1>6. ASSUME Precedes(q, other), Precedes(r, other) PROVE Precedes(a, other)
    BY <1>3, <1>4, <1>6 DEF Precedes
  <1>7. ASSUME Precedes(other, q), Precedes(other, r) PROVE Precedes(other, a)
    BY <1>3, <1>4, <1>7 DEF Precedes
  <1> QED BY <1>5, <1>6, <1>7 DEF a

\* A packet that comes after all of the queues before its own, or is no telemetry.
LEMMA PrecedesAppend ==
    ASSUME NEW q \in Seq(Packet), NEW r \in Seq(Packet), NEW p \in Packet, Precedes(q, r),
           NEW low \in Nat, NEW high \in Nat, Within(q, low, high), IsTlm(p) => high < p.seq
    PROVE  Precedes(q, Append(r, p))
  <1> DEFINE a == Append(r, p)
  <1>1. \A i \in 1..Len(a) : a[i] = p \/ (i \in 1..Len(r) /\ a[i] = r[i]) OBVIOUS
  <1>2. \A i \in 1..Len(q) : q[i].seq \in Nat
    <2>1. \A i \in 1..Len(q) : q[i] \in Packet OBVIOUS
    <2> QED BY <2>1 DEF Packet
  <1>3. p.seq \in Nat BY DEF Packet
  <1> HIDE DEF a
  <1>4. Precedes(q, a)
    <2> SUFFICES ASSUME NEW i \in 1..Len(q), NEW j \in 1..Len(a), IsTlm(q[i]), IsTlm(a[j])
                 PROVE  q[i].seq < a[j].seq
      BY DEF Precedes
    <2>1. CASE j \in 1..Len(r) /\ a[j] = r[j] BY <2>1 DEF Precedes
    <2>2. CASE a[j] = p BY <1>2, <1>3, <2>2 DEF Within
    <2> QED BY <1>1, <2>1, <2>2
  <1> QED BY <1>4 DEF a

\* The facts about types that the steps below need.
LEMMA OrderTypes ==
    ASSUME CoreInv, OrderInv
    PROVE  /\ udpQ \in Seq(Packet) /\ ring \in Seq(Packet) /\ wireIn \in Seq(Packet)
           /\ LastTaken \in Nat /\ lastUdp \in Nat /\ tlm \in Nat
  <1>1. tlm \in Nat BY ConstantsAssumption DEF CoreInv, TypeOK, LineType
  <1> QED BY <1>1 DEF CoreInv, TypeOK, LineType, QueueType, OrderInv

\* RS422Task takes the frame that was received first, and queues it last.
LEMMA OrderRs422 == CoreInv /\ OrderInv /\ Rs422Step => OrderInv'
  <1> SUFFICES ASSUME CoreInv, OrderInv, Rs422Step PROVE OrderInv' OBVIOUS
  <1>0. UNCHANGED <<wireIn, tlm, lastUdp, epkt, epc>> BY Rs422Frame
  <1>1. UNCHANGED LastTaken BY <1>0 DEF LastTaken
  <1>2. /\ udpQ \in Seq(Packet) /\ ring \in Seq(Packet) /\ wireIn \in Seq(Packet)
        /\ LastTaken \in Nat /\ lastUdp \in Nat /\ tlm \in Nat
    BY OrderTypes
  <1>3. CASE UNCHANGED <<udpQ, ring>> BY <1>0, <1>1, <1>3 DEF OrderInv
  <1>4. CASE RsPop
    <2>1. ring # <<>> /\ ring' = Tail(ring) BY <1>4 DEF RsPop
    <2>2. Ascending(ring') /\ Within(ring', LastTaken, tlm)
      BY <1>2, <2>1, OrderTail DEF OrderInv
    <2>3. Precedes(ring', wireIn) BY <1>2, <2>1, PrecedesTail DEF OrderInv
    <2>4. CASE udpQ' = udpQ
      <3>1. Precedes(udpQ, ring') BY <1>2, <2>1, PrecedesTail DEF OrderInv
      <3> QED BY <1>0, <1>1, <2>2, <2>3, <2>4, <3>1 DEF OrderInv
    <2>5. CASE udpQ' # udpQ
      <3>1. udpQ' = Append(udpQ, Head(ring)) /\ IsTlm(Head(ring))
        BY <1>4, <2>5 DEF RsPop, Put, IsTlm
      <3>2. Ascending(udpQ') /\ Precedes(udpQ', ring')
        BY <1>2, <2>1, <3>1, OrderMove DEF OrderInv
      <3>3. Within(udpQ', LastTaken, tlm) /\ Precedes(udpQ', wireIn)
        BY <1>2, <2>1, <3>1, MoveKeeps DEF OrderInv
      <3>4. \A i \in 1..Len(udpQ') : IsTlm(udpQ'[i])
        <4>1. Len(udpQ') = Len(udpQ) + 1 /\ udpQ'[Len(udpQ) + 1] = Head(ring)
          BY <1>2, <2>1, <3>1, HeadTail
        <4>2. \A i \in 1..Len(udpQ) : udpQ'[i] = udpQ[i] BY <1>2, <2>1, <3>1, HeadTail
        <4> QED BY <1>2, <3>1, <4>1, <4>2 DEF OrderInv
      <3> QED BY <1>0, <1>1, <2>2, <2>3, <3>2, <3>3, <3>4 DEF OrderInv
    <2> QED BY <2>4, <2>5
  <1> QED BY <1>3, <1>4, Rs422Frame

\* EthernetTask sends the telemetry that was queued first.
LEMMA OrderEthernet == CoreInv /\ OrderInv /\ EthernetStep => OrderInv'
  <1> SUFFICES ASSUME CoreInv, OrderInv, EthernetStep PROVE OrderInv' OBVIOUS
  <1>0. UNCHANGED <<ring, wireIn, tlm>> BY EthernetFrame
  <1>1. /\ udpQ \in Seq(Packet) /\ ring \in Seq(Packet) /\ wireIn \in Seq(Packet)
        /\ LastTaken \in Nat /\ lastUdp \in Nat /\ tlm \in Nat
    BY OrderTypes
  <1>2. CASE UNCHANGED <<udpQ, lastUdp>> /\ epc # "udp_send" /\ epc' # "udp_send"
    BY <1>0, <1>2 DEF OrderInv, LastTaken
  <1>3. CASE UdpGet
    <2>1. UNCHANGED lastUdp /\ epc # "udp_send" BY <1>3 DEF UdpGet
    <2>2. CASE UNCHANGED udpQ /\ epc' # "udp_send"
      BY <1>0, <2>1, <2>2 DEF OrderInv, LastTaken
    <2>3. CASE udpQ # <<>> /\ udpQ' = Tail(udpQ) /\ epkt' = Head(udpQ) /\ epc' = "udp_send"
      <3>1. IsTlm(Head(udpQ)) BY <1>1, <2>3, HeadTail DEF OrderInv
      <3>2. /\ Ascending(udpQ') /\ Within(udpQ', Head(udpQ).seq, tlm)
            /\ Head(udpQ).seq \in LastTaken + 1 .. tlm
            /\ \A i \in 1..Len(udpQ') : udpQ'[i] = udpQ[i + 1] /\ i + 1 \in 1..Len(udpQ)
        BY <1>1, <2>3, <3>1, OrderTail DEF OrderInv
      <3>3. LastTaken' = Head(udpQ).seq /\ LastTaken = lastUdp
        BY <2>1, <2>3 DEF LastTaken
      <3>4. Within(ring, Head(udpQ).seq, tlm) /\ Within(wireIn, Head(udpQ).seq, tlm)
        BY <1>1, <2>3, <3>1, WithinBehind DEF OrderInv
      <3>5. Precedes(udpQ', ring) /\ Precedes(udpQ', wireIn)
        BY <1>1, <2>3, PrecedesTail DEF OrderInv
      <3>6. \A i \in 1..Len(udpQ') : IsTlm(udpQ'[i]) BY <3>2 DEF OrderInv
      <3>7. LastTaken' \in 0..tlm /\ lastUdp < epkt'.seq BY <1>1, <2>3, <3>2, <3>3
      <3> QED BY <1>0, <2>1, <3>2, <3>3, <3>4, <3>5, <3>6, <3>7 DEF OrderInv
    <2> QED BY <1>3, <2>2, <2>3 DEF UdpGet
  <1>4. CASE UdpSend
    <2>1. UNCHANGED <<udpQ, epkt>> /\ epc = "udp_send" /\ epc' # "udp_send"
      BY <1>4 DEF UdpSend
    <2>2. LastTaken = epkt.seq /\ LastTaken' = lastUdp' /\ lastUdp < epkt.seq
      BY <2>1 DEF LastTaken, OrderInv
    <2>3. CASE lastUdp' = epkt.seq BY <1>0, <2>1, <2>2, <2>3 DEF OrderInv
    <2>4. CASE lastUdp' = lastUdp
      <3>1. /\ Within(udpQ, lastUdp, tlm) /\ Within(ring, lastUdp, tlm)
            /\ Within(wireIn, lastUdp, tlm)
        BY <1>1, <2>2, WithinWider DEF OrderInv
      <3> QED BY <1>0, <2>1, <2>2, <2>4, <3>1 DEF OrderInv
    <2> QED BY <1>4, <2>3, <2>4 DEF UdpSend
  <1> QED BY <1>2, <1>3, <1>4, EthernetFrame

\* The line delivers what the remote sent in order, and the ring refuses the newest.
LEMMA OrderEnvironment == CoreInv /\ OrderInv /\ Environment => OrderInv'
  <1> SUFFICES ASSUME CoreInv, OrderInv, Environment PROVE OrderInv' OBVIOUS
  <1>0. UNCHANGED <<udpQ, lastUdp, epkt, epc>> BY EnvironmentFrame
  <1>1. UNCHANGED LastTaken BY <1>0 DEF LastTaken
  <1>2. /\ udpQ \in Seq(Packet) /\ ring \in Seq(Packet) /\ wireIn \in Seq(Packet)
        /\ LastTaken \in Nat /\ lastUdp \in Nat /\ tlm \in Nat
    BY OrderTypes
  <1>3. CASE UNCHANGED <<ring, wireIn, tlm>> BY <1>0, <1>1, <1>3 DEF OrderInv
  <1>4. CASE UartRxIsr \/ UartErrorIsr
    <2>1. wireIn # <<>> /\ wireIn' = Tail(wireIn) /\ tlm' = tlm
      BY <1>4 DEF UartRxIsr, UartErrorIsr
    <2>2. Ascending(wireIn') /\ Within(wireIn', LastTaken, tlm)
      BY <1>2, <2>1, OrderTail DEF OrderInv
    <2>3. Precedes(udpQ, wireIn') BY <1>2, <2>1, PrecedesTail DEF OrderInv
    <2>4. CASE ring' = ring
      <3>1. Precedes(ring, wireIn') BY <1>2, <2>1, PrecedesTail DEF OrderInv
      <3> QED BY <1>0, <1>1, <2>1, <2>2, <2>3, <2>4, <3>1 DEF OrderInv
    <2>5. CASE ring' # ring
      <3>1. ring' = Append(ring, Head(wireIn))
        BY <1>4, <2>5 DEF UartRxIsr, UartErrorIsr, Put
      <3>2. Ascending(ring') /\ Precedes(ring', wireIn')
        BY <1>2, <2>1, <3>1, OrderMove DEF OrderInv
      <3>3. Within(ring', LastTaken, tlm) /\ Precedes(udpQ, ring')
        BY <1>2, <2>1, <3>1, MoveKeeps DEF OrderInv
      <3> QED BY <1>0, <1>1, <2>1, <2>2, <2>3, <3>2, <3>3 DEF OrderInv
    <2> QED BY <2>4, <2>5
  <1>5. CASE RemoteAnswer
    <2>0. wireOut \in Seq(Packet) /\ wireOut # <<>>
      BY <1>5 DEF RemoteAnswer, CoreInv, TypeOK, LineType
    <2> DEFINE p == RemoteReply(Head(wireOut))
    <2>1. p \in Packet BY <2>0, HeadTail, ReplyType
    <2>2. ~IsTlm(p)
      <3>1. Head(wireOut) \in Packet BY <2>0, HeadTail
      <3> QED BY <3>1 DEF RemoteReply, IsTlm, Packet
    <2>3. wireIn' = Append(wireIn, p) /\ UNCHANGED <<ring, tlm>> BY <1>5 DEF RemoteAnswer
    <2> HIDE DEF p
    <2>4. Ascending(wireIn') /\ Within(wireIn', LastTaken, tlm)
      BY <1>2, <2>1, <2>2, <2>3, OrderAppend DEF OrderInv
    <2>5. Precedes(udpQ, wireIn') /\ Precedes(ring, wireIn')
      BY <1>2, <2>1, <2>2, <2>3, PrecedesAppend DEF OrderInv
    <2> QED BY <1>0, <1>1, <2>3, <2>4, <2>5 DEF OrderInv
  <1>6. CASE RemoteTelemetry
    <2> DEFINE p == Pkt("TELEMETRY", tlm + 1, 0, 0)
    <2>1. p \in Packet /\ p.seq = tlm + 1 BY <1>2 DEF Pkt, Packet, MsgIds
    <2>2. wireIn' = Append(wireIn, p) /\ UNCHANGED ring /\ tlm' = tlm + 1
      BY <1>6 DEF RemoteTelemetry
    <2> HIDE DEF p
    <2>3. LastTaken <= tlm BY <1>2 DEF OrderInv
    <2>4. Ascending(wireIn') /\ Within(wireIn', LastTaken, tlm + 1)
      <3>1. LastTaken < p.seq /\ p.seq <= tlm + 1 /\ tlm < p.seq BY <1>2, <2>1, <2>3
      <3>2. tlm + 1 \in Nat /\ tlm <= tlm + 1 BY <1>2
      <3>3. Ascending(wireIn) /\ Within(wireIn, LastTaken, tlm) BY DEF OrderInv
      <3> QED BY <1>2, <2>1, <2>2, <3>1, <3>2, <3>3, OrderAppend
    <2>5. Precedes(udpQ, wireIn') /\ Precedes(ring, wireIn')
      <3>1. tlm < p.seq BY <1>2, <2>1
      <3> QED BY <1>2, <2>1, <2>2, <3>1, PrecedesAppend DEF OrderInv
    <2>6. Within(udpQ, LastTaken, tlm + 1) /\ Within(ring, LastTaken, tlm + 1)
      <3>1. tlm + 1 \in Nat /\ tlm <= tlm + 1 /\ LastTaken <= LastTaken BY <1>2
      <3> QED BY <1>2, <3>1, WithinWider DEF OrderInv
    <2>7. lastUdp' \in 0..tlm' /\ LastTaken' \in 0..tlm'
      BY <1>0, <1>1, <1>2, <2>2 DEF OrderInv
    <2> QED BY <1>0, <1>1, <2>2, <2>4, <2>5, <2>6, <2>7 DEF OrderInv
  <1>7. \/ UNCHANGED <<ring, wireIn, tlm>>
        \/ UartRxIsr \/ UartErrorIsr \/ RemoteAnswer \/ RemoteTelemetry
    BY DEF Environment, UartTxIsr, LineLoss, ClientSyn, ClientConnect, ClientSend,
        ClientClose, ChipClosed, LinkDown, LinkUp, RetryTimer
  <1> QED BY <1>3, <1>4, <1>5, <1>6, <1>7

-----------------------------------------------------------------------------
(* The way of a PING to the RS-422 line, and of its PONG back.             *)

\* Sequences over any set.
LEMMA SeqMoves ==
    ASSUME NEW S, NEW q \in Seq(S)
    PROVE  /\ <<>> \in Seq(S)
           /\ q # <<>> => Head(q) \in S /\ Tail(q) \in Seq(S)
           /\ \A e \in S : Append(q, e) \in Seq(S)
           /\ \A k \in 1..Len(q) : SubSeq(q, 1, k) \in Seq(S)
                                   /\ SubSeq(q, k + 1, Len(q)) \in Seq(S)
  OBVIOUS

\* What Requested and Pongs have in common with Packet.
LEMMA RequestedType ==
    /\ \A p \in Requested : p \in Packet /\ p.seq \in Seqs
    /\ \A p \in Pongs : p \in Requested /\ p.msg = "PONG"
    /\ \A p \in Packet : p.seq \in Seqs /\ p.msg = "PONG" => p \in Pongs
  BY DEF Requested, Pongs

\* RS422Task takes PINGs from the queue and queues PONGs that a client waits for.
LEMMA PathRs422 == CoreInv /\ PathInv /\ Rs422Step => PathInv'
  <1> SUFFICES ASSUME CoreInv, PathInv, Rs422Step PROVE PathInv' OBVIOUS
  <1>0. UNCHANGED <<rx0, chunk, epc, epkt>> BY Rs422Frame
  <1>1. CASE RsPop
    <2>1. UNCHANGED <<cmdQ, rpc, cmd, pendingSeq>> /\ (pending' => pending)
      BY <1>1 DEF RsPop, CoreInv, TypeOK, RsType
    <2>2. CASE respQ' = respQ BY <1>0, <2>1, <2>2 DEF PathInv
    <2>3. CASE respQ' # respQ
      <3>1. respQ' = Append(respQ, Head(ring)) /\ RoutesToTcp(Head(ring))
        BY <1>1, <2>3 DEF RsPop, Put
      <3>2. Head(ring) \in Packet BY <1>1, HeadTail DEF RsPop, CoreInv, TypeOK, LineType
      <3>3. Head(ring).seq \in Seqs /\ Head(ring).msg = "PONG"
        BY <3>1 DEF RoutesToTcp, PathInv
      <3>4. Head(ring) \in Pongs BY <3>2, <3>3, RequestedType
      <3>5. respQ' \in Seq(Pongs) BY <3>1, <3>4, SeqMoves DEF PathInv
      <3> QED BY <1>0, <2>1, <3>5 DEF PathInv
    <2> QED BY <2>2, <2>3
  <1>2. CASE CmdGet
    <2>1. UNCHANGED <<respQ, pending, pendingSeq>> BY <1>2 DEF CmdGet
    <2>2. CASE cmdQ = <<>>
      <3>1. cmdQ' = cmdQ /\ rpc' # "fwd" BY <1>2, <2>2 DEF CmdGet
      <3> QED BY <1>0, <2>1, <3>1 DEF PathInv
    <2>3. CASE cmdQ # <<>>
      <3>1. cmdQ' = Tail(cmdQ) /\ cmd' = Head(cmdQ) BY <1>2, <2>3 DEF CmdGet
      <3>2. cmdQ' \in Seq(Requested) /\ cmd' \in Requested
        BY <2>3, <3>1, SeqMoves DEF PathInv
      <3> QED BY <1>0, <2>1, <3>2 DEF PathInv
    <2> QED BY <2>2, <2>3
  <1>3. CASE Forward
    <2>1. UNCHANGED <<respQ, cmdQ>> /\ rpc = "fwd" /\ rpc' # "fwd" BY <1>3 DEF Forward
    <2>2. UNCHANGED <<pending, pendingSeq>> \/ pendingSeq' = cmd.seq BY <1>3 DEF Forward
    <2>3. cmd.seq \in Seqs BY <2>1, RequestedType DEF PathInv
    <2>4. pending' => pendingSeq' \in Seqs BY <2>2, <2>3 DEF PathInv
    <2> QED BY <1>0, <2>1, <2>4 DEF PathInv
  <1>4. CASE /\ UNCHANGED <<respQ, cmdQ>> /\ rpc' # "fwd"
             /\ pending' => pending /\ pendingSeq' = pendingSeq
    BY <1>0, <1>4 DEF PathInv
  <1> QED BY <1>1, <1>2, <1>3, <1>4, Rs422Quiet

\* The steps of EthernetTask that touch the receive buffer or what was read from it.
LEMMA ReadFrame ==
    ASSUME EthernetStep
    PROVE  TcpRead \/ TcpFrame \/ SockOpen \/ UNCHANGED <<rx0, chunk>>
  <1> DEFINE Goal == TcpRead \/ TcpFrame \/ SockOpen \/ UNCHANGED <<rx0, chunk>>
  <1>1. ASSUME NEW data \in BOOLEAN, NEW control \in BOOLEAN, EthWake(data, control) PROVE Goal
    BY <1>1 DEF EthWake
  <1>2. EthBoot \/ UdpOpen \/ CtlPhy \/ CtlSock \/ InvFlag \/ Discard => Goal
    BY DEF EthBoot, UdpOpen, CtlPhy, CtlSock, InvFlag, Discard
  <1>3. SockClose \/ SockListen \/ ListenWait \/ DataStatus \/ Activate \/ Traffic => Goal
    BY DEF SockClose, SockListen, ListenWait, DataStatus, Activate, Traffic
  <1>4. CmdFlag \/ Drain \/ TcpSend \/ UdpGet \/ UdpSend => Goal
    BY DEF CmdFlag, Drain, TcpSend, UdpGet, UdpSend
  <1> QED BY <1>1, <1>2, <1>3, <1>4 DEF EthernetStep

\* EthernetTask queues what it read, and takes PONGs from their queue.
LEMMA PathEthernet == CoreInv /\ PathInv /\ EthernetStep => PathInv'
  <1> SUFFICES ASSUME CoreInv, PathInv, EthernetStep PROVE PathInv' OBVIOUS
  <1>0. UNCHANGED <<pending, pendingSeq, rpc, cmd>> BY EthernetFrame
  <1>1. rx0' \in Seq(Requested)
    <2>1. CASE TcpRead
      <3>1. \/ rx0' = rx0
            \/ \E k \in 1..Len(rx0) : rx0' = SubSeq(rx0, k + 1, Len(rx0))
        BY <2>1 DEF TcpRead
      <3> QED BY <3>1, SeqMoves DEF PathInv
    <2>2. CASE SockOpen
      <3>1. rx0' = <<>> BY <2>2 DEF SockOpen
      <3> QED BY <3>1, SeqMoves DEF PathInv
    <2>3. CASE TcpFrame BY <2>3 DEF TcpFrame, PathInv
    <2>4. CASE UNCHANGED rx0 BY <2>4 DEF PathInv
    <2> QED BY <2>1, <2>2, <2>3, <2>4, ReadFrame
  <1>2. chunk' \in Seq(Requested)
    <2>1. CASE TcpRead
      <3>1. chunk' = chunk \/ \E k \in 1..Len(rx0) : chunk' = SubSeq(rx0, 1, k)
        BY <2>1 DEF TcpRead
      <3> QED BY <3>1, SeqMoves DEF PathInv
    <2>2. CASE SockOpen BY <2>2 DEF SockOpen, PathInv
    <2>3. CASE TcpFrame
      <3>1. chunk' = chunk \/ (chunk # <<>> /\ chunk' = Tail(chunk)) BY <2>3 DEF TcpFrame
      <3> QED BY <3>1, SeqMoves DEF PathInv
    <2>4. CASE UNCHANGED chunk BY <2>4 DEF PathInv
    <2> QED BY <2>1, <2>2, <2>3, <2>4, ReadFrame
  <1>3. cmdQ' \in Seq(Requested) /\ respQ' \in Seq(Pongs) /\ (epc' = "send" => epkt' \in Pongs)
    <2>1. CASE TcpFrame
      <3>1. UNCHANGED <<respQ, epkt>> /\ epc' # "send" BY <2>1 DEF TcpFrame
      <3>2. cmdQ' = cmdQ \/ (chunk # <<>> /\ cmdQ' = Append(cmdQ, Head(chunk)))
        BY <2>1 DEF TcpFrame
      <3>3. cmdQ' \in Seq(Requested) BY <3>2, SeqMoves DEF PathInv
      <3> QED BY <3>1, <3>3 DEF PathInv
    <2>2. CASE Discard
      <3>1. UNCHANGED <<cmdQ, epkt>> /\ epc' # "send" BY <2>2 DEF Discard, CoreInv, ReturnInv
      <3>2. respQ' = respQ \/ (respQ # <<>> /\ respQ' = Tail(respQ)) BY <2>2 DEF Discard
      <3>3. respQ' \in Seq(Pongs) BY <3>2, SeqMoves DEF PathInv
      <3> QED BY <3>1, <3>3 DEF PathInv
    <2>3. CASE Drain
      <3>1. \/ UNCHANGED <<cmdQ, respQ>> /\ epc' # "send"
            \/ /\ UNCHANGED cmdQ /\ respQ # <<>> /\ respQ' = Tail(respQ)
               /\ epkt' = Head(respQ)
        BY <2>3 DEF Drain
      <3> QED BY <3>1, SeqMoves DEF PathInv
    <2>4. CASE TcpSend BY <2>4 DEF TcpSend, PathInv
    <2>5. CASE UNCHANGED <<respQ, cmdQ, asked, answered>> /\ epc' # "send"
      BY <2>5 DEF PathInv
    <2> QED BY <2>1, <2>2, <2>3, <2>4, <2>5, EthernetFrame
  <1> QED BY <1>0, <1>1, <1>2, <1>3 DEF PathInv

\* The clients send packets with their own SEQs.
LEMMA PathEnvironment == CoreInv /\ PathInv /\ Environment => PathInv'
  <1> SUFFICES ASSUME CoreInv, PathInv, Environment PROVE PathInv' OBVIOUS
  <1>0. UNCHANGED <<chunk, cmdQ, rpc, cmd, pending, pendingSeq, respQ, epc, epkt>>
    BY EnvironmentFrame
  <1>1. rx0' \in Seq(Requested)
    <2>1. CASE ClientSend
      <3>1. PICK m \in ClientMsgs, s \in ClientSeqs, l \in ClientLens :
                rx0' = Append(rx0, Pkt(m, s, l, conn))
        BY <2>1 DEF ClientSend
      <3>2. conn \in Nat BY ConstantsAssumption DEF CoreInv, TypeOK, ChipType
      <3>3. Pkt(m, s, l, conn) \in Packet BY <3>2, ClientPacket
      <3>4. Pkt(m, s, l, conn).seq \in Seqs BY DEF Pkt, Seqs
      <3>5. Pkt(m, s, l, conn) \in Requested BY <3>3, <3>4 DEF Requested
      <3> QED BY <3>1, <3>5, SeqMoves DEF PathInv
    <2>2. UNCHANGED rx0 \/ ClientSend
      BY DEF Environment, UartTxIsr, UartRxIsr, UartErrorIsr, LineLoss, RemoteAnswer,
          RemoteTelemetry, ClientSyn, ClientConnect, ClientClose, ChipClosed, LinkDown,
          LinkUp, RetryTimer
    <2> QED BY <2>1, <2>2 DEF PathInv
  <1> QED BY <1>0, <1>1 DEF PathInv

-----------------------------------------------------------------------------
(* The theorems.                                                           *)

\* The initial states satisfy the whole inductive invariant.
LEMMA InvInit == Init => IInv
  <1> SUFFICES ASSUME Init PROVE IInv OBVIOUS
  <1>1. CoreInv BY CoreInit
  <1>2. LinkInv BY DEF Init, LinkInv
  <1>3. RespInv BY DEF Init, RespInv
  <1>4. PongInv
    <2>1. \A s \in Seqs : CountOf(<<>>, s) = 0 BY CountEmpty
    <2> QED BY <2>1 DEF Init, PongInv, One
  <1>5. OrderInv BY DEF Init, OrderInv, LastTaken, Ascending, Within, Precedes
  <1>6. PathInv BY SeqMoves DEF Init, PathInv
  <1> QED BY <1>1, <1>2, <1>3, <1>4, <1>5, <1>6 DEF IInv

\* Every step preserves it: each conjunct by the lemmas of the actors that can
\* disturb it.
LEMMA InvNext == IInv /\ [Next]_vars => IInv'
  <1> SUFFICES ASSUME IInv, [Next]_vars PROVE IInv' OBVIOUS
  <1>0. CoreInv' BY CoreNext DEF IInv
  <1>1. CASE Rs422Step
    <2>1. LinkInv' BY <1>1, Rs422Frame DEF IInv, LinkInv
    <2> QED BY <1>0, <1>1, <2>1, RespRs422, PongRs422, OrderRs422, PathRs422 DEF IInv
  <1>2. CASE EthernetStep
    BY <1>0, <1>2, LinkEthernet, RespEthernet, PongEthernet, OrderEthernet, PathEthernet
      DEF IInv
  <1>3. CASE Environment
    <2>1. LinkInv' BY <1>3, EnvironmentFrame DEF IInv, LinkInv
    <2>2. RespInv' BY <1>3, EnvironmentFrame DEF IInv, RespInv
    <2>3. PongInv' BY <1>3, EnvironmentFrame DEF IInv, PongInv
    <2> QED BY <1>0, <1>3, <2>1, <2>2, <2>3, OrderEnvironment, PathEnvironment DEF IInv
  <1>4. CASE UNCHANGED vars
    <2>1. LinkInv' BY <1>4 DEF vars, IInv, LinkInv
    <2>2. RespInv' BY <1>4 DEF vars, IInv, RespInv
    <2>3. PongInv' BY <1>4 DEF vars, IInv, PongInv
    <2>4. OrderInv' BY <1>4 DEF vars, IInv, OrderInv, LastTaken
    <2>5. PathInv' BY <1>4 DEF vars, IInv, PathInv
    <2> QED BY <1>0, <2>1, <2>2, <2>3, <2>4, <2>5 DEF IInv
  <1> QED BY <1>1, <1>2, <1>3, <1>4 DEF Next

\* The whole inductive invariant holds in every reachable state of the gateway,
\* whatever the depths of the queues, the traffic and the faults are.
THEOREM Invariance == Spec => []IInv
  BY InvInit, InvNext, PTL DEF Spec

\* Neither task ever sleeps on work that it would only find by looking: RS422Task as
\* Rs422Wakes says, EthernetTask because the event it took with a response stays in
\* force (ev, or a drain with budget enough) until the response is taken or discarded.
THEOREM NoWakeupLost == Spec => []NoLostWakeup
  <1>1. IInv => NoLostWakeup
    <2> SUFFICES ASSUME IInv PROVE NoLostWakeup OBVIOUS
    <2>1. Rs422NotStuck BY DEF IInv, CoreInv, WakeInv, TxInv, Rs422NotStuck
    <2>2. EthernetNotStuck
      BY DEF IInv, CoreInv, SessionInv, RespInv, EthernetNotStuck
    <2> QED BY <2>1, <2>2 DEF NoLostWakeup
  <1> QED BY <1>1, Invariance, PTL

\* The SEQ of the telemetry that w5500_udp_forward_packet sends only ever grows.
THEOREM TelemetryInOrder == Spec => UdpInOrder
  <1>1. IInv /\ [Next]_vars => [lastUdp' # lastUdp => lastUdp' > lastUdp]_vars
    <2> SUFFICES ASSUME IInv, Next, lastUdp' # lastUdp PROVE lastUdp' > lastUdp
      OBVIOUS
    <2>1. EthernetStep BY Rs422Frame, EnvironmentFrame DEF Next
    <2>2. UdpSend
      <3>1. UdpGet => UNCHANGED lastUdp BY DEF UdpGet
      <3> QED BY <2>1, <3>1, EthernetFrame DEF IInv
    <2>3. lastUdp' = epkt.seq /\ epc = "udp_send" BY <2>2 DEF UdpSend
    <2>4. lastUdp < epkt.seq BY <2>3 DEF IInv, OrderInv
    <2>5. lastUdp \in Nat /\ epkt.seq \in Nat
      BY <2>3, OrderTypes DEF IInv, LastTaken
    <2> QED BY <2>3, <2>4, <2>5
  <1> QED BY <1>1, Invariance, PTL DEF Spec, UdpInOrder

-----------------------------------------------------------------------------
(* The gateway implements GatewayService.                                  *)

\* The initial states map to initial states.
LEMMA ServiceInit == Init => Service!Init
  <1> SUFFICES ASSUME Init PROVE Service!Init OBVIOUS
  <1>1. [s \in Seqs |-> asked[s] - answered[s]] = [s \in Seqs |-> 0] BY DEF Init
  <1>2. lastTcp.pkt.msg = "NONE" /\ lastTcp.pkt.seq = 0 /\ tlm = 0 /\ lastUdp = 0
    BY DEF Init, NoDelivery, NoPkt
  <1> QED BY <1>1, <1>2 DEF Service!Init

\* The functions that owed is made of.
LEMMA OwedTypes ==
    ASSUME IInv PROVE asked \in [Seqs -> Nat] /\ answered \in [Seqs -> Nat]
  BY DEF IInv, CoreInv, TypeOK, HistType

\* Counting one more at one place of a function, and less of another.
LEMMA OwedMore ==
    ASSUME NEW S, NEW f \in [S -> Nat], NEW g \in [S -> Nat], NEW t \in S
    PROVE  /\ [s \in S |-> [f EXCEPT ![t] = @ + 1][s] - g[s]]
                = [[s \in S |-> f[s] - g[s]] EXCEPT ![t] = @ + 1]
           /\ [s \in S |-> f[s] - [g EXCEPT ![t] = @ + 1][s]]
                = [[s \in S |-> f[s] - g[s]] EXCEPT ![t] = @ - 1]
  <1>1. \A s \in S : f[s] \in Nat /\ g[s] \in Nat OBVIOUS
  <1>2. \A s \in S : [f EXCEPT ![t] = @ + 1][s] - g[s]
                       = IF s = t THEN (f[s] - g[s]) + 1 ELSE f[s] - g[s]
    BY <1>1
  <1>3. \A s \in S : f[s] - [g EXCEPT ![t] = @ + 1][s]
                       = IF s = t THEN (f[s] - g[s]) - 1 ELSE f[s] - g[s]
    BY <1>1
  <1>4. [[s \in S |-> f[s] - g[s]] EXCEPT ![t] = @ + 1]
          = [s \in S |-> IF s = t THEN (f[s] - g[s]) + 1 ELSE f[s] - g[s]]
    OBVIOUS
  <1>5. [[s \in S |-> f[s] - g[s]] EXCEPT ![t] = @ - 1]
          = [s \in S |-> IF s = t THEN (f[s] - g[s]) - 1 ELSE f[s] - g[s]]
    OBVIOUS
  <1> QED BY <1>2, <1>3, <1>4, <1>5

\* A step that changes nothing of what the users see.
LEMMA Unseen ==
    ASSUME UNCHANGED <<asked, answered, lastTcp, tlm, lastUdp>>
    PROVE  UNCHANGED Service!serviceVars
  BY DEF Service!serviceVars

\* A PING that enters the command queue is a request accepted.
LEMMA AcceptStep == ASSUME IInv, TcpFrame PROVE [Service!Next]_Service!serviceVars
  <1>1. UNCHANGED <<answered, lastTcp, tlm, lastUdp>> BY DEF TcpFrame
  <1>2. CASE UNCHANGED asked BY <1>1, <1>2, Unseen
  <1>3. CASE ~UNCHANGED asked
    <2>1. chunk # <<>> /\ asked' = [asked EXCEPT ![Head(chunk).seq] = @ + 1]
      BY <1>3 DEF TcpFrame
    <2>2. PICK t \in Seqs : t = Head(chunk).seq
      <3>1. Head(chunk) \in Requested BY <2>1, SeqMoves DEF IInv, PathInv
      <3> QED BY <3>1, RequestedType
    <2>3. [s \in Seqs |-> asked'[s] - answered'[s]]
            = [[s \in Seqs |-> asked[s] - answered[s]] EXCEPT ![t] = @ + 1]
      BY <1>1, <2>1, <2>2, OwedTypes, OwedMore
    <2>4. Service!Accept(t) BY <1>1, <2>3 DEF Service!Accept
    <2> QED BY <2>4 DEF Service!Next
  <1> QED BY <1>2, <1>3

\* A response that is sent is a PONG for a request that is owed one.
LEMMA AnswerStep == ASSUME IInv, TcpSend PROVE [Service!Next]_Service!serviceVars
  <1>1. UNCHANGED <<asked, tlm, lastUdp>> /\ epc = "send" BY DEF TcpSend
  <1>2. CASE UNCHANGED <<lastTcp, answered>> BY <1>1, <1>2, Unseen
  <1>3. CASE /\ lastTcp' = [conn |-> conn, pkt |-> epkt]
             /\ answered' = [answered EXCEPT ![epkt.seq] = @ + 1]
    <2>1. epkt.msg = "PONG" /\ epkt.seq \in Seqs
      BY <1>1, RequestedType DEF IInv, PathInv
    <2>2. PICK t \in Seqs : t = epkt.seq BY <2>1
    <2>3. asked[t] - answered[t] > 0
      <3>1. /\ answered[t] \in Nat /\ asked[t] \in Nat
            /\ CountOf(respQ, t) \in Nat /\ CountOf(cmdQ, t) \in Nat
        BY PongTypes DEF IInv, CoreInv
      <3>2. answered[t] + One(epc = "send" /\ epkt.seq = t) + CountOf(respQ, t)
               + One(pending /\ pendingSeq = t)
               + One(rpc = "fwd" /\ cmd.seq = t) + CountOf(cmdQ, t) <= asked[t]
        BY DEF IInv, PongInv
      <3> QED BY <1>1, <2>2, <3>1, <3>2 DEF One
    <2>4. [s \in Seqs |-> asked'[s] - answered'[s]]
            = [[s \in Seqs |-> asked[s] - answered[s]] EXCEPT ![t] = @ - 1]
      BY <1>1, <1>3, <2>2, OwedTypes, OwedMore
    <2>5. [s \in Seqs |-> asked[s] - answered[s]][t] > 0 BY <2>3
    <2>6. lastTcp'.pkt.msg = "PONG" /\ lastTcp'.pkt.seq = t BY <1>3, <2>1, <2>2
    <2>7. Service!Answer(t) BY <1>1, <2>4, <2>5, <2>6 DEF Service!Answer
    <2> QED BY <2>7 DEF Service!Next
  <1> QED BY <1>2, <1>3 DEF TcpSend

\* Telemetry that is sent on comes after the last one, and was sent by the remote node.
LEMMA ForwardStep == ASSUME IInv, UdpSend PROVE [Service!Next]_Service!serviceVars
  <1>1. UNCHANGED <<asked, answered, lastTcp, tlm>> /\ epc = "udp_send" BY DEF UdpSend
  <1>2. CASE UNCHANGED lastUdp BY <1>1, <1>2, Unseen
  <1>3. CASE lastUdp' = epkt.seq
    <2>1. epkt.seq \in 0..tlm /\ lastUdp < epkt.seq /\ lastUdp \in 0..tlm /\ tlm \in Nat
      BY <1>1, OrderTypes DEF IInv, OrderInv, LastTaken
    <2>2. lastUdp' \in (lastUdp + 1)..tlm BY <1>3, <2>1
    <2>3. Service!Forward BY <1>1, <2>2 DEF Service!Forward
    <2> QED BY <2>3 DEF Service!Next
  <1> QED BY <1>2, <1>3 DEF UdpSend

\* The other steps of EthernetTask do nothing that the users see.
LEMMA EthernetUnseen ==
    ASSUME EthernetStep
    PROVE  \/ TcpFrame \/ TcpSend \/ UdpSend
           \/ UNCHANGED <<asked, answered, lastTcp, tlm, lastUdp>>
  <1> DEFINE Goal == \/ TcpFrame \/ TcpSend \/ UdpSend
                     \/ UNCHANGED <<asked, answered, lastTcp, tlm, lastUdp>>
  <1>1. ASSUME NEW data \in BOOLEAN, NEW control \in BOOLEAN, EthWake(data, control) PROVE Goal
    BY <1>1 DEF EthWake
  <1>2. EthBoot \/ UdpOpen \/ CtlPhy \/ CtlSock \/ InvFlag \/ Discard => Goal
    BY DEF EthBoot, UdpOpen, CtlPhy, CtlSock, InvFlag, Discard
  <1>3. SockClose \/ SockOpen \/ SockListen \/ ListenWait \/ DataStatus \/ Activate => Goal
    BY DEF SockClose, SockOpen, SockListen, ListenWait, DataStatus, Activate
  <1>4. Traffic \/ TcpRead \/ CmdFlag \/ Drain \/ UdpGet => Goal
    BY DEF Traffic, TcpRead, CmdFlag, Drain, UdpGet
  <1> QED BY <1>1, <1>2, <1>3, <1>4 DEF EthernetStep

\* Every step of the gateway is a step of the service or changes nothing in it.
LEMMA ServiceNext == IInv /\ [Next]_vars => [Service!Next]_Service!serviceVars
  <1> SUFFICES ASSUME IInv, [Next]_vars PROVE [Service!Next]_Service!serviceVars OBVIOUS
  <1>1. CASE Rs422Step BY <1>1, Rs422Frame, Unseen
  <1>2. CASE EthernetStep
    BY <1>2, AcceptStep, AnswerStep, ForwardStep, EthernetUnseen, Unseen
  <1>3. CASE Environment
    <2>1. UNCHANGED <<asked, answered, lastTcp, lastUdp>> BY <1>3, EnvironmentFrame
    <2>2. CASE UNCHANGED tlm BY <2>1, <2>2, Unseen
    <2>3. CASE tlm' = tlm + 1
      <3>1. Service!Report BY <2>1, <2>3 DEF Service!Report
      <3> QED BY <3>1 DEF Service!Next
    <2>4. UNCHANGED tlm \/ tlm' = tlm + 1
      BY <1>3 DEF Environment, UartTxIsr, UartRxIsr, UartErrorIsr, LineLoss, RemoteAnswer,
          RemoteTelemetry, ClientSyn, ClientConnect, ClientSend, ClientClose, ChipClosed,
          LinkDown, LinkUp, RetryTimer
    <2> QED BY <2>2, <2>3, <2>4
  <1>4. CASE UNCHANGED vars BY <1>4, Unseen DEF vars
  <1> QED BY <1>1, <1>2, <1>3, <1>4 DEF Next

\* The gateway implements GatewayService: for every depth of the queues, any traffic and
\* any faults, a client gets a PONG only for a PING that was accepted and is still owed
\* one, and UDP gets only telemetry that was sent, once and in order.
THEOREM GatewayServes == Spec => ServiceKept
  <1>1. Spec => Service!Init /\ [][Service!Next]_Service!serviceVars
    BY Invariance, ServiceInit, ServiceNext, PTL DEF Spec
  <1> QED BY <1>1 DEF ServiceKept, Service!Spec

=============================================================================

------------------------------ MODULE Gateway ------------------------------
(***************************************************************************)
(* The routing core of the STM32G474 gateway (g474_gateway/Core/Src/main.c):*)
(* RS422Task, EthernetTask, the UART4 interrupts and the three message     *)
(* queues between them.                                                    *)
(*                                                                         *)
(* One core with preemptive priorities runs the tasks: RS422Task (High)    *)
(* preempts EthernetTask (Normal) as soon as it is ready, and interrupts   *)
(* preempt both.  EthernetTask therefore steps only while RS422Task is     *)
(* blocked in osThreadFlagsWait with no flag set (Rs422Blocked), and an    *)
(* interrupt may come between any two steps.  A step of EthernetTask is    *)
(* what it does between two accesses to state that RS422Task or the W5500  *)
(* shares.                                                                 *)
(*                                                                         *)
(* Frames are whole packets: framing and CRC are another concern.  The     *)
(* field tag is a history field: the TCP connection whose PING a packet is *)
(* or answers, 0 for packets that no TCP client caused.                    *)
(***************************************************************************)
EXTENDS Integers, Sequences, FiniteSets

CONSTANTS
    ClientSeqs,     \* SEQ values the TCP clients use
    ClientMsgs,     \* message IDs the TCP clients send
    ClientLens,     \* payload lengths the TCP clients send
    CmdDepth,       \* RS422_CMD_QUEUE_DEPTH
    RespDepth,      \* TCP_RESPONSE_QUEUE_DEPTH
    UdpDepth,       \* UDP_TELEMETRY_QUEUE_DEPTH
    UdpDrainLimit,  \* UDP_TELEMETRY_DRAIN_LIMIT
    RingCap,        \* capacity of the receive ring, in frames
    RxChunk,        \* frames that one read of the socket buffer may return
    BringupTests,   \* RS422_BRINGUP_TEST_COUNT
    Window,         \* requests a client leaves unanswered before it waits
    MaxConn,        \* bound: TCP connections of a behaviour
    MaxSent,        \* bound: packets the TCP clients send
    MaxTlm,         \* bound: telemetry packets the remote sends
    MaxFaults,      \* bound: faults of a behaviour, time-outs excepted
    Faults          \* kinds of fault the environment may inject

FaultKinds == {"timeout", "loss", "hal", "spi", "send", "close", "link"}

ASSUME ConstantsAssumption ==
    /\ ClientSeqs \subseteq Nat
    /\ ClientMsgs \subseteq {"PING", "READ_STATUS"}
    /\ ClientLens \subseteq Nat
    /\ CmdDepth \in Nat \ {0} /\ RespDepth \in Nat \ {0}
    /\ UdpDepth \in Nat \ {0} /\ UdpDrainLimit \in Nat \ {0}
    /\ RingCap \in Nat \ {0} /\ RxChunk \in Nat \ {0}
    /\ BringupTests \in Nat /\ Window \in Nat
    /\ MaxConn \in Nat /\ MaxSent \in Nat /\ MaxTlm \in Nat /\ MaxFaults \in Nat
    /\ Faults \subseteq FaultKinds

VARIABLES
    \* W5500 socket 0, the Ethernet link and the TCP clients
    sock,           \* Sn_SR of socket 0, as the chip holds it
    conn,           \* history: number of the current or last connection
    rx0,            \* packets waiting in the chip's receive buffer
    sent,           \* packets the clients have sent
    out,            \* packets of this connection with no response yet
    phy,            \* the physical link
    nf,             \* faults so far
    \* EthernetTask
    epc, eret,      \* control point, and where a subroutine returns to
    due, ev,        \* data_service_due and tcp_response_event
    budget,         \* iterations left to a bounded loop
    chunk, epkt,    \* packets read from the socket; packet taken from a queue
    linkUp,         \* g_w5500_link_up
    recovery,       \* g_w5500_tcp_recovery_pending
    restart,        \* tcp_lifecycle_restart_pending
    graceful,       \* graceful_disconnect_pending
    retryDue,       \* next_tcp_restart_tick has come
    spiOk,          \* g_w5500_socket0_spi_status = HAL_OK
    sessionActive,  \* g_w5500_tcp_session_active
    sockStatus,     \* g_w5500_socket0_status
    netOk,          \* g_w5500_net_config_ok and g_w5500_net_readback_ok
    udpOpen,        \* g_w5500_udp_open_ok
    eflag,          \* ETHERNET_EVENT_TCP_RESPONSE_READY
    \* the message queues
    cmdQ, respQ, udpQ,
    \* RS422Task
    rpc,            \* control point
    flags,          \* thread flags of RS422Task
    cmd,            \* packet being transmitted
    txFrame,        \* g_rs422_tx_frame
    txBusy,         \* g_rs422_tx_busy
    pending,        \* g_rs422_tcp_ping_pending
    pendingSeq,     \* g_rs422_tcp_ping_pending_seq
    matched,        \* matching_pong_received
    forwarding,     \* g_rs422_telemetry_forwarding_enabled
    tests,          \* g_rs422_test_total
    \* UART4, the RS-422 line and the remote node
    uart,           \* the frame UART4 is shifting out, or NoPkt
    ring,           \* g_rs422_rx_ring
    wireOut, wireIn,
    tlm,            \* telemetry packets the remote has sent
    \* history of what the properties are about
    asked,          \* PINGs put in the command queue, per SEQ
    answered,       \* PONGs delivered to TCP clients, per SEQ
    lastTcp,        \* last delivery to a TCP client
    lastUdp         \* SEQ of the last telemetry forwarded, 0 before any

chipVars  == <<sock, conn, rx0, sent, out, phy>>
linkVars  == <<linkUp, recovery, restart, graceful, retryDue, spiOk, sockStatus>>
bootVars  == <<netOk, udpOpen>>
passVars  == <<due, ev, budget, chunk, epkt>>
rsVars    == <<rpc, cmd, txFrame, txBusy, pending, pendingSeq, matched,
               forwarding, tests>>
lineVars  == <<uart, ring, wireOut, wireIn, tlm>>
histVars  == <<asked, answered, lastTcp, lastUdp>>
queueVars == <<cmdQ, respQ, udpQ>>
ethVars   == <<epc, eret, sessionActive, passVars, linkVars, bootVars>>
vars == <<chipVars, nf, ethVars, eflag, queueVars, rsVars, flags, lineVars, histVars>>

-----------------------------------------------------------------------------
MsgIds == {"PING", "PONG", "READ_STATUS", "STATUS_RESP", "TELEMETRY", "ERROR"}
Packet == [msg : MsgIds, seq : Nat, len : Nat, tag : Nat]
NoPkt  == [msg |-> "NONE", seq |-> 0, len |-> 0, tag |-> 0]
NoDelivery == [conn |-> 0, pkt |-> NoPkt]
Pkt(m, s, l, t) == [msg |-> m, seq |-> s, len |-> l, tag |-> t]

RsEvents == {"RX", "TX_DONE", "CMD_READY", "TCP_CONTEXT_RESET"}
SockStates == {"CLOSED", "INIT", "LISTEN", "SYNRECV", "ESTABLISHED", "CLOSE_WAIT",
               "LAST_ACK"}

\* Mutant: the queue has no limit.
PutUnbounded(q, depth, p) == Append(q, p)

\* Mutant: the new packet overtakes those that wait.
PutFirst(q, depth, p) == IF Len(q) < depth THEN <<p>> \o q ELSE q

\* osMessageQueuePut with timeout 0: a full queue refuses the new packet.
Put(q, depth, p) == IF Len(q) < depth THEN Append(q, p) ELSE q

\* SEQ values for which requests and responses are counted.
Seqs == ClientSeqs \cup 1..BringupTests

\* remote_node_handle_packet: what the remote node answers to a frame.
RemoteReply(p) ==
    [p EXCEPT !.msg = IF p.len # 0 THEN "ERROR"
                      ELSE IF p.msg = "PING" THEN "PONG" ELSE "STATUS_RESP",
              !.len = 0]

\* A fault of kind k happens now.
Fault(k) == k \in Faults /\ nf < MaxFaults /\ nf' = nf + 1
\* Or the step goes as the code means it to.
NoFault == nf' = nf

-----------------------------------------------------------------------------
(* Control points.  RS422Task drains the ring at every RxPoint.            *)

RxPoints    == {"main_rx", "post_rx", "tx_rx", "tx_last_rx", "pong_rx"}
MatchPoints == {"tx_rx", "tx_last_rx", "pong_rx"}
RsBlocking  == {"wait", "tx_block", "pong_block"}
RsPoints    == RxPoints \cup RsBlocking \cup {"bu_next", "cmd", "fwd", "xmit", "tx_poll"}
EthPoints   == {"boot", "udp_open", "wait", "ctl", "ctl_sock", "inv_flag", "discard", "close",
                "open", "listen", "listen_wait", "data", "activate", "traffic", "rx", "frame",
                "cmd_flag", "drain", "send", "udp", "udp_send"}

Rs422Blocked == rpc \in RsBlocking /\ flags = {}

Init ==
    /\ sock = "CLOSED" /\ conn = 0 /\ rx0 = <<>> /\ sent = 0 /\ out = 0
    /\ phy = TRUE /\ nf = 0
    /\ epc = "boot" /\ eret = "wait" /\ due = FALSE /\ ev = FALSE /\ budget = 0
    /\ chunk = <<>> /\ epkt = NoPkt
    /\ linkUp = FALSE /\ recovery = FALSE /\ restart = FALSE /\ graceful = FALSE
    /\ retryDue = TRUE /\ spiOk = FALSE
    /\ sessionActive = FALSE /\ sockStatus = "CLOSED" /\ eflag = FALSE
    /\ netOk = FALSE /\ udpOpen = FALSE
    /\ cmdQ = <<>> /\ respQ = <<>> /\ udpQ = <<>>
    /\ rpc = "bu_next" /\ flags = {} /\ cmd = NoPkt /\ txFrame = NoPkt
    /\ txBusy = FALSE /\ pending = FALSE /\ pendingSeq = 0 /\ matched = FALSE
    /\ forwarding = FALSE /\ tests = 0
    /\ uart = NoPkt /\ ring = <<>> /\ wireOut = <<>> /\ wireIn = <<>> /\ tlm = 0
    /\ asked = [s \in Seqs |-> 0] /\ answered = [s \in Seqs |-> 0]
    /\ lastTcp = NoDelivery /\ lastUdp = 0

-----------------------------------------------------------------------------
(* RS422Task: rs422_process_rx_buffer.                                     *)

\* Mutant: the SEQ alone decides.
RoutesBySeqOnly(p) == p.msg = "PONG" /\ sessionActive /\ p.seq = pendingSeq

\* The PONG answers the PING that a TCP client is waiting for.
RoutesToTcp(p) ==
    /\ p.msg = "PONG" /\ sessionActive
    /\ pending /\ p.seq = pendingSeq

\* One frame taken from the ring and dispatched.
RsPop ==
    /\ rpc \in RxPoints /\ ring # <<>>
    /\ LET p == Head(ring)
       IN /\ udpQ' = IF p.msg = "TELEMETRY" /\ forwarding
                     THEN Put(udpQ, UdpDepth, p) ELSE udpQ
          /\ matched' = (matched \/ (/\ rpc \in MatchPoints
                                     /\ p.msg = "PONG" /\ p.seq = cmd.seq))
          /\ IF RoutesToTcp(p)
             THEN /\ pending' = FALSE
                  /\ respQ' = Put(respQ, RespDepth, p)
                  /\ eflag' = (eflag \/ Len(respQ) < RespDepth)
             ELSE UNCHANGED <<pending, respQ, eflag>>
    /\ ring' = Tail(ring)
    /\ UNCHANGED <<chipVars, nf, ethVars, cmdQ, rpc, cmd, txFrame, txBusy, pendingSeq,
                   forwarding, tests, flags, uart, wireOut, wireIn, tlm, histVars>>

-----------------------------------------------------------------------------
(* RS422Task: thread flags, the transmit subroutine and its callers.       *)
(* The bring-up test calls it while forwarding is still disabled,          *)
(* rs422_forward_packet afterwards.                                        *)

rsFrame == <<chipVars, nf, ethVars, eflag, queueVars, lineVars, histVars>>

\* Mutant: the reset of the TCP context is ignored.
ContextKept(f) == UNCHANGED <<pending, pendingSeq>>

\* Mutant: a TX_DONE that comes after the time-out is ignored.
LateTxDoneIgnored(f) == txBusy' = (txBusy /\ ("TX_DONE" \notin f \/ rpc = "wait"))

\* rs422_handle_tcp_context_reset_event and rs422_handle_tx_done_event on the
\* flags that osThreadFlagsWait returned and cleared.
ContextReset(f) ==
    /\ pending' = (pending /\ "TCP_CONTEXT_RESET" \notin f)
    /\ pendingSeq' = IF "TCP_CONTEXT_RESET" \in f THEN 0 ELSE pendingSeq
TxDone(f) == txBusy' = (txBusy /\ "TX_DONE" \notin f)

TakeFlags ==
    /\ flags' = {}
    /\ ContextReset(flags)
    /\ TxDone(flags)

\* End of one bring-up test; end of rs422_forward_packet after a failure.
TestDone == rpc' = "bu_next" /\ tests' = tests + 1
DropPending == IF cmd.msg = "PING" THEN pending' = FALSE /\ pendingSeq' = 0
                                   ELSE UNCHANGED <<pending, pendingSeq>>

\* rs422_wait_for_tx_complete failed, or the UART refused the frame.
TxFailed ==
    IF forwarding
    THEN rpc' = "post_rx" /\ DropPending /\ UNCHANGED tests
    ELSE TestDone /\ UNCHANGED <<pending, pendingSeq>>

\* Mutant: rs422_forward_packet's caller waits at once.
AfterTxNoDrain == IF forwarding THEN "wait" ELSE IF matched THEN "bu_next" ELSE "pong_rx"

\* Where the caller continues once the frame is sent.
AfterTx == IF forwarding THEN "post_rx" ELSE IF matched THEN "bu_next" ELSE "pong_rx"
TestsAfterTx == IF ~forwarding /\ matched THEN tests + 1 ELSE tests

\* Mutant: the busy flag is not looked at.
NeverBusy == FALSE

\* The guard on g_rs422_tx_busy, which rs422_ping_bringup_test and
\* rs422_forward_packet share.
StillBusy == txBusy

\* The bring-up loop and the guards of rs422_ping_bringup_test.
BringupNext ==
    /\ rpc = "bu_next"
    /\ UNCHANGED <<rsFrame, pending, pendingSeq, matched, txBusy>>
    /\ \/ /\ tests = BringupTests
          /\ forwarding' = TRUE /\ rpc' = "main_rx"
          /\ UNCHANGED <<tests, cmd, txFrame, flags>>
       \/ /\ tests < BringupTests /\ StillBusy
          /\ TestDone
          /\ UNCHANGED <<forwarding, cmd, txFrame, flags>>
       \/ /\ tests < BringupTests /\ ~StillBusy
          /\ cmd' = Pkt("PING", tests + 1, 0, 0)
          /\ txFrame' = cmd'
          /\ flags' = flags \ {"TX_DONE"}
          /\ rpc' = "xmit"
          /\ UNCHANGED <<forwarding, tests>>

\* osMessageQueueGet on rs422_cmd_queue.
CmdGet ==
    /\ rpc = "cmd"
    /\ IF cmdQ = <<>>
       THEN rpc' = "wait" /\ UNCHANGED <<cmd, cmdQ>>
       ELSE rpc' = "fwd" /\ cmd' = Head(cmdQ) /\ cmdQ' = Tail(cmdQ)
    /\ UNCHANGED <<chipVars, nf, ethVars, eflag, respQ, udpQ, txFrame, txBusy, pending,
                   pendingSeq, matched, forwarding, tests, flags, lineVars, histVars>>

\* rs422_forward_packet up to the transmission.
Forward ==
    /\ rpc = "fwd"
    /\ \/ /\ StillBusy
          /\ rpc' = "post_rx"
          /\ UNCHANGED <<txFrame, flags, pending, pendingSeq>>
       \/ /\ ~StillBusy
          /\ txFrame' = cmd
          /\ flags' = flags \ {"TX_DONE"}
          /\ IF cmd.msg = "PING" /\ sessionActive
             THEN pending' = TRUE /\ pendingSeq' = cmd.seq
             ELSE UNCHANGED <<pending, pendingSeq>>
          /\ rpc' = "xmit"
    /\ UNCHANGED <<rsFrame, cmd, txBusy, matched, forwarding, tests>>

\* HAL_UART_Transmit_IT: it refuses while a transmission is under way.
Transmit ==
    /\ rpc = "xmit"
    /\ UNCHANGED <<chipVars, ethVars, eflag, queueVars, cmd, txFrame, forwarding, flags,
                   ring, wireOut, wireIn, tlm, histVars>>
    /\ \/ /\ uart = NoPkt /\ NoFault
          /\ uart' = txFrame /\ txBusy' = TRUE /\ matched' = FALSE /\ rpc' = "tx_rx"
          /\ UNCHANGED <<pending, pendingSeq, tests>>
       \/ /\ (uart # NoPkt /\ NoFault) \/ Fault("hal")
          /\ txBusy' = FALSE
          /\ TxFailed
          /\ UNCHANGED <<uart, matched>>

\* The ring is empty: go on from rs422_process_rx_buffer.
RxDone ==
    /\ rpc \in RxPoints /\ ring = <<>>
    /\ \/ /\ rpc \in {"main_rx", "post_rx"}
          /\ rpc' = "cmd" /\ UNCHANGED tests
       \/ /\ rpc = "tx_rx"
          /\ rpc' = "tx_poll" /\ UNCHANGED tests
       \/ /\ rpc = "tx_last_rx"
          /\ rpc' = AfterTx /\ tests' = TestsAfterTx
       \/ /\ rpc = "pong_rx"
          /\ IF matched THEN TestDone ELSE rpc' = "pong_block" /\ UNCHANGED tests
    /\ UNCHANGED <<rsFrame, cmd, txFrame, txBusy, pending, pendingSeq, matched,
                   forwarding, flags>>

\* The zero-timeout osThreadFlagsWait of rs422_wait_for_tx_complete.
TxPoll ==
    /\ rpc = "tx_poll"
    /\ TakeFlags
    /\ rpc' = IF txBusy' THEN "tx_block" ELSE "tx_last_rx"
    /\ UNCHANGED <<rsFrame, cmd, txFrame, matched, forwarding, tests>>

\* Its second, blocking wait returns flags.
TxWake ==
    /\ rpc = "tx_block" /\ flags # {}
    /\ TakeFlags
    /\ IF txBusy' THEN rpc' = "tx_rx" /\ UNCHANGED tests
                  ELSE rpc' = AfterTx /\ tests' = TestsAfterTx
    /\ UNCHANGED <<rsFrame, cmd, txFrame, matched, forwarding>>

\* RS422_BRINGUP_TX_TIMEOUT_MS passes first, before the wait or in it:
\* g_rs422_tx_busy stays set.
TxTimeout ==
    /\ "timeout" \in Faults
    /\ rpc = "tx_block"
    /\ TxFailed
    /\ UNCHANGED <<rsFrame, flags, cmd, txFrame, txBusy, matched, forwarding>>

\* The bring-up test waits for its PONG.
PongWake ==
    /\ rpc = "pong_block" /\ flags # {}
    /\ TakeFlags
    /\ rpc' = "pong_rx"
    /\ UNCHANGED <<rsFrame, cmd, txFrame, matched, forwarding, tests>>

PongTimeout ==
    /\ "timeout" \in Faults
    /\ rpc = "pong_block"
    /\ TestDone
    /\ UNCHANGED <<rsFrame, flags, cmd, txFrame, txBusy, pending, pendingSeq, matched,
                   forwarding>>

\* The osWaitForever of the main loop.
MainWake ==
    /\ rpc = "wait" /\ flags # {}
    /\ TakeFlags
    /\ rpc' = "main_rx"
    /\ UNCHANGED <<rsFrame, cmd, txFrame, matched, forwarding, tests>>

Rs422Step ==
    \/ RsPop \/ BringupNext \/ CmdGet \/ Forward \/ Transmit \/ RxDone
    \/ TxPoll \/ TxWake \/ TxTimeout \/ PongWake \/ PongTimeout \/ MainWake

-----------------------------------------------------------------------------
(* EthernetTask: the wait at the end of its loop, and the control plane.   *)

\* What no step of EthernetTask changes once it has started up.
ethFrame == <<rsVars, lineVars, bootVars>>
\* A step that leaves the chip, the queues and the deliveries alone.
ethLocal == <<chipVars, eflag, queueVars, flags, ethFrame, histVars>>

\* w5500_hardware_reset, the version check and the network configuration.  They are
\* not repeated: without them neither socket is ever opened.
EthBoot ==
    /\ epc = "boot" /\ Rs422Blocked
    /\ \/ NoFault /\ netOk' = TRUE /\ epc' = "open" /\ eret' = "udp_open"
       \/ Fault("spi") /\ epc' = "wait" /\ UNCHANGED <<netOk, eret>>
    /\ UNCHANGED <<chipVars, eflag, queueVars, flags, rsVars, lineVars, histVars,
                   sessionActive, passVars, linkVars, udpOpen>>

\* w5500_start_udp_socket, tried once.
UdpOpen ==
    /\ epc = "udp_open" /\ Rs422Blocked
    /\ \/ NoFault /\ udpOpen' = TRUE
       \/ Fault("spi") /\ UNCHANGED udpOpen
    /\ epc' = "wait"
    /\ UNCHANGED <<chipVars, eflag, queueVars, flags, rsVars, lineVars, histVars, eret,
                   sessionActive, passVars, linkVars, netOk>>

\* osThreadFlagsWait returns: a deadline (of the data or the control service)
\* has come, or RS422Task has set the event.
EthWake(data, control) ==
    /\ epc = "wait" /\ Rs422Blocked /\ NoFault
    /\ data \/ control \/ eflag
    /\ due' = data /\ ev' = eflag /\ eflag' = FALSE
    /\ epc' = IF control THEN "ctl" ELSE "data"
    /\ UNCHANGED <<chipVars, queueVars, flags, ethFrame, histVars, eret, sessionActive,
                   budget, chunk, epkt, linkVars>>

\* w5500_tcp_invalidate_connection_context begins; eret is where it returns to.
Invalidate(return) ==
    /\ sessionActive' = FALSE
    /\ epc' = "inv_flag" /\ eret' = return

\* The PHY part of the control service: link edges arm the recovery.
CtlPhy ==
    /\ epc = "ctl" /\ Rs422Blocked
    /\ \/ /\ NoFault /\ linkUp' = phy
          /\ IF linkUp /\ ~phy
             THEN /\ Invalidate("ctl_sock")
                  /\ recovery' = TRUE /\ restart' = FALSE /\ graceful' = FALSE
                  /\ UNCHANGED retryDue
             ELSE /\ epc' = "ctl_sock"
                  /\ retryDue' = (retryDue \/ (~linkUp /\ phy))
                  /\ UNCHANGED <<eret, sessionActive, recovery, restart, graceful>>
       \/ /\ Fault("spi") /\ epc' = "ctl_sock"
          /\ UNCHANGED <<eret, sessionActive, linkUp, recovery, restart, graceful,
                         retryDue>>
    /\ UNCHANGED <<ethLocal, passVars, spiOk, sockStatus>>

\* The switch on the cached socket status is reached.  (Its case INIT is not: a
\* socket is left in INIT only by a failed start, which makes restart true.)
SwitchReached == netOk /\ spiOk /\ linkUp /\ ~recovery /\ ~restart

\* w5500_tcp_is_transient_state, of the states that a server socket can be in, and
\* the disconnection that was asked for.
Transient == \/ sockStatus = "CLOSE_WAIT" /\ graceful
             \/ sockStatus \in {"SYNRECV", "LAST_ACK"}

\* The socket part of the control service has nothing to do.
CtlIdle ==
    /\ \/ ~netOk \/ ~spiOk \/ ~linkUp
       \/ (recovery \/ restart) /\ ~retryDue
       \/ SwitchReached /\ Transient
    /\ epc' = "data" /\ NoFault
    /\ UNCHANGED <<sock, eret, sessionActive, restart, graceful, retryDue, spiOk>>

\* ESTABLISHED or LISTEN: all is well.
CtlHealthy ==
    /\ SwitchReached /\ sockStatus \in {"ESTABLISHED", "LISTEN"}
    /\ graceful' = FALSE
    /\ epc' = "data" /\ NoFault
    /\ UNCHANGED <<sock, eret, sessionActive, restart, retryDue, spiOk>>

\* w5500_restart_tcp_server, for the link recovery or a lifecycle restart.
CtlRestart ==
    /\ netOk /\ spiOk /\ linkUp /\ (recovery \/ restart) /\ retryDue
    /\ Invalidate("close") /\ NoFault
    /\ UNCHANGED <<sock, restart, graceful, retryDue, spiOk>>

\* CLOSE_WAIT: DISCON, once.  The chip may have obeyed when the SPI fails.
CtlDisconnect ==
    /\ SwitchReached /\ sockStatus = "CLOSE_WAIT" /\ ~graceful
    /\ LET after == IF sock = "CLOSE_WAIT" THEN "LAST_ACK" ELSE sock
       IN \/ /\ NoFault /\ graceful' = TRUE /\ sock' = after
             /\ UNCHANGED <<restart, retryDue, spiOk>>
          \/ /\ Fault("spi") /\ sock' \in {sock, after}
             /\ restart' = TRUE /\ retryDue' = FALSE /\ spiOk' = FALSE
             /\ UNCHANGED graceful
    /\ epc' = "data"
    /\ UNCHANGED <<eret, sessionActive>>

\* A transient state outlives W5500_TCP_TRANSIENT_TIMEOUT_MS.
CtlTransientTimeout ==
    /\ "timeout" \in Faults
    /\ SwitchReached /\ Transient
    /\ restart' = TRUE /\ retryDue' = TRUE /\ graceful' = FALSE
    /\ epc' = "data" /\ NoFault
    /\ UNCHANGED <<sock, eret, sessionActive, spiOk>>

\* Mutant: a closed socket is left alone.
CtlNoStart ==
    /\ SwitchReached /\ sockStatus = "CLOSED"
    /\ epc' = "data" /\ NoFault
    /\ UNCHANGED <<sock, eret, sessionActive, restart, graceful, retryDue, spiOk>>

\* CLOSED: w5500_start_tcp_server.
CtlStart ==
    /\ SwitchReached /\ sockStatus = "CLOSED"
    /\ epc' = "open" /\ eret' = "start" /\ NoFault
    /\ UNCHANGED <<sock, sessionActive, restart, graceful, retryDue, spiOk>>

CtlSock ==
    /\ epc = "ctl_sock" /\ Rs422Blocked
    /\ \/ CtlIdle \/ CtlHealthy \/ CtlRestart \/ CtlDisconnect
       \/ CtlTransientTimeout \/ CtlStart
    /\ UNCHANGED <<conn, rx0, sent, out, phy, eflag, queueVars, flags, ethFrame,
                   histVars, passVars, linkUp, recovery, sockStatus>>

\* Rest of w5500_tcp_invalidate_connection_context: the flag to RS422Task ...
InvFlag ==
    /\ epc = "inv_flag" /\ Rs422Blocked /\ NoFault
    /\ flags' = flags \cup {"TCP_CONTEXT_RESET"}
    /\ epc' = "discard" /\ budget' = RespDepth
    /\ UNCHANGED <<chipVars, eflag, queueVars, ethFrame, histVars, eret, sessionActive,
                   due, ev, chunk, epkt, linkVars>>

\* ... then w5500_tcp_discard_stale_responses, one queue access a step.
Discard ==
    /\ epc = "discard" /\ Rs422Blocked /\ NoFault
    /\ IF budget = 0 \/ respQ = <<>>
       THEN epc' = eret /\ UNCHANGED <<respQ, budget>>
       ELSE respQ' = Tail(respQ) /\ budget' = budget - 1 /\ UNCHANGED epc
    /\ UNCHANGED <<chipVars, eflag, cmdQ, udpQ, flags, ethFrame, histVars, eret,
                   sessionActive, due, ev, chunk, epkt, linkVars>>

-----------------------------------------------------------------------------
(* EthernetTask: w5500_restart_tcp_server and w5500_start_tcp_server.      *)
(* eret tells the caller: "udp_open" at boot, "start" or "restart".            *)

\* The caller of a failed start tries again later.
StartFailed ==
    /\ spiOk' = FALSE
    /\ restart' = ~recovery
    /\ retryDue' = (retryDue /\ eret = "udp_open")
    /\ UNCHANGED <<recovery, graceful>>
    /\ CASE eret = "restart" -> epc' = "discard" /\ eret' = "data" /\ budget' = RespDepth
         [] eret = "start"   -> epc' = "data" /\ UNCHANGED <<eret, budget>>
         [] eret = "udp_open" -> epc' = eret /\ UNCHANGED <<eret, budget>>

StartSucceeded ==
    /\ spiOk' = TRUE
    /\ recovery' = FALSE /\ restart' = FALSE /\ graceful' = FALSE
    /\ UNCHANGED retryDue
    /\ IF eret = "udp_open" THEN epc' = eret /\ UNCHANGED <<eret, budget>>
       ELSE epc' = "discard" /\ eret' = "data" /\ budget' = RespDepth

\* What the steps below leave alone.
startFrame == <<conn, sent, out, phy, eflag, queueVars, flags, ethFrame, histVars,
                sessionActive, due, ev, chunk, epkt, linkUp>>

SockClose ==
    /\ epc = "close" /\ Rs422Blocked
    /\ \/ /\ NoFault /\ sock' = "CLOSED" /\ sockStatus' = "CLOSED" /\ spiOk' = TRUE
          /\ epc' = "open" /\ eret' = "restart"
          /\ UNCHANGED <<recovery, restart, graceful, retryDue, budget>>
       \/ /\ Fault("spi") /\ sock' \in {sock, "CLOSED"}
          /\ spiOk' = FALSE /\ retryDue' = FALSE
          /\ epc' = "discard" /\ eret' = "data" /\ budget' = RespDepth
          /\ UNCHANGED <<sockStatus, recovery, restart, graceful>>
    /\ UNCHANGED <<startFrame, rx0>>

\* OPEN empties the receive buffer.
SockOpen ==
    /\ epc = "open" /\ Rs422Blocked
    /\ \/ /\ NoFault /\ sock' = "INIT" /\ sockStatus' = "INIT" /\ spiOk' = TRUE
          /\ epc' = "listen"
          /\ UNCHANGED <<eret, recovery, restart, graceful, retryDue, budget>>
       \/ /\ Fault("spi") /\ sock' \in {sock, "INIT"} /\ StartFailed
          /\ UNCHANGED sockStatus
    /\ rx0' = <<>>
    /\ UNCHANGED startFrame

SockListen ==
    /\ epc = "listen" /\ Rs422Blocked
    /\ \/ /\ NoFault /\ sock' = "LISTEN" /\ spiOk' = TRUE
          /\ epc' = "listen_wait"
          /\ UNCHANGED <<eret, recovery, restart, graceful, retryDue, budget>>
       \/ /\ Fault("spi") /\ sock' \in {sock, "LISTEN"} /\ StartFailed
    /\ UNCHANGED <<startFrame, rx0, sockStatus>>

\* w5500_wait_for_socket0_status(LISTEN): a client that has connected before the
\* first poll makes it time out.
ListenWait ==
    /\ epc = "listen_wait" /\ Rs422Blocked /\ NoFault
    /\ sockStatus' = sock
    /\ IF sock = "LISTEN" THEN StartSucceeded ELSE StartFailed
    /\ UNCHANGED <<startFrame, sock, rx0>>

-----------------------------------------------------------------------------
(* EthernetTask: the data plane.                                           *)

\* The status register of socket 0 is read and the session follows it.
DataStatus ==
    /\ epc = "data" /\ Rs422Blocked
    /\ \/ /\ ~due \/ ~netOk \/ ~linkUp
          /\ NoFault /\ epc' = "traffic"
          /\ UNCHANGED <<eret, sessionActive, budget, graceful, spiOk, sockStatus>>
       \/ /\ due /\ netOk /\ linkUp /\ Fault("spi")
          /\ spiOk' = FALSE /\ epc' = "traffic"
          /\ UNCHANGED <<eret, sessionActive, budget, graceful, sockStatus>>
       \/ /\ due /\ netOk /\ linkUp /\ NoFault
          /\ spiOk' = TRUE /\ sockStatus' = sock
          /\ graceful' = (graceful /\ sock # "ESTABLISHED")
          /\ \/ /\ (sock = "ESTABLISHED") = sessionActive
                /\ epc' = "traffic" /\ UNCHANGED <<eret, sessionActive, budget>>
             \/ /\ sock = "ESTABLISHED" /\ ~sessionActive
                /\ epc' = "discard" /\ eret' = "activate" /\ budget' = RespDepth
                /\ UNCHANGED sessionActive
             \/ /\ sock # "ESTABLISHED" /\ sessionActive
                /\ Invalidate("traffic") /\ UNCHANGED budget
    /\ UNCHANGED <<ethLocal, due, ev, chunk, epkt, linkUp, recovery, restart, retryDue>>

Activate ==
    /\ epc = "activate" /\ Rs422Blocked /\ NoFault
    /\ sessionActive' = TRUE /\ epc' = "traffic"
    /\ UNCHANGED <<ethLocal, eret, passVars, linkVars>>

\* Is there TCP traffic to serve on this pass?
Traffic ==
    /\ epc = "traffic" /\ Rs422Blocked /\ NoFault
    /\ LET serve == /\ due \/ ev
                    /\ linkUp /\ sessionActive /\ sockStatus = "ESTABLISHED"
       IN /\ epc' = IF ~serve THEN "udp" ELSE IF due THEN "rx" ELSE "drain"
          /\ budget' = IF serve THEN RespDepth ELSE UdpDrainLimit
    /\ UNCHANGED <<ethLocal, eret, sessionActive, due, ev, chunk, epkt, linkVars>>

\* w5500_tcp_process_rx reads some of the received packets.
TcpRead ==
    /\ epc = "rx" /\ Rs422Blocked
    /\ \/ /\ (rx0 = <<>> /\ NoFault) \/ Fault("spi")
          /\ epc' = "drain" /\ UNCHANGED <<rx0, chunk>>
       \/ /\ NoFault
          /\ \E k \in 1..Len(rx0) :
                /\ k <= RxChunk
                /\ chunk' = SubSeq(rx0, 1, k)
                /\ rx0' = SubSeq(rx0, k + 1, Len(rx0))
          /\ epc' = "frame"
    /\ UNCHANGED <<sock, conn, sent, out, phy, eflag, queueVars, flags, ethFrame, histVars,
                   eret, sessionActive, due, ev, budget, epkt, linkVars>>

\* w5500_tcp_handle_valid_frame on the next packet read: only a PING is forwarded.
TcpFrame ==
    /\ epc = "frame" /\ Rs422Blocked /\ NoFault
    /\ \/ /\ chunk = <<>>
          /\ epc' = "drain" /\ UNCHANGED <<chunk, cmdQ, asked>>
       \/ /\ chunk # <<>>
          /\ chunk' = Tail(chunk)
          /\ IF Head(chunk).msg = "PING" /\ Len(cmdQ) < CmdDepth
             THEN /\ cmdQ' = Append(cmdQ, Head(chunk))
                  /\ asked' = [asked EXCEPT ![Head(chunk).seq] = @ + 1]
                  /\ epc' = "cmd_flag"
             ELSE UNCHANGED <<epc, cmdQ, asked>>
    /\ UNCHANGED <<chipVars, eflag, respQ, udpQ, flags, ethFrame, answered, lastTcp, lastUdp,
                   eret, sessionActive, due, ev, budget, epkt, linkVars>>

\* Mutant: the task that is to forward the PING is not told.
CmdNotFlagged ==
    /\ epc = "cmd_flag" /\ Rs422Blocked /\ NoFault
    /\ epc' = "frame"
    /\ UNCHANGED <<ethLocal, eret, sessionActive, passVars, linkVars>>

\* osThreadFlagsSet(RS422TaskHandle, RS422_EVENT_CMD_READY).
CmdFlag ==
    /\ epc = "cmd_flag" /\ Rs422Blocked /\ NoFault
    /\ flags' = flags \cup {"CMD_READY"}
    /\ epc' = "frame"
    /\ UNCHANGED <<chipVars, eflag, queueVars, ethFrame, histVars, eret, sessionActive,
                   passVars, linkVars>>

\* Mutant: a pass that served TCP serves no UDP.
DrainThenWait ==
    /\ epc = "drain" /\ Rs422Blocked /\ NoFault
    /\ IF budget = 0 \/ respQ = <<>>
       THEN /\ epc' = "wait" /\ budget' = UdpDrainLimit
            /\ UNCHANGED <<respQ, epkt>>
       ELSE /\ epc' = "send" /\ budget' = budget - 1
            /\ epkt' = Head(respQ) /\ respQ' = Tail(respQ)
    /\ UNCHANGED <<chipVars, eflag, cmdQ, udpQ, flags, ethFrame, histVars, eret, sessionActive,
                   due, ev, chunk, linkVars>>

\* w5500_tcp_drain_response_queue takes the next response.
Drain ==
    /\ epc = "drain" /\ Rs422Blocked /\ NoFault
    /\ IF budget = 0 \/ respQ = <<>>
       THEN /\ epc' = "udp" /\ budget' = UdpDrainLimit
            /\ UNCHANGED <<respQ, epkt>>
       ELSE /\ epc' = "send" /\ budget' = budget - 1
            /\ epkt' = Head(respQ) /\ respQ' = Tail(respQ)
    /\ UNCHANGED <<chipVars, eflag, cmdQ, udpQ, flags, ethFrame, histVars, eret, sessionActive,
                   due, ev, chunk, linkVars>>

\* w5500_tcp_send_response_packet: a response that is not sent is lost.
TcpSend ==
    /\ epc = "send" /\ Rs422Blocked
    /\ \/ /\ sock = "ESTABLISHED" /\ phy /\ NoFault
          /\ lastTcp' = [conn |-> conn, pkt |-> epkt]
          /\ answered' = [answered EXCEPT ![epkt.seq] = @ + 1]
          /\ out' = IF out > 0 THEN out - 1 ELSE 0
       \/ /\ (NoFault /\ (sock # "ESTABLISHED" \/ ~phy)) \/ Fault("send")
          /\ UNCHANGED <<lastTcp, answered, out>>
    /\ epc' = "drain"
    /\ UNCHANGED <<sock, conn, rx0, sent, phy, eflag, queueVars, flags, ethFrame, asked,
                   lastUdp, eret, sessionActive, passVars, linkVars>>

\* The UDP part: at most UDP_TELEMETRY_DRAIN_LIMIT packets in a pass.
UdpGet ==
    /\ epc = "udp" /\ Rs422Blocked
    /\ \/ /\ \/ NoFault /\ (~due \/ ~udpOpen \/ ~linkUp \/ budget = 0 \/ udpQ = <<>>)
             \/ due /\ udpOpen /\ Fault("spi")
          /\ epc' = "wait" /\ UNCHANGED <<budget, epkt, udpQ>>
       \/ /\ due /\ udpOpen /\ linkUp /\ budget > 0 /\ udpQ # <<>> /\ NoFault
          /\ epc' = "udp_send" /\ budget' = budget - 1
          /\ epkt' = Head(udpQ) /\ udpQ' = Tail(udpQ)
    /\ UNCHANGED <<chipVars, eflag, cmdQ, respQ, flags, ethFrame, histVars, eret,
                   sessionActive, due, ev, chunk, linkVars>>

\* w5500_udp_forward_packet: a failure, which a missing link may cause, ends the loop.
UdpSend ==
    /\ epc = "udp_send" /\ Rs422Blocked
    /\ \/ NoFault /\ lastUdp' = epkt.seq /\ epc' = "udp"
       \/ /\ (NoFault /\ ~phy) \/ Fault("send")
          /\ epc' = "wait" /\ UNCHANGED lastUdp
    /\ UNCHANGED <<chipVars, eflag, queueVars, flags, ethFrame, asked, answered, lastTcp,
                   eret, sessionActive, passVars, linkVars>>

EthernetStep ==
    \/ \E data, control \in BOOLEAN : EthWake(data, control)
    \/ EthBoot \/ UdpOpen \/ CtlPhy \/ CtlSock \/ InvFlag \/ Discard
    \/ SockClose \/ SockOpen \/ SockListen \/ ListenWait
    \/ DataStatus \/ Activate \/ Traffic \/ TcpRead \/ TcpFrame \/ CmdFlag
    \/ Drain \/ TcpSend \/ UdpGet \/ UdpSend

-----------------------------------------------------------------------------
(* UART4 interrupts and the RS-422 line.                                   *)

lineFrame == <<chipVars, ethVars, eflag, queueVars, rsVars, histVars>>

\* HAL_UART_TxCpltCallback.
UartTxIsr ==
    /\ uart # NoPkt /\ NoFault
    /\ uart' = NoPkt /\ wireOut' = Append(wireOut, uart)
    /\ flags' = flags \cup {"TX_DONE"}
    /\ UNCHANGED <<lineFrame, ring, wireIn, tlm>>

\* HAL_UART_RxCpltCallback on the last byte of a frame: the ring may be full.
UartRxIsr ==
    /\ wireIn # <<>> /\ NoFault
    /\ wireIn' = Tail(wireIn) /\ ring' = Put(ring, RingCap, Head(wireIn))
    /\ flags' = flags \cup {"RX"}
    /\ UNCHANGED <<lineFrame, uart, wireOut, tlm>>

\* HAL_UART_ErrorCallback: bytes are lost, so the frame is, and the task wakes.
UartErrorIsr ==
    /\ wireIn # <<>> /\ Fault("loss")
    /\ wireIn' = Tail(wireIn)
    /\ flags' = flags \cup {"RX"}
    /\ UNCHANGED <<lineFrame, uart, ring, wireOut, tlm>>

\* A frame is corrupted on its way to the remote node, which ignores it.
LineLoss ==
    /\ wireOut # <<>> /\ Fault("loss")
    /\ wireOut' = Tail(wireOut)
    /\ UNCHANGED <<lineFrame, flags, uart, ring, wireIn, tlm>>

RemoteAnswer ==
    /\ wireOut # <<>> /\ NoFault
    /\ wireOut' = Tail(wireOut) /\ wireIn' = Append(wireIn, RemoteReply(Head(wireOut)))
    /\ UNCHANGED <<lineFrame, flags, uart, ring, tlm>>

RemoteTelemetry ==
    /\ tlm < MaxTlm /\ NoFault
    /\ tlm' = tlm + 1
    /\ wireIn' = Append(wireIn, Pkt("TELEMETRY", tlm + 1, 0, 0))
    /\ UNCHANGED <<lineFrame, flags, uart, ring, wireOut>>

-----------------------------------------------------------------------------
(* The W5500, the link, the clients and the retry timer.                   *)

envFrame == <<epc, eret, sessionActive, passVars, linkUp, recovery, restart, graceful,
              spiOk, sockStatus, bootVars, eflag, queueVars, rsVars, flags, lineVars,
              histVars>>

\* A SYN comes in, and its handshake ends or fails.
ClientSyn ==
    /\ sock = "LISTEN" /\ phy /\ conn < MaxConn /\ NoFault
    /\ sock' = "SYNRECV"
    /\ UNCHANGED <<envFrame, retryDue, conn, rx0, sent, out, phy>>

ClientConnect ==
    /\ sock = "SYNRECV" /\ phy /\ conn < MaxConn /\ NoFault
    /\ sock' = "ESTABLISHED" /\ conn' = conn + 1 /\ out' = 0
    /\ UNCHANGED <<envFrame, retryDue, rx0, sent, phy>>

ClientSend ==
    /\ sock = "ESTABLISHED" /\ phy /\ sent < MaxSent /\ out < Window /\ NoFault
    /\ \E m \in ClientMsgs, s \in ClientSeqs, l \in ClientLens :
          rx0' = Append(rx0, Pkt(m, s, l, conn))
    /\ sent' = sent + 1 /\ out' = out + 1
    /\ UNCHANGED <<envFrame, retryDue, sock, conn, phy>>

\* The client closes (FIN) or resets the connection, or the chip gives it up.
ClientClose ==
    /\ sock \in {"SYNRECV", "ESTABLISHED"} /\ Fault("close")
    /\ sock' = "CLOSED" \/ (sock = "ESTABLISHED" /\ phy /\ sock' = "CLOSE_WAIT")
    /\ UNCHANGED <<envFrame, retryDue, conn, rx0, sent, out, phy>>

\* The last ACK of a disconnection.
ChipClosed ==
    /\ sock = "LAST_ACK" /\ NoFault
    /\ sock' = "CLOSED"
    /\ UNCHANGED <<envFrame, retryDue, conn, rx0, sent, out, phy>>

LinkDown ==
    /\ phy /\ Fault("link")
    /\ phy' = FALSE
    /\ UNCHANGED <<envFrame, retryDue, sock, conn, rx0, sent, out>>

LinkUp ==
    /\ ~phy /\ NoFault
    /\ phy' = TRUE
    /\ UNCHANGED <<envFrame, retryDue, sock, conn, rx0, sent, out>>

\* next_tcp_restart_tick comes.
RetryTimer ==
    /\ ~retryDue /\ NoFault
    /\ retryDue' = TRUE
    /\ UNCHANGED <<envFrame, chipVars>>

Environment ==
    \/ UartTxIsr \/ UartRxIsr \/ UartErrorIsr \/ LineLoss \/ RemoteAnswer \/ RemoteTelemetry
    \/ ClientSyn \/ ClientConnect \/ ClientSend \/ ClientClose \/ ChipClosed
    \/ LinkDown \/ LinkUp \/ RetryTimer

Next == Rs422Step \/ EthernetStep \/ Environment

Spec == Init /\ [][Next]_vars

(* Fairness.  The scheduler runs a ready task; SysTick makes the deadlines *)
(* of both services come again and again, also while events wake the task; *)
(* UART4 finishes what it sends; the remote node answers; the W5500        *)
(* completes a handshake and a disconnection; a link that is down comes    *)
(* back.                                                                   *)
Fairness ==
    /\ WF_vars(Rs422Step)
    /\ WF_vars(EthernetStep)
    /\ SF_vars(EthWake(TRUE, TRUE))
    /\ WF_vars(UartTxIsr) /\ WF_vars(UartRxIsr) /\ WF_vars(RemoteAnswer)
    /\ WF_vars(ClientConnect) /\ WF_vars(ChipClosed) /\ WF_vars(LinkUp)
    /\ WF_vars(RetryTimer)

FairSpec == Spec /\ Fairness
-----------------------------------------------------------------------------
(* Properties.                                                             *)

ChipType ==
    /\ sock \in SockStates /\ conn \in 0..MaxConn /\ rx0 \in Seq(Packet)
    /\ sent \in 0..MaxSent /\ out \in Nat /\ phy \in BOOLEAN
LinkType ==
    /\ linkUp \in BOOLEAN /\ recovery \in BOOLEAN /\ restart \in BOOLEAN
    /\ graceful \in BOOLEAN /\ retryDue \in BOOLEAN /\ spiOk \in BOOLEAN
    /\ sockStatus \in SockStates /\ netOk \in BOOLEAN /\ udpOpen \in BOOLEAN
PassType ==
    /\ due \in BOOLEAN /\ ev \in BOOLEAN /\ budget \in Nat
    /\ chunk \in Seq(Packet) /\ epkt \in Packet \cup {NoPkt}
PcType ==
    /\ epc \in EthPoints /\ eret \in EthPoints \cup {"start", "restart"}
    /\ rpc \in RsPoints /\ flags \subseteq RsEvents
    /\ sessionActive \in BOOLEAN /\ eflag \in BOOLEAN /\ nf \in 0..MaxFaults
QueueType ==
    /\ cmdQ \in Seq(Packet) /\ Len(cmdQ) <= CmdDepth
    /\ respQ \in Seq(Packet) /\ Len(respQ) <= RespDepth
    /\ udpQ \in Seq(Packet) /\ Len(udpQ) <= UdpDepth
RsType ==
    /\ cmd \in Packet \cup {NoPkt} /\ txFrame \in Packet \cup {NoPkt}
    /\ txBusy \in BOOLEAN /\ pending \in BOOLEAN /\ pendingSeq \in Nat
    /\ matched \in BOOLEAN /\ forwarding \in BOOLEAN /\ tests \in Nat
LineType ==
    /\ uart \in Packet \cup {NoPkt} /\ ring \in Seq(Packet) /\ Len(ring) <= RingCap
    /\ wireOut \in Seq(Packet) /\ wireIn \in Seq(Packet) /\ tlm \in 0..MaxTlm
HistType ==
    /\ asked \in [Seqs -> Nat] /\ answered \in [Seqs -> Nat]
    /\ lastTcp \in [conn : Nat, pkt : Packet \cup {NoPkt}] /\ lastUdp \in Nat

TypeOK == /\ ChipType /\ LinkType /\ PassType /\ PcType
          /\ QueueType /\ RsType /\ LineType /\ HistType

\* UART4 shifts out the frame that was encoded for it: g_rs422_tx_frame is not
\* written again, by a later command or a bring-up test, while the interrupt-driven
\* transmission still reads it, not even after the wait for it timed out.
TxFrameStable == uart # NoPkt => uart = txFrame /\ txBusy

\* No response and no pending PING of a TCP session is left for the next: while no
\* session is active and w5500_tcp_invalidate_connection_context is over, no response
\* is queued, and the pending PING is forgotten or about to be.  (The commands are
\* not emptied; PongToItsConnection is about them.)
SessionIsolated ==
    ~sessionActive /\ epc \notin {"inv_flag", "discard"} =>
        /\ respQ = <<>>
        /\ ~pending \/ "TCP_CONTEXT_RESET" \in flags

\* RS422Task in its osWaitForever with no flag has nothing in the ring, no command
\* that nobody will announce, and a UART that will still report TX_DONE if it counts
\* as busy.
Rs422NotStuck ==
    rpc = "wait" /\ flags = {} =>
        /\ ring = <<>>
        /\ cmdQ = <<>> \/ epc = "cmd_flag"
        /\ txBusy => uart # NoPkt

\* EthernetTask in its wait has no response queued without the event.
EthernetNotStuck == epc = "wait" /\ respQ # <<>> => eflag

\* Neither task sleeps on work that it would only find by looking.
NoLostWakeup == Rs422NotStuck /\ EthernetNotStuck

\* The gateway as its users see it: the requests accepted and not answered, the last
\* response, the telemetry sent and the telemetry forwarded.
Service == INSTANCE GatewayService WITH
    Requests  <- Seqs,
    owed      <- [s \in Seqs |-> asked[s] - answered[s]],
    response  <- [msg |-> lastTcp.pkt.msg, seq |-> lastTcp.pkt.seq],
    made      <- tlm,
    forwarded <- lastUdp

\* The gateway keeps the promise of GatewayService: what a TCP client gets is a PONG
\* for a PING that was accepted and not answered, never the PONG of a bring-up test or a
\* second one, and what UDP gets is telemetry that was sent, once and in order.
ServiceKept == Service!Spec

\* The telemetry that reaches UDP is in the order in which the remote sent it.
UdpInOrder == [][lastUdp' # lastUdp => lastUdp' > lastUdp]_vars

\* Telemetry that was queued is sent, also while TCP traffic is served and whether or
\* not the TCP server could be started, if the UDP socket was opened at boot.
TelemetrySent == udpQ # <<>> /\ udpOpen ~> udpQ = <<>>

\* A transmission that timed out does not block the RS-422 side for ever.
TxReleased == txBusy ~> ~txBusy

\* The server can always be reached again, or is in use, whatever finite number of
\* SPI errors, link losses and closed connections came before, if the network
\* configuration at boot succeeded; a failed start at boot is made good later.
ServiceRestored ==
    []<>(~netOk \/ sock = "LISTEN" \/ (sock = "ESTABLISHED" /\ sessionActive))

\* A client that sent a request gets a response, unless its connection ends.
RequestAnswered == out > 0 ~> out = 0 \/ sock # "ESTABLISHED"

\* A PONG goes to the connection that sent the PING it answers.
PongToItsConnection == lastTcp.pkt.tag = lastTcp.conn

-----------------------------------------------------------------------------
(* The inductive invariant behind the safety properties.                   *)

\* Where the subroutines of EthernetTask return to.
ReturnInv ==
    /\ epc \in {"open", "listen", "listen_wait"} => eret \in {"udp_open", "start", "restart"}
    /\ epc \in {"inv_flag", "discard"} =>
          eret \in {"ctl_sock", "close", "data", "activate", "traffic"}

\* The bring-up loop counts a test once, and is over when forwarding begins.
BringupInv ==
    /\ tests <= BringupTests
    /\ ~forwarding /\ rpc # "bu_next" => tests < BringupTests
    /\ forwarding => rpc \notin {"bu_next", "pong_rx", "pong_block"}

\* g_rs422_tx_busy against UART4: a frame under way or a TX_DONE not yet seen.
TxInv ==
    /\ uart # NoPkt => uart = txFrame /\ txBusy /\ "TX_DONE" \notin flags
    /\ txBusy => uart # NoPkt \/ "TX_DONE" \in flags
    /\ rpc = "xmit" => ~txBusy /\ "TX_DONE" \notin flags /\ txFrame = cmd
    /\ rpc \in {"fwd", "xmit"} => cmd # NoPkt

\* The PING pending for an ended session, and what is left of its responses.
SessionInv ==
    /\ ~sessionActive /\ epc # "inv_flag" => ~pending \/ "TCP_CONTEXT_RESET" \in flags
    /\ ~sessionActive /\ epc = "discard" => Len(respQ) <= budget
    /\ ~sessionActive /\ epc \notin {"inv_flag", "discard"} => respQ = <<>>

\* RS422Task goes to sleep only on an empty ring and an empty command queue.
WakeInv ==
    /\ rpc \in {"cmd", "wait"} /\ "RX" \notin flags => ring = <<>>
    /\ rpc = "wait" /\ "CMD_READY" \notin flags => cmdQ = <<>> \/ epc = "cmd_flag"

\* What says nothing of more than one pass of a task.
CoreInv == TypeOK /\ ReturnInv /\ BringupInv /\ TxInv /\ SessionInv /\ WakeInv

\* Where EthernetTask has no session.
Unserved == {"boot", "udp_open", "inv_flag", "discard", "close", "open", "listen",
             "listen_wait", "activate"}

\* An active session has a link, and the cached status of its socket says so.
LinkInv ==
    /\ sessionActive => epc \notin Unserved /\ linkUp /\ sockStatus = "ESTABLISHED"
    /\ epc = "activate" \/ (epc \in {"inv_flag", "discard"} /\ eret = "activate") =>
          linkUp /\ sockStatus = "ESTABLISHED"

\* A response whose event was taken is still to be looked for in this pass.
RespInv ==
    /\ epc \in {"rx", "frame", "cmd_flag"} => budget = RespDepth
    /\ sessionActive /\ respQ # <<>> /\ ~eflag =>
          \/ epc \in {"ctl", "ctl_sock", "data", "traffic"} /\ ev
          \/ epc \in {"rx", "frame", "cmd_flag"}
          \/ epc \in {"drain", "send"} /\ Len(respQ) <= budget

\* How many packets of a queue have the SEQ s; one if a condition holds.
CountOf(q, s) == Cardinality({i \in 1..Len(q) : q[i].seq = s})
One(condition) == IF condition THEN 1 ELSE 0

\* A PING that was accepted is in one place at most, and gives rise to one PONG at most.
PongInv ==
    \A s \in Seqs :
        answered[s] + One(epc = "send" /\ epkt.seq = s) + CountOf(respQ, s)
            + One(pending /\ pendingSeq = s)
            + One(rpc = "fwd" /\ cmd.seq = s) + CountOf(cmdQ, s) <= asked[s]

\* The telemetry of a queue, and the order of its SEQs.
IsTlm(p) == p.msg = "TELEMETRY"
Ascending(q) ==
    \A i, j \in 1..Len(q) : i < j /\ IsTlm(q[i]) /\ IsTlm(q[j]) => q[i].seq < q[j].seq
Within(q, low, high) ==
    \A i \in 1..Len(q) : IsTlm(q[i]) => low < q[i].seq /\ q[i].seq <= high
Precedes(q, r) ==
    \A i \in 1..Len(q), j \in 1..Len(r) : IsTlm(q[i]) /\ IsTlm(r[j]) => q[i].seq < r[j].seq

\* The SEQ that everything on its way to UDP comes after.
LastTaken == IF epc = "udp_send" THEN epkt.seq ELSE lastUdp

\* Telemetry is in order from the remote node up to the UDP socket.
OrderInv ==
    /\ lastUdp \in 0..tlm /\ LastTaken \in 0..tlm
    /\ epc = "udp_send" => lastUdp < epkt.seq
    /\ \A i \in 1..Len(udpQ) : IsTlm(udpQ[i])
    /\ Ascending(udpQ) /\ Ascending(ring) /\ Ascending(wireIn)
    /\ Within(udpQ, LastTaken, tlm) /\ Within(ring, LastTaken, tlm)
    /\ Within(wireIn, LastTaken, tlm)
    /\ Precedes(udpQ, ring) /\ Precedes(udpQ, wireIn) /\ Precedes(ring, wireIn)

\* Packets with the SEQ of a request, and PONGs among them.
Requested == {p \in Packet : p.seq \in Seqs}
Pongs == {p \in Requested : p.msg = "PONG"}

\* The path of a PING holds nothing but packets of the clients, and the path back
\* nothing but PONGs for them.
PathInv ==
    /\ rx0 \in Seq(Requested) /\ chunk \in Seq(Requested) /\ cmdQ \in Seq(Requested)
    /\ rpc = "fwd" => cmd \in Requested
    /\ pending => pendingSeq \in Seqs
    /\ respQ \in Seq(Pongs)
    /\ epc = "send" => epkt \in Pongs

\* Everything the proofs carry from step to step.
IInv == CoreInv /\ LinkInv /\ RespInv /\ PongInv /\ OrderInv /\ PathInv

=============================================================================

# Verification of the Ethernet / RS-422 gateway

TLA+ models of the two boards of this repository, the TLC runs that check them on
small instances, and TLAPS proofs of what matters most. Paths are relative to the
repository; `main.c` is `firmware/g474_gateway/Core/Src/main.c`.

## The system

A PC talks to the **gateway** (STM32G474, FreeRTOS, W5500 Ethernet chip) over TCP and
UDP; the gateway talks to the **remote node** (STM32F429) over an RS-422 line. Both
sides use Protocol V1 frames (`common/`).

| component | state | operations | interacts with |
|---|---|---|---|
| RS422Task (`main.c`, priority High) | TX frame and busy flag, pending PING, bring-up counters | bring-up tests, drain the receive ring and route frames, forward commands, wait for TX_DONE | UART4 interrupts (flags, ring), EthernetTask (three queues, flags, `g_w5500_tcp_session_active`), HealthTask (tick of the last frame) |
| EthernetTask (priority Normal) | cached socket status, link state, recovery and restart flags, session | control plane (PHY, recovery, disconnect, restart) every 100 ms, data plane (socket status, TCP receive, responses, UDP) every 1 ms or on an event | the W5500 over SPI, RS422Task |
| HealthTask (lowest priority) | communication state and counters | judge the silence on the line every period | reads what RS422Task stores |
| UART4 interrupts | receive ring | push bytes, set flags | RS422Task |
| remote node | status, counters, last request, telemetry and heartbeat SEQ | answer frames, send TELEMETRY and HEARTBEAT, take over the counters of its interrupts | its UART5 interrupts, the line |
| receive rings | indices and storage | push in an interrupt, pop in a task | |
| W5500 access (`w5500_*` in `main.c`) | buffer pointers, Sn_IR, Sn_CR of two sockets (in the chip) | send a frame, take received bytes, one SPI transfer at a time | EthernetTask; the chip works on its own |
| gateway diagnostics | time stamps of a link recovery and of a session's first PING | capture, clear | written by both tasks, read by a debugger |
| host programs (`host/`) | counters, SEQ, parser | RTT test, recovery client, telemetry loss test, mock servers | sockets |
| stream parser, codec, CRC | parser state, frame buffer, statistics | feed a byte; encode, decode | both boards and the TCP stream |

What is hard here is not the sequential logic, which the repository tests on a PC, but
the order of things: an interrupt between any two accesses of a task, RS422Task
preempting EthernetTask and HealthTask, flags that are consumed in one place and needed
in another, a client that connects or leaves in the middle of a recovery, a transmission
that outlives its time-out, ticks and indices that wrap. `PROJECT.json` lists these
hazards one by one, each with its line and the properties that watch it.

## Modules

| module | models | notes |
|---|---|---|
| `Gateway` | RS422Task, EthernetTask, queues, flags, UART4, the chip and its clients | by frames |
| `Health` | HealthTask against RS422Task | tick modulo `TickMod` |
| `GatewayRxRing`, `UartRxRing` | the receive rings of the two boards | by bytes, refine `ByteFifo` |
| `ByteFifo` | what a receive ring promises | abstract specification |
| `GatewayService` | what the gateway promises to its TCP client and UDP peer | abstract specification, refined by `Gateway` |
| `Protocol`, `Crc16` | codec and checksum | operators; the CRC is a parameter of `Protocol` |
| `StreamParser` | the parser behind a line that spoils bytes | by bytes |
| `RemoteNode` | the remote node: task and interrupts | by frames |
| `W5500Tx`, `W5500Rx` | the send and receive sequences of a socket | one SPI transfer per step, pointers modulo `Mod` |
| `Deadlines` | the periods, retry ticks and waits of EthernetTask | ticks modulo `TickRange`, unbounded time |
| `EthDiag`, `SessionDiag` | the captures of a link recovery and of a session's first PING | against true time |
| `UdpClient` | `udp_client.cpp`, `udp_mock_server.cpp` | datagrams |
| `PongClient` | `tcp_client.cpp`, `tcp_recovery_client.cpp`, `tcp_mock_server.cpp` | PONGs in two halves |
| `MCGateway`, `MCHealth`, `MCParser`, `MCRemote` | instances for TLC | one component each |
| `Buffers` | rings, `W5500Tx`, `W5500Rx` | buffers with wrapping pointers |
| `Clock` | `Health`, `Deadlines`, `EthDiag`, `SessionDiag` | what is reckoned with the wrapping tick |
| `Host` | `PongClient` (`tcp_client`, `tcp_recovery_client`), `UdpClient` | programs of `host/` |
| `GatewayProofs`, `GatewayRoutingProofs` | theorems about `Gateway`: the tasks; the responses, PONGs and telemetry | the second rests on the first |
| `ClockProofs` | theorems about `Health`, `Deadlines`, `EthDiag` and `SessionDiag` | |
| `RemoteProofs`, `ParserProofs` | theorems about `RemoteNode`; about `Protocol` and `StreamParser` | |
| `BufferProofs` | theorems about the rings, `W5500Tx` and `W5500Rx` | |
| `HostProofs` | theorems about `PongClient` and `UdpClient` | |
| `ModularProofs` | lemmas on remainders by a modulus that is a parameter | used by `ClockProofs`, `RemoteProofs`, `BufferProofs`, `HostProofs` |

`Gateway` composes the two tasks, the queues, the interrupts, the chip and the clients.
The other modules look closer at one of its steps: `W5500Tx` is what happens inside
`TcpSend` and `UdpSend`, `W5500Rx` inside `TcpRead`, `Deadlines` inside `EthWake` and
`RetryTimer`, the rings and the parser inside `UartRxIsr` and `RsPop`, `RemoteNode` inside
`RemoteAnswer`, `PongClient` and `UdpClient` are two of its clients. TLC checks those
modules with their own constants.

`Buffers`, `Clock` and `Host` each check several components that share no state: the
variable `part` picks at the start which of them the behaviour is about, the others stay
as they are, so that the state spaces add up instead of multiplying. The assumptions on
the constants of the instantiated modules are restated there for TLC to evaluate.

### Gateway

Each task is a program counter (`rpc`, `epc`) and the variables named after the code's.
An action is what the task does between two accesses to state it shares with the other
task, the interrupts or the chip. The scheduler is in the guards: `Rs422Blocked` says
that RS422Task sits in `osThreadFlagsWait` with no flag, and only then does EthernetTask
step; interrupts step at any time. A subroutine with several callers has one set of
control points and remembers where it returns to (`eret` for
`w5500_tcp_invalidate_connection_context`, `w5500_tcp_discard_stale_responses` and
`w5500_start_tcp_server`; `forwarding` for the transmit routine, which only the bring-up
test calls before forwarding is enabled).

| code | control points of the model |
|---|---|
| `rs422_process_rx_buffer` | `RsPop` at `main_rx`, `post_rx`, `tx_rx`, `tx_last_rx`, `pong_rx`; `RxDone` leaves them |
| `rs422_ping_bringup_run`, `_test` | `BringupNext`, `Transmit`, `PongWake`, `PongTimeout` |
| `rs422_forward_packet` | `Forward`, `Transmit` |
| `rs422_wait_for_tx_complete` | `TxPoll`, `TxWake`, `TxTimeout` |
| main loop of RS422Task | `CmdGet`, `MainWake` |
| boot of EthernetTask | `EthBoot` (reset, version, network configuration), `UdpOpen`, then the start of the server |
| wait of EthernetTask | `EthWake` |
| control plane | `CtlPhy`, then one disjunct of `CtlSock` per case |
| session end | `InvFlag`, `Discard` |
| `w5500_restart_tcp_server`, `w5500_start_tcp_server` | `SockClose`, `SockOpen`, `SockListen`, `ListenWait` |
| data plane | `DataStatus`, `Activate`, `Traffic`, `TcpRead`, `TcpFrame`, `CmdFlag`, `Drain`, `TcpSend`, `UdpGet`, `UdpSend` |

Data is abstracted: a frame is `[msg, seq, len, tag]`, where `tag` is a history field
that names the connection a PING came from. Deadlines are a choice of `EthWake` (which of
the two services is due), time-outs are enabled whenever the code waits. A chip state is
read and changed by the chip's own actions between any two steps of EthernetTask.
A boot that fails leaves `netOk` or `udpOpen` FALSE for good, as in the code; a failed
start of the TCP server is made good by the control plane.

### Health

The reads of the tick, of `g_rs422_has_valid_frame` and of
`g_rs422_last_valid_frame_tick` are separate steps, since RS422Task may preempt between
them. `now` is real time, which the properties use and the code cannot see.

### Rings

The interrupt preempts the task, never the reverse: a push is one action, a pop is three
(test, read, release). The gateway's ring has free-running indices and uses all of its
slots, the remote node's ring keeps one slot free.

### StreamParser

The line delivers each byte as sent, corrupts it to a value of `Noise`, loses it, or
inserts one. The checks in the C code that guard the buffer once more before each write
are left out; `TypeOK` shows that they never find anything.

### RemoteNode

One pass of `remote_node_port_process`: take the counters (one step, interrupts are
disabled), note them, empty the ring, telemetry, heartbeat. A transmission is two steps,
since interrupts go on while `HAL_UART_Transmit` blocks the task.

### W5500Tx and W5500Rx

One action per SPI transfer; the chip's actions come between any two of them. A frame is
`FrameLen` numbered cells, so that a torn, repeated or overtaken frame shows in `left`,
what has left the chip. What is assumed of the chip is said at the head of each module.
The two sockets run the same code on other registers, hence one module. Every polling
loop polls `MaxPolls` times and gives up, which is the time-out; the chip may outlast it.
`smooth` records that no transfer has failed and no wait was given up while the chip was
at work: until then a success is that of its own frame.

### Deadlines

Time passes in each step that takes time, without a bound: the tick wraps, and the
true lags (`phyLag`, `dataLag`) and the waiting time of a wanted restart are kept beside
the code's wrapped values, so that the state space stays finite. What the PHY reports is a
choice at each poll, and a read may fail: a failed read of PHYCFGR leaves the link as last
seen (`PollFails`), a failed read of Sn_SR is stored (`Data`), and the restart is then
skipped until a later one succeeds. `MaxOutage` bounds how long reads fail while a restart
is wanted; `RestartTriedInTime` counts from there. The code has no such bound: reads that
fail for longer put the restart off for as long as they fail, and after half the range of
the tick (24.8 days) `next_tcp_restart_tick` would look like a tick of the future.

### EthDiag and SessionDiag

The captures next to the true time of the first event, which the code does not have.
`SessionDiag` lets RS422Task preempt EthernetTask between any two accesses to what both
use. The sending of the first PONG is three steps: read the tick, store it, and then read
the stamp of the PONG's arrival. RS422Task may store that stamp in between, and
`g_diag_matching_pong_rx_to_tcp_send_ms`, an unsigned difference, underflows: it reads as a
number near 2^32, and an underflow of one tick as "not captured". This takes a PONG to send
that came before the first PING of the session was parsed (`early`: the answer to a PING
of the last session, as in `gw_stale`, with the same SEQ); `DistancesTrue` says that it
happens in no other session and to no other distance.

### UdpClient and PongClient

The sender or the peer, the network and the tool. Each PING and datagram carries its
number as history, so that an answer to another request can be told from the right one
although the SEQ is the same. `Receive` of `PongClient` is `recv`, `Feed` the loop over
`rx_buffer` with one half of a PONG per step; `got` counts the halves that are in the
buffer and not yet fed. The variable `recovery` says which of the two clients it is.
`restarted` of `UdpClient` is history: what the tool reports has its meaning as long as
the sender does not begin its SEQ again.

## Runs

| run | checks | instance |
|---|---|---|
| `gw_routing` | `TypeOK`, `TxFrameStable`, `NoLostWakeup`, `ServiceKept` | one connection, one bring-up test with SEQ 1 and two packets of traffic (`TrafficBound`: two PINGs with SEQ 1 in flight together, or one of them and a telemetry packet), transmit and PONG time-outs, one lost frame, UART failure or failed send |
| `gw_live` | `RequestAnswered`, `TelemetrySent`, `UdpInOrder` | no faults, a client that waits for each response, two telemetry packets |
| `gw_restore` | `IInv`, `SessionIsolated`, `TxReleased`, `ServiceRestored` | two connections, one fault out of time-out, close, link loss and SPI error, the boot included; PING and READ_STATUS with and without payload |
| `gw_stale` | `PongToItsConnection`: violated | two connections, one close |
| `gw_pipe` | `RequestAnswered`: violated | no faults, two PINGs outstanding |
| `clock` | `LossDetected`, `LossesCounted`, `RecoveryHasFrame` | `Health`: tick modulo 16, start at 13, so that the tick wraps after 3 ticks; real time up to 27 |
| | `StartsInTime`, `RestartTriedInTime` | `Deadlines`: tick modulo 50 from 0, periods 1 and 2, retry 2, passes of up to 2 ticks, reads that fail for 2 ticks, time without end |
| | `CaptureTrue` | `EthDiag`: tick modulo 9, 7 ticks of true time, starts that let it wrap |
| | `StampsTrue` | `SessionDiag`: two sessions, three PINGs of two SEQs, a queue of two |
| `buffers` | `GatewayRingIsFifo`, `RemoteRingIsFifo` | rings: 4 slots, indices that wrap at 8, two byte values |
| | `FramesIntact`, `SuccessesTrue`, `SocketsProgress` | `W5500Tx`: five frames of two cells, a buffer of two frames, pointers that wrap at 8, three faults out of failed transfers and sends without answer, a chip of any slowness |
| | `StreamIntact`, `SocketsProgress` | `W5500Rx`: 12 bytes through a buffer of 4, chunks of 2, pointers that wrap at 8, two failed reads |
| `host` | `ClientReportsTrue`, `PongNotThrownAway`, `ProgramsEnd` | `tcp_client` and `tcp_recovery_client`: six requests, SEQ modulo 5, so that 0 is stepped over by the second, four faults out of late, lost, closed, refused and Ctrl+C |
| | `LossReportTrue`, `ProgramsEnd` | `udp_client`: 8 datagrams of which 4 are expected, SEQ modulo 8, every third skipped, three faults out of lost, repeated, damaged and a sender that starts again |
| `health_race` | `TimeoutHasSilence`: violated | as `Health` in `clock` |
| `health_wrap` | `RecoveryHasFrame`: violated | a silence longer than the range of the tick |
| `parser` | `TypeOK`, `NothingMadeUp`, `LossBounded`, `RejectionIsCheap`, `LossNoticed` | up to 6 packets, one spoilt byte at any place, the real CRC |
| `remote` | `TypeOK`, `NothingUncounted`, `AnsweredOnce`, `StatusHonest`, `GapShowsLoss`, `TelemetryPaced`, `TelemetryKeepsComing` | a ring of two; three arrivals, of which one may be refused: three requests, or one of them next to a frame of any of the eight kinds (`ArrivalBound`); one UART error or failed transmission, periods 2 and 1, tick modulo 4, SEQ modulo 2 |

Why these bounds are enough to be interesting: a queue of depth 1 is full as soon as a
packet waits, and depth 2 shows order; one bring-up test is enough for its late PONG to
meet a client's PING; two connections are the least that can mix. In `gw_live`, `Window = 1` is the client
of `host/tcp_client.cpp`, which sends the next PING after the PONG. In `parser` the
payload limit of 12 lets a wrong LENGTH reach over two following frames, and six packets
leave room to get back in step; `MissedPerFault`, 3 for this limit, is tight: a bound of
2 is violated. `parser` switches the deadlock check off because the line may fall silent;
`RejectionIsCheap` needs the MAGIC of a payload to stand six bytes before the next frame
(it is false for the payload AA 55), because `resync_from_tail` looks at two bytes only.
In `W5500Tx` two frames fill the
buffer, so that the driver has to wait for room, and five wrap the pointers. `Deadlines`
has passes as long as both periods together, which is what makes the catch-up loops run,
and a tick range just large enough for `DeadlinesAssumption`; an outage of the link may be
longer than half of it. In `PongClient` fewer than `SeqRange` requests are late, as in the tool's
use; a PONG that is late by a whole range of SEQ would be taken for another's. `EthDiag`
bounds true time below the range of the tick (49.7 days): one link recovery does not last
longer. `UdpClient` keeps the order of datagrams and has a sender that numbers at most one
turn of SEQ: a SEQ that was lost and comes again after the turn would hide the loss. The host programs end, hence no deadlock check
in `host`.
The bounds `Max...` of every module end behaviours that the code would continue.

`clock` ends before a silence can outlast the tick; `health_wrap` starts at 0 and lets it.

### Fairness

`gw_live`, `gw_restore`, `gw_pipe`, `remote`, `buffers` and `host` check liveness. The gateway's `Fairness`
says: a ready task runs (FreeRTOS, weak fairness of each task); the deadlines of both
services come again and again even while events wake EthernetTask (SysTick, strong
fairness of the wake-up with both due: an event can come first any finite number of
times); UART4 finishes, and receives what is on the line; the remote node answers; the
W5500 completes a handshake that has begun and a disconnection; a link that is down comes back; the retry deadline
comes. Nothing forces a client, a fault or telemetry. Time-outs belong to the task's step
and are not forced. The remote node has weak fairness of its task and its tick only.

`W5500Tx` has weak fairness of the driver only: sends return though the chip may
never answer. `W5500Rx` adds the chip's execution of a RECV, without which nothing can be
received. `UdpClient` assumes that the client reads what is there, that its socket's
time-out strikes when nothing comes, and that the sender goes on until it ends;
`PongClient` that the client runs and that the peer answers what it has received. Faults
are bounded in number, as `Max...` says, and never forced.

### Findings

1. `gw_stale`: the command queue is not emptied when a connection ends. A PING left in it
   is forwarded for the next session, and its PONG goes to a client that did not ask.
2. `gw_pipe`: there is one slot for a PING in flight. A client that sends the next PING
   before the PONG loses the response to the first, without any fault.
3. `health_race`: HealthTask reads the tick before the tick of the last frame; a frame in
   between makes the unsigned difference huge and COMM_TIMEOUT is entered for a period.
4. `health_wrap`: after a silence of 2^32 ticks (49.7 days) the old frame looks fresh and
   COMM_OK is declared without a frame.

Four more disagreements were met in modelling and are described here without a run of
their own; each is seen by changing the constants, or the property, as said.

* The comment at `main.c:1951` says "Remove stale SEND result before SEND", but a send
  that gave up waiting is still under way in the chip, and its SEND_OK can come after the
  next send has cleared Sn_IR and be taken for that send's. `OkMeansLeft` of `W5500Tx`
  fails without its hypothesis `smooth`, even if no transfer fails; the number of successes is still right
  (`SuccessesNotOverstated`), the frame they are counted for is not.
* `docs/protocol_v1.md:333` draws READ_STATUS through the gateway to the remote node and
  back; `w5500_tcp_handle_valid_frame` drops it (`RequestAnswered` fails with
  `ClientMsgs = {"READ_STATUS"}`).
* `host/fault_client.cpp:301` takes silence after a PING with payload for a failure; the
  remote node's ERROR is not routed to TCP (`RequestAnswered` fails with
  `ClientLens = {1}`).
* `docs/pre_g474_test_plan.md:72` wants a restart of the telemetry SEQ recorded "rather
  than misclassified silently"; `udp_client` counts fresh telemetry after a reset of the
  remote node as duplicates (`DuplicatesAreRepeats` fails without its hypothesis
  `~restarted`).

## Proofs

Each theorem holds for every value of the constants that the named assumption of its
module allows; TLC evaluates these assumptions in the runs. Hardly any
property that a run checks is inductive by itself; the module of each component states the
inductive invariant behind its properties at its end, and TLC has checked it before it was
proved (`IInv` still is in `gw_restore`). Each proof has one lemma per action.

| theorem | states | inductive invariant | from |
|---|---|---|---|
| `TypeCorrect`, `FrameStable`, `SessionsIsolated`, `Rs422Wakes` | `[]TypeOK`, `[]TxFrameStable`, `[]SessionIsolated`, `[]Rs422NotStuck` | `CoreInv` (`CoreInvariance`) | `ConstantsAssumption`: depths and limits are positive, bounds natural, clients send PING or READ_STATUS |
| `Invariance`, `NoWakeupLost`, `TelemetryInOrder`, `GatewayServes` | `[]IInv`, `[]NoLostWakeup`, `UdpInOrder`, `ServiceKept` | `IInv` | the same |
| `LossesAreCounted` | `[]LossesCounted` | `CountInv` | `HealthAssumption` |
| `LossIsDetected`, `RecoveryIsReal` | `[]LossDetected`, `RecoveryHasFrame` | `HealthInv` | `HealthAssumption` and `[]SilenceMeasurable` |
| `NodeTypes`, `AllCounted`, `AllAnsweredOnce`, `StatusIsHonest`, `GapIsLoss`, `NeverEarly` | `[]TypeOK`, `[]NothingUncounted`, `[]AnsweredOnce`, `[]StatusHonest`, `[]GapShowsLoss`, `TelemetryPaced` | `NodeInv` | `RemoteAssumption` |
| `StartInTime`, `RestartInTime` | `[]StartsInTime`, `[]RestartTriedInTime` | `DeadlineInv` | `DeadlinesAssumption`: twice what can add up is less than the range of the tick |
| `RecoveryCaptured`, `SessionStamped` | `[]CaptureTrue`, `[]StampsTrue` | `CaptureInv`, `SessionInv` | the assumptions of their modules |
| `RingInvariance`, `RemoteRingRefines` | `[]RemoteRingInv`, `RemoteRingIsFifo` | `RemoteRingInv` | `URingAssumption` |
| `GatewayRingInvariance`, `GatewayRingRefines` | `[]GatewayRingInv`, `GatewayRingIsFifo` | `GatewayRingInv` | `GRingAssumption`: the capacity divides the range of the indices |
| `SendsIntact`, `SuccessesHonest` | `[]FramesIntact`, `[]SuccessesTrue` | `TxInv` | `TxAssumption`: a frame fits, the buffer's size divides the range of the pointers |
| `StreamArrives` | `[]StreamIntact` | `RxInv` | `RxAssumption`: the buffer's size divides the range of the pointers |
| `ClientsReport`, `NoPongThrownAway` | `[]ClientReportsTrue`, `PongNotThrownAway` | `PongInv` (`PongInvariance`) | `PongClientAssumption`: fewer faults than SEQs |
| `LossIsReported` | `[]LossReportTrue` | `UdpInv` (`UdpInvariance`) | `UdpAssumption`: at most one turn of SEQ is numbered |
| `HostPrograms` | the invariants of both in `HostSpec` | `PongInv` and `UdpInv` | both |
| `BufferNeverOverrun`, `CleanLineDelivers` | `[]TypeOK`, `[]CleanDelivery` | `ParserInv`, `CleanInv` | `StreamAssumption`; `CrcIsU16`: the checksum is a `uint16_t` |

**Gateway.** `TxFrameStable` needs to know that a busy flag is backed by a frame under way
or by a `TX_DONE` not yet seen, and never by both, or a late `TX_DONE` of a timed-out frame
could release the buffer of the next one: `TxInv`. `SessionIsolated` needs to follow the
end of a session through its steps: the flag is down, the event is set before the queue is
drained, and the loop's budget covers what is left because RS422Task routes nothing while
no session is active: `SessionInv`. RS422Task's half of `NoLostWakeup` needs that the ring
can only become non-empty together with the RX flag between the last drain and the wait:
`WakeInv`. `ReturnInv` and `BringupInv` tie the subroutines to their callers. These are
`CoreInv`. EthernetTask's half rests on `RespInv`: a response whose event has been taken is
ahead of the pass under way, and the drain's budget covers the queue; for that an active
session must have a link and a socket that the pass serves (`LinkInv`). `PongInv`
counts: of the PINGs of a SEQ that were accepted, each is in one place (command queue,
hand, pending slot, response queue, being sent) or answered, and no step makes two of one,
although bring-up tests use the same SEQs and their PONGs may be late. `UdpInOrder` follows the telemetry back through the UDP queue, the ring and
the line: each holds ascending SEQs, all later than those of the place before (`OrderInv`).

**The gateway as its users see it.** `GatewayService` has the requests owed an answer per
SEQ, the last response, and the numbers of the telemetry sent and forwarded. `Service` of
`Gateway` maps them: what is owed is `asked - answered`. `TcpFrame` is `Accept` when the
command queue takes the PING, `TcpSend` is `Answer`, `RemoteTelemetry` is `Report`,
`UdpSend` is `Forward`; every other step of the tasks, the interrupts, the chip and the
clients stutters. `Answer` needs that the packet sent is a PONG with the SEQ of a request
(`PathInv`: so is everything in the response queue, because RS422Task routes only a PONG
with the SEQ of the PING pending, and that came from a client) and that one is owed
(`PongInv`); `Forward` needs `OrderInv`. The service promises nothing about which
connection gets a PONG: `gw_stale` shows that it may be the next one.

**Health.** A pass judges a tick that it read earlier against a frame stored later.
`PassInv` names the true times behind both; then `Elapsed` gives their distance, provided
no silence is as long as the range of the tick. `SilenceMeasurable` says so and is a
hypothesis of the theorem, as `health_wrap` shows that `RecoveryHasFrame` is false without.

**Remote node.** `NodeInv` is the conjunction of the properties with the truth of the clock
(`ClockInv`: the difference of ticks is the time since the last TELEMETRY, modulo its
range). `AnsweredOnce` says that the k-th reply answers the k-th frame that is owed one.

**Deadlines.** `LagInv` says how late each service can be at each point of a pass, and that
the wrapped difference shows it; `WantedInv` bounds how long a restart has been wanted
against the next poll and its own tick, `OutageInv` against the next data service after a
read that failed, and against the next poll while the link is not known; `SeenInv` ties the
remembered link to the flags.

**Captures.** `UpInv` gives the true time of the tick of a recovery, `CycleInv` that a cycle
is armed while the link is down. `StampInv` orders the stamps that the two tasks write:
RS422Task stamps nothing while no PING of this session is parsed, because the SEQ is
withdrawn before the stamps are cleared (`PhaseInv`). `PongInv` of `SessionDiag` says that
a PONG of the first PING that waits to be sent has its stamp already, so that no stamp can
come between the reading of the tick and the distance, unless the PONG came too early.

**Rings.** A push is `Push` or `Refuse`, the release of a slot is `Pop`, the other steps
stutter. The byte returned is the one at the head of the queue although pushes came between
its read and the release. The gateway's indices run freely and are masked: a slot found
through the wrapped index is the one of the unwrapped count because the capacity divides
the range.

**Transmit buffer of a socket.** `PointerInv` says that TX_RD, the pointer of the SEND under
way and TX_WR are whole frames apart, and that from the check of TX_FSR to the write of
TX_WR there is room for the frame: the cells it is written to hold nothing that is not
sent, although a slow chip may still be sending. `ContentInv` says that what has left, what
the chip holds and the frame being written are in one ascending order; a SEND cuts what the
chip holds between two frames (`FramesCut`), the write of TX_WR adds one (`FramesGrow`).
`CountInv` ties a SEND_OK in IR to a SEND that no success was counted for, which holds even
if a late result is taken for another frame's. `SmoothInv` says whose the result is as long
as no wait is given up while the chip is at work: the frame being sent is among those that
the SEND takes.

**Receive buffer of a socket.** `PointerInv` says which byte of the stream each of the
chip's wrapped pointers stands for, `ContentInv` that the cells between RX_RD of the last
RECV and RX_WR hold the bytes not yet released. A byte that arrives takes a cell that holds
none of these; the chunk read holds the bytes after the last one parsed. The theorem is about
`Rx` of `Buffers`, whose transfers fail up to the reading of the buffer: after it, a failure loses or repeats
the chunk, as said below.

**Parser.** The header announces a length that fits before the rest is read (`HeaderInv`);
that bounds the buffer for every checksum and stream of bytes. `CleanInv` says what the
parser holds of an undisturbed frame at each byte; that the frame is accepted is the lemma
`DecodeEncode`.

**Host programs.** `ClientReportsTrue` is `TypeOK`, `OkIsOwn` and `ExitHonest` of
`PongClient`. `OkIsOwn` rests on how far behind a PONG can be. In `tcp_client` a request
is over before its PONG is read only by a time-out that was a fault, so what is still on
its way to or from the peer is at most as many requests old as there were faults
(`LateInv`); with fewer faults than SEQs, an old PONG has another SEQ. The recovery client
leaves the connection instead, and what is on the new one is of the request that waits.
`StreamInv` follows the halves: the parser holds the first half of what comes next, or
nothing, and a second half alone is never that of the present request. `ReadInv` keeps the
awaited PONG in `rx_buffer` until it is fed, which gives `PongNotThrownAway`. `ExitHonest`
is arithmetic on the counters (`CountInv`). For `udp_client`, `SeqOf` gives each number its
SEQ, and numbers less than a turn apart have different ones. `NetInv` and `ReceivedInv` say
that what is on its way and what was received have the SEQs of their numbers, in order, and
that a repetition follows its original; the loss is then counted by a bijection between the
datagrams of the window that never came and the SEQs called MISSING.

Only model-checked: all liveness (`RequestAnswered`, `TelemetrySent`, `TxReleased`,
`ServiceRestored`, `SocketsProgress`, `TelemetryKeepsComing`, `ProgramsEnd`), which is out
of the prover's reach; what the CRC computes and what rests on it for a spoilt frame
(`NothingMadeUp`, `LossBounded`, `RejectionIsCheap`, `LossNoticed`): two frames with the
same checksum exist, so these are true of bounded damage only.

## Not modelled

* Register addresses and control bytes of the W5500; NULL arguments.
* A failing write of RX_RD or of RECV in `buffers`: the bytes of that chunk are lost or
  read again, which the stream parser has to live with (run `parser`).
* A failure in the middle of the two bytes of TX_WR in `W5500Tx`: the write is whole or has
  not happened.
* The checksum of a half PONG in `PongClient`: a second half whose first half is lost is
  skipped. The one SEQ whose CRC is AA 55 would look like a MAGIC there, and the parser
  would take the next PONG's header for the rest of it.
* Diagnostics that are one assignment: counters, water marks, cycle and heap statistics.
* The local UDP telemetry generator, which is compiled out.
* Payload contents, except in `StreamParser`.
* `host/fault_client.cpp` and `host/crc_fault_client.cpp`, which send a fixed script and
  keep no state; options, CSV files and statistics of the other host programs.
* Reordered UDP datagrams, which would let `udp_client` report a SEQ as MISSING that was
  overtaken.
* A SEQ that the recovery client repeats on a new connection could be answered by the PONG
  of the old one, given `gw_stale`; `PongClient` has a peer that answers per connection.
* Requests still in the chip when the client half-closes are dropped by the model as by
  the code; no document says what should happen.
* `seq_gap_count`, which `docs/protocol_v1.md:448` asks for and neither board keeps.
* A saturated RS-422 line, on which the remote node would never leave its receive loop.
* Generated start-up code, HAL, CMSIS, FreeRTOS and the USB host library. They make up
  nearly all lines of the repository (about 400 000 of 413 000, device headers and
  peripheral drivers that the program does not call for the most part) and are third-party
  code; the models state what the application relies on (queues, thread flags, priorities,
  interrupts, HAL results) as external definitions. What the map covers is a share of the
  application's own code in `common/`, `host/`, `remote_node*.c`, `uart_rx_ring.c` and the
  user sections of the gateway's `main.c`.

## Plan

Done: the gateway with its boot, chip access and deadlines, health, rings, parser, remote
node, the captures and the host tools modelled; every safety property of the boards and of
the host tools proved but those of a spoilt line; the gateway and both rings shown to
implement their abstract specifications.

Left, should the code change: the ways of a lost response. A client is owed an answer for
ever after a failed send or a second PING (`gw_pipe`); a retry or an error reply in the
code would let `GatewayService` promise that nothing stays owed.

----------------------------- MODULE RemoteNode -----------------------------
(***************************************************************************)
(* The STM32F429 remote node (f429_remote_node/App): remote_node.c and the *)
(* port that runs it, remote_node_port.c.  One task loops over             *)
(* remote_node_port_process; the UART5 interrupts fill the receive ring    *)
(* and count what they had to drop.  HAL_UART_Transmit blocks the task,    *)
(* not the interrupts.                                                     *)
(*                                                                         *)
(* Frames are whole: the ring holds valid frames and, as CRC and FORMAT,   *)
(* what the stream parser reports as an error.                             *)
(***************************************************************************)
EXTENDS Integers, Sequences, FiniteSets

CONSTANTS
    Frames,           \* frames that may arrive: [msg, seq, len]
    RingCap,          \* frames the receive ring holds
    TelemetryPeriod,  \* REMOTE_NODE_TELEMETRY_PERIOD_MS, in ticks
    HeartbeatPeriod,  \* REMOTE_NODE_HEARTBEAT_PERIOD_MS, in ticks
    TickWrap,         \* 2^32, where HAL_GetTick wraps
    SeqWrap,          \* 2^16, where a SEQ wraps
    MaxLag,           \* bound: ticks between two visits of the periodic part
    MaxArrivals,      \* bound: frames that arrive
    MaxFaults         \* bound: UART errors and failed transmissions

Requests == {"PING", "READ_STATUS"}
Others   == {"PONG", "STATUS_RESP", "HEARTBEAT", "TELEMETRY"}
BadKinds == {"CRC", "FORMAT"}
MsgKinds == Requests \cup Others \cup BadKinds \cup {"ERROR", "UNKNOWN"}

ASSUME RemoteAssumption ==
    /\ Frames \subseteq [msg : MsgKinds, seq : Nat, len : Nat]
    /\ RingCap \in Nat \ {0} /\ SeqWrap \in Nat \ {0} /\ MaxLag \in Nat
    /\ TelemetryPeriod \in Nat \ {0} /\ HeartbeatPeriod \in Nat \ {0}
    /\ TelemetryPeriod < MaxLag /\ HeartbeatPeriod < MaxLag /\ MaxLag < TickWrap
    /\ TickWrap \in Nat /\ MaxArrivals \in Nat /\ MaxFaults \in Nat

VARIABLES
    \* the interrupts
    ring,             \* rx_ring
    overflowPending,  \* rx_overflow_pending
    errorPending,     \* uart_error_pending
    now,              \* HAL_GetTick
    \* the task
    pc, ret,          \* control point, and where a transmission returns to
                      \* ("take" between transmissions)
    overflowCount, errorCount,  \* locals of remote_node_port_process
    t,                \* local now of remote_node_process_periodic, 0 outside it
    tx,               \* packet being transmitted
    \* remote_node_t
    comm,             \* stats.comm_status
    stats,            \* the counters of stats
    lastRequest,      \* last_request_msg_id and _seq, NoRequest at first
    lastTelemetry, lastHeartbeat,   \* last_telemetry_ms, last_heartbeat_ms
    telemetrySeq, heartbeatSeq,
    \* history
    arrived,          \* frames that the ring accepted
    refused,          \* frames that it refused
    faults,           \* UART errors and failed transmissions
    uartErrors,       \* UART errors
    replies,          \* replies that were tried, in order
    sinceTelemetry, sinceHeartbeat, \* ticks since the last one was tried
    heardSeq, unheard \* SEQ of the last telemetry that left; tried since then

isrVars  == <<ring, overflowPending, errorPending, arrived, refused, uartErrors>>
timeVars == <<now, sinceTelemetry, sinceHeartbeat>>
nodeVars == <<comm, stats, lastRequest>>
periodVars == <<lastTelemetry, lastHeartbeat, telemetrySeq, heartbeatSeq, heardSeq, unheard>>
loopVars == <<pc, ret, overflowCount, errorCount, t, tx>>
vars == <<isrVars, timeVars, nodeVars, periodVars, loopVars, faults, replies>>

Counters  == {"valid", "parser", "crc", "unknown", "duplicate", "overflow", "uart", "tx"}
NoRequest == [msg |-> "NONE", seq |-> 0]
NoPacket  == [msg |-> "NONE", seq |-> 0, code |-> "NONE"]
Packet(m, s, c) == [msg |-> m, seq |-> s, code |-> c]

\* remote_node_port_init.
Init ==
    /\ ring = <<>> /\ overflowPending = 0 /\ errorPending = 0 /\ now = 0
    /\ pc = "take" /\ ret = "take" /\ overflowCount = 0 /\ errorCount = 0
    /\ t = 0 /\ tx = NoPacket
    /\ comm = "INIT" /\ stats = [c \in Counters |-> 0] /\ lastRequest = NoRequest
    /\ lastTelemetry = 0 /\ lastHeartbeat = 0 /\ telemetrySeq = 0 /\ heartbeatSeq = 0
    /\ arrived = <<>> /\ refused = 0 /\ faults = 0 /\ uartErrors = 0 /\ replies = <<>>
    /\ sinceTelemetry = 0 /\ sinceHeartbeat = 0 /\ heardSeq = 0 /\ unheard = 0

-----------------------------------------------------------------------------
(* The interrupts.                                                         *)

\* Mutant: a frame overtakes the ones that wait in the ring.
RxIsrAtFront ==
    /\ Len(arrived) + refused < MaxArrivals /\ Len(ring) < RingCap
    /\ \E f \in Frames : ring' = <<f>> \o ring /\ arrived' = Append(arrived, f)
    /\ UNCHANGED <<overflowPending, refused, errorPending, uartErrors, timeVars, nodeVars,
                   periodVars, loopVars, faults, replies>>

\* HAL_UART_RxCpltCallback, for the bytes of a frame.
RxIsr ==
    /\ Len(arrived) + refused < MaxArrivals
    /\ IF Len(ring) < RingCap
       THEN \E f \in Frames : /\ ring' = Append(ring, f) /\ arrived' = Append(arrived, f)
                              /\ UNCHANGED <<overflowPending, refused>>
       ELSE /\ overflowPending' = overflowPending + 1 /\ refused' = refused + 1
            /\ UNCHANGED <<ring, arrived>>
    /\ UNCHANGED <<errorPending, uartErrors, timeVars, nodeVars, periodVars, loopVars,
                   faults, replies>>

\* HAL_UART_ErrorCallback.
ErrorIsr ==
    /\ faults < MaxFaults /\ faults' = faults + 1
    /\ errorPending' = errorPending + 1 /\ uartErrors' = uartErrors + 1
    /\ UNCHANGED <<ring, overflowPending, arrived, refused, timeVars, nodeVars, periodVars,
                   loopVars, replies>>

\* The tick interrupt.  The loop comes round before MaxLag ticks have passed.
Tick ==
    /\ sinceTelemetry < MaxLag /\ sinceHeartbeat < MaxLag
    /\ now' = (now + 1) % TickWrap
    /\ sinceTelemetry' = sinceTelemetry + 1 /\ sinceHeartbeat' = sinceHeartbeat + 1
    /\ UNCHANGED <<isrVars, nodeVars, periodVars, loopVars, faults, replies>>

-----------------------------------------------------------------------------
(* remote_node_port_process.                                               *)

\* Mutant: the counters are read but not cleared.
TakeKeeps ==
    /\ pc = "take"
    /\ overflowCount' = overflowPending /\ errorCount' = errorPending
    /\ pc' = "note"
    /\ UNCHANGED <<isrVars, timeVars, nodeVars, periodVars, ret, t, tx, faults, replies>>

\* The counters of the interrupts are taken over with interrupts disabled ...
TakeCounters ==
    /\ pc = "take"
    /\ overflowCount' = overflowPending /\ errorCount' = errorPending
    /\ overflowPending' = 0 /\ errorPending' = 0
    /\ pc' = "note"
    /\ UNCHANGED <<ring, arrived, refused, uartErrors, timeVars, nodeVars, periodVars, ret,
                   t, tx, faults, replies>>

\* ... and noted: remote_node_note_rx_overflow, remote_node_note_uart_error.
NoteCounters ==
    /\ pc = "note"
    /\ stats' = [stats EXCEPT !["overflow"] = @ + overflowCount, !["uart"] = @ + errorCount]
    /\ comm' = IF overflowCount + errorCount > 0 THEN "ERROR" ELSE comm
    /\ overflowCount' = 0 /\ errorCount' = 0 /\ pc' = "rx"
    /\ UNCHANGED <<isrVars, timeVars, lastRequest, periodVars, ret, t, tx, faults, replies>>

\* Mutant: a frame of an unsupported type is ignored.
ReplyToKnown(f) ==
    IF f.len # 0 THEN Packet("ERROR", f.seq, "BAD_LENGTH")
    ELSE IF f.msg = "PING" THEN Packet("PONG", f.seq, "NONE")
    ELSE IF f.msg = "READ_STATUS" THEN Packet("STATUS_RESP", f.seq, "NONE")
    ELSE NoPacket

\* remote_node_handle_packet: the reply to a valid frame.
Reply(f) ==
    CASE f.msg = "ERROR" -> NoPacket
      [] f.msg = "UNKNOWN" -> Packet("ERROR", f.seq, "UNKNOWN_MSG")
      [] f.msg \in Others -> Packet("ERROR", f.seq, "UNSUPPORTED")
      [] f.msg \in Requests /\ f.len # 0 -> Packet("ERROR", f.seq, "BAD_LENGTH")
      [] f.msg = "PING" /\ f.len = 0 -> Packet("PONG", f.seq, "NONE")
      [] f.msg = "READ_STATUS" /\ f.len = 0 -> Packet("STATUS_RESP", f.seq, "NONE")

\* remote_node_remember_request is called for it.
Remembered(f) == f.msg \in Requests /\ f.len = 0
IsDuplicate(f) == Remembered(f) /\ lastRequest = [msg |-> f.msg, seq |-> f.seq]

\* remote_node_send_packet begins; HAL_UART_Transmit blocks until TxEnd.
Send(p, return) == tx' = p /\ pc' = "tx" /\ ret' = return

\* Mutant: a SEQ does not wrap.
WideSeq(s) == s + 1

\* (uint16_t)(seq + 1u).
NextSeq(s) == (s + 1) % SeqWrap

One(condition) == IF condition THEN 1 ELSE 0

\* remote_node_process_byte on the last byte of a valid frame.
HandleFrame ==
    /\ pc = "rx" /\ ring # <<>> /\ Head(ring).msg \notin BadKinds
    /\ LET f == Head(ring)
       IN /\ stats' = [stats EXCEPT !["valid"] = @ + 1,
                                    !["duplicate"] = @ + One(IsDuplicate(f)),
                                    !["unknown"] = @ + One(f.msg = "UNKNOWN")]
          /\ comm' = IF comm = "INIT" THEN "OK" ELSE comm
          /\ lastRequest' = IF Remembered(f) THEN [msg |-> f.msg, seq |-> f.seq]
                                             ELSE lastRequest
          /\ IF Reply(f) = NoPacket
             THEN UNCHANGED <<tx, pc, ret, replies>>
             ELSE Send(Reply(f), "rx") /\ replies' = Append(replies, Reply(f))
    /\ ring' = Tail(ring)
    /\ UNCHANGED <<overflowPending, errorPending, arrived, refused, uartErrors, timeVars,
                   periodVars, overflowCount, errorCount, t, faults>>

\* ... and when the parser reports an error: it is counted, nothing is answered.
HandleBad ==
    /\ pc = "rx" /\ ring # <<>> /\ Head(ring).msg \in BadKinds
    /\ stats' = [stats EXCEPT ![IF Head(ring).msg = "CRC" THEN "crc" ELSE "parser"] = @ + 1]
    /\ ring' = Tail(ring)
    /\ UNCHANGED <<overflowPending, errorPending, arrived, refused, uartErrors, timeVars,
                   comm, lastRequest, periodVars, loopVars, faults, replies>>

\* The ring is empty.
RxEmpty ==
    /\ pc = "rx" /\ ring = <<>>
    /\ pc' = "telemetry"
    /\ UNCHANGED <<isrVars, timeVars, nodeVars, periodVars, ret, overflowCount, errorCount, t,
                   tx, faults, replies>>

-----------------------------------------------------------------------------
(* remote_node_process_periodic and the transmission.                      *)

\* Mutant: the difference is not taken modulo the width of the tick.
SignedElapsed(at, last) == at - last

\* (uint32_t)(now - last).
Elapsed(at, last) == (at - last) % TickWrap

\* Mutant: half a period is enough.
DueEarly(elapsed, period) == 2 * elapsed >= period

PeriodOver(elapsed, period) == elapsed >= period

\* TELEMETRY: the time is read once, for both parts.
Telemetry ==
    /\ pc = "telemetry"
    /\ t' = now
    /\ IF PeriodOver(Elapsed(now, lastTelemetry), TelemetryPeriod)
       THEN /\ lastTelemetry' = now /\ sinceTelemetry' = 0
            /\ telemetrySeq' = NextSeq(telemetrySeq) /\ unheard' = unheard + 1
            /\ Send(Packet("TELEMETRY", telemetrySeq', "NONE"), "heartbeat")
       ELSE /\ pc' = "heartbeat"
            /\ UNCHANGED <<lastTelemetry, sinceTelemetry, telemetrySeq, unheard, tx, ret>>
    /\ UNCHANGED <<isrVars, now, sinceHeartbeat, nodeVars, lastHeartbeat, heartbeatSeq,
                   heardSeq, overflowCount, errorCount, faults, replies>>

\* Mutant: TELEMETRY and HEARTBEAT share one counter.
HeartbeatSharesSeq ==
    /\ pc = "heartbeat" /\ t' = 0
    /\ IF PeriodOver(Elapsed(t, lastHeartbeat), HeartbeatPeriod)
       THEN /\ lastHeartbeat' = t /\ sinceHeartbeat' = 0
            /\ telemetrySeq' = NextSeq(telemetrySeq)
            /\ Send(Packet("HEARTBEAT", telemetrySeq', "NONE"), "take")
       ELSE /\ pc' = "take"
            /\ UNCHANGED <<lastHeartbeat, sinceHeartbeat, telemetrySeq, tx, ret>>
    /\ UNCHANGED <<isrVars, now, sinceTelemetry, nodeVars, lastTelemetry, heartbeatSeq,
                   heardSeq, unheard, overflowCount, errorCount, faults, replies>>

\* HEARTBEAT; then the task sleeps for a tick and starts again.
Heartbeat ==
    /\ pc = "heartbeat" /\ t' = 0
    /\ IF PeriodOver(Elapsed(t, lastHeartbeat), HeartbeatPeriod)
       THEN /\ lastHeartbeat' = t /\ sinceHeartbeat' = Elapsed(now, t)
            /\ heartbeatSeq' = NextSeq(heartbeatSeq)
            /\ Send(Packet("HEARTBEAT", heartbeatSeq', "NONE"), "take")
       ELSE /\ pc' = "take"
            /\ UNCHANGED <<lastHeartbeat, sinceHeartbeat, heartbeatSeq, tx, ret>>
    /\ UNCHANGED <<isrVars, now, sinceTelemetry, nodeVars, lastTelemetry, telemetrySeq,
                   heardSeq, unheard, overflowCount, errorCount, faults, replies>>

\* HAL_UART_Transmit returns HAL_OK.
TxEnd ==
    /\ pc = "tx"
    /\ IF tx.msg = "TELEMETRY" THEN heardSeq' = tx.seq /\ unheard' = 0
                               ELSE UNCHANGED <<heardSeq, unheard>>
    /\ pc' = ret /\ ret' = "take" /\ tx' = NoPacket
    /\ UNCHANGED <<isrVars, timeVars, nodeVars, lastTelemetry, lastHeartbeat, telemetrySeq,
                   heartbeatSeq, overflowCount, errorCount, t, faults, replies>>

\* Mutant: a failed transmission is counted but does not change the status.
TxFailsQuietly ==
    /\ pc = "tx" /\ faults < MaxFaults /\ faults' = faults + 1
    /\ stats' = [stats EXCEPT !["tx"] = @ + 1]
    /\ pc' = ret /\ ret' = "take" /\ tx' = NoPacket
    /\ UNCHANGED <<isrVars, timeVars, comm, lastRequest, periodVars, overflowCount,
                   errorCount, t, replies>>

\* It fails or times out: the packet is lost, its SEQ is used up.
TxFails ==
    /\ pc = "tx" /\ faults < MaxFaults /\ faults' = faults + 1
    /\ stats' = [stats EXCEPT !["tx"] = @ + 1] /\ comm' = "ERROR"
    /\ pc' = ret /\ ret' = "take" /\ tx' = NoPacket
    /\ UNCHANGED <<isrVars, timeVars, lastRequest, periodVars, overflowCount, errorCount,
                   t, replies>>

Task ==
    \/ TakeCounters \/ NoteCounters \/ HandleFrame \/ HandleBad \/ RxEmpty
    \/ Telemetry \/ Heartbeat \/ TxEnd \/ TxFails

Next == RxIsr \/ ErrorIsr \/ Tick \/ Task

Spec == Init /\ [][Next]_vars

(* The task runs and time goes on; nothing forces a frame or an error.     *)
FairSpec == Spec /\ WF_vars(Task) /\ WF_vars(Tick)

-----------------------------------------------------------------------------
(* Properties.                                                             *)

TypeOK ==
    /\ ring \in Seq(Frames) /\ Len(ring) <= RingCap
    /\ overflowPending \in Nat /\ errorPending \in Nat
    /\ now \in 0..TickWrap - 1 /\ t \in 0..TickWrap - 1
    /\ pc \in {"take", "note", "rx", "tx", "telemetry", "heartbeat"}
    /\ ret \in {"take", "rx", "heartbeat"}
    /\ overflowCount \in Nat /\ errorCount \in Nat
    /\ comm \in {"INIT", "OK", "ERROR"} /\ stats \in [Counters -> Nat]
    /\ lastTelemetry \in 0..TickWrap - 1 /\ lastHeartbeat \in 0..TickWrap - 1
    /\ telemetrySeq \in 0..SeqWrap - 1 /\ heartbeatSeq \in 0..SeqWrap - 1

\* Every byte that the interrupt dropped and every UART error is counted once, also one
\* that happens while the task takes the counters over.
NothingUncounted ==
    /\ refused = stats["overflow"] + overflowCount + overflowPending
    /\ uartErrors = stats["uart"] + errorCount + errorPending

\* A frame that is owed a reply: not an ERROR, and nothing that the parser rejects.
IsOwed(f) == f.msg \notin BadKinds \cup {"ERROR"}

\* The frames that the task has taken, and how many replies the first i of them are owed.
Handled == Len(arrived) - Len(ring)
Owed(i) == Cardinality({j \in 1..i : IsOwed(arrived[j])})

\* Every frame that the ring accepted is answered exactly once and in order, unless it
\* is an ERROR or broken: the task takes the frames as they came, and the k-th reply is
\* to the k-th frame that is owed one.
AnsweredOnce ==
    /\ \A i \in 1..Len(ring) : ring[i] = arrived[Handled + i]
    /\ Len(replies) = Owed(Handled)
    /\ \A i \in 1..Handled : IsOwed(arrived[i]) => replies[Owed(i)].seq = arrived[i].seq

\* The communication status tells the truth about the counters: ERROR after any dropped
\* byte, UART error or failed transmission, OK after a valid frame otherwise.
StatusHonest ==
    comm = IF stats["overflow"] + stats["uart"] + stats["tx"] > 0 THEN "ERROR"
           ELSE IF stats["valid"] > 0 THEN "OK" ELSE "INIT"

\* The receiver can tell from the SEQ how many TELEMETRY packets it has not got:
\* HEARTBEAT and replies use up none, a failed transmission uses up one.
GapShowsLoss == (telemetrySeq - heardSeq) % SeqWrap = unheard % SeqWrap

\* TELEMETRY is never sent early, also across the wrap of the tick.
TelemetryPaced ==
    [][pc = "telemetry" /\ pc' = "tx" => sinceTelemetry >= TelemetryPeriod]_vars

\* TELEMETRY keeps coming, also across the wrap of the tick.
TelemetryKeepsComing == []<>(tx.msg = "TELEMETRY")

-----------------------------------------------------------------------------
(* The inductive invariants behind the properties.                         *)

\* What TypeOK leaves out, of the history, of the packet being sent and of the copies
\* of the counters.
HistoryType ==
    /\ arrived \in Seq(Frames) /\ Len(ring) <= Len(arrived)
    /\ replies \in Seq([msg : {"PONG", "STATUS_RESP", "ERROR"}, seq : Nat,
                        code : {"NONE", "UNKNOWN_MSG", "UNSUPPORTED", "BAD_LENGTH"}])
    /\ refused \in Nat /\ uartErrors \in Nat /\ faults \in Nat
    /\ heardSeq \in 0..SeqWrap - 1 /\ unheard \in Nat
    /\ tx.msg = "TELEMETRY" => pc = "tx" /\ tx.seq = telemetrySeq
    /\ pc # "note" => overflowCount = 0 /\ errorCount = 0

\* The tick, and the ticks since the last TELEMETRY was tried, tell the same.
ClockInv ==
    /\ sinceTelemetry \in 0..MaxLag
    /\ now = lastTelemetry + sinceTelemetry
               - (IF lastTelemetry + sinceTelemetry < TickWrap THEN 0 ELSE TickWrap)

NodeInv ==
    /\ TypeOK /\ HistoryType /\ ClockInv
    /\ NothingUncounted /\ StatusHonest /\ GapShowsLoss /\ AnsweredOnce
=============================================================================

------------------------------ MODULE EthDiag ------------------------------
(***************************************************************************)
(* The ethernet_diag_ functions of the gateway's main.c: how long after a  *)
(* link came back the TCP server listened, the first PONG was sent and the *)
(* first telemetry was sent.  UINT32_MAX stands for a time that was not    *)
(* captured, and is a value that the tick takes too.                       *)
(*                                                                         *)
(* EthernetTask alone runs them.  The kernel tick is 1 kHz, so ticks and   *)
(* milliseconds are the same number.                                       *)
(***************************************************************************)
EXTENDS Integers

CONSTANTS
    Ticks,          \* 2^32, where the tick wraps
    Starts,         \* ticks at which a behaviour may begin
    MaxTime         \* bound: true time of a behaviour

Marks == {"ready", "pong", "udp"}
NotCaptured == Ticks - 1       \* UINT32_MAX, also DIAG_TIMESTAMP_NOT_CAPTURED_MS

\* What the constants must be.
EthDiagAssumption ==
    /\ Ticks \in Nat \ {0} /\ Starts \subseteq 0..(Ticks - 1) /\ MaxTime \in 0..(Ticks - 2)

VARIABLES
    tick,       \* osKernelGetTickCount()
    active,     \* g_eth_diag_recovery_cycle_active
    upTick,     \* g_eth_diag_link_up_tick
    markTick,   \* g_eth_diag_tcp_service_ready_tick and so on
    elapsed,    \* g_eth_diag_linkup_to_tcp_service_ready_ms and so on
    link,       \* g_w5500_link_up
    serving,    \* the TCP server listens or is in use
    \* history
    time,       \* true time
    upTime,     \* of the link-up of the present outage, or -1
    firstAt     \* first time of a mark since then, the tick UINT32_MAX excepted, or -1

vars == <<tick, active, upTick, markTick, elapsed, link, serving, time, upTime, firstAt>>
diagVars == <<active, upTick, markTick, elapsed>>

\* ethernet_diag_initialize.
Init ==
    /\ tick \in Starts /\ active = FALSE /\ upTick = NotCaptured
    /\ markTick = [m \in Marks |-> NotCaptured] /\ elapsed = [m \in Marks |-> NotCaptured]
    /\ link = TRUE /\ serving = TRUE /\ time = 0 /\ upTime = -1
    /\ firstAt = [m \in Marks |-> -1]

Tick ==
    /\ time < MaxTime /\ time' = time + 1 /\ tick' = (tick + 1) % Ticks
    /\ UNCHANGED <<diagVars, link, serving, upTime, firstAt>>

\* Mutant: a new cycle keeps the times of the last one.
Kept(f) == f

\* The times that a new cycle begins with.
Cleared(f) == [m \in Marks |-> NotCaptured]

\* The link goes down: ethernet_diag_arm_recovery.
LinkDown ==
    /\ link /\ link' = FALSE /\ serving' = FALSE
    /\ active' = TRUE /\ upTick' = NotCaptured
    /\ markTick' = Cleared(markTick) /\ elapsed' = Cleared(elapsed)
    /\ upTime' = -1 /\ firstAt' = [m \in Marks |-> -1]
    /\ UNCHANGED <<tick, time>>

\* The link comes back: ethernet_diag_record_link_up.
LinkUp ==
    /\ ~link /\ link' = TRUE
    /\ upTick' = IF active /\ upTick = NotCaptured THEN tick ELSE upTick
    /\ upTime' = time
    /\ UNCHANGED <<tick, active, markTick, elapsed, serving, time, firstAt>>

\* Mutant: the cycle is over with any of the three.
CompleteWithAny(f) == \E m \in Marks : f[m] # NotCaptured

\* ethernet_diag_finish_if_complete.
Complete(f) == \A m \in Marks : f[m] # NotCaptured

\* The early return of the three functions that record.
Records(m) == active /\ upTick # NotCaptured /\ markTick[m] = NotCaptured

\* elapsed_ticks, an unsigned difference.
Elapsed == (tick - upTick) % Ticks

\* ethernet_diag_record_tcp_service_ready, _tcp_pong_tx_success, _udp_tx_success.
Record(m) ==
    /\ IF Records(m)
       THEN /\ elapsed' = [elapsed EXCEPT ![m] = Elapsed]
            /\ markTick' = [markTick EXCEPT ![m] = tick]
            /\ active' = ~Complete(markTick')
       ELSE UNCHANGED <<elapsed, markTick, active>>
    /\ firstAt' = IF upTime # -1 /\ firstAt[m] = -1 /\ tick # NotCaptured
                  THEN [firstAt EXCEPT ![m] = time] ELSE firstAt
    /\ UNCHANGED <<tick, upTick, link, time, upTime>>

\* w5500_listen_tcp_server succeeds: after the outage, and again after a session.
Listening == link /\ serving' = TRUE /\ Record("ready")

\* A PONG is sent to a TCP client.
PongSent == link /\ serving /\ Record("pong") /\ UNCHANGED serving

\* Telemetry is sent; the UDP socket outlives the outage.
TelemetrySent == link /\ Record("udp") /\ UNCHANGED serving

Next == Tick \/ LinkDown \/ LinkUp \/ Listening \/ PongSent \/ TelemetrySent

Spec == Init /\ [][Next]_vars

-----------------------------------------------------------------------------
\* Type invariant.
TypeOK ==
    /\ tick \in 0..(Ticks - 1) /\ active \in BOOLEAN /\ upTick \in 0..(Ticks - 1)
    /\ markTick \in [Marks -> 0..(Ticks - 1)] /\ elapsed \in [Marks -> 0..(Ticks - 1)]
    /\ link \in BOOLEAN /\ serving \in BOOLEAN /\ time \in 0..MaxTime
    /\ upTime \in -1..MaxTime /\ firstAt \in [Marks -> -1..MaxTime]

\* A time that counts as captured is that of the first such event since the link of
\* the last outage came back, as the true clock has it, also when the tick wraps in
\* between; only an event in the one tick that reads UINT32_MAX is passed over.
RecordedIsFirst ==
    \A m \in Marks : markTick[m] # NotCaptured =>
        firstAt[m] # -1 /\ elapsed[m] = firstAt[m] - upTime

\* No event is missed: once the link is back, its time is captured, unless the link
\* itself came back in the tick that reads UINT32_MAX.
NothingMissed ==
    upTick # NotCaptured => \A m \in Marks : firstAt[m] # -1 => markTick[m] # NotCaptured

\* The three together: what the diagnostics report of a recovery is true.
CaptureTrue == TypeOK /\ RecordedIsFirst /\ NothingMissed

-----------------------------------------------------------------------------
(* The inductive invariant behind it.                                      *)

\* The tick at which the link came back and its true time tell the same.
UpInv ==
    upTick # NotCaptured =>
        /\ upTime \in 0..time
        /\ tick = upTick + (time - upTime)
                    - (IF upTick + (time - upTime) < Ticks THEN 0 ELSE Ticks)

\* While the link is down, a cycle is armed and empty; one that is over has all times.
CycleInv ==
    /\ ~link => /\ active /\ upTick = NotCaptured /\ upTime = -1
                /\ \A m \in Marks : markTick[m] = NotCaptured /\ firstAt[m] = -1
    /\ upTick # NotCaptured /\ ~active => \A m \in Marks : markTick[m] # NotCaptured

CaptureInv == CaptureTrue /\ UpInv /\ CycleInv
=============================================================================

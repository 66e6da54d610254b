------------------------------- MODULE Health -------------------------------
(***************************************************************************)
(* HealthTask of the gateway: every HEALTH_TASK_PERIOD_MS it decides from  *)
(* the tick of the last valid RS-422 frame whether communication is lost.  *)
(*                                                                         *)
(* It has the lowest priority: RS422Task may preempt it between any two    *)
(* reads of the shared variables and store the tick of a new frame.  Ticks *)
(* are a uint32_t, here modulo TickMod; now is real time, which the code   *)
(* cannot see.                                                             *)
(***************************************************************************)
EXTENDS Integers

CONSTANTS
    TickMod,        \* 2^32: the kernel tick count wraps here
    Period,         \* health_period_ticks
    Timeout,        \* comm_timeout_ticks
    MaxLag,         \* ticks that higher priorities may delay a pass of the task
    Start,          \* tick at which HealthTask starts
    Horizon         \* bound: real time of a behaviour

ASSUME HealthAssumption ==
    /\ TickMod \in Nat /\ Period \in Nat \ {0} /\ Timeout \in Nat \ {0}
    /\ MaxLag \in Nat /\ Start \in Nat /\ Horizon \in Nat
    /\ Timeout < TickMod /\ Start <= Horizon

VARIABLES
    now,            \* real time, in ticks since the kernel started
    hpc,            \* control point of HealthTask
    wake,           \* next_wake_tick, as real time
    cur, has, last, \* current_tick, has_valid_frame, last_valid_frame_tick (locals)
    hasValid,       \* g_rs422_has_valid_frame
    lastTick,       \* g_rs422_last_valid_frame_tick
    state,          \* g_rs422_comm_state
    firstValid,     \* g_rs422_diag_recovery_first_valid_tick, NoTick if UINT32_MAX
    timeouts,       \* g_rs422_comm_timeout_count
    recoveries,     \* g_rs422_comm_recovery_count
    lastFrame       \* history: real time of the last valid frame, Start before any

local  == <<cur, has, last>>
shared == <<hasValid, lastTick, lastFrame>>
counts == <<timeouts, recoveries>>
vars   == <<now, hpc, wake, local, shared, state, firstValid, counts>>

NoTick == -1

\* osKernelGetTickCount.
TickAt(t) == t % TickMod

\* (uint32_t)(later - earlier).
Elapsed(later, earlier) == (later - earlier) % TickMod

Init ==
    /\ now = Start /\ hpc = "sleep" /\ wake = Start + Period
    /\ cur = 0 /\ has = FALSE /\ last = 0
    /\ hasValid = FALSE /\ lastTick = 0 /\ lastFrame = Start
    /\ state = "INIT" /\ firstValid = NoTick
    /\ timeouts = 0 /\ recoveries = 0

-----------------------------------------------------------------------------
\* Time passes; a pass of the task that is due is over at most MaxLag ticks late.
Tick ==
    /\ now < Horizon
    /\ now < wake + MaxLag
    /\ now' = now + 1
    /\ UNCHANGED <<hpc, wake, local, shared, state, firstValid, counts>>

\* rs422_process_rx_buffer on a valid frame, in RS422Task.
FrameReceived ==
    /\ lastTick' = TickAt(now) /\ hasValid' = TRUE /\ lastFrame' = now
    /\ firstValid' = IF state = "TIMEOUT" /\ firstValid = NoTick
                     THEN TickAt(now) ELSE firstValid
    /\ UNCHANGED <<now, hpc, wake, local, state, counts>>

\* osDelayUntil returns and the tick is read.
Wake ==
    /\ hpc = "sleep" /\ now >= wake
    /\ cur' = TickAt(now) /\ hpc' = "read_has"
    /\ UNCHANGED <<now, wake, has, last, shared, state, firstValid, counts>>

ReadHas ==
    /\ hpc = "read_has"
    /\ has' = hasValid /\ hpc' = "read_last"
    /\ UNCHANGED <<now, wake, cur, last, shared, state, firstValid, counts>>

ReadLast ==
    /\ hpc = "read_last"
    /\ last' = lastTick /\ hpc' = "judge"
    /\ UNCHANGED <<now, wake, cur, has, shared, state, firstValid, counts>>

\* The end of a pass: the next one is due a period after this one was.
Sleep == hpc' = "sleep" /\ wake' = wake + Period

\* Mutant: silence counts from the first frame on only.
ExpiredAfterFrame == has /\ Elapsed(cur, last) >= Timeout

\* Mutant: the tests for the silence and for the state are one condition, so that its
\* else branch also takes an old silence.
ExpiredOnce == state # "TIMEOUT" /\ Elapsed(cur, IF has THEN last ELSE TickAt(Start)) >= Timeout

\* Silence since the last frame, or since the start if there was none.
Expired == Elapsed(cur, IF has THEN last ELSE TickAt(Start)) >= Timeout

\* Communication is lost: rs422_diag_record_timeout_transition, then the state.
JudgeExpired ==
    /\ hpc = "judge" /\ Expired
    /\ IF state = "TIMEOUT"
       THEN Sleep /\ UNCHANGED firstValid
       ELSE hpc' = "set_timeout" /\ firstValid' = NoTick /\ UNCHANGED wake
    /\ UNCHANGED <<now, local, shared, state, counts>>

SetTimeout ==
    /\ hpc = "set_timeout"
    /\ timeouts' = timeouts + 1 /\ state' = "TIMEOUT"
    /\ Sleep
    /\ UNCHANGED <<now, local, shared, firstValid, recoveries>>

\* Mutant: the first frame ever counts as a recovery.
JudgeFreshMiscounted ==
    /\ hpc = "judge" /\ ~Expired
    /\ state' = IF has THEN "OK" ELSE state
    /\ recoveries' = IF has /\ state # "OK" THEN recoveries + 1 ELSE recoveries
    /\ Sleep
    /\ UNCHANGED <<now, local, shared, firstValid, timeouts>>

\* Communication is there, or was never there but the timeout has not passed.
JudgeFresh ==
    /\ hpc = "judge" /\ ~Expired
    /\ state' = IF has THEN "OK" ELSE state
    /\ recoveries' = IF has /\ state = "TIMEOUT" THEN recoveries + 1 ELSE recoveries
    /\ Sleep
    /\ UNCHANGED <<now, local, shared, firstValid, timeouts>>

Next == \/ Tick \/ FrameReceived
        \/ Wake \/ ReadHas \/ ReadLast \/ JudgeExpired \/ SetTimeout \/ JudgeFresh

Spec == Init /\ [][Next]_vars

-----------------------------------------------------------------------------
(* Properties.                                                             *)

TypeOK ==
    /\ now \in Start..Horizon /\ wake \in Nat
    /\ hpc \in {"sleep", "read_has", "read_last", "judge", "set_timeout"}
    /\ cur \in 0..TickMod - 1 /\ last \in 0..TickMod - 1 /\ lastTick \in 0..TickMod - 1
    /\ has \in BOOLEAN /\ hasValid \in BOOLEAN /\ lastFrame \in Start..now
    /\ state \in {"INIT", "OK", "TIMEOUT"}
    /\ firstValid \in {NoTick} \cup 0..TickMod - 1
    /\ timeouts \in Nat /\ recoveries \in Nat

\* Real silence on the RS-422 line, counted from the start before any frame.
Silence == now - lastFrame

\* Loss is detected: no state but TIMEOUT outlives a silence of the timeout, the
\* period of the task and its delays, also when the tick count wraps meanwhile.
LossDetected == state # "TIMEOUT" => Silence <= Timeout + Period + MaxLag

\* Communication is declared recovered only on a frame of the last Timeout ticks
\* before the pass began.
RecoveryHasFrame ==
    [][state' = "OK" /\ state = "TIMEOUT" => Silence < Timeout + MaxLag]_vars

\* The two counters alternate: every loss is counted once, and so is its recovery.
LossesCounted == timeouts = recoveries + (IF state = "TIMEOUT" THEN 1 ELSE 0)

\* COMM_TIMEOUT is entered only after a silence of RS422_COMM_TIMEOUT_MS.
TimeoutHasSilence ==
    [][state' = "TIMEOUT" /\ state # "TIMEOUT" => Silence >= Timeout]_vars

-----------------------------------------------------------------------------
(* The inductive invariants behind the properties.                         *)

\* The silence is one that a tick of this width can tell: less than 49.7 days.
SilenceMeasurable == Silence < TickMod

\* What is shared stands for the last frame, or for none.
FrameInv ==
    /\ hasValid => lastTick = TickAt(lastFrame)
    /\ ~hasValid => lastFrame = Start
    /\ has => hasValid

\* A pass began at a time c that its deadline had come at, and judges a frame (or the
\* start) that is not a whole turn of the tick count older.
PassInv ==
    hpc # "sleep" =>
        \E c \in wake..now :
            /\ cur = TickAt(c)
            /\ hpc \in {"read_last", "judge"} /\ ~has => c - Start < TickMod
            /\ hpc = "judge" /\ has =>
                  \E l \in Start..lastFrame : last = TickAt(l) /\ c - l < TickMod

\* The pass before this one saw a frame, or the start, that was fresh.
FreshInv == state # "TIMEOUT" => wake - Period < lastFrame + Timeout

HealthInv == TypeOK /\ now <= wake + MaxLag /\ FrameInv /\ PassInv /\ FreshInv

\* The losses and the recoveries alternate, also between the two steps of a loss.
CountInv == LossesCounted /\ (hpc = "set_timeout" => state # "TIMEOUT")
=============================================================================

------------------------------- MODULE Clock -------------------------------
(* What the gateway reckons with its wrapping tick: HealthTask, the        *)
(* deadlines of EthernetTask, and the captures of a link recovery and of a *)
(* session.  They share nothing, so that a behaviour is about one of them. *)
EXTENDS Health, Sequences

CONSTANTS
    TickRange, DataPeriod, PhyPeriod, Retry, MaxPass, MaxOutage,  \* of Deadlines
    Ticks, Starts, MaxTime,             \* of EthDiag; Ticks of SessionDiag, too
    Seqs, CmdDepth, MaxSessions, MaxPings, SessionTime  \* of SessionDiag

VARIABLES
    part,       \* what this behaviour is about
    pc, dNow, nextPhy, nextData, nextRestart, dataDue, waiting, linkUp, wasUp, polled,
    recovery, restart, spiOk, spent, phyLag, dataLag, wanted,
    tick, active, upTick, markTick, elapsed, eLink, serving, time, upTime, firstAt,
    epc, pkt, at, took, firstSeq, valid, sessionActive, cmdQ, respQ, pending, pendingSeq, wire,
    sNow, sendAt, sessions, pings, began, early

dVars == <<pc, dNow, nextPhy, nextData, nextRestart, dataDue, waiting, linkUp, wasUp,
           polled, recovery, restart, spiOk, spent, phyLag, dataLag, wanted>>
eVars == <<tick, active, upTick, markTick, elapsed, eLink, serving, time, upTime, firstAt>>
sVars == <<epc, pkt, at, took, firstSeq, valid, sessionActive, cmdQ, respQ, pending, pendingSeq,
           wire, sNow, sendAt, sessions, pings, began, early>>
clockVars == <<part, vars, dVars, eVars, sVars>>

D == INSTANCE Deadlines WITH now <- dNow
E == INSTANCE EthDiag WITH link <- eLink
S == INSTANCE SessionDiag WITH MaxTime <- SessionTime, now <- sNow

ASSUME ClockAssumption ==
    D!DeadlinesAssumption /\ E!EthDiagAssumption /\ S!SessionDiagAssumption

\* A part that the behaviour is not about stays in one of its initial states.  The
\* deadlines start with the tick, which wraps in the run again and again.
ClockInit ==
    /\ part \in {"health", "deadlines", "recovery", "session"}
    /\ Init /\ D!Init /\ E!Init /\ S!Init
    /\ dNow = 0 /\ (part # "deadlines" => ~restart)
    /\ part # "recovery" => tick = 0

\* A session's behaviour ends with its bounds.
SessionOver == part = "session" /\ UNCHANGED clockVars

ClockNext ==
    \/ SessionOver
    \/ /\ UNCHANGED part
       /\ \/ part = "health"    /\ Next   /\ UNCHANGED <<dVars, eVars, sVars>>
          \/ part = "deadlines" /\ D!Next /\ UNCHANGED <<vars, eVars, sVars>>
          \/ part = "recovery"  /\ E!Next /\ UNCHANGED <<vars, dVars, sVars>>
          \/ part = "session"   /\ S!Next /\ UNCHANGED <<vars, dVars, eVars>>

ClockSpec == ClockInit /\ [][ClockNext]_clockVars

-----------------------------------------------------------------------------
(* The properties of Deadlines, EthDiag and SessionDiag; those of Health   *)
(* are extended.                                                           *)

\* EthernetTask starts a pass with no deadline further behind than one pass, and the
\* sign of a wrapped difference is that of the true one.
StartsInTime == D!TypeOK /\ D!StartsInTime

\* A restart of the TCP server that is wanted is tried in time after the last read of the
\* W5500 that fails, however long the link was down.
RestartTriedInTime == D!RestartTriedInTime

\* ethernet_diag_record_...: a captured time is that of the first event after link-up,
\* and an event that happened is captured.
CaptureTrue == E!CaptureTrue

\* The stamps of diagnostic_begin_tcp_session and of both tasks: none of an active
\* session is older than it, RS422Task takes none before the PING was parsed, and a
\* distance is the one between its two stamps, which only that from the PONG's coming to
\* its sending can have in the wrong order, in a session given a PONG before its PING.
StampsTrue == S!StampsTrue
=============================================================================

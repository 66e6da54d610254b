---------------------------- MODULE SessionDiag ----------------------------
(***************************************************************************)
(* The time stamps of a TCP session's first PING in the gateway's main.c:  *)
(* EthernetTask clears them for a new session and takes the first and the  *)
(* last ones, RS422Task the ones between.  g_diag_first_ping_seq_valid is  *)
(* how they agree: a store to it is ordered by a barrier (__DMB).          *)
(*                                                                         *)
(* RS422Task preempts EthernetTask and is not preempted by it, so that a   *)
(* step of RS422Task is whole, and EthernetTask has a step for each access *)
(* to what the two share.  The stores of ClearStamps, Receive and Parse    *)
(* are one step because RS422Task touches no stamp while the SEQ is not    *)
(* valid.  The command queue is not emptied between sessions, so that      *)
(* RS422Task may work on a PING of the last one.                           *)
(***************************************************************************)
EXTENDS Integers, Sequences

CONSTANTS
    Seqs,           \* SEQ values of the PINGs
    CmdDepth,       \* RS422_CMD_QUEUE_DEPTH
    Ticks,          \* values of uint32_t: 2^32 in the code
    MaxSessions, MaxPings, MaxTime      \* bounds of a behaviour

\* What the constants must be.
SessionDiagAssumption ==
    /\ Seqs \subseteq Nat \ {0} /\ CmdDepth \in Nat \ {0}
    /\ MaxSessions \in Nat /\ MaxPings \in Nat
    /\ Ticks \in Nat /\ MaxTime \in 0..Ticks - 2

Stages == {"established", "rx", "parsed", "tx", "pong", "send"}
Distances == (Stages \ {"established"}) \cup {"total"}
RsStages == {"tx", "pong"}
None == Ticks - 1       \* DIAG_TIMESTAMP_NOT_CAPTURED_MS
Stamps == 0..MaxTime \cup {None}
NoDistance == [d \in Distances |-> None]

VARIABLES
    epc,        \* what EthernetTask is at
    pkt,        \* SEQ of the PING being handled
    at,         \* g_diag_tcp_established_ms and the other time stamps
    took,       \* g_diag_established_to_rx_ready_ms and so on, named by their end;
                \* "total" is g_diag_established_to_tcp_pong_send_ms
    firstSeq,   \* g_diag_first_ping_seq
    valid,      \* g_diag_first_ping_seq_valid
    sessionActive,
    cmdQ, respQ,
    pending, pendingSeq,
    wire,       \* PINGs on the RS-422 line whose PONGs will come
    now,        \* the kernel tick
    sendAt,     \* now_ms of w5500_tcp_send_response_packet
    \* bounds and history
    sessions, pings,
    began,      \* when the present session was established
    early       \* it was given a PONG before it had a PING

vars == <<epc, pkt, at, took, firstSeq, valid, sessionActive, cmdQ, respQ, pending,
          pendingSeq, wire, now, sendAt, sessions, pings, began, early>>
lineVars == <<cmdQ, respQ, pending, pendingSeq, wire>>
bounds == <<sendAt, sessions, pings, began, early>>

Init ==
    /\ epc = "idle" /\ pkt = 0 /\ at = [s \in Stages |-> None] /\ took = NoDistance
    /\ firstSeq = 0 /\ valid = FALSE /\ sessionActive = FALSE
    /\ cmdQ = <<>> /\ respQ = <<>> /\ pending = FALSE /\ pendingSeq = 0 /\ wire = <<>>
    /\ now = 0 /\ sendAt = 0 /\ sessions = 0 /\ pings = 0 /\ began = None /\ early = FALSE

Tick == now < MaxTime /\ now' = now + 1
        /\ UNCHANGED <<epc, pkt, at, took, firstSeq, valid, sessionActive, lineVars, bounds>>

\* The unsigned difference.
Since(t, earlier) == (t - earlier) % Ticks

\* Mutant: a stage that was not captured is subtracted all the same.
DistanceUnchecked(f, d, t, earlier) == [f EXCEPT ![d] = Since(t, at[earlier])]

\* The distance d of time t is taken if the earlier stage has a stamp.
Distance(f, d, t, earlier) ==
    IF at[earlier] = None THEN f ELSE [f EXCEPT ![d] = Since(t, at[earlier])]

\* A stage is passed for the first time, and its distance to an earlier one taken.
Stamp(stage, earlier) ==
    /\ at' = [at EXCEPT ![stage] = now] /\ took' = Distance(took, stage, now, earlier)
StampOnce(stage, earlier, cond) ==
    IF cond /\ at[stage] = None THEN Stamp(stage, earlier) ELSE UNCHANGED <<at, took>>

-----------------------------------------------------------------------------
(* EthernetTask: diagnostic_begin_tcp_session, store by store.             *)

\* Mutant: the SEQ stays valid while the stamps are cleared.
StaysValid == valid

\* g_diag_first_ping_seq_valid while the stamps are cleared.
Withdrawn == FALSE

Established ==
    /\ epc = "idle" /\ ~sessionActive /\ sessions < MaxSessions
    /\ sessions' = sessions + 1 /\ began' = now
    /\ valid' = Withdrawn /\ epc' = "clear"
    /\ UNCHANGED <<pkt, at, took, firstSeq, sessionActive, lineVars, now, sendAt, pings, early>>

\* Mutant: the stamp of the first bytes is left as it was.
RxKept == [s \in Stages |-> IF s = "rx" THEN at[s] ELSE None]

\* The stamps of the last session are removed.
Cleared == [s \in Stages |-> None]

ClearStamps ==
    /\ epc = "clear"
    /\ at' = [Cleared EXCEPT !["established"] = began] /\ took' = NoDistance
    /\ epc' = "clear_seq" /\ early' = FALSE
    /\ UNCHANGED <<pkt, firstSeq, valid, sessionActive, lineVars, now, sendAt, sessions, pings, began>>

ClearSeq ==
    /\ epc = "clear_seq" /\ firstSeq' = 0 /\ epc' = "activate"
    /\ UNCHANGED <<pkt, at, took, valid, sessionActive, lineVars, now, bounds>>

\* w5500_tcp_discard_stale_responses, then the session is active.
Activate ==
    /\ epc = "activate" /\ sessionActive' = TRUE /\ respQ' = <<>> /\ epc' = "idle"
    /\ UNCHANGED <<pkt, at, took, firstSeq, valid, cmdQ, pending, pendingSeq, wire, now, bounds>>

\* The session ends: RS422Task forgets the pending PING at once.
SessionEnd ==
    /\ epc = "idle" /\ sessionActive /\ sessionActive' = FALSE
    /\ pending' = FALSE /\ pendingSeq' = 0 /\ respQ' = <<>>
    /\ UNCHANGED <<epc, pkt, at, took, firstSeq, valid, cmdQ, wire, now, bounds>>

-----------------------------------------------------------------------------
(* EthernetTask: w5500_tcp_process_rx, handle_valid_frame, send_response.  *)

\* Bytes have come; they hold a PING.
Receive ==
    /\ epc = "idle" /\ sessionActive /\ pings < MaxPings
    /\ pings' = pings + 1 /\ pkt' \in Seqs /\ epc' = "parse"
    /\ StampOnce("rx", "established", TRUE)
    /\ UNCHANGED <<firstSeq, valid, sessionActive, lineVars, now, sendAt, sessions, began, early>>

\* The first PING of the session is noted, and then published.
Parse ==
    /\ epc = "parse"
    /\ IF at["parsed"] = None
       THEN firstSeq' = pkt /\ Stamp("parsed", "rx") /\ epc' = "publish"
       ELSE epc' = "put" /\ UNCHANGED <<firstSeq, at, took>>
    /\ UNCHANGED <<pkt, valid, sessionActive, lineVars, now, bounds>>

Publish ==
    /\ epc = "publish" /\ valid' = TRUE /\ epc' = "put"
    /\ UNCHANGED <<pkt, at, took, firstSeq, sessionActive, lineVars, now, bounds>>

\* osMessageQueuePut without a wait; a full queue refuses.
Put(q, x) == IF Len(q) < CmdDepth THEN Append(q, x) ELSE q

Enqueue ==
    /\ epc = "put" /\ epc' = "idle" /\ cmdQ' = Put(cmdQ, pkt)
    /\ UNCHANGED <<pkt, at, took, firstSeq, valid, sessionActive, respQ, pending, pendingSeq,
                   wire, now, bounds>>

\* A PONG is taken from the queue; now_ms is read for the first PING's ...
SendPong ==
    /\ epc = "idle" /\ sessionActive /\ respQ # <<>> /\ respQ' = Tail(respQ)
    /\ IF valid /\ Head(respQ) = firstSeq /\ at["send"] = None
       THEN epc' = "stamp" /\ sendAt' = now ELSE UNCHANGED <<epc, sendAt>>
    /\ UNCHANGED <<pkt, at, took, firstSeq, valid, sessionActive, cmdQ, pending, pendingSeq, wire,
                   now, sessions, pings, began, early>>

\* ... stored ...
StampSend ==
    /\ epc = "stamp" /\ epc' = "distance" /\ at' = [at EXCEPT !["send"] = sendAt]
    /\ UNCHANGED <<pkt, took, firstSeq, valid, sessionActive, lineVars, now, bounds>>

\* ... and only now compared with g_diag_matching_pong_rx_ms.
SendDistances ==
    /\ epc = "distance" /\ epc' = "idle"
    /\ took' = Distance(Distance(took, "send", sendAt, "pong"), "total", sendAt, "established")
    /\ UNCHANGED <<pkt, at, firstSeq, valid, sessionActive, lineVars, now, bounds>>

-----------------------------------------------------------------------------
(* RS422Task.                                                              *)

\* rs422_forward_packet, when the transmission starts ...
Forward ==
    /\ cmdQ # <<>> /\ cmdQ' = Tail(cmdQ) /\ wire' = Append(wire, Head(cmdQ))
    /\ IF sessionActive THEN pending' = TRUE /\ pendingSeq' = Head(cmdQ)
                        ELSE UNCHANGED <<pending, pendingSeq>>
    /\ StampOnce("tx", "parsed", valid /\ Head(cmdQ) = firstSeq)
    /\ UNCHANGED <<epc, pkt, firstSeq, valid, sessionActive, respQ, now, bounds>>

\* ... and when HAL_UART_Transmit_IT refuses.
ForwardFails ==
    /\ cmdQ # <<>> /\ cmdQ' = Tail(cmdQ) /\ pending' = FALSE /\ pendingSeq' = 0
    /\ UNCHANGED <<epc, pkt, at, took, firstSeq, valid, sessionActive, respQ, wire, now, bounds>>

\* rs422_process_rx_buffer on a PONG; one that nobody waits for is dropped.
PongComes ==
    /\ wire # <<>> /\ wire' = Tail(wire)
    /\ LET routed == sessionActive /\ pending /\ Head(wire) = pendingSeq
       IN /\ pending' = (pending /\ ~routed)
          /\ respQ' = IF routed THEN Append(respQ, Head(wire)) ELSE respQ
          /\ StampOnce("pong", "tx", routed /\ valid /\ Head(wire) = firstSeq)
          /\ early' = (early \/ (routed /\ ~valid))
    /\ UNCHANGED <<epc, pkt, firstSeq, valid, sessionActive, cmdQ, pendingSeq, now, sendAt,
                   sessions, pings, began>>

Next ==
    \/ Tick \/ Established \/ ClearStamps \/ ClearSeq \/ Activate \/ SessionEnd
    \/ Receive \/ Parse \/ Publish \/ Enqueue \/ SendPong \/ StampSend \/ SendDistances
    \/ Forward \/ ForwardFails \/ PongComes

Spec == Init /\ [][Next]_vars

-----------------------------------------------------------------------------
\* Type invariant.
TypeOK ==
    /\ epc \in {"idle", "clear", "clear_seq", "activate", "parse", "publish", "put", "stamp",
               "distance"}
    /\ pkt \in {0} \cup Seqs /\ at \in [Stages -> Stamps]
    /\ took \in [Distances -> 0..Ticks - 1] /\ firstSeq \in {0} \cup Seqs
    /\ valid \in BOOLEAN /\ sessionActive \in BOOLEAN /\ pending \in BOOLEAN /\ early \in BOOLEAN
    /\ Len(cmdQ) <= CmdDepth /\ pendingSeq \in {0} \cup Seqs
    /\ now \in 0..MaxTime /\ sendAt \in 0..MaxTime
    /\ sessions \in 0..MaxSessions /\ pings \in 0..MaxPings

\* Once a session is active, no stamp is older than it: RS422Task, still busy with a
\* PING of the last session, writes none while they are cleared.
NothingFromBefore ==
    sessionActive => \A s \in Stages : at[s] = None \/ at[s] >= began

\* RS422Task never takes a stamp for a PING whose parsing has none yet.
StampsFollowParsing ==
    sessionActive => \A s \in RsStages :
        at[s] # None => at["parsed"] # None /\ at["parsed"] <= at[s]

\* The two stages of a distance.
From == [rx |-> "established", parsed |-> "rx", tx |-> "parsed", pong |-> "tx", send |-> "pong",
         total |-> "established"]
To(d) == IF d = "total" THEN "send" ELSE d

\* A distance that was taken is the one between its two stamps, and the later stage is
\* not before the earlier one.  One distance may be from the PONG's sending back to its
\* coming, and then reads as a number near 2^32: when a PING of the last session gave
\* this one a PONG before its own first PING, RS422Task may stamp the next PONG between
\* EthernetTask's reading of the tick and its reading of that stamp.
DistancesTrue ==
    \A d \in Distances : took[d] # None =>
        /\ at[From[d]] # None /\ at[To(d)] # None
        /\ took[d] = Since(at[To(d)], at[From[d]])
        /\ at[From[d]] <= at[To(d)] \/ (d = "send" /\ early)

\* All of them together: what the diagnostics report of a session is true.
StampsTrue == TypeOK /\ NothingFromBefore /\ StampsFollowParsing /\ DistancesTrue

-----------------------------------------------------------------------------
(* The inductive invariant behind it.                                      *)

\* A session begins when none is active, a packet is handled when one is, and the SEQ is
\* withdrawn while the stamps are cleared.
PhaseInv ==
    /\ epc \in {"clear", "clear_seq", "activate"} => ~sessionActive /\ ~valid
    /\ epc \in {"parse", "publish", "put", "stamp", "distance"} => sessionActive
    /\ epc = "publish" \/ valid => at["parsed"] # None
    /\ cmdQ \in Seq({0} \cup Seqs) /\ respQ \in Seq({0} \cup Seqs)
    /\ wire \in Seq({0} \cup Seqs)

\* No stamp is from the future; none is from before the session once they are cleared;
\* RS422Task has none where EthernetTask has no parsed PING.
StampInv ==
    /\ began = None \/ began \in 0..now
    /\ \A s \in Stages : at[s] = None \/ at[s] <= now
    /\ sessionActive \/ epc \in {"clear", "clear_seq", "activate"} => began # None
    /\ sessionActive \/ epc \in {"clear_seq", "activate"} =>
          at["established"] = began /\ \A s \in Stages : at[s] = None \/ at[s] >= began
    /\ \A s \in RsStages : at[s] # None => at["parsed"] # None /\ at["parsed"] <= at[s]

\* A PONG of the first PING's SEQ that waits to be sent has its stamp, unless it came
\* before that PING; so has the one that is being sent.
PongInv ==
    /\ ~sessionActive => respQ = <<>>
    /\ sessionActive /\ ~valid /\ ~early => respQ = <<>>
    /\ valid /\ ~early /\ (\E i \in 1..Len(respQ) : respQ[i] = firstSeq) => at["pong"] # None
    /\ epc \in {"stamp", "distance"} =>
          /\ valid /\ sendAt <= now /\ sendAt >= began
          /\ early \/ (at["pong"] # None /\ at["pong"] <= sendAt)
    /\ epc = "stamp" => at["send"] = None
    /\ epc = "distance" => at["send"] = sendAt

SessionInv == TypeOK /\ PhaseInv /\ StampInv /\ PongInv /\ DistancesTrue
=============================================================================

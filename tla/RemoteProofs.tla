---------------------------- MODULE RemoteProofs ----------------------------
(***************************************************************************)
(* Proofs about RemoteNode, for every ring size, period, tick width, SEQ   *)
(* width and set of frames: nothing goes uncounted or unanswered, the      *)
(* status tells the truth, a gap in the SEQs of TELEMETRY is the number of *)
(* packets lost, and TELEMETRY is never early.                             *)
(***************************************************************************)
EXTENDS RemoteNode, ModularProofs, SequenceTheorems, FiniteSetTheorems

USE DEF isrVars, timeVars, nodeVars, periodVars, loopVars

-----------------------------------------------------------------------------
(* The operators.                                                          *)

\* remote_node_handle_packet answers the frames that are owed a reply, under their SEQ.
LEMMA ReplyIs ==
    ASSUME NEW f \in Frames, f.msg \notin BadKinds
    PROVE  /\ Reply(f) = NoPacket <=> ~IsOwed(f)
           /\ IsOwed(f) => /\ Reply(f).seq = f.seq
                           /\ Reply(f) \in [msg : {"PONG", "STATUS_RESP", "ERROR"}, seq : Nat,
                                  code : {"NONE", "UNKNOWN_MSG", "UNSUPPORTED", "BAD_LENGTH"}]
           /\ Reply(f).msg # "TELEMETRY"
  <1>1. f.msg \in MsgKinds /\ f.seq \in Nat /\ f.len \in Nat BY RemoteAssumption
  <1>2. CASE f.msg = "ERROR" BY <1>2 DEF Reply, IsOwed, NoPacket, Others, Requests
  <1>3. CASE f.msg = "UNKNOWN"
    BY <1>1, <1>3 DEF Reply, IsOwed, NoPacket, Packet, Others, Requests, BadKinds
  <1>4. CASE f.msg \in Others
    BY <1>1, <1>4 DEF Reply, IsOwed, NoPacket, Packet, Others, Requests, BadKinds
  <1>5. CASE f.msg \in Requests /\ f.len # 0
    BY <1>1, <1>5 DEF Reply, IsOwed, NoPacket, Packet, Others, Requests, BadKinds
  <1>6. CASE f.msg = "PING" /\ f.len = 0
    BY <1>1, <1>6 DEF Reply, IsOwed, NoPacket, Packet, Others, Requests, BadKinds
  <1>7. CASE f.msg = "READ_STATUS" /\ f.len = 0
    BY <1>1, <1>7 DEF Reply, IsOwed, NoPacket, Packet, Others, Requests, BadKinds
  <1> QED BY <1>1, <1>2, <1>3, <1>4, <1>5, <1>6, <1>7 DEF MsgKinds, Requests

\* The counters of remote_node_stats_t that the steps name.
LEMMA CounterNames ==
    {"valid", "parser", "crc", "unknown", "duplicate", "overflow", "uart", "tx"} \subseteq Counters
  BY DEF Counters

\* What Head and Tail give on a ring that is not empty.
LEMMA RingHead ==
    ASSUME ring \in Seq(Frames), ring # <<>>
    PROVE  /\ Head(ring) \in Frames /\ Tail(ring) \in Seq(Frames)
           /\ Len(ring) \in Nat /\ Len(Tail(ring)) = Len(ring) - 1
           /\ Head(ring) = ring[1] /\ 1 \in 1..Len(ring)
           /\ \A i \in 1..Len(Tail(ring)) : i + 1 \in 1..Len(ring) /\ Tail(ring)[i] = ring[i + 1]
  OBVIOUS

\* What noting the counters of the interrupts does to the statistics.
LEMMA NoteCounts ==
    ASSUME TypeOK, NoteCounters
    PROVE  /\ stats' \in [Counters -> Nat]
           /\ stats'["overflow"] = stats["overflow"] + overflowCount
           /\ stats'["uart"] = stats["uart"] + errorCount
           /\ stats'["tx"] = stats["tx"] /\ stats'["valid"] = stats["valid"]
  <1> DEFINE first == [stats EXCEPT !["overflow"] = @ + overflowCount]
             both  == [first EXCEPT !["uart"] = @ + errorCount]
  <1>1. stats \in [Counters -> Nat] /\ overflowCount \in Nat /\ errorCount \in Nat BY DEF TypeOK
  <1>2. /\ first \in [Counters -> Nat]
        /\ first["overflow"] = stats["overflow"] + overflowCount
        /\ \A c \in Counters \ {"overflow"} : first[c] = stats[c]
    BY <1>1, CounterNames
  <1>3. both = stats' BY DEF NoteCounters
  <1> HIDE DEF first
  <1>4. /\ both \in [Counters -> Nat]
        /\ both["uart"] = first["uart"] + errorCount
        /\ \A c \in Counters \ {"uart"} : both[c] = first[c]
    BY <1>1, <1>2, CounterNames
  <1> QED BY <1>2, <1>3, <1>4, CounterNames

\* What a valid frame does to them.
LEMMA FrameCounts ==
    ASSUME TypeOK, HandleFrame
    PROVE  /\ stats' \in [Counters -> Nat]
           /\ stats'["valid"] = stats["valid"] + 1
           /\ \A c \in {"overflow", "uart", "tx"} : stats'[c] = stats[c]
  <1> DEFINE d == One(IsDuplicate(Head(ring)))
             u == One(Head(ring).msg = "UNKNOWN")
             first  == [stats EXCEPT !["valid"] = @ + 1]
             second == [first EXCEPT !["duplicate"] = @ + d]
             third  == [second EXCEPT !["unknown"] = @ + u]
  <1>1. stats \in [Counters -> Nat] BY DEF TypeOK
  <1>2. d \in Nat /\ u \in Nat BY DEF One
  <1>3. third = stats' BY DEF HandleFrame
  <1> HIDE DEF d, u
  <1>4. /\ first \in [Counters -> Nat] /\ first["valid"] = stats["valid"] + 1
        /\ \A c \in Counters \ {"valid"} : first[c] = stats[c]
    BY <1>1, CounterNames
  <1> HIDE DEF first
  <1>5. /\ second \in [Counters -> Nat]
        /\ \A c \in Counters \ {"duplicate"} : second[c] = first[c]
    BY <1>2, <1>4, CounterNames
  <1> HIDE DEF second
  <1>6. /\ third \in [Counters -> Nat]
        /\ \A c \in Counters \ {"unknown"} : third[c] = second[c]
    BY <1>2, <1>5, CounterNames
  <1> QED BY <1>3, <1>4, <1>5, <1>6, CounterNames

-----------------------------------------------------------------------------
(* Types.                                                                  *)

\* Every step keeps every variable in its type.
LEMMA TypeStep == TypeOK /\ HistoryType /\ Next => TypeOK'
  <1> SUFFICES ASSUME TypeOK, HistoryType, Next PROVE TypeOK' OBVIOUS
  <1> USE RemoteAssumption DEF TypeOK
  <1>1. CASE RxIsr
    <2>1. CASE Len(ring) < RingCap
      <3>1. PICK f \in Frames : ring' = Append(ring, f) /\ UNCHANGED overflowPending
        BY <1>1, <2>1 DEF RxIsr
      <3>2. ring' \in Seq(Frames) /\ Len(ring') = Len(ring) + 1 BY <3>1
      <3> QED BY <1>1, <2>1, <3>1, <3>2 DEF RxIsr
    <2>2. CASE ~(Len(ring) < RingCap) BY <1>1, <2>2 DEF RxIsr
    <2> QED BY <2>1, <2>2
  <1>2. CASE ErrorIsr BY <1>2 DEF ErrorIsr
  <1>3. CASE Tick
    <2>1. (now + 1) % TickWrap \in 0..TickWrap - 1 OBVIOUS
    <2> QED BY <1>3, <2>1 DEF Tick
  <1>4. CASE TakeCounters BY <1>4 DEF TakeCounters
  <1>5. CASE NoteCounters
    <2>1. stats' \in [Counters -> Nat] BY <1>5, NoteCounts
    <2>2. comm' \in {"INIT", "OK", "ERROR"} BY <1>5 DEF NoteCounters
    <2> QED BY <1>5, <2>1, <2>2 DEF NoteCounters
  <1>6. CASE HandleFrame
    <2>1. ring' \in Seq(Frames) /\ Len(ring') <= RingCap
      <3>1. ring # <<>> /\ ring' = Tail(ring) BY <1>6 DEF HandleFrame
      <3> QED BY <3>1, RingHead
    <2>2. stats' \in [Counters -> Nat] BY <1>6, FrameCounts
    <2>3. comm' \in {"INIT", "OK", "ERROR"} BY <1>6 DEF HandleFrame
    <2>4. pc' \in {"take", "note", "rx", "tx", "telemetry", "heartbeat"}
          /\ ret' \in {"take", "rx", "heartbeat"}
      BY <1>6 DEF HandleFrame, Send
    <2> QED BY <1>6, <2>1, <2>2, <2>3, <2>4 DEF HandleFrame
  <1>7. CASE HandleBad
    <2>1. ring' \in Seq(Frames) /\ Len(ring') <= RingCap
      <3>1. ring # <<>> /\ ring' = Tail(ring) BY <1>7 DEF HandleBad
      <3> QED BY <3>1, RingHead
    <2>2. stats' \in [Counters -> Nat] BY <1>7, CounterNames DEF HandleBad
    <2> QED BY <1>7, <2>1, <2>2 DEF HandleBad
  <1>8. CASE RxEmpty BY <1>8 DEF RxEmpty
  <1>9. CASE Telemetry
    <2>1. (telemetrySeq + 1) % SeqWrap \in 0..SeqWrap - 1 OBVIOUS
    <2>2. telemetrySeq' \in 0..SeqWrap - 1 /\ lastTelemetry' \in 0..TickWrap - 1
      BY <1>9, <2>1 DEF Telemetry, NextSeq
    <2>3. pc' \in {"tx", "heartbeat"} /\ ret' \in {"take", "rx", "heartbeat"}
      BY <1>9 DEF Telemetry, Send
    <2> QED BY <1>9, <2>2, <2>3 DEF Telemetry
  <1>10. CASE Heartbeat
    <2>1. (heartbeatSeq + 1) % SeqWrap \in 0..SeqWrap - 1 OBVIOUS
    <2>2. heartbeatSeq' \in 0..SeqWrap - 1 /\ lastHeartbeat' \in 0..TickWrap - 1
      BY <1>10, <2>1 DEF Heartbeat, NextSeq
    <2>3. pc' \in {"tx", "take"} /\ ret' \in {"take", "rx", "heartbeat"}
      BY <1>10 DEF Heartbeat, Send
    <2>4. t' \in 0..TickWrap - 1 BY <1>10 DEF Heartbeat
    <2> QED BY <1>10, <2>2, <2>3, <2>4 DEF Heartbeat
  <1>11. CASE TxEnd BY <1>11 DEF TxEnd
  <1>12. CASE TxFails
    <2>1. stats' \in [Counters -> Nat] BY <1>12, CounterNames DEF TxFails
    <2> QED BY <1>12, <2>1 DEF TxFails
  <1> QED BY <1>1, <1>2, <1>3, <1>4, <1>5, <1>6, <1>7, <1>8, <1>9, <1>10, <1>11, <1>12
          DEF Next, Task

\* And the history in its own.
LEMMA HistoryStep == TypeOK /\ HistoryType /\ Next => HistoryType'
  <1> SUFFICES ASSUME TypeOK, HistoryType, Next PROVE HistoryType' OBVIOUS
  <1> USE RemoteAssumption DEF TypeOK, HistoryType
  <1>1. CASE RxIsr
    <2>1. CASE Len(ring) < RingCap
      <3>1. PICK f \in Frames : /\ ring' = Append(ring, f) /\ arrived' = Append(arrived, f)
                                /\ UNCHANGED refused
        BY <1>1, <2>1 DEF RxIsr
      <3>2. arrived' \in Seq(Frames) /\ Len(arrived') = Len(arrived) + 1
            /\ Len(ring') = Len(ring) + 1
        BY <3>1
      <3> QED BY <1>1, <3>1, <3>2 DEF RxIsr
    <2>2. CASE ~(Len(ring) < RingCap) BY <1>1, <2>2 DEF RxIsr
    <2> QED BY <2>1, <2>2
  <1>2. CASE ErrorIsr BY <1>2 DEF ErrorIsr
  <1>3. CASE Tick BY <1>3 DEF Tick
  <1>4. CASE TakeCounters BY <1>4 DEF TakeCounters
  <1>5. CASE NoteCounters BY <1>5 DEF NoteCounters
  <1>6. CASE HandleFrame
    <2>1. Len(ring') <= Len(arrived') BY <1>6, RingHead DEF HandleFrame
    <2>2. Head(ring) \in Frames /\ Head(ring).msg \notin BadKinds
      BY <1>6, RingHead DEF HandleFrame
    <2>3. CASE Reply(Head(ring)) = NoPacket
      <3>1. UNCHANGED <<tx, pc, replies>> BY <1>6, <2>3 DEF HandleFrame
      <3> QED BY <1>6, <2>1, <3>1 DEF HandleFrame
    <2>4. CASE Reply(Head(ring)) # NoPacket
      <3>1. tx' = Reply(Head(ring)) /\ replies' = Append(replies, Reply(Head(ring)))
        BY <1>6, <2>4 DEF HandleFrame, Send
      <3>2. tx'.msg # "TELEMETRY" BY <2>2, <3>1, ReplyIs
      <3>3. replies' \in Seq([msg : {"PONG", "STATUS_RESP", "ERROR"}, seq : Nat,
                code : {"NONE", "UNKNOWN_MSG", "UNSUPPORTED", "BAD_LENGTH"}])
        <4> DEFINE R == [msg : {"PONG", "STATUS_RESP", "ERROR"}, seq : Nat,
                         code : {"NONE", "UNKNOWN_MSG", "UNSUPPORTED", "BAD_LENGTH"}]
        <4>1. Reply(Head(ring)) \in R BY <2>2, <2>4, ReplyIs
        <4>2. replies \in Seq(R) OBVIOUS
        <4> HIDE DEF R
        <4>3. Append(replies, Reply(Head(ring))) \in Seq(R) BY <4>1, <4>2
        <4> QED BY <3>1, <4>3 DEF R
      <3> QED BY <1>6, <2>1, <3>2, <3>3 DEF HandleFrame
    <2> QED BY <2>3, <2>4
  <1>7. CASE HandleBad
    <2>1. Len(ring') <= Len(arrived') BY <1>7, RingHead DEF HandleBad
    <2> QED BY <1>7, <2>1 DEF HandleBad
  <1>8. CASE RxEmpty BY <1>8 DEF RxEmpty
  <1>9. CASE Telemetry
    <2>1. tx'.msg = "TELEMETRY" => pc' = "tx" /\ tx'.seq = telemetrySeq'
      BY <1>9 DEF Telemetry, Send, Packet
    <2>2. unheard' \in Nat BY <1>9 DEF Telemetry
    <2> QED BY <1>9, <2>1, <2>2 DEF Telemetry
  <1>10. CASE Heartbeat
    <2>1. tx'.msg # "TELEMETRY" BY <1>10 DEF Heartbeat, Send, Packet
    <2> QED BY <1>10, <2>1 DEF Heartbeat
  <1>11. CASE TxEnd
    <2>1. tx'.msg # "TELEMETRY" BY <1>11 DEF TxEnd, NoPacket
    <2>2. heardSeq' \in 0..SeqWrap - 1 /\ unheard' \in Nat BY <1>11 DEF TxEnd
    <2> QED BY <1>11, <2>1, <2>2 DEF TxEnd
  <1>12. CASE TxFails
    <2>1. tx'.msg # "TELEMETRY" BY <1>12 DEF TxFails, NoPacket
    <2> QED BY <1>12, <2>1 DEF TxFails
  <1> QED BY <1>1, <1>2, <1>3, <1>4, <1>5, <1>6, <1>7, <1>8, <1>9, <1>10, <1>11, <1>12
          DEF Next, Task

-----------------------------------------------------------------------------
(* The steps that the properties are about.                                *)

\* Only Tick moves the clock, and only Telemetry the time that TELEMETRY was last tried.
LEMMA ClockFrame ==
    ASSUME Next
    PROVE  Tick \/ Telemetry \/ UNCHANGED <<now, lastTelemetry, sinceTelemetry>>
  BY DEF Next, Task, RxIsr, ErrorIsr, TakeCounters, NoteCounters, HandleFrame, HandleBad,
      RxEmpty, Heartbeat, TxEnd, TxFails

\* Elapsed gives the ticks that have passed.
LEMMA ElapsedTrue ==
    ASSUME TypeOK, ClockInv PROVE Elapsed(now, lastTelemetry) = sinceTelemetry
  <1>1. /\ TickWrap \in Nat \ {0} /\ sinceTelemetry \in 0..TickWrap - 1
        /\ now \in Int /\ lastTelemetry \in Int
    BY RemoteAssumption DEF TypeOK, ClockInv
  <1>2. now - lastTelemetry = sinceTelemetry \/ now - lastTelemetry = sinceTelemetry - TickWrap
    BY <1>1 DEF ClockInv
  <1>3. (now - lastTelemetry) % TickWrap = sinceTelemetry BY <1>1, <1>2, ModSmall
  <1> QED BY <1>3 DEF Elapsed

\* The tick that wraps and the count of ticks that does not stay together.
LEMMA ClockStep == TypeOK /\ ClockInv /\ Next => ClockInv'
  <1> SUFFICES ASSUME TypeOK, ClockInv, Next PROVE ClockInv' OBVIOUS
  <1>0. /\ TickWrap \in Nat \ {0} /\ MaxLag \in Nat /\ MaxLag < TickWrap
        /\ now \in 0..TickWrap - 1 /\ lastTelemetry \in 0..TickWrap - 1
        /\ sinceTelemetry \in 0..MaxLag
    BY RemoteAssumption DEF TypeOK, ClockInv
  <1>1. CASE Tick
    <2>1. /\ now' = (now + 1) % TickWrap /\ sinceTelemetry' = sinceTelemetry + 1
          /\ lastTelemetry' = lastTelemetry /\ sinceTelemetry < MaxLag
      BY <1>1 DEF Tick
    <2>2. CASE now + 1 < TickWrap
      <3>1. now' = now + 1
        <4>1. now + 1 \in 0..TickWrap - 1 BY <1>0, <2>2
        <4> QED BY <1>0, <2>1, <4>1, ModSmall
      <3> QED BY <1>0, <2>1, <2>2, <3>1 DEF ClockInv
    <2>3. CASE now + 1 = TickWrap
      <3>1. now' = 0 BY <1>0, <2>1, <2>3
      <3> QED BY <1>0, <2>1, <2>3, <3>1 DEF ClockInv
    <2> QED BY <1>0, <2>2, <2>3
  <1>2. CASE Telemetry
    <2>1. \/ UNCHANGED <<now, lastTelemetry, sinceTelemetry>>
          \/ now' = now /\ lastTelemetry' = now /\ sinceTelemetry' = 0
      BY <1>2 DEF Telemetry
    <2> QED BY <1>0, <2>1 DEF ClockInv
  <1>3. CASE UNCHANGED <<now, lastTelemetry, sinceTelemetry>> BY <1>3 DEF ClockInv
  <1> QED BY <1>1, <1>2, <1>3, ClockFrame

\* Only these steps touch the counters of the interrupts and their copies.
LEMMA CountFrame ==
    ASSUME Next
    PROVE  \/ RxIsr \/ ErrorIsr \/ TakeCounters \/ NoteCounters \/ HandleFrame \/ HandleBad
           \/ TxFails
           \/ UNCHANGED <<refused, uartErrors, stats, overflowCount, errorCount,
                          overflowPending, errorPending, comm>>
  BY DEF Next, Task, Tick, RxEmpty, Telemetry, Heartbeat, TxEnd

\* An interrupt may come before or after TakeCounters, and is counted once.
LEMMA CountStep == TypeOK /\ HistoryType /\ NothingUncounted /\ Next => NothingUncounted'
  <1> SUFFICES ASSUME TypeOK, HistoryType, NothingUncounted, Next PROVE NothingUncounted'
    OBVIOUS
  <1>0. /\ refused \in Nat /\ uartErrors \in Nat /\ overflowCount \in Nat /\ errorCount \in Nat
        /\ overflowPending \in Nat /\ errorPending \in Nat /\ stats \in [Counters -> Nat]
        /\ stats["overflow"] \in Nat /\ stats["uart"] \in Nat
    BY CounterNames DEF TypeOK, HistoryType
  <1> USE <1>0 DEF NothingUncounted
  <1>1. CASE RxIsr
    <2>1. \/ UNCHANGED <<refused, overflowPending>>
          \/ refused' = refused + 1 /\ overflowPending' = overflowPending + 1
      BY <1>1 DEF RxIsr
    <2>2. UNCHANGED <<uartErrors, errorPending, stats, overflowCount, errorCount>>
      BY <1>1 DEF RxIsr
    <2> QED BY <2>1, <2>2
  <1>2. CASE ErrorIsr BY <1>2 DEF ErrorIsr
  <1>3. CASE TakeCounters
    <2>1. overflowCount = 0 /\ errorCount = 0 BY <1>3 DEF TakeCounters, HistoryType
    <2> QED BY <1>3, <2>1 DEF TakeCounters
  <1>4. CASE NoteCounters
    <2>1. /\ UNCHANGED <<refused, uartErrors, overflowPending, errorPending>>
          /\ overflowCount' = 0 /\ errorCount' = 0
      BY <1>4 DEF NoteCounters
    <2> QED BY <1>4, <2>1, NoteCounts
  <1>5. CASE HandleFrame
    <2>1. UNCHANGED <<refused, uartErrors, overflowCount, errorCount, overflowPending, errorPending>>
      BY <1>5 DEF HandleFrame
    <2> QED BY <1>5, <2>1, FrameCounts
  <1>6. CASE HandleBad
    <2>1. stats'["overflow"] = stats["overflow"] /\ stats'["uart"] = stats["uart"]
      BY <1>6, CounterNames DEF HandleBad
    <2> QED BY <1>6, <2>1 DEF HandleBad
  <1>7. CASE TxFails
    <2>1. stats'["overflow"] = stats["overflow"] /\ stats'["uart"] = stats["uart"]
      BY <1>7, CounterNames DEF TxFails
    <2> QED BY <1>7, <2>1 DEF TxFails
  <1>8. CASE UNCHANGED <<refused, uartErrors, stats, overflowCount, errorCount,
                          overflowPending, errorPending, comm>>
    BY <1>8
  <1> QED BY <1>1, <1>2, <1>3, <1>4, <1>5, <1>6, <1>7, <1>8, CountFrame

\* The status follows the counters in the same step.
LEMMA StatusStep == TypeOK /\ StatusHonest /\ Next => StatusHonest'
  <1> SUFFICES ASSUME TypeOK, StatusHonest, Next PROVE StatusHonest' OBVIOUS
  <1>0. /\ overflowCount \in Nat /\ errorCount \in Nat /\ stats \in [Counters -> Nat]
        /\ stats["overflow"] \in Nat /\ stats["uart"] \in Nat /\ stats["tx"] \in Nat
        /\ stats["valid"] \in Nat
    BY CounterNames DEF TypeOK
  <1> USE <1>0 DEF StatusHonest
  <1>1. CASE RxIsr \/ ErrorIsr \/ TakeCounters
    BY <1>1 DEF RxIsr, ErrorIsr, TakeCounters
  <1>2. CASE NoteCounters
    <2>1. comm' = IF overflowCount + errorCount > 0 THEN "ERROR" ELSE comm
      BY <1>2 DEF NoteCounters
    <2> QED BY <1>2, <2>1, NoteCounts
  <1>3. CASE HandleFrame
    <2>1. comm' = IF comm = "INIT" THEN "OK" ELSE comm BY <1>3 DEF HandleFrame
    <2> QED BY <1>3, <2>1, FrameCounts
  <1>4. CASE HandleBad
    <2>1. \A c \in {"overflow", "uart", "tx", "valid"} : stats'[c] = stats[c]
      BY <1>4, CounterNames DEF HandleBad
    <2> QED BY <1>4, <2>1 DEF HandleBad
  <1>5. CASE TxFails
    <2>1. stats'["tx"] = stats["tx"] + 1 /\ comm' = "ERROR"
          /\ stats'["overflow"] = stats["overflow"] /\ stats'["uart"] = stats["uart"]
      BY <1>5, CounterNames DEF TxFails
    <2> QED BY <2>1
  <1>6. CASE UNCHANGED <<refused, uartErrors, stats, overflowCount, errorCount,
                          overflowPending, errorPending, comm>>
    BY <1>6
  <1> QED BY <1>1, <1>2, <1>3, <1>4, <1>5, <1>6, CountFrame

\* Only TELEMETRY uses up its SEQ, and only one that leaves is heard.
LEMMA GapStep == TypeOK /\ HistoryType /\ GapShowsLoss /\ Next => GapShowsLoss'
  <1> SUFFICES ASSUME TypeOK, HistoryType, GapShowsLoss, Next PROVE GapShowsLoss' OBVIOUS
  <1>0. /\ SeqWrap \in Nat \ {0} /\ telemetrySeq \in 0..SeqWrap - 1
        /\ heardSeq \in 0..SeqWrap - 1 /\ unheard \in Nat
    BY RemoteAssumption DEF TypeOK, HistoryType
  <1>1. CASE Telemetry
    <2>1. CASE UNCHANGED <<telemetrySeq, unheard>>
      BY <1>1, <2>1 DEF Telemetry, GapShowsLoss
    <2>2. CASE telemetrySeq' = NextSeq(telemetrySeq) /\ unheard' = unheard + 1
      <3>1. heardSeq' = heardSeq BY <1>1 DEF Telemetry
      <3>2. PICK gap \in Int : gap = telemetrySeq - heardSeq BY <1>0
      <3>3. gap % SeqWrap = unheard % SeqWrap BY <3>2 DEF GapShowsLoss
      <3>4. PICK f \in 0..SeqWrap - 1 : gap % SeqWrap = f /\ unheard % SeqWrap = f
        BY <1>0, <3>2, <3>3
      <3>a. PICK more \in Int, next \in Int : more = unheard + 1 /\ next = gap + 1 BY <1>0, <3>2
      <3>b. \E g \in 0..SeqWrap - 1 : more % SeqWrap = g /\ next % SeqWrap = g
        <4>1. CASE SeqWrap = 1 BY <3>a, <4>1
        <4>2. CASE SeqWrap # 1
          <5>1. PICK d \in 0..SeqWrap - 1 : d = 1 BY <1>0, <4>2
          <5>0. PICK u \in Int : u = unheard BY <1>0
          <5>2. (u + d) % SeqWrap = IF f + d < SeqWrap THEN f + d ELSE f + d - SeqWrap
            BY <1>0, <3>4, <5>0, ModAdd
          <5>3. (gap + d) % SeqWrap = IF f + d < SeqWrap THEN f + d ELSE f + d - SeqWrap
            BY <1>0, <3>2, <3>4, ModAdd
          <5>4. (IF f + d < SeqWrap THEN f + d ELSE f + d - SeqWrap) \in 0..SeqWrap - 1
            BY <1>0, <3>4, <5>1
          <5> QED BY <3>a, <5>0, <5>1, <5>2, <5>3, <5>4
        <4> QED BY <4>1, <4>2
      <3>c. PICK g \in 0..SeqWrap - 1 : more % SeqWrap = g /\ next % SeqWrap = g BY <3>b
      <3>5. (next - SeqWrap) % SeqWrap = g BY <1>0, <3>c, ModTurn
      <3>6. telemetrySeq' = telemetrySeq + 1 \/ telemetrySeq' = telemetrySeq + 1 - SeqWrap
        <4>1. CASE telemetrySeq + 1 < SeqWrap
          <5>1. telemetrySeq + 1 \in 0..SeqWrap - 1 BY <1>0, <4>1
          <5> QED BY <1>0, <2>2, <5>1, ModSmall DEF NextSeq
        <4>2. CASE telemetrySeq + 1 = SeqWrap BY <1>0, <2>2, <4>2 DEF NextSeq
        <4> QED BY <1>0, <4>1, <4>2
      <3>7. telemetrySeq' - heardSeq = next \/ telemetrySeq' - heardSeq = next - SeqWrap
        BY <1>0, <3>2, <3>6, <3>a
      <3>8. (telemetrySeq' - heardSeq) % SeqWrap = g BY <3>5, <3>7, <3>c
      <3> QED BY <2>2, <3>1, <3>8, <3>a, <3>c DEF GapShowsLoss
    <2> QED BY <1>1, <2>1, <2>2 DEF Telemetry
  <1>2. CASE TxEnd
    <2>1. CASE tx.msg = "TELEMETRY"
      <3>1. heardSeq' = telemetrySeq /\ unheard' = 0 /\ telemetrySeq' = telemetrySeq
        BY <1>2, <2>1 DEF TxEnd, HistoryType
      <3> QED BY <1>0, <3>1 DEF GapShowsLoss
    <2>2. CASE tx.msg # "TELEMETRY"
      BY <1>2, <2>2 DEF TxEnd, GapShowsLoss
    <2> QED BY <2>1, <2>2
  <1>3. CASE UNCHANGED <<telemetrySeq, heardSeq, unheard>> BY <1>3 DEF GapShowsLoss
  <1>4. Telemetry \/ TxEnd \/ UNCHANGED <<telemetrySeq, heardSeq, unheard>>
    BY DEF Next, Task, RxIsr, ErrorIsr, Tick, TakeCounters, NoteCounters, HandleFrame,
        HandleBad, RxEmpty, Heartbeat, TxFails
  <1> QED BY <1>1, <1>2, <1>3, <1>4

-----------------------------------------------------------------------------
(* Every frame is answered once.                                           *)

\* How many replies are owed is a number, that grows by one with a frame owed one.
LEMMA OwedNext ==
    ASSUME NEW i \in Nat
    PROVE  /\ Owed(i) \in Nat /\ Owed(0) = 0
           /\ Owed(i + 1) = IF IsOwed(arrived[i + 1]) THEN Owed(i) + 1 ELSE Owed(i)
  <1> DEFINE S(k) == {j \in 1..k : IsOwed(arrived[j])}
  <1>1. IsFiniteSet(S(i)) /\ Cardinality(S(i)) \in Nat
    <2>1. IsFiniteSet(1..i) BY FS_Interval
    <2>2. S(i) \in SUBSET (1..i) OBVIOUS
    <2>3. IsFiniteSet(S(i)) BY <2>1, <2>2, FS_Subset
    <2> QED BY <2>3, FS_CardinalityType
  <1>2. S(0) = {} OBVIOUS
  <1>3. CASE IsOwed(arrived[i + 1])
    <2>1. S(i + 1) = S(i) \cup {i + 1} BY <1>3
    <2>2. i + 1 \notin S(i) OBVIOUS
    <2>3. Cardinality(S(i + 1)) = Cardinality(S(i)) + 1
      <3> HIDE DEF S
      <3> QED BY <1>1, <2>1, <2>2, FS_AddElement
    <2> QED BY <1>1, <1>2, <1>3, <2>3, FS_EmptySet DEF Owed
  <1>4. CASE ~IsOwed(arrived[i + 1])
    <2>1. S(i + 1) = S(i) BY <1>4
    <2> QED BY <1>1, <1>2, <1>4, <2>1, FS_EmptySet DEF Owed
  <1> QED BY <1>3, <1>4

\* The replies owed to fewer frames are not more, and a frame that is owed one has a place.
LEMMA OwedWithin ==
    ASSUME NEW k \in Nat, NEW i \in 1..k
    PROVE  Owed(i) <= Owed(k) /\ (IsOwed(arrived[i]) => Owed(i) >= 1)
  <1>1. IsFiniteSet({j \in 1..k : IsOwed(arrived[j])})
    <2>1. IsFiniteSet(1..k) BY FS_Interval
    <2> QED BY <2>1, FS_Subset
  <1>2. {j \in 1..i : IsOwed(arrived[j])} \in SUBSET {j \in 1..k : IsOwed(arrived[j])} OBVIOUS
  <1>3. Owed(i) <= Owed(k) BY <1>1, <1>2, FS_Subset DEF Owed
  <1>4. PICK h \in Nat : h + 1 = i
    <2>1. i - 1 \in Nat /\ (i - 1) + 1 = i OBVIOUS
    <2> QED BY <2>1
  <1>5. Owed(h) \in Nat /\ (IsOwed(arrived[h + 1]) => Owed(h + 1) = Owed(h) + 1) BY OwedNext
  <1> QED BY <1>3, <1>4, <1>5

\* What arrives later does not change them.
LEMMA OwedKept ==
    ASSUME arrived \in Seq(Frames), NEW f \in Frames, arrived' = Append(arrived, f),
           NEW i \in 0..Len(arrived)
    PROVE  Owed(i)' = Owed(i)
  <1>1. \A j \in 1..i : arrived'[j] = arrived[j] OBVIOUS
  <1>2. {j \in 1..i : IsOwed(arrived'[j])} = {j \in 1..i : IsOwed(arrived[j])} BY <1>1
  <1> QED BY <1>2 DEF Owed

\* The interrupt adds at the end, the task answers from the front.
LEMMA AnswerStep == TypeOK /\ HistoryType /\ AnsweredOnce /\ Next => AnsweredOnce'
  <1> SUFFICES ASSUME TypeOK, HistoryType, AnsweredOnce, Next PROVE AnsweredOnce' OBVIOUS
  <1> DEFINE R == [msg : {"PONG", "STATUS_RESP", "ERROR"}, seq : Nat,
                   code : {"NONE", "UNKNOWN_MSG", "UNSUPPORTED", "BAD_LENGTH"}]
  <1>0. /\ ring \in Seq(Frames) /\ arrived \in Seq(Frames) /\ Len(ring) <= Len(arrived)
        /\ replies \in Seq(R) /\ Handled \in Nat /\ Len(ring) \in Nat /\ Len(arrived) \in Nat
        /\ Handled + Len(ring) = Len(arrived)
    BY DEF TypeOK, HistoryType, Handled
  <1> HIDE DEF R
  <1>1. CASE UNCHANGED <<ring, arrived, replies>>
    BY <1>1 DEF AnsweredOnce, Handled, Owed
  <1>2. CASE RxIsr /\ arrived' # arrived
    <2>1. PICK f \in Frames : ring' = Append(ring, f) /\ arrived' = Append(arrived, f)
      BY <1>2 DEF RxIsr
    <2>2. replies' = replies BY <1>2 DEF RxIsr
    <2>3. Handled' = Handled BY <1>0, <2>1 DEF Handled
    <2>4. \A i \in 0..Handled : Owed(i)' = Owed(i) BY <1>0, <2>1, OwedKept
    <2>5. \A i \in 1..Len(arrived) : arrived'[i] = arrived[i] BY <1>0, <2>1
    <2>6. \A i \in 1..Len(ring') : ring'[i] = arrived'[Handled + i]
      <3> SUFFICES ASSUME NEW i \in 1..Len(ring') PROVE ring'[i] = arrived'[Handled + i] OBVIOUS
      <3>1. Len(ring') = Len(ring) + 1 BY <1>0, <2>1
      <3>2. CASE i = Len(ring) + 1
        <4>1. ring'[i] = f /\ arrived'[Len(arrived) + 1] = f BY <1>0, <2>1, <3>2
        <4>2. Handled + i = Len(arrived) + 1 BY <1>0, <3>2
        <4> QED BY <4>1, <4>2
      <3>3. CASE i \in 1..Len(ring)
        <4>1. ring'[i] = ring[i] /\ ring[i] = arrived[Handled + i]
          BY <1>0, <2>1, <3>3 DEF AnsweredOnce
        <4>2. Handled + i \in 1..Len(arrived) BY <1>0, <3>3
        <4> QED BY <2>5, <4>1, <4>2
      <3> QED BY <1>0, <3>1, <3>2, <3>3
    <2>7. Len(replies') = Owed(Handled)' BY <1>0, <2>2, <2>3, <2>4 DEF AnsweredOnce
    <2>8. \A i \in 1..Handled : IsOwed(arrived'[i]) => replies[Owed(i)'].seq = arrived'[i].seq
      <3> SUFFICES ASSUME NEW i \in 1..Handled, IsOwed(arrived'[i])
                   PROVE  replies[Owed(i)'].seq = arrived'[i].seq
        OBVIOUS
      <3>1. i \in 0..Handled /\ i \in 1..Len(arrived) BY <1>0
      <3>2. arrived'[i] = arrived[i] BY <2>5, <3>1
      <3>3. Owed(i)' = Owed(i) BY <2>4, <3>1
      <3>4. replies[Owed(i)].seq = arrived[i].seq BY <3>2 DEF AnsweredOnce
      <3> QED BY <3>2, <3>3, <3>4
    <2> QED BY <2>2, <2>3, <2>6, <2>7, <2>8 DEF AnsweredOnce
  <1>3. CASE HandleFrame \/ HandleBad
    <2>1. ring # <<>> /\ ring' = Tail(ring) /\ arrived' = arrived
      BY <1>3 DEF HandleFrame, HandleBad
    <2>2. /\ Head(ring) \in Frames /\ Head(ring) = ring[1] /\ 1 \in 1..Len(ring)
          /\ Len(ring') = Len(ring) - 1
          /\ \A i \in 1..Len(ring') : i + 1 \in 1..Len(ring) /\ ring'[i] = ring[i + 1]
      BY <1>0, <2>1, RingHead
    <2>3. Handled' = Handled + 1 BY <1>0, <2>1, <2>2 DEF Handled
    <2>4. arrived[Handled + 1] = Head(ring) BY <2>2 DEF AnsweredOnce
    <2>5. \A i \in 1..Len(ring') : ring'[i] = arrived[Handled + 1 + i]
      <3> SUFFICES ASSUME NEW i \in 1..Len(ring') PROVE ring'[i] = arrived[Handled + 1 + i] OBVIOUS
      <3>1. ring'[i] = arrived[Handled + (i + 1)] BY <2>2 DEF AnsweredOnce
      <3> QED BY <1>0, <3>1
    <2>6. \A i : Owed(i)' = Owed(i) BY <2>1 DEF Owed
    <2>7. /\ Owed(Handled) \in Nat
          /\ Owed(Handled + 1) = IF IsOwed(Head(ring)) THEN Owed(Handled) + 1 ELSE Owed(Handled)
      BY <1>0, <2>4, OwedNext
    <2>8. Len(replies) = Owed(Handled) BY DEF AnsweredOnce
    <2>9. CASE IsOwed(Head(ring))
      <3>1. HandleFrame /\ Head(ring).msg \notin BadKinds
        BY <1>3, <2>9 DEF IsOwed, HandleBad, HandleFrame
      <3>2. /\ Reply(Head(ring)) # NoPacket /\ Reply(Head(ring)).seq = Head(ring).seq
            /\ Reply(Head(ring)) \in R
        BY <2>2, <2>9, <3>1, ReplyIs DEF R
      <3>3. replies' = Append(replies, Reply(Head(ring))) BY <3>1, <3>2 DEF HandleFrame
      <3>4. /\ Len(replies') = Len(replies) + 1
            /\ replies'[Len(replies) + 1] = Reply(Head(ring))
            /\ \A n \in 1..Len(replies) : replies'[n] = replies[n]
        BY <1>0, <3>2, <3>3
      <3>5. Len(replies') = Owed(Handled + 1) BY <2>7, <2>8, <2>9, <3>4
      <3>6. ASSUME NEW i \in 1..Handled + 1, IsOwed(arrived[i])
            PROVE  replies'[Owed(i)].seq = arrived[i].seq
        <4>1. CASE i = Handled + 1 BY <2>4, <2>7, <2>8, <2>9, <3>2, <3>4, <4>1
        <4>2. CASE i \in 1..Handled
          <5>1. Owed(i) <= Owed(Handled) /\ Owed(i) >= 1
            <6>1. PICK k \in Nat : k = Handled BY <1>0
            <6>2. i \in 1..k BY <4>2, <6>1
            <6>3. Owed(i) <= Owed(k) /\ Owed(i) >= 1 BY <3>6, <6>2, OwedWithin
            <6> QED BY <6>1, <6>3
          <5>2. Owed(i) \in Nat
            <6>1. i \in Nat BY <1>0, <4>2
            <6> QED BY <6>1, OwedNext
          <5>3. Owed(i) \in 1..Len(replies) BY <2>7, <2>8, <5>1, <5>2
          <5> QED BY <3>4, <3>6, <4>2, <5>3 DEF AnsweredOnce
        <4> QED BY <1>0, <4>1, <4>2
      <3> QED BY <2>1, <2>3, <2>5, <2>6, <3>5, <3>6 DEF AnsweredOnce
    <2>10. CASE ~IsOwed(Head(ring))
      <3>1. replies' = replies
        BY <1>3, <2>2, <2>10, ReplyIs DEF HandleFrame, HandleBad
      <3>2. Len(replies) = Owed(Handled + 1) BY <2>7, <2>8, <2>10
      <3>3. \A i \in 1..Handled + 1 : IsOwed(arrived[i]) => i \in 1..Handled
        BY <1>0, <2>4, <2>10
      <3> QED BY <2>1, <2>3, <2>5, <2>6, <3>1, <3>2, <3>3 DEF AnsweredOnce
    <2> QED BY <2>9, <2>10
  <1>4. UNCHANGED <<ring, arrived, replies>> \/ (RxIsr /\ arrived' # arrived)
        \/ HandleFrame \/ HandleBad
    <2>1. CASE RxIsr /\ arrived' = arrived
      <3>1. ~(Len(ring) < RingCap)
        <4> SUFFICES ASSUME Len(ring) < RingCap PROVE FALSE OBVIOUS
        <4>1. PICK f \in Frames : arrived' = Append(arrived, f) BY <2>1 DEF RxIsr
        <4>2. Len(arrived') = Len(arrived) + 1 BY <1>0, <4>1
        <4> QED BY <1>0, <2>1, <4>2
      <3> QED BY <2>1, <3>1 DEF RxIsr
    <2> QED BY <2>1 DEF Next, Task, ErrorIsr, Tick, TakeCounters, NoteCounters, RxEmpty, Telemetry,
          Heartbeat, TxEnd, TxFails
  <1> QED BY <1>1, <1>2, <1>3, <1>4

-----------------------------------------------------------------------------
(* The theorems.                                                           *)

\* The node starts in a state of the invariant ...
LEMMA NodeInit == Init => NodeInv
  <1> SUFFICES ASSUME Init PROVE NodeInv OBVIOUS
  <1> USE RemoteAssumption
  <1>1. stats \in [Counters -> Nat] /\ \A c \in Counters : stats[c] = 0 BY DEF Init
  <1>2. TypeOK BY <1>1 DEF Init, TypeOK
  <1>3. HistoryType
    <2>1. \A S : <<>> \in Seq(S) OBVIOUS
    <2>2. Len(ring) <= Len(arrived) BY DEF Init
    <2>3. tx.msg = "TELEMETRY" => pc = "tx" /\ tx.seq = telemetrySeq BY DEF Init, NoPacket
    <2>4. arrived = <<>> /\ replies = <<>> BY DEF Init
    <2>5. heardSeq \in 0..SeqWrap - 1 /\ unheard \in Nat BY DEF Init
    <2>6. refused \in Nat /\ uartErrors \in Nat /\ faults \in Nat BY DEF Init
    <2>7. pc # "note" => overflowCount = 0 /\ errorCount = 0 BY DEF Init
    <2>8. /\ arrived \in Seq(Frames)
          /\ replies \in Seq([msg : {"PONG", "STATUS_RESP", "ERROR"}, seq : Nat,
                        code : {"NONE", "UNKNOWN_MSG", "UNSUPPORTED", "BAD_LENGTH"}])
      BY <2>1, <2>4
    <2> QED BY <2>2, <2>3, <2>5, <2>6, <2>7, <2>8, Zenon DEF HistoryType
  <1>4. ClockInv
    <2>1. MaxLag \in Nat /\ TickWrap \in Nat /\ 0 < TickWrap OBVIOUS
    <2>2. now = 0 /\ lastTelemetry = 0 /\ sinceTelemetry = 0 BY DEF Init
    <2>3. lastTelemetry + sinceTelemetry = 0 BY <2>2
    <2>4. lastTelemetry + sinceTelemetry < TickWrap BY <2>1, <2>3
    <2>5. sinceTelemetry \in 0..MaxLag BY <2>1, <2>2
    <2>6. now = lastTelemetry + sinceTelemetry - 0 BY <2>2
    <2> QED BY <2>4, <2>5, <2>6, Zenon DEF ClockInv
  <1>5. NothingUncounted /\ StatusHonest
    BY <1>1, CounterNames DEF Init, NothingUncounted, StatusHonest
  <1>6. GapShowsLoss BY DEF Init, GapShowsLoss
  <1>7. AnsweredOnce
    <2>1. Handled = 0 BY DEF Init, Handled
    <2>2. Owed(0) = 0 BY OwedNext
    <2> QED BY <2>1, <2>2 DEF Init, AnsweredOnce
  <1> QED BY <1>2, <1>3, <1>4, <1>5, <1>6, <1>7 DEF NodeInv

\* ... every step of the interrupts and of the task keeps it ...
LEMMA NodeNext == NodeInv /\ [Next]_vars => NodeInv'
  <1> SUFFICES ASSUME NodeInv, [Next]_vars PROVE NodeInv' OBVIOUS
  <1>1. CASE Next
    BY <1>1, TypeStep, HistoryStep, ClockStep, CountStep, StatusStep, GapStep, AnswerStep
       DEF NodeInv
  <1>2. CASE UNCHANGED vars
    <2>1. TypeOK' BY <1>2 DEF vars, NodeInv, TypeOK
    <2>2. HistoryType' BY <1>2 DEF vars, NodeInv, HistoryType
    <2>3. ClockInv' BY <1>2 DEF vars, NodeInv, ClockInv
    <2>4. NothingUncounted' /\ StatusHonest' /\ GapShowsLoss'
      BY <1>2 DEF vars, NodeInv, NothingUncounted, StatusHonest, GapShowsLoss
    <2>5. AnsweredOnce' BY <1>2 DEF vars, NodeInv, AnsweredOnce, Handled, Owed
    <2> QED BY <2>1, <2>2, <2>3, <2>4, <2>5 DEF NodeInv
  <1> QED BY <1>1, <1>2

\* ... so it always holds.
LEMMA NodeInvariance == Spec => []NodeInv
  BY NodeInit, NodeNext, PTL DEF Spec

\* Every variable of the remote node keeps its type; the ring never holds more than it
\* has room for, and no SEQ and no tick leaves its width.
THEOREM NodeTypes == Spec => []TypeOK
  <1>1. NodeInv => TypeOK BY DEF NodeInv
  <1> QED BY <1>1, NodeInvariance, PTL

\* The counters that remote_node_port_process takes from the interrupts lose nothing
\* and count nothing twice, wherever an interrupt falls.
THEOREM AllCounted == Spec => []NothingUncounted
  <1>1. NodeInv => NothingUncounted BY DEF NodeInv
  <1> QED BY <1>1, NodeInvariance, PTL

\* Every frame that the ring accepted gets its one reply, in order, whatever arrives
\* while the task answers, sends or loops.
THEOREM AllAnsweredOnce == Spec => []AnsweredOnce
  <1>1. NodeInv => AnsweredOnce BY DEF NodeInv
  <1> QED BY <1>1, NodeInvariance, PTL

\* comm_status is a function of the counters in every reachable state.
THEOREM StatusIsHonest == Spec => []StatusHonest
  <1>1. NodeInv => StatusHonest BY DEF NodeInv
  <1> QED BY <1>1, NodeInvariance, PTL

\* The distance between two TELEMETRY packets that left tells how many did not, for
\* every width of the SEQ.
THEOREM GapIsLoss == Spec => []GapShowsLoss
  <1>1. NodeInv => GapShowsLoss BY DEF NodeInv
  <1> QED BY <1>1, NodeInvariance, PTL

\* No TELEMETRY leaves before its period is over, also when the tick has wrapped.
THEOREM NeverEarly == Spec => TelemetryPaced
  <1>1. NodeInv /\ [Next]_vars =>
            [pc = "telemetry" /\ pc' = "tx" => sinceTelemetry >= TelemetryPeriod]_vars
    <2> SUFFICES ASSUME NodeInv, Next, pc = "telemetry", pc' = "tx"
                 PROVE  sinceTelemetry >= TelemetryPeriod
      OBVIOUS
    <2>1. Telemetry
      BY DEF Next, Task, RxIsr, ErrorIsr, Tick, TakeCounters, NoteCounters, HandleFrame,
          HandleBad, RxEmpty, Heartbeat, TxEnd, TxFails
    <2>2. PeriodOver(Elapsed(now, lastTelemetry), TelemetryPeriod) BY <2>1 DEF Telemetry
    <2> QED BY <2>2, ElapsedTrue DEF NodeInv, PeriodOver
  <1> QED BY <1>1, NodeInvariance, PTL DEF Spec, TelemetryPaced

=============================================================================

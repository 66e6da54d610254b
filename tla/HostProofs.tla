----------------------------- MODULE HostProofs -----------------------------
(***************************************************************************)
(* Proofs about the programs of host/, for every number of requests and    *)
(* datagrams, every range of SEQ and every pattern of faults: a PONG is    *)
(* recorded for its own request only and is not thrown away, the exit code *)
(* of tcp_client is honest, and the loss that udp_client reports is the    *)
(* loss.                                                                   *)
(***************************************************************************)
EXTENDS Host, ModularProofs, FiniteSetTheorems, TLAPS

-----------------------------------------------------------------------------
(* tcp_client and tcp_recovery_client.                                     *)

\* What the assumption says of the numbers.
LEMMA PongConstants ==
    /\ Count \in Nat /\ Count > 0 /\ SeqRange \in Nat \ {0} /\ SeqRange > 1
    /\ MaxFaults \in Nat /\ MaxFaults < SeqRange
  BY PongClientAssumption

\* A sequence stays one when more elements are allowed.
LEMMA SeqWider == ASSUME NEW S, NEW T, S \subseteq T, NEW q \in Seq(S) PROVE q \in Seq(T)
  OBVIOUS

\* The empty stream.
LEMMA NoFrames == ASSUME NEW S PROVE <<>> \in Seq(S) /\ Len(<<>>) = 0
  OBVIOUS

\* A stream that is added to, shortened or cut.
LEMMA StreamAppend == ASSUME NEW S, NEW q \in Seq(S), NEW x \in S PROVE Append(q, x) \in Seq(S)
  OBVIOUS

LEMMA StreamConcat ==
    ASSUME NEW S, NEW q \in Seq(S), NEW r \in Seq(S)
    PROVE  q \o r \in Seq(S) /\ Len(q) <= Len(q \o r)
  OBVIOUS

LEMMA StreamOps ==
    ASSUME NEW S, NEW q \in Seq(S)
    PROVE  /\ \A k \in 0..Len(q) : /\ SubSeq(q, k + 1, Len(q)) \in Seq(S)
                                   /\ Len(SubSeq(q, k + 1, Len(q))) = Len(q) - k
           /\ q # <<>> => Head(q) \in S /\ Tail(q) \in Seq(S) /\ Len(Tail(q)) = Len(q) - 1
           /\ q # <<>> <=> Len(q) > 0
  OBVIOUS

\* A later PING only adds numbers.
LEMMA FramesWider ==
    ASSUME NEW t \in Nat
    PROVE  Pings(t) \subseteq Pings(t + 1) /\ Pieces(t) \subseteq Pieces(t + 1)
  BY PongConstants DEF Pings, Pieces

\* What the counters are made of.
LEMMA PongInit == Init => PongInv
  <1> SUFFICES ASSUME Init PROVE PongInv OBVIOUS
  <1> USE PongConstants DEF Init
  <1>0. c2s \in Seq(Pings(tx)) /\ s2c \in Seq(Pieces(tx)) /\ Len(s2c) = 0
    BY NoFrames, Zenon DEF Init
  <1>1. TypeOK
    <2>1. request \in 0..Count /\ seq \in 0..(SeqRange - 1) /\ (recovery => seq # 0)
      OBVIOUS
    <2>2. tx \in Nat /\ rx \in 0..tx /\ timeouts \in 0..tx /\ held \in 0..tx
      OBVIOUS
    <2>3. got \in 0..Len(s2c) /\ nf \in 0..MaxFaults BY <1>0
    <2> QED BY <1>0, <2>1, <2>2, <2>3 DEF TypeOK
  <1>2. CountInv BY ModSmall DEF CountInv
  <1>3. StreamInv BY DEF StreamInv
  <1>4. OrderInv BY DEF OrderInv
  <1>5. LateInv BY DEF LateInv
  <1>6. ReadInv /\ OkIsOwn /\ ExitHonest BY DEF ReadInv, OkIsOwn, ExitHonest
  <1> QED BY <1>1, <1>2, <1>3, <1>4, <1>5, <1>6 DEF PongInv

\* The next SEQ is that of the next request.
LEMMA NextSeqTrue ==
    ASSUME TypeOK, CountInv
    PROVE  /\ NextSeq \in 0..(SeqRange - 1) /\ (recovery => NextSeq # 0)
           /\ ~recovery => NextSeq = ((request + 1) + 1) % SeqRange
  <1> USE PongConstants DEF TypeOK, CountInv, NextSeq
  <1>1. CASE recovery
    <2>1. PICK s \in 0..(SeqRange - 1) : s = seq OBVIOUS
    <2>2. (s + 1) % SeqRange = IF s + 1 < SeqRange THEN s + 1 ELSE s + 1 - SeqRange
      BY ModNext
    <2> QED BY <1>1, <2>1, <2>2
  <1>2. CASE ~recovery
    <2>1. PICK l \in Int : l = request + 1 OBVIOUS
    <2>2. PICK f \in 0..(SeqRange - 1) : f = seq OBVIOUS
    <2>3. PICK d \in Int : d = 1 OBVIOUS
    <2>4. l % SeqRange = f BY <1>2, <2>1, <2>2
    <2>5. (f + d) % SeqRange = (l + d) % SeqRange BY <2>4, ModShift
    <2>6. f + d = seq + 1 /\ l + d = (request + 1) + 1 BY <2>1, <2>2, <2>3
    <2>7. NextSeq = ((request + 1) + 1) % SeqRange BY <1>2, <2>5, <2>6
    <2> QED BY <1>2, <2>7
  <1> QED BY <1>1, <1>2

\* The streams keep their types.
LEMMA StreamTypes ==
    PongInv /\ Next => /\ c2s' \in Seq(Pings(tx')) /\ s2c' \in Seq(Pieces(tx'))
                       /\ got' \in 0..Len(s2c')
  <1> SUFFICES ASSUME PongInv, Next
               PROVE  /\ c2s' \in Seq(Pings(tx')) /\ s2c' \in Seq(Pieces(tx'))
                      /\ got' \in 0..Len(s2c')
    OBVIOUS
  <1> USE PongConstants DEF PongInv, TypeOK
  <1>1. CASE Connect
    <2>1. got = 0 BY <1>1 DEF Connect, StreamInv
    <2>2. CASE c2s' = <<>> /\ s2c' = <<>> /\ got' = got
      BY <2>1, <2>2, NoFrames
    <2> QED BY <1>1, <2>2 DEF Connect, counters
  <1>2. CASE Send
    <2>1. c2s \in Seq(Pings(tx + 1)) /\ s2c \in Seq(Pieces(tx + 1))
      BY FramesWider, SeqWider
    <2>2. [n |-> tx + 1, seq |-> seq] \in Pings(tx + 1) BY DEF Pings
    <2>3. CASE tx' = tx BY <1>2, <2>3 DEF Send
    <2>4. CASE tx' = tx + 1
      <3>1. c2s' \in Seq(Pings(tx + 1))
        <4>1. c2s' = c2s \/ c2s' = Append(c2s, [n |-> tx + 1, seq |-> seq])
          BY <1>2, <2>4 DEF Send
        <4> QED BY <2>1, <2>2, <4>1, StreamAppend
      <3> QED BY <1>2, <2>1, <2>4, <3>1 DEF Send
    <2> QED BY <1>2, <2>3, <2>4 DEF Send
  <1>3. CASE Receive
    BY <1>3 DEF Receive, counters
  <1>4. CASE Feed
    <2>1. UNCHANGED <<c2s, tx>> /\ got > 0 BY <1>4 DEF Feed
    <2>2. CASE s2c' = Tail(s2c) /\ got' = got - 1
      BY <2>1, <2>2, StreamOps
    <2>3. CASE s2c' = SubSeq(s2c, got + 1, Len(s2c)) /\ got' = 0
      BY <2>1, <2>3, StreamOps
    <2> QED BY <1>4, <2>1, <2>2, <2>3 DEF Feed, Skip, Pong
  <1>5. CASE ReceiveError
    BY <1>5 DEF ReceiveError
  <1>6. CASE Timeout
    BY <1>6 DEF Timeout
  <1>7. CASE Report
    BY <1>7 DEF Report, counters
  <1>8. CASE Stopped
    BY <1>8 DEF Stopped, counters
  <1>9. CASE PeerAnswer
    <2>1. Head(c2s) \in Pings(tx) BY <1>9 DEF PeerAnswer
    <2>2. Halves(Head(c2s)) \in Seq(Pieces(tx)) BY <2>1 DEF Pings, Pieces, Halves
    <2>3. c2s' \in Seq(Pings(tx)) BY <1>9, StreamOps DEF PeerAnswer
    <2>4. PICK h \in Seq(Pieces(tx)) : h = Halves(Head(c2s)) BY <2>2
    <2>5. s2c' = s2c \/ s2c' = s2c \o h BY <1>9, <2>4 DEF PeerAnswer
    <2> DEFINE g == s2c \o h
    <2>6. g \in Seq(Pieces(tx)) /\ Len(s2c) <= Len(g) BY <2>4, StreamConcat
    <2>7. s2c' = s2c \/ s2c' = g BY <2>5
    <2> HIDE DEF g
    <2>8. Len(s2c) \in Nat BY DEF Pieces
    <2>9. s2c' \in Seq(Pieces(tx)) /\ Len(s2c) <= Len(s2c') BY <2>6, <2>7, <2>8
    <2> QED BY <1>9, <2>3, <2>9 DEF PeerAnswer, counters
  <1>10. CASE PeerClose
    BY <1>10 DEF PeerClose, counters
  <1>11. CASE Interrupt
    BY <1>11 DEF Interrupt, counters
  <1> QED
    BY <1>1, <1>2, <1>3, <1>4, <1>5, <1>6, <1>7, <1>8, <1>9, <1>10, <1>11 DEF Next, Client

\* The counters keep their meaning.
LEMMA CountStep == PongInv /\ Next => CountInv' /\ ExitHonest'
  <1> SUFFICES ASSUME TypeOK, CountInv, ExitHonest, Next PROVE CountInv' /\ ExitHonest'
    BY DEF PongInv
  <1> USE PongConstants
  <1>t. /\ request \in Nat /\ rx \in Nat /\ timeouts \in Nat /\ tx \in Nat /\ seq \in Nat
        /\ recovery \in BOOLEAN /\ stop \in BOOLEAN /\ fatal \in BOOLEAN /\ rx <= tx
    BY DEF TypeOK
  <1>1. CASE Connect
    BY <1>1, <1>t DEF CountInv, ExitHonest, Connect, Fault, ParserInit, counters, history, End
  <1>2. CASE Send
    <2>1. CASE tx' = tx + 1 /\ pc' = "wait" /\ UNCHANGED fatal /\ UNCHANGED <<request, seq>>
      BY <1>2, <1>t, <2>1 DEF CountInv, ExitHonest, Send
    <2>2. CASE Broken /\ UNCHANGED tx
      BY <1>2, <1>t, <2>2 DEF CountInv, ExitHonest, Send, Broken
    <2> QED BY <1>2, <2>1, <2>2 DEF Send
  <1>3. CASE Receive
    BY <1>3, <1>t DEF CountInv, ExitHonest, Receive, counters
  <1>4. CASE Feed
    <2>1. UNCHANGED <<recovery, tx, timeouts, fatal, stop, exitOk>> /\ pc = "wait"
      BY <1>4 DEF Feed
    <2>2. CASE Skip
      BY <2>1, <2>2, <1>t DEF CountInv, ExitHonest, Skip
    <2>3. CASE NextRequest /\ rx' = rx + 1
      BY <2>1, <2>3, <1>t, NextSeqTrue DEF CountInv, ExitHonest, NextRequest
    <2> QED BY <1>4, <2>2, <2>3 DEF Feed, Pong
  <1>5. CASE ReceiveError
    BY <1>5, <1>t DEF CountInv, ExitHonest, ReceiveError, Broken, ParserInit, history
  <1>6. CASE Timeout
    <2>1. UNCHANGED <<recovery, tx, rx, stop, exitOk>> /\ pc = "wait" /\ ~stop
      BY <1>6 DEF Timeout
    <2>2. CASE recovery
      BY <1>6, <2>1, <2>2, <1>t DEF CountInv, ExitHonest, Timeout, Broken
    <2>3. CASE ~recovery
      <3>1. NextRequest /\ timeouts' = timeouts + 1 /\ fatal' = fatal
        BY <1>6, <2>3 DEF Timeout
      <3> QED BY <2>1, <2>3, <3>1, <1>t, NextSeqTrue DEF CountInv, ExitHonest, NextRequest
    <2> QED BY <2>2, <2>3
  <1>7. CASE Report
    BY <1>7, <1>t DEF CountInv, ExitHonest, Report, Success, End, counters, history
  <1>8. CASE Stopped
    BY <1>8, <1>t DEF CountInv, ExitHonest, Stopped, End, counters, history
  <1>9. CASE PeerAnswer
    BY <1>9, <1>t DEF CountInv, ExitHonest, PeerAnswer, counters
  <1>10. CASE PeerClose
    BY <1>10, <1>t DEF CountInv, ExitHonest, PeerClose, counters
  <1>11. CASE Interrupt
    BY <1>11, <1>t DEF CountInv, ExitHonest, Interrupt, counters
  <1> QED
    BY <1>1, <1>2, <1>3, <1>4, <1>5, <1>6, <1>7, <1>8, <1>9, <1>10, <1>11 DEF Next, Client

\* Types.
LEMMA TypeStep == PongInv /\ Next => TypeOK'
  <1> SUFFICES ASSUME PongInv, Next PROVE TypeOK' OBVIOUS
  <1> USE PongConstants
  <1>1. TypeOK /\ CountInv BY DEF PongInv
  <1>2. c2s' \in Seq(Pings(tx')) /\ s2c' \in Seq(Pieces(tx')) /\ got' \in 0..Len(s2c')
    BY StreamTypes
  <1>3. nf' \in 0..MaxFaults /\ recovery' = recovery
    <2>1. (nf' = nf \/ (nf < MaxFaults /\ nf' = nf + 1)) /\ recovery' = recovery
      BY DEF Next, Client, Connect, Send, Receive, Feed, ReceiveError, Timeout, Report, Stopped,
        PeerAnswer, PeerClose, Interrupt, Fault
    <2> QED BY <1>1, <2>1 DEF TypeOK
  <1>4. /\ pc' \in {"connect", "send", "wait", "report", "done"} /\ fatal' \in BOOLEAN
        /\ stop' \in BOOLEAN /\ exitOk' \in BOOLEAN /\ open' \in BOOLEAN
    BY <1>1, <1>3 DEF Next, Client, Connect, Send, Receive, Feed, Skip, Pong, NextRequest, ReceiveError,
      Timeout, Report, Stopped, PeerAnswer, PeerClose, Interrupt, Fault, Broken, End, Success,
      counters, TypeOK
  <1>5. /\ request' \in 0..Count /\ tx' \in Nat /\ rx' \in 0..tx' /\ timeouts' \in 0..tx'
        /\ tx <= tx'
    <2>1. \/ UNCHANGED <<request, tx, rx, timeouts>>
          \/ tx' = tx + 1 /\ UNCHANGED <<request, rx, timeouts>>
          \/ /\ pc = "wait" /\ request' = request + 1 /\ tx' = tx
             /\ rx' = rx + 1 /\ timeouts' = timeouts
          \/ /\ pc = "wait" /\ request' = request + 1 /\ tx' = tx /\ ~recovery
             /\ rx' = rx /\ timeouts' = timeouts + 1
      BY DEF Next, Client, Connect, Send, Receive, Feed, Skip, Pong, NextRequest, ReceiveError,
        Timeout, Report, Stopped, PeerAnswer, PeerClose, Interrupt, Broken, counters
    <2>2. /\ request \in 0..Count /\ tx \in Nat /\ rx \in 0..tx /\ timeouts \in 0..tx
          /\ recovery \in BOOLEAN
      BY <1>1 DEF TypeOK
    <2>3. pc = "wait" => request < Count /\ rx < tx /\ (~recovery => timeouts < tx)
      BY <1>1, <2>2 DEF CountInv
    <2> QED BY <2>1, <2>2, <2>3
  <1>6. seq' \in 0..(SeqRange - 1) /\ (recovery' => seq' # 0)
    <2>1. seq' = seq \/ seq' = NextSeq
      BY DEF Next, Client, Connect, Send, Receive, Feed, Skip, Pong, NextRequest, ReceiveError,
        Timeout, Report, Stopped, PeerAnswer, PeerClose, Interrupt, Broken, counters
    <2> QED BY <1>1, <1>3, <2>1, NextSeqTrue DEF TypeOK
  <1>7. held' \in 0..tx'
    <2>1. \/ held' = held \/ held' = 0
          \/ got > 0 /\ held' = Head(s2c).n
      BY DEF Next, Client, Connect, Send, Receive, Feed, ReceiveError, ParserInit, ParserReset,
        Timeout, Report, Stopped, PeerAnswer, PeerClose, Interrupt, Broken
    <2>2. got > 0 => Head(s2c) \in Pieces(tx) BY <1>1, StreamOps DEF TypeOK
    <2>3. got > 0 => Head(s2c).n \in 1..tx BY <2>2 DEF Pieces
    <2> QED BY <1>1, <1>5, <2>1, <2>3 DEF TypeOK
  <1> QED BY <1>1, <1>2, <1>3, <1>4, <1>5, <1>6, <1>7 DEF TypeOK

\* What is where in a stream that was shortened or added to.
LEMMA TailAt ==
    ASSUME NEW S, NEW q \in Seq(S), q # <<>>
    PROVE  /\ Len(Tail(q)) = Len(q) - 1 /\ Head(q) = q[1] /\ Len(q) \in Nat /\ Len(q) > 0
           /\ \A i \in 1..(Len(q) - 1) : Tail(q)[i] = q[i + 1]
  OBVIOUS

LEMMA AppendAt ==
    ASSUME NEW S, NEW q \in Seq(S), NEW x \in S
    PROVE  /\ Len(Append(q, x)) = Len(q) + 1 /\ Append(q, x)[Len(q) + 1] = x
           /\ \A i \in 1..Len(q) : Append(q, x)[i] = q[i]
           /\ Len(q) \in Nat
  OBVIOUS

LEMMA ConcatAt ==
    ASSUME NEW S, NEW q \in Seq(S), NEW x \in S, NEW y \in S
    PROVE  /\ Len(q \o <<x, y>>) = Len(q) + 2 /\ Len(q) \in Nat
           /\ (q \o <<x, y>>)[Len(q) + 1] = x /\ (q \o <<x, y>>)[Len(q) + 2] = y
           /\ \A i \in 1..Len(q) : (q \o <<x, y>>)[i] = q[i]
  OBVIOUS

\* The elements of the streams are frames.
LEMMA StreamElements ==
    ASSUME TypeOK
    PROVE  /\ Len(c2s) \in Nat /\ Len(s2c) \in Nat /\ got \in 0..Len(s2c)
           /\ \A i \in 1..Len(c2s) : c2s[i].n \in 1..tx /\ c2s[i].seq \in 0..(SeqRange - 1)
           /\ \A i \in 1..Len(s2c) : /\ s2c[i].n \in 1..tx /\ s2c[i].seq \in 0..(SeqRange - 1)
                                     /\ s2c[i].part \in {"head", "tail"}
  <1>1. /\ Len(c2s) \in Nat /\ Len(s2c) \in Nat /\ got \in 0..Len(s2c)
        /\ \A i \in 1..Len(c2s) : c2s[i] \in Pings(tx)
        /\ \A i \in 1..Len(s2c) : s2c[i] \in Pieces(tx)
    BY DEF TypeOK
  <1>2. \A x \in Pings(tx) : x.n \in 1..tx /\ x.seq \in 0..(SeqRange - 1) BY DEF Pings
  <1>3. \A x \in Pieces(tx) : /\ x.n \in 1..tx /\ x.seq \in 0..(SeqRange - 1)
                              /\ x.part \in {"head", "tail"}
    BY DEF Pieces
  <1> QED BY <1>1, <1>2, <1>3

\* A PONG that passes the test of wait_for_pong is that of the present request, and
\* nothing is behind it.
LEMMA PongIsOwn ==
    ASSUME PongInv, pc = "wait", got > 0, s2c[1].part = "tail", s2c[1].seq = seq
    PROVE  s2c[1].n = tx /\ Len(s2c) = 1 /\ got = 1 /\ c2s = <<>>
  <1> USE PongConstants
  <1>1. TypeOK /\ CountInv /\ StreamInv /\ OrderInv /\ LateInv BY DEF PongInv
  <1>2. Len(s2c) \in Nat /\ Len(s2c) >= 1 /\ got \in 0..Len(s2c) BY <1>1, StreamElements
  <1>3. PICK n \in 1..tx : n = s2c[1].n BY <1>1, <1>2, StreamElements
  <1>4. tx \in Nat /\ request \in Nat /\ nf \in 0..MaxFaults /\ recovery \in BOOLEAN
    BY <1>1 DEF TypeOK
  <1>5. n = tx
    <2>1. CASE recovery BY <1>1, <1>2, <1>3, <2>1 DEF LateInv, Timely
    <2>2. CASE ~recovery
      <3>1. s2c[1].seq = n % SeqRange /\ request < n + nf
        BY <1>1, <1>2, <1>3, <2>2 DEF LateInv, Timely
      <3>2. seq = tx % SeqRange /\ tx = request + 1 BY <1>1, <2>2 DEF CountInv
      <3> DEFINE d == tx - n
      <3>3. d \in Nat /\ tx = n + d /\ d < SeqRange BY <1>3, <1>4, <3>1, <3>2
      <3> HIDE DEF d
      <3>4. n \in Int BY <1>3
      <3>5. d \in 1..SeqRange - 1 => (n + d) % SeqRange # n % SeqRange BY <3>4, ModDiffer
      <3>6. tx % SeqRange = n % SeqRange BY <3>1, <3>2, Zenon
      <3>7. (n + d) % SeqRange = n % SeqRange BY <3>3, <3>6, Zenon
      <3>8. d \notin 1..SeqRange - 1 BY <3>5, <3>7, Zenon
      <3> QED BY <1>3, <1>4, <3>3, <3>8
    <2> QED BY <1>4, <2>1, <2>2
  <1>6. Len(s2c) = 1
    <2>0. PICK m \in Nat : m = Len(s2c) /\ m >= 1 BY <1>2
    <2>a. m = 1 \/ m >= 2 BY <2>0
    <2> SUFFICES ASSUME m >= 2 PROVE FALSE BY <2>0, <2>a
    <2>1. 1 \in 1..Len(s2c) /\ 2 \in 1..Len(s2c) BY <2>0
    <2>2. s2c[2].n \in 1..tx /\ s2c[2].part \in {"head", "tail"} BY <1>1, <2>1, StreamElements
    <2>3. s2c[2].part # "tail" BY <1>1, <2>1 DEF StreamInv
    <2>4. s2c[1].n < s2c[2].n BY <1>1, <2>1, <2>2, <2>3 DEF OrderInv
    <2> QED BY <1>3, <1>5, <2>2, <2>4
  <1>7. c2s = <<>>
    <2> SUFFICES ASSUME Len(c2s) >= 1 PROVE FALSE BY <1>1 DEF TypeOK
    <2>1. 1 \in 1..Len(c2s) /\ 1 \in 1..Len(s2c) BY <1>1, <1>2, StreamElements
    <2>2. c2s[1].n \in 1..tx /\ s2c[1].n < c2s[1].n BY <1>1, <2>1, StreamElements DEF OrderInv
    <2> QED BY <1>3, <1>5, <2>2
  <1> QED BY <1>2, <1>3, <1>5, <1>6, <1>7

\* The loop of wait_for_pong: a half is taken off the stream, or the PONG of the
\* present request was the last one.
LEMMA FeedCases ==
    ASSUME PongInv, Feed
    PROVE  /\ UNCHANGED <<recovery, tx, c2s, nf, stop, read>>
           /\ pc = "wait" /\ got > 0 /\ s2c # <<>>
           /\ \/ /\ Skip /\ s2c[1].part = "head" /\ held' = s2c[1].n
              \/ /\ Skip /\ s2c[1].part = "tail" /\ held' = 0
                 /\ ~(held = s2c[1].n /\ s2c[1].seq = seq)
              \/ /\ Pong(tx) /\ held' = 0 /\ s2c' = <<>> /\ c2s = <<>>
  <1>1. TypeOK /\ StreamInv BY DEF PongInv
  <1>2. /\ UNCHANGED <<recovery, tx, c2s, nf, stop, read>> /\ pc = "wait" /\ got > 0
    BY DEF Feed
  <1>3. Len(s2c) \in Nat /\ Len(s2c) >= 1 /\ got \in 0..Len(s2c)
    BY <1>1, <1>2, StreamElements
  <1>4. s2c # <<>> /\ Head(s2c) = s2c[1] BY <1>1, <1>3 DEF TypeOK
  <1>5. s2c[1].part \in {"head", "tail"} BY <1>1, <1>3, StreamElements
  <1>6. CASE s2c[1].part = "head"
    <2>1. held = 0 BY <1>1, <1>4, <1>6 DEF StreamInv
    <2> QED BY <1>2, <1>4, <1>6, <2>1 DEF Feed
  <1>7. CASE s2c[1].part = "tail" /\ held = s2c[1].n /\ s2c[1].seq = seq
    <2>1. s2c[1].n = tx /\ Len(s2c) = 1 /\ got = 1 /\ c2s = <<>>
      BY <1>2, <1>7, PongIsOwn
    <2>2. Pong(tx) /\ held' = 0 BY <1>4, <1>7, <2>1 DEF Feed, HasExpectedSeq
    <2>3. s2c' = <<>> BY <1>1, <2>1, <2>2 DEF Pong, TypeOK
    <2> QED BY <1>2, <1>4, <2>1, <2>2, <2>3
  <1>8. CASE s2c[1].part = "tail" /\ ~(held = s2c[1].n /\ s2c[1].seq = seq)
    BY <1>2, <1>4, <1>8 DEF Feed, HasExpectedSeq
  <1> QED BY <1>5, <1>6, <1>7, <1>8

\* A step that leaves the stream alone.
LEMMA StreamQuiet ==
    ASSUME PongInv, s2c' = s2c, got' > 0 => pc' = "wait", tx' \in Nat,
           held' = held \/ held' = 0,
           \/ pc' # "wait"
           \/ tx' = tx + 1
           \/ pc = "wait" /\ tx' = tx /\ held' = held
    PROVE  StreamInv'
  <1>1. TypeOK /\ StreamInv BY DEF PongInv
  <1>2. tx \in Nat /\ held \in Nat BY <1>1 DEF TypeOK
  <1>3. s2c # <<>> => s2c[1].n \in 1..tx
    <2>1. s2c # <<>> => 1 \in 1..Len(s2c) BY <1>1 DEF TypeOK
    <2> QED BY <1>1, <2>1, StreamElements
  <1> QED BY <1>1, <1>2, <1>3 DEF StreamInv

\* The peer takes the first PING and adds the halves of its PONG, or nothing.
LEMMA AnswerCases ==
    ASSUME PongInv, PeerAnswer
    PROVE  /\ UNCHANGED <<recovery, pc, request, seq, tx, held, got, history>>
           /\ nf' \in {nf, nf + 1}
           /\ Len(c2s) >= 1 /\ Len(c2s') = Len(c2s) - 1 /\ Len(c2s) \in Nat /\ Len(s2c) \in Nat
           /\ \A i \in 1..Len(c2s') : c2s'[i] = c2s[i + 1]
           /\ \A i \in 1..Len(s2c) : s2c'[i] = s2c[i]
           /\ \/ s2c' = s2c
              \/ /\ Len(s2c') = Len(s2c) + 2
                 /\ \A i \in {Len(s2c) + 1, Len(s2c) + 2} :
                       s2c'[i].n = c2s[1].n /\ s2c'[i].seq = c2s[1].seq
                 /\ s2c'[Len(s2c) + 1].part = "head" /\ s2c'[Len(s2c) + 2].part = "tail"
  <1>1. c2s \in Seq(Pings(tx)) /\ s2c \in Seq(Pieces(tx)) /\ c2s # <<>> /\ c2s' = Tail(c2s)
    BY DEF PongInv, TypeOK, PeerAnswer
  <1>2. /\ Len(c2s) >= 1 /\ Len(c2s') = Len(c2s) - 1 /\ Len(c2s) \in Nat /\ Len(s2c) \in Nat
        /\ \A i \in 1..Len(c2s') : c2s'[i] = c2s[i + 1]
        /\ Head(c2s) = c2s[1] /\ Head(c2s) \in Pings(tx)
    BY <1>1
  <1>3. /\ UNCHANGED <<recovery, pc, request, seq, tx, held, got, history>>
        /\ nf' \in {nf, nf + 1}
    BY DEF PeerAnswer, Fault, counters
  <1>4. CASE s2c' = s2c BY <1>2, <1>3, <1>4
  <1>5. CASE s2c' = s2c \o Halves(Head(c2s))
    <2>1. PICK p \in Pings(tx) : p = c2s[1] BY <1>2
    <2>2. PICK x \in Pieces(tx) : x = [n |-> p.n, seq |-> p.seq, part |-> "head"]
      BY <2>1 DEF Pings, Pieces
    <2>3. PICK y \in Pieces(tx) : y = [n |-> p.n, seq |-> p.seq, part |-> "tail"]
      BY <2>1 DEF Pings, Pieces
    <2>4. s2c' = s2c \o <<x, y>> BY <1>2, <1>5, <2>1, <2>2, <2>3 DEF Halves
    <2>5. /\ Len(s2c') = Len(s2c) + 2
          /\ s2c'[Len(s2c) + 1] = x /\ s2c'[Len(s2c) + 2] = y
          /\ \A i \in 1..Len(s2c) : s2c'[i] = s2c[i]
      BY <1>1, <2>2, <2>3, <2>4, ConcatAt
    <2>6. /\ x.n = p.n /\ y.n = p.n /\ x.seq = p.seq /\ y.seq = p.seq
          /\ x.part = "head" /\ y.part = "tail"
      BY <2>2, <2>3
    <2> QED BY <1>2, <1>3, <2>1, <2>5, <2>6
  <1> QED BY <1>4, <1>5 DEF PeerAnswer

LEMMA StreamStep == PongInv /\ Next => StreamInv'
  <1> SUFFICES ASSUME PongInv, Next PROVE StreamInv' OBVIOUS
  <1> USE PongConstants
  <1>1. TypeOK /\ StreamInv BY DEF PongInv
  <1>2. TypeOK' BY TypeStep
  <1>3. tx' \in Nat /\ held \in Nat /\ got \in Nat BY <1>1, <1>2 DEF TypeOK
  <1>a. CASE Connect
    <2>1. got' = 0 /\ pc' # "wait" BY <1>1, <1>3, <1>a DEF Connect, StreamInv, End
    <2>2. CASE s2c' = <<>> /\ held' = 0
      BY <2>1, <2>2 DEF StreamInv
    <2>3. CASE UNCHANGED <<s2c, held>>
      BY <1>3, <2>1, <2>3, StreamQuiet
    <2> QED BY <1>a, <2>2, <2>3 DEF Connect, ParserInit
  <1>b. CASE Send
    <2>1. s2c' = s2c /\ got' = 0 /\ (held' = held \/ held' = 0) /\ (pc' # "wait" \/ tx' = tx + 1)
      BY <1>1, <1>3, <1>b DEF Send, StreamInv, Broken, ParserInit
    <2> QED BY <1>3, <2>1, StreamQuiet
  <1>c. CASE Receive
    BY <1>3, <1>c, StreamQuiet DEF Receive, counters
  <1>d. CASE Feed
    <2>1. /\ tx' = tx /\ pc = "wait" /\ got > 0 /\ s2c # <<>>
          /\ \/ Skip /\ s2c[1].part = "head" /\ held' = s2c[1].n
             \/ Skip /\ s2c[1].part = "tail" /\ held' = 0
             \/ Pong(tx) /\ held' = 0 /\ s2c' = <<>>
      BY <1>d, FeedCases
    <2>2. CASE Pong(tx) /\ held' = 0 /\ s2c' = <<>>
      <3>1. got' = 0 BY <2>2 DEF Pong
      <3>2. s2c' = <<>> /\ held' = 0 BY <2>2
      <3> QED BY <3>1, <3>2 DEF StreamInv
    <2>3. CASE Skip /\ s2c[1].part \in {"head", "tail"}
      <3>1. /\ Len(Tail(s2c)) = Len(s2c) - 1 /\ Len(s2c) \in Nat /\ Len(s2c) > 0
            /\ \A i \in 1..(Len(s2c) - 1) : Tail(s2c)[i] = s2c[i + 1]
        BY <1>1, <2>1, TailAt DEF TypeOK
      <3>2. /\ Len(s2c') = Len(s2c) - 1 /\ pc' = "wait"
            /\ \A i \in 1..(Len(s2c) - 1) : s2c'[i] = s2c[i + 1]
        BY <2>1, <2>3, <3>1 DEF Skip
      <3>3. s2c' # <<>> <=> Len(s2c) > 1 BY <1>2, <3>1, <3>2 DEF TypeOK
      <3>4. \A i \in 1..Len(s2c') :
              /\ s2c'[i].part = "head" => /\ i < Len(s2c') /\ s2c'[i + 1].part = "tail"
                                          /\ s2c'[i + 1].n = s2c'[i].n
              /\ s2c'[i].part = "tail" /\ i > 1 => s2c'[i - 1].part = "head"
        BY <1>1, <3>1, <3>2 DEF StreamInv
      <3>5. CASE s2c[1].part = "head"
        <4>1. Len(s2c) > 1 /\ s2c'[1].part = "tail" /\ s2c'[1].n = s2c[1].n
          BY <1>1, <3>1, <3>2, <3>5 DEF StreamInv
        <4>2. held' = s2c[1].n BY <2>1, <3>5, <2>3, <3>3, <4>1
        <4> QED BY <2>1, <3>2, <3>3, <3>4, <4>1, <4>2 DEF StreamInv
      <3>6. CASE s2c[1].part = "tail"
        <4>1. held' = 0 BY <2>1, <3>6
        <4>2. Len(s2c) > 1 => s2c'[1].part # "tail" BY <1>1, <3>1, <3>2, <3>6 DEF StreamInv
        <4> QED BY <3>2, <3>3, <3>4, <4>1, <4>2 DEF StreamInv
      <3> QED BY <2>3, <3>5, <3>6
    <2> QED BY <2>1, <2>2, <2>3
  <1>e. CASE ReceiveError
    <2>1. s2c' = s2c /\ got' = got /\ got = 0 /\ pc' # "wait" /\ (held' = held \/ held' = 0)
      BY <1>1, <1>e DEF ReceiveError, Broken, ParserInit, TypeOK
    <2> QED BY <1>3, <2>1, StreamQuiet
  <1>f. CASE Timeout
    <2>1. s2c' = s2c /\ got' = 0 /\ pc' # "wait" /\ (held' = held \/ held' = 0)
      BY <1>f DEF Timeout, Broken, ParserInit, ParserReset, NextRequest
    <2> QED BY <1>3, <2>1, StreamQuiet
  <1>g. CASE Report \/ Stopped
    <2>1. s2c' = s2c /\ got' = got /\ got = 0 /\ pc' # "wait" /\ held' = held
      BY <1>1, <1>3, <1>g DEF Report, Stopped, End, StreamInv
    <2> QED BY <1>3, <2>1, StreamQuiet
  <1>h. CASE PeerClose \/ Interrupt
    <2>1. UNCHANGED <<s2c, got, pc, held, tx>> BY <1>h DEF PeerClose, Interrupt, counters
    <2>2. got' > 0 => pc' = "wait" BY <1>1, <2>1 DEF StreamInv
    <2> QED BY <1>3, <2>1, <2>2, StreamQuiet
  <1>i. CASE PeerAnswer
    <2>1. UNCHANGED <<got, pc, held, tx>> BY <1>i DEF PeerAnswer, counters
    <2>2. CASE s2c' = s2c
      <3>1. got' > 0 => pc' = "wait" BY <1>1, <2>1 DEF StreamInv
      <3> QED BY <1>3, <2>1, <2>2, <3>1, StreamQuiet
    <2>3. CASE s2c' # s2c
      <3> DEFINE x == s2c'[Len(s2c) + 1]
                 y == s2c'[Len(s2c) + 2]
      <3>6. /\ Len(s2c') = Len(s2c) + 2 /\ Len(s2c) \in Nat
            /\ s2c'[Len(s2c) + 1] = x /\ s2c'[Len(s2c) + 2] = y
            /\ \A i \in 1..Len(s2c) : s2c'[i] = s2c[i]
        BY <1>i, <2>3, AnswerCases
      <3>7. x.n = y.n /\ x.part = "head" /\ y.part = "tail" BY <1>i, <2>3, AnswerCases
      <3> HIDE DEF x, y
      <3>8. \A i \in 1..Len(s2c') :
              /\ s2c'[i].part = "head" => /\ i < Len(s2c') /\ s2c'[i + 1].part = "tail"
                                          /\ s2c'[i + 1].n = s2c'[i].n
              /\ s2c'[i].part = "tail" /\ i > 1 => s2c'[i - 1].part = "head"
        <4> TAKE i \in 1..Len(s2c')
        <4>1. CASE i = Len(s2c) + 1
          <5>1. i > 1 => Len(s2c) \in 1..Len(s2c) BY <3>6, <4>1
          <5> QED BY <3>6, <3>7, <4>1
        <4>2. CASE i = Len(s2c) + 2 BY <3>6, <3>7, <4>2
        <4>3. CASE i \in 1..Len(s2c)
          <5>1. s2c[i].part = "head" => i + 1 \in 1..Len(s2c) BY <1>1, <3>6, <4>3 DEF StreamInv
          <5>2. i > 1 => i - 1 \in 1..Len(s2c) BY <3>6, <4>3
          <5>3. /\ s2c[i].part = "head" => s2c[i + 1].part = "tail" /\ s2c[i + 1].n = s2c[i].n
                /\ s2c[i].part = "tail" /\ i > 1 => s2c[i - 1].part = "head"
            BY <1>1, <4>3 DEF StreamInv
          <5> QED BY <3>6, <4>3, <5>1, <5>2, <5>3
        <4> QED BY <3>6, <4>1, <4>2, <4>3
      <3>9. CASE s2c = <<>>
        BY <1>1, <2>1, <3>6, <3>7, <3>8, <3>9 DEF StreamInv
      <3>10. CASE s2c # <<>>
        <4>1. Len(s2c) > 0 BY <1>1, <3>10 DEF TypeOK
        <4>2. s2c'[1] = s2c[1] /\ s2c' # <<>> BY <3>6, <4>1
        <4> QED BY <1>1, <2>1, <3>8, <3>10, <4>2 DEF StreamInv
      <3> QED BY <3>9, <3>10
    <2> QED BY <1>i, <2>2, <2>3 DEF PeerAnswer
  <1> QED
    BY <1>a, <1>b, <1>c, <1>d, <1>e, <1>f, <1>g, <1>h, <1>i DEF Next, Client

\* What the steps other than Feed and PeerAnswer do to the streams.
LEMMA StreamsOtherwise ==
    ASSUME PongInv, Next, ~Feed, ~PeerAnswer
    PROVE  \/ UNCHANGED <<c2s, s2c>>
           \/ c2s' = <<>> /\ (s2c' = s2c \/ s2c' = <<>>)
           \/ /\ Send /\ s2c' = s2c /\ tx' = tx + 1 /\ pc' = "wait"
              /\ Len(c2s') = Len(c2s) + 1 /\ c2s'[Len(c2s) + 1] = [n |-> tx + 1, seq |-> seq]
              /\ \A i \in 1..Len(c2s) : c2s'[i] = c2s[i]
  <1>1. CASE Send
    <2>1. CASE c2s' = c2s BY <1>1, <2>1 DEF Send
    <2>2. CASE c2s' # c2s
      <3>1. /\ tx' = tx + 1 /\ pc' = "wait" /\ s2c' = s2c
            /\ c2s' = Append(c2s, [n |-> tx + 1, seq |-> seq])
        BY <1>1, <2>2 DEF Send
      <3>2. PICK p : p = [n |-> tx + 1, seq |-> seq] OBVIOUS
      <3>3. tx \in Nat /\ seq \in 0..(SeqRange - 1) /\ c2s \in Seq(Pings(tx))
        BY DEF PongInv, TypeOK
      <3>4. p \in Pings(tx + 1) /\ c2s \in Seq(Pings(tx + 1))
        <4>1. p \in Pings(tx + 1) BY <3>2, <3>3 DEF Pings
        <4> QED BY <3>3, <4>1, FramesWider, SeqWider
      <3>5. /\ Len(c2s') = Len(c2s) + 1 /\ c2s'[Len(c2s) + 1] = p
            /\ \A i \in 1..Len(c2s) : c2s'[i] = c2s[i]
        BY <3>1, <3>2, <3>4, AppendAt
      <3> QED BY <1>1, <3>1, <3>2, <3>5
    <2> QED BY <2>1, <2>2
  <1>2. CASE ~Send
    BY <1>2 DEF Next, Client, Connect, Receive, ReceiveError, Timeout, Report, Stopped, PeerClose,
      Interrupt
  <1> QED BY <1>1, <1>2

\* A half is taken off the stream.
LEMMA SkipStream ==
    ASSUME PongInv, Skip, got > 0
    PROVE  /\ Len(s2c') = Len(s2c) - 1 /\ Len(s2c) \in Nat /\ Len(s2c) > 0
           /\ \A i \in 1..Len(s2c') : s2c'[i] = s2c[i + 1]
  <1>1. s2c \in Seq(Pieces(tx)) /\ s2c # <<>> /\ s2c' = Tail(s2c)
    BY DEF PongInv, TypeOK, Skip
  <1> QED BY <1>1, TailAt

LEMMA OrderStep == PongInv /\ Next => OrderInv'
  <1> SUFFICES ASSUME PongInv, Next PROVE OrderInv' OBVIOUS
  <1>1. TypeOK /\ OrderInv /\ StreamInv BY DEF PongInv
  <1>2. /\ Len(c2s) \in Nat /\ Len(s2c) \in Nat /\ tx \in Nat
        /\ \A i \in 1..Len(c2s) : c2s[i].n \in 1..tx
        /\ \A i \in 1..Len(s2c) : s2c[i].n \in 1..tx
    BY <1>1, StreamElements DEF TypeOK
  <1>3. CASE Feed
    <2>1. c2s' = c2s /\ got > 0 /\ (Skip \/ (s2c' = <<>> /\ c2s = <<>>)) BY <1>3, FeedCases
    <2>2. CASE s2c' = <<>> /\ c2s = <<>> BY <2>1, <2>2 DEF OrderInv
    <2>3. CASE Skip
      <3>1. /\ Len(s2c') = Len(s2c) - 1
            /\ \A i \in 1..Len(s2c') : s2c'[i] = s2c[i + 1] /\ i + 1 \in 1..Len(s2c)
        BY <1>2, <2>1, <2>3, SkipStream
      <3>2. ASSUME NEW i \in 1..Len(s2c'), NEW j \in 1..Len(s2c'), i < j, s2c'[j].part = "head"
            PROVE  s2c'[i].n < s2c'[j].n
        <4>1. i + 1 \in 1..Len(s2c) /\ j + 1 \in 1..Len(s2c) /\ i + 1 < j + 1
          BY <1>2, <3>1, <3>2
        <4>2. s2c[j + 1].part = "head" BY <3>1, <3>2
        <4>3. s2c[i + 1].n < s2c[j + 1].n BY <1>1, <4>1, <4>2 DEF OrderInv
        <4> QED BY <3>1, <4>3
      <3>3. ASSUME NEW i \in 1..Len(s2c'), NEW j \in 1..Len(c2s) PROVE s2c'[i].n < c2s[j].n
        BY <1>1, <3>1 DEF OrderInv
      <3> QED BY <1>1, <2>1, <3>2, <3>3 DEF OrderInv
    <2> QED BY <2>1, <2>2, <2>3
  <1>4. CASE PeerAnswer
    <2>1. /\ Len(c2s) >= 1 /\ Len(c2s') = Len(c2s) - 1
          /\ \A i \in 1..Len(c2s') : c2s'[i] = c2s[i + 1] /\ i + 1 \in 1..Len(c2s)
      BY <1>2, <1>4, AnswerCases
    <2>2. ASSUME NEW i \in 1..Len(c2s'), NEW j \in 1..Len(c2s'), i < j
          PROVE  c2s'[i].n < c2s'[j].n
      <3>1. i + 1 \in 1..Len(c2s) /\ j + 1 \in 1..Len(c2s) /\ i + 1 < j + 1
        BY <1>2, <2>1, <2>2
      <3>2. c2s[i + 1].n < c2s[j + 1].n BY <1>1, <3>1 DEF OrderInv
      <3> QED BY <2>1, <3>2
    <2>3. 1 \in 1..Len(c2s) /\ \A i \in 1..Len(c2s') : c2s[1].n < c2s'[i].n
      BY <1>1, <1>2, <2>1 DEF OrderInv
    <2>4. \A i \in 1..Len(s2c) : /\ s2c[i].n < c2s[1].n
                                 /\ \A j \in 1..Len(c2s') : s2c[i].n < c2s'[j].n
      BY <1>1, <1>2, <2>1, <2>3 DEF OrderInv
    <2>5. CASE s2c' = s2c BY <1>1, <2>2, <2>4, <2>5 DEF OrderInv
    <2>6. CASE s2c' # s2c
      <3>1. /\ Len(s2c') = Len(s2c) + 2
            /\ \A i \in 1..Len(s2c) : s2c'[i] = s2c[i]
            /\ \A i \in {Len(s2c) + 1, Len(s2c) + 2} : s2c'[i].n = c2s[1].n
            /\ s2c'[Len(s2c) + 2].part = "tail"
        BY <1>4, <2>6, AnswerCases
      <3>2. \A i \in 1..Len(s2c') : i \in 1..Len(s2c) \/ i \in {Len(s2c) + 1, Len(s2c) + 2}
        BY <1>2, <3>1
      <3>3. \A i \in 1..Len(s2c'), j \in 1..Len(c2s') : s2c'[i].n < c2s'[j].n
        BY <2>3, <2>4, <3>1, <3>2
      <3>4. ASSUME NEW i \in 1..Len(s2c'), NEW j \in 1..Len(s2c'), i < j, s2c'[j].part = "head"
            PROVE  s2c'[i].n < s2c'[j].n
        <4>1. j # Len(s2c) + 2 BY <3>1, <3>4
        <4>2. CASE j = Len(s2c) + 1
          <5>1. i \in 1..Len(s2c) BY <1>2, <3>1, <3>4, <4>2
          <5> QED BY <2>4, <3>1, <4>2, <5>1
        <4>3. CASE j \in 1..Len(s2c)
          <5>1. i \in 1..Len(s2c) BY <1>2, <3>1, <3>4, <4>3
          <5> QED BY <1>1, <3>1, <3>4, <4>3, <5>1 DEF OrderInv
        <4> QED BY <3>2, <4>1, <4>2, <4>3
      <3> QED BY <2>2, <3>3, <3>4 DEF OrderInv
    <2> QED BY <2>5, <2>6
  <1>5. CASE ~Feed /\ ~PeerAnswer
    <2>1. CASE UNCHANGED <<c2s, s2c>> BY <1>1, <2>1 DEF OrderInv
    <2>2. CASE c2s' = <<>> /\ (s2c' = s2c \/ s2c' = <<>>) BY <1>1, <2>2 DEF OrderInv
    <2>3. CASE /\ s2c' = s2c /\ tx' = tx + 1
               /\ Len(c2s') = Len(c2s) + 1
               /\ c2s'[Len(c2s) + 1] = [n |-> tx + 1, seq |-> seq]
               /\ \A i \in 1..Len(c2s) : c2s'[i] = c2s[i]
      <3>1. c2s'[Len(c2s) + 1].n = tx + 1 BY <2>3
      <3>2. \A i \in 1..Len(c2s') : i \in 1..Len(c2s) \/ i = Len(c2s) + 1 BY <1>2, <2>3
      <3>3. \A i \in 1..Len(s2c'), j \in 1..Len(c2s') : s2c'[i].n < c2s'[j].n
        BY <1>1, <1>2, <2>3, <3>1, <3>2 DEF OrderInv
      <3>4. ASSUME NEW i \in 1..Len(c2s'), NEW j \in 1..Len(c2s'), i < j
            PROVE  c2s'[i].n < c2s'[j].n
        <4>1. i \in 1..Len(c2s) BY <1>2, <2>3, <3>4
        <4> QED BY <1>1, <1>2, <2>3, <3>1, <3>2, <3>4, <4>1 DEF OrderInv
      <3> QED BY <1>1, <2>3, <3>3, <3>4 DEF OrderInv
    <2> QED BY <1>5, <2>1, <2>2, <2>3, StreamsOtherwise
  <1> QED BY <1>3, <1>4, <1>5

\* What is on its way and stays so is no later than the faults explain.
LEMMA TimelyKept ==
    ASSUME PongInv, Next, NEW x, NEW y, x.n \in Nat, y.n = x.n, y.seq = x.seq, Timely(x),
           c2s # <<>> \/ s2c # <<>>, c2s' # <<>> \/ s2c' # <<>>
    PROVE  Timely(y)'
  <1> USE DEF Timely
  <1>1. request \in Nat /\ nf \in Nat /\ recovery \in BOOLEAN BY PongConstants DEF PongInv, TypeOK
  <1>2. recovery' = recovery
    BY DEF Next, Client, Connect, Send, Receive, Feed, ReceiveError, Timeout, Report, Stopped,
      PeerAnswer, PeerClose, Interrupt
  <1>a. CASE Connect BY <1>1, <1>a DEF Connect, Fault, End, counters
  <1>b. CASE Send BY <1>1, <1>b DEF Send, Broken
  <1>c. CASE Receive BY <1>1, <1>c DEF Receive, counters
  <1>d. CASE Feed
    <2>1. UNCHANGED <<recovery, tx, nf>> /\ Skip BY <1>d, FeedCases
    <2> QED BY <1>1, <2>1 DEF Skip
  <1>e. CASE ReceiveError BY <1>1, <1>e DEF ReceiveError, Broken
  <1>f. CASE Timeout
    BY <1>1, <1>f DEF Timeout, NothingComes, Fault, NextRequest, Broken
  <1>g. CASE Report \/ Stopped BY <1>1, <1>g DEF Report, Stopped, End, counters
  <1>h. CASE PeerClose \/ Interrupt BY <1>1, <1>h DEF PeerClose, Interrupt, Fault, counters
  <1>i. CASE PeerAnswer BY <1>1, <1>i, AnswerCases
  <1> QED
    BY <1>a, <1>b, <1>c, <1>d, <1>e, <1>f, <1>g, <1>h, <1>i DEF Next, Client

LEMMA LateStep == PongInv /\ Next => LateInv'
  <1> SUFFICES ASSUME PongInv, Next PROVE LateInv' OBVIOUS
  <1>1. TypeOK /\ LateInv /\ TypeOK' /\ CountInv BY TypeStep DEF PongInv
  <1>2. /\ Len(c2s) \in Nat /\ Len(s2c) \in Nat /\ tx \in Nat /\ nf \in Nat /\ request \in Nat
        /\ recovery \in BOOLEAN
        /\ \A i \in 1..Len(c2s) : c2s[i].n \in Nat /\ Timely(c2s[i]) /\ c2s # <<>>
        /\ \A i \in 1..Len(s2c) : s2c[i].n \in Nat /\ Timely(s2c[i]) /\ s2c # <<>>
    <2>1. /\ tx \in Nat /\ nf \in Nat /\ request \in Nat /\ recovery \in BOOLEAN
          /\ Len(c2s) \in Nat /\ Len(s2c) \in Nat
      BY <1>1, PongConstants DEF TypeOK
    <2>a. (\A i \in 1..Len(c2s) : c2s # <<>>) /\ (\A i \in 1..Len(s2c) : s2c # <<>>)
      OBVIOUS
    <2>2. /\ \A i \in 1..Len(c2s) : c2s[i].n \in 1..tx
          /\ \A i \in 1..Len(s2c) : s2c[i].n \in 1..tx
      BY <1>1, StreamElements
    <2> QED BY <1>1, <2>1, <2>a, <2>2 DEF LateInv
  <1>3. /\ \A i \in 1..Len(c2s') : c2s' # <<>>
        /\ \A i \in 1..Len(s2c') : s2c' # <<>>
    OBVIOUS
  <1>4. ASSUME NEW i \in 1..Len(c2s'), NEW j \in 1..Len(c2s), c2s'[i] = c2s[j]
        PROVE  Timely(c2s[i])'
    <2>1. PICK x : x = c2s[j] OBVIOUS
    <2>2. Timely(x)' BY <1>2, <1>3, <2>1, TimelyKept
    <2> QED BY <1>4, <2>1, <2>2 DEF Timely
  <1>5. ASSUME NEW i \in 1..Len(s2c'), NEW j \in 1..Len(s2c), s2c'[i] = s2c[j]
        PROVE  Timely(s2c[i])'
    <2>1. PICK x : x = s2c[j] OBVIOUS
    <2>2. Timely(x)' BY <1>2, <1>3, <2>1, TimelyKept
    <2> QED BY <1>5, <2>1, <2>2 DEF Timely
  <1>6. CASE Feed
    <2>1. c2s' = c2s /\ got > 0 /\ (Skip \/ (s2c' = <<>> /\ c2s = <<>>)) BY <1>6, FeedCases
    <2>2. CASE s2c' = <<>> /\ c2s = <<>> BY <2>1, <2>2 DEF LateInv
    <2>3. CASE Skip
      <3>1. \A i \in 1..Len(s2c') : s2c'[i] = s2c[i + 1] /\ i + 1 \in 1..Len(s2c)
        BY <1>2, <2>1, <2>3, SkipStream
      <3> QED BY <1>4, <1>5, <2>1, <3>1 DEF LateInv
    <2> QED BY <2>1, <2>2, <2>3
  <1>7. CASE PeerAnswer
    <2>1. \A i \in 1..Len(c2s') : c2s'[i] = c2s[i + 1] /\ i + 1 \in 1..Len(c2s)
      BY <1>2, <1>7, AnswerCases
    <2>2. \A i \in 1..Len(c2s') : Timely(c2s[i])' BY <1>4, <2>1
    <2>3. ASSUME NEW i \in 1..Len(s2c') PROVE Timely(s2c[i])'
      <3>1. CASE i \in 1..Len(s2c) BY <1>5, <1>7, <3>1, AnswerCases
      <3>2. CASE i \notin 1..Len(s2c)
        <4>1. s2c'[i].n = c2s[1].n /\ s2c'[i].seq = c2s[1].seq /\ 1 \in 1..Len(c2s)
          <5>1. i \in {Len(s2c) + 1, Len(s2c) + 2} /\ s2c' # s2c BY <1>2, <1>7, <3>2, AnswerCases
          <5> QED BY <1>2, <1>7, <5>1, AnswerCases
        <4>2. PICK x : x = c2s[1] OBVIOUS
        <4>3. PICK y : y = s2c'[i] OBVIOUS
        <4>4. Timely(y)' BY <1>2, <1>3, <4>1, <4>2, <4>3, TimelyKept
        <4> QED BY <4>3, <4>4 DEF Timely
      <3> QED BY <3>1, <3>2
    <2> QED BY <2>2, <2>3 DEF LateInv
  <1>8. CASE ~Feed /\ ~PeerAnswer
    <2>1. CASE UNCHANGED <<c2s, s2c>> BY <1>4, <1>5, <2>1 DEF LateInv
    <2>2. CASE c2s' = <<>> /\ (s2c' = s2c \/ s2c' = <<>>) BY <1>5, <2>2 DEF LateInv
    <2>3. CASE /\ Send /\ s2c' = s2c /\ tx' = tx + 1 /\ pc' = "wait"
               /\ Len(c2s') = Len(c2s) + 1
               /\ c2s'[Len(c2s) + 1] = [n |-> tx + 1, seq |-> seq]
               /\ \A i \in 1..Len(c2s) : c2s'[i] = c2s[i]
      <3>1. \A i \in 1..Len(s2c') : Timely(s2c[i])' BY <1>5, <2>3
      <3>2. ASSUME NEW i \in 1..Len(c2s') PROVE Timely(c2s[i])'
        <4>1. CASE i \in 1..Len(c2s) BY <1>4, <2>3, <4>1
        <4>2. CASE i = Len(c2s) + 1
          <5>1. c2s'[i].n = tx + 1 /\ c2s'[i].seq = seq BY <2>3, <4>2
          <5>2. UNCHANGED <<recovery, request, seq, nf>> /\ pc = "send" BY <2>3 DEF Send, Broken
          <5>3. ~recovery => tx = request /\ seq = (request + 1) % SeqRange
            BY <1>1, <5>2 DEF CountInv
          <5> QED BY <1>2, <2>3, <5>1, <5>2, <5>3 DEF Timely
        <4> QED BY <1>2, <2>3, <4>1, <4>2
      <3> QED BY <3>1, <3>2 DEF LateInv
    <2> QED BY <1>8, <2>1, <2>2, <2>3, StreamsOtherwise
  <1> QED BY <1>6, <1>7, <1>8

\* What recv has returned is looked at before anything else happens.
LEMMA ReadStep == PongInv /\ Next => ReadInv'
  <1> SUFFICES ASSUME PongInv, Next PROVE ReadInv' OBVIOUS
  <1>1. TypeOK /\ ReadInv /\ StreamInv /\ LateInv /\ CountInv /\ TypeOK'
    BY TypeStep DEF PongInv
  <1>2. tx \in Nat /\ tx' \in Nat /\ got \in Nat /\ recovery \in BOOLEAN
    BY <1>1, StreamElements DEF TypeOK
  <1>3. ASSUME read' = read, tx' >= tx, pc' # "wait" \/ tx' = tx + 1 PROVE ReadInv'
    BY <1>1, <1>2, <1>3 DEF ReadInv
  <1>4. CASE Receive
    <2>1. PICK k \in 1..Len(s2c) :
            got' = k /\ read' = read \cup {<<s2c[i].n, s2c[i].part>> : i \in 1..k}
      BY <1>4 DEF Receive
    <2>2. UNCHANGED <<s2c, tx>> /\ got = 0 BY <1>4 DEF Receive, counters
    <2>3. \A i \in 1..k : s2c[i].n \in 1..tx /\ i \in 1..got' BY <1>1, <2>1, StreamElements
    <2>4. \A r \in read' : r[1] \in 1..tx BY <1>1, <2>1, <2>3 DEF ReadInv
    <2>5. ASSUME pc' = "wait", <<tx, "tail">> \in read'
          PROVE  \E i \in 1..got' : s2c[i].n = tx /\ s2c[i].part = "tail"
      <3>1. <<tx, "tail">> \notin read
        <4>1. pc = "wait" BY <1>4 DEF Receive
        <4> QED BY <1>1, <2>2, <4>1 DEF ReadInv
      <3>2. PICK i \in 1..k : <<tx, "tail">> = <<s2c[i].n, s2c[i].part>> BY <2>1, <2>5, <3>1
      <3> QED BY <2>3, <3>2
    <2> QED BY <2>2, <2>4, <2>5 DEF ReadInv
  <1>5. CASE Feed
    <2>1. /\ UNCHANGED <<tx, read>> /\ pc = "wait" /\ got > 0 /\ s2c # <<>>
          /\ \/ Skip /\ s2c[1].part = "head"
             \/ Skip /\ s2c[1].part = "tail" /\ ~(held = s2c[1].n /\ s2c[1].seq = seq)
             \/ Pong(tx)
      BY <1>5, FeedCases
    <2>2. CASE Pong(tx)
      BY <1>2, <1>3, <2>1, <2>2 DEF Pong, NextRequest
    <2>3. CASE Skip /\ ~(s2c[1].part = "tail" /\ held = s2c[1].n /\ s2c[1].seq = seq)
      <3>1. /\ Len(s2c) \in Nat /\ Len(s2c) > 0 /\ Len(s2c') = Len(s2c) - 1
            /\ \A i \in 1..Len(s2c') : s2c'[i] = s2c[i + 1]
        BY <2>1, <2>3, SkipStream
      <3>2. got' = got - 1 /\ pc' = "wait" /\ got \in 0..Len(s2c) BY <1>1, <2>1, <2>3 DEF Skip, TypeOK
      <3>3. ~(s2c[1].n = tx /\ s2c[1].part = "tail")
        <4> SUFFICES ASSUME s2c[1].n = tx, s2c[1].part = "tail" PROVE FALSE OBVIOUS
        <4>1. held = tx BY <1>1, <2>1 DEF StreamInv
        <4>2. 1 \in 1..Len(s2c) BY <3>1
        <4>3. s2c[1].seq = seq
          <5>1. Timely(s2c[1]) BY <1>1, <4>2 DEF LateInv
          <5>2. CASE recovery BY <2>1, <5>1, <5>2 DEF Timely
          <5>3. CASE ~recovery
            <6>1. s2c[1].seq = tx % SeqRange BY <5>1, <5>3 DEF Timely
            <6>2. seq = (request + 1) % SeqRange /\ tx = request + 1
              BY <1>1, <2>1, <5>3 DEF CountInv
            <6> QED BY <6>1, <6>2
          <5> QED BY <1>2, <5>2, <5>3
        <4> QED BY <2>3, <4>1, <4>3
      <3>4. ASSUME <<tx, "tail">> \in read
            PROVE  \E i \in 1..got' : s2c'[i].n = tx /\ s2c'[i].part = "tail"
        <4>1. PICK i \in 1..got : s2c[i].n = tx /\ s2c[i].part = "tail"
          BY <1>1, <2>1, <3>4 DEF ReadInv
        <4>2. i # 1 BY <3>3, <4>1
        <4>3. i - 1 \in 1..got' /\ i - 1 \in 1..Len(s2c') /\ (i - 1) + 1 = i
          BY <3>1, <3>2, <4>1, <4>2
        <4>4. s2c'[i - 1] = s2c[i] BY <3>1, <4>3
        <4> QED BY <4>1, <4>3, <4>4
      <3> QED BY <1>1, <2>1, <3>4 DEF ReadInv
    <2> QED BY <2>1, <2>2, <2>3
  <1>6. CASE PeerAnswer
    <2>1. /\ UNCHANGED <<pc, tx, got, read>>
          /\ \A i \in 1..Len(s2c) : s2c'[i] = s2c[i]
      BY <1>6, AnswerCases DEF history
    <2>2. \A i \in 1..got : i \in 1..Len(s2c) BY <1>1, StreamElements
    <2> QED BY <1>1, <2>1, <2>2 DEF ReadInv
  <1>7. CASE PeerClose \/ Interrupt
    BY <1>1, <1>7 DEF ReadInv, PeerClose, Interrupt, counters, history
  <1>8. CASE Connect \/ Send \/ ReceiveError \/ Timeout \/ Report \/ Stopped
    <2>1. read' = read /\ (pc' # "wait" \/ tx' = tx + 1) /\ (tx' = tx \/ tx' = tx + 1)
      BY <1>8 DEF Connect, Send, ReceiveError, Timeout, Report, Stopped, End, Broken, NextRequest,
        counters, history
    <2> QED BY <1>2, <1>3, <2>1
  <1> QED BY <1>4, <1>5, <1>6, <1>7, <1>8 DEF Next, Client

\* Each step keeps the invariant.
LEMMA PongNext == PongInv /\ [Next]_vars => PongInv'
  <1> SUFFICES ASSUME PongInv, [Next]_vars PROVE PongInv' OBVIOUS
  <1>1. CASE UNCHANGED vars
    BY <1>1 DEF PongInv, vars, TypeOK, CountInv, StreamInv, OrderInv, LateInv, Timely, ReadInv,
      OkIsOwn, ExitHonest
  <1>2. CASE Next
    <2>1. oks' = oks \/ oks' = oks \cup {[n |-> tx, by |-> tx]}
      <3>1. CASE Feed BY <3>1, FeedCases DEF Skip, Pong
      <3>2. CASE ~Feed
        BY <1>2, <3>2 DEF Next, Client, Connect, Send, Receive, ReceiveError, Timeout, Report,
          Stopped, PeerAnswer, PeerClose, Interrupt, history
      <3> QED BY <3>1, <3>2
    <2>2. OkIsOwn' BY <2>1 DEF PongInv, OkIsOwn
    <2> QED BY <1>2, <2>2, TypeStep, CountStep, StreamStep, OrderStep, LateStep, ReadStep
          DEF PongInv
  <1> QED BY <1>1, <1>2

\* The invariant behind the properties of both TCP clients, for every number of
\* requests, every range of SEQ and every pattern of faults.
THEOREM PongInvariance == Spec => []PongInv
  BY PongInit, PongNext, PTL DEF Spec

\* wait_for_pong takes a PONG for the answer to its own PING only, however many
\* earlier ones come late, in one piece or in two; and tcp_client returns EXIT_SUCCESS
\* only after an answer to each of its requests.
THEOREM ClientsReport == Spec => []ClientReportsTrue
  <1>1. PongInv => ClientReportsTrue BY DEF PongInv, ClientReportsTrue
  <1> QED BY <1>1, PongInvariance, PTL

\* Neither TCP client gives up a request whose PONG recv has returned.
THEOREM NoPongThrownAway == Spec => PongNotThrownAway
  <1> DEFINE Kept == pc = "wait" /\ pc' # "wait" /\ ~stop /\ rx' = rx => ~Whole(tx)
  <1>1. PongInv /\ [Next]_vars => [Kept]_vars
    <2> SUFFICES ASSUME PongInv, Next, pc = "wait", pc' # "wait", ~stop, rx' = rx
                 PROVE  ~Whole(tx)
      OBVIOUS
    <2>1. TypeOK /\ ReadInv BY DEF PongInv
    <2>2. got = 0
      <3>1. CASE Feed
        <4>1. rx \in Nat BY <2>1 DEF TypeOK
        <4> QED BY <3>1, <4>1, FeedCases DEF Skip, Pong
      <3>2. CASE ReceiveError BY <2>1, <3>2 DEF ReceiveError, TypeOK
      <3>3. CASE Timeout BY <3>3 DEF Timeout
      <3> QED BY <3>1, <3>2, <3>3 DEF Next, Client, Connect, Send, Receive, Report, Stopped,
            PeerAnswer, PeerClose, Interrupt
    <2> QED BY <2>1, <2>2 DEF ReadInv, Whole
  <1>2. PongInv /\ [Next]_vars => [pc = "wait" /\ pc' # "wait" /\ ~stop /\ rx' = rx => ~Whole(tx)]_vars
    BY <1>1
  <1> QED BY <1>2, PongInvariance, PTL DEF Spec, PongNotThrownAway

-----------------------------------------------------------------------------
(* udp_client.                                                             *)

\* What the assumption says of the numbers.
LEMMA UdpConstants ==
    /\ SeqMod \in Nat \ {0} /\ Telemetry \in 1..SeqMod /\ MaxSent \in 0..SeqMod /\ MaxSpoilt \in Nat
    /\ Starts \subseteq 0..(SeqMod - 1)
  BY HostAssumption DEF Udp!UdpAssumption

\* Both modules mean the same number of elements.
LEMMA SameCount == \A S : Udp!Cardinality(S) = Cardinality(S)
  BY Zenon DEF Cardinality, Udp!Cardinality, IsFiniteSet, Udp!IsFiniteSet

\* A datagram.
Datagrams == [n : 1..MaxSent, seq : 0..(SeqMod - 1), kind : Udp!Kinds]

\* Two numbers with the same SEQ are the same.
LEMMA SeqOfInjective ==
    ASSUME Udp!TypeOK, NEW m \in 1..MaxSent, NEW n \in 1..MaxSent,
           Udp!SeqOf(m) = Udp!SeqOf(n)
    PROVE  m = n
  <1> USE UdpConstants
  <1>1. uSeq \in Int /\ count \in Int BY DEF Udp!TypeOK
  <1>2. ASSUME NEW a \in 1..MaxSent, NEW b \in 1..MaxSent, a < b
        PROVE  Udp!SeqOf(a) # Udp!SeqOf(b)
    <2>1. PICK l \in Int : l = uSeq + a - count BY <1>1
    <2>2. PICK d \in 1..SeqMod - 1 : d = b - a
      <3>1. b - a \in 1..SeqMod - 1 BY <1>2
      <3> QED BY <3>1
    <2>3. (l + d) % SeqMod # l % SeqMod BY ModDiffer
    <2>4. l + d = uSeq + b - count BY <1>1, <2>1, <2>2
    <2> QED BY <2>1, <2>3, <2>4 DEF Udp!SeqOf
  <1>3. m < n \/ n < m \/ m = n OBVIOUS
  <1> QED BY <1>2, <1>3

\* The sender gives the next number the next SEQ, and the others keep theirs.
LEMMA SeqOfKept ==
    ASSUME Udp!TypeOK, uSeq' = Udp!NextSeq, count' = count + 1
    PROVE  /\ uSeq' \in 0..(SeqMod - 1)
           /\ \A n \in Int : Udp!SeqOf(n)' = Udp!SeqOf(n)
           /\ \A n \in Int : n = count + 1 => Udp!SeqOf(n)' = uSeq'
  <1> USE UdpConstants
  <1>1. uSeq \in Int /\ count \in Int BY DEF Udp!TypeOK
  <1>2. PICK l \in Int : l = uSeq + 1 BY <1>1
  <1>3. PICK f \in 0..(SeqMod - 1) : f = l % SeqMod BY <1>2
  <1>4. uSeq' = f BY <1>2, <1>3 DEF Udp!NextSeq
  <1>5. ASSUME NEW n \in Int PROVE Udp!SeqOf(n)' = Udp!SeqOf(n)
    <2>1. PICK d \in Int : d = n - count - 1 BY <1>1
    <2>2. l % SeqMod = f BY <1>3
    <2>3. (f + d) % SeqMod = (l + d) % SeqMod BY <2>2, ModShift
    <2>4. l + d = uSeq + n - count BY <1>1, <1>2, <2>1
    <2>5. f + d = uSeq' + n - count' BY <1>1, <1>4, <2>1
    <2> QED BY <2>3, <2>4, <2>5 DEF Udp!SeqOf
  <1>6. ASSUME NEW n \in Int, n = count + 1 PROVE Udp!SeqOf(n)' = uSeq'
    <2>1. uSeq' + n - count' = f BY <1>1, <1>4, <1>6
    <2>2. f % SeqMod = f BY ModSmall
    <2> QED BY <1>4, <2>1, <2>2 DEF Udp!SeqOf
  <1> QED BY <1>3, <1>4, <1>5, <1>6

\* Nothing changes the SEQs of the numbers while the sender is idle.
LEMMA SeqOfSame ==
    ASSUME UNCHANGED <<uSeq, count>>
    PROVE  \A n : Udp!SeqOf(n)' = Udp!SeqOf(n)
  BY DEF Udp!SeqOf

\* The datagrams on their way.
LEMMA NetElements ==
    ASSUME Udp!TypeOK
    PROVE  /\ net \in Seq(Datagrams) /\ Len(net) \in Nat
           /\ \A i \in 1..Len(net) : /\ net[i].n \in 1..MaxSent /\ net[i].seq \in 0..(SeqMod - 1)
                                     /\ net[i].kind \in Udp!Kinds
  <1>1. net \in Seq(Datagrams) BY DEF Udp!TypeOK, Datagrams
  <1>2. Len(net) \in Nat /\ \A i \in 1..Len(net) : net[i] \in Datagrams BY <1>1
  <1>3. \A d \in Datagrams : d.n \in 1..MaxSent /\ d.seq \in 0..(SeqMod - 1) /\ d.kind \in Udp!Kinds
    BY DEF Datagrams
  <1> QED BY <1>1, <1>2, <1>3

\* What the sender puts on the way: nothing, a datagram, or a datagram and its
\* repetition.
LEMMA SendCases ==
    ASSUME Udp!TypeOK, Udp!SendTelemetry
    PROVE  /\ uSeq' = Udp!NextSeq /\ count' = count + 1 /\ count' \in 1..MaxSent
           /\ uSeq' \in 0..(SeqMod - 1) /\ net' \in Seq(Datagrams) /\ spoilt' \in 0..MaxSpoilt
           /\ UNCHANGED <<stopped, restarted, running, received, first, crcErrors,
                          invalidFrames, duplicates, delivered, firstN, repeats>>
           /\ \A i \in 1..Len(net) : net'[i] = net[i]
           /\ \/ Len(net') = Len(net)
              \/ /\ Len(net') \in {Len(net) + 1, Len(net) + 2}
                 /\ net'[Len(net) + 1].n = count + 1 /\ net'[Len(net) + 1].seq = uSeq'
                 /\ net'[Len(net) + 1].kind # "repeat"
                 /\ Len(net') = Len(net) + 2 =>
                       /\ net'[Len(net) + 2].n = count + 1 /\ net'[Len(net) + 2].seq = uSeq'
                       /\ net'[Len(net) + 2].kind = "repeat"
                       /\ net'[Len(net) + 1].kind = "telemetry"
  <1> USE UdpConstants
  <1>1. net \in Seq(Datagrams) /\ Len(net) \in Nat BY NetElements
  <1>2. uSeq' = Udp!NextSeq /\ count' = count + 1 BY DEF Udp!SendTelemetry
  <1>3. uSeq' \in 0..(SeqMod - 1) BY <1>2, SeqOfKept
  <1>4. count' \in 1..MaxSent BY <1>2 DEF Udp!SendTelemetry, Udp!TypeOK
  <1>5. UNCHANGED <<stopped, restarted, running, received, first, crcErrors,
                    invalidFrames, duplicates, delivered, firstN, repeats>>
    BY DEF Udp!SendTelemetry, Udp!clientVars
  <1>6. \A k \in Udp!Kinds : /\ Udp!Datagram(k) \in Datagrams
                             /\ Udp!Datagram(k).n = count + 1 /\ Udp!Datagram(k).seq = uSeq'
                             /\ Udp!Datagram(k).kind = k
    BY <1>2, <1>3, <1>4 DEF Udp!Datagram, Datagrams
  <1>7. spoilt' \in 0..MaxSpoilt BY DEF Udp!SendTelemetry, Udp!Fault, Udp!TypeOK
  <1>8. CASE net' = net BY <1>1, <1>2, <1>3, <1>4, <1>5, <1>7, <1>8
  <1>9. ASSUME NEW k \in {"telemetry", "crc", "invalid"}, net' = Append(net, Udp!Datagram(k))
        PROVE  /\ net' \in Seq(Datagrams) /\ Len(net') = Len(net) + 1
               /\ net'[Len(net) + 1] = Udp!Datagram(k) /\ \A i \in 1..Len(net) : net'[i] = net[i]
               /\ net'[Len(net) + 1].n = count + 1 /\ net'[Len(net) + 1].seq = uSeq'
               /\ net'[Len(net) + 1].kind # "repeat"
    <2>1. Udp!Datagram(k) \in Datagrams /\ k \in Udp!Kinds BY <1>6, <1>9 DEF Udp!Kinds
    <2>2. PICK d \in Datagrams : d = Udp!Datagram(k) BY <2>1
    <2>3. /\ net' \in Seq(Datagrams) /\ Len(net') = Len(net) + 1
          /\ net'[Len(net) + 1] = d /\ \A i \in 1..Len(net) : net'[i] = net[i]
      BY <1>1, <1>9, <2>2, AppendAt, StreamAppend
    <2>4. d.n = count + 1 /\ d.seq = uSeq' /\ d.kind = k BY <1>6, <2>1, <2>2
    <2> QED BY <1>9, <2>2, <2>3, <2>4
  <1>10. ASSUME net' = net \o <<Udp!Datagram("telemetry"), Udp!Datagram("repeat")>>
         PROVE  /\ net' \in Seq(Datagrams) /\ Len(net') = Len(net) + 2
                /\ net'[Len(net) + 1] = Udp!Datagram("telemetry")
                /\ net'[Len(net) + 2] = Udp!Datagram("repeat")
                /\ \A i \in 1..Len(net) : net'[i] = net[i]
    <2>1. PICK d \in Datagrams : d = Udp!Datagram("telemetry") BY <1>6 DEF Udp!Kinds
    <2>2. PICK e \in Datagrams : e = Udp!Datagram("repeat") BY <1>6 DEF Udp!Kinds
    <2>3. net' = net \o <<d, e>> BY <1>10, <2>1, <2>2
    <2>4. <<d, e>> \in Seq(Datagrams) OBVIOUS
    <2>5. net' \in Seq(Datagrams) BY <1>1, <2>3, <2>4, StreamConcat
    <2> QED BY <1>1, <2>1, <2>2, <2>3, <2>5, ConcatAt
  <1>11. \/ net' = net
         \/ \E k \in {"telemetry", "crc", "invalid"} : net' = Append(net, Udp!Datagram(k))
         \/ net' = net \o <<Udp!Datagram("telemetry"), Udp!Datagram("repeat")>>
    BY DEF Udp!SendTelemetry
  <1>12. CASE \E k \in {"telemetry", "crc", "invalid"} : net' = Append(net, Udp!Datagram(k))
    BY <1>1, <1>2, <1>3, <1>4, <1>5, <1>7, <1>9, <1>12
  <1>13. CASE net' = net \o <<Udp!Datagram("telemetry"), Udp!Datagram("repeat")>>
    <2>1. /\ net'[Len(net) + 1].n = count + 1 /\ net'[Len(net) + 1].seq = uSeq'
          /\ net'[Len(net) + 2].n = count + 1 /\ net'[Len(net) + 2].seq = uSeq'
          /\ net'[Len(net) + 2].kind = "repeat" /\ net'[Len(net) + 1].kind = "telemetry"
      BY <1>6, <1>10, <1>13 DEF Udp!Kinds
    <2> QED BY <1>1, <1>2, <1>3, <1>4, <1>5, <1>7, <1>10, <1>13, <2>1
  <1> QED BY <1>8, <1>11, <1>12, <1>13

\* Received SEQs are finitely many.
LEMMA ReceivedFinite ==
    ASSUME NEW S \in SUBSET (0..(SeqMod - 1))
    PROVE  /\ IsFiniteSet(S) /\ Cardinality(S) \in Nat
           /\ \A x : Cardinality(S \cup {x}) = IF x \in S THEN Cardinality(S) ELSE Cardinality(S) + 1
  <1>1. IsFiniteSet(0..(SeqMod - 1)) BY UdpConstants, FS_Interval
  <1>2. IsFiniteSet(S) BY <1>1, FS_Subset
  <1> QED BY <1>2, FS_AddElement, FS_CardinalityType

\* What the client does with a datagram that it takes as telemetry.
LEMMA TakeCases ==
    ASSUME Udp!TypeOK, Udp!Receive
    PROVE  /\ running /\ net # <<>> /\ net' = Tail(net) /\ Len(net) > 0
           /\ UNCHANGED <<uSeq, count, stopped, restarted, spoilt>>
           /\ \/ /\ net[1].kind \in {"crc", "invalid"}
                 /\ UNCHANGED <<running, received, first, duplicates, delivered, firstN, repeats>>
                 /\ crcErrors' \in Nat /\ invalidFrames' \in Nat
              \/ /\ net[1].kind \in {"telemetry", "repeat"}
                 /\ first' = (IF first = -1 THEN net[1].seq ELSE first)
                 /\ received' = received \cup {net[1].seq}
                 /\ duplicates' = (IF net[1].seq \notin received THEN duplicates ELSE duplicates + 1)
                 /\ running' = (Cardinality(received') < Telemetry)
                 /\ delivered' = delivered \cup {net[1].n}
                 /\ firstN' = (IF first = -1 THEN net[1].n ELSE firstN)
                 /\ repeats' = (IF net[1].kind = "repeat" THEN repeats + 1 ELSE repeats)
                 /\ UNCHANGED <<crcErrors, invalidFrames>>
  <1>1. net # <<>> /\ net \in Seq(Datagrams) BY NetElements DEF Udp!Receive
  <1>2. Head(net) = net[1] /\ Len(net) > 0 BY <1>1, TailAt
  <1>3. Udp!Cardinality(received') = Cardinality(received') BY SameCount
  <1>4. running /\ net' = Tail(net) /\ UNCHANGED <<uSeq, count, stopped, restarted, spoilt>>
    BY DEF Udp!Receive
  <1>8. crcErrors \in Nat /\ invalidFrames \in Nat BY DEF Udp!TypeOK
  <1>5. CASE Head(net).kind \in {"crc", "invalid"}
    <2>1. /\ UNCHANGED <<running, received, first, duplicates, delivered, firstN, repeats>>
          /\ crcErrors' \in Nat /\ invalidFrames' \in Nat
      <3>1. /\ UNCHANGED <<running, received, first, duplicates, delivered, firstN, repeats>>
            /\ crcErrors' \in {crcErrors, crcErrors + 1}
            /\ invalidFrames' \in {invalidFrames, invalidFrames + 1}
        <4>1. CASE Head(net).kind = "crc" BY <4>1 DEF Udp!Receive
        <4>2. CASE Head(net).kind = "invalid" BY <4>2 DEF Udp!Receive
        <4> QED BY <1>5, <4>1, <4>2
      <3> QED BY <1>8, <3>1
    <2> QED BY <1>1, <1>2, <1>4, <1>5, <2>1
  <1>7. CASE Head(net).kind \in {"telemetry", "repeat"}
    BY <1>1, <1>2, <1>3, <1>4, <1>7
       DEF Udp!Receive, Udp!FirstSeq, Udp!Inserted, Udp!None
  <1> QED BY <1>5, <1>7 DEF Udp!Receive

\* Types, and that the loop ends with the last awaited SEQ.
LEMMA UdpTypeStep ==
    Udp!UdpInv /\ Udp!Next =>
        Udp!TypeOK' /\ (running' => Cardinality(received') < Telemetry)
  <1> SUFFICES ASSUME Udp!UdpInv, Udp!Next
               PROVE  Udp!TypeOK' /\ (running' => Cardinality(received') < Telemetry)
    OBVIOUS
  <1> USE UdpConstants
  <1>1. Udp!TypeOK /\ (running => Cardinality(received) < Telemetry) /\ Cardinality(received) <= Telemetry
    BY SameCount DEF Udp!UdpInv, Udp!TypeOK
  <1>2. CASE Udp!SendTelemetry
    <2>1. /\ count' \in 1..MaxSent /\ uSeq' \in 0..(SeqMod - 1) /\ net' \in Seq(Datagrams)
          /\ spoilt' \in 0..MaxSpoilt
          /\ UNCHANGED <<stopped, restarted, running, received, first, crcErrors,
                         invalidFrames, duplicates, delivered, firstN, repeats>>
      BY <1>1, <1>2, SendCases
    <2>2. Udp!Cardinality(received)' = Udp!Cardinality(received) BY <2>1
    <2> QED BY <1>1, <2>1, <2>2 DEF Udp!TypeOK, Datagrams
  <1>3. CASE Udp!SenderReset
    BY <1>1, <1>3 DEF Udp!SenderReset, Udp!Fault, Udp!clientVars, Udp!TypeOK
  <1>4. CASE Udp!SenderStop
    BY <1>1, <1>4 DEF Udp!SenderStop, Udp!clientVars, Udp!TypeOK
  <1>5. CASE Udp!Receive
    <2>1. net \in Seq(Datagrams) /\ net # <<>> /\ net' = Tail(net) BY <1>1, <1>5, NetElements, TakeCases
    <2>2. net' \in Seq(Datagrams) BY <2>1, StreamOps
    <2>3. UNCHANGED <<uSeq, count, stopped, restarted, spoilt>> BY <1>1, <1>5, TakeCases
    <2>4. 1 \in 1..Len(net) BY <1>1, <1>5, NetElements, TakeCases
    <2>5. net[1].n \in 1..MaxSent /\ net[1].seq \in 0..(SeqMod - 1) BY <1>1, <2>4, NetElements
    <2>6. received \in SUBSET (0..(SeqMod - 1)) BY <1>1 DEF Udp!TypeOK
    <2>7. /\ running' \in BOOLEAN /\ received' \in SUBSET (0..(SeqMod - 1))
          /\ first' \in {-1} \cup 0..(SeqMod - 1) /\ duplicates' \in Nat
          /\ delivered' \in SUBSET (1..MaxSent) /\ firstN' \in 0..MaxSent /\ repeats' \in Nat
          /\ crcErrors' \in Nat /\ invalidFrames' \in Nat
      <3>1. CASE net[1].kind \in {"crc", "invalid"}
        BY <1>1, <1>5, <3>1, TakeCases DEF Udp!TypeOK, Udp!None
      <3>2. CASE net[1].kind \notin {"crc", "invalid"}
        <4>1. running' \in BOOLEAN
          <5>1. running' = (Cardinality(received') < Telemetry) BY <1>1, <1>5, <3>2, TakeCases
          <5>2. (Cardinality(received') < Telemetry) \in BOOLEAN BY SMT
          <5> QED BY <5>1, <5>2, Zenon
        <4>2. /\ received \in SUBSET (0..(SeqMod - 1)) /\ delivered \in SUBSET (1..MaxSent)
              /\ first \in {-1} \cup 0..(SeqMod - 1) /\ duplicates \in Nat /\ firstN \in 0..MaxSent
              /\ repeats \in Nat /\ crcErrors \in Nat /\ invalidFrames \in Nat
          BY <1>1 DEF Udp!TypeOK, Udp!None
        <4>3. /\ first' \in {net[1].seq, first} /\ received' = received \cup {net[1].seq}
              /\ duplicates' \in {duplicates, duplicates + 1}
              /\ delivered' = delivered \cup {net[1].n} /\ firstN' \in {net[1].n, firstN}
              /\ repeats' \in {repeats, repeats + 1} /\ UNCHANGED <<crcErrors, invalidFrames>>
          BY <1>1, <1>5, <3>2, TakeCases
        <4>4. received' \in SUBSET (0..(SeqMod - 1)) /\ delivered' \in SUBSET (1..MaxSent)
          BY <2>5, <4>2, <4>3
        <4>5. first' \in {-1} \cup 0..(SeqMod - 1) /\ firstN' \in 0..MaxSent
          BY <2>5, <4>2, <4>3
        <4>6. duplicates' \in Nat /\ repeats' \in Nat BY <4>2, <4>3
        <4>7. crcErrors' \in Nat /\ invalidFrames' \in Nat BY <4>2, <4>3
        <4> QED BY <4>1, <4>4, <4>5, <4>6, <4>7
      <3> QED BY <3>1, <3>2
    <2>8. Cardinality(received') <= Telemetry /\ (running' => Cardinality(received') < Telemetry)
      <3>1. running BY <1>1, <1>5, TakeCases
      <3>2. Cardinality(received) \in Nat BY <2>6, ReceivedFinite
      <3>3. CASE received' = received /\ running' = running BY <1>1, <3>3
      <3>4. CASE received' = received \cup {net[1].seq} /\ running' = (Cardinality(received') < Telemetry)
        <4>1. Cardinality(received') <= Cardinality(received) + 1
          BY <2>6, <3>2, <3>4, ReceivedFinite
        <4>2. Cardinality(received') \in Nat BY <2>7, ReceivedFinite
        <4>3. running' => Cardinality(received') < Telemetry BY <3>4, Zenon
        <4>4. Cardinality(received) < Telemetry BY <1>1, <3>1, Zenon
        <4>5. Cardinality(received') <= Telemetry BY <3>2, <4>1, <4>2, <4>4
        <4> QED BY <4>3, <4>5
      <3> QED BY <1>1, <1>5, <3>3, <3>4, TakeCases
    <2>9. Udp!Cardinality(received)' <= Telemetry BY <2>8, SameCount
    <2>10. uSeq' \in 0..(SeqMod - 1) /\ count' \in 0..MaxSent /\ stopped' \in BOOLEAN
           /\ restarted' \in BOOLEAN /\ spoilt' \in 0..MaxSpoilt
      BY <1>1, <2>3 DEF Udp!TypeOK
    <2> QED BY <2>2, <2>7, <2>8, <2>9, <2>10 DEF Udp!TypeOK, Udp!None, Datagrams
  <1>6. CASE Udp!Timeout
    BY <1>1, <1>6 DEF Udp!Timeout, Udp!sendVars, Udp!TypeOK
  <1> QED BY <1>2, <1>3, <1>4, <1>5, <1>6 DEF Udp!Next

\* The datagrams on their way, after the sender's step.
LEMMA SendNetInv ==
    ASSUME Udp!TypeOK, Udp!NetInv, Udp!ReceivedInv, Udp!SendTelemetry
    PROVE  Udp!NetInv'
  <1> USE UdpConstants
  <1>1. /\ uSeq' = Udp!NextSeq /\ count' = count + 1 /\ net' \in Seq(Datagrams)
        /\ delivered' = delivered /\ \A i \in 1..Len(net) : net'[i] = net[i]
    BY SendCases
  <1>2. count \in Nat /\ delivered \in SUBSET (1..MaxSent) BY DEF Udp!TypeOK
  <1>3. /\ Len(net) \in Nat /\ \A i \in 1..Len(net) : net[i].n \in 1..MaxSent
    BY NetElements
  <1>4. /\ \A n \in Int : Udp!SeqOf(n)' = Udp!SeqOf(n)
        /\ \A n \in Int : n = count + 1 => Udp!SeqOf(n)' = uSeq'
    BY <1>1, SeqOfKept
  <1>5. \A m \in delivered : m <= count BY DEF Udp!ReceivedInv
  <1>6. ASSUME NEW i \in 1..Len(net)
        PROVE  /\ net'[i].n <= count' /\ net'[i].seq = (uSeq' + net'[i].n - count') % SeqMod
               /\ net'[i].kind = "repeat" =>
                     IF i = 1 THEN net'[1].n \in delivered'
                     ELSE net'[i - 1].kind = "telemetry" /\ net'[i - 1].n = net'[i].n
               /\ net'[i].kind # "repeat" => \A m \in delivered' : m < net'[i].n
    <2>1. net'[i] = net[i] BY <1>1
    <2>2. PICK n \in Int : n = net[i].n BY <1>3
    <2>3. net[i].n <= count /\ net[i].seq = Udp!SeqOf(net[i].n) BY DEF Udp!NetInv
    <2>4. Udp!SeqOf(n)' = Udp!SeqOf(n) BY <1>4
    <2>5. net'[i].seq = (uSeq' + net'[i].n - count') % SeqMod
      <3>1. Udp!SeqOf(n)' = (uSeq' + n - count') % SeqMod BY DEF Udp!SeqOf
      <3> QED BY <2>1, <2>2, <2>3, <2>4, <3>1
    <2>6. i # 1 => net'[i - 1] = net[i - 1] BY <1>1, <1>3
    <2>7. net[i].kind # "repeat" => \A m \in delivered : m < net[i].n BY DEF Udp!NetInv
    <2>8. net[i].kind = "repeat" =>
             IF i = 1 THEN net[1].n \in delivered
             ELSE net[i - 1].kind = "telemetry" /\ net[i - 1].n = net[i].n
      BY DEF Udp!NetInv
    <2>9. net'[i].n <= count' BY <1>1, <1>2, <1>3, <2>1, <2>3
    <2>10. net'[i].kind = "repeat" =>
             IF i = 1 THEN net'[1].n \in delivered'
             ELSE net'[i - 1].kind = "telemetry" /\ net'[i - 1].n = net'[i].n
      <3>1. CASE i = 1 BY <1>1, <2>1, <2>8, <3>1
      <3>2. CASE i # 1 BY <1>1, <2>1, <2>6, <2>8, <3>2
      <3> QED BY <3>1, <3>2
    <2>11. net'[i].kind # "repeat" => \A m \in delivered' : m < net'[i].n BY <1>1, <2>1, <2>7
    <2> QED BY <2>5, <2>9, <2>10, <2>11
  <1>7. ASSUME NEW i \in 1..Len(net'), i > Len(net)
        PROVE  /\ net'[i].n = count + 1 /\ net'[i].seq = (uSeq' + net'[i].n - count') % SeqMod
               /\ net'[i].kind = "repeat" =>
                     /\ i # 1 /\ net'[i - 1].kind = "telemetry" /\ net'[i - 1].n = net'[i].n
               /\ net'[i].kind # "repeat" => i = Len(net) + 1
    <2>1. i \in {Len(net) + 1, Len(net) + 2} BY <1>3, <1>7, SendCases
    <2>2. net'[i].n = count + 1 /\ net'[i].seq = uSeq' BY <1>3, <1>7, <2>1, SendCases
    <2>3. PICK n \in Int : n = count + 1 BY <1>2
    <2>4. Udp!SeqOf(n)' = uSeq' BY <1>4, <2>3
    <2>5. Udp!SeqOf(n)' = (uSeq' + n - count') % SeqMod BY DEF Udp!SeqOf
    <2>6. net'[i].seq = (uSeq' + net'[i].n - count') % SeqMod BY <2>2, <2>3, <2>4, <2>5
    <2>7. CASE i = Len(net) + 1
      <3>1. net'[i].kind # "repeat" BY <1>3, <1>7, <2>7, SendCases
      <3> QED BY <2>2, <2>6, <2>7, <3>1
    <2>8. CASE i = Len(net) + 2
      <3>1. /\ net'[Len(net) + 2].kind = "repeat" /\ net'[Len(net) + 1].kind = "telemetry"
            /\ net'[Len(net) + 1].n = count + 1
        BY <1>3, <1>7, <2>8, SendCases
      <3>2. i - 1 = Len(net) + 1 /\ i # 1 BY <1>3, <2>8
      <3> QED BY <2>2, <2>6, <2>8, <3>1, <3>2
    <2> QED BY <2>1, <2>7, <2>8
  <1>8. Len(net') \in Nat /\ Len(net') >= Len(net) BY <1>3, SendCases
  <1>9. \A i \in 1..Len(net') :
          /\ net'[i].n <= count' /\ net'[i].seq = (uSeq' + net'[i].n - count') % SeqMod
          /\ net'[i].kind = "repeat" =>
                IF i = 1 THEN net'[1].n \in delivered'
                ELSE net'[i - 1].kind = "telemetry" /\ net'[i - 1].n = net'[i].n
          /\ net'[i].kind # "repeat" => \A m \in delivered' : m < net'[i].n
    <2> TAKE i \in 1..Len(net')
    <2>1. CASE i \in 1..Len(net) BY <1>6, <2>1
    <2>2. CASE i > Len(net)
      <3>1. \A m \in delivered' : m < count + 1 BY <1>1, <1>2, <1>5
      <3> QED BY <1>1, <1>2, <1>7, <2>2, <3>1
    <2> QED BY <1>3, <2>1, <2>2
  <1>10. ASSUME NEW i \in 1..Len(net'), NEW j \in 1..Len(net'), i < j, net'[j].kind # "repeat"
         PROVE  net'[i].n < net'[j].n
    <2>1. CASE j \in 1..Len(net)
      <3>1. i \in 1..Len(net) BY <1>3, <1>8, <1>10, <2>1
      <3>2. net'[i] = net[i] /\ net'[j] = net[j] BY <1>1, <2>1, <3>1
      <3> QED BY <1>10, <2>1, <3>1, <3>2 DEF Udp!NetInv
    <2>2. CASE j > Len(net)
      <3>1. j = Len(net) + 1 /\ net'[j].n = count + 1 BY <1>7, <1>10, <2>2
      <3>2. i \in 1..Len(net) BY <1>3, <1>8, <1>10, <3>1
      <3>3. net'[i] = net[i] /\ net[i].n <= count BY <1>1, <3>2 DEF Udp!NetInv
      <3> QED BY <1>2, <1>3, <3>1, <3>2, <3>3
    <2> QED BY <1>3, <2>1, <2>2
  <1> QED BY <1>9, <1>10 DEF Udp!NetInv, Udp!SeqOf

\* The datagrams on their way, after the client took one.
LEMMA TakeNetInv ==
    ASSUME Udp!TypeOK, Udp!NetInv, Udp!Receive
    PROVE  Udp!NetInv'
  <1> USE UdpConstants
  <1>1. /\ net \in Seq(Datagrams) /\ net # <<>> /\ net' = Tail(net)
        /\ uSeq' = uSeq /\ count' = count
    BY NetElements, TakeCases
  <1>2. /\ Len(net) \in Nat /\ Len(net) > 0 /\ Len(net') = Len(net) - 1
        /\ \A i \in 1..Len(net') : net'[i] = net[i + 1]
    BY <1>1, TailAt
  <1>3. /\ \A i \in 1..Len(net) : net[i].n \in 1..MaxSent
        /\ delivered \in SUBSET (1..MaxSent)
    BY NetElements DEF Udp!TypeOK
  <1>4. \/ net[1].kind \in {"crc", "invalid"} /\ delivered' = delivered
        \/ net[1].kind \in {"telemetry", "repeat"} /\ delivered' = delivered \cup {net[1].n}
    BY TakeCases
  <1>5. ASSUME NEW i \in 1..Len(net')
        PROVE  /\ net'[i].n <= count' /\ net'[i].seq = (uSeq' + net'[i].n - count') % SeqMod
               /\ net'[i].kind = "repeat" =>
                     IF i = 1 THEN net'[1].n \in delivered'
                     ELSE net'[i - 1].kind = "telemetry" /\ net'[i - 1].n = net'[i].n
               /\ net'[i].kind # "repeat" => \A m \in delivered' : m < net'[i].n
    <2>1. PICK j \in 2..Len(net) : j = i + 1 BY <1>2
    <2>2. net'[i] = net[j] BY <1>2, <2>1
    <2>3. j \in 1..Len(net) /\ 1 \in 1..Len(net) /\ 1 < j BY <1>2, <2>1
    <2>4. net[j].n <= count /\ net[j].seq = (uSeq + net[j].n - count) % SeqMod
      BY <2>3 DEF Udp!NetInv, Udp!SeqOf
    <2>5. net[j].kind = "repeat" => net[j - 1].kind = "telemetry" /\ net[j - 1].n = net[j].n
      BY <2>1, <2>3 DEF Udp!NetInv
    <2>6. net[j].kind # "repeat" => net[1].n < net[j].n /\ \A m \in delivered : m < net[j].n
      BY <2>3 DEF Udp!NetInv
    <2>7. net'[i].kind = "repeat" =>
             IF i = 1 THEN net'[1].n \in delivered'
             ELSE net'[i - 1].kind = "telemetry" /\ net'[i - 1].n = net'[i].n
      <3>1. CASE i = 1
        <4>1. j - 1 = 1 BY <2>1, <3>1
        <4> QED BY <1>4, <2>2, <2>5, <3>1, <4>1
      <3>2. CASE i # 1
        <4>1. net'[i - 1] = net[j - 1] BY <1>2, <2>1, <3>2
        <4> QED BY <2>2, <2>5, <3>2, <4>1
      <3> QED BY <3>1, <3>2
    <2>8. net'[i].kind # "repeat" => \A m \in delivered' : m < net'[i].n BY <1>4, <2>2, <2>6
    <2>9. net'[i].n <= count' /\ net'[i].seq = (uSeq' + net'[i].n - count') % SeqMod
      BY <1>1, <2>2, <2>4, Zenon
    <2> QED BY <2>7, <2>8, <2>9
  <1>6. ASSUME NEW i \in 1..Len(net'), NEW j \in 1..Len(net'), i < j, net'[j].kind # "repeat"
        PROVE  net'[i].n < net'[j].n
    <2>1. net'[i] = net[i + 1] /\ net'[j] = net[j + 1] BY <1>2
    <2>2. i + 1 \in 1..Len(net) /\ j + 1 \in 1..Len(net) /\ i + 1 < j + 1 BY <1>2, <1>6
    <2> QED BY <1>6, <2>1, <2>2 DEF Udp!NetInv
  <1> QED BY <1>5, <1>6 DEF Udp!NetInv, Udp!SeqOf

\* What the client has, after it took a datagram: a SEQ that was there already is a
\* repetition, and only that.
LEMMA TakeReceivedInv ==
    ASSUME Udp!TypeOK, Udp!NetInv, Udp!ReceivedInv, Udp!DuplicatesAreRepeats, ~restarted, Udp!Receive
    PROVE  Udp!ReceivedInv' /\ duplicates' = repeats'
  <1> USE UdpConstants
  <1>1. /\ uSeq' = uSeq /\ count' = count /\ 1 \in 1..Len(net)
    BY NetElements, TakeCases
  <1>2. \A n : Udp!SeqOf(n)' = Udp!SeqOf(n) BY <1>1, SeqOfSame
  <1>3. PICK k \in 1..MaxSent : k = net[1].n BY <1>1, NetElements
  <1>4. /\ k <= count /\ net[1].seq = Udp!SeqOf(k)
        /\ net[1].kind = "repeat" => k \in delivered
        /\ net[1].kind # "repeat" => \A m \in delivered : m < k
    BY <1>1, <1>3 DEF Udp!NetInv
  <1>5. /\ delivered \in SUBSET (1..MaxSent) /\ duplicates \in Nat /\ duplicates = repeats
        /\ firstN \in 0..MaxSent
    BY DEF Udp!TypeOK, Udp!DuplicatesAreRepeats
  <1>6. /\ received = {Udp!SeqOf(n) : n \in delivered} /\ \A n \in delivered : n <= count
        /\ first = -1 => delivered = {}
        /\ first # -1 => /\ firstN \in delivered /\ first = Udp!SeqOf(firstN)
                         /\ \A n \in delivered : firstN <= n
    BY DEF Udp!ReceivedInv, Udp!None
  <1>7. CASE net[1].kind \in {"crc", "invalid"}
    <2>1. UNCHANGED <<received, first, duplicates, delivered, firstN, repeats>> BY <1>7, TakeCases
    <2> QED BY <1>1, <1>5, <2>1 DEF Udp!ReceivedInv, Udp!SeqOf
  <1>8. CASE net[1].kind \in {"telemetry", "repeat"}
    <2>1. /\ first' = (IF first = -1 THEN net[1].seq ELSE first)
          /\ received' = received \cup {net[1].seq}
          /\ duplicates' = (IF net[1].seq \notin received THEN duplicates ELSE duplicates + 1)
          /\ delivered' = delivered \cup {net[1].n}
          /\ firstN' = (IF first = -1 THEN net[1].n ELSE firstN)
          /\ repeats' = (IF net[1].kind = "repeat" THEN repeats + 1 ELSE repeats)
      BY <1>8, TakeCases
    <2>2. net[1].seq \in received <=> net[1].kind = "repeat"
      <3>1. net[1].kind = "repeat" => net[1].seq \in received BY <1>4, <1>6
      <3>2. ASSUME net[1].seq \in received PROVE k \in delivered
        <4>1. PICK m \in delivered : net[1].seq = Udp!SeqOf(m) BY <1>6, <3>2
        <4>2. m \in 1..MaxSent /\ Udp!SeqOf(m) = Udp!SeqOf(k) BY <1>4, <1>5, <4>1
        <4>3. m = k BY <4>2, SeqOfInjective
        <4> QED BY <4>3
      <3>3. net[1].kind # "repeat" => k \notin delivered BY <1>4, <1>5
      <3> QED BY <3>1, <3>2, <3>3
    <2>3. duplicates' = repeats' BY <1>5, <2>1, <2>2
    <2>4. received' = {Udp!SeqOf(n) : n \in delivered'} BY <1>3, <1>4, <1>6, <2>1
    <2>5. \A n \in delivered' : n <= count' BY <1>1, <1>3, <1>4, <1>6, <2>1
    <2>6. first' # -1 /\ firstN' \in delivered' /\ first' = Udp!SeqOf(firstN')
      <3>1. CASE first = -1
        <4>1. net[1].seq # -1 BY <1>1, NetElements
        <4> QED BY <1>3, <1>4, <2>1, <3>1, <4>1
      <3>2. CASE first # -1 BY <1>6, <2>1, <3>2
      <3> QED BY <3>1, <3>2
    <2>7. \A n \in delivered' : firstN' <= n
      <3>1. CASE first = -1 BY <1>3, <1>6, <2>1, <3>1
      <3>2. CASE first # -1
        <4>1. firstN' = firstN /\ firstN \in delivered /\ \A n \in delivered : firstN <= n BY <1>6, <2>1, <3>2
        <4>2. firstN <= k BY <1>4, <1>5, <4>1
        <4> QED BY <1>3, <2>1, <4>1, <4>2
      <3> QED BY <3>1, <3>2
    <2>8. Udp!ReceivedInv'
      <3>1. \A n \in delivered' : Udp!SeqOf(n) = (uSeq' + n - count') % SeqMod
        BY <1>1 DEF Udp!SeqOf
      <3>2. received' = {(uSeq' + n - count') % SeqMod : n \in delivered'} BY <2>4, <3>1
      <3>3. first' = (uSeq' + firstN' - count') % SeqMod BY <2>6, <3>1
      <3> QED BY <2>5, <2>6, <2>7, <3>2, <3>3 DEF Udp!ReceivedInv, Udp!SeqOf, Udp!None
    <2> QED BY <2>3, <2>8
  <1> QED BY <1>7, <1>8, TakeCases

\* What the client has keeps its numbers while the sender goes on.
LEMMA SendReceivedInv ==
    ASSUME Udp!TypeOK, Udp!ReceivedInv, Udp!SendTelemetry
    PROVE  Udp!ReceivedInv'
  <1> USE UdpConstants
  <1>1. /\ uSeq' = Udp!NextSeq /\ count' = count + 1
        /\ UNCHANGED <<received, first, delivered, firstN>>
    BY SendCases
  <1>2. count \in Nat /\ delivered \in SUBSET (1..MaxSent) /\ firstN \in 0..MaxSent BY DEF Udp!TypeOK
  <1>3. \A n \in Int : Udp!SeqOf(n)' = Udp!SeqOf(n) BY <1>1, SeqOfKept
  <1>4. \A n \in Int : Udp!SeqOf(n) = (uSeq' + n - count') % SeqMod BY <1>3 DEF Udp!SeqOf
  <1>5. /\ received = {Udp!SeqOf(n) : n \in delivered} /\ \A n \in delivered : n <= count
        /\ first = -1 => delivered = {}
        /\ first # -1 => /\ firstN \in delivered /\ first = Udp!SeqOf(firstN)
                         /\ \A n \in delivered : firstN <= n
    BY DEF Udp!ReceivedInv, Udp!None
  <1>6. received' = {(uSeq' + n - count') % SeqMod : n \in delivered'} BY <1>1, <1>2, <1>4, <1>5
  <1>7. first # -1 => first' = (uSeq' + firstN' - count') % SeqMod BY <1>1, <1>2, <1>4, <1>5
  <1>8. \A n \in delivered' : n <= count' BY <1>1, <1>2, <1>5
  <1> QED BY <1>1, <1>5, <1>6, <1>7, <1>8 DEF Udp!ReceivedInv, Udp!SeqOf, Udp!None

\* The inductive invariant of udp_client.
LEMMA UdpInitInv == Udp!Init => Udp!UdpInv
  <1> SUFFICES ASSUME Udp!Init PROVE Udp!UdpInv OBVIOUS
  <1> USE UdpConstants
  <1>1. Cardinality({}) = 0 BY FS_EmptySet
  <1>2. Udp!Cardinality(received) = 0 BY <1>1, SameCount DEF Udp!Init
  <1>3. net \in Seq([n : 1..MaxSent, seq : 0..(SeqMod - 1), kind : Udp!Kinds]) /\ Len(net) = 0
    BY NoFrames DEF Udp!Init
  <1>4. Udp!TypeOK
    <2>1. /\ uSeq \in 0..(SeqMod - 1) /\ count \in 0..MaxSent /\ spoilt \in 0..MaxSpoilt
          /\ firstN \in 0..MaxSent
      BY DEF Udp!Init
    <2>2. crcErrors \in Nat /\ invalidFrames \in Nat /\ duplicates \in Nat /\ repeats \in Nat
      BY DEF Udp!Init
    <2>3. stopped \in BOOLEAN /\ restarted \in BOOLEAN /\ running \in BOOLEAN BY DEF Udp!Init
    <2>4. /\ received \subseteq 0..(SeqMod - 1) /\ delivered \subseteq 1..MaxSent
          /\ first \in {Udp!None} \cup 0..(SeqMod - 1)
      BY DEF Udp!Init
    <2>5. Udp!Cardinality(received) <= Telemetry BY <1>2
    <2> QED BY <1>3, <2>1, <2>2, <2>3, <2>4, <2>5, Zenon DEF Udp!TypeOK
  <1>5. Udp!NetInv BY <1>3 DEF Udp!NetInv
  <1>6. Udp!ReceivedInv /\ Udp!DuplicatesAreRepeats
    BY DEF Udp!Init, Udp!ReceivedInv, Udp!DuplicatesAreRepeats
  <1> QED BY <1>2, <1>4, <1>5, <1>6 DEF Udp!UdpInv

LEMMA UdpNextInv == Udp!UdpInv /\ [Udp!Next]_uVars => Udp!UdpInv'
  <1> SUFFICES ASSUME Udp!UdpInv, [Udp!Next]_uVars PROVE Udp!UdpInv' OBVIOUS
  <1>1. Udp!TypeOK /\ (~restarted => Udp!NetInv /\ Udp!ReceivedInv /\ Udp!DuplicatesAreRepeats)
    BY DEF Udp!UdpInv
  <1>2. CASE UNCHANGED uVars
    <2> USE <1>2 DEF uVars
    <2>1. Udp!TypeOK => Udp!TypeOK' BY DEF Udp!TypeOK
    <2>2. Udp!NetInv => Udp!NetInv' BY DEF Udp!NetInv, Udp!SeqOf
    <2>3. Udp!ReceivedInv => Udp!ReceivedInv' BY DEF Udp!ReceivedInv, Udp!SeqOf
    <2>4. Udp!DuplicatesAreRepeats => Udp!DuplicatesAreRepeats' BY DEF Udp!DuplicatesAreRepeats
    <2>5. UNCHANGED <<running, received, restarted>> OBVIOUS
    <2>6. /\ Udp!TypeOK'
          /\ ~restarted' => Udp!NetInv' /\ Udp!ReceivedInv' /\ Udp!DuplicatesAreRepeats'
      BY <1>1, <2>1, <2>2, <2>3, <2>4, <2>5
    <2>7. running' => Udp!Cardinality(received)' < Telemetry BY <2>5 DEF Udp!UdpInv
    <2> QED BY <2>6, <2>7 DEF Udp!UdpInv
  <1>3. CASE Udp!Next
    <2>1. Udp!TypeOK' /\ (running' => Cardinality(received') < Telemetry) BY <1>3, UdpTypeStep
    <2>2. ASSUME ~restarted' PROVE Udp!NetInv' /\ Udp!ReceivedInv' /\ Udp!DuplicatesAreRepeats'
      <3>1. CASE Udp!SendTelemetry
        <4>1. ~restarted /\ duplicates' = duplicates /\ repeats' = repeats
          BY <1>1, <2>2, <3>1, SendCases
        <4> QED BY <1>1, <3>1, <4>1, SendNetInv, SendReceivedInv DEF Udp!DuplicatesAreRepeats
      <3>2. CASE Udp!SenderReset BY <2>2, <3>2 DEF Udp!SenderReset
      <3>3. CASE Udp!SenderStop
        BY <1>1, <2>2, <3>3 DEF Udp!SenderStop, Udp!clientVars, Udp!NetInv, Udp!ReceivedInv,
            Udp!SeqOf, Udp!DuplicatesAreRepeats
      <3>4. CASE Udp!Receive
        <4>1. ~restarted BY <1>1, <2>2, <3>4, TakeCases
        <4> QED BY <1>1, <3>4, <4>1, TakeNetInv, TakeReceivedInv DEF Udp!DuplicatesAreRepeats
      <3>5. CASE Udp!Timeout
        BY <1>1, <2>2, <3>5 DEF Udp!Timeout, Udp!sendVars, Udp!NetInv, Udp!ReceivedInv,
            Udp!SeqOf, Udp!DuplicatesAreRepeats
      <3> QED BY <1>3, <3>1, <3>2, <3>3, <3>4, <3>5 DEF Udp!Next
    <2>3. (running' => Udp!Cardinality(received)' < Telemetry) BY <2>1, SameCount
    <2> QED BY <2>1, <2>2, <2>3 DEF Udp!UdpInv
  <1> QED BY <1>2, <1>3

\* What a bijection is.
LEMMA OneToOne ==
    ASSUME NEW S, NEW T, NEW f, f \in [S -> T], \A a, b \in S : f[a] = f[b] => a = b,
           \A t \in T : \E s \in S : f[s] = t
    PROVE  f \in Bijection(S, T)
  BY DEF Bijection, Injection, Surjection, IsInjective

\* The bijection between the datagrams of the window that never came and the SEQs
\* called MISSING.
LEMMA LossCounted ==
    ASSUME Udp!TypeOK, Udp!ReceivedInv, first # -1
    PROVE  Cardinality(Udp!Missing)
             = Telemetry - Cardinality(delivered \cap (firstN..(firstN + Telemetry - 1)))
  <1> USE UdpConstants
  <1> DEFINE W == firstN..(firstN + Telemetry - 1)
             g == [n \in W \ delivered |-> (first + (n - firstN)) % SeqMod]
  <1>1. /\ uSeq \in Int /\ count \in Int /\ firstN \in 1..MaxSent /\ first \in 0..(SeqMod - 1)
        /\ delivered \in SUBSET (1..MaxSent) /\ first = Udp!SeqOf(firstN)
        /\ received = {Udp!SeqOf(n) : n \in delivered} /\ \A n \in delivered : firstN <= n
    BY DEF Udp!TypeOK, Udp!ReceivedInv, Udp!None
  <1>2. Telemetry \in 1..SeqMod /\ Telemetry \in Nat OBVIOUS
  <1>3. \A n \in Int : Udp!SeqOf(n) = (first + (n - firstN)) % SeqMod
    <2> TAKE n \in Int
    <2>1. PICK l \in Int : l = uSeq + firstN - count BY <1>1
    <2>2. PICK f \in 0..(SeqMod - 1) : f = first BY <1>1
    <2>3. PICK d \in Int : d = n - firstN BY <1>1
    <2>4. l % SeqMod = f BY <1>1, <2>1, <2>2 DEF Udp!SeqOf
    <2>5. (f + d) % SeqMod = (l + d) % SeqMod BY <2>4, ModShift
    <2>6. l + d = uSeq + n - count BY <1>1, <2>1, <2>3
    <2> QED BY <2>2, <2>3, <2>5, <2>6 DEF Udp!SeqOf
  \* Numbers less than SeqMod apart, from the first one on, have different SEQs.
  <1>4. ASSUME NEW a \in firstN..(firstN + SeqMod - 1), NEW b \in firstN..(firstN + SeqMod - 1),
               (first + (a - firstN)) % SeqMod = (first + (b - firstN)) % SeqMod
        PROVE  a = b
    <2>1. ASSUME NEW x \in firstN..(firstN + SeqMod - 1),
                 NEW y \in firstN..(firstN + SeqMod - 1), x < y
          PROVE  (first + (x - firstN)) % SeqMod # (first + (y - firstN)) % SeqMod
      <3>1. PICK l \in Int : l = first + (x - firstN) BY <1>1
      <3>2. PICK d \in 1..SeqMod - 1 : d = y - x
        <4>1. y - x \in 1..SeqMod - 1 BY <1>1, <2>1
        <4> QED BY <4>1
      <3>3. (l + d) % SeqMod # l % SeqMod BY ModDiffer
      <3>4. l + d = first + (y - firstN) BY <1>1, <3>1, <3>2
      <3> QED BY <3>1, <3>3, <3>4
    <2>2. a < b \/ b < a \/ a = b BY <1>1
    <2> QED BY <1>4, <2>1, <2>2
  <1>5. W \subseteq firstN..(firstN + SeqMod - 1) BY <1>1, <1>2
  <1>6. delivered \subseteq firstN..(firstN + SeqMod - 1) BY <1>1
  <1>7. Udp!Missing = {(first + (n - firstN)) % SeqMod : n \in W} \ received
    <2>1. \A k \in 0..(Telemetry - 1) : firstN + k \in W /\ (firstN + k) - firstN = k BY <1>1, <1>2
    <2>2. \A n \in W : n - firstN \in 0..(Telemetry - 1) BY <1>1, <1>2
    <2>3. {(first + k) % SeqMod : k \in 0..(Telemetry - 1)}
            = {(first + (n - firstN)) % SeqMod : n \in W}
      BY <2>1, <2>2
    <2> QED BY <2>3 DEF Udp!Missing, Udp!Window
  <1>8. \A n \in W : (first + (n - firstN)) % SeqMod \in received <=> n \in delivered
    <2> TAKE n \in W
    <2>1. n \in Int BY <1>1
    <2>2. n \in delivered => (first + (n - firstN)) % SeqMod \in received BY <1>1, <1>3, <2>1
    <2>3. ASSUME (first + (n - firstN)) % SeqMod \in received PROVE n \in delivered
      <3>1. PICK m \in delivered : (first + (n - firstN)) % SeqMod = Udp!SeqOf(m) BY <1>1, <2>3
      <3>2. m \in Int BY <1>1
      <3>3. (first + (n - firstN)) % SeqMod = (first + (m - firstN)) % SeqMod BY <1>3, <3>1, <3>2
      <3>4. m = n BY <1>4, <1>5, <1>6, <3>3
      <3> QED BY <3>4
    <2> QED BY <2>2, <2>3
  <1>9. g \in Bijection(W \ delivered, Udp!Missing)
    <2>1. \A n \in W \ delivered : g[n] = (first + (n - firstN)) % SeqMod OBVIOUS
    <2>2. g \in [W \ delivered -> Udp!Missing] BY <1>7, <1>8
    <2>3. \A a, b \in W \ delivered : g[a] = g[b] => a = b BY <1>4, <1>5, <2>1
    <2>4. \A s \in Udp!Missing : \E n \in W \ delivered : g[n] = s
      BY <1>7, <1>8, <2>1
    <2> QED BY <2>2, <2>3, <2>4, OneToOne, Zenon
  <1>10. IsFiniteSet(W) /\ Cardinality(W) = Telemetry
    <2>1. firstN \in Int /\ firstN + Telemetry - 1 \in Int BY <1>1, <1>2
    <2>2. IsFiniteSet(W) /\ Cardinality(W) = IF firstN > firstN + Telemetry - 1 THEN 0
                                             ELSE (firstN + Telemetry - 1) - firstN + 1
      BY <2>1, FS_Interval
    <2> QED BY <1>1, <1>2, <2>2
  <1>11. /\ IsFiniteSet(W \ delivered)
         /\ Cardinality(W \ delivered) = Telemetry - Cardinality(W \cap delivered)
    BY <1>10, FS_Difference
  <1>12. Cardinality(Udp!Missing) = Cardinality(W \ delivered)
    <2>1. ExistsBijection(W \ delivered, Udp!Missing) BY <1>9 DEF ExistsBijection
    <2> QED BY <1>11, <2>1, FS_Bijection
  <1>13. W \cap delivered = delivered \cap W OBVIOUS
  <1> QED BY <1>11, <1>12, <1>13

\* The invariant makes the report true.
LEMMA UdpReports == Udp!UdpInv => LossReportTrue
  <1> SUFFICES ASSUME Udp!UdpInv PROVE LossReportTrue OBVIOUS
  <1>1. Udp!TypeOK /\ (~restarted => Udp!ReceivedInv /\ Udp!DuplicatesAreRepeats) BY DEF Udp!UdpInv
  <1>2. Udp!DuplicatesAreRepeats BY <1>1 DEF Udp!DuplicatesAreRepeats
  <1>3. ASSUME first # -1, ~restarted
        PROVE  Udp!MissingCount
                 = Telemetry - Udp!Cardinality(delivered \cap (firstN..(firstN + Telemetry - 1)))
    BY <1>1, <1>3, LossCounted, SameCount DEF Udp!MissingCount, Udp!None
  <1> QED BY <1>1, <1>2, <1>3 DEF LossReportTrue, Udp!LossIsTrue, Udp!None

\* UdpInv is an invariant of udp_client, whatever the network does.
THEOREM UdpInvariance == Udp!Spec => []Udp!UdpInv
  <1>1. Udp!UdpInv /\ [Udp!Next]_(Udp!vars) => Udp!UdpInv' BY UdpNextInv DEF Udp!vars, uVars
  <1> QED BY <1>1, UdpInitInv, PTL DEF Udp!Spec

\* The loss that udp_client reports is the loss: unless the sender began again, the
\* SEQs called MISSING are as many as the datagrams of the window that the client
\* never got, wherever in the range of SEQ the test starts and whatever the network
\* loses, damages or repeats; and a DUPLICATE is a datagram that was repeated.
THEOREM LossIsReported == Udp!Spec => []LossReportTrue
  BY UdpReports, UdpInvariance, PTL

-----------------------------------------------------------------------------
\* The programs side by side, as the run checks them: what is true of each alone
\* is true of it here.
THEOREM HostPrograms ==
    HostSpec => [](ClientReportsTrue /\ LossReportTrue)
  <1>1. HostInit => PongInv /\ Udp!UdpInv BY PongInit, UdpInitInv DEF HostInit
  <1>2. PongInv /\ Udp!UdpInv /\ [HostNext]_hostVars => PongInv' /\ Udp!UdpInv'
    <2>1. [HostNext]_hostVars => [Next]_vars /\ [Udp!Next]_uVars BY DEF HostNext, hostVars
    <2> QED BY <2>1, PongNext, UdpNextInv
  <1>3. PongInv => ClientReportsTrue BY DEF PongInv, ClientReportsTrue
  <1> QED BY <1>1, <1>2, <1>3, UdpReports, PTL DEF HostSpec
=============================================================================

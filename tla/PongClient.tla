----------------------------- MODULE PongClient -----------------------------
(***************************************************************************)
(* host/tcp_client.cpp (~recovery) and host/tcp_recovery_client.cpp        *)
(* (recovery) against a peer that answers every PING once and in order:    *)
(* the gateway, or host/tcp_mock_server.cpp.  The peer may be late, lose a *)
(* request or close the connection.                                        *)
(*                                                                         *)
(* A PONG travels as two halves, so that recv may return a part of it.     *)
(* A PING or a half carries the number n of its PING, as history.          *)
(***************************************************************************)
EXTENDS Integers, Sequences

CONSTANTS
    Count,          \* --count; bound on the PONGs of the endless recovery client
    SeqRange,       \* 2^16, where a SEQ wraps
    MaxFaults,      \* bound: faults of a behaviour
    Faults          \* subset of FaultKinds

FaultKinds == {"late", "loss", "close", "refuse", "stop"}

\* What the constants must be.  Fewer than SeqRange requests are late: a PONG that
\* is late by a whole range of SEQ would be taken for another's.
ASSUME PongClientAssumption ==
    /\ Count \in Nat \ {0} /\ SeqRange \in Nat \ {0, 1}
    /\ MaxFaults \in Nat /\ MaxFaults < SeqRange /\ Faults \subseteq FaultKinds

VARIABLES
    \* the client
    recovery,   \* which of the two programs
    pc,         \* control point
    request,    \* requests that are over
    seq,        \* SEQ of the present request
    tx, rx, timeouts, fatal,    \* tx_count, rx_count, timeout_count, fatal_error
    held,       \* the parser: number of the PONG whose first half it holds, or 0
    stop,       \* stop_requested()
    exitOk,     \* the process returned EXIT_SUCCESS
    \* the connection and the peer
    open,       \* the peer has not closed the connection
    c2s, s2c,   \* bytes on their way
    got,        \* how many halves at the head of s2c are in rx_buffer already
    nf,
    \* history
    read,       \* halves that recv has returned
    oks         \* [n, by]: PING n was taken as answered by the PONG for PING by

vars == <<recovery, pc, request, seq, tx, rx, timeouts, fatal, held, stop, exitOk, open, c2s,
          s2c, got, nf, read, oks>>
counters == <<tx, rx, timeouts, fatal>>
history == <<read, oks>>

Init ==
    /\ recovery \in BOOLEAN /\ pc = "connect" /\ request = 0 /\ seq = 1
    /\ tx = 0 /\ rx = 0 /\ timeouts = 0 /\ fatal = FALSE
    /\ held = 0 /\ stop = FALSE /\ exitOk = FALSE
    /\ open = FALSE /\ c2s = <<>> /\ s2c = <<>> /\ got = 0 /\ nf = 0
    /\ read = {} /\ oks = {}

Fault(k) == k \in Faults /\ nf < MaxFaults /\ nf' = nf + 1

-----------------------------------------------------------------------------
(* The peer.                                                               *)

Halves(p) == << [n |-> p.n, seq |-> p.seq, part |-> "head"],
                [n |-> p.n, seq |-> p.seq, part |-> "tail"] >>

\* tcp_mock_server, or the gateway and the remote node behind it: a PING is
\* answered with its SEQ, or lost.
PeerAnswer ==
    /\ open /\ c2s # <<>>
    /\ c2s' = Tail(c2s)
    /\ \/ s2c' = s2c \o Halves(Head(c2s)) /\ UNCHANGED nf
       \/ Fault("loss") /\ UNCHANGED s2c
    /\ UNCHANGED <<recovery, pc, request, seq, counters, held, stop, exitOk, open, got, history>>

PeerClose ==
    /\ open /\ Fault("close") /\ open' = FALSE /\ c2s' = <<>>
    /\ UNCHANGED <<recovery, pc, request, seq, counters, held, stop, exitOk, s2c, got, history>>

-----------------------------------------------------------------------------
(* The parser.                                                             *)

\* Mutant: the parser keeps what it holds.
ParserKept == held

\* stream_parser_init after a connection and after its end.
ParserInit == 0

\* stream_parser_reset_frame after a time-out.
ParserReset == 0

-----------------------------------------------------------------------------
(* The client.                                                             *)

End(ok) == pc' = "done" /\ exitOk' = ok

\* Mutant: a broken connection does not show in the exit code.
FatalForgotten == rx = tx

\* EXIT_SUCCESS of tcp_client.
Success == ~fatal /\ rx = tx

\* connect(): the recovery client tries again until it is stopped.
Connect ==
    /\ pc = "connect" /\ ~stop
    /\ \/ /\ pc' = "send" /\ open' = TRUE /\ c2s' = <<>> /\ s2c' = <<>>
          /\ held' = ParserInit /\ UNCHANGED <<exitOk, nf>>
       \/ /\ Fault("refuse")
          /\ IF recovery THEN UNCHANGED <<pc, exitOk>> ELSE End(FALSE)
          /\ UNCHANGED <<open, c2s, s2c, held>>
    /\ UNCHANGED <<recovery, request, seq, counters, stop, got, history>>

\* The connection is given up: tcp_client ends, the recovery client connects
\* again and repeats the request.
Broken ==
    /\ IF recovery THEN pc' = "connect" /\ held' = ParserInit /\ UNCHANGED fatal
                   ELSE pc' = "report" /\ fatal' = TRUE /\ UNCHANGED held
    /\ UNCHANGED <<request, seq>>

\* More requests are to come (always, in the recovery client; Count is its bound).
Send ==
    /\ pc = "send" /\ request < Count /\ ~stop
    /\ \/ /\ tx' = tx + 1 /\ pc' = "wait"
          /\ c2s' = IF open THEN Append(c2s, [n |-> tx + 1, seq |-> seq]) ELSE c2s
          /\ UNCHANGED <<request, seq, fatal, held>>
       \/ ~open /\ Broken /\ UNCHANGED <<tx, c2s>>
    /\ UNCHANGED <<recovery, rx, timeouts, stop, exitOk, open, s2c, got, nf, history>>

\* Mutant: the SEQ is kept wider than it is on the line.
SeqWide == seq + 1

\* request + 1 as uint16_t; next_sequence of the recovery client leaves out 0.
NextSeq == IF recovery /\ seq = SeqRange - 1 THEN 1 ELSE (seq + 1) % SeqRange

NextRequest == request' = request + 1 /\ seq' = NextSeq /\ pc' = "send"

\* recv returns the first k halves that have arrived.
Receive ==
    /\ pc = "wait" /\ ~stop /\ got = 0
    /\ \E k \in 1..Len(s2c) :
          got' = k /\ read' = read \cup {<<s2c[i].n, s2c[i].part>> : i \in 1..k}
    /\ UNCHANGED <<recovery, pc, request, seq, counters, held, stop, exitOk, open, c2s, s2c, nf, oks>>

\* Mutant: the SEQ of a PONG is not compared.
AnyPong(b) == TRUE

\* The test of wait_for_pong on a frame.
HasExpectedSeq(b) == b.seq = seq

\* The loop goes on with the next half in rx_buffer.
Skip == s2c' = Tail(s2c) /\ got' = got - 1 /\ UNCHANGED <<pc, request, seq, rx, oks>>

\* wait_for_pong returns: the rest of rx_buffer is dropped.
Pong(n) ==
    /\ s2c' = SubSeq(s2c, got + 1, Len(s2c)) /\ got' = 0
    /\ NextRequest /\ rx' = rx + 1 /\ oks' = oks \cup {[n |-> tx, by |-> n]}

\* stream_parser_feed_byte on the bytes of a half.  A first half after another one
\* makes a header with an impossible length, and both are dropped with what follows.
Feed ==
    /\ pc = "wait" /\ got > 0
    /\ LET b == Head(s2c)
       IN \/ /\ b.part = "head" /\ held' = (IF held = 0 THEN b.n ELSE 0)
             /\ Skip
          \/ /\ b.part = "tail" /\ held' = 0
             /\ IF held = b.n /\ HasExpectedSeq(b) THEN Pong(b.n) ELSE Skip
    /\ UNCHANGED <<recovery, tx, timeouts, fatal, stop, exitOk, open, c2s, nf, read>>

\* recv returns 0 or an error.
ReceiveError ==
    /\ pc = "wait" /\ ~stop /\ ~open /\ s2c = <<>>
    /\ Broken
    /\ UNCHANGED <<recovery, tx, rx, timeouts, stop, exitOk, open, c2s, s2c, got, nf, history>>

\* Mutant: the wait has no deadline.
NoDeadline == FALSE

\* Nothing more comes before the deadline.
NothingComes == open /\ c2s = <<>> /\ s2c = <<>>

\* The deadline passes: nothing comes, or it comes too late.
Timeout ==
    /\ pc = "wait" /\ ~stop /\ got = 0
    /\ \/ NothingComes /\ UNCHANGED nf
       \/ (c2s # <<>> \/ s2c # <<>>) /\ Fault("late")
    /\ IF recovery THEN Broken /\ UNCHANGED timeouts
       ELSE /\ NextRequest /\ timeouts' = timeouts + 1
            /\ held' = ParserReset /\ UNCHANGED fatal
    /\ UNCHANGED <<recovery, tx, rx, stop, exitOk, open, c2s, s2c, got, history>>

\* tcp_client reports after its last request or a broken connection.
Report ==
    /\ ~recovery /\ (pc = "report" \/ (pc = "send" /\ request = Count))
    /\ End(Success)
    /\ UNCHANGED <<recovery, request, seq, counters, held, stop, open, c2s, s2c, got, nf, history>>

\* SIGINT, which only the recovery client handles ...
Interrupt ==
    /\ recovery /\ pc # "done" /\ ~stop /\ Fault("stop") /\ stop' = TRUE
    /\ UNCHANGED <<recovery, pc, request, seq, counters, held, exitOk, open, c2s, s2c, got, history>>

\* ... at each of its loops, but for the one over rx_buffer.
Stopped ==
    /\ stop /\ pc # "done" /\ got = 0 /\ End(TRUE)
    /\ UNCHANGED <<recovery, request, seq, counters, held, stop, open, c2s, s2c, got, nf, history>>

Client == Connect \/ Send \/ Receive \/ Feed \/ ReceiveError \/ Timeout \/ Report \/ Stopped
Next == Client \/ PeerAnswer \/ PeerClose \/ Interrupt

\* The process runs and TCP delivers, so a peer that is there answers; a peer that
\* accepts connections lets one succeed after finitely many refusals.
Spec == Init /\ [][Next]_vars /\ WF_vars(Client) /\ WF_vars(PeerAnswer)

-----------------------------------------------------------------------------
\* A PING and half a PONG, of one of t requests.
Pings(t) == [n : 1..t, seq : 0..(SeqRange - 1)]
Pieces(t) == [n : 1..t, seq : 0..(SeqRange - 1), part : {"head", "tail"}]

\* Type invariant.
TypeOK ==
    /\ recovery \in BOOLEAN /\ pc \in {"connect", "send", "wait", "report", "done"}
    /\ request \in 0..Count /\ seq \in 0..(SeqRange - 1) /\ (recovery => seq # 0)
    /\ tx \in Nat /\ rx \in 0..tx /\ timeouts \in 0..tx /\ fatal \in BOOLEAN
    /\ held \in 0..tx /\ stop \in BOOLEAN /\ exitOk \in BOOLEAN /\ open \in BOOLEAN
    /\ c2s \in Seq(Pings(tx)) /\ s2c \in Seq(Pieces(tx))
    /\ got \in 0..Len(s2c) /\ nf \in 0..MaxFaults

\* A round trip that is recorded as OK was made by the PING it is recorded for: a
\* PONG that comes after its time-out, in one piece or in two, is not taken for the
\* answer to a later request.
OkIsOwn == \A o \in oks : o.n = o.by

\* tcp_client exits with success only if each of its Count requests was answered.
ExitHonest == pc = "done" /\ exitOk /\ ~recovery => rx = Count /\ timeouts = 0

Whole(n) == <<n, "head">> \in read /\ <<n, "tail">> \in read

\* No request is given up, by a time-out or with its connection, when recv has
\* returned the whole of its PONG: nothing that an earlier request left in the
\* parser or in the stream costs a PONG.
PongNotThrownAway ==
    [][pc = "wait" /\ pc' # "wait" /\ ~stop /\ rx' = rx => ~Whole(tx)]_vars

\* The client ends, or the recovery client gets a PONG for every SEQ, however the
\* peer fails for a while.
AllAnswered == <>(pc = "done" \/ rx = Count)

-----------------------------------------------------------------------------
(* The inductive invariant behind these properties.                        *)

\* The counters: each request that is over was answered or timed out.
CountInv ==
    /\ request = rx + timeouts
    /\ pc = "wait" => request < Count
    /\ recovery => timeouts = 0 /\ ~fatal /\ (pc = "wait" => rx < tx)
    /\ ~recovery => /\ ~stop /\ seq = (request + 1) % SeqRange
                    /\ pc \in {"connect", "send"} => tx = request
                    /\ pc = "wait" => tx = request + 1
    /\ pc = "report" => fatal /\ ~recovery

\* What the parser holds and what is still to come are whole PONGs; a tail whose
\* head is gone is not that of the present request.
StreamInv ==
    /\ got > 0 => pc = "wait"
    /\ \A i \in 1..Len(s2c) :
          /\ s2c[i].part = "head" => /\ i < Len(s2c) /\ s2c[i + 1].part = "tail"
                                     /\ s2c[i + 1].n = s2c[i].n
          /\ s2c[i].part = "tail" /\ i > 1 => s2c[i - 1].part = "head"
    /\ s2c # <<>> /\ s2c[1].part = "head" => held = 0
    /\ held # 0 => s2c # <<>> /\ s2c[1].n = held
    /\ s2c # <<>> /\ s2c[1].part = "tail" /\ s2c[1].n = tx /\ pc = "wait" => held = tx

\* PINGs and PONGs are in the order of their numbers.
OrderInv ==
    /\ \A i, j \in 1..Len(s2c) : i < j /\ s2c[j].part = "head" => s2c[i].n < s2c[j].n
    /\ \A i, j \in 1..Len(c2s) : i < j => c2s[i].n < c2s[j].n
    /\ \A i \in 1..Len(s2c), j \in 1..Len(c2s) : s2c[i].n < c2s[j].n

\* What is on its way: in tcp_client a request is over before its PONG is read only
\* if it was late; the recovery client leaves the connection.
Timely(x) ==
    /\ ~recovery => x.seq = x.n % SeqRange /\ request < x.n + nf
    /\ recovery => x.n = tx /\ pc # "send" /\ (pc = "wait" => x.seq = seq)
LateInv == (\A i \in 1..Len(c2s) : Timely(c2s[i])) /\ (\A i \in 1..Len(s2c) : Timely(s2c[i]))

\* Whatever recv has returned of the awaited PONG's tail is still in rx_buffer.
ReadInv ==
    /\ \A r \in read : r[1] \in 1..tx
    /\ pc = "wait" /\ <<tx, "tail">> \in read =>
          \E i \in 1..got : s2c[i].n = tx /\ s2c[i].part = "tail"

PongInv ==
    TypeOK /\ CountInv /\ StreamInv /\ OrderInv /\ LateInv /\ ReadInv /\ OkIsOwn /\ ExitHonest
=============================================================================

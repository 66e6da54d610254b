----------------------------- MODULE UdpClient -----------------------------
(***************************************************************************)
(* host/udp_client.cpp, the telemetry loss test, against a sender of       *)
(* numbered TELEMETRY datagrams: the gateway, which forwards what the      *)
(* remote node numbers, or host/udp_mock_server.cpp, which leaves out      *)
(* every DropEvery-th.                                                     *)
(*                                                                         *)
(* The network between them loses, repeats and damages datagrams but does  *)
(* not reorder them: the tool is meant for a direct cable.                 *)
(***************************************************************************)
EXTENDS Integers, Sequences, FiniteSets

CONSTANTS
    Expected,       \* --expected
    SeqMod,         \* 2^16, where a SEQ wraps
    Starts,         \* SEQ values at which the test may find the sender
    DropEvery,      \* the mock server leaves out every DropEvery-th SEQ, 0: none
    MaxSent,        \* bound: SEQs the sender numbers
    MaxFaults,      \* bound: datagrams the network spoils
    Faults          \* subset of {"loss", "repeat", "crc", "invalid", "reset"}

\* What the constants must be.  The test sees no SEQ twice: one that was lost and
\* comes again after a wrap would hide the loss.
UdpAssumption ==
    /\ SeqMod \in Nat \ {0} /\ Expected \in 1..SeqMod /\ Starts \subseteq 0..(SeqMod - 1)
    /\ DropEvery \in Nat /\ MaxSent \in 0..SeqMod /\ MaxFaults \in Nat
    /\ Faults \subseteq {"loss", "repeat", "crc", "invalid", "reset"}

VARIABLES
    \* the sender and the network
    seq,        \* SEQ numbered last
    count,      \* history: how many were numbered
    net,        \* datagrams on their way: [n, seq, kind], n the number of its SEQ
    stopped,    \* the sender has ended
    restarted,  \* history: the sender began its SEQ again
    nf,
    \* the client
    running,    \* in the receive loop
    received,   \* received_sequences
    first,      \* first_seq, or None
    crcErrors, invalidFrames, duplicates,
    \* history
    delivered,  \* numbers n whose datagram the client took as telemetry
    firstN,     \* number n of the first one
    repeats     \* datagrams that the network repeated and the client took

vars == <<seq, count, net, stopped, restarted, nf, running, received, first, crcErrors, invalidFrames,
          duplicates, delivered, firstN, repeats>>
sendVars == <<seq, count, net, stopped, restarted, nf>>
clientVars == <<running, received, first, crcErrors, invalidFrames, duplicates, delivered,
                firstN, repeats>>

None == -1
Kinds == {"telemetry", "repeat", "crc", "invalid"}

Init ==
    /\ seq \in Starts /\ count = 0 /\ net = <<>> /\ stopped = FALSE /\ restarted = FALSE /\ nf = 0
    /\ running = TRUE /\ received = {} /\ first = None
    /\ crcErrors = 0 /\ invalidFrames = 0 /\ duplicates = 0
    /\ delivered = {} /\ firstN = 0 /\ repeats = 0

-----------------------------------------------------------------------------
(* The sender and the network.                                             *)

Fault(k) == k \in Faults /\ nf < MaxFaults /\ nf' = nf + 1
Datagram(k) == [n |-> count + 1, seq |-> seq', kind |-> k]

\* udp_mock_server: the SEQ is left out on purpose.
Skipped(s) == DropEvery # 0 /\ s % DropEvery = 0

\* uint16_t arithmetic.
NextSeq == (seq + 1) % SeqMod

\* The next SEQ is numbered and its datagram sent, damaged or lost.
SendTelemetry ==
    /\ ~stopped /\ count < MaxSent /\ Len(net) < 2
    /\ seq' = NextSeq /\ count' = count + 1
    /\ \/ Skipped(seq') /\ UNCHANGED <<net, nf>>
       \/ ~Skipped(seq') /\ net' = Append(net, Datagram("telemetry")) /\ UNCHANGED nf
       \/ ~Skipped(seq') /\ Fault("loss") /\ UNCHANGED net
       \/ \E k \in {"crc", "invalid"} : /\ ~Skipped(seq') /\ Fault(k)
                                        /\ net' = Append(net, Datagram(k))
       \/ /\ ~Skipped(seq') /\ Fault("repeat")
          /\ net' = net \o <<Datagram("telemetry"), Datagram("repeat")>>
    /\ UNCHANGED <<stopped, restarted, clientVars>>

\* The remote node restarts: telemetry_sequence begins again.
SenderReset ==
    /\ ~stopped /\ Fault("reset") /\ seq' = 0 /\ restarted' = TRUE
    /\ UNCHANGED <<count, net, stopped, clientVars>>

\* The sender ends, at the latest when it has sent all that it plans to.
SenderStop ==
    /\ ~stopped /\ stopped' = TRUE
    /\ UNCHANGED <<seq, count, net, restarted, nf, clientVars>>

-----------------------------------------------------------------------------
(* The client.                                                             *)

\* Mutant: a SEQ that was there already is not told apart.
AlwaysInserted(s) == TRUE

\* std::set::insert reports that the SEQ is new.
Inserted(s) == s \notin received

\* Mutant: the window begins at the highest SEQ so far.
FirstMoves(s) == s

\* first_seq is that of the first packet.
FirstSeq(s) == IF first = None THEN s ELSE first

\* recvfrom returns a datagram: protocol_decode and the test of MSG_ID and
\* length, then the SEQ is entered.  The loop ends with the last that is awaited.
Receive ==
    /\ running /\ net # <<>>
    /\ LET d == Head(net)
       IN \/ /\ d.kind = "crc" /\ crcErrors' = crcErrors + 1
             /\ UNCHANGED <<running, received, first, invalidFrames, duplicates, delivered,
                            firstN, repeats>>
          \/ /\ d.kind = "invalid" /\ invalidFrames' = invalidFrames + 1
             /\ UNCHANGED <<running, received, first, crcErrors, duplicates, delivered,
                            firstN, repeats>>
          \/ /\ d.kind \in {"telemetry", "repeat"}
             /\ first' = FirstSeq(d.seq)
             /\ received' = received \cup {d.seq}
             /\ duplicates' = IF Inserted(d.seq) THEN duplicates ELSE duplicates + 1
             /\ running' = (Cardinality(received') < Expected)
             /\ delivered' = delivered \cup {d.n}
             /\ firstN' = IF first = None THEN d.n ELSE firstN
             /\ repeats' = IF d.kind = "repeat" THEN repeats + 1 ELSE repeats
             /\ UNCHANGED <<crcErrors, invalidFrames>>
    /\ net' = Tail(net)
    /\ UNCHANGED <<seq, count, stopped, restarted, nf>>

\* Mutant: the test goes on when nothing comes.
NeverIdle == FALSE

\* Nothing comes for initial_timeout_ms or idle_timeout_ms, both far longer than
\* the sender's period.
NothingComes == net = <<>> /\ (stopped \/ count = MaxSent)

Timeout ==
    /\ running /\ NothingComes /\ running' = FALSE
    /\ UNCHANGED <<sendVars, received, first, crcErrors, invalidFrames, duplicates,
                   delivered, firstN, repeats>>

\* The offsets that the report runs over.
Window == 0..(Expected - 1)

\* The SEQs that the report calls MISSING, and missing_count.
Missing == {(first + k) % SeqMod : k \in Window} \ received
MissingCount == IF first = None THEN Expected ELSE Cardinality(Missing)

Next == SendTelemetry \/ SenderReset \/ SenderStop \/ Receive \/ Timeout

\* The client runs, and so does the sender until it stops.
Fairness == WF_vars(Receive) /\ WF_vars(Timeout) /\ WF_vars(SendTelemetry)

Spec == Init /\ [][Next]_vars /\ Fairness

-----------------------------------------------------------------------------
\* Type invariant.
TypeOK ==
    /\ seq \in 0..(SeqMod - 1) /\ count \in 0..MaxSent /\ stopped \in BOOLEAN
    /\ net \in Seq([n : 1..MaxSent, seq : 0..(SeqMod - 1), kind : Kinds])
    /\ restarted \in BOOLEAN /\ nf \in 0..MaxFaults
    /\ running \in BOOLEAN /\ received \subseteq 0..(SeqMod - 1)
    /\ Cardinality(received) <= Expected /\ first \in {None} \cup 0..(SeqMod - 1)
    /\ crcErrors \in Nat /\ invalidFrames \in Nat /\ duplicates \in Nat
    /\ delivered \subseteq 1..MaxSent /\ firstN \in 0..MaxSent /\ repeats \in Nat

\* The reported loss is the loss: unless the sender began again, the SEQs called
\* MISSING are as many as the datagrams, of the Expected that follow the first one
\* received, that the client never got, wherever the test starts and whatever is
\* lost, damaged or repeated.
LossIsTrue ==
    ~running /\ first # None /\ ~restarted =>
        MissingCount = Expected - Cardinality(delivered \cap (firstN..(firstN + Expected - 1)))

\* A datagram reported as DUPLICATE is one that the network repeated, unless the
\* sender began again.
DuplicatesAreRepeats == ~restarted => duplicates = repeats

\* The test ends, also when the sender stops early.
TestEnds == <>~running

-----------------------------------------------------------------------------
(* The inductive invariant behind these properties.                        *)

\* The SEQ that number n had, unless the sender began again.
SeqOf(n) == (seq + n - count) % SeqMod

\* The datagrams on their way are in the order of their numbers, behind those
\* delivered; a repetition follows its original.
NetInv ==
    /\ \A i \in 1..Len(net) :
          /\ net[i].n <= count /\ net[i].seq = SeqOf(net[i].n)
          /\ net[i].kind = "repeat" =>
                IF i = 1 THEN net[1].n \in delivered
                ELSE net[i - 1].kind = "telemetry" /\ net[i - 1].n = net[i].n
          /\ net[i].kind # "repeat" => \A m \in delivered : m < net[i].n
    /\ \A i, j \in 1..Len(net) : i < j /\ net[j].kind # "repeat" => net[i].n < net[j].n

\* What was received has the SEQs of what was delivered, none before the first.
ReceivedInv ==
    /\ received = {SeqOf(n) : n \in delivered} /\ \A n \in delivered : n <= count
    /\ IF first = None THEN delivered = {}
       ELSE /\ firstN \in delivered /\ first = SeqOf(firstN)
            /\ \A n \in delivered : firstN <= n

UdpInv ==
    /\ TypeOK /\ (running => Cardinality(received) < Expected)
    /\ ~restarted => NetInv /\ ReceivedInv /\ DuplicatesAreRepeats
=============================================================================

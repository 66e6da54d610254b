-------------------------------- MODULE Host --------------------------------
(* The programs of host/, each against its peer: the two TCP clients and   *)
(* the telemetry loss test.  A behaviour is about one of them.             *)
EXTENDS PongClient, FiniteSets

CONSTANTS
    Telemetry, SeqMod, Starts, DropEvery, MaxSent, UdpFaults, MaxSpoilt     \* of UdpClient

VARIABLES
    part,       \* "tcp" or "udp"
    uSeq, count, net, stopped, restarted, spoilt, running, received, first, crcErrors,
    invalidFrames, duplicates, delivered, firstN, repeats

uVars == <<uSeq, count, net, stopped, restarted, spoilt, running, received, first, crcErrors,
           invalidFrames, duplicates, delivered, firstN, repeats>>
hostVars == <<part, vars, uVars>>

Udp == INSTANCE UdpClient WITH Expected <- Telemetry, MaxFaults <- MaxSpoilt,
            Faults <- UdpFaults, seq <- uSeq, nf <- spoilt

ASSUME HostAssumption == Udp!UdpAssumption

\* A program that the behaviour is not about stays in one of its initial states.
HostInit ==
    /\ part \in {"tcp", "udp"} /\ Init /\ Udp!Init
    /\ part # "tcp" => ~recovery
    /\ part # "udp" => uSeq = CHOOSE s \in Starts : TRUE

HostNext ==
    /\ UNCHANGED part
    /\ \/ part = "tcp" /\ Next     /\ UNCHANGED uVars
       \/ part = "udp" /\ Udp!Next /\ UNCHANGED vars

\* The fairness of PongClient and UdpClient.
HostFairness ==
    /\ WF_vars(part = "tcp" /\ Client) /\ WF_vars(part = "tcp" /\ PeerAnswer)
    /\ WF_uVars(part = "udp" /\ Udp!Receive) /\ WF_uVars(part = "udp" /\ Udp!Timeout)
    /\ WF_uVars(part = "udp" /\ Udp!SendTelemetry)

HostSpec == HostInit /\ [][HostNext]_hostVars /\ HostFairness

-----------------------------------------------------------------------------
(* The properties of the programs, from those of their modules.            *)

\* tcp_client, tcp_recovery_client: a PONG is recorded for its own request only, and
\* tcp_client exits with success only if each of its requests was answered.
ClientReportsTrue == TypeOK /\ OkIsOwn /\ ExitHonest

\* udp_client: the reported loss is the loss, and without a restart of the sender a
\* DUPLICATE is a datagram that the network repeated.
LossReportTrue == Udp!TypeOK /\ Udp!LossIsTrue /\ Udp!DuplicatesAreRepeats

\* tcp_client ends; the recovery client gets all its PONGs once the faults are over;
\* udp_client ends, also when the sender stops early or starts its SEQ again.
ProgramsEnd == (part = "tcp" => AllAnswered) /\ (part = "udp" => Udp!TestEnds)
=============================================================================

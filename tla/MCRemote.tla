------------------------------ MODULE MCRemote ------------------------------
(* The remote node with frames of every class.                             *)
EXTENDS RemoteNode

Frame(m, s, l) == [msg |-> m, seq |-> s, len |-> l]
FrameSet == {Frame("PING", 1, 0), Frame("PING", 2, 1), Frame("READ_STATUS", 1, 0),
             Frame("PONG", 1, 0), Frame("UNKNOWN", 2, 0), Frame("ERROR", 1, 0),
             Frame("CRC", 0, 0), Frame("FORMAT", 0, 0)}

\* The requests that have an answer of their own.
Served == {Frame("PING", 1, 0), Frame("READ_STATUS", 1, 0)}

\* Bound of the run: a frame of any class before or after one of these, or three of these.
ArrivalBound ==
    LET others == {i \in 1..Len(arrived) : arrived[i] \notin Served}
    IN others = {} \/ (Cardinality(others) = 1 /\ Len(arrived) <= 2)
=============================================================================

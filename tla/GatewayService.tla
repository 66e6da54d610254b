--------------------------- MODULE GatewayService ---------------------------
(***************************************************************************)
(* What the gateway promises to those who use it, without the tasks, the   *)
(* queues and the sockets in between: a TCP client gets nothing but PONGs, *)
(* each for a PING of that SEQ that was accepted and has none yet, and the *)
(* UDP peer gets telemetry that the remote node has sent, each at most     *)
(* once and in order.  Requests and telemetry may be lost.                 *)
(***************************************************************************)
EXTENDS Integers

CONSTANT Requests   \* SEQ values of requests

VARIABLES
    owed,       \* PINGs accepted and not answered, per SEQ
    response,   \* [msg, seq] of what the TCP client got last
    made,       \* telemetry packets that the remote node has sent
    forwarded   \* number of the last one forwarded, 0 before any

serviceVars == <<owed, response, made, forwarded>>

Init ==
    /\ owed = [s \in Requests |-> 0] /\ response = [msg |-> "NONE", seq |-> 0]
    /\ made = 0 /\ forwarded = 0

\* A PING is accepted.
Accept(s) ==
    /\ owed' = [owed EXCEPT ![s] = @ + 1]
    /\ UNCHANGED <<response, made, forwarded>>

\* A PONG goes to the client of the present connection.
Answer(s) ==
    /\ owed[s] > 0
    /\ owed' = [owed EXCEPT ![s] = @ - 1]
    /\ response' = [msg |-> "PONG", seq |-> s]
    /\ UNCHANGED <<made, forwarded>>

\* The remote node sends the next TELEMETRY ...
Report == made' = made + 1 /\ UNCHANGED <<owed, response, forwarded>>

\* ... and a later one than the last goes to UDP.
Forward ==
    /\ forwarded' \in (forwarded + 1)..made
    /\ UNCHANGED <<owed, response, made>>

Next == (\E s \in Requests : Accept(s) \/ Answer(s)) \/ Report \/ Forward

Spec == Init /\ [][Next]_serviceVars
=============================================================================

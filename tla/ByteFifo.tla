------------------------------ MODULE ByteFifo ------------------------------
(***************************************************************************)
(* What a UART receive ring promises to the interrupt that fills it and to *)
(* the task that empties it: a bounded FIFO.  A byte is queued or, when    *)
(* the queue is full, refused and counted; bytes come out in order, each   *)
(* once.                                                                   *)
(***************************************************************************)
EXTENDS Integers, Sequences

CONSTANTS Byte,      \* the byte values
          Capacity   \* bytes the queue holds

VARIABLES queue,     \* bytes received and not yet taken
          last,      \* byte the task took last
          refused    \* number of bytes refused

fifoVars == <<queue, last, refused>>

Init == queue = <<>> /\ last \in Byte /\ refused = 0

Push(b) ==
    /\ Len(queue) < Capacity
    /\ queue' = Append(queue, b)
    /\ UNCHANGED <<last, refused>>

Refuse ==
    /\ Len(queue) = Capacity
    /\ refused' = refused + 1
    /\ UNCHANGED <<queue, last>>

Pop ==
    /\ queue # <<>>
    /\ last' = Head(queue) /\ queue' = Tail(queue)
    /\ UNCHANGED refused

Next == (\E b \in Byte : Push(b)) \/ Refuse \/ Pop

Spec == Init /\ [][Next]_fifoVars
=============================================================================

----------------------------- MODULE UartRxRing -----------------------------
(***************************************************************************)
(* uart_rx_ring.c of the remote node: the UART5 receive interrupt pushes,  *)
(* the main loop pops.  The indices stay inside the storage and one slot   *)
(* stays free, so that a full ring differs from an empty one.  The         *)
(* interrupt preempts the loop between any two of its accesses.            *)
(***************************************************************************)
EXTENDS Integers, Sequences

CONSTANTS UByte,       \* byte values
          USize,       \* UART_RX_RING_SIZE
          UMaxOverflow \* bound: bytes refused in a behaviour

ASSUME URingAssumption ==
    /\ USize \in Nat /\ USize > 1 /\ UMaxOverflow \in Nat /\ 0 \in UByte

VARIABLES uStorage,    \* storage
          uWrite,      \* write_index
          uRead,       \* read_index
          uOverflow,   \* bytes for which uart_rx_ring_push_isr returned 0
          uPc,         \* where uart_rx_ring_pop is
          uTaken,      \* *byte, as uart_rx_ring_pop has read it
          uLast        \* byte that uart_rx_ring_pop returned last

uVars == <<uStorage, uWrite, uRead, uOverflow, uPc, uTaken, uLast>>

UInit ==
    /\ uStorage = [i \in 0..USize - 1 |-> 0]
    /\ uWrite = 0 /\ uRead = 0 /\ uOverflow = 0
    /\ uPc = "idle" /\ uTaken = 0 /\ uLast = 0

\* The index after i.
UAfter(i) == IF i + 1 >= USize THEN 0 ELSE i + 1

\* Mutant: a push never finds the ring full.
UNeverFull == FALSE

UFull == UAfter(uWrite) = uRead

\* uart_rx_ring_push_isr.
UPush(b) ==
    /\ \/ /\ UFull /\ uOverflow < UMaxOverflow
          /\ uOverflow' = uOverflow + 1
          /\ UNCHANGED <<uStorage, uWrite>>
       \/ /\ ~UFull
          /\ uStorage' = [uStorage EXCEPT ![uWrite] = b]
          /\ uWrite' = UAfter(uWrite)
          /\ UNCHANGED uOverflow
    /\ UNCHANGED <<uRead, uPc, uTaken, uLast>>

\* uart_rx_ring_pop: the test for an empty ring, the read and the release.
UPopTest ==
    /\ uPc = "idle" /\ uRead # uWrite
    /\ uPc' = "read"
    /\ UNCHANGED <<uStorage, uWrite, uRead, uOverflow, uTaken, uLast>>

UPopRead ==
    /\ uPc = "read"
    /\ uTaken' = uStorage[uRead] /\ uPc' = "free"
    /\ UNCHANGED <<uStorage, uWrite, uRead, uOverflow, uLast>>

UPopFree ==
    /\ uPc = "free"
    /\ uRead' = UAfter(uRead) /\ uLast' = uTaken /\ uPc' = "idle"
    /\ UNCHANGED <<uStorage, uWrite, uOverflow, uTaken>>

UNext == (\E b \in UByte : UPush(b)) \/ UPopTest \/ UPopRead \/ UPopFree

USpec == UInit /\ [][UNext]_uVars

-----------------------------------------------------------------------------
\* The bytes from read_index up to write_index.
UCount == IF uWrite >= uRead THEN uWrite - uRead ELSE uWrite + USize - uRead
USlot(k) == IF k >= USize THEN k - USize ELSE k
UQueue == [i \in 1..UCount |-> uStorage[USlot(uRead + i - 1)]]

UFifo == INSTANCE ByteFifo
         WITH Byte <- UByte, Capacity <- USize - 1,
              queue <- UQueue, last <- uLast, refused <- uOverflow

\* The ring of the remote node is a FIFO of one byte less than its storage, although
\* the interrupt pushes in the middle of a pop.
RemoteRingIsFifo == UFifo!Spec

\* The indices stay inside the storage, a pop under way has a byte to take, and the
\* byte it has read is still the oldest one.
RemoteRingInv ==
    /\ uStorage \in [0..USize - 1 -> UByte]
    /\ uWrite \in 0..USize - 1 /\ uRead \in 0..USize - 1
    /\ uOverflow \in Nat /\ uTaken \in UByte /\ uLast \in UByte
    /\ uPc \in {"idle", "read", "free"}
    /\ uPc # "idle" => uRead # uWrite
    /\ uPc = "free" => uTaken = uStorage[uRead]
=============================================================================

--------------------------- MODULE GatewayRxRing ---------------------------
(***************************************************************************)
(* g_rs422_rx_ring of the gateway (g474_gateway/Core/Src/main.c): the      *)
(* UART4 receive interrupt pushes, RS422Task pops.  Head and tail run      *)
(* freely over the range of uint16_t and select a slot by a mask.  The     *)
(* interrupt preempts the task between any two of its accesses; the task   *)
(* never runs inside the interrupt.                                        *)
(***************************************************************************)
EXTENDS Integers, Sequences

CONSTANTS GByte,       \* byte values
          GCapacity,   \* RS422_RX_RING_CAPACITY
          GWrap,       \* 2^16, where a uint16_t wraps
          GMaxOverflow \* bound: bytes refused in a behaviour

\* The mask selects the same slot on both sides of the wrap.
ASSUME GRingAssumption ==
    /\ GCapacity \in Nat \ {0} /\ GMaxOverflow \in Nat /\ 0 \in GByte
    /\ GWrap \in Nat /\ GWrap > GCapacity /\ GWrap % GCapacity = 0

VARIABLES gRing,       \* g_rs422_rx_ring
          gHead,       \* g_rs422_rx_head
          gTail,       \* g_rs422_rx_tail
          gOverflow,   \* g_rs422_rx_overflow_count
          gPc,         \* where rs422_rx_ring_pop is
          gTaken,      \* *byte, as rs422_rx_ring_pop has read it
          gLast        \* byte that rs422_rx_ring_pop returned last

gVars == <<gRing, gHead, gTail, gOverflow, gPc, gTaken, gLast>>

GInit ==
    /\ gRing = [i \in 0..GCapacity - 1 |-> 0]
    /\ gHead = 0 /\ gTail = 0 /\ gOverflow = 0
    /\ gPc = "idle" /\ gTaken = 0 /\ gLast = 0

\* Bytes in the ring: (uint16_t)(head - tail).
GCount == (gHead - gTail) % GWrap

\* Mutant: one byte too many.
GOverfull == GCount > GCapacity

GFull == GCount >= GCapacity

\* rs422_rx_ring_push_from_isr.
GPush(b) ==
    /\ \/ /\ GFull /\ gOverflow < GMaxOverflow
          /\ gOverflow' = gOverflow + 1
          /\ UNCHANGED <<gRing, gHead>>
       \/ /\ ~GFull
          /\ gRing' = [gRing EXCEPT ![gHead % GCapacity] = b]
          /\ gHead' = (gHead + 1) % GWrap
          /\ UNCHANGED gOverflow
    /\ UNCHANGED <<gTail, gPc, gTaken, gLast>>

\* rs422_rx_ring_pop: the test for an empty ring ...
GPopTest ==
    /\ gPc = "idle" /\ gTail # gHead
    /\ gPc' = "read"
    /\ UNCHANGED <<gRing, gHead, gTail, gOverflow, gTaken, gLast>>

\* ... the read of the slot ...
GPopRead ==
    /\ gPc = "read"
    /\ gTaken' = gRing[gTail % GCapacity] /\ gPc' = "free"
    /\ UNCHANGED <<gRing, gHead, gTail, gOverflow, gLast>>

\* ... and only then the release of the slot to the interrupt.
GPopFree ==
    /\ gPc = "free"
    /\ gTail' = (gTail + 1) % GWrap /\ gLast' = gTaken /\ gPc' = "idle"
    /\ UNCHANGED <<gRing, gHead, gOverflow, gTaken>>

GNext == (\E b \in GByte : GPush(b)) \/ GPopTest \/ GPopRead \/ GPopFree

GSpec == GInit /\ [][GNext]_gVars

-----------------------------------------------------------------------------
\* The bytes between tail and head.
GQueue == [i \in 1..GCount |-> gRing[(gTail + i - 1) % GCapacity]]

GFifo == INSTANCE ByteFifo
         WITH Byte <- GByte, Capacity <- GCapacity,
              queue <- GQueue, last <- gLast, refused <- gOverflow

\* The ring of RS422Task is a FIFO of its full capacity, 512 bytes of 512, although
\* its indices wrap and the interrupt pushes in the middle of a pop.
GatewayRingIsFifo == GFifo!Spec

\* Head is never more than the capacity ahead of tail, a pop under way has a byte to
\* take, and the byte it has read is still the oldest one.
GatewayRingInv ==
    /\ gRing \in [0..GCapacity - 1 -> GByte]
    /\ gHead \in 0..GWrap - 1 /\ gTail \in 0..GWrap - 1 /\ GCount <= GCapacity
    /\ gOverflow \in Nat /\ gTaken \in GByte /\ gLast \in GByte
    /\ gPc \in {"idle", "read", "free"}
    /\ gPc # "idle" => gTail # gHead
    /\ gPc = "free" => gTaken = gRing[gTail % GCapacity]
=============================================================================

---------------------------- MODULE BufferProofs ----------------------------
(***************************************************************************)
(* Proofs about the buffers with wrapping pointers.  The receive rings of  *)
(* the remote node and of the gateway implement a bounded FIFO, for every  *)
(* size of the ring, every width of its indices and every set of byte      *)
(* values; the stream that the gateway takes out of a W5500 socket is the  *)
(* one that arrived, for every size of the buffer and of the chunks; what  *)
(* it sends through one is whole frames in order, for every size of the    *)
(* buffer and of the frames.                                               *)
(***************************************************************************)
EXTENDS Buffers, ModularProofs, FiniteSetTheorems, TLAPS

\* Two sequences of the same length with the same elements are equal.
LEMMA SameElements ==
    ASSUME NEW S, NEW q \in Seq(S), NEW r \in Seq(S), Len(q) = Len(r),
           \A i \in 1..Len(q) : q[i] = r[i]
    PROVE  q = r
  OBVIOUS

\* The index after an index is an index.
LEMMA AfterType == ASSUME NEW i \in 0..USize - 1 PROVE UAfter(i) \in 0..USize - 1
  BY URingAssumption DEF UAfter

-----------------------------------------------------------------------------
(* The invariant.                                                          *)

\* An empty ring satisfies it.
LEMMA RingInit == UInit => RemoteRingInv
  BY URingAssumption DEF UInit, RemoteRingInv

\* The interrupt writes only the free slot, never the one a pop is reading.
LEMMA RingNext == RemoteRingInv /\ [UNext]_uVars => RemoteRingInv'
  <1> SUFFICES ASSUME RemoteRingInv, [UNext]_uVars PROVE RemoteRingInv' OBVIOUS
  <1> USE URingAssumption, AfterType DEF RemoteRingInv
  <1>1. ASSUME NEW b \in UByte, UPush(b) PROVE RemoteRingInv'
    BY <1>1 DEF UPush, UFull
  <1>2. CASE UPopTest BY <1>2 DEF UPopTest
  <1>3. CASE UPopRead BY <1>3 DEF UPopRead
  <1>4. CASE UPopFree BY <1>4 DEF UPopFree
  <1>5. CASE UNCHANGED uVars BY <1>5 DEF uVars
  <1> QED BY <1>1, <1>2, <1>3, <1>4, <1>5 DEF UNext

\* The indices of uart_rx_ring_t never leave its storage, and the slot that a pop has
\* read is not overwritten before it is released.
THEOREM RingInvariance == USpec => []RemoteRingInv
  BY RingInit, RingNext, PTL DEF USpec

-----------------------------------------------------------------------------
(* The refinement.                                                         *)

\* The bytes in the ring are a sequence of UCount bytes, at most USize - 1.
LEMMA QueueType ==
    ASSUME RemoteRingInv
    PROVE  /\ UCount \in 0..USize - 1
           /\ UQueue \in Seq(UByte) /\ Len(UQueue) = UCount
           /\ \A i \in 1..UCount : /\ USlot(uRead + i - 1) \in 0..USize - 1
                                   /\ UQueue[i] = uStorage[USlot(uRead + i - 1)]
  <1>1. UCount \in 0..USize - 1 BY URingAssumption DEF RemoteRingInv, UCount
  <1>2. \A i \in 1..UCount : USlot(uRead + i - 1) \in 0..USize - 1
    BY URingAssumption DEF RemoteRingInv, UCount, USlot
  <1>3. \A i \in 1..UCount : uStorage[USlot(uRead + i - 1)] \in UByte
    BY <1>2 DEF RemoteRingInv
  <1> QED BY <1>1, <1>2, <1>3 DEF UQueue

\* A byte that is stored comes last.
LEMMA PushAppends ==
    ASSUME RemoteRingInv, RemoteRingInv', NEW b \in UByte, UPush(b), ~UFull
    PROVE  Len(UQueue) < USize - 1 /\ UQueue' = Append(UQueue, b)
  <1> USE URingAssumption DEF RemoteRingInv
  <1>1. /\ uStorage' = [uStorage EXCEPT ![uWrite] = b]
        /\ uWrite' = UAfter(uWrite) /\ uRead' = uRead
    BY DEF UPush
  <1>2. UCount' = UCount + 1 /\ UCount < USize - 1
    BY <1>1 DEF UFull, UAfter, UCount
  <1>3. UQueue' \in Seq(UByte) /\ Len(UQueue') = UCount'
        /\ \A i \in 1..UCount' : UQueue'[i] = uStorage'[USlot(uRead + i - 1)]
    <2>1. UCount' \in Nat BY <1>2, QueueType
    <2>2. UCount \in Nat BY QueueType
    <2>3. \A i \in 1..UCount + 1 : USlot(uRead + i - 1) \in 0..USize - 1
      BY <1>2, <2>2 DEF USlot
    <2>4. \A i \in 1..UCount' : uStorage'[USlot(uRead + i - 1)] \in UByte
      BY <1>2, <2>3
    <2>5. UQueue' = [i \in 1..UCount' |-> uStorage'[USlot(uRead + i - 1)]]
      BY <1>1 DEF UQueue, USlot
    <2>6. UQueue' \in [1..UCount' -> UByte] BY <2>4, <2>5
    <2>7. UQueue' \in Seq(UByte) /\ Len(UQueue') = UCount' BY <2>1, <2>6
    <2>8. \A i \in 1..UCount' : UQueue'[i] = uStorage'[USlot(uRead + i - 1)] BY <2>5
    <2> QED BY <2>7, <2>8
  <1>4. \A i \in 1..UCount : USlot(uRead + i - 1) # uWrite
    BY DEF UCount, USlot
  <1>5. USlot(uRead + UCount) = uWrite
    BY DEF UCount, USlot
  <1>6. \A i \in 1..UCount : UQueue'[i] = UQueue[i]
    BY <1>1, <1>2, <1>3, <1>4, QueueType
  <1>7. UQueue'[UCount + 1] = b
    BY <1>1, <1>2, <1>3, <1>5, QueueType
  <1> QED BY <1>2, <1>3, <1>6, <1>7, QueueType, SameElements

\* The byte that is released was first, and no other byte moves.
LEMMA PopTakesHead ==
    ASSUME RemoteRingInv, RemoteRingInv', UPopFree
    PROVE  UQueue # <<>> /\ uLast' = Head(UQueue) /\ UQueue' = Tail(UQueue)
  <1> USE URingAssumption DEF RemoteRingInv
  <1>1. /\ uRead # uWrite /\ uTaken = uStorage[uRead] /\ uLast' = uTaken
        /\ uStorage' = uStorage /\ uWrite' = uWrite /\ uRead' = UAfter(uRead)
    BY DEF UPopFree
  <1>2. UCount > 0 /\ UCount' = UCount - 1
    BY <1>1 DEF UAfter, UCount
  <1>3. UQueue[1] = uStorage[uRead]
    BY <1>2, QueueType DEF USlot
  <1>4. UQueue' \in Seq(UByte) /\ Len(UQueue') = UCount'
        /\ \A i \in 1..UCount' : UQueue'[i] = uStorage[USlot(uRead' + i - 1)]
    <2>1. UCount' \in Nat BY <1>2, QueueType
    <2>2. \A i \in 1..UCount' : USlot(uRead' + i - 1) \in 0..USize - 1
      BY <1>1, <1>2 DEF UCount, USlot, UAfter
    <2> QED BY <1>1, <2>1, <2>2 DEF UQueue, USlot
  <1>5. \A i \in 1..UCount' : USlot(uRead' + i - 1) = USlot(uRead + (i + 1) - 1)
    BY <1>1, <1>2 DEF UCount, USlot, UAfter
  <1>6. \A i \in 1..UCount' : UQueue'[i] = Tail(UQueue)[i]
    BY <1>2, <1>4, <1>5, QueueType
  <1>7. Tail(UQueue) \in Seq(UByte) /\ Len(Tail(UQueue)) = UCount'
    BY <1>2, QueueType
  <1> QED BY <1>1, <1>2, <1>3, <1>4, <1>6, <1>7, QueueType, SameElements

\* What only reads the ring leaves its bytes as they are.
LEMMA QueueKept ==
    ASSUME UNCHANGED <<uStorage, uWrite, uRead>> PROVE UQueue' = UQueue
  BY DEF UQueue, UCount, USlot

\* A full ring holds USize - 1 bytes.
LEMMA FullCount == ASSUME RemoteRingInv, UFull PROVE Len(UQueue) = USize - 1
  <1>1. UCount = USize - 1
    BY URingAssumption DEF RemoteRingInv, UFull, UAfter, UCount
  <1> QED BY <1>1, QueueType

\* An empty ring is an empty queue.
LEMMA FifoInit == UInit => UFifo!Init
  <1> SUFFICES ASSUME UInit PROVE UFifo!Init OBVIOUS
  <1>1. UCount = 0 BY DEF UInit, UCount
  <1>2. UQueue = <<>> BY <1>1, RingInit, QueueType
  <1> QED BY <1>2, URingAssumption DEF UInit, UFifo!Init

\* Every step of the ring is a step of the queue or changes nothing in it.
LEMMA FifoNext ==
    RemoteRingInv /\ RemoteRingInv' /\ [UNext]_uVars => [UFifo!Next]_UFifo!fifoVars
  <1> SUFFICES ASSUME RemoteRingInv, RemoteRingInv', [UNext]_uVars
               PROVE  [UFifo!Next]_UFifo!fifoVars
    OBVIOUS
  <1>1. ASSUME NEW b \in UByte, UPush(b) PROVE [UFifo!Next]_UFifo!fifoVars
    <2>1. CASE UFull
      <3>1. UFifo!Refuse
        BY <1>1, <2>1, FullCount, QueueKept DEF UPush, UFifo!Refuse
      <3> QED BY <3>1 DEF UFifo!Next
    <2>2. CASE ~UFull
      <3>1. UFifo!Push(b)
        BY <1>1, <2>2, PushAppends DEF UPush, UFifo!Push
      <3> QED BY <3>1 DEF UFifo!Next
    <2> QED BY <2>1, <2>2
  <1>2. CASE UPopTest BY <1>2, QueueKept DEF UPopTest, UFifo!fifoVars
  <1>3. CASE UPopRead BY <1>3, QueueKept DEF UPopRead, UFifo!fifoVars
  <1>4. CASE UPopFree
    <2>1. UFifo!Pop BY <1>4, PopTakesHead DEF UPopFree, UFifo!Pop
    <2> QED BY <2>1 DEF UFifo!Next
  <1>5. CASE UNCHANGED uVars BY <1>5, QueueKept DEF uVars, UFifo!fifoVars
  <1> QED BY <1>1, <1>2, <1>3, <1>4, <1>5 DEF UNext

\* uart_rx_ring.c implements a FIFO of USize - 1 bytes: for every size, bytes come out
\* in the order of the interrupts, each once, and are refused only when it is full.
THEOREM RemoteRingRefines == USpec => RemoteRingIsFifo
  <1>1. USpec => UFifo!Init /\ [][UFifo!Next]_UFifo!fifoVars
    BY RingInvariance, FifoInit, FifoNext, PTL DEF USpec
  <1> QED BY <1>1 DEF RemoteRingIsFifo, UFifo!Spec

-----------------------------------------------------------------------------
(* The ring of the gateway: free-running indices and a mask.               *)

\* The constants, without the bytes.
LEMMA GNumbers ==
    /\ GCapacity \in Nat \ {0} /\ GWrap \in Nat \ {0} /\ GWrap > GCapacity
    /\ \E w \in Int : GWrap = w * GCapacity
  <1>1. GCapacity \in Nat \ {0} /\ GWrap \in Nat \ {0} /\ GWrap > GCapacity
    BY GRingAssumption
  <1>2. 0 \in 0..GCapacity - 1 /\ GWrap \in Int /\ GWrap % GCapacity = 0 BY <1>1, GRingAssumption
  <1>3. \E w \in Int : GWrap = w * GCapacity + 0 BY <1>1, <1>2, Quotient
  <1> QED BY <1>1, <1>3

\* The wrap of an index does not move its slot.
LEMMA SlotKept == ASSUME NEW n \in Int PROVE (n - GWrap) % GCapacity = n % GCapacity
  <1>1. PICK w \in Int : GWrap = w * GCapacity BY GNumbers
  <1> QED BY <1>1, GNumbers, ModTurns

\* The slot of an index is inside the ring.
LEMMA SlotType == ASSUME NEW n \in Int PROVE n % GCapacity \in 0..GCapacity - 1
  BY GNumbers

\* What the invariant says of the indices: their distance, and where it leads.
LEMMA GIndices ==
    ASSUME GatewayRingInv
    PROVE  /\ gHead \in 0..GWrap - 1 /\ gTail \in 0..GWrap - 1
           /\ GCount \in 0..GCapacity
           /\ GCount = IF gHead >= gTail THEN gHead - gTail ELSE gHead - gTail + GWrap
           /\ (gTail + GCount) % GCapacity = gHead % GCapacity
  <1>1. gHead \in 0..GWrap - 1 /\ gTail \in 0..GWrap - 1 /\ GCount <= GCapacity
    BY DEF GatewayRingInv
  <1>2. GCount = IF gHead >= gTail THEN gHead - gTail ELSE gHead - gTail + GWrap
    BY <1>1, GNumbers, ModDiff DEF GCount
  <1>3. GCount \in 0..GCapacity BY <1>1, <1>2, GNumbers
  <1>4. (gTail + GCount) % GCapacity = gHead % GCapacity
    <2>1. PICK n \in Int : n = gTail + GCount BY <1>1, <1>3, GNumbers
    <2>2. n = gHead \/ n - GWrap = gHead BY <1>1, <1>2, <2>1, GNumbers
    <2>3. (n - GWrap) % GCapacity = n % GCapacity BY SlotKept
    <2> QED BY <2>1, <2>2, <2>3
  <1> QED BY <1>1, <1>2, <1>3, <1>4

\* Storing a byte moves head by one, on from the last byte, ...
LEMMA GPushMoves ==
    ASSUME GatewayRingInv, NEW b \in GByte, GPush(b), ~GFull
    PROVE  /\ GCount < GCapacity /\ gTail' = gTail /\ gHead' \in 0..GWrap - 1
           /\ GCount' = GCount + 1 /\ gTail # gHead'
  <1>1. gHead' = (gHead + 1) % GWrap /\ gTail' = gTail BY DEF GPush
  <1>2. gHead' = IF gHead + 1 < GWrap THEN gHead + 1 ELSE gHead + 1 - GWrap
    BY <1>1, GIndices, GNumbers, ModNext
  <1>3. GCount < GCapacity BY GIndices, GNumbers DEF GFull
  <1>4. gHead' \in 0..GWrap - 1 BY <1>2, GIndices, GNumbers
  <1>5. PICK h \in 0..GWrap - 1 : h = gHead' BY <1>4
  <1>6. (h - gTail) % GWrap = IF h >= gTail THEN h - gTail ELSE h - gTail + GWrap
    BY GIndices, GNumbers, ModDiff
  <1>7. GCount' = IF h >= gTail THEN h - gTail ELSE h - gTail + GWrap
    BY <1>1, <1>5, <1>6 DEF GCount
  <1>8. GCount' = GCount + 1
    <2>1. /\ gHead \in 0..GWrap - 1 /\ gTail \in 0..GWrap - 1 /\ GWrap \in Nat
          /\ GCount = IF gHead >= gTail THEN gHead - gTail ELSE gHead - gTail + GWrap
      BY GIndices, GNumbers
    <2>2. GCount + 1 < GWrap BY <1>3, GIndices, GNumbers
    <2>3. CASE gHead + 1 < GWrap BY <1>2, <1>5, <1>7, <2>1, <2>2, <2>3
    <2>4. CASE gHead + 1 = GWrap
      <3>1. gHead >= gTail /\ GCount = gHead - gTail BY <2>1, <2>4
      <3>2. h = 0 BY <1>2, <1>5, <2>1, <2>4
      <3>3. gTail > 0 BY <2>1, <2>2, <2>4, <3>1
      <3>4. GCount' = 0 - gTail + GWrap BY <1>7, <2>1, <3>2, <3>3
      <3> QED BY <2>1, <2>4, <3>1, <3>4
    <2> QED BY <2>1, <2>3, <2>4
  <1>9. gTail # gHead' BY <1>5, <1>7, <1>8, GIndices, GNumbers
  <1> QED BY <1>1, <1>3, <1>4, <1>8, <1>9

\* ... releasing one moves tail by one, over the first byte.
LEMMA GPopMoves ==
    ASSUME GatewayRingInv, GPopFree
    PROVE  /\ GCount > 0 /\ gTail' \in 0..GWrap - 1
           /\ gTail' = IF gTail + 1 < GWrap THEN gTail + 1 ELSE gTail + 1 - GWrap
           /\ GCount' = GCount - 1
  <1>1. gTail' = (gTail + 1) % GWrap /\ gHead' = gHead /\ gTail # gHead
    BY DEF GPopFree, GatewayRingInv
  <1>2. gTail' = IF gTail + 1 < GWrap THEN gTail + 1 ELSE gTail + 1 - GWrap
    BY <1>1, GIndices, GNumbers, ModNext
  <1>3. GCount > 0 BY <1>1, GIndices, GNumbers
  <1>4. gTail' \in 0..GWrap - 1 BY <1>2, GIndices, GNumbers
  <1>5. PICK n \in 0..GWrap - 1 : n = gTail' BY <1>4
  <1>6. (gHead - n) % GWrap = IF gHead >= n THEN gHead - n ELSE gHead - n + GWrap
    BY GIndices, GNumbers, ModDiff
  <1>7. GCount' = IF gHead >= n THEN gHead - n ELSE gHead - n + GWrap
    BY <1>1, <1>5, <1>6 DEF GCount
  <1>8. GCount' = GCount - 1 BY <1>1, <1>2, <1>3, <1>5, <1>7, GIndices, GNumbers
  <1> QED BY <1>2, <1>3, <1>4, <1>8

\* The bytes in the ring are a sequence of GCount bytes, at most GCapacity.
LEMMA GQueueType ==
    ASSUME GatewayRingInv
    PROVE  /\ GQueue \in Seq(GByte) /\ Len(GQueue) = GCount
           /\ \A i \in 1..GCount : GQueue[i] = gRing[(gTail + i - 1) % GCapacity]
  <1>1. GCount \in Nat /\ gTail \in Int BY GIndices, GNumbers
  <1>2. ASSUME NEW i \in 1..GCount PROVE gRing[(gTail + i - 1) % GCapacity] \in GByte
    <2>1. PICK n \in Int : n = gTail + i - 1 BY <1>1
    <2>2. n % GCapacity \in 0..GCapacity - 1 BY SlotType
    <2> QED BY <2>1, <2>2 DEF GatewayRingInv
  <1>3. GQueue \in [1..GCount -> GByte] BY <1>2 DEF GQueue
  <1>4. GQueue \in Seq(GByte) /\ Len(GQueue) = GCount BY <1>1, <1>3
  <1> QED BY <1>4 DEF GQueue

\* A byte that is stored does not overwrite one in the ring.
LEMMA GFreeSlot ==
    ASSUME GatewayRingInv, ~GFull, NEW i \in 1..GCount
    PROVE  (gTail + i - 1) % GCapacity # gHead % GCapacity
  <1>1. GCount < GCapacity /\ gTail \in Int /\ GCount \in Nat
    BY GIndices, GNumbers DEF GFull
  <1>2. PICK n \in Int : n = gTail + i - 1 BY <1>1
  <1>3. PICK d \in 1..GCapacity - 1 : d = GCount - i + 1 BY <1>1, GNumbers
  <1>4. n + d = gTail + GCount BY <1>1, <1>2, <1>3
  <1>5. (n + d) % GCapacity # n % GCapacity BY GNumbers, ModDiffer
  <1> QED BY <1>2, <1>4, <1>5, GIndices

-----------------------------------------------------------------------------
(* The invariant of the gateway's ring, and the refinement.                *)

\* An empty ring satisfies it.
LEMMA GRingInit == GInit => GatewayRingInv
  <1> SUFFICES ASSUME GInit PROVE GatewayRingInv OBVIOUS
  <1>1. gHead \in 0..GWrap - 1 /\ gTail \in 0..GWrap - 1 BY GNumbers DEF GInit
  <1>2. (0 - 0) % GWrap = 0 BY GNumbers
  <1>3. GCount <= GCapacity BY <1>2, GNumbers DEF GInit, GCount
  <1> QED BY <1>1, <1>3, GRingAssumption DEF GInit, GatewayRingInv

\* The interrupt writes only a free slot, never the one a pop is reading.
LEMMA GRingNext == GatewayRingInv /\ [GNext]_gVars => GatewayRingInv'
  <1> SUFFICES ASSUME GatewayRingInv, [GNext]_gVars PROVE GatewayRingInv' OBVIOUS
  <1>1. ASSUME NEW b \in GByte, GPush(b), GFull PROVE GatewayRingInv'
    BY <1>1 DEF GPush, GatewayRingInv, GCount
  <1>2. ASSUME NEW b \in GByte, GPush(b), ~GFull PROVE GatewayRingInv'
    <2>1. /\ gRing' = [gRing EXCEPT ![gHead % GCapacity] = b]
          /\ UNCHANGED <<gOverflow, gTail, gPc, gTaken, gLast>>
      BY <1>2 DEF GPush
    <2>2. gHead % GCapacity \in 0..GCapacity - 1 /\ gTail % GCapacity \in 0..GCapacity - 1
      <3>1. gHead \in Int /\ gTail \in Int BY GIndices
      <3> QED BY <3>1, SlotType
    <2>3. gRing' \in [0..GCapacity - 1 -> GByte] BY <2>1, <2>2 DEF GatewayRingInv
    <2>4. /\ gHead' \in 0..GWrap - 1 /\ GCount' <= GCapacity /\ gTail' # gHead'
      BY <1>2, GPushMoves, GIndices, GNumbers
    <2>5. gPc = "free" => gRing'[gTail % GCapacity] = gRing[gTail % GCapacity]
      <3> SUFFICES ASSUME gPc = "free"
                   PROVE  gRing'[gTail % GCapacity] = gRing[gTail % GCapacity]
        OBVIOUS
      <3>1. gTail # gHead BY DEF GatewayRingInv
      <3>2. GCount \in Nat /\ GCount >= 1 BY <3>1, GIndices, GNumbers
      <3>3. 1 \in 1..GCount BY <3>2
      <3>4. (gTail + 1 - 1) % GCapacity # gHead % GCapacity BY <1>2, <3>3, GFreeSlot
      <3>5. gTail + 1 - 1 = gTail BY GIndices
      <3> QED BY <2>1, <2>2, <3>4, <3>5 DEF GatewayRingInv
    <2> QED BY <2>1, <2>3, <2>4, <2>5 DEF GatewayRingInv
  <1>3. CASE GPopTest BY <1>3 DEF GPopTest, GatewayRingInv, GCount
  <1>4. CASE GPopRead
    <2>1. gTail % GCapacity \in 0..GCapacity - 1 BY GIndices, GNumbers, SlotType
    <2>2. gTaken' \in GByte BY <1>4, <2>1 DEF GPopRead, GatewayRingInv
    <2> QED BY <1>4, <2>2 DEF GPopRead, GatewayRingInv, GCount
  <1>5. CASE GPopFree
    <2>1. gTail' \in 0..GWrap - 1 /\ GCount' <= GCapacity
      BY <1>5, GPopMoves, GIndices, GNumbers
    <2> QED BY <1>5, <2>1 DEF GPopFree, GatewayRingInv
  <1>6. CASE UNCHANGED gVars BY <1>6 DEF gVars, GatewayRingInv, GCount
  <1> QED BY <1>1, <1>2, <1>3, <1>4, <1>5, <1>6 DEF GNext

\* The indices of g_rs422_rx_ring never drift further apart than its capacity, and the
\* slot that a pop has read is not overwritten before it is released.
THEOREM GatewayRingInvariance == GSpec => []GatewayRingInv
  BY GRingInit, GRingNext, PTL DEF GSpec

\* A byte that is stored comes last.
LEMMA GPushAppends ==
    ASSUME GatewayRingInv, GatewayRingInv', NEW b \in GByte, GPush(b), ~GFull
    PROVE  Len(GQueue) < GCapacity /\ GQueue' = Append(GQueue, b)
  <1>1. /\ GCount < GCapacity /\ gTail' = gTail /\ GCount' = GCount + 1
    BY GPushMoves
  <1>2. gRing' = [gRing EXCEPT ![gHead % GCapacity] = b] BY DEF GPush
  <1>3. GCount \in Nat /\ gTail \in Int BY GIndices, GNumbers
  <1>4. /\ GQueue' \in Seq(GByte) /\ Len(GQueue') = GCount'
        /\ \A i \in 1..GCount' : GQueue'[i] = gRing'[(gTail + i - 1) % GCapacity]
    <2>1. GCount' \in Nat BY <1>1, <1>3
    <2>2. GQueue' = [i \in 1..GCount' |-> gRing'[(gTail + i - 1) % GCapacity]]
      BY <1>1 DEF GQueue
    <2>3. ASSUME NEW i \in 1..GCount' PROVE gRing'[(gTail + i - 1) % GCapacity] \in GByte
      <3>1. PICK n \in Int : n = gTail + i - 1 BY <1>3, <2>1
      <3>2. n % GCapacity \in 0..GCapacity - 1 BY SlotType
      <3>3. gRing' \in [0..GCapacity - 1 -> GByte] BY DEF GatewayRingInv
      <3> QED BY <3>1, <3>2, <3>3
    <2>4. GQueue' \in [1..GCount' -> GByte] BY <2>2, <2>3
    <2> QED BY <2>1, <2>2, <2>4
  <1>5. ASSUME NEW i \in 1..GCount PROVE GQueue'[i] = GQueue[i]
    <2>1. i \in 1..GCount' BY <1>1, <1>3
    <2>2. (gTail + i - 1) % GCapacity # gHead % GCapacity BY GFreeSlot
    <2>3. (gTail + i - 1) % GCapacity \in 0..GCapacity - 1
      <3>1. PICK n \in Int : n = gTail + i - 1 BY <1>3
      <3>2. n % GCapacity \in 0..GCapacity - 1 BY SlotType
      <3> QED BY <3>1, <3>2
    <2>4. gRing'[(gTail + i - 1) % GCapacity] = gRing[(gTail + i - 1) % GCapacity]
      BY <1>2, <2>2, <2>3 DEF GatewayRingInv
    <2> QED BY <1>4, <2>1, <2>4, GQueueType
  <1>6. GQueue'[GCount + 1] = b
    <2>1. GCount + 1 \in 1..GCount' BY <1>1, <1>3
    <2>2. gTail + (GCount + 1) - 1 = gTail + GCount BY <1>3
    <2>3. gHead % GCapacity \in 0..GCapacity - 1 BY GIndices, GNumbers, SlotType
    <2>4. gRing'[gHead % GCapacity] = b BY <1>2, <2>3 DEF GatewayRingInv
    <2> QED BY <1>4, <2>1, <2>2, <2>4, GIndices
  <1> QED BY <1>1, <1>3, <1>4, <1>5, <1>6, GQueueType, SameElements

\* The byte that is released was first, and no other byte moves.
LEMMA GPopTakesHead ==
    ASSUME GatewayRingInv, GatewayRingInv', GPopFree
    PROVE  GQueue # <<>> /\ gLast' = Head(GQueue) /\ GQueue' = Tail(GQueue)
  <1>1. /\ GCount > 0 /\ GCount' = GCount - 1 /\ gTail' \in 0..GWrap - 1
        /\ gTail' = IF gTail + 1 < GWrap THEN gTail + 1 ELSE gTail + 1 - GWrap
    BY GPopMoves
  <1>2. gRing' = gRing /\ gLast' = gRing[gTail % GCapacity]
    BY DEF GPopFree, GatewayRingInv
  <1>3. GCount \in Nat /\ gTail \in Int /\ GWrap \in Int /\ gTail' \in Int
    BY <1>1, GIndices, GNumbers
  <1>4. GQueue[1] = gRing[gTail % GCapacity]
    <2>1. 1 \in 1..GCount /\ gTail + 1 - 1 = gTail BY <1>1, <1>3
    <2> QED BY <2>1, GQueueType
  <1>5. ASSUME NEW i \in Int
        PROVE  (gTail' + i - 1) % GCapacity = (gTail + (i + 1) - 1) % GCapacity
    <2>1. PICK n \in Int : n = gTail + (i + 1) - 1 BY <1>3
    <2>2. gTail' + i - 1 = n \/ gTail' + i - 1 = n - GWrap BY <1>1, <1>3, <2>1
    <2>3. (n - GWrap) % GCapacity = n % GCapacity BY SlotKept
    <2> QED BY <2>1, <2>2, <2>3
  <1>6. /\ GQueue' \in Seq(GByte) /\ Len(GQueue') = GCount'
        /\ \A i \in 1..GCount' : GQueue'[i] = gRing'[(gTail' + i - 1) % GCapacity]
    <2>1. GCount' \in Nat BY <1>1, <1>3
    <2>2. GQueue' = [i \in 1..GCount' |-> gRing'[(gTail' + i - 1) % GCapacity]]
      BY DEF GQueue
    <2>3. ASSUME NEW i \in 1..GCount' PROVE gRing'[(gTail' + i - 1) % GCapacity] \in GByte
      <3>0. i \in Int BY <2>1
      <3>1. PICK n \in Int : n = gTail' + i - 1
        <4>1. gTail' + i - 1 \in Int BY <1>3, <3>0
        <4> QED BY <4>1
      <3>2. n % GCapacity \in 0..GCapacity - 1 BY SlotType
      <3>3. gRing' \in [0..GCapacity - 1 -> GByte] BY DEF GatewayRingInv
      <3> QED BY <3>1, <3>2, <3>3
    <2>4. GQueue' \in [1..GCount' -> GByte] BY <2>2, <2>3
    <2> QED BY <2>1, <2>2, <2>4
  <1>7. Tail(GQueue) \in Seq(GByte) /\ Len(Tail(GQueue)) = GCount'
    BY <1>1, <1>3, GQueueType
  <1>8. ASSUME NEW i \in 1..GCount' PROVE GQueue'[i] = Tail(GQueue)[i]
    <2>1. i \in Int /\ i + 1 \in 1..GCount BY <1>1, <1>3
    <2>2. GQueue'[i] = gRing[(gTail + (i + 1) - 1) % GCapacity] BY <1>2, <1>5, <1>6, <2>1
    <2>3. GQueue[i + 1] = gRing[(gTail + (i + 1) - 1) % GCapacity] BY <2>1, GQueueType
    <2>4. Tail(GQueue)[i] = GQueue[i + 1] BY <1>1, <1>3, <1>7, GQueueType
    <2> QED BY <2>2, <2>3, <2>4
  <1>9. GQueue' = Tail(GQueue) BY <1>6, <1>7, <1>8, SameElements
  <1>10. GQueue # <<>> /\ Head(GQueue) = GQueue[1] BY <1>1, <1>3, GQueueType
  <1> QED BY <1>2, <1>4, <1>9, <1>10

\* What only reads the ring leaves its bytes as they are.
LEMMA GQueueKept == ASSUME UNCHANGED <<gRing, gHead, gTail>> PROVE GQueue' = GQueue
  BY DEF GQueue, GCount

\* An empty ring is an empty queue.
LEMMA GFifoInit == GInit => GFifo!Init
  <1> SUFFICES ASSUME GInit PROVE GFifo!Init OBVIOUS
  <1>1. (0 - 0) % GWrap = 0 BY GNumbers
  <1>2. GCount = 0 BY <1>1 DEF GInit, GCount
  <1>3. GQueue = <<>> BY <1>2, GRingInit, GQueueType
  <1> QED BY <1>3, GRingAssumption DEF GInit, GFifo!Init

\* Every step of the ring is a step of the queue or changes nothing in it.
LEMMA GFifoNext ==
    GatewayRingInv /\ GatewayRingInv' /\ [GNext]_gVars => [GFifo!Next]_GFifo!fifoVars
  <1> SUFFICES ASSUME GatewayRingInv, GatewayRingInv', [GNext]_gVars
               PROVE  [GFifo!Next]_GFifo!fifoVars
    OBVIOUS
  <1>1. ASSUME NEW b \in GByte, GPush(b) PROVE [GFifo!Next]_GFifo!fifoVars
    <2>1. CASE GFull
      <3>1. Len(GQueue) = GCapacity BY <2>1, GQueueType, GIndices, GNumbers DEF GFull
      <3>2. GFifo!Refuse BY <1>1, <2>1, <3>1, GQueueKept DEF GPush, GFifo!Refuse
      <3> QED BY <3>2 DEF GFifo!Next
    <2>2. CASE ~GFull
      <3>1. GFifo!Push(b) BY <1>1, <2>2, GPushAppends DEF GPush, GFifo!Push
      <3> QED BY <3>1 DEF GFifo!Next
    <2> QED BY <2>1, <2>2
  <1>2. CASE GPopTest BY <1>2, GQueueKept DEF GPopTest, GFifo!fifoVars
  <1>3. CASE GPopRead BY <1>3, GQueueKept DEF GPopRead, GFifo!fifoVars
  <1>4. CASE GPopFree
    <2>1. GFifo!Pop BY <1>4, GPopTakesHead DEF GPopFree, GFifo!Pop
    <2> QED BY <2>1 DEF GFifo!Next
  <1>5. CASE UNCHANGED gVars BY <1>5, GQueueKept DEF gVars, GFifo!fifoVars
  <1> QED BY <1>1, <1>2, <1>3, <1>4, <1>5 DEF GNext

\* g_rs422_rx_ring implements a FIFO of GCapacity bytes, for every capacity that divides
\* the range of its indices: the mask finds the same slot on both sides of the wrap.
THEOREM GatewayRingRefines == GSpec => GatewayRingIsFifo
  <1>1. GSpec => GFifo!Init /\ [][GFifo!Next]_GFifo!fifoVars
    BY GatewayRingInvariance, GFifoInit, GFifoNext, PTL DEF GSpec
  <1> QED BY <1>1 DEF GatewayRingIsFifo, GFifo!Spec
-----------------------------------------------------------------------------
(* The receive buffer of a socket.                                         *)

\* What the constants and the types say about the numbers.
LEMMA RxNumbers ==
    ASSUME Rx!RxAssumption, Rx!RxInv
    PROVE  /\ Size \in Nat \ {0} /\ Mod \in Nat \ {0} /\ Size < Mod /\ Mod % Size = 0
           /\ Chunk \in Nat \ {0} /\ MaxBytes \in Nat /\ MaxPolls \in Nat
           /\ Len(parsed) \in Nat /\ len \in Nat /\ arrived \in Nat /\ arrived <= MaxBytes
           /\ Rx!Released \in Nat /\ Rx!Told \in Nat
           /\ rxWr \in 0..Mod - 1 /\ rxRd \in 0..Mod - 1 /\ taken \in 0..Mod - 1
           /\ rptr \in 0..Mod - 1
  <1>1. /\ Size \in Nat \ {0} /\ Mod \in Nat \ {0} /\ Size < Mod /\ Mod % Size = 0
        /\ Chunk \in Nat \ {0} /\ MaxBytes \in Nat /\ MaxPolls \in Nat
    BY DEF Rx!RxAssumption
  <1>2. Len(parsed) \in Nat /\ len \in Nat /\ arrived \in Nat /\ arrived <= MaxBytes
    BY <1>1 DEF Rx!RxInv, Rx!TypeOK
  <1>3. Rx!Released \in Nat /\ Rx!Told \in Nat BY <1>2 DEF Rx!Released, Rx!Told
  <1>4. rxWr \in 0..Mod - 1 /\ rxRd \in 0..Mod - 1 /\ taken \in 0..Mod - 1 /\ rptr \in 0..Mod - 1
    BY DEF Rx!RxInv, Rx!TypeOK
  <1> QED BY <1>1, <1>2, <1>3, <1>4

\* The pointers w and t of a buffer of S cells that holds the bytes m + 1 to a.
Holds(S, M, a, m, w, t) ==
    /\ S < M /\ M % S = 0 /\ m <= a /\ a - m <= S /\ w = a % M /\ t = m % M

\* Two pointers are d bytes apart.
Apart(M, w, t, d) == (w - t) % M = d

\* Their distance is the number of these bytes.
LEMMA BytesHeld ==
    ASSUME NEW S \in Nat \ {0}, NEW M \in Nat \ {0}, NEW a \in Nat, NEW m \in Nat,
           NEW w \in 0..M - 1, NEW t \in 0..M - 1, Holds(S, M, a, m, w, t)
    PROVE  Apart(M, w, t, a - m)
  <1>1. PICK d \in 0..M - 1 : d = a - m BY DEF Holds
  <1>2. PICK l \in Int : l = m OBVIOUS
  <1>3. l + d = a BY <1>1, <1>2
  <1>4. l % M = t /\ (l + d) % M = w BY <1>2, <1>3 DEF Holds
  <1>5. (l + d) % M = IF t + d < M THEN t + d ELSE t + d - M BY <1>4, ModAdd
  <1>6. (w - t) % M = IF w >= t THEN w - t ELSE w - t + M BY ModDiff
  <1> QED BY <1>1, <1>4, <1>5, <1>6 DEF Apart

\* What it means that there is room for another byte.
HasRoom(S, M, a, m, w) ==
    /\ a - m < S /\ (w + 1) % M = (a + 1) % M /\ ((a - m) + 1) % M = a - m + 1
    /\ w % S = a % S
    /\ \A n \in m + 1..a : (n - 1) % S # a % S

\* And that the peer finds it from the pointers.
LEMMA RoomFound ==
    ASSUME NEW S \in Nat \ {0}, NEW M \in Nat \ {0}, NEW a \in Nat, NEW m \in Nat,
           NEW w \in 0..M - 1, NEW t \in 0..M - 1, Holds(S, M, a, m, w, t), (w - t) % M < S
    PROVE  HasRoom(S, M, a, m, w)
  <1>1. a - m < S BY BytesHeld DEF Apart
  <1>2. S < M /\ M % S = 0 /\ m <= a /\ w = a % M BY DEF Holds
  <1>3. PICK l \in Int : l = a OBVIOUS
  <1>4. l % M = w BY <1>2, <1>3
  <1>5. (w + 1) % M = (a + 1) % M
    <2>1. PICK e \in Int : e = 1 OBVIOUS
    <2>2. (w + e) % M = (l + e) % M BY <1>4, ModShift
    <2> QED BY <1>3, <2>1, <2>2
  <1>6. ((a - m) + 1) % M = a - m + 1
    <2>1. PICK e \in 0..M - 1 : e = a - m + 1 BY <1>1, <1>2
    <2>2. e % M = e BY ModSmall
    <2> QED BY <2>1, <2>2
  <1>7. w % S = a % S
    <2>1. (l % M) % S = l % S BY <1>2, ModNested
    <2> QED BY <1>3, <1>4, <2>1
  <1>8. ASSUME NEW n \in m + 1..a PROVE (n - 1) % S # a % S
    <2>1. PICK k \in Int : k = n - 1 OBVIOUS
    <2>2. PICK e \in 1..S - 1 : e = a - k BY <1>1, <2>1
    <2>3. (k + e) % S # k % S BY ModDiffer
    <2>4. k + e = a BY <2>1, <2>2
    <2> QED BY <2>1, <2>3, <2>4
  <1> QED BY <1>1, <1>5, <1>6, <1>7, <1>8, Zenon DEF HasRoom

\* At first the socket is empty.
LEMMA RxInit == ASSUME Rx!RxAssumption, Rx!Init PROVE Rx!RxInv
  <1>1. /\ Size \in Nat \ {0} /\ Mod \in Nat \ {0} /\ Size < Mod
        /\ Chunk \in Nat \ {0} /\ MaxBytes \in Nat /\ MaxPolls \in Nat /\ RxFaults \in Nat
    BY DEF Rx!RxAssumption
  <1>2. 0 % Mod = 0 /\ 0 \in 0..Mod - 1 BY <1>1
  <1>3. Len(parsed) = 0 /\ Rx!Told = 0 /\ Rx!Released = 0
    BY DEF Rx!Init, Rx!Told, Rx!Released
  <1>4. Rx!TypeOK
    <2>1. rMem \in [0..Size - 1 -> 0..MaxBytes] BY <1>1 DEF Rx!Init
    <2>2. rCr \in BOOLEAN BY Zenon DEF Rx!Init
    <2> QED BY <1>1, <1>2, <2>1, <2>2 DEF Rx!Init, Rx!TypeOK, Rx!Points
  <1>5. Rx!PointerInv BY <1>1, <1>2, <1>3 DEF Rx!Init, Rx!PointerInv
  <1>6. Rx!ContentInv BY <1>3 DEF Rx!Init, Rx!ContentInv
  <1> QED BY <1>4, <1>5, <1>6 DEF Rx!RxInv

\* A byte arrives: the cell it takes holds nothing that is still to be read.
LEMMA RxArrive == ASSUME Rx!RxAssumption, Rx!RxInv, Rx!Arrive PROVE Rx!RxInv'
  <1>1. Rx!TypeOK /\ Rx!PointerInv /\ Rx!ContentInv BY DEF Rx!RxInv
  <1>2. PICK m \in Nat : m = Rx!Released BY RxNumbers
  <1>3. PICK a \in Nat : a = arrived BY RxNumbers
  <1>4. /\ rxWr = a % Mod /\ taken = m % Mod /\ m <= a /\ a - m <= Size /\ rsr = a - m
    BY <1>1, <1>2, <1>3 DEF Rx!PointerInv
  <1>5. /\ a < MaxBytes /\ (rxWr - taken) % Mod < Size
        /\ rMem' = [rMem EXCEPT ![rxWr % Size] = a + 1]
        /\ rxWr' = (rxWr + 1) % Mod /\ rsr' = (rsr + 1) % Mod /\ arrived' = a + 1
        /\ UNCHANGED <<rxRd, taken, rCr, rPc, rPolls, len, rptr, buf, rNf, parsed>>
    BY <1>3 DEF Rx!Arrive
  <1>6. Rx!Released' = m /\ Rx!Told' = Rx!Told BY <1>2, <1>5, Zenon DEF Rx!Released, Rx!Told
  <1>7. /\ Size \in Nat \ {0} /\ Mod \in Nat \ {0} /\ Size < Mod /\ Mod % Size = 0
        /\ rxWr \in 0..Mod - 1 /\ taken \in 0..Mod - 1 /\ MaxBytes \in Nat
    BY RxNumbers
  <1>8. /\ a - m < Size /\ (rxWr + 1) % Mod = (a + 1) % Mod /\ ((a - m) + 1) % Mod = a - m + 1
        /\ rxWr % Size = a % Size
        /\ \A n \in m + 1..a : (n - 1) % Size # a % Size
    <2>1. Holds(Size, Mod, a, m, rxWr, taken) BY <1>4, <1>7, Zenon DEF Holds
    <2>2. HasRoom(Size, Mod, a, m, rxWr) BY <1>5, <1>7, <2>1, RoomFound, Zenon
    <2> QED BY <2>2, Zenon DEF HasRoom
  <1>9. PICK c \in 0..Size - 1 : c = a % Size BY <1>7
  <1>10. rMem' = [rMem EXCEPT ![c] = a + 1] BY <1>5, <1>8, <1>9, Zenon
  <1>11. rMem \in [0..Size - 1 -> 0..MaxBytes] BY <1>1 DEF Rx!TypeOK
  <1>12. ASSUME NEW n \in m + 1..a + 1 PROVE rMem'[(n - 1) % Size] = n
    <2>1. PICK x \in 0..Size - 1 : x = (n - 1) % Size BY <1>7
    <2>2. CASE n = a + 1
      <3>1. x = c BY <1>9, <2>1, <2>2
      <3> QED BY <1>10, <1>11, <2>1, <2>2, <3>1
    <2>3. CASE n \in m + 1..a
      <3>1. x # c BY <1>8, <1>9, <2>1, <2>3, Zenon
      <3>2. rMem[x] = n BY <1>1, <1>2, <1>3, <2>1, <2>3, Zenon DEF Rx!ContentInv
      <3>3. rMem'[x] = rMem[x] BY <1>10, <1>11, <3>1
      <3> QED BY <2>1, <3>2, <3>3
    <2> QED BY <2>2, <2>3
  <1>13. Rx!TypeOK'
    <2>1. arrived' \in 0..MaxBytes BY <1>5, <1>7
    <2>2. a + 1 \in 0..MaxBytes BY <1>5, <1>7
    <2>3. rMem' \in [0..Size - 1 -> 0..MaxBytes] BY <1>10, <1>11, <2>2
    <2>4. rxWr' \in 0..Mod - 1 /\ rsr' \in 0..Mod - 1 BY <1>4, <1>5, <1>7, <1>8
    <2> QED BY <1>1, <1>5, <2>1, <2>3, <2>4 DEF Rx!TypeOK
  <1>14. Rx!PointerInv'
    <2>1. rxWr' = arrived' % Mod BY <1>5, <1>8, Zenon
    <2>2. rxRd' = Rx!Told' % Mod BY <1>1, <1>5, <1>6, Zenon DEF Rx!PointerInv
    <2>3. taken' = Rx!Released' % Mod BY <1>4, <1>5, <1>6, Zenon
    <2>4. rsr' = arrived' - Rx!Released' BY <1>4, <1>5, <1>6, <1>8
    <2>5. Rx!Released' <= arrived' /\ arrived' - Rx!Released' <= Size BY <1>4, <1>5, <1>6, <1>7, <1>8
    <2>6. (rCr => rPc = "crwait")' BY <1>1, <1>5, Zenon DEF Rx!PointerInv
    <2>7. (rPc # "idle" => Len(parsed) + len <= arrived)'
      <3>1. rPc # "idle" => Len(parsed) + len <= a BY <1>1, <1>3 DEF Rx!PointerInv
      <3>2. Len(parsed) \in Nat /\ len \in Nat BY RxNumbers
      <3> QED BY <1>5, <3>1, <3>2
    <2>8. (rPc \in {"buf", "wrrd", "cmd", "crwait"} => rptr = Len(parsed) % Mod)'
      BY <1>1, <1>5, Zenon DEF Rx!PointerInv
    <2> QED BY <2>1, <2>2, <2>3, <2>4, <2>5, <2>6, <2>7, <2>8, Zenon DEF Rx!PointerInv
  <1>15. Rx!ContentInv'
    <2>1. (\A n \in Rx!Released + 1..arrived : rMem[(n - 1) % Size] = n)'
      BY <1>5, <1>6, <1>12, Zenon
    <2> QED BY <1>1, <1>5, <2>1, Zenon DEF Rx!ContentInv
  <1> QED BY <1>13, <1>14, <1>15 DEF Rx!RxInv

\* RECV: what lies between the two pointers is what has not been told.
LEMMA RxRecv == ASSUME Rx!RxAssumption, Rx!RxInv, Rx!ChipRecv PROVE Rx!RxInv'
  <1>1. Rx!TypeOK /\ Rx!PointerInv /\ Rx!ContentInv BY DEF Rx!RxInv
  <1>2. /\ rCr /\ rCr' = FALSE /\ taken' = rxRd /\ rsr' = (rxWr - rxRd) % Mod
        /\ UNCHANGED <<rMem, rxWr, rxRd, arrived, rPc, rPolls, len, rptr, buf, rNf, parsed>>
    BY DEF Rx!ChipRecv
  <1>3. rPc = "crwait" BY <1>1, <1>2 DEF Rx!PointerInv
  <1>4. /\ Size \in Nat \ {0} /\ Mod \in Nat \ {0} /\ Size < Mod /\ Mod % Size = 0
        /\ rxWr \in 0..Mod - 1 /\ rxRd \in 0..Mod - 1 /\ Len(parsed) \in Nat /\ len \in Nat
    BY RxNumbers
  <1>5. PICK m \in Nat : m = Len(parsed) + len BY <1>4
  <1>6. PICK a \in Nat : a = arrived BY RxNumbers
  <1>7. Rx!Released = Len(parsed) /\ Rx!Told = m BY <1>2, <1>3, <1>5 DEF Rx!Released, Rx!Told
  <1>8. Rx!Released' = m /\ Rx!Told' = m BY <1>2, <1>3, <1>5 DEF Rx!Released, Rx!Told
  <1>9. m <= a /\ a - m <= Size BY <1>1, <1>3, <1>4, <1>5, <1>6, <1>7 DEF Rx!PointerInv
  <1>10. rsr' = a - m
    <2>1. rxWr = a % Mod /\ rxRd = m % Mod BY <1>1, <1>6, <1>7, Zenon DEF Rx!PointerInv
    <2>2. Holds(Size, Mod, a, m, rxWr, rxRd) BY <1>4, <1>9, <2>1, Zenon DEF Holds
    <2>3. Apart(Mod, rxWr, rxRd, a - m) BY <1>4, <2>2, BytesHeld, Zenon
    <2> QED BY <1>2, <2>3 DEF Apart
  <1>11. Rx!TypeOK'
    <2>1. taken' \in 0..Mod - 1 /\ rsr' \in 0..Mod - 1 BY <1>2, <1>4, <1>9, <1>10
    <2>2. rCr' \in BOOLEAN BY <1>2, Zenon
    <2> QED BY <1>1, <1>2, <2>1, <2>2 DEF Rx!TypeOK
  <1>12. Rx!PointerInv'
    <2>1. rxWr' = arrived' % Mod BY <1>1, <1>2, Zenon DEF Rx!PointerInv
    <2>2. rxRd' = Rx!Told' % Mod BY <1>1, <1>2, <1>7, <1>8, Zenon DEF Rx!PointerInv
    <2>3. taken' = Rx!Released' % Mod BY <1>2, <1>8, <2>2, Zenon
    <2>4. Rx!Released' <= arrived' /\ arrived' - Rx!Released' <= Size /\ rsr' = arrived' - Rx!Released'
      BY <1>2, <1>6, <1>8, <1>9, <1>10
    <2>5. (rCr => rPc = "crwait")' BY <1>2, Zenon
    <2>6. (rPc # "idle" => Len(parsed) + len <= arrived)' BY <1>1, <1>2, Zenon DEF Rx!PointerInv
    <2>7. (rPc \in {"buf", "wrrd", "cmd", "crwait"} => rptr = Len(parsed) % Mod)'
      BY <1>1, <1>2, Zenon DEF Rx!PointerInv
    <2> QED BY <2>1, <2>2, <2>3, <2>4, <2>5, <2>6, <2>7, Zenon DEF Rx!PointerInv
  <1>13. Rx!ContentInv'
    <2>1. ASSUME NEW n \in m + 1..a PROVE rMem[(n - 1) % Size] = n
      <3>1. n \in Rx!Released + 1..arrived BY <1>4, <1>5, <1>6, <1>7
      <3> QED BY <1>1, <3>1, Zenon DEF Rx!ContentInv
    <2>2. (\A n \in Rx!Released + 1..arrived : rMem[(n - 1) % Size] = n)'
      BY <1>2, <1>6, <1>8, <2>1, Zenon
    <2> QED BY <1>1, <1>2, <2>2, Zenon DEF Rx!ContentInv
  <1> QED BY <1>11, <1>12, <1>13 DEF Rx!RxInv

\* The chip and the history do not move, and the driver tells the chip nothing new.
LEMMA RxKept ==
    ASSUME Rx!RxInv, UNCHANGED Rx!chipVars, parsed' = parsed,
           Rx!Told' = Rx!Told, Rx!Released' = Rx!Released, rCr => rPc' = "crwait",
           rPc' \in Rx!Points, rPolls' \in 0..MaxPolls, len' \in 0..Chunk, rptr' \in 0..Mod - 1,
           buf' \in Seq(0..MaxBytes), rNf' \in 0..RxFaults,
           rPc' # "idle" => Len(parsed) + len' <= arrived,
           rPc' \in {"buf", "wrrd", "cmd", "crwait"} => rptr' = Len(parsed) % Mod,
           rPc' \in {"wrrd", "cmd", "crwait"} =>
              Len(buf') = len' /\ \A k \in 1..len' : buf'[k] = Len(parsed) + k
    PROVE  Rx!RxInv'
  <1>1. Rx!TypeOK /\ Rx!PointerInv /\ Rx!ContentInv BY DEF Rx!RxInv
  <1>2. UNCHANGED <<rMem, rxWr, rxRd, taken, rsr, rCr, arrived>> BY DEF Rx!chipVars
  <1>3. Rx!TypeOK'
    <2>1. rCr' \in BOOLEAN BY <1>1, <1>2, Zenon DEF Rx!TypeOK
    <2> QED BY <1>1, <1>2, <2>1 DEF Rx!TypeOK
  <1>4. Rx!PointerInv' BY <1>1, <1>2, Zenon DEF Rx!PointerInv
  <1>5. Rx!ContentInv' BY <1>1, <1>2, Zenon DEF Rx!ContentInv
  <1> QED BY <1>3, <1>4, <1>5 DEF Rx!RxInv

\* What the types say of the driver's own variables.
LEMMA RxDriver ==
    ASSUME Rx!RxAssumption, Rx!RxInv
    PROVE  /\ rPc \in Rx!Points /\ rPolls \in 0..MaxPolls /\ len \in 0..Chunk
           /\ rptr \in 0..Mod - 1 /\ buf \in Seq(0..MaxBytes) /\ rNf \in 0..RxFaults
           /\ parsed \in Seq(0..MaxBytes) /\ RxFaults \in Nat
           /\ rCr => rPc = "crwait"
  BY DEF Rx!RxAssumption, Rx!RxInv, Rx!TypeOK, Rx!PointerInv

\* A read that fails leaves the byte where it is: it is made again.
LEMMA RxFail ==
    ASSUME Rx!RxAssumption, Rx!RxInv, UNCHANGED Rx!chipVars, rPc \in {"idle", "rd", "buf"},
           NEW k, Rx!Fail(k), Rx!Return
    PROVE  Rx!RxInv'
  <1>1. rPc' = "idle" /\ UNCHANGED <<rPolls, len, rptr, buf, parsed>> BY DEF Rx!Return
  <1>2. rNf' \in 0..RxFaults BY RxDriver DEF Rx!Fail
  <1>3. Rx!Told' = Rx!Told /\ Rx!Released' = Rx!Released
    BY <1>1 DEF Rx!Told, Rx!Released, Rx!chipVars
  <1>4. ~rCr BY RxDriver
  <1>5. rPc' \in Rx!Points BY <1>1 DEF Rx!Points
  <1>6. /\ rPolls' \in 0..MaxPolls /\ len' \in 0..Chunk /\ rptr' \in 0..Mod - 1
        /\ buf' \in Seq(0..MaxBytes)
    BY <1>1, RxDriver, Zenon
  <1> QED BY <1>1, <1>2, <1>3, <1>4, <1>5, <1>6, RxKept, Zenon

\* RX_RSR: what it says is there.
LEMMA RxReadSize == ASSUME Rx!RxAssumption, Rx!RxInv, Rx!ReadSize PROVE Rx!RxInv'
  <1>1. rPc = "idle" /\ UNCHANGED Rx!chipVars BY DEF Rx!ReadSize
  <1>2. CASE Rx!Fail("size") /\ Rx!Return BY <1>1, <1>2, RxFail
  <1>3. CASE /\ ~Rx!NothingReceived(rsr) /\ len' = Rx!ReadLength(rsr) /\ rPc' = "rd"
             /\ UNCHANGED <<rPolls, rptr, buf, rNf, parsed>>
    <2>1. Rx!Told' = Rx!Told /\ Rx!Released' = Rx!Released /\ Rx!Released = Len(parsed)
      BY <1>1, <1>3, RxNumbers DEF Rx!Told, Rx!Released, Rx!chipVars
    <2>2. rsr = arrived - Len(parsed) /\ Len(parsed) <= arrived
      BY <2>1 DEF Rx!RxInv, Rx!PointerInv
    <2>3. Len(parsed) \in Nat /\ arrived \in Nat /\ Chunk \in Nat BY RxNumbers
    <2>4. len' \in 0..Chunk /\ len' <= rsr
      BY <1>3, <2>2, <2>3 DEF Rx!ReadLength, Rx!Least
    <2>5. Len(parsed) + len' <= arrived BY <2>2, <2>3, <2>4
    <2>6. ~rCr BY <1>1, RxDriver
    <2>7. rPc' \in Rx!Points /\ rPc' \notin {"buf", "wrrd", "cmd", "crwait"} BY <1>3 DEF Rx!Points
    <2>8. /\ rPolls' \in 0..MaxPolls /\ rptr' \in 0..Mod - 1
          /\ buf' \in Seq(0..MaxBytes) /\ rNf' \in 0..RxFaults /\ parsed' = parsed
      BY <1>3, RxDriver, Zenon
    <2> QED BY <1>1, <2>1, <2>4, <2>5, <2>6, <2>7, <2>8, RxKept, Zenon
  <1> QED BY <1>2, <1>3 DEF Rx!ReadSize

\* RX_RD: it has not been moved since the last byte was parsed.
LEMMA RxReadRd == ASSUME Rx!RxAssumption, Rx!RxInv, Rx!ReadRd PROVE Rx!RxInv'
  <1>1. rPc = "rd" /\ UNCHANGED Rx!chipVars BY DEF Rx!ReadRd
  <1>2. CASE Rx!Fail("rd") /\ Rx!Return BY <1>1, <1>2, RxFail
  <1>3. CASE rptr' = rxRd /\ rPc' = "buf" /\ UNCHANGED <<rPolls, len, buf, rNf, parsed>>
    <2>1. /\ Rx!Told' = Rx!Told /\ Rx!Released' = Rx!Released /\ Rx!Told = Len(parsed)
      BY <1>1, <1>3, RxNumbers DEF Rx!Told, Rx!Released, Rx!chipVars
    <2>2. rptr' = Len(parsed) % Mod BY <1>3, <2>1, Zenon DEF Rx!RxInv, Rx!PointerInv
    <2>3. Len(parsed) + len' <= arrived BY <1>1, <1>3 DEF Rx!RxInv, Rx!PointerInv
    <2>4. ~rCr BY <1>1, RxDriver
    <2>5. rPc' \in Rx!Points /\ rPc' \notin {"wrrd", "cmd", "crwait"} BY <1>3 DEF Rx!Points
    <2>6. /\ rPolls' \in 0..MaxPolls /\ len' \in 0..Chunk
          /\ buf' \in Seq(0..MaxBytes) /\ rNf' \in 0..RxFaults /\ parsed' = parsed
      BY <1>3, RxDriver, Zenon
    <2>7. rptr' \in 0..Mod - 1 BY <1>3, RxNumbers
    <2> QED BY <1>1, <2>1, <2>2, <2>3, <2>4, <2>5, <2>6, <2>7, RxKept, Zenon
  <1> QED BY <1>2, <1>3 DEF Rx!ReadRd

\* The buffer: the bytes after the last one parsed, across the end of the buffer and the
\* wrap of the pointer.
LEMMA RxReadBuffer == ASSUME Rx!RxAssumption, Rx!RxInv, Rx!ReadRxBuffer PROVE Rx!RxInv'
  <1>1. rPc = "buf" /\ UNCHANGED Rx!chipVars BY DEF Rx!ReadRxBuffer
  <1>2. CASE Rx!Fail("buf") /\ Rx!Return BY <1>1, <1>2, RxFail
  <1>3. CASE /\ buf' = [k \in 1..len |-> rMem[((rptr + k - 1) % Mod) % Size]]
             /\ rPc' = "wrrd" /\ UNCHANGED <<rPolls, len, rptr, rNf, parsed>>
    <2>1. PICK p \in Int : p = Len(parsed) BY RxNumbers
    <2>2. /\ Rx!Told' = Rx!Told /\ Rx!Released' = Rx!Released /\ Rx!Released = p
      BY <1>1, <1>3, <2>1, RxNumbers DEF Rx!Told, Rx!Released, Rx!chipVars
    <2>3. rptr = p % Mod /\ p + len <= arrived /\ Rx!ContentInv
      BY <1>1, <2>1 DEF Rx!RxInv, Rx!PointerInv
    <2>4. /\ Size \in Nat \ {0} /\ Mod \in Nat \ {0} /\ Mod % Size = 0
          /\ len \in Nat /\ arrived \in Nat /\ rptr \in 0..Mod - 1 /\ p \in Nat
          /\ arrived <= MaxBytes /\ MaxBytes \in Nat
      BY <2>1, RxNumbers
    <2>5. ASSUME NEW k \in 1..len PROVE rMem[((rptr + k - 1) % Mod) % Size] = p + k
      <3>1. PICK d \in Int : d = k - 1 OBVIOUS
      <3>2. p % Mod = rptr BY <2>3
      <3>3. ((rptr + d) % Mod) % Size = (p + d) % Size
        <4>1. (rptr + d) % Mod = (p + d) % Mod BY <2>4, <3>2, ModShift, Zenon
        <4>2. PICK l \in Int : l = p + d OBVIOUS
        <4>3. (l % Mod) % Size = l % Size BY <2>4, ModNested
        <4> QED BY <4>1, <4>2, <4>3, Zenon
      <3>4. PICK n \in Int : n = p + k OBVIOUS
      <3>5. rptr + k - 1 = rptr + d /\ p + d = n - 1 BY <2>4, <3>1, <3>4
      <3>6. n \in Rx!Released + 1..arrived BY <2>2, <2>3, <2>4, <3>4
      <3>7. rMem[(n - 1) % Size] = n BY <2>3, <3>6, Zenon DEF Rx!ContentInv
      <3> QED BY <3>3, <3>4, <3>5, <3>7, Zenon
    <2>6. buf' = [k \in 1..len |-> p + k] BY <1>3, <2>5, Zenon
    <2>7. \A k \in 1..len : p + k \in 0..MaxBytes BY <2>3, <2>4
    <2>8. buf' \in Seq(0..MaxBytes) /\ Len(buf') = len /\ \A k \in 1..len : buf'[k] = p + k
      BY <2>4, <2>6, <2>7
    <2>9. ~rCr BY <1>1, RxDriver
    <2>10. rPc' \in Rx!Points BY <1>3 DEF Rx!Points
    <2>11. /\ rPolls' \in 0..MaxPolls /\ len' \in 0..Chunk /\ rptr' \in 0..Mod - 1
           /\ rNf' \in 0..RxFaults /\ parsed' = parsed /\ len' = len /\ rptr' = rptr
      BY <1>3, RxDriver, Zenon
    <2> QED BY <1>1, <2>1, <2>2, <2>3, <2>8, <2>9, <2>10, <2>11, RxKept, Zenon
  <1> QED BY <1>2, <1>3 DEF Rx!ReadRxBuffer

\* The write of RX_RD: the pointer goes on by the bytes read.
LEMMA RxWriteRd == ASSUME Rx!RxAssumption, Rx!RxInv, Rx!WriteRd PROVE Rx!RxInv'
  <1>1. Rx!TypeOK /\ Rx!PointerInv /\ Rx!ContentInv BY DEF Rx!RxInv
  <1>2. "wrrd" \notin {"size", "rd", "buf"} OBVIOUS
  <1>3. /\ rPc = "wrrd" /\ UNCHANGED <<rMem, rxWr, taken, rsr, rCr, arrived>>
        /\ rxRd' = (rptr + len) % Mod /\ rPc' = "cmd"
        /\ UNCHANGED <<rPolls, len, rptr, buf, rNf, parsed>>
    BY <1>2 DEF Rx!WriteRd, Rx!Fail, Rx!NewRd
  <1>4. PICK p \in Int : p = Len(parsed) BY RxNumbers
  <1>5. Rx!Released' = Rx!Released /\ Rx!Told' = p + len
    BY <1>3, <1>4, RxNumbers DEF Rx!Told, Rx!Released
  <1>6. Mod \in Nat \ {0} /\ rptr \in 0..Mod - 1 /\ len \in Int BY RxNumbers
  <1>7. p % Mod = rptr BY <1>1, <1>3, <1>4 DEF Rx!PointerInv
  <1>8. (rptr + len) % Mod = (p + len) % Mod BY <1>6, <1>7, ModShift, Zenon
  <1>9. rxRd' = Rx!Told' % Mod BY <1>3, <1>5, <1>8, Zenon
  <1>10. Rx!TypeOK'
    <2>1. rCr' \in BOOLEAN BY <1>1, <1>3, Zenon DEF Rx!TypeOK
    <2>2. rxRd' \in 0..Mod - 1 BY <1>3, <1>6
    <2>3. rPc' \in Rx!Points BY <1>3 DEF Rx!Points
    <2> QED BY <1>1, <1>3, <2>1, <2>2, <2>3, Zenon DEF Rx!TypeOK
  <1>11. ~rCr BY <1>3, RxDriver
  <1>12. Rx!PointerInv' BY <1>1, <1>3, <1>5, <1>9, <1>11, Zenon DEF Rx!PointerInv
  <1>13. Rx!ContentInv' BY <1>1, <1>3, <1>5, Zenon DEF Rx!ContentInv
  <1> QED BY <1>10, <1>12, <1>13 DEF Rx!RxInv

\* The write of RECV: until it is executed, nothing is released.
LEMMA RxWriteCommand ==
    ASSUME Rx!RxAssumption, Rx!RxInv, Rx!WriteCommand
    PROVE  Rx!RxInv'
  <1>1. Rx!TypeOK /\ Rx!PointerInv /\ Rx!ContentInv BY DEF Rx!RxInv
  <1>2. "cmd" \notin {"size", "rd", "buf"} OBVIOUS
  <1>3. /\ rPc = "cmd" /\ UNCHANGED <<rMem, rxWr, rxRd, taken, rsr, arrived>>
        /\ rCr' = TRUE /\ rPc' = "crwait" /\ rPolls' = 0
        /\ UNCHANGED <<len, rptr, buf, rNf, parsed>>
    BY <1>2 DEF Rx!WriteCommand, Rx!Fail
  <1>4. Rx!Released' = Rx!Released /\ Rx!Told' = Rx!Told
    BY <1>3, RxNumbers DEF Rx!Told, Rx!Released
  <1>5. Rx!TypeOK'
    <2>1. rCr' \in BOOLEAN BY <1>3, Zenon
    <2>2. rPolls' \in 0..MaxPolls BY <1>3, RxNumbers
    <2>3. rPc' \in Rx!Points BY <1>3 DEF Rx!Points
    <2> QED BY <1>1, <1>3, <2>1, <2>2, <2>3, Zenon DEF Rx!TypeOK
  <1>6. Rx!PointerInv' BY <1>1, <1>3, <1>4, Zenon DEF Rx!PointerInv
  <1>7. Rx!ContentInv' BY <1>1, <1>3, <1>4, Zenon DEF Rx!ContentInv
  <1> QED BY <1>5, <1>6, <1>7 DEF Rx!RxInv

\* The wait for RECV: then the bytes go to the parser.
LEMMA RxWait == ASSUME Rx!RxAssumption, Rx!RxInv, Rx!WaitForCommand PROVE Rx!RxInv'
  <1>1. Rx!TypeOK /\ Rx!PointerInv /\ Rx!ContentInv BY DEF Rx!RxInv
  <1>2. "crwait" \notin {"size", "rd", "buf"} OBVIOUS
  <1>3. rPc = "crwait" /\ UNCHANGED Rx!chipVars BY DEF Rx!WaitForCommand
  <1>4. CASE /\ rPolls < MaxPolls /\ rPolls' = rPolls + 1
             /\ UNCHANGED <<rPc, len, rptr, buf, rNf, parsed>>
    <2>1. Rx!Released' = Rx!Released /\ Rx!Told' = Rx!Told
      BY <1>3, <1>4 DEF Rx!Told, Rx!Released, Rx!chipVars
    <2>2. rPolls' \in 0..MaxPolls
      <3>1. rPolls \in 0..MaxPolls BY RxDriver, Zenon
      <3>2. MaxPolls \in Nat BY DEF Rx!RxAssumption
      <3> QED BY <1>4, <3>1, <3>2
    <2>3. Rx!TypeOK'
      <3>1. rCr' \in BOOLEAN BY <1>1, <1>3, Zenon DEF Rx!TypeOK, Rx!chipVars
      <3> QED BY <1>1, <1>3, <1>4, <2>2, <3>1, Zenon DEF Rx!TypeOK, Rx!chipVars
    <2>4. Rx!PointerInv' BY <1>1, <1>3, <1>4, <2>1, Zenon DEF Rx!PointerInv, Rx!chipVars
    <2>5. Rx!ContentInv' BY <1>1, <1>3, <1>4, <2>1, Zenon DEF Rx!ContentInv, Rx!chipVars
    <2> QED BY <2>3, <2>4, <2>5 DEF Rx!RxInv
  <1>5. CASE /\ ~rCr /\ parsed' = parsed \o buf /\ rPc' = "idle"
             /\ UNCHANGED <<rPolls, len, rptr, buf, rNf>>
    <2>1. /\ parsed \in Seq(0..MaxBytes) /\ buf \in Seq(0..MaxBytes) /\ Len(buf) = len
          /\ \A k \in 1..len : buf[k] = Len(parsed) + k
          /\ \A n \in 1..Len(parsed) : parsed[n] = n
      BY <1>1, <1>3 DEF Rx!TypeOK, Rx!ContentInv
    <2>2. /\ parsed' \in Seq(0..MaxBytes) /\ Len(parsed') = Len(parsed) + len
      BY <1>5, <2>1
    <2>3. ASSUME NEW n \in 1..Len(parsed') PROVE parsed'[n] = n
      <3>1. CASE n <= Len(parsed) BY <1>5, <2>1, <2>2, <3>1
      <3>2. CASE n > Len(parsed)
        <4>1. parsed'[n] = buf[n - Len(parsed)] BY <1>5, <2>1, <2>2, <3>2
        <4>2. n - Len(parsed) \in 1..len BY <2>1, <2>2, <3>2
        <4> QED BY <2>1, <4>1, <4>2
      <3> QED BY <2>1, <2>2, <3>1, <3>2
    <2>4. Rx!Told' = Rx!Told /\ Rx!Released' = Rx!Released
      BY <1>3, <1>5, <2>2, RxNumbers DEF Rx!Told, Rx!Released, Rx!chipVars
    <2>5. Rx!TypeOK'
      <3>1. rCr' \in BOOLEAN BY <1>1, <1>3, Zenon DEF Rx!TypeOK, Rx!chipVars
      <3>2. rPc' \in Rx!Points BY <1>5 DEF Rx!Points
      <3> QED BY <1>1, <1>3, <1>5, <2>2, <3>1, <3>2, Zenon DEF Rx!TypeOK, Rx!chipVars
    <2>6. rPc' \notin {"buf", "wrrd", "cmd", "crwait"} BY <1>5
    <2>7. Rx!PointerInv' BY <1>1, <1>3, <1>5, <2>4, <2>6, Zenon DEF Rx!PointerInv, Rx!chipVars
    <2>8. Rx!ContentInv' BY <1>1, <1>3, <1>5, <2>3, <2>4, <2>6, Zenon DEF Rx!ContentInv, Rx!chipVars
    <2> QED BY <2>5, <2>7, <2>8 DEF Rx!RxInv
  <1> QED BY <1>2, <1>4, <1>5 DEF Rx!WaitForCommand, Rx!CommandDone, Rx!Fail

\* Every step keeps the invariant.
LEMMA RxStep ==
    ASSUME Rx!RxAssumption, Rx!RxInv, [Rx!Next]_Rx!vars
    PROVE  Rx!RxInv'
  <1>1. CASE Rx!Driver
    BY <1>1, RxReadSize, RxReadRd, RxReadBuffer, RxWriteRd, RxWriteCommand, RxWait DEF Rx!Driver
  <1>2. CASE UNCHANGED Rx!vars
    <2>1. UNCHANGED <<rMem, rxWr, rxRd, taken, rsr, rCr, arrived, rPc, rPolls, len, rptr, buf, rNf, parsed>>
      BY <1>2 DEF Rx!vars
    <2>2. Rx!Told' = Rx!Told /\ Rx!Released' = Rx!Released BY <2>1, Zenon DEF Rx!Told, Rx!Released
    <2> QED BY <2>1, <2>2, Zenon DEF Rx!RxInv, Rx!TypeOK, Rx!PointerInv, Rx!ContentInv
  <1> QED BY <1>1, <1>2, RxArrive, RxRecv DEF Rx!Next, Rx!Done

\* What the invariant says of the stream.
LEMMA RxIntact == ASSUME Rx!RxAssumption, Rx!RxInv PROVE Rx!StreamIntact
  <1>1. Rx!TypeOK /\ Rx!PointerInv /\ Rx!ContentInv BY DEF Rx!RxInv
  <1>2. PICK p \in Nat : p = Len(parsed) BY RxNumbers
  <1>3. PICK m \in Nat : m = Rx!Released BY RxNumbers
  <1>4. Size \in Nat \ {0} /\ arrived \in Nat /\ len \in Nat BY RxNumbers
  <1>5. p <= m /\ m <= arrived BY <1>1, <1>2, <1>3, <1>4 DEF Rx!PointerInv, Rx!Released
  <1>6. Rx!ParsedIsThePrefix
    <2>1. Len(parsed) <= arrived BY <1>2, <1>4, <1>5
    <2> QED BY <1>1, <2>1, Zenon DEF Rx!ContentInv, Rx!ParsedIsThePrefix
  <1>7. Rx!UnreadBytesKept
    <2> SUFFICES ASSUME NEW n \in p + 1..arrived
                 PROVE  \/ \E c \in 0..Size - 1 : rMem[c] = n
                        \/ rPc \in {"wrrd", "cmd", "crwait"} /\ \E k \in 1..Len(buf) : buf[k] = n
      BY <1>2, Zenon DEF Rx!UnreadBytesKept
    <2>1. CASE n > m
      <3>1. n \in Rx!Released + 1..arrived BY <1>3, <1>4, <2>1
      <3>2. rMem[(n - 1) % Size] = n BY <1>1, <3>1, Zenon DEF Rx!ContentInv
      <3>3. (n - 1) % Size \in 0..Size - 1 BY <1>4
      <3> QED BY <3>2, <3>3, Zenon
    <2>2. CASE n <= m
      <3>1. rPc = "crwait" /\ m = p + len BY <1>2, <1>3, <1>4, <2>2 DEF Rx!Released
      <3>2. Len(buf) = len /\ \A k \in 1..len : buf[k] = p + k
        BY <1>1, <1>2, <3>1 DEF Rx!ContentInv
      <3>3. PICK k \in 1..len : k = n - p BY <1>4, <2>2, <3>1
      <3>4. p + k = n BY <3>3
      <3> QED BY <3>1, <3>2, <3>3, <3>4
    <2> QED BY <1>4, <2>1, <2>2
  <1> QED BY <1>1, <1>6, <1>7 DEF Rx!StreamIntact

\* w5500_tcp_process_rx: as long as only reads fail, the parser is fed every byte once
\* and in order, and no byte is overwritten before, although bytes arrive between any two
\* transfers; for every size of the buffer and of the chunks, and every width of the
\* pointers that the size divides.
THEOREM StreamArrives == Rx!Spec => []StreamIntact
  <1>1. Rx!Init => Rx!RxInv BY RxInit, SocketAssumption
  <1>2. Rx!RxInv /\ [Rx!Next]_Rx!vars => Rx!RxInv' BY RxStep, SocketAssumption
  <1>3. Rx!RxInv => StreamIntact BY RxIntact, SocketAssumption DEF StreamIntact
  <1> QED BY <1>1, <1>2, <1>3, PTL DEF Rx!Spec
-----------------------------------------------------------------------------
(* The transmit buffer of a socket: pointers and cells.                    *)

\* A function on an interval is a sequence.
LEMMA SequenceOf ==
    ASSUME NEW S, NEW n \in Nat, NEW q \in [1..n -> S] PROVE q \in Seq(S) /\ Len(q) = n
  OBVIOUS

\* What a cell of the buffer can hold.
TxCells == {Tx!Blank} \cup ((1..MaxFrames) \X (1..FrameLen))

\* What the constants say.
LEMMA TxConstants ==
    ASSUME Tx!TxAssumption
    PROVE  /\ Size \in Nat \ {0} /\ Mod \in Nat \ {0} /\ Size < Mod /\ Mod % Size = 0
           /\ FrameLen \in Nat \ {0} /\ FrameLen <= Size
           /\ MaxFrames \in Nat /\ MaxPolls \in Nat /\ TxFaults \in Nat
  BY DEF Tx!TxAssumption

\* The number of a frame in a cell.
LEMMA CellNumbers ==
    ASSUME Tx!TxAssumption, NEW c \in TxCells PROVE c[1] \in Nat /\ c[2] \in Nat
  BY TxConstants DEF TxCells, Tx!Blank

\* A cell of a frame.
LEMMA CellOf ==
    ASSUME NEW f \in 1..MaxFrames, NEW k \in 1..FrameLen
    PROVE  Tx!Cell(f, k) \in TxCells /\ Tx!Cell(f, k)[1] = f /\ Tx!Cell(f, k)[2] = k
  BY DEF TxCells, Tx!Cell

\* A pointer from the one before it and their distance.
LEMMA PointerOf ==
    ASSUME NEW M \in Nat \ {0}, NEW r \in 0..M - 1, NEW b \in 0..M - 1
    PROVE  (b - r) % M \in 0..M - 1 /\ (r + ((b - r) % M)) % M = b
  <1>1. PICK d \in 0..M - 1 : d = (b - r) % M OBVIOUS
  <1>2. d = IF b >= r THEN b - r ELSE b - r + M BY <1>1, ModDiff
  <1>3. (r + d) % M = IF r + d < M THEN r + d ELSE r + d - M BY ModSum
  <1>4. (r + d) % M = b BY <1>2, <1>3
  <1> QED BY <1>1, <1>4

\* And the distance from the pointer.
LEMMA DistanceOf ==
    ASSUME NEW M \in Nat \ {0}, NEW r \in 0..M - 1, NEW d \in 0..M - 1
    PROVE  (r + d) % M \in 0..M - 1 /\ (((r + d) % M) - r) % M = d
  <1>1. (r + d) % M = IF r + d < M THEN r + d ELSE r + d - M BY ModSum
  <1>2. PICK b \in 0..M - 1 : b = (r + d) % M BY <1>1
  <1>3. (b - r) % M = IF b >= r THEN b - r ELSE b - r + M BY ModDiff
  <1>4. (b - r) % M = d BY <1>1, <1>2, <1>3
  <1> QED BY <1>2, <1>4

\* The cell n bytes after a pointer.
Slot(r, n) == (r + n) % Size

\* It is found from any pointer in between.
LEMMA SlotFrom ==
    ASSUME Tx!TxAssumption, NEW r \in 0..Mod - 1, NEW d \in Int, NEW b \in 0..Mod - 1,
           b = (r + d) % Mod, NEW k \in Int
    PROVE  ((b + k - 1) % Mod) % Size = Slot(r, d + k - 1)
  <1>1. Size \in Nat \ {0} /\ Mod \in Nat \ {0} /\ Mod % Size = 0 BY TxConstants
  <1>2. PICK n \in Int : n = r + d OBVIOUS
  <1>3. PICK x \in Int : x = k - 1 OBVIOUS
  <1>4. n % Mod = b BY <1>2
  <1>5. (b + x) % Mod = (n + x) % Mod BY <1>1, <1>4, ModShift, Zenon
  <1>6. PICK l \in Int : l = n + x OBVIOUS
  <1>7. (l % Mod) % Size = l % Size BY <1>1, ModNested
  <1>8. b + k - 1 = b + x /\ r + (d + k - 1) = l BY <1>2, <1>3, <1>6
  <1> QED BY <1>5, <1>6, <1>7, <1>8, Zenon DEF Slot

\* Two cells less than the buffer apart are different ones.
LEMMA SlotsDiffer ==
    ASSUME Tx!TxAssumption, NEW r \in Int, NEW x \in Int, NEW y \in Int, x < y, y - x < Size
    PROVE  Slot(r, x) # Slot(r, y) /\ Slot(r, x) \in 0..Size - 1 /\ Slot(r, y) \in 0..Size - 1
  <1>1. Size \in Nat \ {0} BY TxConstants
  <1>2. PICK l \in Int : l = r + x OBVIOUS
  <1>3. PICK e \in 1..Size - 1 : e = y - x BY <1>1
  <1>4. (l + e) % Size # l % Size BY <1>1, ModDiffer
  <1>5. l + e = r + y BY <1>2, <1>3
  <1>6. (r + x) % Size \in 0..Size - 1 /\ (r + y) % Size \in 0..Size - 1 BY <1>1
  <1> QED BY <1>2, <1>4, <1>5, <1>6, Zenon DEF Slot

\* The cells between two pointers, whatever the buffer holds.
Cells(m, a, b) == [k \in 1..((b - a) % Mod) |-> m[((a + k - 1) % Mod) % Size]]

\* Two pointers, d and e cells after a third.
Span(m, r, d, e, a, b) ==
    /\ m \in [0..Size - 1 -> TxCells]
    /\ r \in 0..Mod - 1 /\ a \in 0..Mod - 1 /\ b \in 0..Mod - 1
    /\ d \in 0..Mod - 1 /\ e \in 0..Mod - 1 /\ d <= e
    /\ a = (r + d) % Mod /\ b = (r + e) % Mod

\* The cells between them.
SpanCells(m, r, d, e, a, b) ==
    /\ (b - a) % Mod = e - d
    /\ Cells(m, a, b) \in Seq(TxCells) /\ Len(Cells(m, a, b)) = e - d
    /\ \A k \in 1..e - d : Cells(m, a, b)[k] = m[Slot(r, d + k - 1)]

\* They are those that follow the first pointer.
LEMMA CellsFollow ==
    ASSUME Tx!TxAssumption, NEW m, NEW r, NEW d, NEW e, NEW a, NEW b, Span(m, r, d, e, a, b)
    PROVE  SpanCells(m, r, d, e, a, b)
  <1> USE DEF Span
  <1>1. Size \in Nat \ {0} /\ Mod \in Nat \ {0} BY TxConstants
  <1>2. PICK n \in 0..Mod - 1 : n = e - d BY <1>1
  <1>3. (b - a) % Mod = n
    <2>1. PICK u \in Int : u = r + d OBVIOUS
    <2>2. u % Mod = a BY <2>1
    <2>3. u + n = r + e BY <1>2, <2>1
    <2>4. (a + n) % Mod = (u + n) % Mod
      <3>1. n \in Int OBVIOUS
      <3> QED BY <1>1, <2>2, <3>1, ModShift, Zenon
    <2>5. (a + n) % Mod = b BY <2>3, <2>4
    <2>6. (((a + n) % Mod) - a) % Mod = n BY <1>1, DistanceOf
    <2> QED BY <2>5, <2>6
  <1>4. ASSUME NEW k \in 1..n PROVE ((a + k - 1) % Mod) % Size = Slot(r, d + k - 1)
    <2>1. k \in Int /\ d \in Int OBVIOUS
    <2> QED BY <2>1, SlotFrom, Zenon
  <1>5. Cells(m, a, b) = [k \in 1..n |-> m[Slot(r, d + k - 1)]] BY <1>3, <1>4, Zenon DEF Cells
  <1>6. \A k \in 1..n : Slot(r, d + k - 1) \in 0..Size - 1 BY <1>1 DEF Slot
  <1>7. \A k \in 1..n : m[Slot(r, d + k - 1)] \in TxCells BY <1>6
  <1>8. n \in Nat OBVIOUS
  <1>9. Cells(m, a, b) \in [1..n -> TxCells] BY <1>5, <1>7, Zenon
  <1>10. Cells(m, a, b) \in Seq(TxCells) /\ Len(Cells(m, a, b)) = n
    BY <1>8, <1>9, SequenceOf, Zenon
  <1>11. \A k \in 1..n : Cells(m, a, b)[k] = m[Slot(r, d + k - 1)] BY <1>5, Zenon
  <1> QED BY <1>2, <1>3, <1>10, <1>11 DEF SpanCells
-----------------------------------------------------------------------------
(* Whole frames in a row.                                                  *)

\* One more frame behind whole frames of lower numbers.
LEMMA FramesGrow ==
    ASSUME Tx!TxAssumption, NEW q \in Seq(TxCells), Tx!Frames(q), NEW f \in 1..MaxFrames,
           \A g \in Tx!FrameIds(q) : g < f,
           NEW r \in Seq(TxCells), Len(r) = Len(q) + FrameLen,
           \A k \in 1..Len(q) : r[k] = q[k],
           \A k \in 1..FrameLen : r[Len(q) + k] = Tx!Cell(f, k)
    PROVE  Tx!Frames(r) /\ Tx!FrameIds(r) = Tx!FrameIds(q) \cup {f}
  <1>1. FrameLen \in Nat \ {0} BY TxConstants
  <1>2. PICK n \in Nat : n = Len(q) OBVIOUS
  <1>3. n % FrameLen = 0 /\ Len(r) = n + FrameLen BY <1>2 DEF Tx!Frames, Tx!WholeFrames
  <1>4. ASSUME NEW k \in 1..FrameLen
        PROVE  /\ r[n + k][1] = f /\ r[n + k][2] = k /\ (n + k - 1) % FrameLen = k - 1
    <2>1. r[n + k] = Tx!Cell(f, k) BY <1>2
    <2>2. PICK x \in 0..FrameLen - 1 : x = k - 1 BY <1>1
    <2>3. PICK z \in 0..FrameLen - 1 : z = 0 BY <1>1
    <2>4. n % FrameLen = z /\ n \in Int BY <1>3, <2>3
    <2>5. PICK b \in Int : n = b * FrameLen + z BY <1>1, <2>4, Quotient
    <2>6. (b * FrameLen + x) % FrameLen = x BY <1>1, ModOf
    <2>7. n + k - 1 = b * FrameLen + x
      <3>1. PICK p \in Int : p = b * FrameLen BY <1>1
      <3>2. n = p + z BY <2>5, <3>1
      <3>3. n + k - 1 = p + x BY <2>2, <2>3, <3>2
      <3> QED BY <3>1, <3>3
    <2> QED BY <2>1, <2>2, <2>6, <2>7, CellOf
  <1>5. ASSUME NEW k \in 1..n
        PROVE  /\ r[k] = q[k] /\ r[k][1] \in Nat /\ r[k][1] < f
               /\ r[k][1] # 0 /\ r[k][2] = 1 + ((k - 1) % FrameLen)
    <2>1. r[k] = q[k] /\ q[k] \in TxCells BY <1>2
    <2>2. q[k][1] \in Tx!FrameIds(q) BY <1>2 DEF Tx!FrameIds
    <2>3. q[k][1] # 0 /\ q[k][2] = 1 + ((k - 1) % FrameLen)
      BY <1>2, Zenon DEF Tx!Frames, Tx!WholeFrames
    <2> QED BY <2>1, <2>2, <2>3, CellNumbers
  <1>6. ASSUME NEW k \in 1..n + FrameLen
        PROVE  \/ k \in 1..n
               \/ k - n \in 1..FrameLen /\ n + (k - n) = k
    BY <1>1
  <1>7. Len(r) % FrameLen = 0
    <2>1. PICK z \in 0..FrameLen - 1 : z = 0 BY <1>1
    <2>2. n % FrameLen = z /\ n \in Int BY <1>3, <2>1
    <2>3. PICK b \in Int : n = b * FrameLen + z BY <1>1, <2>2, Quotient
    <2>4. PICK c \in Int : c = b + 1 OBVIOUS
    <2>5. n + FrameLen = c * FrameLen + z BY <1>1, <2>3, <2>4
    <2>6. (c * FrameLen + z) % FrameLen = z BY <1>1, ModOf
    <2> QED BY <1>3, <2>1, <2>5, <2>6
  <1>8. ASSUME NEW k \in 1..Len(r)
        PROVE  /\ r[k][1] # 0 /\ r[k][2] = 1 + ((k - 1) % FrameLen)
               /\ r[k][2] > 1 => r[k][1] = r[k - 1][1]
    <2>1. CASE k \in 1..n
      <3>1. r[k][1] # 0 /\ r[k][2] = 1 + ((k - 1) % FrameLen) BY <1>5, <2>1
      <3>2. ASSUME r[k][2] > 1 PROVE r[k][1] = r[k - 1][1]
        <4>1. q[k][2] > 1 /\ r[k] = q[k] BY <1>5, <2>1, <3>2
        <4>2. q[k][1] = q[k - 1][1]
          BY <1>2, <2>1, <4>1, Zenon DEF Tx!Frames, Tx!WholeFrames
        <4>3. k # 1
          <5>1. (1 - 1) % FrameLen = 0 BY <1>1
          <5> QED BY <3>1, <3>2, <5>1
        <4>4. k - 1 \in 1..n BY <2>1, <4>3
        <4> QED BY <1>5, <4>1, <4>2, <4>4
      <3> QED BY <3>1, <3>2
    <2>2. CASE k - n \in 1..FrameLen /\ n + (k - n) = k
      <3>1. PICK x \in 1..FrameLen : x = k - n /\ k = n + x BY <2>2
      <3>2. r[k][1] = f /\ r[k][2] = x /\ (k - 1) % FrameLen = x - 1 BY <1>4, <3>1
      <3>3. ASSUME x > 1 PROVE r[k - 1][1] = f
        <4>1. PICK y \in 1..FrameLen : y = x - 1 BY <1>1, <3>3
        <4>2. k - 1 = n + y BY <3>1, <4>1
        <4> QED BY <1>4, <4>2
      <3> QED BY <3>1, <3>2, <3>3
    <2> QED BY <1>3, <1>6, <2>1, <2>2
  <1>9. ASSUME NEW k \in 2..Len(r), r[k][2] = 1 PROVE r[k - 1][1] < r[k][1]
    <2>1. CASE k \in 1..n
      <3>1. k \in 2..n /\ k - 1 \in 1..n BY <2>1
      <3>2. r[k] = q[k] /\ r[k - 1] = q[k - 1] BY <1>5, <2>1, <3>1
      <3>3. q[k - 1][1] < q[k][1] BY <1>2, <1>9, <3>1, <3>2, Zenon DEF Tx!Frames
      <3> QED BY <3>2, <3>3
    <2>2. CASE k - n \in 1..FrameLen /\ n + (k - n) = k
      <3>1. PICK x \in 1..FrameLen : x = k - n /\ k = n + x BY <2>2
      <3>2. r[k][1] = f /\ r[k][2] = x BY <1>4, <3>1
      <3>3. x = 1 /\ k - 1 \in 1..n BY <1>9, <3>1, <3>2
      <3> QED BY <1>5, <3>2, <3>3
    <2> QED BY <1>3, <1>6, <2>1, <2>2
  <1>10. ASSUME NEW j \in 1..Len(r), NEW k \in 1..Len(r), j <= k PROVE r[j][1] <= r[k][1]
    <2>1. CASE k \in 1..n
      <3>1. j \in 1..n BY <1>10, <2>1
      <3>2. q[j][1] <= q[k][1] BY <1>2, <1>10, <2>1, <3>1, Zenon DEF Tx!Frames
      <3> QED BY <1>5, <2>1, <3>1, <3>2
    <2>2. CASE k - n \in 1..FrameLen /\ n + (k - n) = k
      <3>1. r[k][1] = f BY <1>4, <2>2
      <3>2. CASE j \in 1..n BY <1>5, <3>1, <3>2
      <3>3. CASE j - n \in 1..FrameLen /\ n + (j - n) = j
        <4>1. r[j][1] = f BY <1>4, <3>3
        <4> QED BY <3>1, <4>1
      <3> QED BY <1>3, <1>6, <3>2, <3>3
    <2> QED BY <1>3, <1>6, <2>1, <2>2
  <1>11. Tx!Frames(r) BY <1>7, <1>8, <1>9, <1>10, Zenon DEF Tx!Frames, Tx!WholeFrames
  <1>12. Tx!FrameIds(r) = Tx!FrameIds(q) \cup {f}
    <2>1. ASSUME NEW g \in Tx!FrameIds(r) PROVE g \in Tx!FrameIds(q) \cup {f}
      <3>1. PICK k \in 1..Len(r) : g = r[k][1] BY DEF Tx!FrameIds
      <3>2. CASE k \in 1..n BY <1>2, <1>5, <3>1, <3>2, Zenon DEF Tx!FrameIds
      <3>3. CASE k - n \in 1..FrameLen /\ n + (k - n) = k
        <4>1. r[k][1] = f BY <1>4, <3>3
        <4> QED BY <3>1, <4>1
      <3> QED BY <1>3, <1>6, <3>2, <3>3
    <2>2. ASSUME NEW g \in Tx!FrameIds(q) PROVE g \in Tx!FrameIds(r)
      <3>1. PICK k \in 1..Len(q) : g = q[k][1] BY DEF Tx!FrameIds
      <3>2. k \in 1..n /\ k \in 1..Len(r) BY <1>1, <1>2, <1>3
      <3> QED BY <1>5, <3>1, <3>2, Zenon DEF Tx!FrameIds
    <2>3. f \in Tx!FrameIds(r)
      <3>1. PICK x \in 1..FrameLen : x = 1 BY <1>1
      <3>2. n + x \in 1..Len(r) BY <1>1, <1>3, <3>1
      <3>3. r[n + x][1] = f BY <1>4
      <3> QED BY <3>2, <3>3, Zenon DEF Tx!FrameIds
    <2> QED BY <2>1, <2>2, <2>3
  <1> QED BY <1>11, <1>12

\* A cut between two frames: both sides are whole frames, the later ones behind it.
LEMMA FramesCut ==
    ASSUME Tx!TxAssumption, NEW q \in Seq(TxCells), Tx!Frames(q),
           NEW c \in 0..Len(q), c % FrameLen = 0,
           NEW p \in Seq(TxCells), Len(p) = c, \A k \in 1..c : p[k] = q[k],
           NEW s \in Seq(TxCells), Len(s) = Len(q) - c,
           \A k \in 1..Len(q) - c : s[k] = q[c + k]
    PROVE  /\ Tx!Frames(p) /\ Tx!Frames(s)
           /\ Tx!FrameIds(p) \subseteq Tx!FrameIds(q) /\ Tx!FrameIds(s) \subseteq Tx!FrameIds(q)
           /\ \A f \in Tx!FrameIds(p), g \in Tx!FrameIds(s) : f < g
  <1>1. FrameLen \in Nat \ {0} BY TxConstants
  <1>2. PICK n \in Nat : n = Len(q) OBVIOUS
  <1>3. PICK m \in Nat : m = n - c
    <2>1. c \in 0..n BY <1>2
    <2> QED BY <2>1
  <1>4. /\ \A k \in 1..n : /\ q[k][1] # 0 /\ q[k][2] = 1 + ((k - 1) % FrameLen)
                           /\ q[k][2] > 1 => q[k][1] = q[k - 1][1]
        /\ \A k \in 2..n : q[k][2] = 1 => q[k - 1][1] < q[k][1]
        /\ \A j, k \in 1..n : j <= k => q[j][1] <= q[k][1]
        /\ n % FrameLen = 0
    BY <1>2, Zenon DEF Tx!Frames, Tx!WholeFrames
  <1>5. PICK z \in 0..FrameLen - 1 : z = 0 BY <1>1
  <1>6. PICK b \in Int : c = b * FrameLen + z
    <2>1. c \in Int /\ c % FrameLen = z BY <1>5
    <2> QED BY <1>1, <2>1, Quotient
  <1>7. ASSUME NEW x \in Int PROVE (x - c) % FrameLen = x % FrameLen
    <2>1. (x - b * FrameLen) % FrameLen = x % FrameLen BY <1>1, ModTurns
    <2>2. PICK e \in Int : e = b * FrameLen BY <1>1
    <2>3. c = e BY <1>5, <1>6, <2>2
    <2> QED BY <2>1, <2>2, <2>3
  <1>8. Tx!Frames(p)
    <2>1. ASSUME NEW k \in 1..c
          PROVE  /\ p[k][1] # 0 /\ p[k][2] = 1 + ((k - 1) % FrameLen)
                 /\ p[k][2] > 1 => p[k][1] = p[k - 1][1]
      <3>1. k \in 1..n /\ p[k] = q[k] BY <1>2
      <3>2. q[k][1] # 0 /\ q[k][2] = 1 + ((k - 1) % FrameLen) BY <1>4, <3>1, Zenon
      <3>3. ASSUME p[k][2] > 1 PROVE p[k][1] = p[k - 1][1]
        <4>1. q[k][1] = q[k - 1][1] BY <1>4, <3>1, <3>3, Zenon
        <4>2. k # 1
          <5>1. (1 - 1) % FrameLen = 0 BY <1>1
          <5> QED BY <3>1, <3>2, <3>3, <5>1
        <4>3. k - 1 \in 1..c BY <4>2
        <4>4. p[k - 1] = q[k - 1] BY <4>3, Zenon
        <4> QED BY <3>1, <4>1, <4>4, Zenon
      <3> QED BY <3>1, <3>2, <3>3, Zenon
    <2>2. ASSUME NEW k \in 2..c, p[k][2] = 1 PROVE p[k - 1][1] < p[k][1]
      <3>1. k \in 2..n /\ k \in 1..c /\ k - 1 \in 1..c BY <1>2
      <3>2. p[k] = q[k] /\ p[k - 1] = q[k - 1] BY <3>1, Zenon
      <3> QED BY <1>4, <2>2, <3>1, <3>2, Zenon
    <2>3. ASSUME NEW j \in 1..c, NEW k \in 1..c, j <= k PROVE p[j][1] <= p[k][1]
      <3>1. j \in 1..n /\ k \in 1..n BY <1>2
      <3>2. p[j] = q[j] /\ p[k] = q[k] BY Zenon
      <3> QED BY <1>4, <2>3, <3>1, <3>2, Zenon
    <2> QED BY <2>1, <2>2, <2>3, Zenon DEF Tx!Frames, Tx!WholeFrames
  <1>9. ASSUME NEW k \in 1..m
        PROVE  /\ c + k \in 1..n /\ s[k] = q[c + k] /\ (c + k - 1) % FrameLen = (k - 1) % FrameLen
    <2>1. c + k \in 1..n /\ s[k] = q[c + k] BY <1>2, <1>3
    <2>2. PICK x \in Int : x = c + k - 1 OBVIOUS
    <2>3. (x - c) % FrameLen = x % FrameLen BY <1>7
    <2>4. x - c = k - 1 BY <2>2
    <2> QED BY <2>1, <2>2, <2>3, <2>4
  <1>10. m % FrameLen = 0
    <2>1. n \in Int /\ (n - c) % FrameLen = n % FrameLen BY <1>7
    <2> QED BY <1>3, <1>4, <2>1
  <1>11. Tx!Frames(s)
    <2>1. ASSUME NEW k \in 1..m
          PROVE  /\ s[k][1] # 0 /\ s[k][2] = 1 + ((k - 1) % FrameLen)
                 /\ s[k][2] > 1 => s[k][1] = s[k - 1][1]
      <3>1. s[k][1] # 0 /\ s[k][2] = 1 + ((k - 1) % FrameLen)
        <4>1. PICK x \in 1..n : x = c + k BY <1>9, Zenon
        <4>2. q[x][1] # 0 /\ q[x][2] = 1 + ((x - 1) % FrameLen) BY <1>4, Zenon
        <4> QED BY <1>9, <4>1, <4>2
      <3>2. ASSUME s[k][2] > 1 PROVE s[k][1] = s[k - 1][1]
        <4>1. q[c + k][1] = q[c + k - 1][1]
          <5>1. PICK x \in 1..n : x = c + k BY <1>9, Zenon
          <5>2. q[x][2] > 1 BY <1>9, <3>2, <5>1, Zenon
          <5>3. q[x][1] = q[x - 1][1] BY <1>4, <5>2, Zenon
          <5> QED BY <5>1, <5>3
        <4>2. k # 1
          <5>1. (1 - 1) % FrameLen = 0 BY <1>1
          <5> QED BY <3>1, <3>2, <5>1
        <4>3. PICK x \in 1..m : x = k - 1 BY <4>2
        <4>4. s[x] = q[c + x] /\ c + x = c + k - 1 BY <1>9, <4>3
        <4> QED BY <1>9, <4>1, <4>3, <4>4, Zenon
      <3> QED BY <3>1, <3>2
    <2>2. ASSUME NEW k \in 2..m, s[k][2] = 1 PROVE s[k - 1][1] < s[k][1]
      <3>1. PICK x \in 1..m : x = k - 1 OBVIOUS
      <3>2. PICK y \in 1..m : y = k OBVIOUS
      <3>3. s[x] = q[c + x] /\ s[y] = q[c + y] BY <1>9, Zenon
      <3>4. c + y \in 2..n /\ c + y - 1 = c + x BY <1>2, <1>3, <3>1, <3>2
      <3>5. q[c + y][2] = 1 BY <2>2, <3>2, <3>3, Zenon
      <3>6. q[c + y - 1][1] < q[c + y][1]
        <4>1. PICK e \in 2..n : e = c + y BY <3>4, Zenon
        <4>2. q[e - 1][1] < q[e][1] BY <1>4, <3>5, <4>1, Zenon
        <4> QED BY <4>1, <4>2
      <3> QED BY <3>1, <3>2, <3>3, <3>4, <3>6, Zenon
    <2>3. ASSUME NEW j \in 1..m, NEW k \in 1..m, j <= k PROVE s[j][1] <= s[k][1]
      <3>1. PICK x \in 1..n : x = c + j BY <1>9, Zenon
      <3>2. PICK y \in 1..n : y = c + k BY <1>9, Zenon
      <3>3. x <= y BY <2>3, <3>1, <3>2
      <3>4. q[x][1] <= q[y][1] BY <1>4, <3>3, Zenon
      <3> QED BY <1>9, <3>1, <3>2, <3>4, Zenon
    <2>4. Len(s) = m BY <1>2, <1>3
    <2> QED BY <1>10, <2>1, <2>2, <2>3, <2>4, Zenon DEF Tx!Frames, Tx!WholeFrames
  <1>12. Tx!FrameIds(p) \subseteq Tx!FrameIds(q)
    <2>1. ASSUME NEW f \in Tx!FrameIds(p) PROVE f \in Tx!FrameIds(q)
      <3>1. PICK k \in 1..c : f = p[k][1] BY Zenon DEF Tx!FrameIds
      <3>2. k \in 1..Len(q) /\ p[k] = q[k] OBVIOUS
      <3> QED BY <3>1, <3>2, Zenon DEF Tx!FrameIds
    <2> QED BY <2>1, Zenon
  <1>13. Tx!FrameIds(s) \subseteq Tx!FrameIds(q)
    <2>1. Len(s) = m BY <1>2, <1>3
    <2>2. ASSUME NEW g \in Tx!FrameIds(s) PROVE g \in Tx!FrameIds(q)
      <3>1. PICK k \in 1..m : g = s[k][1] BY <2>1, Zenon DEF Tx!FrameIds
      <3>2. PICK x \in 1..Len(q) : x = c + k BY <1>2, <1>9, Zenon
      <3>3. g = q[x][1] BY <1>9, <3>1, <3>2, Zenon
      <3> QED BY <3>3, Zenon DEF Tx!FrameIds
    <2> QED BY <2>2, Zenon
  <1>14. ASSUME NEW f \in Tx!FrameIds(p), NEW g \in Tx!FrameIds(s) PROVE f < g
    <2>1. PICK j \in 1..c : f = p[j][1] BY Zenon DEF Tx!FrameIds
    <2>2. PICK k \in 1..m : g = s[k][1]
      <3>1. Len(s) = m BY <1>2, <1>3
      <3> QED BY <3>1, Zenon DEF Tx!FrameIds
    <2>3. PICK x \in 1..n : x = c + k BY <1>9, Zenon
    <2>4. PICK y \in 2..n : y = c + 1 BY <1>2, <1>3, <2>1, <2>2
    <2>5. c \in 1..n /\ j \in 1..n /\ y \in 1..n /\ j <= c /\ y <= x /\ y - 1 = c
      BY <1>2, <2>1, <2>3, <2>4
    <2>6. f = q[j][1] /\ g = q[x][1] BY <1>9, <2>1, <2>2, <2>3, Zenon
    <2>7. q[j][1] <= q[c][1] /\ q[y][1] <= q[x][1] BY <1>4, <2>5, Zenon
    <2>8. q[c][1] < q[y][1]
      <3>1. (y - 1) % FrameLen = 0 BY <2>5
      <3>2. q[y][2] = 1 + ((y - 1) % FrameLen) BY <1>4, <2>5, Zenon
      <3>3. q[y][2] = 1 BY <3>1, <3>2
      <3>4. q[y - 1][1] < q[y][1] BY <1>4, <3>3, Zenon
      <3> QED BY <2>5, <3>4, Zenon
    <2>9. q[j] \in TxCells /\ q[c] \in TxCells /\ q[y] \in TxCells /\ q[x] \in TxCells
      BY <1>2, <2>5
    <2>10. q[j][1] \in Nat /\ q[c][1] \in Nat /\ q[y][1] \in Nat /\ q[x][1] \in Nat
      BY <2>9, CellNumbers, Zenon
    <2> QED BY <2>6, <2>7, <2>8, <2>10
  <1> QED BY <1>8, <1>11, <1>12, <1>13, <1>14
-----------------------------------------------------------------------------
(* What a send keeps.                                                      *)

\* What the types say.
LEMMA TxTypes ==
    ASSUME Tx!TxAssumption, Tx!TypeOK
    PROVE  /\ tMem \in [0..Size - 1 -> TxCells] /\ txRd \in 0..Mod - 1 /\ txWr \in 0..Mod - 1
           /\ job \in {Tx!Idle} \cup 0..Mod - 1 /\ wptr \in 0..Mod - 1
           /\ frame \in Nat /\ frame <= MaxFrames /\ left \in Seq(Seq(TxCells))
  <1>1. Size \in Nat /\ Mod \in Nat /\ MaxFrames \in Nat BY TxConstants
  <1>2. tMem \in [0..Size - 1 -> TxCells] /\ left \in Seq(Seq(TxCells))
    BY Zenon DEF Tx!TypeOK, TxCells
  <1>3. /\ txRd \in 0..Mod - 1 /\ txWr \in 0..Mod - 1
        /\ job \in {Tx!Idle} \cup 0..Mod - 1 /\ wptr \in 0..Mod - 1 /\ frame \in 0..MaxFrames
    BY Zenon DEF Tx!TypeOK
  <1> QED BY <1>1, <1>2, <1>3

\* The cells from one pointer to another.
HeldCells(m, r, w, h) ==
    /\ h \in 0..Mod - 1 /\ h = (w - r) % Mod /\ w = (r + h) % Mod
    /\ Cells(m, r, w) \in Seq(TxCells) /\ Len(Cells(m, r, w)) = h
    /\ \A k \in 1..h : Cells(m, r, w)[k] = m[Slot(r, k - 1)]

LEMMA CellsHeld ==
    ASSUME Tx!TxAssumption, NEW m \in [0..Size - 1 -> TxCells],
           NEW r \in 0..Mod - 1, NEW w \in 0..Mod - 1
    PROVE  HeldCells(m, r, w, (w - r) % Mod)
  <1>1. Size \in Nat \ {0} /\ Mod \in Nat \ {0} BY TxConstants
  <1>2. (w - r) % Mod \in 0..Mod - 1 /\ (r + ((w - r) % Mod)) % Mod = w
    BY <1>1, PointerOf, Zenon
  <1>3. PICK e \in 0..Mod - 1 : e = (w - r) % Mod BY <1>2, Zenon
  <1>4. PICK d \in 0..Mod - 1 : d = 0 BY <1>1
  <1>5. r = (r + d) % Mod
    <2>1. r % Mod = r BY <1>1, ModSmall
    <2>2. r + d = r BY <1>4
    <2> QED BY <2>1, <2>2, Zenon
  <1>6. w = (r + e) % Mod BY <1>2, <1>3, Zenon
  <1>7. d <= e BY <1>4
  <1>8. Span(m, r, d, e, r, w) BY <1>5, <1>6, <1>7, Zenon DEF Span
  <1>9. SpanCells(m, r, d, e, r, w) BY <1>8, CellsFollow, Zenon
  <1>10. e - d = e /\ \A k \in 1..e : d + k - 1 = k - 1 BY <1>1, <1>4
  <1>11. /\ Cells(m, r, w) \in Seq(TxCells) /\ Len(Cells(m, r, w)) = e
         /\ \A k \in 1..e : Cells(m, r, w)[k] = m[Slot(r, k - 1)]
    BY <1>9, <1>10, Zenon DEF SpanCells
  <1> QED BY <1>3, <1>6, <1>11, Zenon DEF HeldCells

\* What is not sent.
LEMMA UnsentIs ==
    ASSUME Tx!TxAssumption, Tx!TypeOK
    PROVE  /\ HeldCells(tMem, txRd, txWr, Tx!Held)
           /\ Tx!Unsent = Cells(tMem, txRd, txWr)
           /\ Tx!Unsent \in Seq(TxCells) /\ Len(Tx!Unsent) = Tx!Held /\ Tx!Held \in Nat
  <1>1. HeldCells(tMem, txRd, txWr, Tx!Held) BY TxTypes, CellsHeld, Zenon DEF Tx!Held
  <1>2. Tx!Unsent = Cells(tMem, txRd, txWr) BY Zenon DEF Tx!Unsent, Tx!Between, Cells
  <1>3. Tx!Held \in Nat
    <2>1. Tx!Held \in 0..Mod - 1 BY <1>1, Zenon DEF HeldCells
    <2> QED BY <2>1, TxConstants
  <1> QED BY <1>1, <1>2, <1>3, Zenon DEF HeldCells

\* The numbers in a row of cells.
LEMMA IdNumbers ==
    ASSUME Tx!TxAssumption, NEW q \in Seq(TxCells), NEW f \in Tx!FrameIds(q) PROVE f \in Nat
  <1>1. PICK k \in 1..Len(q) : f = q[k][1] BY Zenon DEF Tx!FrameIds
  <1>2. q[k] \in TxCells OBVIOUS
  <1> QED BY <1>1, <1>2, CellNumbers

\* The same cells and the same frames gone: the order stands.
LEMMA ContentKept ==
    ASSUME Tx!TxAssumption, Tx!TypeOK, Tx!ContentInv, Tx!Unsent' = Tx!Unsent, left' = left,
           NEW l \in Int, l = Tx!Last, NEW m \in Int, m = Tx!Last', l <= m
    PROVE  Tx!ContentInv'
  <1>1. Tx!Frames(Tx!Unsent)' BY Zenon DEF Tx!ContentInv, Tx!Frames, Tx!WholeFrames
  <1>2. Tx!WholeFramesInOrder'
    BY DEF Tx!ContentInv, Tx!WholeFramesInOrder
  <1>3. ASSUME NEW n \in 1..Len(left), NEW f \in Tx!FrameIds(left[n]) PROVE f <= m
    <2>1. left \in Seq(Seq(TxCells)) BY TxTypes
    <2>2. left[n] \in Seq(TxCells) BY <2>1
    <2>3. f \in Nat BY <2>2, IdNumbers, Zenon
    <2>4. f <= l BY Zenon DEF Tx!ContentInv
    <2> QED BY <2>3, <2>4
  <1>4. ASSUME NEW g \in Tx!FrameIds(Tx!Unsent) PROVE g <= m
    <2>1. PICK q \in Seq(TxCells) : q = Tx!Unsent BY UnsentIs, Zenon
    <2>2. g \in Nat BY <2>1, IdNumbers, Zenon
    <2>3. g <= l BY Zenon DEF Tx!ContentInv
    <2> QED BY <2>2, <2>3
  <1>5. ASSUME NEW n \in 1..Len(left), NEW f \in Tx!FrameIds(left[n]), NEW g \in Tx!FrameIds(Tx!Unsent)
        PROVE  f < g
    BY Zenon DEF Tx!ContentInv
  <1> QED BY <1>1, <1>2, <1>3, <1>4, <1>5, Zenon DEF Tx!ContentInv

\* The pointers do not move: what the next point of the program asks of them.
LEMMA PointersKept ==
    ASSUME Tx!PointerInv, UNCHANGED <<txRd, txWr>>,
           job' # Tx!Idle => Tx!JobLen' <= Tx!Held /\ Tx!JobLen' % FrameLen = 0,
           tPc' \in {"rdwr", "buf", "wr"} => Tx!Held + FrameLen <= Size,
           tPc' \in {"buf", "wr"} => wptr' = txWr,
           tPc' = "wr" => \A k \in 1..FrameLen : tMem'[((wptr' + k - 1) % Mod) % Size] = Tx!Cell(frame', k),
           tPc' # "idle" => frame' > 0
    PROVE  Tx!PointerInv'
  <1>1. Tx!Held' = Tx!Held BY Zenon DEF Tx!Held
  <1> QED BY <1>1, Zenon DEF Tx!PointerInv, Tx!Cell, Tx!Idle

\* W5500Tx counts with the library's operator.
LEMMA SameCardinality == ASSUME NEW S PROVE Tx!Cardinality(S) = Cardinality(S)
  BY Zenon DEF Cardinality, Tx!Cardinality, IsFiniteSet, Tx!IsFiniteSet

\* Nothing new in IR and no success counted.
LEMMA CountKept ==
    ASSUME Tx!CountInv, oks' = oks, left' = left, Len(left) \in Nat, Cardinality(oks) \in Nat,
           "SEND_OK" \in ir' => "SEND_OK" \in ir, tPc' = "resclr" => res' # {} /\ res' \subseteq ir'
    PROVE  Tx!CountInv'
  <1>1. PICK c \in Nat : c = Cardinality(oks) OBVIOUS
  <1>2. PICK e \in Nat : e = Len(left) OBVIOUS
  <1>3. c + (IF "SEND_OK" \in ir THEN 1 ELSE 0) <= e
    BY <1>1, <1>2, SameCardinality, Zenon DEF Tx!CountInv
  <1>4. c + (IF "SEND_OK" \in ir' THEN 1 ELSE 0) <= e BY <1>3
  <1>5. Tx!Cardinality(oks') = c /\ Len(left') = e BY <1>1, <1>2, SameCardinality, Zenon
  <1> QED BY <1>4, <1>5, Zenon DEF Tx!CountInv

\* Where the frame being written goes: behind what is not sent.
LEMMA WrittenSlots ==
    ASSUME Tx!TxAssumption, Tx!TypeOK, Tx!PointerInv, tPc \in {"buf", "wr"}
    PROVE  /\ \A k \in 1..FrameLen : ((wptr + k - 1) % Mod) % Size = Slot(txRd, Tx!Held + k - 1)
           /\ \A x \in 1..Tx!Held : ((txRd + x - 1) % Mod) % Size = Slot(txRd, x - 1)
           /\ \A x \in 1..Tx!Held + FrameLen : Slot(txRd, x - 1) \in 0..Size - 1
           /\ \A x \in 1..Tx!Held + FrameLen, y \in 1..Tx!Held + FrameLen :
                 x # y => Slot(txRd, x - 1) # Slot(txRd, y - 1)
  <1>1. Size \in Nat \ {0} /\ Mod \in Nat \ {0} /\ FrameLen \in Nat BY TxConstants
  <1>2. PICK h \in 0..Mod - 1 : h = Tx!Held BY UnsentIs, Zenon DEF HeldCells
  <1>3. wptr = txWr /\ txWr = (txRd + h) % Mod /\ h + FrameLen <= Size
    <2>1. txWr = (txRd + h) % Mod BY <1>2, UnsentIs, Zenon DEF HeldCells
    <2> QED BY <1>2, <2>1 DEF Tx!PointerInv
  <1>4. txRd \in 0..Mod - 1 /\ wptr \in 0..Mod - 1 BY TxTypes
  <1>5. ASSUME NEW k \in 1..FrameLen PROVE ((wptr + k - 1) % Mod) % Size = Slot(txRd, h + k - 1)
    <2>1. h \in Int /\ k \in Int BY <1>1
    <2>2. wptr = (txRd + h) % Mod BY <1>3
    <2> QED BY <1>4, <2>1, <2>2, SlotFrom, Zenon
  <1>6. ASSUME NEW x \in 1..h PROVE ((txRd + x - 1) % Mod) % Size = Slot(txRd, x - 1)
    <2>1. PICK z \in Int : z = 0 OBVIOUS
    <2>2. txRd = (txRd + z) % Mod
      <3>1. txRd % Mod = txRd BY <1>1, <1>4, ModSmall
      <3>2. txRd + z = txRd BY <1>4, <2>1
      <3> QED BY <3>1, <3>2, Zenon
    <2>3. x \in Int BY <1>1
    <2>4. ((txRd + x - 1) % Mod) % Size = Slot(txRd, z + x - 1)
      BY <1>4, <2>2, <2>3, SlotFrom, Zenon
    <2>5. z + x - 1 = x - 1 BY <2>1, <2>3
    <2> QED BY <2>4, <2>5, Zenon
  <1>7. txRd \in Int BY <1>1, <1>4
  <1>8. ASSUME NEW x \in 1..h + FrameLen PROVE Slot(txRd, x - 1) \in 0..Size - 1
    BY <1>1, <1>7 DEF Slot
  <1>9. ASSUME NEW x \in 1..h + FrameLen, NEW y \in 1..h + FrameLen, x < y
        PROVE  Slot(txRd, x - 1) # Slot(txRd, y - 1)
    <2>1. PICK u \in Int : u = x - 1 BY <1>1
    <2>2. PICK v \in Int : v = y - 1 BY <1>1
    <2>3. u < v /\ v - u < Size BY <1>1, <1>3, <1>9, <2>1, <2>2
    <2>4. Slot(txRd, u) # Slot(txRd, v) BY <1>7, <2>3, SlotsDiffer, Zenon
    <2> QED BY <2>1, <2>2, <2>4, Zenon
  <1>10. ASSUME NEW x \in 1..h + FrameLen, NEW y \in 1..h + FrameLen, x # y
         PROVE  Slot(txRd, x - 1) # Slot(txRd, y - 1)
    <2>1. x < y \/ y < x BY <1>1, <1>10
    <2>2. CASE x < y BY <1>9, <2>2, Zenon
    <2>3. CASE y < x
      <3>1. Slot(txRd, y - 1) # Slot(txRd, x - 1) BY <1>9, <2>3, Zenon
      <3> QED BY <3>1, Zenon
    <2> QED BY <2>1, <2>2, <2>3, Zenon
  <1> QED BY <1>2, <1>5, <1>6, <1>8, <1>10, Zenon

\* write_tx_buffer, whole or in part: what is not sent stays.
LEMMA WrittenKeeps ==
    ASSUME Tx!TxAssumption, Tx!TypeOK, Tx!PointerInv, tPc = "buf", frame \in 1..MaxFrames,
           NEW n \in 0..FrameLen, tMem' = Tx!Written(n), UNCHANGED <<txRd, txWr>>
    PROVE  /\ tMem' \in [0..Size - 1 -> TxCells] /\ Tx!Unsent' = Tx!Unsent
           /\ \A k \in 1..n : tMem'[((wptr + k - 1) % Mod) % Size] = Tx!Cell(frame, k)
  <1> DEFINE W(k) == ((wptr + k - 1) % Mod) % Size
  <1>1. Size \in Nat \ {0} /\ Mod \in Nat \ {0} /\ FrameLen \in Nat /\ MaxFrames \in Nat BY TxConstants
  <1>2. PICK h \in Nat : h = Tx!Held BY UnsentIs
  <1>3. /\ \A k \in 1..FrameLen : W(k) = Slot(txRd, h + k - 1)
        /\ \A x \in 1..h : ((txRd + x - 1) % Mod) % Size = Slot(txRd, x - 1)
        /\ \A x \in 1..h + FrameLen : Slot(txRd, x - 1) \in 0..Size - 1
        /\ \A x \in 1..h + FrameLen, y \in 1..h + FrameLen :
              x # y => Slot(txRd, x - 1) # Slot(txRd, y - 1)
    <2>1. tPc \in {"buf", "wr"} OBVIOUS
    <2> QED BY <1>2, <2>1, WrittenSlots, Zenon
  <1>4. tMem' = [a \in 0..Size - 1 |-> IF \E k \in 1..n : a = W(k)
                                       THEN Tx!Cell(frame, CHOOSE k \in 1..n : a = W(k))
                                       ELSE tMem[a]]
    BY Zenon DEF Tx!Written
  <1>5. ASSUME NEW k \in 1..n PROVE k \in 1..FrameLen /\ h + k \in 1..h + FrameLen /\ h + k \in Nat
    BY <1>1, <1>2
  <1>6. ASSUME NEW k \in 1..n
        PROVE  /\ W(k) \in 0..Size - 1
               /\ \E x \in 1..h + FrameLen : x = h + k /\ W(k) = Slot(txRd, x - 1)
    <2>1. PICK x \in 1..h + FrameLen : x = h + k BY <1>5, Zenon
    <2>2. W(k) = Slot(txRd, h + k - 1) BY <1>3, <1>5, Zenon
    <2>3. h + k - 1 = x - 1 BY <2>1
    <2>4. W(k) = Slot(txRd, x - 1) BY <2>2, <2>3, Zenon
    <2>5. Slot(txRd, x - 1) \in 0..Size - 1 BY <1>3, Zenon
    <2> QED BY <2>1, <2>4, <2>5, Zenon
  <1>7. ASSUME NEW k \in 1..n, NEW j \in 1..n, W(j) = W(k) PROVE j = k
    <2>1. PICK x \in 1..h + FrameLen : x = h + k /\ W(k) = Slot(txRd, x - 1) BY <1>6, Zenon
    <2>2. PICK y \in 1..h + FrameLen : y = h + j /\ W(j) = Slot(txRd, y - 1) BY <1>6, Zenon
    <2>3. Slot(txRd, x - 1) = Slot(txRd, y - 1) BY <1>7, <2>1, <2>2, Zenon
    <2>4. x = y BY <1>3, <2>3, Zenon
    <2> QED BY <1>1, <1>2, <2>1, <2>2, <2>4
  <1>8. tMem \in [0..Size - 1 -> TxCells] BY TxTypes
  <1>9. ASSUME NEW k \in 1..n PROVE tMem'[W(k)] = Tx!Cell(frame, k)
    <2>1. PICK a \in 0..Size - 1 : a = W(k) BY <1>6, Zenon
    <2>2. PICK j : j = CHOOSE i \in 1..n : a = W(i) OBVIOUS
    <2>3. j \in 1..n /\ a = W(j) BY <2>1, <2>2, Zenon
    <2>4. j = k BY <1>7, <2>1, <2>3, Zenon
    <2>5. tMem'[a] = Tx!Cell(frame, j) BY <1>4, <2>1, <2>2, Zenon
    <2> QED BY <2>1, <2>4, <2>5, Zenon
  <1>10. ASSUME NEW a \in 0..Size - 1, \A k \in 1..n : a # W(k) PROVE tMem'[a] = tMem[a]
    BY <1>4, <1>10, Zenon
  <1>11. tMem' \in [0..Size - 1 -> TxCells]
    <2>1. ASSUME NEW a \in 0..Size - 1 PROVE tMem'[a] \in TxCells
      <3>1. CASE \E k \in 1..n : a = W(k)
        <4>1. PICK k \in 1..n : a = W(k) BY <3>1
        <4>2. tMem'[a] = Tx!Cell(frame, k) BY <1>9, <4>1, Zenon
        <4>3. k \in 1..FrameLen BY <1>5, Zenon
        <4> QED BY <4>2, <4>3, CellOf, Zenon
      <3>2. CASE \A k \in 1..n : a # W(k)
        <4>1. tMem'[a] = tMem[a] BY <1>10, <3>2, Zenon
        <4> QED BY <1>8, <4>1
      <3> QED BY <3>1, <3>2, Zenon
    <2>2. tMem' = [a \in 0..Size - 1 |-> tMem'[a]] BY <1>4, Zenon
    <2> QED BY <2>1, <2>2, Zenon
  <1>12. ASSUME NEW x \in 1..h
         PROVE  tMem'[((txRd + x - 1) % Mod) % Size] = tMem[((txRd + x - 1) % Mod) % Size]
    <2>1. PICK a \in 0..Size - 1 : a = Slot(txRd, x - 1)
      <3>1. x \in 1..h + FrameLen BY <1>1
      <3> QED BY <1>3, <3>1, Zenon
    <2>2. ASSUME NEW k \in 1..n PROVE a # W(k)
      <3>1. PICK y \in 1..h + FrameLen : y = h + k /\ W(k) = Slot(txRd, y - 1) BY <1>6, Zenon
      <3>2. x \in 1..h + FrameLen /\ x # y BY <1>1, <3>1
      <3>3. Slot(txRd, x - 1) # Slot(txRd, y - 1) BY <1>3, <3>2, Zenon
      <3> QED BY <2>1, <3>1, <3>3, Zenon
    <2>3. tMem'[a] = tMem[a] BY <1>10, <2>2, Zenon
    <2> QED BY <1>3, <2>1, <2>3, Zenon
  <1>13. Tx!Unsent' = Tx!Unsent
    <2>1. Tx!Unsent = [x \in 1..h |-> tMem[((txRd + x - 1) % Mod) % Size]]
      BY <1>2, Zenon DEF Tx!Unsent, Tx!Between, Tx!Held
    <2>2. Tx!Unsent' = [x \in 1..h |-> tMem'[((txRd + x - 1) % Mod) % Size]]
      BY <1>2, Zenon DEF Tx!Unsent, Tx!Between, Tx!Held
    <2> QED BY <1>12, <2>1, <2>2, Zenon
  <1> QED BY <1>9, <1>11, <1>13, Zenon

\* TX_WR is written: the frame is behind what is not sent, whole.
LEMMA Published ==
    ASSUME Tx!TxAssumption, Tx!TypeOK, Tx!PointerInv, Tx!ContentInv, tPc = "wr",
           txWr' = Tx!NewTxWr, UNCHANGED <<tMem, txRd>>
    PROVE  /\ txWr' \in 0..Mod - 1 /\ Tx!Held' = Tx!Held + FrameLen /\ Tx!Held' % FrameLen = 0
           /\ Tx!Held' <= Size /\ frame \in 1..MaxFrames
           /\ Tx!Unsent' \in Seq(TxCells) /\ Tx!Frames(Tx!Unsent')
           /\ Tx!FrameIds(Tx!Unsent') = Tx!FrameIds(Tx!Unsent) \cup {frame}
  <1>1. /\ Size \in Nat \ {0} /\ Mod \in Nat \ {0} /\ Size < Mod /\ FrameLen \in Nat \ {0}
        /\ MaxFrames \in Nat
    BY TxConstants
  <1>2. PICK h \in 0..Mod - 1 : h = Tx!Held BY UnsentIs, Zenon DEF HeldCells
  <1>3. /\ tMem \in [0..Size - 1 -> TxCells] /\ txRd \in 0..Mod - 1 /\ txWr \in 0..Mod - 1
        /\ frame \in Nat /\ frame <= MaxFrames
    BY TxTypes
  <1>4. /\ wptr = txWr /\ h + FrameLen <= Size /\ h % FrameLen = 0 /\ frame > 0
        /\ \A k \in 1..FrameLen : tMem[((wptr + k - 1) % Mod) % Size] = Tx!Cell(frame, k)
    BY <1>2 DEF Tx!PointerInv
  <1>5. txWr = (txRd + h) % Mod BY <1>2, UnsentIs, Zenon DEF HeldCells
  <1>6. PICK e \in 0..Mod - 1 : e = h + FrameLen BY <1>1, <1>4
  <1>7. PICK d \in 0..Mod - 1 : d = FrameLen BY <1>1, <1>4
  <1>8. txWr' = (txRd + e) % Mod
    <2>1. PICK n \in Int : n = txRd + h BY <1>1, <1>3
    <2>2. n % Mod = txWr /\ d \in Int BY <1>1, <1>5, <2>1
    <2>3. (txWr + d) % Mod = (n + d) % Mod BY <1>1, <1>3, <2>2, ModShift, Zenon
    <2>4. n + d = txRd + e BY <1>3, <1>6, <1>7, <2>1
    <2>5. txWr' = (txWr + d) % Mod BY <1>4, <1>7, Zenon DEF Tx!NewTxWr
    <2> QED BY <2>3, <2>4, <2>5, Zenon
  <1>9. (txRd + e) % Mod \in 0..Mod - 1 /\ (((txRd + e) % Mod) - txRd) % Mod = e
    BY <1>1, <1>3, DistanceOf, Zenon
  <1>10. PICK w \in 0..Mod - 1 : w = txWr' BY <1>8, <1>9, Zenon
  <1>11. (w - txRd) % Mod = e BY <1>8, <1>9, <1>10, Zenon
  <1>12. HeldCells(tMem, txRd, w, e) BY <1>3, <1>11, CellsHeld, Zenon
  <1>13. PICK r : r = Cells(tMem, txRd, w) OBVIOUS
  <1>14. /\ r \in Seq(TxCells) /\ Len(r) = e /\ \A k \in 1..e : r[k] = tMem[Slot(txRd, k - 1)]
    BY <1>12, <1>13, Zenon DEF HeldCells
  <1>15. Tx!Held' = e BY <1>10, <1>11, Zenon DEF Tx!Held
  <1>16. Tx!Unsent' = r BY <1>10, <1>13, Zenon DEF Tx!Unsent, Tx!Between, Cells
  <1>17. PICK q \in Seq(TxCells) : q = Tx!Unsent BY UnsentIs, Zenon
  <1>18. Len(q) = h /\ \A k \in 1..h : q[k] = tMem[Slot(txRd, k - 1)]
    BY <1>2, <1>17, UnsentIs, Zenon DEF HeldCells
  <1>19. \A k \in 1..Len(q) : r[k] = q[k]
    <2>1. \A k \in 1..h : k \in 1..e BY <1>1, <1>6
    <2> QED BY <1>14, <1>18, <2>1, Zenon
  <1>20. ASSUME NEW k \in 1..FrameLen PROVE r[Len(q) + k] = Tx!Cell(frame, k)
    <2>1. PICK x \in 1..e : x = h + k BY <1>1, <1>6
    <2>2. r[x] = tMem[Slot(txRd, x - 1)] BY <1>14, Zenon
    <2>3. ((wptr + k - 1) % Mod) % Size = Slot(txRd, h + k - 1)
      <3>1. tPc \in {"buf", "wr"} OBVIOUS
      <3> QED BY <1>2, <3>1, WrittenSlots, Zenon
    <2>4. h + k - 1 = x - 1 BY <2>1
    <2>5. r[x] = Tx!Cell(frame, k) BY <1>4, <2>2, <2>3, <2>4, Zenon
    <2> QED BY <1>18, <2>1, <2>5, Zenon
  <1>21. frame \in 1..MaxFrames BY <1>1, <1>3, <1>4
  <1>22. ASSUME NEW g \in Tx!FrameIds(q) PROVE g < frame
    <2>1. g \in Nat BY <1>17, IdNumbers, Zenon
    <2>2. Tx!Last = frame - 1 BY DEF Tx!Last
    <2>3. g <= frame - 1 BY <1>17, <2>2, Zenon DEF Tx!ContentInv
    <2> QED BY <1>3, <2>1, <2>3
  <1>23. Tx!Frames(q) BY <1>17, Zenon DEF Tx!ContentInv
  <1>24. Len(r) = Len(q) + FrameLen BY <1>6, <1>14, <1>18
  <1>25. Tx!Frames(r) /\ Tx!FrameIds(r) = Tx!FrameIds(q) \cup {frame}
    BY <1>14, <1>19, <1>20, <1>21, <1>22, <1>23, <1>24, FramesGrow, Zenon
  <1>26. Tx!Held' % FrameLen = 0
    <2>1. Len(r) % FrameLen = 0 BY <1>25, Zenon DEF Tx!Frames, Tx!WholeFrames
    <2> QED BY <1>14, <1>15, <2>1, Zenon
  <1>27. Tx!Held' <= Size /\ Tx!Held' = Tx!Held + FrameLen BY <1>2, <1>4, <1>6, <1>15
  <1> QED BY <1>10, <1>14, <1>16, <1>17, <1>21, <1>25, <1>26, <1>27, Zenon

\* What the SEND under way takes and what it leaves.
Cut(p, s) ==
    /\ p \in Seq(TxCells) /\ s \in Seq(TxCells) /\ Tx!Frames(p) /\ Tx!Frames(s)
    /\ Tx!FrameIds(p) \subseteq Tx!FrameIds(Tx!Unsent)
    /\ Tx!FrameIds(s) \subseteq Tx!FrameIds(Tx!Unsent)
    /\ \A f \in Tx!FrameIds(p), g \in Tx!FrameIds(s) : f < g

LEMMA SendCuts ==
    ASSUME Tx!TxAssumption, Tx!TypeOK, Tx!PointerInv, Tx!ContentInv, job # Tx!Idle
    PROVE  /\ Tx!Between(txRd, job) = Cells(tMem, txRd, job)
           /\ Cut(Cells(tMem, txRd, job), Cells(tMem, job, txWr)) /\ job \in 0..Mod - 1
           /\ job = txWr => Cells(tMem, txRd, job) = Tx!Unsent
           /\ (txWr - job) % Mod <= Size /\ ((txWr - job) % Mod) % FrameLen = 0
  <1>1. /\ Size \in Nat \ {0} /\ Mod \in Nat \ {0} /\ Size < Mod /\ FrameLen \in Nat \ {0}
    BY TxConstants
  <1>2. PICK h \in 0..Mod - 1 : h = Tx!Held BY UnsentIs, Zenon DEF HeldCells
  <1>3. /\ tMem \in [0..Size - 1 -> TxCells] /\ txRd \in 0..Mod - 1 /\ txWr \in 0..Mod - 1
        /\ job \in 0..Mod - 1
    BY TxTypes
  <1>4. HeldCells(tMem, txRd, job, Tx!JobLen) BY <1>3, CellsHeld, Zenon DEF Tx!JobLen
  <1>5. PICK c \in 0..Mod - 1 : c = Tx!JobLen BY <1>4, Zenon DEF HeldCells
  <1>6. c <= h /\ c % FrameLen = 0 /\ h <= Size /\ h % FrameLen = 0
    BY <1>2, <1>5 DEF Tx!PointerInv
  <1>7. txWr = (txRd + h) % Mod BY <1>2, UnsentIs, Zenon DEF HeldCells
  <1>8. job = (txRd + c) % Mod BY <1>4, <1>5, Zenon DEF HeldCells
  <1>9. Span(tMem, txRd, c, h, job, txWr) BY <1>3, <1>6, <1>7, <1>8, Zenon DEF Span
  <1>10. SpanCells(tMem, txRd, c, h, job, txWr) BY <1>9, CellsFollow, Zenon
  <1>11. PICK p : p = Cells(tMem, txRd, job) OBVIOUS
  <1>12. PICK s : s = Cells(tMem, job, txWr) OBVIOUS
  <1>13. PICK q \in Seq(TxCells) : q = Tx!Unsent BY UnsentIs, Zenon
  <1>14. p \in Seq(TxCells) /\ Len(p) = c /\ \A k \in 1..c : p[k] = tMem[Slot(txRd, k - 1)]
    BY <1>4, <1>5, <1>11, Zenon DEF HeldCells
  <1>15. /\ s \in Seq(TxCells) /\ Len(s) = h - c /\ (txWr - job) % Mod = h - c
         /\ \A k \in 1..h - c : s[k] = tMem[Slot(txRd, c + k - 1)]
    BY <1>10, <1>12, Zenon DEF SpanCells
  <1>16. Len(q) = h /\ \A k \in 1..h : q[k] = tMem[Slot(txRd, k - 1)]
    BY <1>2, <1>13, UnsentIs, Zenon DEF HeldCells
  <1>17. \A k \in 1..c : p[k] = q[k]
    <2>1. \A k \in 1..c : k \in 1..h BY <1>6
    <2> QED BY <1>14, <1>16, <2>1, Zenon
  <1>18. ASSUME NEW k \in 1..Len(q) - c PROVE s[k] = q[c + k]
    <2>1. k \in 1..h - c BY <1>16
    <2>2. PICK x \in 1..h : x = c + k BY <1>6, <2>1
    <2>3. c + k - 1 = x - 1 BY <2>2
    <2> QED BY <1>15, <1>16, <2>1, <2>2, <2>3, Zenon
  <1>19. c \in 0..Len(q) /\ Len(s) = Len(q) - c BY <1>6, <1>15, <1>16
  <1>20. Tx!Frames(q) BY <1>13, Zenon DEF Tx!ContentInv
  <1>21. /\ Tx!Frames(p) /\ Tx!Frames(s)
         /\ Tx!FrameIds(p) \subseteq Tx!FrameIds(q) /\ Tx!FrameIds(s) \subseteq Tx!FrameIds(q)
         /\ \A f \in Tx!FrameIds(p), g \in Tx!FrameIds(s) : f < g
    BY <1>6, <1>14, <1>15, <1>17, <1>18, <1>19, <1>20, FramesCut, Zenon
  <1>22. Cut(p, s) BY <1>13, <1>14, <1>15, <1>21, Zenon DEF Cut
  <1>23. (txWr - job) % Mod <= Size
    <2>1. h - c <= Size BY <1>1, <1>6
    <2> QED BY <1>15, <2>1, Zenon
  <1>24. ((txWr - job) % Mod) % FrameLen = 0
    <2>1. Len(s) % FrameLen = 0 BY <1>21, Zenon DEF Tx!Frames, Tx!WholeFrames
    <2> QED BY <1>15, <2>1, Zenon
  <1>25. Tx!Between(txRd, job) = Cells(tMem, txRd, job) BY Zenon DEF Tx!Between, Cells
  <1>26. job = txWr => Cells(tMem, txRd, job) = Tx!Unsent BY UnsentIs, Zenon
  <1> QED BY <1>3, <1>11, <1>12, <1>22, <1>23, <1>24, <1>25, <1>26, Zenon

\* The frames that leave are behind those that have left and before those that stay.
LEMMA ContentCut ==
    ASSUME Tx!TxAssumption, Tx!TypeOK, Tx!ContentInv, NEW p, NEW s, Cut(p, s), Tx!Unsent' = s,
           left' \in {left, Append(left, p)}, Tx!Last' = Tx!Last
    PROVE  Tx!ContentInv'
  <1>1. left \in Seq(Seq(TxCells)) /\ p \in Seq(TxCells) BY TxTypes DEF Cut
  <1>2. PICK e \in Nat : e = Len(left) BY <1>1
  <1>3. PICK l : l = Tx!Last OBVIOUS
  <1>4. PICK u : u = Tx!FrameIds(Tx!Unsent) OBVIOUS
  <1>5. /\ Tx!Frames(s) /\ Tx!FrameIds(p) \subseteq u /\ Tx!FrameIds(s) \subseteq u
        /\ \A f \in Tx!FrameIds(p), g \in Tx!FrameIds(s) : f < g
        /\ Tx!WholeFrames(p)
        /\ \A k \in 2..Len(p) : p[k][2] = 1 => p[k - 1][1] < p[k][1]
    BY <1>4, Zenon DEF Cut, Tx!Frames
  <1>6. /\ \A n \in 1..e : \A f \in Tx!FrameIds(left[n]) : f <= l /\ \A g \in u : f < g
        /\ \A g \in u : g <= l
    BY <1>2, <1>3, <1>4, Zenon DEF Tx!ContentInv
  <1>7. /\ \A n \in 1..e : Tx!WholeFrames(left[n])
        /\ \A n \in 1..e : \A k \in 2..Len(left[n]) :
             left[n][k][2] = 1 => left[n][k - 1][1] < left[n][k][1]
        /\ \A m, n \in 1..e : m < n =>
             \A f \in Tx!FrameIds(left[m]), g \in Tx!FrameIds(left[n]) : f < g
    BY <1>2, Zenon DEF Tx!ContentInv, Tx!WholeFramesInOrder
  <1>8. CASE left' = left
    <2>1. Len(left') = e BY <1>2, <1>8
    <2>2. Tx!WholeFramesInOrder' BY <1>7, <1>8, <2>1, Zenon DEF Tx!WholeFramesInOrder
    <2>3. \A n \in 1..Len(left') : \A f \in Tx!FrameIds(left'[n]) :
             f <= Tx!Last' /\ \A g \in Tx!FrameIds(Tx!Unsent') : f < g
      BY <1>3, <1>5, <1>6, <1>8, <2>1, Zenon
    <2>4. \A g \in Tx!FrameIds(Tx!Unsent') : g <= Tx!Last' BY <1>3, <1>5, <1>6, Zenon
    <2> QED BY <1>5, <2>2, <2>3, <2>4, Zenon DEF Tx!ContentInv
  <1>9. CASE left' = Append(left, p)
    <2>1. PICK x \in Nat : x = e + 1 OBVIOUS
    <2>2. Len(left') = x /\ left'[x] = p /\ \A n \in 1..e : left'[n] = left[n]
      BY <1>1, <1>2, <1>9, <2>1
    <2>3. \A n \in 1..x : n \in 1..e \/ n = x BY <2>1
    <2>4. ASSUME NEW m \in 1..x, NEW n \in 1..x, m < n PROVE m \in 1..e BY <2>1, <2>4
    <2>5. \A n \in 1..x : Tx!WholeFrames(left'[n]) BY <1>5, <1>7, <2>2, <2>3, Zenon
    <2>6. ASSUME NEW n \in 1..x, NEW k \in 2..Len(left'[n]), left'[n][k][2] = 1
          PROVE  left'[n][k - 1][1] < left'[n][k][1]
      <3>1. CASE n \in 1..e
        <4>1. left'[n] = left[n] BY <2>2, <3>1, Zenon
        <4> QED BY <1>7, <2>6, <3>1, <4>1, Zenon
      <3>2. CASE n = x
        <4>1. left'[n] = p BY <2>2, <3>2, Zenon
        <4> QED BY <1>5, <2>6, <4>1, Zenon
      <3> QED BY <2>3, <3>1, <3>2, Zenon
    <2>7. ASSUME NEW m \in 1..x, NEW n \in 1..x, m < n,
                 NEW f \in Tx!FrameIds(left'[m]), NEW g \in Tx!FrameIds(left'[n])
          PROVE  f < g
      <3>1. m \in 1..e /\ left'[m] = left[m] BY <2>2, <2>4, <2>7, Zenon
      <3>2. CASE n \in 1..e
        <4>1. left'[n] = left[n] BY <2>2, <3>2, Zenon
        <4> QED BY <1>7, <2>7, <3>1, <3>2, <4>1, Zenon
      <3>3. CASE n = x
        <4>1. g \in u BY <1>5, <2>2, <3>3, Zenon
        <4> QED BY <1>6, <3>1, <4>1, Zenon
      <3> QED BY <2>3, <3>2, <3>3, Zenon
    <2>8. Tx!WholeFramesInOrder' BY <2>2, <2>5, <2>6, <2>7, Zenon DEF Tx!WholeFramesInOrder
    <2>9. ASSUME NEW n \in 1..x, NEW f \in Tx!FrameIds(left'[n])
          PROVE  f <= l /\ \A g \in Tx!FrameIds(s) : f < g
      <3>1. CASE n \in 1..e BY <1>5, <1>6, <2>2, <3>1, Zenon
      <3>2. CASE n = x
        <4>1. f \in Tx!FrameIds(p) BY <2>2, <3>2, Zenon
        <4> QED BY <1>5, <1>6, <4>1, Zenon
      <3> QED BY <2>3, <3>1, <3>2, Zenon
    <2>10. \A g \in Tx!FrameIds(s) : g <= l BY <1>5, <1>6, Zenon
    <2> QED BY <1>3, <1>5, <2>2, <2>8, <2>9, <2>10, Zenon DEF Tx!ContentInv
  <1> QED BY <1>8, <1>9, Zenon

\* The points before TX_WR is written.
Early == {"free", "rdwr", "buf", "wr"}

\* The frame last made visible never goes back.
LEMMA LastKept ==
    ASSUME Tx!TxAssumption, Tx!TypeOK, frame' = frame, tPc' \in Early => tPc \in Early
    PROVE  \E l, m \in Int : l = Tx!Last /\ m = Tx!Last' /\ l <= m
  <1>1. frame \in Int BY TxTypes
  <1>2. PICK l \in Int : l = Tx!Last BY <1>1 DEF Tx!Last
  <1>3. PICK m \in Int : m = Tx!Last' BY <1>1 DEF Tx!Last
  <1>4. l <= m BY <1>1, <1>2, <1>3 DEF Tx!Last, Early
  <1> QED BY <1>2, <1>3, <1>4, Zenon

\* The successes are counted.
LEMMA SuccessCount ==
    ASSUME Tx!TxAssumption, Tx!TypeOK
    PROVE  IsFiniteSet(oks) /\ Cardinality(oks) \in Nat /\ Len(left) \in Nat
  <1>1. oks \subseteq 1..MaxFrames BY Zenon DEF Tx!TypeOK
  <1>2. MaxFrames \in Int BY TxConstants
  <1>3. IsFiniteSet(1..MaxFrames) BY <1>2, FS_Interval
  <1>4. IsFiniteSet(oks) BY <1>1, <1>3, FS_Subset
  <1>5. left \in Seq(Seq(TxCells)) BY TxTypes
  <1> QED BY <1>4, <1>5, FS_CardinalityType

\* The parts of the invariant, and what they are about.
LEMMA TxParts ==
    ASSUME Tx!TxAssumption, Tx!TxInv
    PROVE  /\ Tx!TypeOK /\ Tx!PointerInv /\ Tx!ContentInv /\ Tx!CountInv
           /\ Tx!SmoothInv /\ Tx!OkMeansLeft
  BY DEF Tx!TxInv

\* No frame is made visible or sent, none is counted: what is left to show.
LEMMA TxQuiet ==
    ASSUME Tx!TxAssumption, Tx!TxInv, Tx!Unsent' = Tx!Unsent,
           UNCHANGED <<txRd, txWr, frame, left, oks>>,
           Tx!TypeOK', smooth' => smooth, Tx!SmoothInv',
           job' # Tx!Idle => Tx!JobLen' <= Tx!Held /\ Tx!JobLen' % FrameLen = 0,
           "SEND_OK" \in ir' => "SEND_OK" \in ir,
           tPc' = "resclr" => res' # {} /\ res' \subseteq ir',
           tPc' \in Early => tPc \in Early,
           tPc' \in {"rdwr", "buf", "wr"} => Tx!Held + FrameLen <= Size,
           tPc' \in {"buf", "wr"} => wptr' = txWr,
           tPc' = "wr" => \A k \in 1..FrameLen : tMem'[((wptr' + k - 1) % Mod) % Size] = Tx!Cell(frame', k),
           tPc' # "idle" => tPc # "idle"
    PROVE  Tx!TxInv'
  <1>1. Tx!TypeOK /\ Tx!PointerInv /\ Tx!ContentInv /\ Tx!CountInv /\ Tx!OkMeansLeft BY TxParts
  <1>2. Tx!PointerInv'
    <2>1. tPc' # "idle" => frame' > 0 BY <1>1 DEF Tx!PointerInv
    <2> QED BY <1>1, <2>1, PointersKept, Zenon
  <1>3. Tx!ContentInv'
    <2>1. \E l, m \in Int : l = Tx!Last /\ m = Tx!Last' /\ l <= m BY <1>1, LastKept, Zenon
    <2> QED BY <1>1, <2>1, ContentKept, Zenon
  <1>4. Tx!CountInv' BY <1>1, SuccessCount, CountKept, Zenon
  <1>5. Tx!OkMeansLeft' BY <1>1, Zenon DEF Tx!OkMeansLeft, Tx!LeftFrames
  <1> QED BY <1>2, <1>3, <1>4, <1>5, Zenon DEF Tx!TxInv

-----------------------------------------------------------------------------
(* Every step of a send keeps the invariant.                               *)

\* Where a failed transfer is: the send ends, what is in the buffer stays.
LEMMA TxFailed ==
    ASSUME Tx!TxAssumption, Tx!TxInv, Tx!Failed, Tx!Unsent' = Tx!Unsent,
           UNCHANGED <<txRd, txWr, job>>, tMem' \in [0..Size - 1 -> TxCells],
           tCr' \in BOOLEAN, ir' \subseteq ir
    PROVE  Tx!TxInv'
  <1>1. Tx!TypeOK /\ Tx!PointerInv BY TxParts
  <1>2. /\ tNf < TxFaults /\ tNf' = tNf + 1 /\ tPc' = "idle" /\ tPolls' = 0 /\ smooth' = FALSE
        /\ UNCHANGED <<frame, wptr, res, left, oks>>
    BY DEF Tx!Failed, Tx!Fault, Tx!Goto
  <1>3. Tx!TypeOK'
    <2>1. tNf' \in 0..TxFaults /\ tPolls' \in 0..MaxPolls
      <3>1. tNf \in 0..TxFaults BY <1>1, Zenon DEF Tx!TypeOK
      <3> QED BY <1>2, <3>1, TxConstants
    <2>2. tPc' \in Tx!Points BY <1>2 DEF Tx!Points
    <2>3. smooth' \in BOOLEAN BY <1>2, Zenon
    <2>4. ir' \subseteq Tx!SendBits BY <1>1, Zenon DEF Tx!TypeOK
    <2> QED BY <1>1, <1>2, <2>1, <2>2, <2>3, <2>4, Zenon DEF Tx!TypeOK, TxCells
  <1>4. Tx!SmoothInv' BY <1>2, Zenon DEF Tx!SmoothInv
  <1>5. tPc' \notin Early /\ tPc' \notin {"rdwr", "buf", "wr"} /\ tPc' \notin {"buf", "wr"}
    BY <1>2 DEF Early
  <1>6. job' # Tx!Idle => Tx!JobLen' <= Tx!Held /\ Tx!JobLen' % FrameLen = 0
    BY <1>1, Zenon DEF Tx!PointerInv, Tx!JobLen, Tx!Idle
  <1>7. ~smooth' /\ tPc' # "wr" /\ tPc' # "resclr" BY <1>2
  <1> QED BY <1>2, <1>3, <1>4, <1>5, <1>6, <1>7, TxQuiet, Zenon

\* The failing alternatives of the transfers that do not touch the chip.
LEMMA TxReadFailed ==
    ASSUME Tx!TxAssumption, Tx!TxInv, Tx!Failed, UNCHANGED Tx!chipVars PROVE Tx!TxInv'
  <1>1. UNCHANGED <<tMem, txRd, txWr, tCr, job, ir>> BY DEF Tx!chipVars
  <1>2. Tx!TypeOK BY TxParts
  <1>3. Tx!Unsent' = Tx!Unsent BY <1>1, Zenon DEF Tx!Unsent, Tx!Between
  <1>4. tMem' \in [0..Size - 1 -> TxCells] BY <1>1, <1>2, TxTypes
  <1>5. tCr' \in BOOLEAN BY <1>1, <1>2, Zenon DEF Tx!TypeOK
  <1> QED BY <1>1, <1>3, <1>4, <1>5, TxFailed, Zenon

\* The driver goes from one point to the next and moves no pointer of the chip.
LEMMA TxGoes ==
    ASSUME Tx!TxAssumption, Tx!TxInv, UNCHANGED <<tMem, txRd, txWr, job>>,
           tCr' \in BOOLEAN, ir' \subseteq ir, UNCHANGED <<frame, tNf, left, oks, smooth>>,
           tPc' \in Tx!Points, tPolls' \in 0..MaxPolls, wptr' \in 0..Mod - 1,
           res' \subseteq Tx!SendBits, Tx!SmoothInv',
           tPc' = "resclr" => res' # {} /\ res' \subseteq ir',
           tPc' \in Early => tPc \in Early,
           tPc' \in {"rdwr", "buf", "wr"} => Tx!Held + FrameLen <= Size,
           tPc' \in {"buf", "wr"} => wptr' = txWr, tPc' # "wr", tPc # "idle"
    PROVE  Tx!TxInv'
  <1>1. Tx!TypeOK /\ Tx!PointerInv BY TxParts
  <1>2. Tx!Unsent' = Tx!Unsent BY Zenon DEF Tx!Unsent, Tx!Between
  <1>3. Tx!TypeOK'
    <2>1. smooth' \in BOOLEAN BY <1>1, Zenon DEF Tx!TypeOK
    <2>2. ir' \subseteq Tx!SendBits BY <1>1, Zenon DEF Tx!TypeOK
    <2> QED BY <1>1, <2>1, <2>2, Zenon DEF Tx!TypeOK
  <1>4. job' # Tx!Idle => Tx!JobLen' <= Tx!Held /\ Tx!JobLen' % FrameLen = 0
    BY <1>1, Zenon DEF Tx!PointerInv, Tx!JobLen, Tx!Idle
  <1> QED BY <1>2, <1>3, <1>4, TxQuiet, Zenon

\* The same when the chip does not move.
LEMMA TxMoves ==
    ASSUME Tx!TxAssumption, Tx!TxInv, UNCHANGED Tx!chipVars,
           UNCHANGED <<frame, tNf, left, oks, smooth>>,
           tPc' \in Tx!Points, tPolls' \in 0..MaxPolls, wptr' \in 0..Mod - 1,
           res' \subseteq Tx!SendBits, Tx!SmoothInv',
           tPc' = "resclr" => res' # {} /\ res' \subseteq ir,
           tPc' \in Early => tPc \in Early,
           tPc' \in {"rdwr", "buf", "wr"} => Tx!Held + FrameLen <= Size,
           tPc' \in {"buf", "wr"} => wptr' = txWr, tPc' # "wr", tPc # "idle"
    PROVE  Tx!TxInv'
  <1>1. UNCHANGED <<tMem, txRd, txWr, tCr, job, ir>> BY DEF Tx!chipVars
  <1>2. Tx!TypeOK BY TxParts
  <1>3. tCr' \in BOOLEAN /\ ir' \subseteq ir BY <1>1, <1>2, Zenon DEF Tx!TypeOK
  <1> QED BY <1>1, <1>3, TxGoes, Zenon

\* What the history and the buffer say does not change.
LEMMA TxSame ==
    ASSUME UNCHANGED Tx!chipVars, UNCHANGED <<frame, left>>
    PROVE  /\ UNCHANGED <<tMem, txRd, txWr, tCr, job, ir>>
           /\ Tx!Unsent' = Tx!Unsent /\ Tx!LeftFrames' = Tx!LeftFrames
  <1>1. UNCHANGED <<tMem, txRd, txWr, tCr, job, ir>> BY DEF Tx!chipVars
  <1> QED BY <1>1, Zenon DEF Tx!Unsent, Tx!Between, Tx!LeftFrames

\* What the types say of the driver's own variables.
LEMMA TxDriver ==
    ASSUME Tx!TxAssumption, Tx!TxInv
    PROVE  /\ tPc \in Tx!Points /\ tPolls \in 0..MaxPolls /\ wptr \in 0..Mod - 1
           /\ res \subseteq Tx!SendBits /\ ir \subseteq Tx!SendBits /\ tNf \in 0..TxFaults
           /\ 0 \in 0..MaxPolls
  <1>1. Tx!TypeOK BY TxParts
  <1>2. 0 \in 0..MaxPolls BY TxConstants
  <1> QED BY <1>1, <1>2, Zenon DEF Tx!TypeOK

\* A register is polled again, or the wait is given up.
LEMMA TxPoll ==
    ASSUME Tx!TxAssumption, Tx!TxInv, Tx!Poll, tPc \in {"free", "crwait", "result"}
    PROVE  Tx!TxInv'
  <1>1. UNCHANGED Tx!chipVars /\ UNCHANGED <<frame, wptr, res, tNf, left, oks>> BY DEF Tx!Poll
  <1>2. /\ UNCHANGED <<tMem, txRd, txWr, tCr, job, ir>>
        /\ Tx!Unsent' = Tx!Unsent /\ Tx!LeftFrames' = Tx!LeftFrames
    BY <1>1, TxSame, Zenon
  <1>3. Tx!TypeOK /\ Tx!PointerInv /\ Tx!SmoothInv BY TxParts
  <1>4. wptr' \in 0..Mod - 1 /\ res' \subseteq Tx!SendBits BY <1>1, TxDriver, Zenon
  <1>5. CASE Tx!PollAgain
    <2>1. tPolls < MaxPolls /\ tPolls' = tPolls + 1 /\ tPc' = tPc /\ smooth' = smooth
      BY <1>5 DEF Tx!PollAgain
    <2>2. tPolls' \in 0..MaxPolls BY <2>1, TxDriver, TxConstants
    <2>3. Tx!SmoothInv' BY <1>1, <1>2, <1>3, <2>1, Zenon DEF Tx!SmoothInv, Tx!Idle
    <2>4. tPc' \in Tx!Points BY <2>1, TxDriver, Zenon
    <2>5. /\ tPc' \notin {"rdwr", "buf", "wr"} /\ tPc' \notin {"buf", "wr"}
          /\ tPc' # "wr" /\ tPc' # "resclr" /\ tPc # "idle"
      BY <2>1
    <2>6. tPc' \in Early => tPc \in Early BY <2>1
    <2> QED BY <1>1, <1>4, <2>1, <2>2, <2>3, <2>4, <2>5, <2>6, TxMoves, Zenon
  <1>6. CASE Tx!GiveUp
    <2>1. tPc' = "idle" /\ tPolls' = 0 /\ smooth' = (smooth /\ ~tCr /\ job = Tx!Idle)
      BY <1>6 DEF Tx!GiveUp, Tx!Goto
    <2>2. Tx!TypeOK'
      <3>1. tCr' \in BOOLEAN /\ smooth' \in BOOLEAN BY <1>2, <1>3, <2>1, Zenon DEF Tx!TypeOK
      <3>2. tPc' \in Tx!Points BY <2>1 DEF Tx!Points
      <3>3. tPolls' \in 0..MaxPolls BY <2>1, TxDriver, Zenon
      <3> QED BY <1>1, <1>2, <1>3, <3>1, <3>2, <3>3, Zenon DEF Tx!TypeOK
    <2>3. smooth' => smooth /\ ~tCr' /\ job' = Tx!Idle BY <1>2, <2>1, Zenon
    <2>4. tPc' \notin {"crwait", "result", "resclr"} /\ tPc' \notin {"crwait", "result"}
          /\ tPc' \notin {"clr", "cmd"} /\ tPc' # "result" /\ tPc' # "cmd"
      BY <2>1
    <2>5. Tx!SmoothInv' BY <2>3, <2>4, Zenon DEF Tx!SmoothInv, Tx!Idle
    <2>6. /\ tPc' \notin Early /\ tPc' \notin {"rdwr", "buf", "wr"} /\ tPc' \notin {"buf", "wr"}
          /\ tPc' # "wr" /\ tPc' # "resclr"
      BY <2>1 DEF Early
    <2>7. job' # Tx!Idle => Tx!JobLen' <= Tx!Held /\ Tx!JobLen' % FrameLen = 0
      BY <1>2, <1>3, Zenon DEF Tx!PointerInv, Tx!JobLen, Tx!Idle
    <2> QED BY <1>1, <1>2, <2>1, <2>2, <2>3, <2>5, <2>6, <2>7, TxQuiet, Zenon
  <1> QED BY <1>5, <1>6 DEF Tx!Poll

\* wait_for_tx_free: there is room for the frame.
LEMMA TxWaitForTxFree == ASSUME Tx!TxAssumption, Tx!TxInv, Tx!WaitForTxFree PROVE Tx!TxInv'
  <1>1. tPc = "free" BY DEF Tx!WaitForTxFree
  <1>2. CASE Tx!Failed /\ UNCHANGED Tx!chipVars BY <1>2, TxReadFailed, Zenon
  <1>3. CASE Tx!Poll
    <2>1. tPc \in {"free", "crwait", "result"} BY <1>1
    <2> QED BY <1>3, <2>1, TxPoll, Zenon
  <1>4. CASE /\ Tx!FreeSize >= FrameLen /\ Tx!Goto("rdwr") /\ UNCHANGED Tx!chipVars
             /\ UNCHANGED <<frame, wptr, res, tNf, left, oks, smooth>>
    <2>1. tPc' = "rdwr" /\ tPolls' = 0 BY <1>4 DEF Tx!Goto
    <2>2. /\ UNCHANGED <<tMem, txRd, txWr, tCr, job, ir>>
          /\ Tx!Unsent' = Tx!Unsent /\ Tx!LeftFrames' = Tx!LeftFrames
      BY <1>4, TxSame, Zenon
    <2>3. Tx!TypeOK /\ Tx!SmoothInv BY TxParts
    <2>4. Tx!Held + FrameLen <= Size
      <3>1. PICK h \in Nat : h = Tx!Held BY <2>3, UnsentIs
      <3>2. Size - h >= FrameLen BY <1>4, <3>1, Zenon DEF Tx!FreeSize, Tx!Held
      <3> QED BY <3>1, <3>2, TxConstants
    <2>5. Tx!SmoothInv' BY <1>1, <1>4, <2>1, <2>2, <2>3 DEF Tx!SmoothInv, Tx!Idle
    <2>6. /\ tPc' \in Tx!Points /\ tPc' # "wr" /\ tPc' # "resclr" /\ tPc # "idle"
          /\ tPc \in Early /\ tPc' \notin {"buf", "wr"}
      BY <1>1, <2>1 DEF Tx!Points, Early
    <2>7. wptr' \in 0..Mod - 1 /\ res' \subseteq Tx!SendBits /\ tPolls' \in 0..MaxPolls
      BY <1>4, <2>1, TxDriver, Zenon
    <2> QED BY <1>4, <2>4, <2>5, <2>6, <2>7, TxMoves, Zenon
  <1> QED BY <1>2, <1>3, <1>4 DEF Tx!WaitForTxFree

\* TX_WR: nobody but the driver moves it.
LEMMA TxReadTxWr == ASSUME Tx!TxAssumption, Tx!TxInv, Tx!ReadTxWr PROVE Tx!TxInv'
  <1>1. tPc = "rdwr" BY DEF Tx!ReadTxWr
  <1>2. CASE Tx!Failed /\ UNCHANGED Tx!chipVars BY <1>2, TxReadFailed, Zenon
  <1>3. CASE /\ wptr' = txWr /\ Tx!Goto("buf") /\ UNCHANGED Tx!chipVars
             /\ UNCHANGED <<frame, res, tNf, left, oks, smooth>>
    <2>1. tPc' = "buf" /\ tPolls' = 0 BY <1>3 DEF Tx!Goto
    <2>2. /\ UNCHANGED <<tMem, txRd, txWr, tCr, job, ir>>
          /\ Tx!Unsent' = Tx!Unsent /\ Tx!LeftFrames' = Tx!LeftFrames
      BY <1>3, TxSame, Zenon
    <2>3. Tx!TypeOK /\ Tx!SmoothInv /\ Tx!PointerInv BY TxParts
    <2>4. Tx!Held + FrameLen <= Size BY <1>1, <2>3 DEF Tx!PointerInv
    <2>5. Tx!SmoothInv' BY <1>1, <1>3, <2>1, <2>2, <2>3 DEF Tx!SmoothInv, Tx!Idle
    <2>6. /\ tPc' \in Tx!Points /\ tPc' # "wr" /\ tPc' # "resclr" /\ tPc # "idle" /\ tPc \in Early
      BY <1>1, <2>1 DEF Tx!Points, Early
    <2>7. res' \subseteq Tx!SendBits /\ tPolls' \in 0..MaxPolls
      BY <1>3, <2>1, TxDriver, Zenon
    <2>8. wptr' \in 0..Mod - 1 BY <1>3, <2>3, TxTypes
    <2> QED BY <1>3, <2>4, <2>5, <2>6, <2>7, <2>8, TxMoves, Zenon
  <1> QED BY <1>2, <1>3 DEF Tx!ReadTxWr

\* write_tx_buffer: the frame is in the buffer, or a part of it where nothing is looked for.
LEMMA TxWriteTxBuffer == ASSUME Tx!TxAssumption, Tx!TxInv, Tx!WriteTxBuffer PROVE Tx!TxInv'
  <1>1. tPc = "buf" /\ UNCHANGED <<txRd, txWr, tCr, job, ir>> BY DEF Tx!WriteTxBuffer
  <1>2. Tx!TypeOK /\ Tx!SmoothInv /\ Tx!PointerInv BY TxParts
  <1>3. frame \in 1..MaxFrames
    <2>1. frame > 0 BY <1>1, <1>2 DEF Tx!PointerInv
    <2> QED BY <1>2, <2>1, TxTypes, TxConstants
  <1>4. ASSUME NEW n \in 0..FrameLen, tMem' = Tx!Written(n)
        PROVE  /\ tMem' \in [0..Size - 1 -> TxCells] /\ Tx!Unsent' = Tx!Unsent
               /\ \A k \in 1..n : tMem'[((wptr + k - 1) % Mod) % Size] = Tx!Cell(frame, k)
    BY <1>1, <1>2, <1>3, <1>4, WrittenKeeps, Zenon
  <1>5. CASE (\E n \in 0..FrameLen : tMem' = Tx!Written(n)) /\ Tx!Failed
    <2>1. tMem' \in [0..Size - 1 -> TxCells] /\ Tx!Unsent' = Tx!Unsent BY <1>4, <1>5, Zenon
    <2>2. tCr' \in BOOLEAN /\ ir' \subseteq ir BY <1>1, <1>2, Zenon DEF Tx!TypeOK
    <2> QED BY <1>1, <1>5, <2>1, <2>2, TxFailed, Zenon
  <1>6. CASE /\ tMem' = Tx!Written(FrameLen) /\ Tx!Goto("wr")
             /\ UNCHANGED <<frame, wptr, res, tNf, left, oks, smooth>>
    <2>1. tPc' = "wr" /\ tPolls' = 0 BY <1>6 DEF Tx!Goto
    <2>2. FrameLen \in 0..FrameLen BY TxConstants
    <2>3. /\ tMem' \in [0..Size - 1 -> TxCells] /\ Tx!Unsent' = Tx!Unsent
          /\ \A k \in 1..FrameLen : tMem'[((wptr + k - 1) % Mod) % Size] = Tx!Cell(frame, k)
      BY <1>4, <1>6, <2>2, Zenon
    <2>4. Tx!Held + FrameLen <= Size /\ wptr' = txWr BY <1>1, <1>2, <1>6 DEF Tx!PointerInv
    <2>5. Tx!LeftFrames' = Tx!LeftFrames BY <1>6, Zenon DEF Tx!LeftFrames
    <2>6. Tx!SmoothInv' BY <1>1, <1>2, <1>6, <2>1, <2>3, <2>5 DEF Tx!SmoothInv, Tx!Idle
    <2>7. /\ tPc' \in Tx!Points /\ tPc' # "resclr" /\ tPc # "idle" /\ tPc \in Early
      BY <1>1, <2>1 DEF Tx!Points, Early
    <2>8. Tx!TypeOK'
      <3>1. tCr' \in BOOLEAN /\ smooth' \in BOOLEAN BY <1>1, <1>2, <1>6, Zenon DEF Tx!TypeOK
      <3>2. tPolls' \in 0..MaxPolls BY <2>1, TxDriver, Zenon
      <3> QED BY <1>1, <1>2, <1>6, <2>3, <2>7, <3>1, <3>2, Zenon DEF Tx!TypeOK, TxCells
    <2>9. job' # Tx!Idle => Tx!JobLen' <= Tx!Held /\ Tx!JobLen' % FrameLen = 0
      BY <1>1, <1>2, Zenon DEF Tx!PointerInv, Tx!JobLen, Tx!Idle
    <2>10. \A k \in 1..FrameLen : tMem'[((wptr' + k - 1) % Mod) % Size] = Tx!Cell(frame', k)
      BY <1>6, <2>3, Zenon
    <2> QED BY <1>1, <1>6, <2>3, <2>4, <2>6, <2>7, <2>8, <2>9, <2>10, TxQuiet, Zenon
  <1> QED BY <1>5, <1>6 DEF Tx!WriteTxBuffer

\* The write of TX_WR makes the frame visible to the next SEND.
LEMMA TxPublish ==
    ASSUME Tx!TxAssumption, Tx!TxInv, tPc = "wr", txWr' = Tx!NewTxWr,
           UNCHANGED <<tMem, txRd, tCr, job, ir, frame, wptr, res, left, oks>>,
           tPc' \in {"idle", "clr"}, tPolls' = 0, tNf' \in 0..TxFaults,
           smooth' \in BOOLEAN, smooth' => smooth
    PROVE  Tx!TxInv'
  <1>1. /\ Tx!TypeOK /\ Tx!PointerInv /\ Tx!ContentInv /\ Tx!CountInv
        /\ Tx!SmoothInv /\ Tx!OkMeansLeft
    BY TxParts
  <1>2. /\ txWr' \in 0..Mod - 1 /\ Tx!Held' = Tx!Held + FrameLen /\ Tx!Held' % FrameLen = 0
        /\ Tx!Held' <= Size /\ frame \in 1..MaxFrames
        /\ Tx!Unsent' \in Seq(TxCells) /\ Tx!Frames(Tx!Unsent')
        /\ Tx!FrameIds(Tx!Unsent') = Tx!FrameIds(Tx!Unsent) \cup {frame}
    BY <1>1, Published, Zenon
  <1>3. PICK f \in Nat : f = frame BY <1>1, TxTypes
  <1>4. Tx!Last = f - 1 /\ Tx!Last' = f BY <1>3 DEF Tx!Last
  <1>5. Tx!TypeOK'
    <2>1. tCr' \in BOOLEAN BY <1>1, Zenon DEF Tx!TypeOK
    <2>2. tPolls' \in 0..MaxPolls BY TxDriver, Zenon
    <2>3. tPc' \in Tx!Points BY DEF Tx!Points
    <2> QED BY <1>1, <1>2, <2>1, <2>2, <2>3, Zenon DEF Tx!TypeOK
  <1>6. Tx!PointerInv'
    <2>1. job' # Tx!Idle => Tx!JobLen' <= Tx!Held' /\ Tx!JobLen' % FrameLen = 0
      <3>1. Tx!JobLen' = Tx!JobLen BY Zenon DEF Tx!JobLen
      <3>2. ASSUME job # Tx!Idle PROVE Tx!JobLen <= Tx!Held' /\ Tx!JobLen % FrameLen = 0
        <4>1. Tx!JobLen <= Tx!Held /\ Tx!JobLen % FrameLen = 0 BY <1>1, <3>2, Zenon DEF Tx!PointerInv
        <4>2. PICK h \in Nat : h = Tx!Held BY <1>1, UnsentIs
        <4>3. PICK j \in Int : j = Tx!JobLen
          <5>1. job \in Int /\ txRd \in Int BY <1>1, <3>2, TxTypes, TxConstants
          <5> QED BY <5>1, TxConstants DEF Tx!JobLen
        <4>4. j <= h + FrameLen BY <4>1, <4>2, <4>3, TxConstants
        <4> QED BY <1>2, <4>1, <4>2, <4>3, <4>4, Zenon
      <3> QED BY <3>1, <3>2, Zenon DEF Tx!Idle
    <2>2. tPc' \notin {"rdwr", "buf", "wr"} /\ tPc' \notin {"buf", "wr"} /\ tPc' # "wr" OBVIOUS
    <2>3. frame' > 0 BY <1>2
    <2> QED BY <1>2, <2>1, <2>2, <2>3, Zenon DEF Tx!PointerInv
  <1>7. Tx!ContentInv'
    <2>1. Tx!WholeFramesInOrder' BY <1>1 DEF Tx!ContentInv, Tx!WholeFramesInOrder
    <2>2. ASSUME NEW n \in 1..Len(left), NEW g \in Tx!FrameIds(left[n])
          PROVE  g < f /\ g <= f /\ \A x \in Tx!FrameIds(Tx!Unsent) : g < x
      <3>1. left \in Seq(Seq(TxCells)) BY <1>1, TxTypes
      <3>2. left[n] \in Seq(TxCells) BY <3>1
      <3>3. g \in Nat BY <3>2, IdNumbers, Zenon
      <3>4. g <= f - 1 /\ \A x \in Tx!FrameIds(Tx!Unsent) : g < x
        BY <1>1, <1>4, Zenon DEF Tx!ContentInv
      <3>5. g < f /\ g <= f BY <3>3, <3>4
      <3> QED BY <3>4, <3>5, Zenon
    <2>3. ASSUME NEW g \in Tx!FrameIds(Tx!Unsent) PROVE g <= f
      <3>1. PICK q \in Seq(TxCells) : q = Tx!Unsent BY <1>1, UnsentIs, Zenon
      <3>2. g \in Nat BY <3>1, IdNumbers, Zenon
      <3>3. g <= f - 1 BY <1>1, <1>4, Zenon DEF Tx!ContentInv
      <3> QED BY <3>2, <3>3
    <2>4. f <= f OBVIOUS
    <2>5. \A n \in 1..Len(left) : \A g \in Tx!FrameIds(left[n]) :
             g <= f /\ \A x \in Tx!FrameIds(Tx!Unsent') : g < x
      BY <1>2, <1>3, <2>2, Zenon
    <2>6. \A g \in Tx!FrameIds(Tx!Unsent') : g <= f BY <1>2, <1>3, <2>3, <2>4, Zenon
    <2> QED BY <1>2, <1>4, <2>1, <2>5, <2>6, Zenon DEF Tx!ContentInv
  <1>8. Tx!CountInv'
    <2>1. tPc' # "resclr" OBVIOUS
    <2> QED BY <1>1, <2>1, SuccessCount, CountKept, Zenon
  <1>9. Tx!LeftFrames' = Tx!LeftFrames BY Zenon DEF Tx!LeftFrames
  <1>10. Tx!SmoothInv'
    <2>1. frame' \in Tx!FrameIds(Tx!Unsent') BY <1>2, Zenon
    <2>2. smooth => ~tCr /\ job = Tx!Idle
      <3>1. tPc \notin {"crwait", "result"} OBVIOUS
      <3> QED BY <1>1, <3>1, Zenon DEF Tx!SmoothInv
    <2>3. smooth' => ~tCr' /\ job' = Tx!Idle BY <2>2, Zenon
    <2>4. tPc' \notin {"crwait", "result", "resclr"} /\ tPc' \notin {"crwait", "result"}
          /\ tPc' # "result" /\ tPc' # "cmd"
      OBVIOUS
    <2> QED BY <2>1, <2>3, <2>4, Zenon DEF Tx!SmoothInv, Tx!Idle
  <1>11. Tx!OkMeansLeft' BY <1>1, <1>9, Zenon DEF Tx!OkMeansLeft
  <1> QED BY <1>5, <1>6, <1>7, <1>8, <1>10, <1>11, Zenon DEF Tx!TxInv

LEMMA TxWriteTxWr == ASSUME Tx!TxAssumption, Tx!TxInv, Tx!WriteTxWr PROVE Tx!TxInv'
  <1>1. tPc = "wr" /\ UNCHANGED <<tMem, txRd, tCr, job, ir>> BY DEF Tx!WriteTxWr
  <1>2. Tx!TypeOK BY TxParts
  <1>3. CASE /\ txWr' = Tx!NewTxWr /\ Tx!Goto("clr")
             /\ UNCHANGED <<frame, wptr, res, tNf, left, oks, smooth>>
    <2>1. tPc' = "clr" /\ tPolls' = 0 BY <1>3 DEF Tx!Goto
    <2>2. tPc' \in {"idle", "clr"} BY <2>1
    <2>3. tNf' \in 0..TxFaults BY <1>3, TxDriver, Zenon
    <2>4. smooth' \in BOOLEAN /\ (smooth' => smooth) BY <1>2, <1>3, Zenon DEF Tx!TypeOK
    <2> QED BY <1>1, <1>3, <2>1, <2>2, <2>3, <2>4, TxPublish, Zenon
  <1>4. CASE txWr' = Tx!NewTxWr /\ Tx!Failed
    <2>1. /\ tNf < TxFaults /\ tNf' = tNf + 1 /\ tPc' = "idle" /\ tPolls' = 0 /\ smooth' = FALSE
          /\ UNCHANGED <<frame, wptr, res, left, oks>>
      BY <1>4 DEF Tx!Failed, Tx!Fault, Tx!Goto
    <2>2. tPc' \in {"idle", "clr"} BY <2>1
    <2>3. tNf' \in 0..TxFaults BY <2>1, TxDriver, TxConstants
    <2>4. smooth' \in BOOLEAN /\ (smooth' => smooth) BY <2>1, Zenon
    <2> QED BY <1>1, <1>4, <2>1, <2>2, <2>3, <2>4, TxPublish, Zenon
  <1>5. CASE txWr' = txWr /\ Tx!Failed
    <2>1. UNCHANGED Tx!chipVars BY <1>1, <1>5 DEF Tx!chipVars
    <2> QED BY <1>5, <2>1, TxReadFailed, Zenon
  <1> QED BY <1>3, <1>4, <1>5 DEF Tx!WriteTxWr

\* The old result bits go before SEND.
LEMMA TxClearStale == ASSUME Tx!TxAssumption, Tx!TxInv, Tx!ClearStale PROVE Tx!TxInv'
  <1>1. tPc = "clr" /\ UNCHANGED <<tMem, txRd, txWr, tCr, job>> BY DEF Tx!ClearStale
  <1>2. Tx!TypeOK /\ Tx!SmoothInv BY TxParts
  <1>3. Tx!Unsent' = Tx!Unsent BY <1>1, Zenon DEF Tx!Unsent, Tx!Between
  <1>4. tCr' \in BOOLEAN /\ tMem' \in [0..Size - 1 -> TxCells]
    <2>1. tCr' \in BOOLEAN BY <1>1, <1>2, Zenon DEF Tx!TypeOK
    <2>2. tMem \in [0..Size - 1 -> TxCells] BY <1>2, TxTypes
    <2> QED BY <1>1, <2>1, <2>2, Zenon
  <1>5. CASE ir' \in {ir, ir \ Tx!SendBits} /\ Tx!Failed
    <2>1. ir' \subseteq ir BY <1>5
    <2> QED BY <1>1, <1>3, <1>4, <1>5, <2>1, TxFailed, Zenon
  <1>6. CASE /\ ir' = ir \ Tx!SendBits /\ Tx!Goto("cmd")
             /\ UNCHANGED <<frame, wptr, res, tNf, left, oks, smooth>>
    <2>1. tPc' = "cmd" /\ tPolls' = 0 BY <1>6 DEF Tx!Goto
    <2>2. ir' = {} /\ ir' \subseteq ir BY <1>6, TxDriver
    <2>3. Tx!LeftFrames' = Tx!LeftFrames BY <1>6, Zenon DEF Tx!LeftFrames
    <2>4. Tx!SmoothInv' BY <1>1, <1>2, <1>3, <1>6, <2>1, <2>2, <2>3 DEF Tx!SmoothInv, Tx!Idle
    <2>5. /\ tPc' \in Tx!Points /\ tPc' # "wr" /\ tPc' # "resclr" /\ tPc # "idle"
          /\ tPc' \notin Early /\ tPc' \notin {"buf", "wr"} /\ tPc' \notin {"rdwr", "buf", "wr"}
      BY <1>1, <2>1 DEF Tx!Points, Early
    <2>6. wptr' \in 0..Mod - 1 /\ res' \subseteq Tx!SendBits /\ tPolls' \in 0..MaxPolls
      BY <1>6, <2>1, TxDriver, Zenon
    <2> QED BY <1>1, <1>4, <1>6, <2>2, <2>4, <2>5, <2>6, TxGoes, Zenon
  <1> QED BY <1>5, <1>6 DEF Tx!ClearStale

\* SEND is written.
LEMMA TxWriteCommand == ASSUME Tx!TxAssumption, Tx!TxInv, Tx!WriteCommand PROVE Tx!TxInv'
  <1>1. tPc = "cmd" /\ UNCHANGED <<tMem, txRd, txWr, job, ir>> BY DEF Tx!WriteCommand
  <1>2. Tx!TypeOK /\ Tx!SmoothInv BY TxParts
  <1>3. Tx!Unsent' = Tx!Unsent BY <1>1, Zenon DEF Tx!Unsent, Tx!Between
  <1>4. CASE tCr' \in {tCr, TRUE} /\ Tx!Failed
    <2>1. tCr' \in BOOLEAN BY <1>2, <1>4, Zenon DEF Tx!TypeOK
    <2>2. tMem' \in [0..Size - 1 -> TxCells] /\ ir' \subseteq ir BY <1>1, <1>2, TxTypes, Zenon
    <2> QED BY <1>1, <1>3, <1>4, <2>1, <2>2, TxFailed, Zenon
  <1>5. CASE /\ tCr' = TRUE /\ Tx!Goto("crwait")
             /\ UNCHANGED <<frame, wptr, res, tNf, left, oks, smooth>>
    <2>1. tPc' = "crwait" /\ tPolls' = 0 BY <1>5 DEF Tx!Goto
    <2>2. Tx!LeftFrames' = Tx!LeftFrames BY <1>5, Zenon DEF Tx!LeftFrames
    <2>3. Tx!SmoothInv' BY <1>1, <1>2, <1>3, <1>5, <2>1, <2>2 DEF Tx!SmoothInv, Tx!Idle
    <2>4. /\ tPc' \in Tx!Points /\ tPc' # "wr" /\ tPc' # "resclr" /\ tPc # "idle"
          /\ tPc' \notin Early /\ tPc' \notin {"buf", "wr"} /\ tPc' \notin {"rdwr", "buf", "wr"}
      BY <1>1, <2>1 DEF Tx!Points, Early
    <2>5. wptr' \in 0..Mod - 1 /\ res' \subseteq Tx!SendBits /\ tPolls' \in 0..MaxPolls
      BY <1>5, <2>1, TxDriver, Zenon
    <2>6. tCr' \in BOOLEAN /\ ir' \subseteq ir BY <1>1, <1>5, Zenon
    <2> QED BY <1>1, <1>5, <2>3, <2>4, <2>5, <2>6, TxGoes, Zenon
  <1> QED BY <1>4, <1>5 DEF Tx!WriteCommand

\* SEND is accepted.
LEMMA TxWaitForCommand == ASSUME Tx!TxAssumption, Tx!TxInv, Tx!WaitForCommand PROVE Tx!TxInv'
  <1>1. tPc = "crwait" BY DEF Tx!WaitForCommand
  <1>2. CASE Tx!Failed /\ UNCHANGED Tx!chipVars BY <1>2, TxReadFailed, Zenon
  <1>3. CASE Tx!Poll
    <2>1. tPc \in {"free", "crwait", "result"} BY <1>1
    <2> QED BY <1>3, <2>1, TxPoll, Zenon
  <1>4. CASE /\ ~tCr /\ Tx!Goto("result") /\ UNCHANGED Tx!chipVars
             /\ UNCHANGED <<frame, wptr, res, tNf, left, oks, smooth>>
    <2>1. tPc' = "result" /\ tPolls' = 0 BY <1>4 DEF Tx!Goto
    <2>2. /\ UNCHANGED <<tMem, txRd, txWr, tCr, job, ir>>
          /\ Tx!Unsent' = Tx!Unsent /\ Tx!LeftFrames' = Tx!LeftFrames
      BY <1>4, TxSame, Zenon
    <2>3. Tx!TypeOK /\ Tx!SmoothInv BY TxParts
    <2>4. Tx!SmoothInv' BY <1>1, <1>4, <2>1, <2>2, <2>3 DEF Tx!SmoothInv, Tx!Idle
    <2>5. /\ tPc' \in Tx!Points /\ tPc' # "wr" /\ tPc' # "resclr" /\ tPc # "idle"
          /\ tPc' \notin Early /\ tPc' \notin {"buf", "wr"} /\ tPc' \notin {"rdwr", "buf", "wr"}
      BY <1>1, <2>1 DEF Tx!Points, Early
    <2>6. wptr' \in 0..Mod - 1 /\ res' \subseteq Tx!SendBits /\ tPolls' \in 0..MaxPolls
      BY <1>4, <2>1, TxDriver, Zenon
    <2> QED BY <1>4, <2>4, <2>5, <2>6, TxMoves, Zenon
  <1> QED BY <1>2, <1>3, <1>4 DEF Tx!WaitForCommand

\* IR has a result.
LEMMA TxWaitForResult == ASSUME Tx!TxAssumption, Tx!TxInv, Tx!WaitForResult PROVE Tx!TxInv'
  <1>1. tPc = "result" BY DEF Tx!WaitForResult
  <1>2. CASE Tx!Failed /\ UNCHANGED Tx!chipVars BY <1>2, TxReadFailed, Zenon
  <1>3. CASE Tx!PollResult
    <2>1. tPc \in {"free", "crwait", "result"} BY <1>1
    <2> QED BY <1>3, <2>1, TxPoll, Zenon DEF Tx!PollResult
  <1>4. CASE /\ ir \cap Tx!SendBits # {} /\ res' = ir \cap Tx!SendBits /\ Tx!Goto("resclr")
             /\ UNCHANGED Tx!chipVars /\ UNCHANGED <<frame, wptr, tNf, left, oks, smooth>>
    <2>1. tPc' = "resclr" /\ tPolls' = 0 BY <1>4 DEF Tx!Goto
    <2>2. /\ UNCHANGED <<tMem, txRd, txWr, tCr, job, ir>>
          /\ Tx!Unsent' = Tx!Unsent /\ Tx!LeftFrames' = Tx!LeftFrames
      BY <1>4, TxSame, Zenon
    <2>3. Tx!TypeOK /\ Tx!SmoothInv BY TxParts
    <2>4. ir # {} BY <1>4
    <2>5. Tx!SmoothInv' BY <1>1, <1>4, <2>1, <2>2, <2>3, <2>4 DEF Tx!SmoothInv, Tx!Idle
    <2>6. /\ tPc' \in Tx!Points /\ tPc' # "wr" /\ tPc # "idle"
          /\ tPc' \notin Early /\ tPc' \notin {"buf", "wr"} /\ tPc' \notin {"rdwr", "buf", "wr"}
      BY <1>1, <2>1 DEF Tx!Points, Early
    <2>7. wptr' \in 0..Mod - 1 /\ tPolls' \in 0..MaxPolls BY <1>4, <2>1, TxDriver, Zenon
    <2>8. res' # {} /\ res' \subseteq ir /\ res' \subseteq Tx!SendBits BY <1>4
    <2> QED BY <1>4, <2>5, <2>6, <2>7, <2>8, TxMoves, Zenon
  <1> QED BY <1>2, <1>3, <1>4 DEF Tx!WaitForResult

\* The result is taken: a success is that of the SEND whose bit is cleared.
LEMMA TxTakeResult == ASSUME Tx!TxAssumption, Tx!TxInv, Tx!TakeResult PROVE Tx!TxInv'
  <1>1. tPc = "resclr" /\ UNCHANGED <<tMem, txRd, txWr, tCr, job>> BY DEF Tx!TakeResult
  <1>2. /\ Tx!TypeOK /\ Tx!SmoothInv /\ Tx!PointerInv /\ Tx!ContentInv /\ Tx!CountInv
        /\ Tx!OkMeansLeft
    BY TxParts
  <1>3. Tx!Unsent' = Tx!Unsent BY <1>1, Zenon DEF Tx!Unsent, Tx!Between
  <1>4. tCr' \in BOOLEAN /\ tMem' \in [0..Size - 1 -> TxCells]
    <2>1. tCr' \in BOOLEAN BY <1>1, <1>2, Zenon DEF Tx!TypeOK
    <2>2. tMem \in [0..Size - 1 -> TxCells] BY <1>2, TxTypes
    <2> QED BY <1>1, <2>1, <2>2, Zenon
  <1>5. CASE ir' \in {ir, ir \ res} /\ Tx!Failed
    <2>1. ir' \subseteq ir BY <1>5
    <2> QED BY <1>1, <1>3, <1>4, <1>5, <2>1, TxFailed, Zenon
  <1>6. CASE /\ ir' = ir \ res /\ Tx!Goto("idle")
             /\ oks' = IF "TIMEOUT" \in res THEN oks ELSE oks \cup {frame}
             /\ UNCHANGED <<frame, wptr, res, tNf, left, smooth>>
    <2>1. tPc' = "idle" /\ tPolls' = 0 BY <1>6 DEF Tx!Goto
    <2>2. Tx!LeftFrames' = Tx!LeftFrames BY <1>6, Zenon DEF Tx!LeftFrames
    <2>3. res # {} /\ res \subseteq ir BY <1>1, <1>2 DEF Tx!CountInv
    <2>4. "TIMEOUT" \notin res => "SEND_OK" \in res /\ "SEND_OK" \in ir /\ "SEND_OK" \notin ir'
      BY <1>6, <2>3, TxDriver DEF Tx!SendBits
    <2>5. frame \in 1..MaxFrames
      <3>1. frame > 0 BY <1>1, <1>2 DEF Tx!PointerInv
      <3> QED BY <1>2, <3>1, TxTypes, TxConstants
    <2>6. Tx!TypeOK'
      <3>1. smooth' \in BOOLEAN BY <1>2, <1>6, Zenon DEF Tx!TypeOK
      <3>2. tPc' \in Tx!Points BY <2>1 DEF Tx!Points
      <3>3. tPolls' \in 0..MaxPolls BY <2>1, TxDriver, Zenon
      <3>4. oks' \subseteq 1..MaxFrames BY <1>2, <1>6, <2>5, Zenon DEF Tx!TypeOK
      <3>5. ir' \subseteq Tx!SendBits BY <1>6, TxDriver
      <3> QED BY <1>1, <1>2, <1>4, <1>6, <3>1, <3>2, <3>3, <3>4, <3>5, Zenon DEF Tx!TypeOK
    <2>7. tPc' \notin {"rdwr", "buf", "wr"} /\ tPc' \notin {"buf", "wr"} /\ tPc' # "wr"
          /\ tPc' \notin Early /\ tPc' # "resclr"
      BY <2>1 DEF Early
    <2>8. Tx!PointerInv'
      <3>1. job' # Tx!Idle => Tx!JobLen' <= Tx!Held /\ Tx!JobLen' % FrameLen = 0
        BY <1>1, <1>2, Zenon DEF Tx!PointerInv, Tx!JobLen, Tx!Idle
      <3> QED BY <1>1, <1>2, <2>1, <2>7, <3>1, PointersKept, Zenon
    <2>9. Tx!ContentInv'
      <3>1. \E l, m \in Int : l = Tx!Last /\ m = Tx!Last' /\ l <= m
        BY <1>2, <1>6, <2>7, LastKept, Zenon
      <3> QED BY <1>2, <1>3, <1>6, <3>1, ContentKept, Zenon
    <2>10. Tx!CountInv'
      <3>1. PICK c \in Nat : c = Cardinality(oks) BY <1>2, SuccessCount
      <3>2. PICK e \in Nat : e = Len(left) BY <1>2, SuccessCount
      <3>3. PICK d \in Nat : d = Cardinality(oks') /\ d <= c + 1 /\ (oks' = oks => d = c)
        <4>1. IsFiniteSet(oks) BY <1>2, SuccessCount, Zenon
        <4>2. CASE oks' = oks BY <3>1, <4>2
        <4>3. CASE oks' = oks \cup {frame}
          <5>1. Cardinality(oks \cup {frame}) = IF frame \in oks THEN c ELSE c + 1
            BY <3>1, <4>1, FS_AddElement
          <5>2. frame \in oks => oks' = oks BY <4>3
          <5>3. CASE frame \in oks BY <3>1, <5>2, <5>3
          <5>4. CASE frame \notin oks
            <6>1. oks' # oks BY <4>3, <5>4
            <6> QED BY <4>3, <5>1, <5>4, <6>1
          <5> QED BY <5>3, <5>4
        <4> QED BY <1>6, <4>2, <4>3, Zenon
      <3>4. c + (IF "SEND_OK" \in ir THEN 1 ELSE 0) <= e
        BY <1>2, <3>1, <3>2, SameCardinality, Zenon DEF Tx!CountInv
      <3>5. d + (IF "SEND_OK" \in ir' THEN 1 ELSE 0) <= e
        <4>1. CASE "TIMEOUT" \in res
          <5>1. d = c BY <1>6, <3>3, <4>1
          <5>2. "SEND_OK" \in ir' => "SEND_OK" \in ir BY <1>6
          <5> QED BY <3>4, <5>1, <5>2
        <4>2. CASE "TIMEOUT" \notin res BY <2>4, <3>3, <3>4, <4>2
        <4> QED BY <4>1, <4>2
      <3>6. Tx!Cardinality(oks') = d /\ Len(left') = e BY <1>6, <3>2, <3>3, SameCardinality, Zenon
      <3> QED BY <2>7, <3>5, <3>6, Zenon DEF Tx!CountInv
    <2>11. Tx!SmoothInv' BY <1>1, <1>2, <1>3, <1>6, <2>1, <2>2 DEF Tx!SmoothInv, Tx!Idle
    <2>12. Tx!OkMeansLeft'
      <3>1. ASSUME smooth PROVE oks' \subseteq Tx!LeftFrames
        <4>1. oks \subseteq Tx!LeftFrames BY <1>2, <3>1, Zenon DEF Tx!OkMeansLeft
        <4>2. "SEND_OK" \in ir => frame \in Tx!LeftFrames
          <5>1. tPc \in {"crwait", "result", "resclr"} BY <1>1
          <5> QED BY <1>2, <3>1, <5>1, Zenon DEF Tx!SmoothInv
        <4> QED BY <1>6, <2>4, <4>1, <4>2, Zenon
      <3> QED BY <1>6, <2>2, <3>1, Zenon DEF Tx!OkMeansLeft
    <2> QED BY <2>6, <2>8, <2>9, <2>10, <2>11, <2>12, Zenon DEF Tx!TxInv
  <1> QED BY <1>5, <1>6 DEF Tx!TakeResult

\* The next frame is handed over.
LEMMA TxSend == ASSUME Tx!TxAssumption, Tx!TxInv, Tx!Send PROVE Tx!TxInv'
  <1>1. /\ tPc = "idle" /\ frame < MaxFrames /\ frame' = frame + 1 /\ tPc' = "free" /\ tPolls' = 0
        /\ UNCHANGED Tx!chipVars /\ UNCHANGED <<wptr, res, tNf, left, oks, smooth>>
    BY DEF Tx!Send, Tx!Goto
  <1>2. UNCHANGED <<tMem, txRd, txWr, tCr, job, ir>> BY <1>1 DEF Tx!chipVars
  <1>3. /\ Tx!TypeOK /\ Tx!SmoothInv /\ Tx!PointerInv /\ Tx!ContentInv /\ Tx!CountInv
        /\ Tx!OkMeansLeft
    BY TxParts
  <1>4. Tx!Unsent' = Tx!Unsent BY <1>2, Zenon DEF Tx!Unsent, Tx!Between
  <1>5. Tx!LeftFrames' = Tx!LeftFrames BY <1>1, Zenon DEF Tx!LeftFrames
  <1>6. PICK f \in Nat : f = frame /\ f < MaxFrames BY <1>1, <1>3, TxTypes
  <1>7. Tx!TypeOK'
    <2>1. smooth' \in BOOLEAN /\ tCr' \in BOOLEAN BY <1>1, <1>2, <1>3, Zenon DEF Tx!TypeOK
    <2>2. tPc' \in Tx!Points BY <1>1 DEF Tx!Points
    <2>3. tPolls' \in 0..MaxPolls BY <1>1, TxDriver, Zenon
    <2>4. frame' \in 0..MaxFrames BY <1>1, <1>6, TxConstants
    <2> QED BY <1>1, <1>2, <1>3, <2>1, <2>2, <2>3, <2>4, Zenon DEF Tx!TypeOK
  <1>8. Tx!PointerInv'
    <2>1. job' # Tx!Idle => Tx!JobLen' <= Tx!Held /\ Tx!JobLen' % FrameLen = 0
      BY <1>2, <1>3, Zenon DEF Tx!PointerInv, Tx!JobLen, Tx!Idle
    <2>2. tPc' \notin {"rdwr", "buf", "wr"} /\ tPc' \notin {"buf", "wr"} /\ tPc' # "wr" BY <1>1
    <2>3. frame' > 0 BY <1>1, <1>6
    <2> QED BY <1>2, <1>3, <2>1, <2>2, <2>3, PointersKept, Zenon
  <1>9. Tx!ContentInv'
    <2>1. Tx!Last = f /\ Tx!Last' = f BY <1>1, <1>6 DEF Tx!Last
    <2>2. f \in Int /\ f <= f OBVIOUS
    <2> QED BY <1>1, <1>3, <1>4, <2>1, <2>2, ContentKept, Zenon
  <1>10. Tx!CountInv'
    <2>1. tPc' # "resclr" BY <1>1
    <2> QED BY <1>1, <1>2, <1>3, <2>1, SuccessCount, CountKept, Zenon
  <1>11. Tx!SmoothInv'
    <2>1. tPc \notin {"crwait", "result"} BY <1>1
    <2>2. smooth' => ~tCr' /\ job' = Tx!Idle BY <1>1, <1>2, <1>3, <2>1, Zenon DEF Tx!SmoothInv
    <2>3. tPc' \notin {"crwait", "result", "resclr"} /\ tPc' \notin {"crwait", "result"}
          /\ tPc' \notin {"clr", "cmd"} /\ tPc' # "result" /\ tPc' # "cmd"
      BY <1>1
    <2> QED BY <2>2, <2>3, Zenon DEF Tx!SmoothInv, Tx!Idle
  <1>12. Tx!OkMeansLeft' BY <1>1, <1>3, <1>5, Zenon DEF Tx!OkMeansLeft
  <1> QED BY <1>7, <1>8, <1>9, <1>10, <1>11, <1>12, Zenon DEF Tx!TxInv

\* The chip takes the command: all that is not sent.
LEMMA TxAccept == ASSUME Tx!TxAssumption, Tx!TxInv, Tx!ChipAccept PROVE Tx!TxInv'
  <1>1. /\ tCr /\ job = Tx!Idle /\ tCr' = FALSE /\ job' = txWr
        /\ UNCHANGED <<tMem, txRd, txWr, ir, tPc, tPolls, frame, wptr, res, tNf, left, oks, smooth>>
    BY DEF Tx!ChipAccept
  <1>2. Tx!TypeOK /\ Tx!SmoothInv /\ Tx!PointerInv /\ Tx!CountInv BY TxParts
  <1>3. Tx!Unsent' = Tx!Unsent BY <1>1, Zenon DEF Tx!Unsent, Tx!Between
  <1>4. Tx!LeftFrames' = Tx!LeftFrames BY <1>1, Zenon DEF Tx!LeftFrames
  <1>5. Tx!TypeOK'
    <2>1. smooth' \in BOOLEAN /\ tCr' \in BOOLEAN BY <1>1, <1>2, Zenon DEF Tx!TypeOK
    <2>2. job' \in {Tx!Idle} \cup 0..Mod - 1 BY <1>1, <1>2, TxTypes
    <2> QED BY <1>1, <1>2, <2>1, <2>2, Zenon DEF Tx!TypeOK, Tx!Idle
  <1>6. job' # Tx!Idle
    <2>1. txWr \in 0..Mod - 1 BY <1>2, TxTypes
    <2> QED BY <1>1, <2>1, TxConstants DEF Tx!Idle
  <1>7. Tx!JobLen' <= Tx!Held /\ Tx!JobLen' % FrameLen = 0
    <2>1. Tx!JobLen' = Tx!Held BY <1>1, Zenon DEF Tx!JobLen, Tx!Held
    <2>2. Tx!Held % FrameLen = 0 BY <1>2, Zenon DEF Tx!PointerInv
    <2>3. Tx!Held <= Tx!Held BY <1>2, UnsentIs
    <2> QED BY <2>1, <2>2, <2>3, Zenon
  <1>8. Tx!SmoothInv'
    <2>1. smooth => tPc \in {"crwait", "result"} BY <1>1, <1>2, Zenon DEF Tx!SmoothInv
    <2>2. smooth => frame \in Tx!FrameIds(Tx!Unsent) /\ ir = {}
      BY <1>1, <1>2, Zenon DEF Tx!SmoothInv
    <2>3. "SEND_OK" \notin {} OBVIOUS
    <2>4. smooth' => tPc' \in {"crwait", "result"} /\ ~tCr' /\ job' = txWr' /\ ir' = {}
                     /\ frame' \in Tx!FrameIds(Tx!Unsent')
      BY <1>1, <1>3, <2>1, <2>2, Zenon
    <2>5. (smooth => tPc \in {"crwait", "result"} /\ ~tCr /\ job = txWr /\ job # Tx!Idle /\ ir = {}
                     /\ frame \in Tx!FrameIds(Tx!Unsent))'
      BY <1>6, <2>4, Zenon DEF Tx!Idle
    <2> QED BY <2>3, <2>5, Zenon DEF Tx!SmoothInv, Tx!Idle
  <1>9. /\ tPc' = "resclr" => res' # {} /\ res' \subseteq ir'
        /\ tPc' \in {"rdwr", "buf", "wr"} => Tx!Held + FrameLen <= Size
        /\ tPc' \in {"buf", "wr"} => wptr' = txWr
        /\ tPc' = "wr" => \A k \in 1..FrameLen :
              tMem'[((wptr' + k - 1) % Mod) % Size] = Tx!Cell(frame', k)
    BY <1>1, <1>2, Zenon DEF Tx!CountInv, Tx!PointerInv
  <1> QED BY <1>1, <1>3, <1>5, <1>7, <1>8, <1>9, TxQuiet, Zenon

\* The SEND ends: what it took has left, or is given up, or is kept for the next.
LEMMA TxEnds ==
    ASSUME Tx!TxAssumption, Tx!TxInv, job # Tx!Idle, job' = Tx!Idle,
           UNCHANGED <<tMem, txWr, tCr, tPc, tPolls, frame, wptr, res, oks, smooth>>,
           txRd' = job, left' \in {left, Append(left, Tx!Between(txRd, job))}
    PROVE  /\ txRd' \in 0..Mod - 1 /\ left' \in Seq(Seq(TxCells))
           /\ Tx!PointerInv' /\ Tx!ContentInv'
  <1>1. Tx!TypeOK /\ Tx!PointerInv /\ Tx!ContentInv BY TxParts
  <1>2. PICK p : p = Cells(tMem, txRd, job) OBVIOUS
  <1>3. PICK s : s = Cells(tMem, job, txWr) OBVIOUS
  <1>4. /\ Tx!Between(txRd, job) = p /\ Cut(p, s) /\ job \in 0..Mod - 1
        /\ (txWr - job) % Mod <= Size /\ ((txWr - job) % Mod) % FrameLen = 0
    BY <1>1, <1>2, <1>3, SendCuts, Zenon
  <1>5. Tx!Unsent' = s BY <1>3, Zenon DEF Tx!Unsent, Tx!Between, Cells
  <1>6. Tx!Last' = Tx!Last BY Zenon DEF Tx!Last
  <1>7. Tx!ContentInv'
    <2>1. left' \in {left, Append(left, p)} BY <1>4, Zenon
    <2> QED BY <1>1, <1>4, <1>5, <1>6, <2>1, ContentCut, Zenon
  <1>8. left' \in Seq(Seq(TxCells))
    <2>1. left \in Seq(Seq(TxCells)) /\ p \in Seq(TxCells) BY <1>1, <1>4, TxTypes DEF Cut
    <2>2. Append(left, p) \in Seq(Seq(TxCells)) BY <2>1
    <2> QED BY <1>4, <2>1, <2>2, Zenon
  <1>9. Tx!PointerInv'
    <2>1. Tx!Held' = (txWr - job) % Mod BY Zenon DEF Tx!Held
    <2>2. Tx!Held' <= Size /\ Tx!Held' % FrameLen = 0 BY <1>4, <2>1, Zenon
    <2>3. ASSUME tPc \in {"rdwr", "buf", "wr"} PROVE Tx!Held' + FrameLen <= Size
      <3>1. Tx!Held + FrameLen <= Size BY <1>1, <2>3 DEF Tx!PointerInv
      <3>2. Tx!Held' <= Tx!Held
        <4>1. PICK h \in 0..Mod - 1 : h = Tx!Held BY <1>1, UnsentIs, Zenon DEF HeldCells
        <4>2. PICK c \in 0..Mod - 1 : c = Tx!JobLen
          <5>1. Mod \in Nat \ {0} /\ txRd \in 0..Mod - 1 BY <1>1, TxConstants, TxTypes
          <5> QED BY <1>4, <5>1, PointerOf, Zenon DEF Tx!JobLen
        <4>3. c <= h BY <1>1, <4>1, <4>2 DEF Tx!PointerInv
        <4>4. Tx!Held' = h - c
          <5>1. Mod \in Nat \ {0} /\ txRd \in 0..Mod - 1 /\ txWr \in 0..Mod - 1
            BY <1>1, TxConstants, TxTypes
          <5>2. tMem \in [0..Size - 1 -> TxCells] BY <1>1, TxTypes
          <5>3. txWr = (txRd + h) % Mod BY <1>1, <4>1, UnsentIs, Zenon DEF HeldCells
          <5>4. job = (txRd + c) % Mod
            <6>1. job \in 0..Mod - 1 BY <1>4, Zenon
            <6>2. HeldCells(tMem, txRd, job, Tx!JobLen)
              BY <5>1, <5>2, <6>1, CellsHeld, Zenon DEF Tx!JobLen
            <6> QED BY <4>2, <6>2, Zenon DEF HeldCells
          <5>5. Span(tMem, txRd, c, h, job, txWr)
            BY <1>4, <4>3, <5>1, <5>2, <5>3, <5>4, Zenon DEF Span
          <5>6. SpanCells(tMem, txRd, c, h, job, txWr) BY <5>5, CellsFollow, Zenon
          <5> QED BY <2>1, <5>6, Zenon DEF SpanCells
        <4> QED BY <4>1, <4>3, <4>4
      <3>3. Tx!Held \in Nat /\ Tx!Held' \in Int
        <4>1. Tx!Held' \in Int
          <5>1. txWr \in Int /\ job \in Int BY <1>1, <1>4, TxTypes, TxConstants
          <5> QED BY <2>1, <5>1, TxConstants
        <4> QED BY <1>1, <4>1, UnsentIs
      <3> QED BY <3>1, <3>2, <3>3, TxConstants
    <2>4. \A k \in 1..FrameLen : Tx!Cell(frame', k) = Tx!Cell(frame, k) BY Zenon
    <2> QED BY <1>1, <2>2, <2>3, <2>4, Zenon DEF Tx!PointerInv, Tx!Idle
  <1> QED BY <1>4, <1>7, <1>8, <1>9, Zenon

\* The SEND is done and its result is in IR.
LEMMA TxSent == ASSUME Tx!TxAssumption, Tx!TxInv, Tx!ChipSent PROVE Tx!TxInv'
  <1>1. /\ job # Tx!Idle /\ left' = Append(left, Tx!Between(txRd, job))
        /\ txRd' = job /\ job' = Tx!Idle /\ ir' = ir \cup {"SEND_OK"}
        /\ UNCHANGED <<tMem, txWr, tCr, tPc, tPolls, frame, wptr, res, tNf, oks, smooth>>
    BY DEF Tx!ChipSent
  <1>2. /\ Tx!TypeOK /\ Tx!SmoothInv /\ Tx!PointerInv /\ Tx!ContentInv /\ Tx!CountInv
        /\ Tx!OkMeansLeft
    BY TxParts
  <1>3. /\ txRd' \in 0..Mod - 1 /\ left' \in Seq(Seq(TxCells)) /\ Tx!PointerInv' /\ Tx!ContentInv'
    <2>1. left' \in {left, Append(left, Tx!Between(txRd, job))} BY <1>1, Zenon
    <2> QED BY <1>1, <2>1, TxEnds, Zenon
  <1>4. Tx!TypeOK'
    <2>1. smooth' \in BOOLEAN /\ tCr' \in BOOLEAN BY <1>1, <1>2, Zenon DEF Tx!TypeOK
    <2>2. job' \in {Tx!Idle} \cup 0..Mod - 1 BY <1>1, Zenon
    <2>3. ir' \subseteq Tx!SendBits BY <1>1, TxDriver DEF Tx!SendBits
    <2> QED BY <1>1, <1>2, <1>3, <2>1, <2>2, <2>3, Zenon DEF Tx!TypeOK, TxCells, Tx!Idle
  <1>5. PICK p : p = Tx!Between(txRd, job) OBVIOUS
  <1>6. PICK e \in Nat : e = Len(left) BY <1>2, SuccessCount
  <1>7. PICK x \in Nat : x = e + 1 OBVIOUS
  <1>8. Len(left') = x /\ left'[x] = p /\ \A n \in 1..e : left'[n] = left[n] /\ n \in 1..x
    <2>1. left \in Seq(Seq(TxCells)) BY <1>2, TxTypes
    <2> QED BY <1>1, <1>5, <1>6, <1>7, <2>1
  <1>9. x \in 1..x BY <1>7
  <1>10. Tx!LeftFrames \subseteq Tx!LeftFrames' /\ Tx!FrameIds(p) \subseteq Tx!LeftFrames'
    <2>1. ASSUME NEW f \in Tx!LeftFrames PROVE f \in Tx!LeftFrames'
      <3>1. PICK n \in 1..e : f \in Tx!FrameIds(left[n]) BY <1>6, Zenon DEF Tx!LeftFrames
      <3>2. n \in 1..Len(left') /\ f \in Tx!FrameIds(left'[n]) BY <1>8, <3>1, Zenon
      <3> QED BY <3>2, Zenon DEF Tx!LeftFrames
    <2>2. ASSUME NEW f \in Tx!FrameIds(p) PROVE f \in Tx!LeftFrames'
      <3>1. x \in 1..Len(left') /\ f \in Tx!FrameIds(left'[x]) BY <1>8, <1>9, Zenon
      <3> QED BY <3>1, Zenon DEF Tx!LeftFrames
    <2> QED BY <2>1, <2>2, Zenon
  <1>11. Tx!CountInv'
    <2>1. PICK c \in Nat : c = Cardinality(oks) BY <1>2, SuccessCount
    <2>2. c + (IF "SEND_OK" \in ir THEN 1 ELSE 0) <= e
      BY <1>2, <1>6, <2>1, SameCardinality, Zenon DEF Tx!CountInv
    <2>3. c + (IF "SEND_OK" \in ir' THEN 1 ELSE 0) <= x BY <1>7, <2>2
    <2>4. Tx!Cardinality(oks') = c BY <1>1, <2>1, SameCardinality, Zenon
    <2>5. tPc' = "resclr" => res' # {} /\ res' \subseteq ir' BY <1>1, <1>2, Zenon DEF Tx!CountInv
    <2> QED BY <1>8, <2>3, <2>4, <2>5, Zenon DEF Tx!CountInv
  <1>12. Tx!SmoothInv'
    <2>1. ASSUME smooth
          PROVE  /\ tPc \in {"crwait", "result"} /\ ~tCr /\ job = txWr
                 /\ frame \in Tx!FrameIds(Tx!Unsent) /\ ir = {}
      BY <1>1, <1>2, <2>1, Zenon DEF Tx!SmoothInv
    <2>2. job = txWr => p = Tx!Unsent BY <1>1, <1>2, <1>5, SendCuts, Zenon
    <2>3. smooth => frame \in Tx!LeftFrames' BY <1>10, <2>1, <2>2, Zenon
    <2>4. tPc \in {"crwait", "result"} => tPc \notin {"clr", "cmd"} /\ tPc # "cmd" OBVIOUS
    <2>5. ir' # {} BY <1>1, Zenon
    <2>6. smooth' => /\ tPc' \in {"crwait", "result"} /\ ~tCr' /\ frame' \in Tx!LeftFrames'
                     /\ tPc' \notin {"clr", "cmd"} /\ tPc' # "cmd"
      BY <1>1, <2>1, <2>3, <2>4, Zenon
    <2>7. (smooth => /\ tPc \in {"crwait", "result"} /\ ~tCr /\ frame \in Tx!LeftFrames
                     /\ tPc \notin {"clr", "cmd"} /\ tPc # "cmd" /\ job = Tx!Idle /\ ir # {})'
      BY <1>1, <2>5, <2>6, Zenon DEF Tx!Idle
    <2> QED BY <2>7, Zenon DEF Tx!SmoothInv, Tx!Idle
  <1>13. Tx!OkMeansLeft' BY <1>1, <1>2, <1>10, Zenon DEF Tx!OkMeansLeft
  <1> QED BY <1>3, <1>4, <1>11, <1>12, <1>13, Zenon DEF Tx!TxInv

\* The SEND is not answered.
LEMMA TxTimeout == ASSUME Tx!TxAssumption, Tx!TxInv, Tx!ChipTimeout PROVE Tx!TxInv'
  <1>1. /\ job # Tx!Idle /\ tNf < TxFaults /\ tNf' = tNf + 1
        /\ txRd' \in {txRd, job} /\ job' = Tx!Idle /\ ir' = ir \cup {"TIMEOUT"}
        /\ UNCHANGED <<tMem, txWr, tCr, tPc, tPolls, frame, wptr, res, left, oks, smooth>>
    BY DEF Tx!ChipTimeout, Tx!Fault
  <1>2. /\ Tx!TypeOK /\ Tx!SmoothInv /\ Tx!PointerInv /\ Tx!ContentInv /\ Tx!CountInv
        /\ Tx!OkMeansLeft
    BY TxParts
  <1>3. tNf' \in 0..TxFaults BY <1>1, TxDriver, TxConstants
  <1>4. ASSUME txRd' \in 0..Mod - 1 PROVE Tx!TypeOK'
    <2>1. smooth' \in BOOLEAN /\ tCr' \in BOOLEAN BY <1>1, <1>2, Zenon DEF Tx!TypeOK
    <2>2. job' \in {Tx!Idle} \cup 0..Mod - 1 BY <1>1, Zenon
    <2>3. ir' \subseteq Tx!SendBits BY <1>1, TxDriver DEF Tx!SendBits
    <2> QED BY <1>1, <1>2, <1>3, <1>4, <2>1, <2>2, <2>3, Zenon DEF Tx!TypeOK, Tx!Idle
  <1>5. Tx!LeftFrames' = Tx!LeftFrames BY <1>1, Zenon DEF Tx!LeftFrames
  <1>6. "SEND_OK" \in ir' => "SEND_OK" \in ir BY <1>1
  <1>7. tPc' = "resclr" => res' # {} /\ res' \subseteq ir' BY <1>1, <1>2, Zenon DEF Tx!CountInv
  <1>8. Tx!SmoothInv'
    <2>1. ASSUME smooth PROVE tPc \in {"crwait", "result"} /\ ~tCr /\ ir = {}
      BY <1>1, <1>2, <2>1, Zenon DEF Tx!SmoothInv
    <2>2. tPc \in {"crwait", "result"} => tPc \notin {"clr", "cmd"} /\ tPc # "cmd" OBVIOUS
    <2>3. ir' # {} BY <1>1, Zenon
    <2>4. smooth => "SEND_OK" \notin ir' BY <1>6, <2>1, Zenon
    <2>5. smooth' => /\ tPc' \in {"crwait", "result"} /\ ~tCr' /\ "SEND_OK" \notin ir'
                     /\ tPc' \notin {"clr", "cmd"} /\ tPc' # "cmd"
      BY <1>1, <2>1, <2>2, <2>4, Zenon
    <2>6. (smooth => /\ tPc \in {"crwait", "result"} /\ ~tCr /\ "SEND_OK" \notin ir
                     /\ tPc \notin {"clr", "cmd"} /\ tPc # "cmd" /\ job = Tx!Idle /\ ir # {})'
      BY <1>1, <2>3, <2>5, Zenon DEF Tx!Idle
    <2> QED BY <2>6, Zenon DEF Tx!SmoothInv, Tx!Idle
  <1>9. CASE txRd' = txRd
    <2>1. Tx!Unsent' = Tx!Unsent BY <1>1, <1>9, Zenon DEF Tx!Unsent, Tx!Between
    <2>2. Tx!TypeOK' BY <1>2, <1>4, <1>9, TxTypes, Zenon
    <2>3. /\ tPc' \in {"rdwr", "buf", "wr"} => Tx!Held + FrameLen <= Size
          /\ tPc' \in {"buf", "wr"} => wptr' = txWr
          /\ tPc' = "wr" => \A k \in 1..FrameLen :
                tMem'[((wptr' + k - 1) % Mod) % Size] = Tx!Cell(frame', k)
      BY <1>1, <1>2, Zenon DEF Tx!PointerInv
    <2>4. job' # Tx!Idle => Tx!JobLen' <= Tx!Held /\ Tx!JobLen' % FrameLen = 0 BY <1>1, Zenon
    <2> QED BY <1>1, <1>6, <1>7, <1>8, <1>9, <2>1, <2>2, <2>3, <2>4, TxQuiet, Zenon
  <1>10. CASE txRd' = job
    <2>1. /\ txRd' \in 0..Mod - 1 /\ Tx!PointerInv' /\ Tx!ContentInv'
      <3>1. left' \in {left, Append(left, Tx!Between(txRd, job))} BY <1>1, Zenon
      <3> QED BY <1>1, <1>10, <3>1, TxEnds, Zenon
    <2>2. Tx!TypeOK' BY <1>4, <2>1, Zenon
    <2>3. Tx!CountInv' BY <1>1, <1>2, <1>6, <1>7, SuccessCount, CountKept, Zenon
    <2>4. Tx!OkMeansLeft' BY <1>1, <1>2, <1>5, Zenon DEF Tx!OkMeansLeft
    <2> QED BY <1>8, <2>1, <2>2, <2>3, <2>4, Zenon DEF Tx!TxInv
  <1> QED BY <1>1, <1>9, <1>10, Zenon

\* Nothing happens.
LEMMA TxStutter == ASSUME Tx!TxAssumption, Tx!TxInv, UNCHANGED Tx!vars PROVE Tx!TxInv'
  <1>1. UNCHANGED <<tMem, txRd, txWr, tCr, job, ir, tPc, tPolls, frame, wptr, res, tNf, left, oks, smooth>>
    BY DEF Tx!vars
  <1>2. /\ Tx!TypeOK /\ Tx!SmoothInv /\ Tx!PointerInv /\ Tx!CountInv BY TxParts
  <1>3. Tx!Unsent' = Tx!Unsent BY <1>1, Zenon DEF Tx!Unsent, Tx!Between
  <1>4. Tx!LeftFrames' = Tx!LeftFrames BY <1>1, Zenon DEF Tx!LeftFrames
  <1>5. Tx!TypeOK'
    <2>1. smooth' \in BOOLEAN /\ tCr' \in BOOLEAN BY <1>1, <1>2, Zenon DEF Tx!TypeOK
    <2> QED BY <1>1, <1>2, <2>1, Zenon DEF Tx!TypeOK
  <1>6. Tx!SmoothInv' BY <1>1, <1>2, <1>3, <1>4, Zenon DEF Tx!SmoothInv, Tx!Idle
  <1>7. job' # Tx!Idle => Tx!JobLen' <= Tx!Held /\ Tx!JobLen' % FrameLen = 0
    BY <1>1, <1>2, Zenon DEF Tx!PointerInv, Tx!JobLen, Tx!Idle
  <1>8. /\ tPc' = "resclr" => res' # {} /\ res' \subseteq ir'
        /\ tPc' \in {"rdwr", "buf", "wr"} => Tx!Held + FrameLen <= Size
        /\ tPc' \in {"buf", "wr"} => wptr' = txWr
        /\ tPc' = "wr" => \A k \in 1..FrameLen :
              tMem'[((wptr' + k - 1) % Mod) % Size] = Tx!Cell(frame', k)
    BY <1>1, <1>2, Zenon DEF Tx!CountInv, Tx!PointerInv
  <1> QED BY <1>1, <1>3, <1>5, <1>6, <1>7, <1>8, TxQuiet, Zenon

\* An empty buffer.
LEMMA TxInit == ASSUME Tx!TxAssumption, Tx!Init PROVE Tx!TxInv
  <1>1. /\ tMem = [a \in 0..Size - 1 |-> Tx!Blank] /\ txRd = 0 /\ txWr = 0 /\ tCr = FALSE
        /\ job = Tx!Idle /\ ir = {} /\ tPc = "idle" /\ tPolls = 0 /\ frame = 0 /\ wptr = 0
        /\ res = {} /\ tNf = 0 /\ left = <<>> /\ oks = {} /\ smooth = TRUE
    BY DEF Tx!Init
  <1>2. Tx!TypeOK
    <2>1. /\ 0 \in 0..Mod - 1 /\ 0 \in 0..MaxPolls /\ 0 \in 0..MaxFrames /\ 0 \in 0..TxFaults
      BY TxConstants
    <2>2. tMem \in [0..Size - 1 -> TxCells]
      <3>1. Tx!Blank \in TxCells BY Zenon DEF TxCells
      <3> QED BY <1>1, <3>1, Zenon
    <2>3. left \in Seq(Seq(TxCells)) BY <1>1
    <2>4. tPc \in Tx!Points BY <1>1 DEF Tx!Points
    <2>5. tCr \in BOOLEAN /\ smooth \in BOOLEAN BY <1>1, Zenon
    <2>6. /\ job \in {Tx!Idle} \cup 0..Mod - 1 /\ ir \subseteq Tx!SendBits
          /\ res \subseteq Tx!SendBits /\ oks \subseteq 1..MaxFrames
      BY <1>1, Zenon
    <2> QED BY <1>1, <2>1, <2>2, <2>3, <2>4, <2>5, <2>6, Zenon DEF Tx!TypeOK, TxCells
  <1>3. PICK q \in Seq(TxCells) : q = Tx!Unsent BY <1>2, UnsentIs, Zenon
  <1>4. Tx!Held = 0 /\ Len(q) = 0
    <2>1. Tx!Held = 0 BY <1>1, TxConstants DEF Tx!Held
    <2> QED BY <1>2, <1>3, <2>1, UnsentIs, Zenon
  <1>5. 0 % FrameLen = 0 /\ 0 <= Size BY TxConstants
  <1>6. Tx!FrameIds(q) = {} BY <1>4 DEF Tx!FrameIds
  <1>7. Len(left) = 0 BY <1>1
  <1>8. \A n \in 1..0 : FALSE OBVIOUS
  <1>9. \A n \in 2..0 : FALSE OBVIOUS
  <1>10. Tx!PointerInv
    <2>1. tPc \notin {"rdwr", "buf", "wr"} /\ tPc \notin {"buf", "wr"} /\ tPc # "wr" BY <1>1
    <2> QED BY <1>1, <1>4, <1>5, <2>1, Zenon DEF Tx!PointerInv
  <1>11. Tx!ContentInv
    <2>1. Tx!Frames(q) BY <1>4, <1>5, <1>8, <1>9, Zenon DEF Tx!Frames, Tx!WholeFrames
    <2>2. Tx!WholeFramesInOrder BY <1>7, <1>8, Zenon DEF Tx!WholeFramesInOrder
    <2> QED BY <1>3, <1>6, <1>7, <1>8, <2>1, <2>2, Zenon DEF Tx!ContentInv
  <1>12. Tx!CountInv
    <2>1. Cardinality({}) = 0 BY FS_EmptySet
    <2>2. Tx!Cardinality(oks) = 0 BY <1>1, <2>1, SameCardinality, Zenon
    <2>3. "SEND_OK" \notin ir BY <1>1
    <2>4. 0 + 0 <= 0 OBVIOUS
    <2>5. tPc # "resclr" BY <1>1
    <2> QED BY <1>7, <2>2, <2>3, <2>4, <2>5, Zenon DEF Tx!CountInv
  <1>13. Tx!SmoothInv
    <2>1. tPc \notin {"crwait", "result", "resclr"} /\ tPc \notin {"crwait", "result"}
          /\ tPc \notin {"clr", "cmd"} /\ tPc # "result" /\ tPc # "cmd"
      BY <1>1
    <2> QED BY <1>1, <2>1, Zenon DEF Tx!SmoothInv
  <1>14. Tx!OkMeansLeft BY <1>1, Zenon DEF Tx!OkMeansLeft
  <1> QED BY <1>2, <1>10, <1>11, <1>12, <1>13, <1>14, Zenon DEF Tx!TxInv

\* Every step keeps the invariant.
LEMMA TxStep ==
    ASSUME Tx!TxAssumption, Tx!TxInv, [Tx!Next]_Tx!vars
    PROVE  Tx!TxInv'
  <1>1. CASE Tx!Driver
    BY <1>1, TxSend, TxWaitForTxFree, TxReadTxWr, TxWriteTxBuffer, TxWriteTxWr, TxClearStale,
       TxWriteCommand, TxWaitForCommand, TxWaitForResult, TxTakeResult, Zenon DEF Tx!Driver
  <1>2. CASE Tx!Chip BY <1>2, TxAccept, TxSent, TxTimeout, Zenon DEF Tx!Chip
  <1>3. CASE UNCHANGED Tx!vars BY <1>3, TxStutter, Zenon
  <1> QED BY <1>1, <1>2, <1>3, Zenon DEF Tx!Next, Tx!Done

\* w5500_tcp_send_frame, w5500_udp_send_frame: whatever transfers fail, however late the
\* chip is and whatever it does with what a time-out leaves, what leaves the socket is
\* whole frames, each at most once and in the order in which they were handed over; for
\* every size of the buffer and of the frames, and every width of the pointers that the
\* size of the buffer divides.
THEOREM SendsIntact == Tx!Spec => []FramesIntact
  <1>1. Tx!Init => Tx!TxInv BY TxInit, SocketAssumption
  <1>2. Tx!TxInv /\ [Tx!Next]_Tx!vars => Tx!TxInv' BY TxStep, SocketAssumption
  <1>3. Tx!TxInv => FramesIntact BY DEF Tx!TxInv, Tx!ContentInv, FramesIntact
  <1> QED BY <1>1, <1>2, <1>3, PTL DEF Tx!Spec

\* The same sends count no more successes than the chip has completed, and as long as no
\* transfer fails and the chip keeps within the time-outs every success is that of a frame
\* that has left.
THEOREM SuccessesHonest == Tx!Spec => []SuccessesTrue
  <1>1. Tx!Init => Tx!TxInv BY TxInit, SocketAssumption
  <1>2. Tx!TxInv /\ [Tx!Next]_Tx!vars => Tx!TxInv' BY TxStep, SocketAssumption
  <1>3. ASSUME Tx!TxInv PROVE SuccessesTrue
    <2>1. Tx!TypeOK /\ Tx!CountInv /\ Tx!OkMeansLeft BY <1>3 DEF Tx!TxInv
    <2>2. PICK c \in Nat : c = Cardinality(oks) BY <2>1, SuccessCount, SocketAssumption
    <2>3. PICK e \in Nat : e = Len(left) BY <2>1, SuccessCount, SocketAssumption
    <2>4. c + (IF "SEND_OK" \in ir THEN 1 ELSE 0) <= e
      BY <2>1, <2>2, <2>3, SameCardinality, Zenon DEF Tx!CountInv
    <2>5. c <= e BY <2>4
    <2>6. Tx!SuccessesNotOverstated
      BY <2>2, <2>3, <2>5, SameCardinality, Zenon DEF Tx!SuccessesNotOverstated
    <2> QED BY <2>1, <2>6, Zenon DEF SuccessesTrue
  <1> QED BY <1>1, <1>2, <1>3, PTL DEF Tx!Spec
=============================================================================

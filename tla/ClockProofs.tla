---------------------------- MODULE ClockProofs ----------------------------
(***************************************************************************)
(* What the gateway reckons with its tick, for every range of the tick and *)
(* every period: the deadlines of EthernetTask (Deadlines), the times of a *)
(* link recovery (EthDiag), those of a session's first PING (SessionDiag)  *)
(* and the silence of the link (Health), as module Clock puts them         *)
(* together.                                                               *)
(***************************************************************************)
EXTENDS Clock, ModularProofs

-----------------------------------------------------------------------------
(* The sign of a wrapped difference.                                       *)

\* The constants.
LEMMA Numbers ==
    ASSUME D!DeadlinesAssumption
    PROVE  /\ TickRange \in Nat \ {0} /\ DataPeriod \in Nat \ {0} /\ PhyPeriod \in Nat \ {0}
           /\ Retry \in Nat \ {0} /\ MaxPass \in Nat \ {0} /\ DataPeriod <= PhyPeriod
           /\ MaxOutage \in Nat
           /\ 2 * (MaxOutage + Retry + DataPeriod + 2 * PhyPeriod + 7 * MaxPass + 1) < TickRange
  BY DEF D!DeadlinesAssumption

\* A difference as int32_t is the true one, up to a turn.
LEMMA SignedOf ==
    ASSUME D!DeadlinesAssumption, NEW a \in 0..TickRange - 1, NEW b \in 0..TickRange - 1
    PROVE  /\ D!Signed(a, b) \in Int
           /\ -TickRange <= 2 * D!Signed(a, b) /\ 2 * D!Signed(a, b) < TickRange
           /\ \/ a - b = D!Signed(a, b)
              \/ a - b = D!Signed(a, b) - TickRange
              \/ a - b = D!Signed(a, b) + TickRange
  <1>1. (a - b) % TickRange = IF a >= b THEN a - b ELSE a - b + TickRange BY Numbers, ModDiff
  <1>2. TickRange \in Nat \ {0} BY Numbers
  <1> QED BY <1>1, <1>2 DEF D!Signed

\* And a true one that is small is that difference.
LEMMA SignedIs ==
    ASSUME D!DeadlinesAssumption, NEW a \in 0..TickRange - 1, NEW b \in 0..TickRange - 1,
           NEW l \in Int, -TickRange <= 2 * l, 2 * l < TickRange,
           a - b = l \/ a - b = l - TickRange \/ a - b = l + TickRange
    PROVE  D!Signed(a, b) = l
  <1>1. TickRange \in Nat \ {0} BY Numbers
  <1>2. PICK s \in Int : s = D!Signed(a, b) BY SignedOf
  <1>3. -TickRange <= 2 * s /\ 2 * s < TickRange BY <1>2, SignedOf
  <1>4. a - b = s \/ a - b = s - TickRange \/ a - b = s + TickRange BY <1>2, SignedOf
  <1>5. s = l BY <1>1, <1>3, <1>4
  <1> QED BY <1>2, <1>5

\* The other way round.
LEMMA SignedBack ==
    ASSUME D!DeadlinesAssumption, NEW a \in 0..TickRange - 1, NEW b \in 0..TickRange - 1,
           -TickRange < 2 * D!Signed(a, b)
    PROVE  D!Signed(b, a) = -D!Signed(a, b)
  <1>1. TickRange \in Nat \ {0} BY Numbers
  <1>2. PICK l \in Int : l = -D!Signed(a, b) BY SignedOf
  <1>3. -TickRange <= 2 * l /\ 2 * l < TickRange BY <1>1, <1>2, SignedOf
  <1>4. b - a = l \/ b - a = l - TickRange \/ b - a = l + TickRange
    <2>1. PICK s \in Int : s = D!Signed(a, b) BY SignedOf
    <2>2. a - b = s \/ a - b = s - TickRange \/ a - b = s + TickRange BY <2>1, SignedOf
    <2>3. l = -s BY <1>2, <2>1
    <2> QED BY <1>1, <2>2, <2>3
  <1> QED BY <1>2, <1>3, <1>4, SignedIs

\* A tick passes: the difference grows by one.
LEMMA SignedTick ==
    ASSUME D!DeadlinesAssumption, NEW a \in 0..TickRange - 1, NEW b \in 0..TickRange - 1,
           2 * (D!Signed(a, b) + 1) < TickRange
    PROVE  D!Plus(a, 1) \in 0..TickRange - 1 /\ D!Signed(D!Plus(a, 1), b) = D!Signed(a, b) + 1
  <1>1. TickRange \in Nat \ {0} /\ 1 \in 0..TickRange - 1 BY Numbers
  <1>2. D!Plus(a, 1) = IF a + 1 < TickRange THEN a + 1 ELSE a + 1 - TickRange
    BY <1>1, ModNext DEF D!Plus
  <1>3. PICK c \in 0..TickRange - 1 : c = D!Plus(a, 1) BY <1>1, <1>2
  <1>4. PICK l \in Int : l = D!Signed(a, b) + 1 BY SignedOf
  <1>5. -TickRange <= 2 * l /\ 2 * l < TickRange BY <1>1, <1>4, SignedOf
  <1>6. \/ c - b = l \/ c - b = l - TickRange \/ c - b = l + TickRange
    <2>1. \/ a - b = l - 1 \/ a - b = l - 1 - TickRange \/ a - b = l - 1 + TickRange
      BY <1>1, <1>4, SignedOf
    <2>2. c = a + 1 \/ c = a + 1 - TickRange BY <1>1, <1>2, <1>3
    <2>3. -TickRange < c - b /\ c - b < TickRange BY <1>1, <1>3
    <2> QED BY <1>1, <1>5, <2>1, <2>2, <2>3
  <1> QED BY <1>3, <1>4, <1>5, <1>6, SignedIs

\* A deadline is moved on by less than half a turn: the difference shrinks by as much.
LEMMA SignedMoved ==
    ASSUME D!DeadlinesAssumption, NEW a \in 0..TickRange - 1, NEW b \in 0..TickRange - 1,
           NEW k \in Nat, 2 * k <= TickRange + 2 * D!Signed(a, b), k < TickRange
    PROVE  D!Plus(b, k) \in 0..TickRange - 1 /\ D!Signed(a, D!Plus(b, k)) = D!Signed(a, b) - k
  <1>1. TickRange \in Nat \ {0} BY Numbers
  <1>2. PICK d \in 0..TickRange - 1 : d = k BY <1>1
  <1>3. D!Plus(b, d) = IF b + d < TickRange THEN b + d ELSE b + d - TickRange
    BY <1>1, ModSum DEF D!Plus
  <1>4. PICK c \in 0..TickRange - 1 : c = D!Plus(b, k)
    <2>1. D!Plus(b, d) \in 0..TickRange - 1 BY <1>1, <1>3
    <2> QED BY <1>2, <2>1
  <1>5. PICK l \in Int : l = D!Signed(a, b) - k BY SignedOf
  <1>6. -TickRange <= 2 * l /\ 2 * l < TickRange BY <1>1, <1>5, SignedOf
  <1>7. \/ a - c = l \/ a - c = l - TickRange \/ a - c = l + TickRange
    <2>1. \/ a - b = l + k \/ a - b = l + k - TickRange \/ a - b = l + k + TickRange
      BY <1>1, <1>5, SignedOf
    <2>2. c = b + k \/ c = b + k - TickRange BY <1>1, <1>2, <1>3, <1>4
    <2>3. -TickRange < a - c /\ a - c < TickRange BY <1>1, <1>4
    <2> QED BY <1>1, <1>6, <2>1, <2>2, <2>3
  <1> QED BY <1>4, <1>5, <1>6, <1>7, SignedIs

\* The periods that are added to a deadline bring it past the present tick, by no more
\* than one of them.
LEMMA PeriodsPass ==
    ASSUME NEW p \in Nat \ {0}, NEW lag \in Nat
    PROVE  /\ D!Periods(lag, p) * p \in Nat
           /\ -p <= lag - D!Periods(lag, p) * p /\ lag - D!Periods(lag, p) * p < 0
  <1>1. PICK r \in 0..p - 1 : lag % p = r OBVIOUS
  <1>2. PICK q \in Int : q = lag \div p /\ lag = q * p + r BY <1>1
  <1>3. D!Periods(lag, p) = q + 1 BY <1>2 DEF D!Periods
  <1>4. D!Periods(lag, p) * p = lag - r + p
    <2>1. (q + 1) * p = q * p + p OBVIOUS
    <2> QED BY <1>2, <1>3, <2>1
  <1> QED BY <1>1, <1>4

-----------------------------------------------------------------------------
(* The lags.                                                               *)

\* What TypeOK and the lags say of the numbers.
LEMMA LagNumbers ==
    ASSUME D!DeadlinesAssumption, D!TypeOK, D!LagInv
    PROVE  /\ dNow \in 0..TickRange - 1 /\ nextPhy \in 0..TickRange - 1
           /\ nextData \in 0..TickRange - 1 /\ nextRestart \in 0..TickRange - 1
           /\ spent \in Nat /\ spent <= MaxPass /\ waiting \in Nat
           /\ phyLag \in Int /\ -PhyPeriod <= phyLag /\ phyLag <= 2 * MaxPass
           /\ dataLag \in Int /\ -DataPeriod <= dataLag /\ dataLag <= 2 * MaxPass
  <1>1. /\ dNow \in 0..TickRange - 1 /\ nextPhy \in 0..TickRange - 1
        /\ nextData \in 0..TickRange - 1 /\ nextRestart \in 0..TickRange - 1
    BY DEF D!TypeOK
  <1>2. spent \in Nat /\ spent <= MaxPass /\ waiting \in Nat BY Numbers DEF D!TypeOK
  <1>3. /\ phyLag \in Int /\ -PhyPeriod <= phyLag
        /\ dataLag \in Int /\ -DataPeriod <= dataLag
    BY DEF D!LagInv
  <1>4. phyLag <= 2 * MaxPass /\ dataLag <= 2 * MaxPass
    BY <1>2, <1>3, Numbers DEF D!LagInv, D!TypeOK, D!PhyPoints
  <1> QED BY <1>1, <1>2, <1>3, <1>4

\* A deadline has been reached when it lies behind.
LEMMA ReachedIsBehind ==
    ASSUME D!LagInv
    PROVE  (D!Reached(nextPhy) <=> phyLag >= 0) /\ (D!Reached(nextData) <=> dataLag >= 0)
  BY DEF D!LagInv, D!Reached

\* A tick that passes is noticed by both differences.
LEMMA TickLags ==
    ASSUME D!DeadlinesAssumption, D!TypeOK, D!LagInv, D!Tick
    PROVE  /\ dNow' \in 0..TickRange - 1
           /\ D!Signed(dNow', nextPhy) = phyLag + 1 /\ D!Signed(dNow', nextData) = dataLag + 1
  <1>1. dNow' = D!Plus(dNow, 1) BY DEF D!Tick
  <1>2. D!Signed(dNow, nextPhy) = phyLag /\ D!Signed(dNow, nextData) = dataLag BY DEF D!LagInv
  <1>3. 2 * (phyLag + 1) < TickRange /\ 2 * (dataLag + 1) < TickRange
    <2>1. 2 * (2 * MaxPass + 1) < TickRange BY Numbers
    <2>2. phyLag \in Int /\ phyLag <= 2 * MaxPass /\ dataLag \in Int /\ dataLag <= 2 * MaxPass
      BY LagNumbers
    <2>3. MaxPass \in Nat /\ TickRange \in Nat BY Numbers
    <2> QED BY <2>1, <2>2, <2>3
  <1> QED BY <1>1, <1>2, <1>3, LagNumbers, SignedTick

\* The catch-up loop of the PHY poll.
LEMMA PhyMoves ==
    ASSUME D!DeadlinesAssumption, D!TypeOK, D!LagInv, D!PhyEnd
    PROVE  /\ nextPhy' \in 0..TickRange - 1 /\ D!Signed(dNow, nextPhy') = phyLag'
           /\ phyLag' \in Int /\ -PhyPeriod <= phyLag' /\ phyLag' < 0
  <1>1. phyLag \in Nat BY LagNumbers DEF D!PhyEnd, D!LagInv, D!PhyPoints
  <1>2. PICK k \in Int : k = D!Periods(phyLag, PhyPeriod) * PhyPeriod
    <2>1. D!Periods(phyLag, PhyPeriod) * PhyPeriod \in Nat BY <1>1, Numbers, PeriodsPass
    <2> QED BY <2>1
  <1>3. k \in Nat /\ -PhyPeriod <= phyLag - k /\ phyLag - k < 0
    BY <1>1, <1>2, Numbers, PeriodsPass
  <1>4. nextPhy' = D!Plus(nextPhy, k) /\ phyLag' = phyLag - k
    BY <1>2 DEF D!PhyEnd, D!LagInv
  <1>5. D!Signed(dNow, nextPhy) = phyLag BY DEF D!LagInv
  <1>6. 2 * k <= TickRange + 2 * phyLag /\ k < TickRange BY <1>1, <1>3, Numbers, LagNumbers
  <1>7. nextPhy' \in 0..TickRange - 1 /\ D!Signed(dNow, nextPhy') = phyLag - k
    BY <1>3, <1>4, <1>5, <1>6, LagNumbers, SignedMoved
  <1> QED BY <1>1, <1>3, <1>4, <1>7

\* The catch-up loop of the data service.
LEMMA DataMoves ==
    ASSUME D!DeadlinesAssumption, D!TypeOK, D!LagInv, D!DataEnd
    PROVE  /\ nextData' \in 0..TickRange - 1 /\ D!Signed(dNow, nextData') = dataLag'
           /\ dataLag' \in Int /\ -DataPeriod <= dataLag'
           /\ IF dataDue THEN dataLag' < 0 ELSE dataLag' = dataLag
  <1>1. CASE dataDue
    <2>1. dataLag \in Nat BY <1>1, LagNumbers DEF D!LagInv
    <2>2. PICK k \in Int : k = D!Periods(dataLag, DataPeriod) * DataPeriod
      <3>1. D!Periods(dataLag, DataPeriod) * DataPeriod \in Nat BY <2>1, Numbers, PeriodsPass
      <3> QED BY <3>1
    <2>3. k \in Nat /\ -DataPeriod <= dataLag - k /\ dataLag - k < 0
      BY <2>1, <2>2, Numbers, PeriodsPass
    <2>4. nextData' = D!Plus(nextData, k) /\ dataLag' = dataLag - k
      BY <1>1, <2>2 DEF D!DataEnd, D!LagInv
    <2>5. D!Signed(dNow, nextData) = dataLag BY DEF D!LagInv
    <2>6. 2 * k <= TickRange + 2 * dataLag /\ k < TickRange BY <2>1, <2>3, Numbers, LagNumbers
    <2>7. nextData' \in 0..TickRange - 1 /\ D!Signed(dNow, nextData') = dataLag - k
      BY <2>3, <2>4, <2>5, <2>6, LagNumbers, SignedMoved
    <2> QED BY <1>1, <2>1, <2>3, <2>4, <2>7
  <1>2. CASE ~dataDue
    <2>1. 0 * DataPeriod = 0 BY Numbers
    <2>2. nextData' = D!Plus(nextData, 0) /\ dataLag' = dataLag - 0 BY <1>2, <2>1 DEF D!DataEnd
    <2>3. D!Plus(nextData, 0) = nextData
      <3>1. PICK n \in 0..TickRange - 1 : n = nextData BY LagNumbers
      <3>2. n % TickRange = n BY Numbers, ModSmall
      <3>3. n + 0 = n BY Numbers
      <3> QED BY <3>1, <3>2, <3>3 DEF D!Plus
    <2> QED BY <1>2, <2>2, <2>3, LagNumbers DEF D!LagInv
  <1> QED BY <1>1, <1>2

\* The wait ends before either deadline, or is none.
LEMMA WaitShort ==
    ASSUME D!DeadlinesAssumption, D!TypeOK, D!LagInv, D!Wait
    PROVE  /\ waiting' \in 0..PhyPeriod
           /\ phyLag + waiting' <= MaxPass /\ dataLag + waiting' <= MaxPass
  <1>1. waiting' = D!WaitTicks(D!Signed(nextData, dNow), D!Signed(nextPhy, dNow)) BY DEF D!Wait
  <1>2. D!Signed(nextData, dNow) = -dataLag /\ D!Signed(nextPhy, dNow) = -phyLag
    <2>1. -TickRange < 2 * phyLag /\ -TickRange < 2 * dataLag BY Numbers, LagNumbers
    <2> QED BY <2>1, LagNumbers, SignedBack DEF D!LagInv
  <1>3. phyLag <= spent /\ dataLag <= spent BY DEF D!Wait, D!LagInv
  <1>4. waiting' = IF -dataLag > 0 /\ -phyLag > 0
                   THEN (IF -dataLag < -phyLag THEN -dataLag ELSE -phyLag) ELSE 0
    BY <1>1, <1>2 DEF D!WaitTicks
  <1> QED BY <1>3, <1>4, Numbers, LagNumbers

-----------------------------------------------------------------------------
(* Every step keeps the invariant.                                         *)

\* A deadline in the future is a tick.
LEMMA PlusType ==
    ASSUME D!DeadlinesAssumption, D!TypeOK PROVE D!Plus(dNow, Retry) \in 0..TickRange - 1
  <1>1. PICK n \in Int : n = dNow + Retry BY Numbers DEF D!TypeOK
  <1>2. n % TickRange \in 0..TickRange - 1 BY Numbers
  <1> QED BY <1>1, <1>2 DEF D!Plus

\* The types.
LEMMA TypeStep == ASSUME D!DeadlinesAssumption, D!TypeOK, D!LagInv, D!Next PROVE D!TypeOK'
  <1> USE Numbers DEF D!TypeOK, D!timeVars, D!linkVars, D!ctlFrame
  <1>1. CASE D!Tick
    <2>1. dNow' \in 0..TickRange - 1 BY <1>1, TickLags
    <2> QED BY <1>1, <2>1 DEF D!Tick
  <1>3. CASE D!Top BY <1>3 DEF D!Top, D!Reached
  <1>4. CASE \E up \in BOOLEAN : D!PollPhy(up) BY <1>4 DEF D!PollPhy, D!RestartTickAtLinkUp
  <1>5. CASE D!SockIdle BY <1>5 DEF D!SockIdle
  <1>6. CASE D!SockFails BY <1>6, PlusType DEF D!SockFails
  <1>7. CASE D!SockRestart BY <1>7 DEF D!SockRestart
  <1>8. CASE D!RestartEnds BY <1>8, PlusType DEF D!RestartEnds
  <1>9. CASE D!PhyEnd BY <1>9, PhyMoves DEF D!PhyEnd
  <1>10. CASE D!Data BY <1>10 DEF D!Data
  <1>11. CASE D!DataEnd BY <1>11, DataMoves DEF D!DataEnd
  <1>12. CASE D!Wait BY <1>12, WaitShort DEF D!Wait
  <1>13. CASE D!Wake BY <1>13 DEF D!Wake
  <1>14. CASE D!PollFails BY <1>14 DEF D!PollFails
  <1> QED BY <1>1, <1>3, <1>4, <1>5, <1>6, <1>7, <1>8, <1>9, <1>10, <1>11, <1>12, <1>13, <1>14
       DEF D!Next

\* The lags, along a pass and over the wait.
LEMMA LagStep == ASSUME D!DeadlinesAssumption, D!TypeOK, D!LagInv, D!Next PROVE D!LagInv'
  <1> USE Numbers, LagNumbers DEF D!LagInv, D!PhyPoints, D!timeVars, D!linkVars, D!ctlFrame
  <1>1. CASE D!Tick
    <2>1. D!Signed(dNow, nextPhy)' = phyLag' /\ D!Signed(dNow, nextData)' = dataLag'
      BY <1>1, TickLags DEF D!Tick
    <2> QED BY <1>1, <2>1 DEF D!Tick
  <1>3. CASE D!Top BY <1>3, ReachedIsBehind DEF D!Top
  <1>4. CASE \E up \in BOOLEAN : D!PollPhy(up) BY <1>4 DEF D!PollPhy
  <1>5. CASE D!SockIdle BY <1>5 DEF D!SockIdle
  <1>6. CASE D!SockFails BY <1>6 DEF D!SockFails
  <1>7. CASE D!SockRestart BY <1>7 DEF D!SockRestart
  <1>8. CASE D!RestartEnds BY <1>8 DEF D!RestartEnds
  <1>9. CASE D!PhyEnd BY <1>9, PhyMoves DEF D!PhyEnd
  <1>10. CASE D!Data BY <1>10 DEF D!Data
  <1>11. CASE D!DataEnd
    <2>1. /\ pc = "data_end" /\ pc' = "compute" /\ dataDue' = FALSE
          /\ UNCHANGED <<dNow, spent, phyLag, nextPhy, waiting>>
      BY <1>11 DEF D!DataEnd
    <2>2. D!Signed(dNow, nextData)' = dataLag' BY <1>11, <2>1, DataMoves
    <2>3. /\ dataLag' \in Int /\ -DataPeriod <= dataLag' /\ dataLag' <= spent
      BY <1>11, <2>1, DataMoves
    <2> QED BY <2>1, <2>2, <2>3
  <1>12. CASE D!Wait BY <1>12, WaitShort DEF D!Wait
  <1>13. CASE D!Wake BY <1>13 DEF D!Wake
  <1>14. CASE D!PollFails BY <1>14 DEF D!PollFails
  <1> QED BY <1>1, <1>3, <1>4, <1>5, <1>6, <1>7, <1>8, <1>9, <1>10, <1>11, <1>12, <1>13, <1>14
       DEF D!Next

\* The link.
LEMMA SeenStep == ASSUME D!DeadlinesAssumption, D!TypeOK, D!LagInv, D!SeenInv, D!Next PROVE D!SeenInv'
  <1> USE Numbers, LagNumbers DEF D!SeenInv, D!ToTry, D!timeVars, D!linkVars, D!ctlFrame
  <1>1. CASE D!Tick BY <1>1 DEF D!Tick
  <1>3. CASE D!Top BY <1>3, ReachedIsBehind DEF D!Top
  <1>4. CASE \E up \in BOOLEAN : D!PollPhy(up) BY <1>4 DEF D!PollPhy
  <1>5. CASE D!SockIdle BY <1>5 DEF D!SockIdle
  <1>6. CASE D!SockFails BY <1>6 DEF D!SockFails
  <1>7. CASE D!SockRestart BY <1>7 DEF D!SockRestart
  <1>8. CASE D!RestartEnds BY <1>8 DEF D!RestartEnds
  <1>9. CASE D!PhyEnd BY <1>9 DEF D!PhyEnd
  <1>10. CASE D!Data BY <1>10 DEF D!Data, D!TypeOK
  <1>11. CASE D!DataEnd BY <1>11 DEF D!DataEnd
  <1>12. CASE D!Wait BY <1>12 DEF D!Wait
  <1>13. CASE D!Wake BY <1>13 DEF D!Wake
  <1>14. CASE D!PollFails BY <1>14 DEF D!PollFails
  <1> QED BY <1>1, <1>3, <1>4, <1>5, <1>6, <1>7, <1>8, <1>9, <1>10, <1>11, <1>12, <1>13, <1>14
       DEF D!Next

\* The tick of a restart that is wanted, over a tick.
LEMMA RestartTick ==
    ASSUME D!DeadlinesAssumption, D!TypeOK, D!LagInv, D!WantedInv, D!RestartTriedInTime, D!Tick, D!Wanted,
           pc # "restarting"
    PROVE  D!Signed(dNow, nextRestart)' = D!Signed(dNow, nextRestart) + 1
  <1>1. PICK l \in Int : l = D!Signed(dNow, nextRestart) BY LagNumbers, SignedOf
  <1>2. l <= wanted /\ wanted \in Nat BY <1>1 DEF D!WantedInv
  <1>3. PICK x \in Nat : x = MaxOutage + Retry + DataPeriod + 2 * PhyPeriod + 7 * MaxPass BY Numbers
  <1>4. 2 * (l + 1) < TickRange
    <2>1. 2 * (x + 1) < TickRange /\ TickRange \in Nat BY <1>3, Numbers
    <2>2. wanted <= x BY <1>3 DEF D!RestartTriedInTime
    <2> QED BY <1>2, <2>1, <2>2
  <1>5. dNow' = D!Plus(dNow, 1) /\ nextRestart' = nextRestart BY DEF D!Tick, D!linkVars
  <1> QED BY <1>1, <1>4, <1>5, LagNumbers, SignedTick

\* A restart tick that is set now, or a retry period ahead.
LEMMA RestartSet ==
    ASSUME D!DeadlinesAssumption, D!TypeOK
    PROVE  D!Signed(dNow, dNow) = 0 /\ D!Signed(dNow, D!Plus(dNow, Retry)) = -Retry
  <1>1. dNow \in 0..TickRange - 1 BY DEF D!TypeOK
  <1>2. D!Signed(dNow, dNow) = 0
    <2>1. dNow - dNow = 0 /\ -TickRange <= 2 * 0 /\ 2 * 0 < TickRange BY <1>1, Numbers
    <2> QED BY <1>1, <2>1, SignedIs
  <1>3. 2 * Retry <= TickRange + 2 * 0 /\ Retry < TickRange /\ Retry \in Nat BY Numbers
  <1>4. D!Signed(dNow, D!Plus(dNow, Retry)) = 0 - Retry BY <1>1, <1>2, <1>3, SignedMoved
  <1> QED BY <1>2, <1>4, Numbers

\* A restart that can be tried is wanted, and is the only one that is once the link is known.
LEMMA ToTryWanted == ASSUME D!SeenInv
    PROVE  /\ D!ToTry <=> linkUp /\ (recovery \/ restart)
           /\ D!ToTry => D!Wanted
           /\ polled /\ D!Wanted => D!ToTry
           /\ ~polled /\ D!Wanted => restart
  BY DEF D!SeenInv, D!ToTry, D!Wanted

\* How long a restart has been wanted.
LEMMA WantedStep ==
    ASSUME D!DeadlinesAssumption, D!TypeOK, D!LagInv, D!SeenInv, D!WantedInv, D!OutageInv,
           D!RestartTriedInTime, D!Next
    PROVE  D!WantedInv'
  <1> USE Numbers, LagNumbers DEF D!WantedInv, D!PhyPoints, D!Wanted, D!timeVars, D!linkVars, D!ctlFrame
  <1>0. D!Signed(dNow, nextRestart) \in Int BY SignedOf
  <1>1. CASE D!Tick
    <2>1. D!Wanted /\ pc # "restarting" =>
              D!Signed(dNow', nextRestart') = D!Signed(dNow, nextRestart) + 1
      BY <1>1, RestartTick
    <2>2. UNCHANGED <<pc, spiOk, linkUp, polled, recovery, restart, nextRestart>> BY <1>1 DEF D!Tick
    <2>3. /\ phyLag' = phyLag + 1 /\ dataLag' = dataLag + 1
          /\ wanted' = IF D!Wanted THEN wanted + 1 ELSE 0
          /\ pc \in {"phy_end", "restarting"} => spent' = spent + 1
      BY <1>1 DEF D!Tick
    <2>4. CASE D!Wanted BY <1>0, <2>1, <2>2, <2>3, <2>4
    <2>5. CASE ~D!Wanted BY <2>2, <2>3, <2>5 DEF D!SeenInv
    <2> QED BY <2>4, <2>5
  <1>3. CASE D!Top BY <1>3, ReachedIsBehind DEF D!Top
  <1>4. ASSUME NEW up \in BOOLEAN, D!PollPhy(up) PROVE D!WantedInv'
    <2>1. /\ pc = "phy" /\ pc' = "sock" /\ linkUp' = up /\ polled' = TRUE
          /\ recovery' = (recovery \/ (linkUp /\ ~up))
          /\ restart' = (restart /\ ~(linkUp /\ ~up))
          /\ UNCHANGED <<dNow, spent, phyLag, dataLag, wanted, spiOk>>
      BY <1>4 DEF D!PollPhy
    <2>2. phyLag >= 0 /\ phyLag <= MaxPass + spent BY <2>1 DEF D!LagInv
    <2>3. CASE D!Wanted /\ up
      <3>1. nextRestart' = nextRestart BY <1>4, <2>3 DEF D!PollPhy
      <3> QED BY <2>1, <2>3, <3>1
    <2>4. CASE ~up BY <2>1, <2>4
    <2>5. CASE ~D!Wanted /\ up
      <3>1. wanted = 0 BY <2>1, <2>5
      <3>2. CASE ~(recovery' \/ restart') BY <2>1, <3>1, <3>2
      <3>3. CASE recovery' \/ restart'
        <4>1. ~linkUp /\ polled BY <2>1, <2>5, <3>3
        <4>2. nextRestart' = dNow
          BY <1>4, <2>5, <4>1 DEF D!PollPhy, D!RestartTickAtLinkUp, D!SeenInv
        <4>3. D!Signed(dNow, nextRestart') = 0 BY <4>2, RestartSet
        <4> QED BY <2>1, <2>2, <3>1, <4>3
      <3> QED BY <3>2, <3>3
    <2> QED BY <2>3, <2>4, <2>5
  <1>5. CASE D!SockIdle
    <2>1. /\ pc = "sock" /\ pc' = "phy_end" /\ ~(spiOk /\ D!ToTry /\ D!Reached(nextRestart))
          /\ UNCHANGED <<dNow, spent, phyLag, dataLag, wanted, recovery, restart, spiOk,
                         nextRestart, linkUp, polled>>
      BY <1>5 DEF D!SockIdle
    <2>2. CASE ~D!Wanted BY <2>1, <2>2
    <2>3. CASE D!Wanted /\ ~polled
      <3>1. wanted <= MaxOutage + spent BY <2>1, <2>3 DEF D!OutageInv
      <3> QED BY <1>0, <2>1, <2>3, <3>1
    <2>4. CASE D!Wanted /\ polled /\ ~spiOk
      <3>1. D!ToTry BY <2>4, ToTryWanted
      <3>2. wanted <= MaxOutage + DataPeriod + PhyPeriod + 4 * MaxPass + spent
        BY <2>1, <2>4, <3>1 DEF D!LagInv, D!OutageInv
      <3> QED BY <1>0, <2>1, <2>4, <3>2
    <2>5. CASE D!Wanted /\ polled /\ spiOk
      <3>1. D!ToTry BY <2>5, ToTryWanted
      <3>2. D!Signed(dNow, nextRestart) < 0 BY <1>0, <2>1, <2>5, <3>1 DEF D!Reached
      <3>3. wanted <= Retry + MaxPass BY <1>0, <2>1, <2>5, <3>2
      <3> QED BY <1>0, <2>1, <2>5, <3>3
    <2> QED BY <2>2, <2>3, <2>4, <2>5
  <1>6. CASE D!SockFails
    <2>1. /\ pc = "sock" /\ pc' = "phy_end" /\ linkUp /\ ~D!Wanted
          /\ UNCHANGED <<dNow, spent, phyLag, dataLag, wanted, recovery, linkUp, polled>>
      BY <1>6 DEF D!SockFails
    <2>2. wanted = 0 BY <2>1
    <2>3. D!Signed(dNow, nextRestart') \in -Retry..0
      <3>1. nextRestart' = dNow \/ nextRestart' = D!Plus(dNow, Retry) BY <1>6 DEF D!SockFails
      <3>2. D!Signed(dNow, nextRestart') = 0 \/ D!Signed(dNow, nextRestart') = -Retry
        BY <3>1, RestartSet
      <3> QED BY <3>2
    <2> QED BY <2>1, <2>2, <2>3
  <1>7. CASE D!SockRestart BY <1>7 DEF D!SockRestart
  <1>8. CASE D!RestartEnds
    <2>1. wanted <= spent BY <1>8 DEF D!RestartEnds, D!OutageInv
    <2> QED BY <1>8, <2>1, RestartSet DEF D!RestartEnds
  <1>9. CASE D!PhyEnd BY <1>9, PhyMoves DEF D!PhyEnd
  <1>10. CASE D!Data BY <1>10 DEF D!Data
  <1>11. CASE D!DataEnd BY <1>11 DEF D!DataEnd
  <1>12. CASE D!Wait BY <1>12 DEF D!Wait
  <1>13. CASE D!Wake BY <1>13 DEF D!Wake
  <1>14. CASE D!PollFails BY <1>14 DEF D!PollFails
  <1> QED BY <1>1, <1>3, <1>4, <1>5, <1>6, <1>7, <1>8, <1>9, <1>10, <1>11, <1>12, <1>13, <1>14
       DEF D!Next

\* How long one has been wanted before the link is known, or after a transfer that failed.
LEMMA OutageStep ==
    ASSUME D!DeadlinesAssumption, D!TypeOK, D!LagInv, D!SeenInv, D!WantedInv, D!OutageInv, D!Next
    PROVE  D!OutageInv'
  <1> USE Numbers, LagNumbers DEF D!OutageInv, D!Wanted, D!ToTry, D!timeVars, D!linkVars, D!ctlFrame
  <1>0. wanted \in Nat BY DEF D!WantedInv
  <1>1. CASE D!Tick
    <2>1. UNCHANGED <<pc, dataDue, spiOk, linkUp, polled, recovery, restart>> BY <1>1 DEF D!Tick
    <2>2. /\ phyLag' = phyLag + 1 /\ dataLag' = dataLag + 1
          /\ wanted' = IF D!Wanted THEN wanted + 1 ELSE 0
          /\ pc # "wait" => spent' = spent + 1
      BY <1>1 DEF D!Tick
    <2>3. CASE D!Wanted BY <1>0, <2>1, <2>2, <2>3
    <2>4. CASE ~D!Wanted BY <2>1, <2>2, <2>4 DEF D!SeenInv
    <2> QED BY <2>3, <2>4
  <1>3. CASE D!Top BY <1>3 DEF D!Top
  <1>4. ASSUME NEW up \in BOOLEAN, D!PollPhy(up) PROVE D!OutageInv'
    <2>1. /\ pc = "phy" /\ pc' = "sock" /\ linkUp' = up /\ polled' = TRUE
          /\ recovery' = (recovery \/ (linkUp /\ ~up))
          /\ restart' = (restart /\ ~(linkUp /\ ~up))
          /\ UNCHANGED <<spent, phyLag, dataLag, wanted, spiOk>>
      BY <1>4 DEF D!PollPhy
    <2>2. phyLag <= MaxPass + spent BY <2>1 DEF D!LagInv, D!PhyPoints
    <2>3. CASE ~up \/ ~(recovery' \/ restart') BY <2>1, <2>3
    <2>4. CASE up /\ (recovery' \/ restart') /\ D!ToTry BY <2>1, <2>4
    <2>5. CASE up /\ (recovery' \/ restart') /\ D!Wanted /\ ~D!ToTry
      <3>1. ~polled BY <2>5
      <3>2. wanted <= MaxOutage + PhyPeriod + 2 * MaxPass + spent BY <1>0, <2>1, <2>2, <2>5, <3>1
      <3> QED BY <1>0, <2>1, <3>2
    <2>6. CASE up /\ ~D!Wanted
      <3>1. wanted = 0 BY <1>0, <2>1, <2>6 DEF D!WantedInv, D!LagInv, D!PhyPoints
      <3> QED BY <2>1, <3>1
    <2> QED BY <2>3, <2>4, <2>5, <2>6
  <1>5. CASE D!SockIdle BY <1>5 DEF D!SockIdle
  <1>6. CASE D!SockFails
    <2>1. wanted = 0 /\ polled BY <1>6 DEF D!SockFails, D!WantedInv, D!SeenInv, D!PhyPoints
    <2> QED BY <1>6, <2>1 DEF D!SockFails
  <1>7. CASE D!SockRestart BY <1>7 DEF D!SockRestart, D!SeenInv
  <1>8. CASE D!RestartEnds
    <2>1. polled BY <1>8 DEF D!RestartEnds, D!SeenInv
    <2> QED BY <1>0, <1>8, <2>1 DEF D!RestartEnds
  <1>9. CASE D!PhyEnd BY <1>0, <1>9, PhyMoves DEF D!PhyEnd
  <1>10. CASE D!Data
    <2>1. /\ pc' = "data_end" /\ pc = "data"
          /\ UNCHANGED <<dataDue, linkUp, polled, recovery, restart, wanted, spent, phyLag, dataLag>>
      BY <1>10 DEF D!Data
    <2>2. CASE dataDue /\ linkUp
      <3>1. spiOk' = TRUE \/ (D!Wanted => wanted < MaxOutage) BY <1>10, <2>2 DEF D!Data, D!MayFail
      <3> QED BY <1>0, <2>1, <2>2, <3>1
    <2>3. CASE ~(dataDue /\ linkUp)
      <3>1. spiOk' = spiOk BY <1>10, <2>3 DEF D!Data
      <3> QED BY <1>0, <2>1, <2>3, <3>1
    <2> QED BY <2>2, <2>3
  <1>11. CASE D!DataEnd
    <2>1. /\ pc = "data_end" /\ pc' = "compute"
          /\ UNCHANGED <<linkUp, polled, recovery, restart, spiOk, wanted, spent, phyLag>>
      BY <1>11 DEF D!DataEnd
    <2>2. CASE dataDue
      <3>1. dataLag' \in Int /\ -DataPeriod <= dataLag' BY <1>11, DataMoves
      <3> QED BY <1>0, <2>1, <2>2, <3>1
    <2>3. CASE ~dataDue
      <3>1. dataLag' = dataLag BY <1>11, <2>3, DataMoves
      <3> QED BY <1>0, <2>1, <2>3, <3>1
    <2> QED BY <2>2, <2>3
  <1>12. CASE D!Wait BY <1>12 DEF D!Wait
  <1>13. CASE D!Wake BY <1>13 DEF D!Wake
  <1>14. CASE D!PollFails BY <1>0, <1>14 DEF D!PollFails, D!MayFail
  <1> QED BY <1>1, <1>3, <1>4, <1>5, <1>6, <1>7, <1>8, <1>9, <1>10, <1>11, <1>12, <1>13, <1>14
       DEF D!Next

\* The bound, from the lags.
LEMMA BoundStep ==
    ASSUME D!DeadlinesAssumption, D!TypeOK, D!LagInv, D!WantedInv, D!RestartTriedInTime,
           D!TypeOK', D!LagInv', D!WantedInv', D!OutageInv', D!Next
    PROVE  D!RestartTriedInTime'
  <1>1. /\ spent' \in Nat /\ spent' <= MaxPass /\ phyLag' \in Int /\ phyLag' <= 2 * MaxPass
    <2>1. spent' \in Nat /\ spent' <= MaxPass /\ waiting' \in Nat BY Numbers DEF D!TypeOK
    <2> QED BY <2>1, Numbers DEF D!LagInv, D!TypeOK, D!PhyPoints
  <1>2. CASE D!Wanted'
    BY <1>1, <1>2, Numbers DEF D!WantedInv, D!OutageInv, D!RestartTriedInTime
  <1>3. CASE ~D!Wanted'
    <2>1. wanted' = wanted \/ wanted' = 0
      BY <1>3 DEF D!Next, D!Tick, D!Top, D!PollPhy, D!PollFails, D!SockIdle, D!SockFails, D!SockRestart,
         D!RestartEnds, D!PhyEnd, D!Data, D!DataEnd, D!Wait, D!Wake, D!timeVars, D!Wanted, D!linkVars
    <2> QED BY <2>1, Numbers DEF D!RestartTriedInTime
  <1> QED BY <1>2, <1>3

-----------------------------------------------------------------------------
(* The theorems about the deadlines.                                       *)

\* EthernetTask enters its loop in a state of the invariant ...
LEMMA DeadlineInit == ASSUME D!DeadlinesAssumption, D!Init PROVE D!DeadlineInv
  <1> USE Numbers
  <1>1. D!TypeOK
    <2>1. {dNow, nextPhy, nextData, nextRestart} \subseteq 0..TickRange - 1 BY DEF D!Init
    <2>2. {dataDue, linkUp, wasUp, polled, recovery, restart, spiOk} \subseteq BOOLEAN
      BY DEF D!Init
    <2>3. waiting \in 0..PhyPeriod /\ spent \in 0..MaxPass BY DEF D!Init
    <2>4. pc = "top" BY DEF D!Init
    <2> QED BY <2>1, <2>2, <2>3, <2>4 DEF D!TypeOK
  <1>2. D!Signed(dNow, dNow) = 0 BY <1>1, RestartSet
  <1>3. D!LagInv BY <1>2 DEF D!Init, D!LagInv, D!PhyPoints
  <1>4. D!SeenInv BY DEF D!Init, D!SeenInv
  <1>5. D!WantedInv BY <1>2 DEF D!Init, D!WantedInv, D!Wanted
  <1>7. D!OutageInv BY DEF D!Init, D!OutageInv, D!Wanted, D!ToTry
  <1>6. D!RestartTriedInTime BY DEF D!Init, D!RestartTriedInTime
  <1> QED BY <1>1, <1>3, <1>4, <1>5, <1>7, <1>6 DEF D!DeadlineInv

\* ... and every step keeps it.
LEMMA DeadlineNext ==
    ASSUME D!DeadlinesAssumption, D!DeadlineInv, [D!Next]_D!vars PROVE D!DeadlineInv'
  <1>1. CASE D!Next
    <2>1. /\ D!TypeOK /\ D!LagInv /\ D!SeenInv /\ D!WantedInv /\ D!OutageInv
          /\ D!RestartTriedInTime
      BY DEF D!DeadlineInv
    <2>2. D!TypeOK' /\ D!LagInv' /\ D!SeenInv' /\ D!WantedInv' /\ D!OutageInv'
      BY <1>1, <2>1, TypeStep, LagStep, SeenStep, WantedStep, OutageStep
    <2>3. D!RestartTriedInTime' BY <1>1, <2>1, <2>2, BoundStep
    <2> QED BY <2>2, <2>3 DEF D!DeadlineInv
  <1>2. CASE UNCHANGED D!vars
    BY <1>2 DEF D!vars, D!timeVars, D!linkVars, D!DeadlineInv, D!TypeOK, D!LagInv, D!SeenInv, D!WantedInv,
       D!OutageInv, D!RestartTriedInTime, D!Wanted, D!ToTry
  <1> QED BY <1>1, <1>2

\* The invariant of the deadlines always holds.
LEMMA DeadlineInvariance == ASSUME D!DeadlinesAssumption PROVE D!Spec => []D!DeadlineInv
  BY DeadlineInit, DeadlineNext, PTL DEF D!Spec

\* For all periods and passes that the range of the tick leaves room for: EthernetTask
\* starts each pass with no deadline further behind than one pass, and next_phy_tick and
\* next_data_service_tick never come so far from the tick that the sign of the difference
\* misleads the code, however often the tick wraps.
THEOREM StartInTime == D!Spec => []StartsInTime
  <1>1. D!DeadlineInv => StartsInTime
    BY DEF D!DeadlineInv, D!LagInv, D!StartsInTime, StartsInTime
  <1> QED BY <1>1, DeadlineInvariance, ClockAssumption, PTL

\* A restart that is wanted is tried within a retry period, a data service, two polls and
\* seven passes after the last read of the chip that fails, for all of their lengths, for
\* every length of the outage that the tick has room for and however long the link was down.
THEOREM RestartInTime == D!Spec => []RestartTriedInTime
  <1>1. D!DeadlineInv => RestartTriedInTime BY DEF D!DeadlineInv, RestartTriedInTime
  <1> QED BY <1>1, DeadlineInvariance, ClockAssumption, PTL

-----------------------------------------------------------------------------
(* The times of a link recovery.                                           *)

\* The constants of EthDiag.
LEMMA RecoveryNumbers ==
    ASSUME E!EthDiagAssumption
    PROVE  /\ Ticks \in Nat \ {0} /\ MaxTime \in Nat /\ MaxTime <= Ticks - 2
           /\ Starts \subseteq 0..Ticks - 1
           /\ E!NotCaptured = Ticks - 1 /\ E!NotCaptured \in 0..Ticks - 1
  BY DEF E!EthDiagAssumption, E!NotCaptured

\* The unsigned difference is the true time since the link came back.
LEMMA ElapsedIsTrue ==
    ASSUME E!EthDiagAssumption, E!TypeOK, E!UpInv, upTick # E!NotCaptured
    PROVE  E!Elapsed = time - upTime /\ E!Elapsed \in 0..Ticks - 1
  <1>1. /\ Ticks \in Nat \ {0} /\ tick \in 0..Ticks - 1 /\ upTick \in 0..Ticks - 1
        /\ time \in Nat /\ time <= Ticks - 2 /\ upTime \in Nat /\ upTime <= time
    <2>1. time \in Nat /\ time <= MaxTime BY RecoveryNumbers DEF E!TypeOK
    <2>2. upTime \in Nat /\ upTime <= time BY <2>1 DEF E!UpInv
    <2>3. tick \in 0..Ticks - 1 /\ upTick \in 0..Ticks - 1 BY DEF E!TypeOK
    <2> QED BY <2>1, <2>2, <2>3, RecoveryNumbers
  <1>2. tick = upTick + (time - upTime)
                 - (IF upTick + (time - upTime) < Ticks THEN 0 ELSE Ticks)
    BY DEF E!UpInv
  <1>3. (tick - upTick) % Ticks = IF tick >= upTick THEN tick - upTick ELSE tick - upTick + Ticks
    BY <1>1, ModDiff
  <1>4. (tick - upTick) % Ticks = time - upTime BY <1>1, <1>2, <1>3
  <1> QED BY <1>1, <1>4 DEF E!Elapsed

\* A recorded event: first, true and not missed.
LEMMA RecordStep ==
    ASSUME E!EthDiagAssumption, E!CaptureInv, NEW m \in E!Marks, E!Record(m), eLink,
           serving' \in BOOLEAN
    PROVE  E!CaptureInv'
  <1>1. E!TypeOK /\ E!RecordedIsFirst /\ E!NothingMissed /\ E!UpInv /\ E!CycleInv
    BY DEF E!CaptureInv, E!CaptureTrue
  <1>2. UNCHANGED <<tick, upTick, eLink, time, upTime>> BY DEF E!Record
  <1>3. /\ firstAt' \in [E!Marks -> -1..MaxTime]
        /\ \A n \in E!Marks : n # m => firstAt'[n] = firstAt[n]
        /\ firstAt'[m] = IF upTime # -1 /\ firstAt[m] = -1 /\ tick # E!NotCaptured
                         THEN time ELSE firstAt[m]
    BY <1>1 DEF E!Record, E!TypeOK
  <1>4. CASE E!Records(m)
    <2>1. /\ elapsed' = [elapsed EXCEPT ![m] = E!Elapsed]
          /\ markTick' = [markTick EXCEPT ![m] = tick]
          /\ active' = ~E!Complete(markTick')
      BY <1>4 DEF E!Record
    <2>2. active /\ upTick # E!NotCaptured /\ markTick[m] = E!NotCaptured
      BY <1>4 DEF E!Records
    <2>3. E!Elapsed = time - upTime /\ E!Elapsed \in 0..Ticks - 1 /\ upTime # -1
      BY <1>1, <2>2, ElapsedIsTrue DEF E!UpInv
    <2>4. /\ elapsed' \in [E!Marks -> 0..Ticks - 1] /\ markTick' \in [E!Marks -> 0..Ticks - 1]
          /\ elapsed'[m] = time - upTime /\ markTick'[m] = tick
          /\ \A n \in E!Marks : n # m => elapsed'[n] = elapsed[n] /\ markTick'[n] = markTick[n]
      BY <1>1, <2>1, <2>3 DEF E!TypeOK
    <2>5. firstAt[m] = -1 BY <1>1, <2>2 DEF E!NothingMissed
    <2>6. active' \in BOOLEAN BY <2>1 DEF E!Complete
    <2>7. E!TypeOK' BY <1>1, <1>2, <1>3, <2>4, <2>6 DEF E!TypeOK
    <2>8. E!RecordedIsFirst'
      BY <1>1, <1>2, <1>3, <2>3, <2>4, <2>5, RecoveryNumbers DEF E!RecordedIsFirst, E!TypeOK
    <2>9. E!NothingMissed'
      BY <1>1, <1>2, <1>3, <2>4, <2>5 DEF E!NothingMissed
    <2>10. E!UpInv' BY <1>1, <1>2 DEF E!UpInv, E!NotCaptured
    <2>11. E!CycleInv' BY <1>1, <1>2, <2>1 DEF E!CycleInv, E!Complete
    <2> QED BY <2>7, <2>8, <2>9, <2>10, <2>11 DEF E!CaptureInv, E!CaptureTrue
  <1>5. CASE ~E!Records(m)
    <2>1. UNCHANGED <<elapsed, markTick, active>> BY <1>5 DEF E!Record
    <2>2. E!TypeOK' BY <1>1, <1>2, <1>3, <2>1 DEF E!TypeOK
    <2>3. E!RecordedIsFirst' BY <1>1, <1>2, <1>3, <2>1 DEF E!RecordedIsFirst
    <2>4. E!NothingMissed'
      BY <1>1, <1>2, <1>3, <1>5, <2>1 DEF E!NothingMissed, E!Records, E!CycleInv
    <2>5. E!UpInv' BY <1>1, <1>2 DEF E!UpInv, E!NotCaptured
    <2>6. E!CycleInv' BY <1>1, <1>2, <2>1 DEF E!CycleInv
    <2> QED BY <2>2, <2>3, <2>4, <2>5, <2>6 DEF E!CaptureInv, E!CaptureTrue
  <1> QED BY <1>4, <1>5

\* The invariant of the captures holds at the start ...
LEMMA CaptureInit == ASSUME E!EthDiagAssumption, E!Init PROVE E!CaptureInv
  <1> USE RecoveryNumbers
  <1>1. tick \in 0..Ticks - 1 /\ E!NotCaptured \in 0..Ticks - 1 BY DEF E!Init
  <1>2. /\ markTick \in [E!Marks -> 0..Ticks - 1] /\ elapsed \in [E!Marks -> 0..Ticks - 1]
        /\ firstAt \in [E!Marks -> -1..MaxTime]
    <2>1. -1 \in -1..MaxTime OBVIOUS
    <2> QED BY <1>1, <2>1 DEF E!Init
  <1>3. E!TypeOK
    <2>1. active \in BOOLEAN /\ eLink \in BOOLEAN /\ serving \in BOOLEAN BY DEF E!Init
    <2>2. time \in 0..MaxTime /\ upTime \in -1..MaxTime BY DEF E!Init
    <2>3. upTick = E!NotCaptured BY DEF E!Init
    <2> QED BY <1>1, <1>2, <2>1, <2>2, <2>3 DEF E!TypeOK
  <1>4. E!RecordedIsFirst BY DEF E!Init, E!RecordedIsFirst
  <1>5. E!NothingMissed /\ E!UpInv /\ E!CycleInv
    BY DEF E!Init, E!NothingMissed, E!UpInv, E!CycleInv
  <1> QED BY <1>3, <1>4, <1>5 DEF E!CaptureInv, E!CaptureTrue

\* ... and over every step of the link, the clock and the task.
LEMMA CaptureNext ==
    ASSUME E!EthDiagAssumption, E!CaptureInv, [E!Next]_E!vars PROVE E!CaptureInv'
  <1>0. E!TypeOK /\ E!RecordedIsFirst /\ E!NothingMissed /\ E!UpInv /\ E!CycleInv
    BY DEF E!CaptureInv, E!CaptureTrue
  <1>1. CASE E!Tick
    <2>1. /\ time' = time + 1 /\ time < MaxTime /\ tick' = (tick + 1) % Ticks
          /\ UNCHANGED <<active, upTick, markTick, elapsed, eLink, serving, upTime, firstAt>>
      BY <1>1 DEF E!Tick, E!diagVars
    <2>2. tick \in 0..Ticks - 1 /\ time \in Nat /\ Ticks \in Nat \ {0} /\ MaxTime <= Ticks - 2
          /\ MaxTime \in Nat
      BY <1>0, RecoveryNumbers DEF E!TypeOK
    <2>3. tick' = IF tick + 1 < Ticks THEN tick + 1 ELSE tick + 1 - Ticks
      BY <2>1, <2>2, ModNext
    <2>4. tick' \in 0..Ticks - 1 /\ time' \in 0..MaxTime BY <2>1, <2>2, <2>3
    <2>5. E!TypeOK' BY <1>0, <2>1, <2>4 DEF E!TypeOK
    <2>6. E!RecordedIsFirst' /\ E!NothingMissed' /\ E!CycleInv'
      BY <1>0, <2>1 DEF E!RecordedIsFirst, E!NothingMissed, E!CycleInv, E!NotCaptured
    <2>7. E!UpInv'
      <3> SUFFICES ASSUME upTick # E!NotCaptured
                   PROVE  /\ upTime \in 0..time'
                          /\ tick' = upTick + (time' - upTime)
                               - (IF upTick + (time' - upTime) < Ticks THEN 0 ELSE Ticks)
        BY <2>1 DEF E!UpInv, E!NotCaptured
      <3>1. /\ upTime \in 0..time
            /\ tick = upTick + (time - upTime)
                       - (IF upTick + (time - upTime) < Ticks THEN 0 ELSE Ticks)
        BY <1>0 DEF E!UpInv
      <3>2. upTick \in 0..Ticks - 1 /\ upTick # Ticks - 1
        BY <1>0, RecoveryNumbers DEF E!TypeOK
      <3> QED BY <2>1, <2>2, <2>3, <3>1, <3>2
    <2> QED BY <2>5, <2>6, <2>7 DEF E!CaptureInv, E!CaptureTrue
  <1>2. CASE E!LinkDown
    <2>1. /\ eLink' = FALSE /\ serving' = FALSE /\ active' = TRUE
          /\ upTick' = E!NotCaptured /\ upTime' = -1
          /\ UNCHANGED <<tick, time>>
      BY <1>2 DEF E!LinkDown
    <2>2. /\ markTick' \in [E!Marks -> 0..Ticks - 1] /\ elapsed' \in [E!Marks -> 0..Ticks - 1]
          /\ firstAt' \in [E!Marks -> -1..MaxTime]
          /\ \A m \in E!Marks : markTick'[m] = E!NotCaptured /\ firstAt'[m] = -1
      <3>1. -1 \in -1..MaxTime BY RecoveryNumbers
      <3> QED BY <1>2, <3>1, RecoveryNumbers DEF E!LinkDown, E!Cleared
    <2>3. upTime' \in -1..MaxTime BY <2>1, RecoveryNumbers
    <2>4. E!TypeOK' BY <1>0, <2>1, <2>2, <2>3, RecoveryNumbers DEF E!TypeOK
    <2>5. E!RecordedIsFirst' /\ E!NothingMissed' /\ E!UpInv' /\ E!CycleInv'
      BY <2>1, <2>2 DEF E!RecordedIsFirst, E!NothingMissed, E!UpInv, E!CycleInv, E!NotCaptured
    <2> QED BY <2>4, <2>5 DEF E!CaptureInv, E!CaptureTrue
  <1>3. CASE E!LinkUp
    <2>1. /\ ~eLink /\ eLink' = TRUE /\ upTime' = time
          /\ UNCHANGED <<tick, active, markTick, elapsed, serving, time, firstAt>>
      BY <1>3 DEF E!LinkUp
    <2>2. /\ active /\ upTick = E!NotCaptured
          /\ \A m \in E!Marks : markTick[m] = E!NotCaptured /\ firstAt[m] = -1
      BY <1>0, <2>1 DEF E!CycleInv
    <2>3. upTick' = tick BY <1>3, <2>2 DEF E!LinkUp
    <2>4. /\ tick \in 0..Ticks - 1 /\ time \in 0..MaxTime /\ Ticks \in Nat
          /\ time \in -1..MaxTime /\ MaxTime \in Nat
      BY <1>0, RecoveryNumbers DEF E!TypeOK
    <2>5. E!TypeOK' BY <1>0, <2>1, <2>3, <2>4 DEF E!TypeOK
    <2>6. E!RecordedIsFirst' /\ E!NothingMissed' /\ E!CycleInv'
      BY <2>1, <2>2 DEF E!RecordedIsFirst, E!NothingMissed, E!CycleInv, E!NotCaptured
    <2>7. E!UpInv'
      <3>1. time \in 0..time /\ tick + (time - time) = tick /\ tick - 0 = tick /\ tick < Ticks
        BY <2>4
      <3> QED BY <2>1, <2>3, <3>1 DEF E!UpInv
    <2> QED BY <2>5, <2>6, <2>7 DEF E!CaptureInv, E!CaptureTrue
  <1>4. CASE E!Listening
    <2>1. "ready" \in E!Marks BY DEF E!Marks
    <2> QED BY <1>4, <2>1, RecordStep DEF E!Listening
  <1>5. CASE E!PongSent
    <2>1. "pong" \in E!Marks /\ serving' \in BOOLEAN BY <1>0, <1>5 DEF E!Marks, E!PongSent, E!TypeOK
    <2> QED BY <1>5, <2>1, RecordStep DEF E!PongSent
  <1>6. CASE E!TelemetrySent
    <2>1. "udp" \in E!Marks /\ serving' \in BOOLEAN
      BY <1>0, <1>6 DEF E!Marks, E!TelemetrySent, E!TypeOK
    <2> QED BY <1>6, <2>1, RecordStep DEF E!TelemetrySent
  <1>7. CASE UNCHANGED E!vars
    <2>1. E!TypeOK' BY <1>0, <1>7 DEF E!vars, E!TypeOK
    <2>2. E!RecordedIsFirst' /\ E!NothingMissed'
      BY <1>0, <1>7 DEF E!vars, E!RecordedIsFirst, E!NothingMissed, E!NotCaptured
    <2>3. E!UpInv' /\ E!CycleInv' BY <1>0, <1>7 DEF E!vars, E!UpInv, E!CycleInv, E!NotCaptured
    <2> QED BY <2>1, <2>2, <2>3 DEF E!CaptureInv, E!CaptureTrue
  <1> QED BY <1>1, <1>2, <1>3, <1>4, <1>5, <1>6, <1>7 DEF E!Next

\* What ethernet_diag_ reports of a recovery is true, for every range of the tick: a
\* captured time is that of the first event since the link came back, also across the
\* wrap of the tick, and no event but one in the tick that reads UINT32_MAX is missed.
THEOREM RecoveryCaptured == E!Spec => []CaptureTrue
  <1>1. E!Init => E!CaptureInv BY CaptureInit, ClockAssumption
  <1>2. E!CaptureInv /\ [E!Next]_(E!vars) => E!CaptureInv' BY CaptureNext, ClockAssumption
  <1>3. E!CaptureInv => CaptureTrue BY DEF E!CaptureInv, CaptureTrue
  <1> QED BY <1>1, <1>2, <1>3, PTL DEF E!Spec

-----------------------------------------------------------------------------
(* The stamps of a session's first PING.                                   *)

\* The stages that a distance lies between.
LEMMA DistanceEnds ==
    /\ S!Distances = {"rx", "parsed", "tx", "pong", "send", "total"}
    /\ S!From["rx"] = "established" /\ S!From["parsed"] = "rx" /\ S!From["tx"] = "parsed"
    /\ S!From["pong"] = "tx" /\ S!From["send"] = "pong" /\ S!From["total"] = "established"
    /\ \A d \in S!Distances : /\ S!From[d] \in S!Stages /\ S!To(d) \in S!Stages
                              /\ S!To(d) = IF d = "total" THEN "send" ELSE d
  BY DEF S!Distances, S!Stages, S!From, S!To

\* A distance that was taken has both of its stamps.
LEMMA TakenHasStamps ==
    ASSUME S!DistancesTrue, NEW d \in S!Distances, took[d] # S!None
    PROVE  at[S!From[d]] # S!None /\ at[S!To(d)] # S!None
  BY DEF S!DistancesTrue

\* The types of the stamps: UINT32_MAX is none of the times.
LEMMA StampNumbers ==
    ASSUME S!SessionDiagAssumption, S!TypeOK, S!StampInv
    PROVE  /\ sNow \in 0..SessionTime /\ SessionTime \in Nat /\ sNow \in S!Stamps
           /\ sNow # S!None /\ sendAt \in 0..SessionTime /\ sendAt \in S!Stamps
           /\ sendAt # S!None /\ Ticks \in Nat \ {0}
           /\ S!None \in 0..Ticks - 1 /\ S!None \in S!Stamps
           /\ \A s \in S!Stages : at[s] \in Int /\ (at[s] # S!None => at[s] \in 0..sNow)
           /\ began = S!None \/ began \in 0..sNow
  <1>1. /\ sNow \in 0..SessionTime /\ sendAt \in 0..SessionTime /\ SessionTime \in Nat
        /\ Ticks \in Nat \ {0} /\ SessionTime <= Ticks - 2
    BY DEF S!TypeOK, S!SessionDiagAssumption
  <1>2. \A s \in S!Stages : at[s] \in 0..SessionTime \cup {Ticks - 1}
    BY DEF S!TypeOK, S!None, S!Stamps
  <1>3. \A s \in S!Stages : at[s] = Ticks - 1 \/ at[s] <= sNow
    BY DEF S!StampInv, S!None
  <1>4. began = S!None \/ began \in 0..sNow BY DEF S!StampInv
  <1> QED BY <1>1, <1>2, <1>3, <1>4 DEF S!None, S!Stamps

\* A distance is a uint32_t.
LEMMA SinceType ==
    ASSUME S!SessionDiagAssumption, S!TypeOK, S!StampInv,
           NEW t \in 0..SessionTime, NEW s \in S!Stages, at[s] # S!None
    PROVE  S!Since(t, at[s]) \in 0..Ticks - 1
  <1>1. PICK u \in Int : u = t - at[s] BY StampNumbers
  <1>2. Ticks \in Nat \ {0} BY StampNumbers
  <1>3. u % Ticks \in 0..Ticks - 1 BY <1>1, <1>2
  <1> QED BY <1>1, <1>3 DEF S!Since

\* A stage that is passed for the first time, and the distance to the stage before it.
LEMMA StampKeeps ==
    ASSUME S!SessionDiagAssumption, S!TypeOK, S!StampInv, S!DistancesTrue, early => early',
           NEW s \in {"rx", "parsed", "tx", "pong"}, NEW e \in S!Stages,
           S!From[s] = e, e # s, at[s] = S!None, S!Stamp(s, e)
    PROVE  /\ at' \in [S!Stages -> S!Stamps] /\ at'[s] = sNow
           /\ \A r \in S!Stages : r # s => at'[r] = at[r]
           /\ took' \in [S!Distances -> 0..Ticks - 1]
           /\ S!DistancesTrue'
  <1>1. s \in S!Stages /\ s \in S!Distances BY DEF S!Stages, S!Distances
  <1>2. /\ at' = [at EXCEPT ![s] = sNow]
        /\ took' = IF at[e] = S!None THEN took ELSE [took EXCEPT ![s] = S!Since(sNow, at[e])]
    BY DEF S!Stamp, S!Distance
  <1>3. at \in [S!Stages -> S!Stamps] /\ took \in [S!Distances -> 0..Ticks - 1]
    BY DEF S!TypeOK
  <1>4. /\ at' \in [S!Stages -> S!Stamps] /\ at'[s] = sNow
        /\ \A r \in S!Stages : r # s => at'[r] = at[r]
    BY <1>1, <1>2, <1>3, StampNumbers
  <1>5. took' \in [S!Distances -> 0..Ticks - 1]
    <2>1. at[e] # S!None => S!Since(sNow, at[e]) \in 0..Ticks - 1 BY SinceType, StampNumbers
    <2> QED BY <1>1, <1>2, <1>3, <2>1
  <1>6. S!DistancesTrue'
    <2> SUFFICES ASSUME NEW d \in S!Distances, took'[d] # S!None
                 PROVE  /\ at'[S!From[d]] # S!None /\ at'[S!To(d)] # S!None
                        /\ took'[d] = S!Since(at'[S!To(d)], at'[S!From[d]])
                        /\ at'[S!From[d]] <= at'[S!To(d)] \/ (d = "send" /\ early')
      BY DEF S!DistancesTrue, S!None, S!From, S!To, S!Since
    <2>1. CASE took[d] # S!None
      <3>1. at[S!From[d]] # S!None /\ at[S!To(d)] # S!None BY <2>1, TakenHasStamps
      <3>2. S!From[d] \in S!Stages /\ S!To(d) \in S!Stages BY DistanceEnds
      <3>3. at'[S!From[d]] = at[S!From[d]] /\ at'[S!To(d)] = at[S!To(d)] BY <1>4, <3>1, <3>2
      <3>4. d # s BY <3>1, DistanceEnds
      <3>5. took'[d] = took[d] BY <1>2, <1>3, <3>4
      <3> QED BY <2>1, <3>3, <3>5 DEF S!DistancesTrue
    <2>2. CASE took[d] = S!None
      <3>1. d = s /\ at[e] # S!None /\ took'[d] = S!Since(sNow, at[e]) BY <1>1, <1>2, <1>3, <2>2
      <3>2. S!To(d) = s BY <3>1, DistanceEnds
      <3>3. at'[e] = at[e] BY <1>4
      <3> QED BY <1>4, <3>1, <3>2, <3>3, StampNumbers
    <2> QED BY <2>1, <2>2
  <1> QED BY <1>4, <1>5, <1>6

\* Where no stamp and no distance changes, the distances stay true.
LEMMA DistancesStay ==
    ASSUME S!DistancesTrue, UNCHANGED <<at, took>>, early => early' PROVE S!DistancesTrue'
  <1> SUFFICES ASSUME NEW d \in S!Distances, took[d] # S!None
               PROVE  /\ at[S!From[d]] # S!None /\ at[S!To(d)] # S!None
                      /\ took[d] = S!Since(at[S!To(d)], at[S!From[d]])
                      /\ at[S!From[d]] <= at[S!To(d)] \/ (d = "send" /\ early')
    BY DEF S!DistancesTrue, S!None, S!From, S!To, S!Since
  <1> QED BY DEF S!DistancesTrue

\* The same where the stamp may have been taken already, or is not this PING's to take.
LEMMA StampOnceKeeps ==
    ASSUME S!SessionDiagAssumption, S!TypeOK, S!StampInv, S!DistancesTrue, early => early',
           NEW s \in {"rx", "parsed", "tx", "pong"}, NEW e \in S!Stages,
           S!From[s] = e, e # s,
           (at[s] = S!None /\ S!Stamp(s, e)) \/ UNCHANGED <<at, took>>
    PROVE  /\ at' \in [S!Stages -> S!Stamps]
           /\ took' \in [S!Distances -> 0..Ticks - 1]
           /\ \A r \in S!Stages : r # s => at'[r] = at[r]
           /\ at'[s] = at[s] \/ (at[s] = S!None /\ at'[s] = sNow)
           /\ S!DistancesTrue'
  <1>1. CASE at[s] = S!None /\ S!Stamp(s, e) BY <1>1, StampKeeps
  <1>2. CASE UNCHANGED <<at, took>>
    <2>1. at' = at /\ took' = took BY <1>2
    <2>2. S!DistancesTrue' BY <1>2, DistancesStay
    <2> QED BY <2>1, <2>2 DEF S!TypeOK
  <1> QED BY <1>1, <1>2

\* The PONG's sending is stamped with the tick that was read before.
LEMMA SendStamped ==
    ASSUME S!SessionDiagAssumption, S!TypeOK, S!StampInv, S!PongInv, S!DistancesTrue, S!StampSend
    PROVE  /\ at' \in [S!Stages -> S!Stamps]
           /\ \A r \in S!Stages : r # "send" => at'[r] = at[r]
           /\ at["send"] = S!None /\ at'["send"] = sendAt
           /\ S!DistancesTrue'
  <1>1. /\ at' = [at EXCEPT !["send"] = sendAt] /\ at["send"] = S!None
        /\ took' = took /\ early' = early
    BY DEF S!StampSend, S!PongInv, S!bounds
  <1>2. "send" \in S!Stages BY DEF S!Stages
  <1>3. /\ at' \in [S!Stages -> S!Stamps] /\ at'["send"] = sendAt
        /\ \A r \in S!Stages : r # "send" => at'[r] = at[r]
    BY <1>1, <1>2, StampNumbers DEF S!TypeOK
  <1>4. S!DistancesTrue'
    <2> SUFFICES ASSUME NEW d \in S!Distances, took[d] # S!None
                 PROVE  /\ at'[S!From[d]] # S!None /\ at'[S!To(d)] # S!None
                        /\ took[d] = S!Since(at'[S!To(d)], at'[S!From[d]])
                        /\ at'[S!From[d]] <= at'[S!To(d)] \/ (d = "send" /\ early)
      BY <1>1 DEF S!DistancesTrue, S!None, S!From, S!To, S!Since
    <2>1. at[S!From[d]] # S!None /\ at[S!To(d)] # S!None BY TakenHasStamps
    <2>2. S!From[d] \in S!Stages /\ S!To(d) \in S!Stages BY DistanceEnds
    <2>3. at'[S!From[d]] = at[S!From[d]] /\ at'[S!To(d)] = at[S!To(d)] BY <1>1, <1>3, <2>1, <2>2
    <2> QED BY <2>3 DEF S!DistancesTrue
  <1> QED BY <1>1, <1>3, <1>4

\* Two distances end where the PONG is sent.
LEMMA SendKeeps ==
    ASSUME S!SessionDiagAssumption, S!TypeOK, S!PhaseInv, S!StampInv, S!PongInv, S!DistancesTrue,
           S!SendDistances
    PROVE  took' \in [S!Distances -> 0..Ticks - 1] /\ S!DistancesTrue'
  <1>1. took \in [S!Distances -> 0..Ticks - 1] BY DEF S!TypeOK
  <1>2. /\ "send" \in S!Stages /\ "pong" \in S!Stages /\ "established" \in S!Stages
        /\ "send" \in S!Distances /\ "total" \in S!Distances
    BY DEF S!Stages, S!Distances
  <1>3. /\ at' = at /\ early' = early /\ at["send"] = sendAt /\ sendAt >= began
        /\ early \/ (at["pong"] # S!None /\ at["pong"] <= sendAt)
        /\ at["established"] = began /\ began # S!None
    BY DEF S!SendDistances, S!PhaseInv, S!StampInv, S!PongInv, S!bounds
  <1> DEFINE half == S!Distance(took, "send", sendAt, "pong")
  <1>4. half = IF at["pong"] = S!None THEN took
               ELSE [took EXCEPT !["send"] = S!Since(sendAt, at["pong"])]
    BY DEF S!Distance
  <1>5. took' = [half EXCEPT !["total"] = S!Since(sendAt, at["established"])]
    BY <1>3 DEF S!SendDistances, S!Distance
  <1> HIDE DEF half
  <1>6. half \in [S!Distances -> 0..Ticks - 1]
    <2>1. at["pong"] # S!None => S!Since(sendAt, at["pong"]) \in 0..Ticks - 1
      BY <1>2, SinceType, StampNumbers
    <2> QED BY <1>1, <1>2, <1>4, <2>1
  <1>7. took' \in [S!Distances -> 0..Ticks - 1]
    <2>1. S!Since(sendAt, at["established"]) \in 0..Ticks - 1 BY <1>2, <1>3, SinceType, StampNumbers
    <2> QED BY <1>2, <1>5, <1>6, <2>1
  <1>8. S!DistancesTrue'
    <2> SUFFICES ASSUME NEW d \in S!Distances, took'[d] # S!None
                 PROVE  /\ at[S!From[d]] # S!None /\ at[S!To(d)] # S!None
                        /\ took'[d] = S!Since(at[S!To(d)], at[S!From[d]])
                        /\ at[S!From[d]] <= at[S!To(d)] \/ (d = "send" /\ early)
      BY <1>3 DEF S!DistancesTrue, S!None, S!From, S!To, S!Since
    <2>1. CASE d = "total"
      <3>1. took'[d] = S!Since(sendAt, at["established"]) BY <1>2, <1>5, <1>6, <2>1
      <3>2. S!To(d) = "send" /\ S!From[d] = "established" BY <2>1, DistanceEnds
      <3> QED BY <1>3, <3>1, <3>2, StampNumbers
    <2>2. CASE d = "send" /\ at["pong"] # S!None
      <3>1. took'[d] = S!Since(sendAt, at["pong"]) BY <1>1, <1>2, <1>4, <1>5, <1>6, <2>2
      <3>2. S!To(d) = "send" /\ S!From[d] = "pong" BY <2>2, DistanceEnds
      <3> QED BY <1>3, <2>2, <3>1, <3>2, StampNumbers
    <2>3. CASE d # "total" /\ ~(d = "send" /\ at["pong"] # S!None)
      <3>1. half[d] = took[d] BY <1>1, <1>4, <2>3
      <3>2. took'[d] = took[d] BY <1>5, <1>6, <2>3, <3>1
      <3> QED BY <3>2 DEF S!DistancesTrue
    <2> QED BY <2>1, <2>2, <2>3
  <1> QED BY <1>7, <1>8

\* A stamp that is taken is not from before the session, and one of RS422Task's does not
\* come before the parsing's.
LEMMA StampInvKeeps ==
    ASSUME S!SessionDiagAssumption, S!TypeOK, S!StampInv,
           NEW s \in S!Stages, s # "established", NEW t \in 0..SessionTime,
           t <= sNow, began = S!None \/ t >= began, s \in S!RsStages => t = sNow,
           at' \in [S!Stages -> S!Stamps],
           \A r \in S!Stages : r # s => at'[r] = at[r],
           at'[s] = at[s] \/ (at[s] = S!None /\ at'[s] = t),
           s \in S!RsStages => at["parsed"] # S!None \/ at'[s] = at[s],
           sNow' = sNow, began' = began, sessionActive' = sessionActive,
           epc' \in {"clear", "clear_seq", "activate"} => epc' = epc
    PROVE  S!StampInv'
  <1>1. /\ "parsed" \in S!Stages /\ S!RsStages \subseteq S!Stages /\ "parsed" \notin S!RsStages
        /\ "established" \in S!Stages
    BY DEF S!Stages, S!RsStages
  <1>2. \A r \in S!Stages : at'[r] = at[r] \/ (r = s /\ at[r] = S!None /\ at'[r] = t)
    OBVIOUS
  <1>3. began' = S!None \/ began' \in 0..sNow' BY DEF S!StampInv
  <1>4. \A r \in S!Stages : at'[r] = S!None \/ at'[r] <= sNow'
    BY <1>2, StampNumbers
  <1>5. sessionActive' \/ epc' \in {"clear", "clear_seq", "activate"} => began' # S!None
    BY DEF S!StampInv
  <1>6. sessionActive' \/ epc' \in {"clear_seq", "activate"} =>
          at'["established"] = began' /\ \A r \in S!Stages : at'[r] = S!None \/ at'[r] >= began'
    <2> SUFFICES ASSUME sessionActive' \/ epc' \in {"clear_seq", "activate"}
                 PROVE  /\ at'["established"] = began'
                        /\ \A r \in S!Stages : at'[r] = S!None \/ at'[r] >= began'
      OBVIOUS
    <2>1. sessionActive \/ epc \in {"clear_seq", "activate"} OBVIOUS
    <2>2. /\ at["established"] = began /\ began # S!None
          /\ \A r \in S!Stages : at[r] = S!None \/ at[r] >= began
      BY <2>1 DEF S!StampInv
    <2> QED BY <1>1, <1>2, <2>2
  <1>7. \A r \in S!RsStages : at'[r] # S!None =>
            at'["parsed"] # S!None /\ at'["parsed"] <= at'[r]
    <2> SUFFICES ASSUME NEW r \in S!RsStages, at'[r] # S!None
                 PROVE  at'["parsed"] # S!None /\ at'["parsed"] <= at'[r]
      OBVIOUS
    <2>1. at[r] # S!None => at["parsed"] # S!None /\ at["parsed"] <= at[r] BY DEF S!StampInv
    <2>2. CASE at[r] # S!None
      <3>1. at'[r] = at[r] BY <1>1, <1>2, <2>2
      <3>2. at'["parsed"] = at["parsed"] BY <1>1, <1>2, <2>1, <2>2
      <3> QED BY <2>1, <2>2, <3>1, <3>2
    <2>3. CASE at[r] = S!None
      <3>1. r = s /\ at'[r] = sNow BY <1>1, <1>2, <2>3
      <3>2. at["parsed"] # S!None BY <2>3, <3>1
      <3>3. at'["parsed"] = at["parsed"] BY <1>1, <1>2, <3>2
      <3> QED BY <1>1, <3>1, <3>2, <3>3, StampNumbers
    <2> QED BY <2>2, <2>3
  <1> QED BY <1>3, <1>4, <1>5, <1>6, <1>7 DEF S!StampInv, S!None

\* Where no stamp changes, the part that is about them stays.
LEMMA NoStampKeeps ==
    ASSUME S!StampInv, UNCHANGED <<at, sNow, began>>,
           sessionActive' => sessionActive \/ epc \in {"clear_seq", "activate"},
           epc' \in {"clear_seq", "activate"} =>
               epc \in {"clear_seq", "activate"} \/ sessionActive,
           epc' = "clear" => epc = "clear"
    PROVE  S!StampInv'
  BY DEF S!StampInv, S!None, S!Stages, S!RsStages

-----------------------------------------------------------------------------
(* The PONGs of the first PING's SEQ.                                      *)

\* An item of the rest of a queue, and of a queue with one more.
LEMMA TailHas ==
    ASSUME NEW Q, NEW q \in Seq(Q), q # <<>>, NEW i \in 1..Len(Tail(q))
    PROVE  i + 1 \in 1..Len(q) /\ Tail(q)[i] = q[i + 1]
  OBVIOUS

LEMMA AppendHas ==
    ASSUME NEW Q, NEW q \in Seq(Q), NEW x \in Q, NEW i \in 1..Len(Append(q, x))
    PROVE  (i \in 1..Len(q) /\ Append(q, x)[i] = q[i]) \/ Append(q, x)[i] = x
  OBVIOUS

\* A PONG that waits, or is being sent, has its stamp, unless one came before the PING.
LEMMA PongKeeps ==
    ASSUME S!SessionDiagAssumption, S!SessionInv, S!StampInv', S!Next PROVE S!PongInv'
  <1> USE DEF S!lineVars, S!bounds, S!None
  <1>a. S!TypeOK /\ S!PhaseInv /\ S!StampInv /\ S!PongInv BY DEF S!SessionInv
  <1>b. /\ "pong" \in S!Stages /\ "send" \in S!Stages
        /\ at \in [S!Stages -> S!Stamps] /\ respQ \in Seq({0} \cup Seqs)
    BY <1>a DEF S!Stages, S!TypeOK, S!PhaseInv
  <1>c. Len(<<>>) = 0 OBVIOUS
  <1>1. CASE S!Tick BY <1>a, <1>1, StampNumbers DEF S!Tick, S!PongInv
  <1>2. CASE S!Established BY <1>a, <1>2 DEF S!Established, S!PongInv, S!Withdrawn
  <1>3. CASE S!ClearStamps BY <1>a, <1>3 DEF S!ClearStamps, S!PongInv, S!PhaseInv
  <1>4. CASE S!ClearSeq BY <1>a, <1>4 DEF S!ClearSeq, S!PongInv, S!PhaseInv
  <1>5. CASE S!Activate BY <1>a, <1>c, <1>5 DEF S!Activate, S!PongInv
  <1>6. CASE S!SessionEnd BY <1>a, <1>c, <1>6 DEF S!SessionEnd, S!PongInv
  <1>7. CASE S!Receive
    <2>1. at'["pong"] = at["pong"]
      BY <1>b, <1>7 DEF S!Receive, S!StampOnce, S!Stamp
    <2> QED BY <1>a, <1>7, <2>1 DEF S!Receive, S!PongInv
  <1>8. CASE S!Parse
    <2>1. at'["pong"] = at["pong"] /\ (firstSeq' = firstSeq \/ ~valid)
      BY <1>a, <1>b, <1>8 DEF S!Parse, S!Stamp, S!PhaseInv
    <2> QED BY <1>a, <1>8, <2>1 DEF S!Parse, S!PongInv
  <1>9. CASE S!Publish BY <1>a, <1>c, <1>9 DEF S!Publish, S!PongInv, S!PhaseInv
  <1>10. CASE S!Enqueue BY <1>a, <1>10 DEF S!Enqueue, S!PongInv
  <1>11. CASE S!SendPong
    <2>1. /\ sessionActive /\ respQ # <<>> /\ respQ' = Tail(respQ) /\ epc = "idle"
          /\ UNCHANGED <<at, firstSeq, valid, sessionActive, sNow, began, early>>
      BY <1>11 DEF S!SendPong
    <2>2. (\E i \in 1..Len(respQ') : respQ'[i] = firstSeq) =>
              \E i \in 1..Len(respQ) : respQ[i] = firstSeq
      BY <1>b, <2>1, TailHas
    <2>3. ~(sessionActive /\ ~valid /\ ~early) BY <1>a, <2>1 DEF S!PongInv
    <2>4. CASE valid /\ Head(respQ) = firstSeq /\ at["send"] = S!None
      <3>1. epc' = "stamp" /\ sendAt' = sNow BY <1>11, <2>4 DEF S!SendPong
      <3>2. 1 \in 1..Len(respQ) /\ respQ[1] = firstSeq BY <1>b, <2>1, <2>4
      <3>3. early \/ at["pong"] # S!None BY <1>a, <2>4, <3>2 DEF S!PongInv
      <3>4. early \/ (at["pong"] # S!None /\ at["pong"] <= sNow) BY <1>a, <1>b, <3>3, StampNumbers
      <3>5. began \in 0..sNow BY <1>a, <2>1 DEF S!StampInv
      <3>6. sNow <= sNow /\ sNow >= began BY <1>a, <3>5, StampNumbers
      <3> QED BY <1>a, <2>1, <2>2, <2>3, <2>4, <3>1, <3>4, <3>6 DEF S!PongInv
    <2>5. CASE ~(valid /\ Head(respQ) = firstSeq /\ at["send"] = S!None)
      <3>1. epc' = "idle" BY <1>11, <2>1, <2>5 DEF S!SendPong
      <3> QED BY <1>a, <2>1, <2>2, <2>3, <3>1 DEF S!PongInv
    <2> QED BY <2>4, <2>5
  <1>12. CASE S!StampSend
    <2>1. at'["pong"] = at["pong"] /\ at'["send"] = sendAt BY <1>b, <1>12 DEF S!StampSend
    <2> QED BY <1>a, <1>12, <2>1 DEF S!StampSend, S!PongInv
  <1>13. CASE S!SendDistances BY <1>a, <1>13 DEF S!SendDistances, S!PongInv
  <1>14. CASE S!Forward
    <2>1. at'["pong"] = at["pong"] /\ at'["send"] = at["send"]
      BY <1>b, <1>14 DEF S!Forward, S!StampOnce, S!Stamp
    <2> QED BY <1>a, <1>14, <2>1 DEF S!Forward, S!PongInv
  <1>15. CASE S!ForwardFails BY <1>a, <1>15 DEF S!ForwardFails, S!PongInv
  <1>16. CASE S!PongComes
    <2> DEFINE routed == sessionActive /\ pending /\ Head(wire) = pendingSeq
    <2>1. /\ wire # <<>> /\ early' = (early \/ (routed /\ ~valid))
          /\ respQ' = IF routed THEN Append(respQ, Head(wire)) ELSE respQ
          /\ UNCHANGED <<epc, firstSeq, valid, sessionActive, sNow, sendAt, began>>
      BY <1>16 DEF S!PongComes
    <2>2. at'["send"] = at["send"] /\ (at["pong"] # S!None => at'["pong"] = at["pong"])
      BY <1>b, <1>16 DEF S!PongComes, S!StampOnce, S!Stamp
    <2>3. routed /\ valid /\ Head(wire) = firstSeq => at'["pong"] # S!None
      <3>1. routed /\ valid /\ Head(wire) = firstSeq /\ at["pong"] = S!None =>
                at' = [at EXCEPT !["pong"] = sNow]
        BY <1>16 DEF S!PongComes, S!StampOnce, S!Stamp
      <3> QED BY <1>a, <1>b, <2>2, <3>1, StampNumbers
    <2>4. Head(wire) \in {0} \cup Seqs BY <1>a, <2>1 DEF S!PhaseInv
    <2> HIDE DEF routed
    <2>5. CASE ~routed BY <1>a, <2>1, <2>2, <2>5 DEF S!PongInv
    <2>6. CASE routed /\ ~valid
      <3>1. sessionActive BY <2>6 DEF routed
      <3> QED BY <1>a, <2>1, <2>2, <2>6, <3>1 DEF S!PongInv
    <2>7. CASE routed /\ valid
      <3>1. sessionActive BY <2>7 DEF routed
      <3>3. (\E i \in 1..Len(respQ') : respQ'[i] = firstSeq) =>
                Head(wire) = firstSeq \/ \E i \in 1..Len(respQ) : respQ[i] = firstSeq
        BY <1>b, <2>1, <2>4, <2>7, AppendHas
      <3>4. ~early' => ~early BY <2>1
      <3>5. valid /\ ~early' /\ (\E i \in 1..Len(respQ') : respQ'[i] = firstSeq) =>
                at'["pong"] # S!None
        BY <1>a, <2>2, <2>3, <2>7, <3>3, <3>4 DEF S!PongInv
      <3> QED BY <1>a, <2>1, <2>2, <2>7, <3>1, <3>4, <3>5 DEF S!PongInv
    <2> QED BY <2>5, <2>6, <2>7
  <1> QED BY <1>1, <1>2, <1>3, <1>4, <1>5, <1>6, <1>7, <1>8, <1>9, <1>10, <1>11, <1>12, <1>13,
             <1>14, <1>15, <1>16 DEF S!Next

LEMMA SessionInit == ASSUME S!SessionDiagAssumption, S!Init PROVE S!SessionInv
  <1>1. /\ SessionTime \in Nat /\ Ticks \in Nat \ {0} /\ SessionTime <= Ticks - 2
        /\ MaxSessions \in Nat /\ MaxPings \in Nat /\ CmdDepth \in Nat
    BY DEF S!SessionDiagAssumption
  <1>2. S!TypeOK
    <2>1. S!None \in S!Stamps /\ S!None \in 0..Ticks - 1 BY <1>1 DEF S!None, S!Stamps
    <2>2. at = [s \in S!Stages |-> S!None] /\ took = [d \in S!Distances |-> S!None]
      BY DEF S!Init, S!NoDistance
    <2>3. at \in [S!Stages -> S!Stamps] /\ took \in [S!Distances -> 0..Ticks - 1] BY <2>1, <2>2
    <2>4. Len(cmdQ) <= CmdDepth BY <1>1 DEF S!Init
    <2>5. valid \in BOOLEAN /\ sessionActive \in BOOLEAN /\ pending \in BOOLEAN /\ early \in BOOLEAN
      BY Zenon DEF S!Init
    <2> QED BY <1>1, <2>3, <2>4, <2>5 DEF S!Init, S!TypeOK
  <1>3. S!PhaseInv BY DEF S!Init, S!PhaseInv
  <1>4. S!StampInv BY DEF S!Init, S!StampInv, S!Stages, S!RsStages
  <1>5. S!PongInv BY DEF S!Init, S!PongInv
  <1>6. S!DistancesTrue BY DEF S!Init, S!DistancesTrue, S!NoDistance
  <1> QED BY <1>2, <1>3, <1>4, <1>5, <1>6 DEF S!SessionInv

\* One step per action of EthernetTask and RS422Task.
LEMMA SessionStep ==
    ASSUME S!SessionDiagAssumption, S!SessionInv, S!Next
    PROVE  S!TypeOK' /\ S!PhaseInv' /\ S!StampInv' /\ S!DistancesTrue'
  <1> USE DEF S!lineVars, S!bounds
  <1>a. S!TypeOK /\ S!PhaseInv /\ S!StampInv /\ S!PongInv /\ S!DistancesTrue BY DEF S!SessionInv
  <1>b. /\ "rx" \in S!Stages /\ "parsed" \in S!Stages /\ "tx" \in S!Stages
        /\ "pong" \in S!Stages /\ "send" \in S!Stages /\ "established" \in S!Stages
        /\ S!RsStages = {"tx", "pong"}
    BY DEF S!Stages, S!RsStages
  <1>1. CASE S!Tick
    <2>1. S!TypeOK' BY <1>a, <1>1 DEF S!Tick, S!TypeOK, S!SessionDiagAssumption
    <2>2. S!PhaseInv' BY <1>a, <1>1 DEF S!Tick, S!PhaseInv, S!None
    <2>3. S!DistancesTrue' BY <1>a, <1>1, DistancesStay DEF S!Tick
    <2>4. S!StampInv'
      <3>1. sNow' = sNow + 1 /\ UNCHANGED <<at, began, sessionActive, epc>> BY <1>1 DEF S!Tick
      <3>2. \A s \in S!Stages : at'[s] = S!None \/ at'[s] <= sNow' BY <1>a, <3>1, StampNumbers
      <3>3. began' = S!None \/ began' \in 0..sNow' BY <1>a, <3>1, StampNumbers
      <3> QED BY <1>a, <3>1, <3>2, <3>3 DEF S!StampInv, S!None, S!Stages, S!RsStages
    <2> QED BY <2>1, <2>2, <2>3, <2>4
  <1>2. CASE S!Established
    <2>1. S!TypeOK'
      <3>1. valid' \in BOOLEAN BY <1>2, Zenon DEF S!Established, S!Withdrawn
      <3>2. sessions' \in 0..MaxSessions
        BY <1>a, <1>2 DEF S!Established, S!TypeOK, S!SessionDiagAssumption
      <3> QED BY <1>a, <1>2, <3>1, <3>2 DEF S!Established, S!TypeOK
    <2>2. S!PhaseInv' BY <1>a, <1>2 DEF S!Established, S!PhaseInv, S!Withdrawn, S!None
    <2>3. S!DistancesTrue' BY <1>a, <1>2, DistancesStay DEF S!Established
    <2>4. S!StampInv'
      <3>1. began' \in 0..sNow' /\ began' # S!None BY <1>a, <1>2, StampNumbers DEF S!Established
      <3> QED BY <1>a, <1>2, <3>1 DEF S!Established, S!StampInv, S!None, S!Stages, S!RsStages
    <2> QED BY <2>1, <2>2, <2>3, <2>4
  <1>3. CASE S!ClearStamps
    <2>1. /\ at' = [[s \in S!Stages |-> S!None] EXCEPT !["established"] = began]
          /\ took' = [d \in S!Distances |-> S!None]
          /\ epc = "clear" /\ epc' = "clear_seq" /\ UNCHANGED <<sNow, began, sessionActive, valid>>
      BY <1>3 DEF S!ClearStamps, S!Cleared, S!NoDistance
    <2>2. began \in 0..sNow /\ sNow \in 0..SessionTime /\ SessionTime \in Nat
      BY <1>a, <2>1, StampNumbers DEF S!StampInv
    <2>3. /\ at' \in [S!Stages -> S!Stamps] /\ at'["established"] = began
          /\ \A s \in S!Stages : s # "established" => at'[s] = S!None
      <3>1. began \in S!Stamps /\ S!None \in S!Stamps BY <2>2 DEF S!Stamps
      <3> QED BY <2>1, <1>b, <3>1
    <2>4. took' \in [S!Distances -> 0..Ticks - 1] BY <1>a, <2>1, StampNumbers
    <2>5. S!TypeOK'
      <3>1. early' \in BOOLEAN BY <1>3, Zenon DEF S!ClearStamps
      <3> QED BY <1>a, <1>3, <2>3, <2>4, <3>1 DEF S!ClearStamps, S!TypeOK
    <2>6. S!PhaseInv' BY <1>a, <1>3, <2>1 DEF S!ClearStamps, S!PhaseInv, S!None
    <2>7. S!DistancesTrue' BY <2>1 DEF S!DistancesTrue, S!None
    <2>8. S!StampInv'
      <3>1. \A s \in S!Stages : at'[s] = S!None \/ (at'[s] <= sNow' /\ at'[s] >= began')
        BY <2>1, <2>2, <2>3
      <3>2. \A s \in S!RsStages : at'[s] = S!None BY <1>b, <2>3
      <3>3. began' \in 0..sNow' /\ began' # S!None BY <1>a, <2>1, <2>2 DEF S!StampInv
      <3> QED BY <2>1, <2>3, <3>1, <3>2, <3>3 DEF S!StampInv, S!None
    <2> QED BY <2>5, <2>6, <2>7, <2>8
  <1>4. CASE S!ClearSeq
    <2>1. S!TypeOK' BY <1>a, <1>4 DEF S!ClearSeq, S!TypeOK
    <2>2. S!PhaseInv' BY <1>a, <1>4 DEF S!ClearSeq, S!PhaseInv, S!None
    <2>3. S!StampInv' /\ S!DistancesTrue' BY <1>a, <1>4, NoStampKeeps, DistancesStay DEF S!ClearSeq
    <2> QED BY <2>1, <2>2, <2>3
  <1>5. CASE S!Activate
    <2>1. S!TypeOK' BY <1>a, <1>5 DEF S!Activate, S!TypeOK
    <2>2. S!PhaseInv' BY <1>a, <1>5 DEF S!Activate, S!PhaseInv, S!None
    <2>3. S!DistancesTrue' BY <1>a, <1>5, DistancesStay DEF S!Activate
    <2>4. S!StampInv' BY <1>a, <1>5 DEF S!Activate, S!StampInv, S!None, S!Stages, S!RsStages
    <2> QED BY <2>1, <2>2, <2>3, <2>4
  <1>6. CASE S!SessionEnd
    <2>1. S!TypeOK' BY <1>a, <1>6 DEF S!SessionEnd, S!TypeOK
    <2>2. S!PhaseInv' BY <1>a, <1>6 DEF S!SessionEnd, S!PhaseInv, S!None
    <2>3. S!DistancesTrue' BY <1>a, <1>6, DistancesStay DEF S!SessionEnd
    <2>4. S!StampInv' BY <1>a, <1>6 DEF S!SessionEnd, S!StampInv, S!None, S!Stages, S!RsStages
    <2> QED BY <2>1, <2>2, <2>3, <2>4
  <1>7. CASE S!Receive
    <2>1. (at["rx"] = S!None /\ S!Stamp("rx", "established")) \/ UNCHANGED <<at, took>>
      BY <1>7 DEF S!Receive, S!StampOnce
    <2>2. /\ at' \in [S!Stages -> S!Stamps]
          /\ took' \in [S!Distances -> 0..Ticks - 1]
          /\ \A r \in S!Stages : r # "rx" => at'[r] = at[r]
          /\ at'["rx"] = at["rx"] \/ (at["rx"] = S!None /\ at'["rx"] = sNow)
          /\ S!DistancesTrue'
      BY <1>a, <1>b, <1>7, <2>1, StampOnceKeeps, DistanceEnds DEF S!Receive
    <2>3. S!StampInv'
      BY <1>a, <1>b, <1>7, <2>2, StampInvKeeps, StampNumbers DEF S!Receive
    <2>4. S!TypeOK' BY <1>a, <1>7, <2>2 DEF S!Receive, S!TypeOK, S!SessionDiagAssumption
    <2>5. S!PhaseInv' BY <1>a, <1>b, <1>7, <2>2 DEF S!Receive, S!PhaseInv, S!None
    <2> QED BY <2>2, <2>3, <2>4, <2>5
  <1>8. CASE S!Parse
    <2>1. (at["parsed"] = S!None /\ S!Stamp("parsed", "rx")) \/ UNCHANGED <<at, took>>
      BY <1>8 DEF S!Parse
    <2>2. /\ at' \in [S!Stages -> S!Stamps]
          /\ took' \in [S!Distances -> 0..Ticks - 1]
          /\ \A r \in S!Stages : r # "parsed" => at'[r] = at[r]
          /\ at'["parsed"] = at["parsed"] \/ (at["parsed"] = S!None /\ at'["parsed"] = sNow)
          /\ S!DistancesTrue'
      BY <1>a, <1>b, <1>8, <2>1, StampOnceKeeps, DistanceEnds DEF S!Parse
    <2>3. S!StampInv' BY <1>a, <1>b, <1>8, <2>2, StampInvKeeps, StampNumbers DEF S!Parse
    <2>4. at'["parsed"] # S!None
      <3>1. at["parsed"] = S!None => at'["parsed"] = sNow
        BY <1>a, <1>b, <1>8 DEF S!Parse, S!Stamp, S!TypeOK
      <3> QED BY <1>a, <1>b, <2>2, <3>1, StampNumbers
    <2>5. S!TypeOK' BY <1>a, <1>8, <2>2 DEF S!Parse, S!TypeOK
    <2>6. S!PhaseInv' BY <1>a, <1>8, <2>4 DEF S!Parse, S!PhaseInv, S!None
    <2> QED BY <2>2, <2>3, <2>5, <2>6
  <1>9. CASE S!Publish
    <2>1. S!TypeOK' BY <1>a, <1>9 DEF S!Publish, S!TypeOK
    <2>2. S!PhaseInv' BY <1>a, <1>9 DEF S!Publish, S!PhaseInv, S!None
    <2>3. S!StampInv' /\ S!DistancesTrue' BY <1>a, <1>9, NoStampKeeps, DistancesStay DEF S!Publish
    <2> QED BY <2>1, <2>2, <2>3
  <1>10. CASE S!Enqueue
    <2>1. cmdQ' \in Seq({0} \cup Seqs) /\ Len(cmdQ') <= CmdDepth
      BY <1>a, <1>10 DEF S!Enqueue, S!Put, S!TypeOK, S!PhaseInv, S!SessionDiagAssumption
    <2>2. S!TypeOK' BY <1>a, <1>10, <2>1 DEF S!Enqueue, S!TypeOK
    <2>3. S!PhaseInv' BY <1>a, <1>10, <2>1 DEF S!Enqueue, S!PhaseInv, S!None
    <2>4. S!StampInv' /\ S!DistancesTrue' BY <1>a, <1>10, NoStampKeeps, DistancesStay DEF S!Enqueue
    <2> QED BY <2>2, <2>3, <2>4
  <1>11. CASE S!SendPong
    <2>1. respQ' \in Seq({0} \cup Seqs) BY <1>a, <1>11 DEF S!SendPong, S!PhaseInv
    <2>2. sendAt' \in 0..SessionTime /\ epc' \in {"idle", "stamp"}
      BY <1>a, <1>11, StampNumbers DEF S!SendPong
    <2>3. S!TypeOK' BY <1>a, <1>11, <2>2 DEF S!SendPong, S!TypeOK
    <2>4. S!PhaseInv' BY <1>a, <1>11, <2>1, <2>2 DEF S!SendPong, S!PhaseInv, S!None
    <2>5. S!DistancesTrue' BY <1>a, <1>11, DistancesStay DEF S!SendPong
    <2>6. S!StampInv' BY <1>a, <1>11, <2>2, NoStampKeeps DEF S!SendPong
    <2> QED BY <2>3, <2>4, <2>5, <2>6
  <1>15. CASE S!StampSend
    <2>1. /\ at' \in [S!Stages -> S!Stamps]
          /\ \A r \in S!Stages : r # "send" => at'[r] = at[r]
          /\ at["send"] = S!None /\ at'["send"] = sendAt
          /\ S!DistancesTrue'
      BY <1>a, <1>15, SendStamped
    <2>2. S!TypeOK' BY <1>a, <1>15, <2>1 DEF S!StampSend, S!TypeOK
    <2>3. S!PhaseInv' BY <1>a, <1>b, <1>15, <2>1 DEF S!StampSend, S!PhaseInv, S!None
    <2>4. S!StampInv'
      <3>1. sendAt <= sNow /\ sendAt >= began BY <1>a, <1>15 DEF S!StampSend, S!PongInv
      <3> QED BY <1>a, <1>b, <1>15, <2>1, <3>1, StampInvKeeps, StampNumbers DEF S!StampSend
    <2> QED BY <2>1, <2>2, <2>3, <2>4
  <1>16. CASE S!SendDistances
    <2>1. took' \in [S!Distances -> 0..Ticks - 1] /\ S!DistancesTrue' BY <1>a, <1>16, SendKeeps
    <2>2. S!TypeOK' BY <1>a, <1>16, <2>1 DEF S!SendDistances, S!TypeOK
    <2>3. S!PhaseInv' BY <1>a, <1>16 DEF S!SendDistances, S!PhaseInv, S!None
    <2>4. S!StampInv' BY <1>a, <1>16, NoStampKeeps DEF S!SendDistances
    <2> QED BY <2>1, <2>2, <2>3, <2>4
  <1>12. CASE S!Forward
    <2>1. /\ cmdQ' \in Seq({0} \cup Seqs) /\ Len(cmdQ') <= CmdDepth
          /\ Head(cmdQ) \in {0} \cup Seqs /\ wire' \in Seq({0} \cup Seqs)
      BY <1>a, <1>12 DEF S!Forward, S!TypeOK, S!PhaseInv, S!SessionDiagAssumption
    <2>2. (at["tx"] = S!None /\ valid /\ S!Stamp("tx", "parsed")) \/ UNCHANGED <<at, took>>
      BY <1>12 DEF S!Forward, S!StampOnce
    <2>3. /\ at' \in [S!Stages -> S!Stamps]
          /\ took' \in [S!Distances -> 0..Ticks - 1]
          /\ \A r \in S!Stages : r # "tx" => at'[r] = at[r]
          /\ at'["tx"] = at["tx"] \/ (at["tx"] = S!None /\ at'["tx"] = sNow)
          /\ S!DistancesTrue'
      BY <1>a, <1>b, <1>12, <2>2, StampOnceKeeps, DistanceEnds DEF S!Forward
    <2>4. at["parsed"] # S!None \/ at'["tx"] = at["tx"] BY <1>a, <2>2 DEF S!PhaseInv
    <2>5. S!StampInv'
      <3>1. /\ sNow \in 0..SessionTime /\ sNow <= sNow /\ (began = S!None \/ sNow >= began)
            /\ "tx" \in S!RsStages /\ "tx" # "established"
        BY <1>a, <1>b, StampNumbers
      <3>2. UNCHANGED <<sNow, began, sessionActive, epc>> BY <1>12 DEF S!Forward
      <3> QED BY <1>a, <1>b, <2>3, <2>4, <3>1, <3>2, StampInvKeeps
    <2>6. S!TypeOK' BY <1>a, <1>12, <2>1, <2>3 DEF S!Forward, S!TypeOK
    <2>7. S!PhaseInv' BY <1>a, <1>b, <1>12, <2>1, <2>3 DEF S!Forward, S!PhaseInv, S!None
    <2> QED BY <2>3, <2>5, <2>6, <2>7
  <1>13. CASE S!ForwardFails
    <2>1. cmdQ' \in Seq({0} \cup Seqs) /\ Len(cmdQ') <= CmdDepth
      BY <1>a, <1>13 DEF S!ForwardFails, S!TypeOK, S!PhaseInv, S!SessionDiagAssumption
    <2>2. S!TypeOK' BY <1>a, <1>13, <2>1 DEF S!ForwardFails, S!TypeOK
    <2>3. S!PhaseInv' BY <1>a, <1>13, <2>1 DEF S!ForwardFails, S!PhaseInv, S!None
    <2>4. S!StampInv' /\ S!DistancesTrue' BY <1>a, <1>13, NoStampKeeps, DistancesStay DEF S!ForwardFails
    <2> QED BY <2>2, <2>3, <2>4
  <1>14. CASE S!PongComes
    <2>1. /\ wire' \in Seq({0} \cup Seqs) /\ respQ' \in Seq({0} \cup Seqs)
      BY <1>a, <1>14 DEF S!PongComes, S!PhaseInv
    <2>2. (at["pong"] = S!None /\ valid /\ S!Stamp("pong", "tx")) \/ UNCHANGED <<at, took>>
      BY <1>14 DEF S!PongComes, S!StampOnce
    <2>3. /\ at' \in [S!Stages -> S!Stamps]
          /\ took' \in [S!Distances -> 0..Ticks - 1]
          /\ \A r \in S!Stages : r # "pong" => at'[r] = at[r]
          /\ at'["pong"] = at["pong"] \/ (at["pong"] = S!None /\ at'["pong"] = sNow)
          /\ S!DistancesTrue'
      BY <1>a, <1>b, <1>14, <2>2, StampOnceKeeps, DistanceEnds DEF S!PongComes
    <2>4. at["parsed"] # S!None \/ at'["pong"] = at["pong"] BY <1>a, <2>2 DEF S!PhaseInv
    <2>5. S!StampInv'
      <3>1. /\ sNow \in 0..SessionTime /\ sNow <= sNow /\ (began = S!None \/ sNow >= began)
            /\ "pong" \in S!RsStages /\ "pong" # "established"
        BY <1>a, <1>b, StampNumbers
      <3>2. UNCHANGED <<sNow, began, sessionActive, epc>> BY <1>14 DEF S!PongComes
      <3> QED BY <1>a, <1>b, <2>3, <2>4, <3>1, <3>2, StampInvKeeps
    <2>6. pending' \in BOOLEAN /\ early' \in BOOLEAN BY <1>14, Zenon DEF S!PongComes
    <2>7. S!TypeOK' BY <1>a, <1>14, <2>3, <2>6 DEF S!PongComes, S!TypeOK
    <2>8. S!PhaseInv' BY <1>a, <1>b, <1>14, <2>1, <2>3 DEF S!PongComes, S!PhaseInv, S!None
    <2> QED BY <2>3, <2>5, <2>7, <2>8
  <1> QED BY <1>1, <1>2, <1>3, <1>4, <1>5, <1>6, <1>7, <1>8, <1>9, <1>10, <1>11, <1>12, <1>13,
             <1>14, <1>15, <1>16 DEF S!Next

LEMMA SessionNext ==
    ASSUME S!SessionDiagAssumption, S!SessionInv, [S!Next]_(S!vars) PROVE S!SessionInv'
  <1>1. CASE S!Next BY <1>1, SessionStep, PongKeeps DEF S!SessionInv
  <1>2. CASE UNCHANGED S!vars
    <2>a. S!TypeOK /\ S!PhaseInv /\ S!StampInv /\ S!PongInv /\ S!DistancesTrue BY DEF S!SessionInv
    <2>1. S!TypeOK' BY <1>2, <2>a DEF S!vars, S!TypeOK
    <2>2. S!PhaseInv' BY <1>2, <2>a DEF S!vars, S!PhaseInv, S!None
    <2>3. S!StampInv' /\ S!DistancesTrue' BY <1>2, <2>a, NoStampKeeps, DistancesStay DEF S!vars
    <2>4. S!PongInv' BY <1>2, <2>a DEF S!vars, S!PongInv, S!None
    <2> QED BY <2>1, <2>2, <2>3, <2>4 DEF S!SessionInv
  <1> QED BY <1>1, <1>2

\* Whatever RS422Task does with a PING of the last session while EthernetTask begins the
\* next, or between any two of its accesses while it sends a PONG, the stamps of an active
\* session are its own, RS422Task's come after the parsing's, and each distance is the one
\* between its two stamps; only the last one can run backwards, and only in a session that
\* was given a PONG before it had a PING.
THEOREM SessionStamped == S!Spec => []StampsTrue
  <1>1. S!Init => S!SessionInv BY SessionInit, ClockAssumption
  <1>2. S!SessionInv /\ [S!Next]_(S!vars) => S!SessionInv' BY SessionNext, ClockAssumption
  <1>3. S!SessionInv => StampsTrue
    BY DEF S!SessionInv, S!StampInv, S!StampsTrue, S!NothingFromBefore, S!StampsFollowParsing,
       StampsTrue
  <1> QED BY <1>1, <1>2, <1>3, PTL DEF S!Spec

-----------------------------------------------------------------------------
(* HealthTask: losses are counted once, and, as long as no silence lasts a *)
(* whole turn of the tick count, a loss is detected in time and a recovery *)
(* rests on a recent frame.                                                *)

USE HealthAssumption DEF local, shared, counts

\* A tick fits its width.
LEMMA TickFits == ASSUME NEW t \in Nat PROVE TickAt(t) \in 0..TickMod - 1
  BY DEF TickAt

\* Elapsed undoes the wrap: of two times less than a turn apart it gives the distance.
LEMMA ElapsedTrue ==
    ASSUME NEW c \in Nat, NEW l \in Nat, c - l \in 0..TickMod - 1,
           NEW e, NEW f, e = TickAt(c), f = TickAt(l)
    PROVE  Elapsed(e, f) = c - l
  <1>1. PICK d \in 0..TickMod - 1 : c = l + d /\ d = c - l OBVIOUS
  <1>2. TickMod \in Nat \ {0} /\ l \in Int /\ f \in 0..TickMod - 1 BY TickFits
  <1>3. l % TickMod = f /\ e = (l + d) % TickMod BY <1>1 DEF TickAt
  <1>4. e = IF f + d < TickMod THEN f + d ELSE f + d - TickMod
    BY <1>1, <1>2, <1>3, ModAdd
  <1>5. e - f = d \/ e - f = d - TickMod BY <1>1, <1>2, <1>4
  <1>6. (e - f) % TickMod = d BY <1>1, <1>2, <1>5, ModSmall
  <1> QED BY <1>1, <1>6 DEF Elapsed

\* What the real times are made of.
LEMMA Times ==
    ASSUME TypeOK
    PROVE  now \in Nat /\ wake \in Nat /\ lastFrame \in Nat /\ Start <= lastFrame /\ lastFrame <= now
  BY DEF TypeOK

-----------------------------------------------------------------------------
(* Counting.                                                               *)

\* A loss is counted in the step that enters TIMEOUT, a recovery in the one that leaves it.
THEOREM LossesAreCounted == Spec => []LossesCounted
  <1> USE DEF CountInv, LossesCounted
  <1> DEFINE I == /\ CountInv /\ timeouts \in Nat /\ recoveries \in Nat
  <1>1. Init => I BY DEF Init
  <1>2. I /\ [Next]_vars => I'
    <2> SUFFICES ASSUME I, [Next]_vars PROVE I' OBVIOUS
    <2>1. CASE Tick BY <2>1 DEF Tick
    <2>2. CASE FrameReceived BY <2>2 DEF FrameReceived
    <2>3. CASE Wake BY <2>3 DEF Wake
    <2>4. CASE ReadHas BY <2>4 DEF ReadHas
    <2>5. CASE ReadLast BY <2>5 DEF ReadLast
    <2>6. CASE JudgeExpired BY <2>6 DEF JudgeExpired, Sleep
    <2>7. CASE SetTimeout BY <2>7 DEF SetTimeout, Sleep
    <2>8. CASE JudgeFresh BY <2>8 DEF JudgeFresh, Sleep
    <2>9. CASE UNCHANGED vars BY <2>9 DEF vars
    <2> QED BY <2>1, <2>2, <2>3, <2>4, <2>5, <2>6, <2>7, <2>8, <2>9 DEF Next
  <1>3. I => LossesCounted OBVIOUS
  <1> QED BY <1>1, <1>2, <1>3, PTL DEF Spec

-----------------------------------------------------------------------------
(* Detection and recovery.                                                 *)

\* Every step keeps every variable in its type.
LEMMA HealthTypes == TypeOK /\ Next => TypeOK'
  <1> SUFFICES ASSUME TypeOK, Next PROVE TypeOK' OBVIOUS
  <1>0. TickAt(now) \in 0..TickMod - 1 BY TickFits, Times
  <1> USE <1>0 DEF TypeOK, NoTick
  <1>1. CASE Tick BY <1>1 DEF Tick
  <1>2. CASE FrameReceived BY <1>2 DEF FrameReceived
  <1>3. CASE Wake BY <1>3 DEF Wake
  <1>4. CASE ReadHas BY <1>4 DEF ReadHas
  <1>5. CASE ReadLast BY <1>5 DEF ReadLast
  <1>6. CASE JudgeExpired BY <1>6 DEF JudgeExpired, Sleep
  <1>7. CASE SetTimeout BY <1>7 DEF SetTimeout, Sleep
  <1>8. CASE JudgeFresh BY <1>8 DEF JudgeFresh, Sleep
  <1> QED BY <1>1, <1>2, <1>3, <1>4, <1>5, <1>6, <1>7, <1>8 DEF Next

\* A pass that finds no silence of the timeout has a frame, or the start, of less than
\* the timeout before it began; the frame may also have come since.
LEMMA FreshFrame ==
    ASSUME HealthInv, hpc = "judge", ~Expired
    PROVE  \E c \in wake..now : c < lastFrame + Timeout
  <1>0. now \in Nat /\ wake \in Nat /\ lastFrame \in Nat /\ Start <= lastFrame /\ lastFrame <= now
    BY Times DEF HealthInv
  <1>1. PICK c \in wake..now :
            /\ cur = TickAt(c)
            /\ ~has => c - Start < TickMod
            /\ has => \E l \in Start..lastFrame : last = TickAt(l) /\ c - l < TickMod
    BY DEF HealthInv, PassInv
  <1>2. PICK l \in Start..lastFrame :
            /\ (IF has THEN last ELSE TickAt(Start)) = TickAt(l)
            /\ c - l < TickMod
    <2>1. CASE has BY <1>1, <2>1
    <2>2. CASE ~has BY <1>0, <1>1, <2>2
    <2> QED BY <2>1, <2>2 DEF HealthInv, TypeOK
  <1>3. c \in Nat /\ l \in Nat BY <1>0
  <1>4. CASE l > c BY <1>0, <1>3, <1>4
  <1>5. CASE l <= c
    <2>1. c - l \in 0..TickMod - 1 BY <1>2, <1>3, <1>5
    <2>2. Elapsed(cur, IF has THEN last ELSE TickAt(Start)) = c - l
      BY <1>1, <1>2, <1>3, <2>1, ElapsedTrue
    <2>3. c - l < Timeout BY <1>3, <2>2 DEF Expired
    <2> QED BY <1>0, <1>3, <2>3
  <1> QED BY <1>3, <1>4, <1>5

\* The invariant at the start, and over every step that the silence stays measurable in.
LEMMA HealthInit == Init => HealthInv
  <1> SUFFICES ASSUME Init PROVE HealthInv OBVIOUS
  <1>1. TypeOK
    <2>1. has \in BOOLEAN /\ hasValid \in BOOLEAN BY DEF Init
    <2>2. wake \in Nat /\ 0 \in 0..TickMod - 1 /\ Start \in Start..Horizon BY DEF Init
    <2> QED BY <2>1, <2>2 DEF Init, TypeOK
  <1>2. now <= wake + MaxLag BY DEF Init
  <1>3. FrameInv /\ PassInv BY DEF Init, FrameInv, PassInv
  <1>4. FreshInv BY DEF Init, FreshInv
  <1> QED BY <1>1, <1>2, <1>3, <1>4 DEF HealthInv

\* Together, as long as the silence stays measurable.
LEMMA HealthNext == HealthInv /\ SilenceMeasurable /\ [Next]_vars => HealthInv'
  <1> SUFFICES ASSUME HealthInv, SilenceMeasurable, [Next]_vars PROVE HealthInv' OBVIOUS
  <1>0. now \in Nat /\ wake \in Nat /\ lastFrame \in Nat /\ Start <= lastFrame /\ lastFrame <= now
    BY Times DEF HealthInv
  <1>a. now - lastFrame < TickMod BY DEF SilenceMeasurable, Silence
  <1>b. Next => TypeOK' BY HealthTypes DEF HealthInv
  <1> USE DEF HealthInv
  <1>1. CASE Tick
    <2>1. UNCHANGED <<hpc, wake, local, shared, state>> /\ now' = now + 1
          /\ now < wake + MaxLag
      BY <1>1 DEF Tick
    <2>2. PassInv' BY <1>0, <2>1 DEF PassInv
    <2> QED BY <1>0, <1>1, <1>b, <2>1, <2>2 DEF Next, FrameInv, FreshInv
  <1>2. CASE FrameReceived
    <2>1. UNCHANGED <<now, hpc, wake, local, state>> /\ lastFrame' = now /\ hasValid'
          /\ lastTick' = TickAt(now)
      BY <1>2 DEF FrameReceived
    <2>2. PassInv'
      <3>1. \A l \in Start..lastFrame : l \in Start..lastFrame' BY <1>0, <2>1
      <3> QED BY <2>1, <3>1 DEF PassInv
    <2>3. FreshInv' BY <1>0, <2>1 DEF FreshInv
    <2>4. FrameInv' BY <2>1 DEF FrameInv
    <2> QED BY <1>2, <1>b, <2>1, <2>2, <2>3, <2>4 DEF Next
  <1>3. CASE Wake
    <2>1. UNCHANGED <<now, wake, has, last, shared, state>> /\ now >= wake
          /\ cur' = TickAt(now) /\ hpc' = "read_has"
      BY <1>3 DEF Wake
    <2>2. PassInv' BY <1>0, <2>1 DEF PassInv
    <2> QED BY <1>3, <1>b, <2>1, <2>2 DEF Next, FrameInv, FreshInv
  <1>4. CASE ReadHas
    <2>1. UNCHANGED <<now, wake, cur, last, shared, state>> /\ hpc = "read_has"
          /\ has' = hasValid /\ hpc' = "read_last"
      BY <1>4 DEF ReadHas
    <2>2. PICK c \in wake..now : cur = TickAt(c) BY <2>1 DEF PassInv
    <2>3. ~hasValid => c - Start < TickMod BY <1>0, <1>a DEF FrameInv
    <2>4. PassInv' BY <2>1, <2>2, <2>3 DEF PassInv
    <2> QED BY <1>4, <1>b, <2>1, <2>4 DEF Next, FrameInv, FreshInv
  <1>5. CASE ReadLast
    <2>1. UNCHANGED <<now, wake, cur, has, shared, state>> /\ hpc = "read_last"
          /\ last' = lastTick /\ hpc' = "judge"
      BY <1>5 DEF ReadLast
    <2>2. PICK c \in wake..now : cur = TickAt(c) /\ (~has => c - Start < TickMod)
      BY <2>1 DEF PassInv
    <2>3. has => last' = TickAt(lastFrame) /\ c - lastFrame < TickMod
                 /\ lastFrame \in Start..lastFrame
      BY <1>0, <1>a, <2>1 DEF FrameInv
    <2>4. PassInv' BY <2>1, <2>2, <2>3 DEF PassInv
    <2> QED BY <1>5, <1>b, <2>1, <2>4 DEF Next, FrameInv, FreshInv
  <1>6. CASE JudgeExpired
    <2>1. UNCHANGED <<now, local, shared, state>> /\ hpc = "judge" BY <1>6 DEF JudgeExpired
    <2>2. CASE state = "TIMEOUT"
      <3>1. hpc' = "sleep" /\ wake' = wake + Period BY <1>6, <2>2 DEF JudgeExpired, Sleep
      <3> QED BY <1>0, <1>6, <1>b, <2>1, <2>2, <3>1 DEF Next, FrameInv, PassInv, FreshInv
    <2>3. CASE state # "TIMEOUT"
      <3>1. hpc' = "set_timeout" /\ wake' = wake BY <1>6, <2>3 DEF JudgeExpired
      <3>2. PassInv' BY <2>1, <3>1 DEF PassInv
      <3> QED BY <1>6, <1>b, <2>1, <3>1, <3>2 DEF Next, FrameInv, FreshInv
    <2> QED BY <2>2, <2>3
  <1>7. CASE SetTimeout
    BY <1>0, <1>7, <1>b DEF SetTimeout, Sleep, Next, FrameInv, PassInv, FreshInv
  <1>8. CASE JudgeFresh
    <2>1. UNCHANGED <<now, local, shared>> /\ hpc = "judge" /\ ~Expired
          /\ hpc' = "sleep" /\ wake' = wake + Period
      BY <1>8 DEF JudgeFresh, Sleep
    <2>2. PICK c \in wake..now : c < lastFrame + Timeout BY <2>1, FreshFrame
    <2>3. FreshInv' BY <1>0, <2>1, <2>2 DEF FreshInv
    <2> QED BY <1>0, <1>8, <1>b, <2>1, <2>3 DEF Next, FrameInv, PassInv
  <1>9. CASE UNCHANGED vars
    BY <1>9 DEF vars, TypeOK, FrameInv, PassInv, FreshInv
  <1> QED BY <1>1, <1>2, <1>3, <1>4, <1>5, <1>6, <1>7, <1>8, <1>9 DEF Next

\* While no silence lasts a whole turn of the tick count (2^32 ms), the invariant holds.
LEMMA HealthInvariance == Spec /\ []SilenceMeasurable => []HealthInv
  BY HealthInit, HealthNext, PTL DEF Spec

\* Loss is detected for every uptime, also across wraps of the tick count, as long as
\* no silence lasts 2^32 ticks: the state is TIMEOUT after Timeout + Period + MaxLag.
THEOREM LossIsDetected == Spec /\ []SilenceMeasurable => []LossDetected
  <1>1. HealthInv => LossDetected
    <2> SUFFICES ASSUME HealthInv, state # "TIMEOUT" PROVE Silence <= Timeout + Period + MaxLag
      BY DEF LossDetected
    <2>1. now \in Nat /\ wake \in Nat /\ lastFrame \in Nat BY Times DEF HealthInv
    <2> QED BY <2>1 DEF HealthInv, FreshInv, Silence
  <1> QED BY <1>1, HealthInvariance, PTL

\* And under the same condition, which is needed, HealthTask declares communication
\* recovered only on a frame of the last Timeout + MaxLag ticks.
THEOREM RecoveryIsReal == Spec /\ []SilenceMeasurable => RecoveryHasFrame
  <1>1. HealthInv /\ [Next]_vars =>
            [state' = "OK" /\ state = "TIMEOUT" => Silence < Timeout + MaxLag]_vars
    <2> SUFFICES ASSUME HealthInv, Next, state' = "OK", state = "TIMEOUT"
                 PROVE  Silence < Timeout + MaxLag
      OBVIOUS
    <2>1. JudgeFresh
      BY DEF Next, Tick, FrameReceived, Wake, ReadHas, ReadLast, JudgeExpired, SetTimeout
    <2>2. PICK c \in wake..now : c < lastFrame + Timeout
      BY <2>1, FreshFrame DEF JudgeFresh
    <2>3. now \in Nat /\ wake \in Nat /\ lastFrame \in Nat BY Times DEF HealthInv
    <2> QED BY <2>2, <2>3 DEF HealthInv, Silence
  <1> QED BY <1>1, HealthInvariance, PTL DEF Spec, RecoveryHasFrame
=============================================================================

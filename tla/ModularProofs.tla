--------------------------- MODULE ModularProofs ---------------------------
(***************************************************************************)
(* Remainders by a modulus that is not a number: what the proofs about     *)
(* wrapping ticks and indices need of them.                                *)
(***************************************************************************)
EXTENDS Integers, TLAPS

\* A number of the range is its own remainder, also one turn lower.
LEMMA ModSmall ==
    ASSUME NEW M \in Nat \ {0}, NEW d \in 0..M - 1
    PROVE  d % M = d /\ (d - M) % M = d
  OBVIOUS

\* The remainder of a multiple and a rest is the rest.
LEMMA ModOf ==
    ASSUME NEW M \in Nat \ {0}, NEW b \in Int, NEW f \in 0..M - 1
    PROVE  (b * M + f) % M = f
  OBVIOUS

\* And every number is a multiple and a rest.
LEMMA Quotient ==
    ASSUME NEW M \in Nat \ {0}, NEW l \in Int, NEW f \in 0..M - 1, l % M = f
    PROVE  \E b \in Int : l = b * M + f
  <1> DEFINE q == l \div M
  <1> WITNESS q \in Int
  <1> QED OBVIOUS

\* Going on by less than a turn, from a number of known quotient.
LEMMA ModAddOf ==
    ASSUME NEW M \in Nat \ {0}, NEW l \in Int, NEW b \in Int, NEW d \in 0..M - 1,
           NEW f \in 0..M - 1, l = b * M + f
    PROVE  (l + d) % M = IF f + d < M THEN f + d ELSE f + d - M
  <1>1. CASE f + d < M
    <2>1. l + d = b * M + (f + d) OBVIOUS
    <2>2. (b * M + (f + d)) % M = f + d BY <1>1, ModOf
    <2> QED BY <1>1, <2>1, <2>2
  <1>2. CASE f + d >= M
    <2>1. l + d = (b + 1) * M + (f + d - M) OBVIOUS
    <2>2. f + d - M \in 0..M - 1 /\ b + 1 \in Int BY <1>2
    <2>3. ((b + 1) * M + (f + d - M)) % M = f + d - M BY <2>2, ModOf
    <2> QED BY <1>2, <2>1, <2>3
  <1> QED BY <1>1, <1>2

\* Going on by less than a turn: the remainder wraps at most once.
LEMMA ModAdd ==
    ASSUME NEW M \in Nat \ {0}, NEW l \in Int, NEW d \in 0..M - 1, NEW f \in 0..M - 1,
           l % M = f
    PROVE  (l + d) % M = IF f + d < M THEN f + d ELSE f + d - M
  <1>1. PICK b \in Int : l = b * M + f BY Quotient
  <1> QED BY <1>1, ModAddOf

\* A whole turn makes no difference.
LEMMA ModTurn ==
    ASSUME NEW M \in Nat \ {0}, NEW l \in Int, NEW f \in 0..M - 1, l % M = f
    PROVE  (l - M) % M = f
  <1>1. PICK b \in Int : l = b * M + f BY Quotient
  <1>2. l - M = (b - 1) * M + f BY <1>1
  <1>3. ((b - 1) * M + f) % M = f BY ModOf
  <1> QED BY <1>2, <1>3

\* Nor do k of them.
LEMMA ModTurns ==
    ASSUME NEW M \in Nat \ {0}, NEW l \in Int, NEW k \in Int
    PROVE  (l - k * M) % M = l % M
  <1>1. PICK f \in 0..M - 1 : l % M = f OBVIOUS
  <1>2. PICK b \in Int : l = b * M + f BY <1>1, Quotient
  <1>3. PICK c \in Int : c = b - k OBVIOUS
  <1>4. l - k * M = c * M + f BY <1>2, <1>3
  <1>5. (c * M + f) % M = f BY ModOf
  <1> QED BY <1>1, <1>4, <1>5

\* Two numbers less than a turn apart have different remainders.
LEMMA ModDiffer ==
    ASSUME NEW M \in Nat \ {0}, NEW l \in Int, NEW d \in 1..M - 1
    PROVE  (l + d) % M # l % M
  <1>1. PICK f \in 0..M - 1 : l % M = f OBVIOUS
  <1>2. PICK e \in 0..M - 1 : e = d OBVIOUS
  <1>3. (l + e) % M = IF f + e < M THEN f + e ELSE f + e - M BY <1>1, ModAdd
  <1> QED BY <1>1, <1>2, <1>3

\* The number after a number of the range, in the range.
LEMMA ModNext ==
    ASSUME NEW M \in Nat \ {0}, NEW n \in 0..M - 1
    PROVE  (n + 1) % M = IF n + 1 < M THEN n + 1 ELSE n + 1 - M
  <1>1. CASE n + 1 < M
    <2>1. PICK d \in 0..M - 1 : d = n + 1 BY <1>1
    <2> QED BY <1>1, <2>1, ModSmall
  <1>2. CASE n + 1 = M BY <1>2
  <1> QED BY <1>1, <1>2

\* The distance of two numbers of the range, without the remainder.
LEMMA ModDiff ==
    ASSUME NEW M \in Nat \ {0}, NEW h \in 0..M - 1, NEW n \in 0..M - 1
    PROVE  (h - n) % M = IF h >= n THEN h - n ELSE h - n + M
  <1>1. CASE h >= n
    <2>1. PICK d \in 0..M - 1 : d = h - n BY <1>1
    <2> QED BY <1>1, <2>1, ModSmall
  <1>2. CASE h < n
    <2>1. PICK d \in 0..M - 1 : d = h - n + M BY <1>2
    <2>2. d - M = h - n BY <2>1
    <2>3. (d - M) % M = d BY ModSmall
    <2> QED BY <1>2, <2>1, <2>2, <2>3
  <1> QED BY <1>1, <1>2

\* The sum of two numbers of the range.
LEMMA ModSum ==
    ASSUME NEW M \in Nat \ {0}, NEW n \in 0..M - 1, NEW d \in 0..M - 1
    PROVE  (n + d) % M = IF n + d < M THEN n + d ELSE n + d - M
  <1>1. n \in Int /\ n % M = n BY ModSmall
  <1> QED BY <1>1, ModAdd

\* A modulus that is a multiple of another does not disturb it.
LEMMA ModNested ==
    ASSUME NEW S \in Nat \ {0}, NEW M \in Nat \ {0}, M % S = 0, NEW x \in Int
    PROVE  (x % M) % S = x % S
  <1>1. PICK f \in 0..M - 1 : f = x % M OBVIOUS
  <1>2. PICK b \in Int : x = b * M + f BY <1>1, Quotient
  <1>3. PICK q \in Int : M = q * S
    <2>1. PICK z \in 0..S - 1 : z = 0 OBVIOUS
    <2>2. M \in Int /\ M % S = z BY <2>1
    <2>3. PICK q \in Int : M = q * S + z BY <2>2, Quotient
    <2> QED BY <2>1, <2>3
  <1>4. PICK k \in Int : k = b * q OBVIOUS
  <1>5. f = x - k * S
    <2>1. b * M = b * (q * S) BY <1>3
    <2>2. b * (q * S) = (b * q) * S OBVIOUS
    <2> QED BY <1>2, <1>4, <2>1, <2>2
  <1>6. (x - k * S) % S = x % S BY ModTurns
  <1> QED BY <1>1, <1>5, <1>6

\* A remainder goes on like its number, by any distance.
LEMMA ModShift ==
    ASSUME NEW M \in Nat \ {0}, NEW n \in Int, NEW f \in 0..M - 1, n % M = f, NEW d \in Int
    PROVE  (f + d) % M = (n + d) % M
  <1>1. PICK b \in Int : n = b * M + f BY Quotient
  <1>2. PICK l \in Int : l = n + d OBVIOUS
  <1>3. (l - b * M) % M = l % M BY ModTurns
  <1>4. l - b * M = f + d BY <1>1, <1>2
  <1> QED BY <1>2, <1>3, <1>4
=============================================================================

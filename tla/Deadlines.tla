----------------------------- MODULE Deadlines -----------------------------
(***************************************************************************)
(* The time base of EthernetTask in the gateway's main.c: two periodic     *)
(* services and the retry of a TCP restart are driven by absolute ticks in *)
(* wrapping 32-bit counters that are compared by the sign of a difference. *)
(* What the services do is in module Gateway; here they take time, and the *)
(* link and the restarts are kept as far as next_tcp_restart_tick depends  *)
(* on them.                                                                *)
(*                                                                         *)
(* Time has no end: the tick wraps, a link may be down for longer than the *)
(* sign of a difference reaches, and the state space is still finite.      *)
(***************************************************************************)
EXTENDS Integers

CONSTANTS
    TickRange,      \* 2^32 in the code
    DataPeriod, PhyPeriod, Retry,   \* in ticks
    \* bounds of the environment:
    MaxPass,        \* longest pass of the loop
    MaxOutage       \* how long reads of the chip may fail while a restart is wanted

\* What the constants must be.
DeadlinesAssumption ==
    /\ {TickRange, DataPeriod, PhyPeriod, Retry, MaxPass} \subseteq Nat \ {0}
    /\ DataPeriod <= PhyPeriod /\ MaxOutage \in Nat
    /\ 2 * (MaxOutage + Retry + DataPeriod + 2 * PhyPeriod + 7 * MaxPass + 1) < TickRange

VARIABLES
    pc,             \* what EthernetTask does
    now,            \* osKernelGetTickCount
    nextPhy, nextData, nextRestart,     \* next_phy_tick and so on
    dataDue,        \* data_service_due
    waiting,        \* ticks left of osThreadFlagsWait
    linkUp,         \* g_w5500_link_up, as last polled
    wasUp,          \* phy_link_was_established
    polled,         \* phy_link_state_initialized
    recovery,       \* g_w5500_tcp_recovery_pending
    restart,        \* tcp_lifecycle_restart_pending
    spiOk,          \* g_w5500_socket0_spi_status = HAL_OK
    \* history, in unbounded arithmetic
    spent,          \* ticks of the present pass
    phyLag, dataLag,    \* now minus the deadline
    wanted          \* ticks since a restart was wanted or last tried

timeVars == <<now, spent, phyLag, dataLag, wanted>>
linkVars == <<linkUp, wasUp, polled, recovery, restart, spiOk, nextRestart>>
vars == <<pc, timeVars, nextPhy, nextData, dataDue, waiting, linkVars>>

\* The unsigned sum, and a difference as int32_t.
Plus(a, b) == (a + b) % TickRange
Signed(a, b) == LET d == (a - b) % TickRange
                IN IF 2 * d >= TickRange THEN d - TickRange ELSE d

Reached(deadline) == Signed(now, deadline) >= 0

\* A restart is to be tried; and one is wanted before the link is known, too.
ToTry == linkUp /\ (recovery \/ restart)
Wanted == (linkUp \/ ~polled) /\ (recovery \/ restart)

\* A transfer to the chip may fail now.
MayFail == Wanted => wanted < MaxOutage

\* The start of the loop; the boot may have left a restart to be tried.
Init ==
    /\ pc = "top" /\ now \in 0 .. TickRange - 1
    /\ nextPhy = now /\ nextData = now /\ nextRestart = now
    /\ dataDue = FALSE /\ waiting = 0
    /\ linkUp = FALSE /\ wasUp = FALSE /\ polled = FALSE
    /\ recovery = FALSE /\ restart \in BOOLEAN /\ spiOk = ~restart
    /\ spent = 0 /\ phyLag = 0 /\ dataLag = 0 /\ wanted = 0

\* A tick passes while the task runs, or while it waits.
Tick ==
    /\ IF pc = "wait" THEN waiting > 0 /\ waiting' = waiting - 1 /\ UNCHANGED spent
                      ELSE spent < MaxPass /\ spent' = spent + 1 /\ UNCHANGED waiting
    /\ now' = Plus(now, 1)
    /\ phyLag' = phyLag + 1 /\ dataLag' = dataLag + 1
    /\ wanted' = IF Wanted THEN wanted + 1 ELSE 0
    /\ UNCHANGED <<pc, nextPhy, nextData, dataDue, linkVars>>

-----------------------------------------------------------------------------
(* A pass of the loop.                                                     *)

Top ==
    /\ pc = "top"
    /\ dataDue' = Reached(nextData)
    /\ pc' = IF Reached(nextPhy) THEN "phy" ELSE "data"
    /\ UNCHANGED <<timeVars, nextPhy, nextData, waiting, linkVars>>

\* Mutant: the restart tick is left as it was when the link comes back.
TickKept == nextRestart

\* next_tcp_restart_tick when the link comes up.
RestartTickAtLinkUp == now

\* The PHY is polled and reports the link; a lost one asks for a recovery, for the time
\* when it is back.
PollPhy(up) ==
    /\ pc = "phy" /\ pc' = "sock"
    /\ linkUp' = up /\ wasUp' = (wasUp \/ up) /\ polled' = TRUE
    /\ recovery' = (recovery \/ (linkUp /\ ~up))
    /\ restart' = (restart /\ ~(linkUp /\ ~up))
    /\ nextRestart' = IF polled /\ ~linkUp /\ up /\ (~wasUp \/ recovery)
                      THEN RestartTickAtLinkUp ELSE nextRestart
    /\ UNCHANGED <<timeVars, nextPhy, nextData, dataDue, waiting, spiOk>>

\* PHYCFGR cannot be read: the link is left as it was last seen.
PollFails ==
    /\ pc = "phy" /\ pc' = "sock" /\ (polled \/ MayFail)
    /\ UNCHANGED <<timeVars, nextPhy, nextData, dataDue, waiting, linkVars>>

ctlFrame == UNCHANGED <<nextPhy, nextData, dataDue, waiting, linkUp, wasUp, polled>>

\* Nothing is to be done, or it is too early.
SockIdle ==
    /\ pc = "sock" /\ pc' = "phy_end"
    /\ ~(spiOk /\ ToTry /\ Reached(nextRestart))
    /\ UNCHANGED <<timeVars, recovery, restart, spiOk, nextRestart>> /\ ctlFrame

\* The socket is found closed, in an unknown state or too long in a transient one.
SockFails ==
    /\ pc = "sock" /\ pc' = "phy_end"
    /\ spiOk /\ linkUp /\ ~recovery /\ ~restart /\ restart' = TRUE
    /\ \/ nextRestart' = Plus(now, Retry) /\ spiOk' = FALSE
       \/ nextRestart' = now /\ UNCHANGED spiOk
    /\ UNCHANGED <<timeVars, recovery>> /\ ctlFrame

\* w5500_restart_tcp_server begins, and takes its time.
SockRestart ==
    /\ pc = "sock" /\ pc' = "restarting"
    /\ spiOk /\ ToTry /\ Reached(nextRestart) /\ wanted' = 0
    /\ UNCHANGED <<now, spent, phyLag, dataLag, recovery, restart, spiOk, nextRestart>>
    /\ ctlFrame

RestartEnds ==
    /\ pc = "restarting" /\ pc' = "phy_end"
    /\ \/ recovery' = FALSE /\ restart' = FALSE /\ UNCHANGED <<spiOk, nextRestart>>
       \/ nextRestart' = Plus(now, Retry) /\ spiOk' = FALSE /\ UNCHANGED <<recovery, restart>>
    /\ UNCHANGED timeVars /\ ctlFrame

\* Mutant: one period is added, however late the service was.
OnePeriod(lag, period) == 1

\* The do-while loop: how many periods bring a deadline past the present tick.
Periods(lag, period) == IF lag < 0 THEN 1 ELSE lag \div period + 1

PhyEnd ==
    /\ pc = "phy_end" /\ pc' = "data"
    /\ LET k == Periods(Signed(now, nextPhy), PhyPeriod) IN
          /\ nextPhy' = Plus(nextPhy, k * PhyPeriod)
          /\ phyLag' = phyLag - k * PhyPeriod
    /\ UNCHANGED <<now, spent, dataLag, wanted, nextData, dataDue, waiting,
                   linkVars>>

\* The data service reads the socket status when the link is up, and keeps the result
\* of the read whatever it is.
Data ==
    /\ pc = "data" /\ pc' = "data_end"
    /\ IF dataDue /\ linkUp THEN spiOk' = TRUE \/ (MayFail /\ spiOk' = FALSE)
                           ELSE UNCHANGED spiOk
    /\ UNCHANGED <<timeVars, nextPhy, nextData, dataDue, waiting, linkUp, wasUp,
                   polled, recovery, restart, nextRestart>>

DataEnd ==
    /\ pc = "data_end" /\ pc' = "compute" /\ dataDue' = FALSE
    /\ LET k == IF dataDue THEN Periods(Signed(now, nextData), DataPeriod) ELSE 0 IN
          /\ nextData' = Plus(nextData, k * DataPeriod)
          /\ dataLag' = dataLag - k * DataPeriod
    /\ UNCHANGED <<now, spent, phyLag, wanted, nextPhy, waiting, linkVars>>

\* wait_ticks: until the earlier deadline; none when one has passed.
WaitTicks(a, b) == IF a > 0 /\ b > 0 THEN (IF a < b THEN a ELSE b) ELSE 0

Wait ==
    /\ pc = "compute" /\ pc' = "wait" /\ spent' = 0
    /\ waiting' = WaitTicks(Signed(nextData, now), Signed(nextPhy, now))
    /\ UNCHANGED <<now, phyLag, dataLag, wanted, nextPhy, nextData, dataDue,
                   linkVars>>

\* The wait is over, or an event ends it early.
Wake ==
    /\ pc = "wait" /\ pc' = "top" /\ waiting' = 0
    /\ UNCHANGED <<timeVars, nextPhy, nextData, dataDue, linkVars>>

Next ==
    \/ Tick \/ Top \/ (\E up \in BOOLEAN : PollPhy(up)) \/ PollFails \/ SockIdle \/ SockFails \/ SockRestart
    \/ RestartEnds \/ PhyEnd \/ Data \/ DataEnd \/ Wait \/ Wake

Spec == Init /\ [][Next]_vars

-----------------------------------------------------------------------------
\* Type invariant.
TypeOK ==
    /\ pc \in {"top", "phy", "sock", "restarting", "phy_end", "data", "data_end", "compute", "wait"}
    /\ {now, nextPhy, nextData, nextRestart} \subseteq 0 .. TickRange - 1
    /\ {dataDue, linkUp, wasUp, polled, recovery, restart, spiOk} \subseteq BOOLEAN
    /\ waiting \in 0 .. PhyPeriod /\ spent \in 0 .. MaxPass

\* When a pass begins, no deadline is further behind than one pass, by the wrapped
\* difference and in truth: the task sleeps past none, neither service can push the
\* other one out, and the catch-up loops keep the sign of a difference meaningful.
StartsInTime ==
    /\ Signed(now, nextPhy) = phyLag /\ Signed(now, nextData) = dataLag
    /\ pc = "top" => phyLag <= MaxPass + spent /\ dataLag <= MaxPass + spent

\* A restart of the TCP server that is wanted is tried within a retry period, a data
\* service, two polls and the passes they take after the last read of PHYCFGR or Sn_SR
\* that fails, however long the link was down.
RestartTriedInTime == wanted <= MaxOutage + Retry + DataPeriod + 2 * PhyPeriod + 7 * MaxPass

-----------------------------------------------------------------------------
(* The inductive invariant behind the properties.                          *)

PhyPoints == {"phy", "sock", "restarting", "phy_end"}

\* How far behind a deadline is, from point to point of a pass: a service that is due
\* begins within two passes, one that is not due falls behind by the present pass only,
\* and no wait outlasts a deadline.
LagInv ==
    /\ phyLag \in Int /\ dataLag \in Int
    /\ Signed(now, nextPhy) = phyLag /\ Signed(now, nextData) = dataLag
    /\ phyLag >= -PhyPeriod /\ dataLag >= -DataPeriod
    /\ pc \in PhyPoints => phyLag >= 0
    /\ dataDue => dataLag >= 0
    /\ pc \in PhyPoints \cup {"top"} => phyLag <= MaxPass + spent
    /\ pc \in {"data", "data_end", "compute"} => phyLag <= spent
    /\ pc \in PhyPoints \cup {"top", "data", "data_end"} => dataLag <= MaxPass + spent
    /\ pc \in PhyPoints \cup {"data", "data_end"} /\ ~dataDue => dataLag <= spent
    /\ pc = "compute" => dataLag <= spent
    /\ pc = "wait" => phyLag + waiting <= MaxPass /\ dataLag + waiting <= MaxPass

\* What is remembered of the link: a link that was up and is not leaves a recovery.
SeenInv ==
    /\ ~polled => ~linkUp /\ ~wasUp /\ ~recovery
    /\ wasUp /\ ~linkUp => recovery
    /\ linkUp => wasUp
    /\ pc = "restarting" => ToTry

\* How long a restart has been wanted, against its own tick and the next poll.
WantedInv ==
    /\ wanted \in Nat
    /\ ~Wanted /\ wanted # 0 =>
          \/ pc = "sock" /\ ~linkUp
          \/ pc = "phy_end"
          \/ phyLag < 0 /\ pc \notin PhyPoints
    /\ Wanted /\ pc # "restarting" => /\ Signed(now, nextRestart) <= wanted
                                      /\ wanted - Retry - MaxPass <= Signed(now, nextRestart)
    /\ Wanted /\ pc \notin {"restarting", "phy_end"} =>
          wanted - phyLag <= MaxOutage + Retry + DataPeriod + 2 * PhyPeriod + 5 * MaxPass
    /\ Wanted /\ pc = "phy_end" =>
          wanted <= MaxOutage + Retry + DataPeriod + PhyPeriod + 4 * MaxPass + spent

\* The same while the link is not known, against the next poll, and after a transfer that
\* failed, against the next data service: reads fail for no longer than the outage.
OutageInv ==
    /\ ~polled /\ Wanted =>
          IF pc \in {"sock", "phy_end"} THEN wanted <= MaxOutage + spent
                                      ELSE wanted - phyLag <= MaxOutage + PhyPeriod + MaxPass
    /\ ToTry /\ ~spiOk => wanted - dataLag <= MaxOutage + DataPeriod + PhyPeriod + 3 * MaxPass
    /\ pc = "data_end" /\ dataDue /\ ToTry /\ ~spiOk => wanted <= MaxOutage + spent
    /\ pc = "restarting" => wanted <= spent /\ wanted - dataLag <= DataPeriod

DeadlineInv == TypeOK /\ LagInv /\ SeenInv /\ WantedInv /\ OutageInv /\ RestartTriedInTime
=============================================================================

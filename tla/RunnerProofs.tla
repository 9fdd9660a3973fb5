----------------------------- MODULE RunnerProofs -----------------------------
(***************************************************************************)
(* Proofs about the scanner process and what runs in it.                   *)
(*                                                                         *)
(* ScannerRunner: what the run rows and completion events say is true,     *)
(* whatever fails, and whoever terminates whose session.                   *)
(*                                                                         *)
(* SetupFlow: nothing is tradeable against the gate, nothing is lost in    *)
(* silence, nothing executed is offered again by the same process.         *)
(*                                                                         *)
(* ProspectiveObserver: observations are recorded once, with their event,  *)
(* and for open experiments only.                                          *)
(*                                                                         *)
(* EarlyMaeV2: two evaluators decide an entry, and its paired outcome,     *)
(* from candles that come late and in any order.                           *)
(*                                                                         *)
(* EarlyMaeV3: the out-of-sample collector, whose store of candles has     *)
(* holes that are never filled.                                            *)
(***************************************************************************)
EXTENDS ScannerRunner, SetupFlow, ProspectiveObserver, EarlyMaeV2, EarlyMaeV3,
        FiniteSetTheorems, WellFoundedInduction, TLAPS

-----------------------------------------------------------------------------
(* ScannerRunner: the inductive invariant, in parts.                       *)

(* The rows are numbered without a gap; an unused one has no event.        *)
RunsInOrder ==
    /\ \A i, j \in RunIds : i < j /\ runRows[j].status # "none" => runRows[i].status # "none"
    /\ \A i \in RunIds : runRows[i].status = "none" => runRows[i].events = 0

(* What runner r, where it is, may rely on.  Its row is there; no event is *)
(* written before the end of the cycle and at most one until the process   *)
(* comes to its abort path's report; what was missed has an outcome; and   *)
(* an incomplete cycle was explained before the row is finished.           *)
RunnerOK(r) ==
    /\ runnerAt[r] \in {"down", "universe", "boot", "idle"} => runOf[r] = NoRun
    /\ runOf[r] # NoRun =>
         LET row == runRows[runOf[r]]
         IN /\ row.status # "none" /\ row.events <= 1
            /\ runnerAt[r] \in {"scan", "close"} => row.events = 0
            /\ runnerAt[r] = "tail" /\ ~IsComplete(cycleReport[r])
                  => row.events > 0 \/ cycleReport[r].lost
    /\ runnerAt[r] \in {"scan", "close"} => ~cycleReport[r].persisted
    /\ cycleReport[r].missed \subseteq cycleReport[r].outcomes

RunnersOK == \A r \in Runners : RunnerOK(r)

ScInv == ScannerTypeOK /\ RunsInOrder /\ OwnRun /\ RunnersOK

LEMMA ScNumbers ==
    MaxRuns \in Nat /\ NoRun \notin RunIds /\ NoOne \notin Runners /\ RunIds \subseteq Nat \ {0}
BY ScannerConstants DEF RunIds

LEMMA LeastRun ==
    ASSUME NEW T, T \subseteq Nat, T # {}
    PROVE  \E m \in T : \A k \in T : m <= k
<1> DEFINE R == OpToRel(<, Nat)
<1>1. R = {ss \in Nat \X Nat : ss[1] < ss[2]}
  BY DEF OpToRel
<1>2. IsWellFoundedOn(R, Nat)
  BY NatLessThanWellFounded
<1> HIDE DEF R
<1>3. PICK m \in T : \A y \in T : ~(<<y, m>> \in R)
  BY <1>2, WFMin
<1>4. \A y \in T : ~(y < m)
  BY <1>1, <1>3
<1>5. QED BY <1>3, <1>4

(* Created rows are the first ones, so the next id is one nobody has.      *)
LEMMA CreatedFacts ==
    ASSUME ScannerTypeOK, RunsInOrder
    PROVE  /\ Cardinality(CreatedRuns) \in Nat
           /\ CreatedRuns = 1..Cardinality(CreatedRuns)
<1> DEFINE free == {i \in 1..(MaxRuns + 1) : i \notin CreatedRuns}
<1>1. MaxRuns + 1 \in free /\ free \subseteq Nat
  BY ScNumbers DEF CreatedRuns, RunIds
<1>2. PICK m \in free : \A k \in free : m <= k
  BY <1>1, LeastRun
<1>3. m \in 1..(MaxRuns + 1) /\ m \notin CreatedRuns
  BY <1>2
<1>4. ASSUME NEW i \in 1..(m - 1) PROVE i \in CreatedRuns
  BY <1>2, <1>3, <1>4, ScNumbers
<1>5. ASSUME NEW i \in CreatedRuns PROVE i \in 1..(m - 1)
  <2>1. i \in RunIds /\ runRows[i].status # "none"
    BY DEF CreatedRuns
  <2>2. i # m
    BY <1>3
  <2>3. i > m => runRows[m].status # "none" /\ m \in RunIds
    BY <1>3, <2>1, ScNumbers DEF RunsInOrder, RunIds
  <2>4. ~(i > m)
    BY <1>3, <2>3 DEF CreatedRuns
  <2>5. QED BY <1>3, <2>1, <2>2, <2>4, ScNumbers DEF RunIds
<1>6. CreatedRuns = 1..(m - 1)
  BY <1>4, <1>5
<1>7. Cardinality(1..(m - 1)) = m - 1
  <2>1. m - 1 \in Nat
    BY <1>3, ScNumbers
  <2>2. QED BY <2>1, FS_Interval, ScNumbers
<1>8. QED BY <1>3, <1>6, <1>7, ScNumbers

LEMMA ScInitHolds == ScannerInit => ScInv
<1> SUFFICES ASSUME ScannerInit PROVE ScInv
  OBVIOUS
<1>1. EmptyReport \in CycleReport /\ NoRunRow \in RunRow
  BY DEF EmptyReport, CycleReport, NoRunRow, RunRow
<1>2. ScannerTypeOK
  BY <1>1 DEF ScannerInit, ScannerTypeOK
<1>3. RunsInOrder /\ OwnRun /\ RunnersOK
  BY DEF ScannerInit, RunsInOrder, OwnRun, RunnersOK, RunnerOK, NoRunRow, EmptyReport
<1>4. QED BY <1>2, <1>3 DEF ScInv

-----------------------------------------------------------------------------
(* Steps of one runner.                                                    *)

(* The other runners are where they were.                                  *)
OthersStay(r) ==
    \A q \in Runners \ {r} :
        runnerAt'[q] = runnerAt[q] /\ runOf'[q] = runOf[q] /\ cycleReport'[q] = cycleReport[q]

(* Used rows stay used, and only the row of r gets an event.               *)
OnlyOwnEvents(r) ==
    \A i \in RunIds :
        runRows[i].status # "none" =>
            /\ runRows'[i].status # "none"
            /\ i # runOf[r] => runRows'[i].events = runRows[i].events

(* At most the status of used rows changes.                                *)
EventsKept ==
    \A i \in RunIds : /\ runRows'[i].events = runRows[i].events
                      /\ runRows'[i].status = "none" <=> runRows[i].status = "none"

LEMMA KeptOrder ==
    ASSUME RunsInOrder, EventsKept
    PROVE  RunsInOrder' /\ \A r \in Runners : OnlyOwnEvents(r)
BY DEF RunsInOrder, EventsKept, OnlyOwnEvents

LEMMA RunnerJoin ==
    ASSUME ScInv, NEW r \in Runners, ScannerTypeOK', RunsInOrder',
           OthersStay(r), OnlyOwnEvents(r), RunnerOK(r)',
           \/ runOf'[r] \in {NoRun, runOf[r]}
           \/ runRows[runOf'[r]].status = "none"
    PROVE  ScInv'
<1>1. ASSUME NEW q \in Runners PROVE RunnerOK(q)'
  <2>1. CASE q = r
    BY <2>1
  <2>2. CASE q # r
    <3>1. RunnerOK(q) /\ q \in Runners \ {r}
      BY <2>2 DEF ScInv, RunnersOK
    <3>2. runnerAt'[q] = runnerAt[q] /\ runOf'[q] = runOf[q] /\ cycleReport'[q] = cycleReport[q]
      BY <3>1 DEF OthersStay
    <3>3. CASE runOf[q] = NoRun
      BY <3>1, <3>2, <3>3 DEF RunnerOK
    <3>4. CASE runOf[q] # NoRun
      <4>1. runOf[q] \in RunIds /\ runRows[runOf[q]].status # "none"
        BY <3>1, <3>4 DEF RunnerOK, ScInv, ScannerTypeOK
      <4>2. runOf[q] # runOf[r]
        BY <2>2, <3>4 DEF ScInv, OwnRun
      <4>3. /\ runRows'[runOf[q]].status # "none"
            /\ runRows'[runOf[q]].events = runRows[runOf[q]].events
        BY <4>1, <4>2 DEF OnlyOwnEvents
      <4>4. QED BY <3>1, <3>2, <4>3 DEF RunnerOK, IsComplete
    <3>5. QED BY <3>3, <3>4
  <2>3. QED BY <2>1, <2>2
<1>2. OwnRun'
  <2> SUFFICES ASSUME NEW p \in Runners, NEW q \in Runners, runOf'[p] # NoRun, runOf'[p] = runOf'[q]
               PROVE  p = q
    BY DEF OwnRun
  <2>1. ASSUME NEW o \in Runners, o # r, runOf'[o] # NoRun, runOf'[o] = runOf'[r] PROVE FALSE
    <3>1. runOf'[o] = runOf[o]
      BY <2>1 DEF OthersStay
    <3>2. runRows[runOf[o]].status # "none"
      BY <2>1, <3>1 DEF ScInv, RunnersOK, RunnerOK
    <3>3. runOf'[r] # runOf[r]
      BY <2>1, <3>1 DEF ScInv, OwnRun
    <3>4. QED BY <2>1, <3>1, <3>2, <3>3
  <2>2. CASE p = r \/ q = r
    BY <2>1, <2>2
  <2>3. CASE p # r /\ q # r
    <3>1. runOf'[p] = runOf[p] /\ runOf'[q] = runOf[q]
      BY <2>3 DEF OthersStay
    <3>2. QED BY <3>1 DEF ScInv, OwnRun
  <2>4. QED BY <2>2, <2>3
<1>3. QED BY <1>1, <1>2 DEF ScInv, RunnersOK

(* A runner that has no row, or gives its own up.                          *)
LEMMA RunnerAtRest ==
    ASSUME NEW r \in Runners, runOf'[r] = NoRun,
           runnerAt'[r] \notin {"scan", "close"},
           cycleReport'[r] = EmptyReport \/ (RunnerOK(r) /\ cycleReport'[r] = cycleReport[r])
    PROVE  RunnerOK(r)'
BY DEF RunnerOK, EmptyReport

LEMMA LockFacts ==
    ASSUME ScannerTypeOK, NEW r \in Runners
    PROVE  LockAfter(r) \in Runners \union {NoOne}
BY DEF LockAfter, ScannerTypeOK

(* Start-up, and the end of a process or of its session.                   *)
LEMMA StartKeeps ==
    ASSUME ScInv, NEW r \in Runners,
           \/ LaunchRunner(r) \/ UniverseReady(r) \/ UniverseDenied(r)
           \/ TakeLock(r) \/ StealLock(r) \/ LockDenied(r)
           \/ SessionLost(r) \/ StopRunner(r)
    PROVE  ScInv' /\ EventsKept
<1>0. ScannerTypeOK /\ RunsInOrder /\ RunnerOK(r) /\ RunnersOK
  BY DEF ScInv, RunnersOK
<1>1. EventsKept /\ \A i \in RunIds : runRows'[i] \in RunRow
  <2>1. CASE UNCHANGED runRows
    BY <1>0, <2>1 DEF EventsKept, ScannerTypeOK
  <2>2. CASE \E S \in SUBSET RunningRows : AbortStale(S)
    <3>1. PICK S \in SUBSET RunningRows : AbortStale(S)
      BY <2>2
    <3>2. ASSUME NEW i \in RunIds
          PROVE  /\ runRows'[i] \in RunRow /\ runRows'[i].events = runRows[i].events
                 /\ runRows'[i].status = "none" <=> runRows[i].status = "none"
      <4>1. runRows[i] \in RunRow
        BY <1>0 DEF ScannerTypeOK
      <4>2. runRows'[i] = IF i \in S THEN [runRows[i] EXCEPT !.status = "ABORTED"] ELSE runRows[i]
        BY <3>1 DEF AbortStale
      <4>3. i \in S => runRows[i].status = "RUNNING"
        BY <3>1 DEF RunningRows
      <4>4. QED BY <4>1, <4>2, <4>3 DEF RunRow, FinalStatus
    <3>3. QED BY <3>2 DEF EventsKept
  <2>3. QED BY <2>1, <2>2 DEF LaunchRunner, UniverseReady, UniverseDenied, TakeLock, StealLock,
           LockDenied, SessionLost, StopRunner
<1>2. runRows' \in [RunIds -> RunRow]
  <2>1. CASE UNCHANGED runRows
    BY <1>0, <2>1 DEF ScannerTypeOK
  <2>2. CASE \E S \in SUBSET RunningRows : AbortStale(S)
    BY <1>1, <2>2 DEF AbortStale
  <2>3. QED BY <2>1, <2>2 DEF LaunchRunner, UniverseReady, UniverseDenied, TakeLock, StealLock,
           LockDenied, SessionLost, StopRunner
<1>3. dbSession' \in [Runners -> {"none", "open", "failed", "dead"}]
      /\ holder' \in Runners \union {NoOne}
  BY <1>0, LockFacts DEF ScannerTypeOK, LaunchRunner, UniverseReady, UniverseDenied, TakeLock,
     StealLock, LockDenied, SessionLost, StopRunner
<1>4. /\ runnerAt' \in [Runners -> {"down", "universe", "boot", "idle", "scan", "close",
                           "tail", "after", "abort", "aborted"}]
      /\ runOf' \in [Runners -> RunIds \union {NoRun}]
      /\ toScan' \in [Runners -> SUBSET ScanSymbols]
  BY <1>0 DEF ScannerTypeOK, RunnerGoes, LaunchRunner, UniverseReady, UniverseDenied, TakeLock,
     StealLock, LockDenied, SessionLost, StopRunner
<1>5. cycleReport' \in [Runners -> CycleReport]
  <2>1. EmptyReport \in CycleReport
    BY DEF EmptyReport, CycleReport
  <2>2. QED BY <1>0, <2>1 DEF ScannerTypeOK, LaunchRunner, UniverseReady, UniverseDenied, TakeLock,
       StealLock, LockDenied, SessionLost, StopRunner
<1>6. ScannerTypeOK'
  BY <1>2, <1>3, <1>4, <1>5 DEF ScannerTypeOK
<1>7. OthersStay(r)
  BY <1>0 DEF OthersStay, ScannerTypeOK, RunnerGoes, LaunchRunner, UniverseReady, UniverseDenied,
     TakeLock, StealLock, LockDenied, SessionLost, StopRunner
<1>8. RunnerOK(r)' /\ runOf'[r] \in {NoRun, runOf[r]}
  <2>1. CASE SessionLost(r)
    BY <1>0, <2>1 DEF RunnerOK, SessionLost
  <2>2. CASE StopRunner(r)
    <3>1. runOf'[r] = NoRun /\ runnerAt'[r] = "down" /\ cycleReport'[r] = EmptyReport
      BY <1>0, <2>2 DEF StopRunner, RunnerGoes, ScannerTypeOK
    <3>2. QED BY <3>1, RunnerAtRest
  <2>3. CASE \/ LaunchRunner(r) \/ UniverseReady(r) \/ UniverseDenied(r)
             \/ TakeLock(r) \/ StealLock(r) \/ LockDenied(r)
    <3>1. /\ runnerAt[r] \in {"down", "universe", "boot"} /\ UNCHANGED <<runOf, cycleReport>>
          /\ runnerAt'[r] \in {"down", "universe", "boot", "idle"}
      BY <1>0, <2>3 DEF RunnerGoes, ScannerTypeOK, LaunchRunner, UniverseReady, UniverseDenied,
         TakeLock, StealLock, LockDenied
    <3>2. runOf[r] = NoRun
      BY <1>0, <3>1 DEF RunnerOK
    <3>3. QED BY <1>0, <3>1, <3>2, RunnerAtRest
  <2>4. QED BY <2>1, <2>2, <2>3
<1>9. RunsInOrder' /\ OnlyOwnEvents(r)
  BY <1>0, <1>1, KeptOrder
<1>10. QED BY <1>1, <1>6, <1>7, <1>8, <1>9, RunnerJoin

(* A new cycle: the rows it adds are the next free ones, RUNNING and       *)
(* without an event.                                                       *)
LEMMA BeginKeeps ==
    ASSUME ScInv, NEW r \in Runners, NEW n \in 0..2, NEW has \in BOOLEAN,
           NEW c \in {"no", "lost", "ok"}, BeginCycle(r, n, has, c)
    PROVE  ScInv' /\ \A i \in RunIds : /\ runRows[i].status # "none" => runRows'[i] = runRows[i]
                                       /\ runRows'[i].status \in {"RUNNING", runRows[i].status}
<1>0. ScannerTypeOK /\ RunsInOrder /\ RunnerOK(r) /\ RunnersOK
  BY DEF ScInv, RunnersOK
<1> DEFINE k == Cardinality(CreatedRuns)
           m == n + (IF has THEN 1 ELSE 0)
<1>1. k \in Nat /\ CreatedRuns = 1..k
  BY <1>0, CreatedFacts
<1>2. m \in Nat /\ (has => m >= 1) /\ k + 1 + m <= MaxRuns + 1
  BY <1>1 DEF BeginCycle
<1> HIDE DEF k, m
<1>3. runRows' = [i \in RunIds |-> IF i \in (k + 1)..(k + m)
                                   THEN [NoRunRow EXCEPT !.status = "RUNNING"] ELSE runRows[i]]
  <2>1. k + 1 + m - 1 = k + m
    BY <1>1, <1>2
  <2>2. QED BY <2>1 DEF BeginCycle, k, m
<1>4. runOf' = [runOf EXCEPT ![r] = IF has THEN k + m ELSE NoRun]
  <2>1. k + 1 + m - 1 = k + m
    BY <1>1, <1>2
  <2>2. QED BY <2>1 DEF BeginCycle, k, m
<1>5. [NoRunRow EXCEPT !.status = "RUNNING"] = [status |-> "RUNNING", events |-> 0]
  BY DEF NoRunRow
<1>6. \A i \in RunIds : runRows[i].status # "none" <=> i <= k
  BY <1>1, ScNumbers DEF CreatedRuns, RunIds
<1>7. \A i \in RunIds :
        /\ i > k /\ i <= k + m => runRows'[i] = [status |-> "RUNNING", events |-> 0]
        /\ ~(i > k /\ i <= k + m) => runRows'[i] = runRows[i]
  BY <1>1, <1>2, <1>3, <1>5, ScNumbers DEF RunIds
<1>8. RunsInOrder'
  <2>1. \A i \in RunIds : runRows'[i].status # "none" <=> i <= k + m
    BY <1>1, <1>2, <1>6, <1>7, ScNumbers DEF RunIds
  <2>2. \A i \in RunIds : runRows'[i].status = "none" => runRows'[i].events = 0
    BY <1>0, <1>7 DEF RunsInOrder
  <2>3. QED BY <1>1, <1>2, <2>1, <2>2, ScNumbers DEF RunsInOrder, RunIds
<1>9. runRows' \in [RunIds -> RunRow]
  <2>1. [status |-> "RUNNING", events |-> 0] \in RunRow
    BY DEF RunRow
  <2>2. QED BY <1>0, <1>3, <1>5, <2>1 DEF ScannerTypeOK
<1>10. runOf' \in [Runners -> RunIds \union {NoRun}]
  <2>1. has => k + m \in RunIds
    BY <1>1, <1>2, ScNumbers DEF RunIds
  <2>2. QED BY <1>0, <1>4, <2>1 DEF ScannerTypeOK
<1>11. ScannerTypeOK'
  <2>1. /\ runnerAt' \in [Runners -> {"down", "universe", "boot", "idle", "scan", "close",
                           "tail", "after", "abort", "aborted"}]
        /\ toScan' \in [Runners -> SUBSET ScanSymbols]
    BY <1>0 DEF ScannerTypeOK, BeginCycle, RunnerGoes
  <2>2. cycleReport' \in [Runners -> CycleReport]
    <3>1. EmptyReport \in CycleReport
      BY DEF EmptyReport, CycleReport
    <3>2. QED BY <1>0, <3>1 DEF ScannerTypeOK, BeginCycle
  <2>3. holder' \in Runners \union {NoOne}
    BY <1>0, LockFacts DEF ScannerTypeOK, BeginCycle
  <2>4. dbSession' \in [Runners -> {"none", "open", "failed", "dead"}]
    BY <1>0 DEF ScannerTypeOK, BeginCycle
  <2>5. QED BY <1>9, <1>10, <2>1, <2>2, <2>3, <2>4 DEF ScannerTypeOK
<1>12. runnerAt[r] = "idle" /\ runnerAt'[r] = "scan" /\ cycleReport'[r] = EmptyReport
  BY <1>0 DEF ScannerTypeOK, BeginCycle, RunnerGoes
<1>13. OthersStay(r)
  BY <1>0 DEF OthersStay, ScannerTypeOK, BeginCycle, RunnerGoes
<1>14. \A i \in RunIds : /\ runRows[i].status # "none" => runRows'[i] = runRows[i]
                         /\ runRows'[i].status \in {"RUNNING", runRows[i].status}
  BY <1>1, <1>6, <1>7, ScNumbers DEF RunIds
<1>15. OnlyOwnEvents(r)
  BY <1>14 DEF OnlyOwnEvents
<1>16. CASE has
  <2>1. runOf'[r] = k + m /\ k + m \in RunIds /\ k + m > k
    BY <1>0, <1>1, <1>2, <1>4, <1>16, ScNumbers DEF ScannerTypeOK, RunIds
  <2>2. runRows'[runOf'[r]] = [status |-> "RUNNING", events |-> 0]
        /\ runRows[runOf'[r]].status = "none"
    BY <1>1, <1>2, <1>6, <1>7, <2>1
  <2>3. RunnerOK(r)'
    BY <1>12, <2>2 DEF RunnerOK, EmptyReport
  <2>4. QED BY <1>8, <1>11, <1>13, <1>14, <1>15, <2>2, <2>3, RunnerJoin
<1>17. CASE ~has
  <2>1. runOf'[r] = NoRun
    BY <1>0, <1>4, <1>17 DEF ScannerTypeOK
  <2>2. RunnerOK(r)'
    BY <1>12, <2>1 DEF RunnerOK, EmptyReport
  <2>3. QED BY <1>8, <1>11, <1>13, <1>14, <1>15, <2>1, <2>2, RunnerJoin
<1>18. QED BY <1>16, <1>17

(* The steps of a cycle that leave the tables alone.                       *)
LEMMA ScanKeeps ==
    ASSUME ScInv, NEW r \in Runners,
           \/ \E s \in ScanSymbols : \/ ScanSymbol(r, s) \/ CaptureLost(r, s)
                                     \/ \E a, b \in BOOLEAN : SymbolFailed(r, s, a, b)
           \/ \E ok \in BOOLEAN : SaveRunStats(r, ok)
           \/ FinishFails(r) \/ EndScanCycle(r) \/ ReloadFails(r)
    PROVE  ScInv' /\ UNCHANGED runRows
<1>0. ScannerTypeOK /\ RunsInOrder /\ RunnerOK(r) /\ RunnersOK
  BY DEF ScInv, RunnersOK
<1>1. UNCHANGED <<runRows, holder>>
  BY DEF ScanSymbol, CaptureLost, SymbolFailed, SaveRunStats, FinishFails, EndScanCycle, ReloadFails
<1>2. /\ runnerAt' \in [Runners -> {"down", "universe", "boot", "idle", "scan", "close",
                           "tail", "after", "abort", "aborted"}]
      /\ runOf' \in [Runners -> RunIds \union {NoRun}]
      /\ toScan' \in [Runners -> SUBSET ScanSymbols]
      /\ dbSession' \in [Runners -> {"none", "open", "failed", "dead"}]
  <2>1. runnerAt' \in [Runners -> {"down", "universe", "boot", "idle", "scan", "close",
                           "tail", "after", "abort", "aborted"}]
    BY <1>0 DEF ScannerTypeOK, RunnerGoes, CycleOver,
       ScanSymbol, CaptureLost, SymbolFailed, SaveRunStats, FinishFails, EndScanCycle, ReloadFails
  <2>2. runOf' \in [Runners -> RunIds \union {NoRun}]
    BY <1>0 DEF ScannerTypeOK, CycleOver,
       ScanSymbol, CaptureLost, SymbolFailed, SaveRunStats, FinishFails, EndScanCycle, ReloadFails
  <2>3. toScan' \in [Runners -> SUBSET ScanSymbols]
    <3>1. CASE UNCHANGED toScan
      BY <1>0, <3>1 DEF ScannerTypeOK
    <3>2. CASE \E s \in ScanSymbols : SymbolAnswered(r, s)
      <4>1. PICK s \in ScanSymbols : toScan' = [toScan EXCEPT ![r] = @ \ {s}]
        BY <3>2 DEF SymbolAnswered
      <4>2. toScan[r] \ {s} \in SUBSET ScanSymbols
        BY <1>0 DEF ScannerTypeOK
      <4>3. QED BY <1>0, <4>1, <4>2 DEF ScannerTypeOK
    <3>3. CASE EndScanCycle(r)
      BY <1>0, <3>3 DEF ScannerTypeOK, EndScanCycle, CycleOver
    <3>4. QED BY <3>1, <3>2, <3>3 DEF ScanSymbol, CaptureLost, SymbolFailed, SaveRunStats,
             FinishFails, ReloadFails
  <2>4. dbSession' \in [Runners -> {"none", "open", "failed", "dead"}]
    BY <1>0 DEF ScannerTypeOK, FailedSession, RolledBack,
       ScanSymbol, CaptureLost, SymbolFailed, SaveRunStats, FinishFails, EndScanCycle, ReloadFails
  <2>5. QED BY <2>1, <2>2, <2>3, <2>4
<1> DEFINE rep == cycleReport[r]
           new == cycleReport'[r]
<1>3. rep \in CycleReport
  BY <1>0 DEF ScannerTypeOK
<1>4. /\ cycleReport' = [cycleReport EXCEPT ![r] = new]
      /\ \/ new = rep \/ new = EmptyReport
         \/ new = [EmptyReport EXCEPT !.persisted = rep.persisted]
         \/ \E s \in ScanSymbols :
              \/ new = [rep EXCEPT !.processed = @ \union {s}]
              \/ new = [rep EXCEPT !.processed = @ \union {s}, !.outcomes = @ \union {s},
                                   !.missed = @ \union {s}]
              \/ \E p \in {rep.processed, rep.processed \union {s}} :
                   new = [rep EXCEPT !.outcomes = @ \union {s}, !.missed = @ \union {s},
                                     !.processed = p]
  <2>1. CASE \E s \in ScanSymbols : ScanSymbol(r, s) \/ CaptureLost(r, s)
    BY <1>0, <2>1 DEF ScannerTypeOK, ScanSymbol, CaptureLost
  <2>2. CASE \E s \in ScanSymbols, a, b \in BOOLEAN : SymbolFailed(r, s, a, b)
    <3>1. PICK s \in ScanSymbols, a \in BOOLEAN, b \in BOOLEAN : SymbolFailed(r, s, a, b)
      BY <2>2
    <3>2. CASE ~b
      BY <1>0, <3>1, <3>2 DEF ScannerTypeOK, SymbolFailed, ReportUsed
    <3>3. CASE b
      <4>1. cycleReport' = [cycleReport EXCEPT ![r].outcomes = @ \union {s}, ![r].missed = @ \union {s},
                                           ![r].processed = IF a THEN @ \union {s} ELSE @]
        BY <3>1, <3>3 DEF SymbolFailed
      <4>2. PICK p \in {rep.processed, rep.processed \union {s}} :
               p = IF a THEN rep.processed \union {s} ELSE rep.processed
        OBVIOUS
      <4>3. cycleReport' = [cycleReport EXCEPT ![r] =
               [rep EXCEPT !.outcomes = @ \union {s}, !.missed = @ \union {s}, !.processed = p]]
        BY <1>0, <1>3, <4>1, <4>2 DEF ScannerTypeOK, CycleReport
      <4>4. new = [rep EXCEPT !.outcomes = @ \union {s}, !.missed = @ \union {s}, !.processed = p]
        BY <1>0, <4>3 DEF ScannerTypeOK
      <4>5. QED BY <4>3, <4>4
    <3>4. QED BY <3>2, <3>3
  <2>3. CASE (\E ok \in BOOLEAN : SaveRunStats(r, ok)) \/ FinishFails(r) \/ ReloadFails(r)
    BY <1>0, <2>3 DEF ScannerTypeOK, SaveRunStats, FinishFails, ReloadFails, ReportUsed
  <2>4. CASE EndScanCycle(r)
    BY <1>0, <2>4 DEF ScannerTypeOK, EndScanCycle, CycleOver
  <2>5. QED BY <2>1, <2>2, <2>3, <2>4
<1>5. /\ new \in CycleReport /\ new.missed \subseteq new.outcomes
      /\ new.persisted = rep.persisted \/ new.persisted = FALSE
  <2>0. /\ rep.processed \subseteq ScanSymbols /\ rep.outcomes \subseteq ScanSymbols
        /\ rep.missed \subseteq ScanSymbols /\ rep.persisted \in BOOLEAN /\ rep.lost \in BOOLEAN
        /\ rep = [processed |-> rep.processed, outcomes |-> rep.outcomes,
                   persisted |-> rep.persisted, missed |-> rep.missed, lost |-> rep.lost]
    BY <1>3 DEF CycleReport
  <2>1. rep.missed \subseteq rep.outcomes
    BY <1>0 DEF RunnerOK
  <2>3. CASE new = rep
    BY <1>3, <2>1, <2>3
  <2>4. CASE new = EmptyReport
    BY <2>4 DEF CycleReport, EmptyReport
  <2>5. CASE new = [EmptyReport EXCEPT !.persisted = rep.persisted]
    <3>1. new = [processed |-> {}, outcomes |-> {}, persisted |-> rep.persisted,
                 missed |-> {}, lost |-> FALSE]
      BY <2>5 DEF EmptyReport
    <3>2. QED BY <2>0, <3>1 DEF CycleReport
  <2>6. ASSUME NEW s \in ScanSymbols, new = [rep EXCEPT !.processed = @ \union {s}]
        PROVE  new \in CycleReport /\ new.missed \subseteq new.outcomes /\ new.persisted = rep.persisted
    <3> DEFINE P == rep.processed \union {s}
    <3>1. new = [processed |-> P, outcomes |-> rep.outcomes,
                 persisted |-> rep.persisted, missed |-> rep.missed, lost |-> rep.lost]
      BY <2>0, <2>6
    <3>2. P \subseteq ScanSymbols
      BY <2>0
    <3>3. QED BY <2>0, <2>1, <3>1, <3>2 DEF CycleReport
  <2>7. ASSUME NEW s \in ScanSymbols, NEW p \in {rep.processed, rep.processed \union {s}},
               new = [rep EXCEPT !.outcomes = @ \union {s}, !.missed = @ \union {s}, !.processed = p]
        PROVE  new \in CycleReport /\ new.missed \subseteq new.outcomes /\ new.persisted = rep.persisted
    <3> DEFINE O == rep.outcomes \union {s}
               M == rep.missed \union {s}
    <3>1. new = [processed |-> p, outcomes |-> O, persisted |-> rep.persisted,
                 missed |-> M, lost |-> rep.lost]
      BY <2>0, <2>7
    <3>2. p \subseteq ScanSymbols /\ O \subseteq ScanSymbols /\ M \subseteq ScanSymbols /\ M \subseteq O
      BY <2>0, <2>1
    <3>3. QED BY <2>0, <3>1, <3>2 DEF CycleReport
  <2>8. ASSUME NEW s \in ScanSymbols,
               new = [rep EXCEPT !.processed = @ \union {s}, !.outcomes = @ \union {s},
                                 !.missed = @ \union {s}]
        PROVE  new \in CycleReport /\ new.missed \subseteq new.outcomes /\ new.persisted = rep.persisted
    <3> DEFINE P == rep.processed \union {s}
               O == rep.outcomes \union {s}
               M == rep.missed \union {s}
    <3>1. new = [processed |-> P, outcomes |-> O, persisted |-> rep.persisted,
                 missed |-> M, lost |-> rep.lost]
      BY <2>0, <2>8
    <3>2. P \subseteq ScanSymbols /\ O \subseteq ScanSymbols /\ M \subseteq ScanSymbols /\ M \subseteq O
      BY <2>0, <2>1
    <3>3. QED BY <2>0, <3>1, <3>2 DEF CycleReport
  <2>9. QED BY <1>4, <2>3, <2>4, <2>5, <2>6, <2>7, <2>8
<1> HIDE DEF rep, new
<1>6. cycleReport' \in [Runners -> CycleReport]
  BY <1>0, <1>4, <1>5 DEF ScannerTypeOK
<1>7. ScannerTypeOK'
  BY <1>0, <1>1, <1>2, <1>6 DEF ScannerTypeOK
<1>8. OthersStay(r)
  BY <1>0, <1>4 DEF OthersStay, ScannerTypeOK, RunnerGoes, CycleOver,
     ScanSymbol, CaptureLost, SymbolFailed, SaveRunStats, FinishFails, EndScanCycle, ReloadFails
<1>9. EventsKept
  BY <1>1 DEF EventsKept
<1>10. RunnerOK(r)' /\ runOf'[r] \in {NoRun, runOf[r]}
  <2>1. CASE EndScanCycle(r)
    <3>1. runOf'[r] = NoRun /\ runnerAt'[r] = "idle" /\ cycleReport'[r] = EmptyReport
      BY <1>0, <2>1 DEF ScannerTypeOK, EndScanCycle, CycleOver, RunnerGoes
    <3>2. QED BY <3>1, RunnerAtRest
  <2>2. CASE ~EndScanCycle(r)
    <3>1. runOf'[r] = runOf[r]
      BY <2>2 DEF ScanSymbol, CaptureLost, SymbolFailed, SaveRunStats, FinishFails, ReloadFails
    <3>2. \/ runnerAt[r] = "scan" /\ runnerAt'[r] \in {"scan", "abort", "close"}
          \/ runnerAt'[r] = "abort" /\ runnerAt[r] \in {"tail", "after"}
      BY <1>0, <2>2 DEF ScannerTypeOK, RunnerGoes, ScanSymbol, CaptureLost, SymbolFailed,
         SaveRunStats, FinishFails, ReloadFails
    <3>3. QED BY <1>0, <1>1, <1>5, <3>1, <3>2 DEF RunnerOK, rep, new
  <2>3. QED BY <2>1, <2>2
<1>11. RunsInOrder' /\ OnlyOwnEvents(r)
  BY <1>0, <1>9, KeptOrder
<1>12. QED BY <1>1, <1>7, <1>8, <1>10, <1>11, RunnerJoin

(* save_event touches the events of the row of r only.                     *)
LEMMA SaveFacts ==
    ASSUME ScannerTypeOK, NEW r \in Runners, NEW o \in EventOutcomes, SaveEvent(r, o),
           runOf[r] # NoRun => runRows[runOf[r]].events <= 1
    PROVE  /\ runRows' \in [RunIds -> RunRow]
           /\ dbSession' \in [Runners -> {"none", "open", "failed", "dead"}]
           /\ holder' \in Runners \union {NoOne}
           /\ \A i \in RunIds : /\ runRows'[i].status = runRows[i].status
                                /\ i # runOf[r] => runRows'[i] = runRows[i]
           /\ runOf[r] # NoRun =>
                runRows'[runOf[r]].events =
                    runRows[runOf[r]].events + (IF o = "failed" THEN 0 ELSE 1)
<1>1. dbSession' \in [Runners -> {"none", "open", "failed", "dead"}]
  BY DEF ScannerTypeOK, SaveEvent, FailedSession, EventOutcomes
<1>2. holder' \in Runners \union {NoOne}
  BY LockFacts DEF ScannerTypeOK, SaveEvent
<1>3. CASE runOf[r] = NoRun \/ o = "failed"
  <2>1. UNCHANGED runRows
    BY <1>3 DEF SaveEvent
  <2>2. runOf[r] # NoRun => runOf[r] \in RunIds /\ runRows[runOf[r]].events \in 0..2
    BY DEF ScannerTypeOK, RunRow
  <2>3. QED BY <1>1, <1>2, <1>3, <2>1, <2>2 DEF ScannerTypeOK
<1>4. CASE runOf[r] # NoRun /\ o # "failed"
  <2> DEFINE own == runOf[r]
             e == runRows[own].events
  <2>1. own \in RunIds /\ runRows[own] \in RunRow
    BY <1>4 DEF ScannerTypeOK
  <2>2. e \in 0..2 /\ e <= 1
    BY <1>4, <2>1 DEF RunRow
  <2>3. runRows' = [runRows EXCEPT ![own] = [runRows[own] EXCEPT !.events = e + 1]]
    BY <1>4 DEF SaveEvent
  <2>4. [runRows[own] EXCEPT !.events = e + 1] = [status |-> runRows[own].status, events |-> e + 1]
    BY <2>1 DEF RunRow
  <2> HIDE DEF own, e
  <2>5. e + 1 \in 0..2 /\ runRows[own].status \in {"none", "RUNNING"} \union FinalStatus
    BY <2>1, <2>2 DEF RunRow
  <2>6. [status |-> runRows[own].status, events |-> e + 1] \in RunRow
    BY <2>5 DEF RunRow
  <2>7. runRows' \in [RunIds -> RunRow]
    BY <2>1, <2>3, <2>4, <2>6 DEF ScannerTypeOK
  <2>8. \A i \in RunIds : /\ runRows'[i].status = runRows[i].status
                          /\ i # own => runRows'[i] = runRows[i]
    BY <2>1, <2>3, <2>4 DEF ScannerTypeOK
  <2>9. runRows'[own].events = e + 1
    BY <2>1, <2>3, <2>4 DEF ScannerTypeOK
  <2>10. QED BY <1>1, <1>2, <1>4, <2>7, <2>8, <2>9 DEF own, e
<1>5. QED BY <1>3, <1>4

(* The rows of a run stay in order when only events of a used row change.  *)
LEMMA SavedOrder ==
    ASSUME ScInv, NEW r \in Runners, runRows' \in [RunIds -> RunRow],
           \A i \in RunIds : /\ runRows'[i].status = runRows[i].status
                             /\ i # runOf[r] => runRows'[i] = runRows[i]
    PROVE  RunsInOrder' /\ OnlyOwnEvents(r)
<1>1. runOf[r] # NoRun => runRows[runOf[r]].status # "none"
  BY DEF ScInv, RunnersOK, RunnerOK
<1>2. NoRun \notin RunIds
  BY ScNumbers
<1>3. RunsInOrder
  BY DEF ScInv
<1>4. \A i \in RunIds : runRows'[i].status = "none" => runRows'[i].events = 0
  BY <1>1, <1>2, <1>3 DEF RunsInOrder
<1>5. QED BY <1>3, <1>4 DEF RunsInOrder, OnlyOwnEvents

(* The two diagnostic rows.                                                *)
LEMMA ReportKeeps ==
    ASSUME ScInv, NEW r \in Runners, NEW o \in EventOutcomes, ReportCycle(r, o) \/ ReportAborted(r, o)
    PROVE  /\ ScInv'
           /\ \A i \in RunIds : runRows'[i].status = runRows[i].status
           /\ cycleReport[r].persisted => UNCHANGED runRows
           /\ \A i \in RunIds : i # runOf[r] => runRows'[i] = runRows[i]
<1>0. ScannerTypeOK /\ RunsInOrder /\ RunnerOK(r)
  BY DEF ScInv, RunnersOK
<1> DEFINE rep == cycleReport[r]
<1>1. runOf[r] # NoRun => runOf[r] \in RunIds /\ runRows[runOf[r]].events \in Nat /\ runRows[runOf[r]].events <= 1
  BY <1>0 DEF ScannerTypeOK, RunnerOK, RunRow
<1>2. UNCHANGED <<runRows, dbSession, holder>> \/ SaveEvent(r, o)
  BY DEF ReportCycle, ReportAborted
<1>3. /\ runRows' \in [RunIds -> RunRow]
      /\ dbSession' \in [Runners -> {"none", "open", "failed", "dead"}]
      /\ holder' \in Runners \union {NoOne}
      /\ \A i \in RunIds : /\ runRows'[i].status = runRows[i].status
                           /\ i # runOf[r] => runRows'[i] = runRows[i]
  <2>1. CASE UNCHANGED <<runRows, dbSession, holder>>
    BY <1>0, <2>1 DEF ScannerTypeOK
  <2>2. CASE SaveEvent(r, o)
    BY <1>0, <1>1, <2>2, SaveFacts
  <2>3. QED BY <1>2, <2>1, <2>2
<1>4. rep.persisted => UNCHANGED runRows
  <2>1. CASE ReportCycle(r, o)
    BY <1>0, <2>1 DEF ReportCycle, RunnerOK
  <2>2. CASE ReportAborted(r, o)
    BY <2>2 DEF ReportAborted
  <2>3. QED BY <2>1, <2>2
<1>5. RunsInOrder' /\ OnlyOwnEvents(r)
  BY <1>3, SavedOrder
<1>6. CASE ReportAborted(r, o)
  <2>1. /\ runnerAt' = [runnerAt EXCEPT ![r] = "idle"] /\ runOf' = [runOf EXCEPT ![r] = NoRun]
        /\ toScan' = [toScan EXCEPT ![r] = {}]
        /\ cycleReport' = [cycleReport EXCEPT ![r] = EmptyReport]
    BY <1>6 DEF ReportAborted, CycleOver, RunnerGoes
  <2>2. EmptyReport \in CycleReport
    BY DEF EmptyReport, CycleReport
  <2>3. ScannerTypeOK'
    BY <1>0, <1>3, <2>1, <2>2 DEF ScannerTypeOK
  <2>4. OthersStay(r)
    BY <1>0, <2>1 DEF OthersStay, ScannerTypeOK
  <2>5. runOf'[r] = NoRun /\ runnerAt'[r] = "idle" /\ cycleReport'[r] = EmptyReport
    BY <1>0, <2>1 DEF ScannerTypeOK
  <2>6. RunnerOK(r)'
    BY <2>5, RunnerAtRest
  <2>7. QED BY <1>3, <1>4, <1>5, <2>3, <2>4, <2>5, <2>6, RunnerJoin
<1>7. CASE ReportCycle(r, o)
  <2>1. /\ runnerAt' = [runnerAt EXCEPT ![r] = "tail"] /\ UNCHANGED <<runOf, toScan>>
        /\ runnerAt[r] = "close"
    BY <1>7 DEF ReportCycle, RunnerGoes
  <2>2. rep \in CycleReport
    BY <1>0 DEF ScannerTypeOK
  <2>3. rep = [processed |-> rep.processed, outcomes |-> rep.outcomes, persisted |-> rep.persisted,
               missed |-> rep.missed, lost |-> rep.lost]
    BY <2>2 DEF CycleReport
  <2>4. CASE IsComplete(rep)
    <3>1. UNCHANGED <<dbSession, holder, runRows, cycleReport>>
      BY <1>7, <2>4 DEF ReportCycle
    <3>2. ScannerTypeOK' /\ OthersStay(r)
      BY <1>0, <2>1, <3>1 DEF ScannerTypeOK, OthersStay
    <3>3. RunnerOK(r)'
      <4>1. runnerAt'[r] = "tail"
        BY <1>0, <2>1 DEF ScannerTypeOK
      <4>2. QED BY <1>0, <2>1, <2>4, <3>1, <4>1 DEF RunnerOK
    <3>4. QED BY <1>3, <1>4, <1>5, <2>1, <3>2, <3>3, RunnerJoin
  <2>5. CASE ~IsComplete(rep)
    <3>1. SaveEvent(r, o)
      BY <1>7, <2>5 DEF ReportCycle
    <3>p. PICK P \in BOOLEAN : P = (o = "saved")
      OBVIOUS
    <3>l. PICK L \in BOOLEAN : L = (o = "failed")
      OBVIOUS
    <3> DEFINE new == [processed |-> rep.processed, outcomes |-> rep.outcomes, persisted |-> P,
                       missed |-> rep.missed, lost |-> L]
    <3>2. cycleReport' = [cycleReport EXCEPT ![r] = [rep EXCEPT !.persisted = P, !.lost = L]]
      <4>1. cycleReport' = [cycleReport EXCEPT ![r].persisted = (o = "saved"),
                                               ![r].lost = (o = "failed")]
        BY <1>7, <2>5 DEF ReportCycle
      <4>2. cycleReport' = [cycleReport EXCEPT ![r] =
                              [rep EXCEPT !.persisted = (o = "saved"), !.lost = (o = "failed")]]
        BY <1>0, <2>2, <4>1 DEF ScannerTypeOK, CycleReport
      <4>3. QED BY <3>p, <3>l, <4>2
    <3>3. [rep EXCEPT !.persisted = P, !.lost = L] = new
      <4>1. PICK w : w = [rep EXCEPT !.persisted = P, !.lost = L]
        OBVIOUS
      <4>2. w = new
        BY <2>3, <4>1
      <4>3. QED BY <4>1, <4>2
    <3>5. new \in CycleReport
      BY <2>2, <3>p, <3>l DEF CycleReport
    <3>6. cycleReport'[r] = new
      BY <1>0, <3>2, <3>3 DEF ScannerTypeOK
    <3>7. ScannerTypeOK' /\ OthersStay(r)
      BY <1>0, <1>3, <2>1, <3>2, <3>3, <3>5 DEF ScannerTypeOK, OthersStay
    <3>8. runnerAt'[r] = "tail" /\ runOf'[r] = runOf[r]
      BY <1>0, <2>1 DEF ScannerTypeOK
    <3>9. runOf[r] # NoRun => /\ runRows[runOf[r]].events = 0
                              /\ runRows'[runOf[r]].events = IF o = "failed" THEN 0 ELSE 1
      <4>1. runOf[r] # NoRun => runRows[runOf[r]].events = 0
        BY <1>0, <2>1 DEF RunnerOK
      <4>2. runOf[r] # NoRun => runRows'[runOf[r]].events =
                      runRows[runOf[r]].events + (IF o = "failed" THEN 0 ELSE 1)
        BY <1>0, <1>1, <3>1, SaveFacts
      <4>3. QED BY <4>1, <4>2
    <3>10. new.missed \subseteq new.outcomes /\ new.lost = L
      BY <1>0 DEF RunnerOK
    <3>11. RunnerOK(r)'
      <4>1. runOf[r] # NoRun =>
              /\ runRows'[runOf[r]].status # "none" /\ runRows'[runOf[r]].events <= 1
              /\ runRows'[runOf[r]].events > 0 \/ L
        <5>1. CASE o = "failed"
          BY <1>0, <1>1, <1>3, <3>9, <3>l, <5>1 DEF RunnerOK
        <5>2. CASE o # "failed"
          BY <1>0, <1>1, <1>3, <3>9, <5>2 DEF RunnerOK
        <5>3. QED BY <5>1, <5>2
      <4>2. QED BY <3>6, <3>8, <3>10, <4>1 DEF RunnerOK
    <3>12. QED BY <1>3, <1>4, <1>5, <2>1, <3>7, <3>11, RunnerJoin
  <2>6. QED BY <2>4, <2>5
<1>8. QED BY <1>6, <1>7

(* finish_run, of a finished cycle and on the abort path.                  *)
LEMMA FinishKeeps ==
    ASSUME ScInv, NEW r \in Runners, FinishCycle(r) \/ \E ok \in BOOLEAN : AbortCycle(r, ok)
    PROVE  /\ ScInv' /\ EventsKept
           /\ \A i \in RunIds :
                runRows'[i].status # runRows[i].status =>
                  /\ runOf[r] = i
                  /\ \/ runRows'[i].status = "FAILED"
                     \/ runnerAt[r] = "tail" /\ runRows'[i].status = RunStatus(cycleReport[r])
<1>0. ScannerTypeOK /\ RunsInOrder /\ RunnerOK(r)
  BY DEF ScInv, RunnersOK
<1>1. ASSUME NEW st \in FinalStatus, runRows' = FinishRow(runOf[r], st)
      PROVE  /\ runRows' \in [RunIds -> RunRow] /\ EventsKept
             /\ \A i \in RunIds : runRows'[i].status # runRows[i].status =>
                                       runOf[r] = i /\ runRows'[i].status = st
  <2>1. CASE runOf[r] = NoRun
    BY <1>0, <1>1, <2>1 DEF FinishRow, EventsKept, ScannerTypeOK
  <2>2. CASE runOf[r] # NoRun
    <3> DEFINE own == runOf[r]
    <3>1. own \in RunIds /\ runRows[own] \in RunRow /\ runRows[own].status # "none"
      BY <1>0, <2>2 DEF ScannerTypeOK, RunnerOK
    <3>2. runRows' = [runRows EXCEPT ![own] = [runRows[own] EXCEPT !.status = st]]
      BY <1>1, <2>2 DEF FinishRow
    <3>3. [runRows[own] EXCEPT !.status = st] = [status |-> st, events |-> runRows[own].events]
      BY <3>1 DEF RunRow
    <3>4. [status |-> st, events |-> runRows[own].events] \in RunRow
      BY <3>1 DEF RunRow
    <3> HIDE DEF own
    <3>5. runRows' \in [RunIds -> RunRow]
      BY <1>0, <3>1, <3>2, <3>3, <3>4 DEF ScannerTypeOK
    <3>6. \A i \in RunIds \ {own} : runRows'[i] = runRows[i]
      BY <1>0, <3>2 DEF ScannerTypeOK
    <3>7. runRows'[own] = [status |-> st, events |-> runRows[own].events]
      BY <1>0, <3>1, <3>2, <3>3 DEF ScannerTypeOK
    <3>8. st # "none"
      BY DEF FinalStatus
    <3>9. QED BY <3>1, <3>5, <3>6, <3>7, <3>8 DEF EventsKept, own
  <2>3. QED BY <2>1, <2>2
<1>2. CASE FinishCycle(r)
  <2> DEFINE new == cycleReport'[r]
  <2>1. RunStatus(cycleReport[r]) \in FinalStatus
    BY DEF RunStatus, FinalStatus
  <2>2. runRows' = FinishRow(runOf[r], RunStatus(cycleReport[r])) /\ runnerAt[r] = "tail"
    BY <1>2 DEF FinishCycle
  <2>3. /\ runRows' \in [RunIds -> RunRow] /\ EventsKept
        /\ \A i \in RunIds : runRows'[i].status # runRows[i].status =>
              runOf[r] = i /\ runRows'[i].status = RunStatus(cycleReport[r])
    BY <1>1, <2>1, <2>2
  <2>4. /\ dbSession' = [dbSession EXCEPT ![r] = "open"] /\ UNCHANGED <<holder, runOf, toScan>>
        /\ runnerAt' = [runnerAt EXCEPT ![r] = "after"]
        /\ cycleReport' = [cycleReport EXCEPT ![r] = [EmptyReport EXCEPT !.persisted = cycleReport[r].persisted]]
    BY <1>2 DEF FinishCycle, RunnerGoes, ReportUsed
  <2>5. cycleReport[r].persisted \in BOOLEAN
    BY <1>0 DEF ScannerTypeOK, CycleReport
  <2>6. [EmptyReport EXCEPT !.persisted = cycleReport[r].persisted]
          = [processed |-> {}, outcomes |-> {}, persisted |-> cycleReport[r].persisted,
             missed |-> {}, lost |-> FALSE]
    <3>1. PICK w : w = [EmptyReport EXCEPT !.persisted = cycleReport[r].persisted]
      OBVIOUS
    <3>2. w = [processed |-> {}, outcomes |-> {}, persisted |-> cycleReport[r].persisted,
               missed |-> {}, lost |-> FALSE]
      BY <3>1 DEF EmptyReport
    <3>3. QED BY <3>1, <3>2
  <2>7. [processed |-> {}, outcomes |-> {}, persisted |-> cycleReport[r].persisted,
             missed |-> {}, lost |-> FALSE] \in CycleReport
    BY <2>5 DEF CycleReport
  <2>8. ScannerTypeOK'
    BY <1>0, <2>3, <2>4, <2>6, <2>7 DEF ScannerTypeOK
  <2>9. OthersStay(r)
    BY <1>0, <2>4 DEF ScannerTypeOK, OthersStay
  <2>10. runnerAt'[r] = "after" /\ runOf'[r] = runOf[r] /\ new.missed = {}
    BY <1>0, <2>4, <2>6 DEF ScannerTypeOK
  <2>11. runOf[r] # NoRun => runOf[r] \in RunIds /\ runRows'[runOf[r]].status # "none"
                               /\ runRows'[runOf[r]].events <= 1
    BY <1>0, <2>3 DEF RunnerOK, ScannerTypeOK, EventsKept
  <2>12. RunnerOK(r)'
    BY <2>10, <2>11 DEF RunnerOK
  <2>13. RunsInOrder' /\ OnlyOwnEvents(r)
    BY <1>0, <2>3, KeptOrder
  <2>14. QED BY <2>2, <2>3, <2>8, <2>9, <2>10, <2>12, <2>13, RunnerJoin
<1>3. ASSUME NEW ok \in BOOLEAN, AbortCycle(r, ok)
      PROVE  /\ ScInv' /\ EventsKept
             /\ \A i \in RunIds : runRows'[i].status # runRows[i].status =>
                                       runOf[r] = i /\ runRows'[i].status = "FAILED"
  <2>1. /\ runRows' \in [RunIds -> RunRow] /\ EventsKept
        /\ \A i \in RunIds : runRows'[i].status # runRows[i].status =>
                                       runOf[r] = i /\ runRows'[i].status = "FAILED"
    <3>1. CASE ok
      <4>1. runRows' = FinishRow(runOf[r], "FAILED") /\ "FAILED" \in FinalStatus
        BY <1>3, <3>1 DEF AbortCycle, FinalStatus
      <4>2. QED BY <1>1, <4>1
    <3>2. CASE ~ok
      BY <1>0, <1>3, <3>2 DEF AbortCycle, EventsKept, ScannerTypeOK
    <3>3. QED BY <3>1, <3>2
  <2>2. /\ runnerAt' = [runnerAt EXCEPT ![r] = "aborted"] /\ UNCHANGED <<runOf, cycleReport>>
        /\ toScan' = [toScan EXCEPT ![r] = {}] /\ runnerAt[r] = "abort"
    BY <1>3 DEF AbortCycle, RunnerGoes
  <2>3. dbSession' \in [Runners -> {"none", "open", "failed", "dead"}]
        /\ holder' \in Runners \union {NoOne}
    BY <1>0, <1>3, LockFacts DEF AbortCycle, ScannerTypeOK
  <2>4. ScannerTypeOK' /\ OthersStay(r)
    BY <1>0, <2>1, <2>2, <2>3 DEF ScannerTypeOK, OthersStay
  <2>5. runnerAt'[r] = "aborted"
    BY <1>0, <2>2 DEF ScannerTypeOK
  <2>6. runOf[r] # NoRun => runOf[r] \in RunIds /\ runRows'[runOf[r]].status # "none"
                               /\ runRows'[runOf[r]].events <= 1
    BY <1>0, <2>1 DEF RunnerOK, ScannerTypeOK, EventsKept
  <2>7. RunnerOK(r)'
    BY <1>0, <2>2, <2>5, <2>6 DEF RunnerOK
  <2>8. RunsInOrder' /\ OnlyOwnEvents(r)
    BY <1>0, <2>1, KeptOrder
  <2>9. QED BY <2>1, <2>2, <2>4, <2>7, <2>8, RunnerJoin
<1>4. QED BY <1>2, <1>3

-----------------------------------------------------------------------------
(* The step of the whole scanner, and the properties of its steps.         *)

CleanStep ==
    \A i \in RunIds : BecomesStatus(i, "COMPLETED")
          => \E r \in Runners : runOf[r] = i /\ cycleReport[r].missed = {}

ExplainedStep ==
    \A i \in RunIds : BecomesStatus(i, "PARTIAL")
          => \/ runRows[i].events > 0
             \/ \E r \in Runners : runOf[r] = i /\ cycleReport[r].lost

OneEventStep ==
    \A r \in Runners : runOf[r] # NoRun /\ cycleReport[r].persisted
          => runRows'[runOf[r]].events = runRows[runOf[r]].events

(* No run gets a status that says how its cycle ended.                     *)
NoVerdict ==
    \A i \in RunIds : runRows'[i].status \in {runRows[i].status, "RUNNING", "ABORTED", "FAILED"}

LEMMA VerdictOnly ==
    ASSUME NoVerdict
    PROVE  CleanStep /\ ExplainedStep
BY DEF NoVerdict, CleanStep, ExplainedStep, BecomesStatus

LEMMA KeptEvents ==
    ASSUME ScInv, EventsKept
    PROVE  OneEventStep
BY DEF ScInv, ScannerTypeOK, EventsKept, OneEventStep

LEMMA ScStepKeeps ==
    ASSUME ScInv, [ScannerNext]_scannerVars
    PROVE  ScInv' /\ CleanStep /\ ExplainedStep /\ OneEventStep
<1>0. ScannerTypeOK /\ RunsInOrder /\ OwnRun /\ RunnersOK
  BY DEF ScInv
<1>1. CASE UNCHANGED scannerVars
  <2>1. UNCHANGED <<runnerAt, dbSession, holder, runRows, runOf, toScan, cycleReport>>
    BY <1>1 DEF scannerVars
  <2>2. ScInv'
    BY <1>0, <2>1 DEF ScInv, ScannerTypeOK, RunsInOrder, OwnRun, RunnersOK, RunnerOK, IsComplete
  <2>3. NoVerdict /\ EventsKept
    BY <2>1 DEF NoVerdict, EventsKept
  <2>4. QED BY <2>2, <2>3, VerdictOnly, KeptEvents
<1>2. ASSUME NEW r \in Runners,
             \/ LaunchRunner(r) \/ UniverseReady(r) \/ UniverseDenied(r)
             \/ TakeLock(r) \/ StealLock(r) \/ LockDenied(r)
             \/ SessionLost(r) \/ StopRunner(r)
      PROVE  ScInv' /\ CleanStep /\ ExplainedStep /\ OneEventStep
  <2>1. ScInv' /\ EventsKept
    BY <1>2, StartKeeps
  <2>2. NoVerdict
    <3>1. UNCHANGED runRows \/ \E S \in SUBSET RunningRows : AbortStale(S)
      BY <1>2 DEF LaunchRunner, UniverseReady, UniverseDenied, TakeLock, StealLock, LockDenied,
         SessionLost, StopRunner
    <3>2. CASE UNCHANGED runRows
      BY <3>2 DEF NoVerdict
    <3>3. ASSUME NEW S \in SUBSET RunningRows, AbortStale(S) PROVE NoVerdict
      <4>1. ASSUME NEW i \in RunIds PROVE runRows'[i].status \in {runRows[i].status, "ABORTED"}
        <5>1. runRows'[i] = IF i \in S THEN [runRows[i] EXCEPT !.status = "ABORTED"] ELSE runRows[i]
          BY <3>3 DEF AbortStale
        <5>2. runRows[i] \in RunRow
          BY <1>0 DEF ScannerTypeOK
        <5>3. QED BY <5>1, <5>2 DEF RunRow
      <4>2. QED BY <4>1 DEF NoVerdict
    <3>4. QED BY <3>1, <3>2, <3>3
  <2>3. QED BY <2>1, <2>2, VerdictOnly, KeptEvents
<1>3. ASSUME NEW r \in Runners, NEW n \in 0..2, NEW has \in BOOLEAN, NEW c \in {"no", "lost", "ok"},
             BeginCycle(r, n, has, c)
      PROVE  ScInv' /\ CleanStep /\ ExplainedStep /\ OneEventStep
  <2>1. ScInv' /\ \A i \in RunIds : /\ runRows[i].status # "none" => runRows'[i] = runRows[i]
                                    /\ runRows'[i].status \in {"RUNNING", runRows[i].status}
    BY <1>3, BeginKeeps
  <2>2. NoVerdict
    BY <2>1 DEF NoVerdict
  <2>3. OneEventStep
    BY <1>0, <2>1 DEF ScannerTypeOK, RunnersOK, RunnerOK, OneEventStep
  <2>4. QED BY <2>1, <2>2, <2>3, VerdictOnly
<1>4. ASSUME NEW r \in Runners,
             \/ \E s \in ScanSymbols : \/ ScanSymbol(r, s) \/ CaptureLost(r, s)
                                       \/ \E a, b \in BOOLEAN : SymbolFailed(r, s, a, b)
             \/ \E ok \in BOOLEAN : SaveRunStats(r, ok)
             \/ FinishFails(r) \/ EndScanCycle(r) \/ ReloadFails(r)
      PROVE  ScInv' /\ CleanStep /\ ExplainedStep /\ OneEventStep
  <2>1. ScInv' /\ UNCHANGED runRows
    BY <1>4, ScanKeeps
  <2>2. NoVerdict /\ EventsKept
    BY <2>1 DEF NoVerdict, EventsKept
  <2>3. QED BY <2>1, <2>2, VerdictOnly, KeptEvents
<1>5. ASSUME NEW r \in Runners, FinishCycle(r) \/ \E ok \in BOOLEAN : AbortCycle(r, ok)
      PROVE  ScInv' /\ CleanStep /\ ExplainedStep /\ OneEventStep
  <2>1. /\ ScInv' /\ EventsKept
        /\ \A i \in RunIds :
                runRows'[i].status # runRows[i].status =>
                  /\ runOf[r] = i
                  /\ \/ runRows'[i].status = "FAILED"
                     \/ runnerAt[r] = "tail" /\ runRows'[i].status = RunStatus(cycleReport[r])
    BY <1>5, FinishKeeps
  <2>2. RunnerOK(r) /\ NoRun \notin RunIds
    BY <1>0, ScNumbers DEF RunnersOK
  <2>3. CleanStep
    <3> SUFFICES ASSUME NEW i \in RunIds, BecomesStatus(i, "COMPLETED")
                 PROVE  runOf[r] = i /\ cycleReport[r].missed = {}
      BY DEF CleanStep
    <3>1. runOf[r] = i /\ RunStatus(cycleReport[r]) = "COMPLETED"
      BY <2>1 DEF BecomesStatus
    <3>2. IsComplete(cycleReport[r])
      BY <3>1 DEF RunStatus
    <3>3. QED BY <2>2, <3>1, <3>2 DEF RunnerOK, IsComplete
  <2>4. ExplainedStep
    <3> SUFFICES ASSUME NEW i \in RunIds, BecomesStatus(i, "PARTIAL")
                 PROVE  runOf[r] = i /\ (runRows[i].events > 0 \/ cycleReport[r].lost)
      BY DEF ExplainedStep
    <3>1. runOf[r] = i /\ runnerAt[r] = "tail" /\ RunStatus(cycleReport[r]) = "PARTIAL"
      BY <2>1 DEF BecomesStatus
    <3>2. ~IsComplete(cycleReport[r])
      BY <3>1 DEF RunStatus
    <3>3. QED BY <2>2, <3>1, <3>2 DEF RunnerOK
  <2>5. QED BY <2>1, <2>3, <2>4, KeptEvents
<1>6. ASSUME NEW r \in Runners, NEW o \in EventOutcomes, ReportCycle(r, o) \/ ReportAborted(r, o)
      PROVE  ScInv' /\ CleanStep /\ ExplainedStep /\ OneEventStep
  <2>1. /\ ScInv'
        /\ \A i \in RunIds : runRows'[i].status = runRows[i].status
        /\ cycleReport[r].persisted => UNCHANGED runRows
        /\ \A i \in RunIds : i # runOf[r] => runRows'[i] = runRows[i]
    BY <1>6, ReportKeeps
  <2>2. NoVerdict
    BY <2>1 DEF NoVerdict
  <2>3. OneEventStep
    <3> SUFFICES ASSUME NEW q \in Runners, runOf[q] # NoRun, cycleReport[q].persisted
                 PROVE  runRows'[runOf[q]].events = runRows[runOf[q]].events
      BY DEF OneEventStep
    <3>1. CASE q = r
      BY <2>1, <3>1
    <3>2. CASE q # r
      <4>1. runOf[q] # runOf[r] /\ runOf[q] \in RunIds
        BY <1>0, <3>2 DEF OwnRun, ScannerTypeOK
      <4>2. QED BY <2>1, <4>1
    <3>3. QED BY <3>1, <3>2
  <2>4. QED BY <2>1, <2>2, <2>3, VerdictOnly
<1>7. QED BY <1>1, <1>2, <1>3, <1>4, <1>5, <1>6 DEF ScannerNext

(* The rows of dds.scanner_run, the events and what every runner process   *)
(* of scanner_runner.py relies on keep their invariant, for any number of  *)
(* processes, symbols and runs.                                            *)
THEOREM ScInvariance == ScannerSpec => []ScInv
<1>1. ScInv /\ [ScannerNext]_scannerVars => ScInv'
  BY ScStepKeeps
<1>2. QED BY ScInitHolds, <1>1, PTL DEF ScannerSpec

(* A run recorded as COMPLETED by run_scan_cycle missed no symbol and lost *)
(* no capture; one recorded as PARTIAL is explained by a CYCLE_COMPLETION  *)
(* row or by the failure to write it; that row is never written twice by   *)
(* a process that knows it is there; and no two processes work on the same *)
(* run, whoever takes whose lock.                                          *)
THEOREM ScannerSafety == ScannerSpec => ScannerSafe
<1>1. ScInv => ScannerTypeOK /\ OwnRun
  BY DEF ScInv
<1>2. ScInv /\ [ScannerNext]_scannerVars => CleanStep /\ ExplainedStep /\ OneEventStep
  BY ScStepKeeps
<1>3. ScannerSpec => [](ScannerTypeOK /\ OwnRun)
  BY ScInvariance, <1>1, PTL
<1>4. ScannerSpec => [][CleanStep /\ ExplainedStep /\ OneEventStep]_scannerVars
  BY ScInvariance, <1>2, PTL DEF ScannerSpec
<1>5. [][CleanStep /\ ExplainedStep /\ OneEventStep]_scannerVars
        => [][CleanStep]_scannerVars /\ [][ExplainedStep]_scannerVars /\ [][OneEventStep]_scannerVars
  BY PTL
<1>6. [][CleanStep]_scannerVars => CompletedIsClean
  BY PTL DEF CleanStep, CompletedIsClean
<1>7. [][ExplainedStep]_scannerVars => PartialIsExplained
  BY PTL DEF ExplainedStep, PartialIsExplained
<1>8. [][OneEventStep]_scannerVars => NoSecondEvent
  BY PTL DEF OneEventStep, NoSecondEvent
<1>9. QED BY <1>3, <1>4, <1>5, <1>6, <1>7, <1>8, PTL DEF ScannerSafe

-----------------------------------------------------------------------------
(* SetupFlow: the inductive invariant, in parts.                           *)

MeSignals == {s \in Signals : SignalKindOf[s] = "me"}

(* What a scan leaves to save: only what the gate let through is traded,   *)
(* ME candidates are only observed, and nothing this process has saved     *)
(* before is saved again, but for ME candidates.                           *)
BatchOK ==
    /\ fpc # "save" => batch = NoBatch
    /\ batch.trade \subseteq allowed
    /\ Waiting \intersect MeSignals = {}
    /\ batch.trade \intersect batch.shadow = {}
    /\ (Waiting \union (batch.observe \ MeSignals)) \intersect ownSetups = {}
    /\ Waiting \intersect batch.observe = {}

(* Deduplication knows what this process has saved or has in hand, and     *)
(* forgets with the process; an observed candidate needs no row.           *)
MemoryOK ==
    /\ ownSetups \union Waiting \union batch.observe \subseteq seen
    /\ batch.observe \ MeSignals \subseteq excused
    /\ fpc = "down" => seen = {}

(* No ME signal has the gate's blessing.                                   *)
AllowedOK == allowed \intersect MeSignals = {}

(* An answer that says the row is there is right.                          *)
AckOK ==
    /\ acked # {} => fpc = "replay"
    /\ \A a \in acked : a[2] \in {"INSERTED", "DUPLICATE"} => a[1] \in oos

FlowInv ==
    /\ FlowTypeOK /\ BatchOK /\ MemoryOK /\ AllowedOK /\ AckOK
    /\ TradeableWasAllowed /\ NoSilentLoss /\ DeliveredIsStored

LEMMA OneAck ==
    ASSUME NEW a PROVE Cardinality({a}) <= 1 /\ Cardinality({}) <= 1
BY FS_Singleton, FS_EmptySet

LEMMA NoBatchFacts ==
    NoBatch \in Batch /\ NoBatch.trade = {} /\ NoBatch.shadow = {} /\ NoBatch.observe = {}
BY DEF NoBatch, Batch

LEMMA FlowInitHolds == FlowInit => FlowInv
<1> SUFFICES ASSUME FlowInit PROVE FlowInv
  OBVIOUS
<1>1. gates \in [Signals -> [status: GateStatus, manual: BOOLEAN]] /\ policy \in [Signals -> GateStatus]
  BY FlowConstants DEF FlowInit, GateStatus
<1>2. FlowTypeOK
  BY <1>1, FlowConstants, NoBatchFacts, FS_EmptySet DEF FlowInit, FlowTypeOK, Nothing, Statuses
<1>3. BatchOK /\ MemoryOK /\ AllowedOK /\ AckOK
  BY NoBatchFacts DEF FlowInit, BatchOK, MemoryOK, AllowedOK, AckOK, Waiting, Nothing
<1>4. TradeableWasAllowed /\ NoSilentLoss /\ DeliveredIsStored
  BY DEF FlowInit, TradeableWasAllowed, NoSilentLoss, DeliveredIsStored
<1>5. QED BY <1>2, <1>3, <1>4 DEF FlowInv

(* The steps that move the process or its surroundings only.               *)
LEMMA FlowMoves ==
    ASSUME FlowInv,
           \/ StartUp \/ BeginReplay \/ LoadPolicy \/ EndScan
           \/ \E s \in Signals : CandleCloses(s) \/ \E g \in GateStatus : SetGate(s, g)
    PROVE  FlowInv' /\ UNCHANGED setup
<1>0. FlowTypeOK /\ BatchOK /\ MemoryOK /\ AllowedOK /\ AckOK
      /\ TradeableWasAllowed /\ NoSilentLoss /\ DeliveredIsStored
  BY DEF FlowInv
<1>1. UNCHANGED <<seen, batch, setup, spool, oos, acked, allowed, ownSetups, excused>>
  BY DEF StartUp, BeginReplay, LoadPolicy, EndScan, CandleCloses, SetGate, SetupRows, History,
     Elsewhere, Replaying
<1>2. /\ fpc' \in {"down", "idle", "replay", "scan", "save"}
      /\ \/ fpc' = fpc
         \/ fpc = "down" /\ fpc' = "idle"
         \/ fpc = "idle" /\ fpc' = "replay"
         \/ fpc = "replay" /\ fpc' = "scan" /\ acked = {}
         \/ fpc = "save" /\ fpc' = "idle" /\ batch = NoBatch
  <2>1. CASE StartUp \/ BeginReplay \/ LoadPolicy \/ EndScan
    BY <2>1 DEF StartUp, BeginReplay, LoadPolicy, EndScan, Nothing
  <2>2. CASE UNCHANGED fpc
    BY <1>0, <2>2 DEF FlowTypeOK
  <2>3. QED BY <2>1, <2>2 DEF CandleCloses, SetGate
<1>3. gates' \in [Signals -> [status: GateStatus, manual: BOOLEAN]]
  <2>1. CASE UNCHANGED gates
    BY <1>0, <2>1 DEF FlowTypeOK
  <2>2. CASE gates' = Synchronised
    <3>1. \A s \in Signals : gates[s] \in [status: GateStatus, manual: BOOLEAN]
      BY <1>0 DEF FlowTypeOK
    <3>2. \A s \in Signals : [status |-> Configured[s], manual |-> FALSE]
                                 \in [status: GateStatus, manual: BOOLEAN]
      BY FlowConstants DEF GateStatus
    <3>3. QED BY <2>2, <3>1, <3>2 DEF Synchronised
  <2>3. ASSUME NEW s \in Signals, NEW g \in GateStatus, SetGate(s, g)
        PROVE  gates' \in [Signals -> [status: GateStatus, manual: BOOLEAN]]
    <3>1. [status |-> g, manual |-> TRUE] \in [status: GateStatus, manual: BOOLEAN]
      OBVIOUS
    <3>2. QED BY <1>0, <2>3, <3>1 DEF FlowTypeOK, SetGate
  <2>4. QED BY <2>1, <2>2, <2>3 DEF StartUp, BeginReplay, LoadPolicy, EndScan, CandleCloses, Elsewhere
<1>4. policy' \in [Signals -> GateStatus]
  <2>1. Configured \in [Signals -> GateStatus]
    BY FlowConstants DEF GateStatus
  <2>2. [s \in Signals |-> gates[s].status] \in [Signals -> GateStatus]
    BY <1>0 DEF FlowTypeOK
  <2>3. policy' \in {policy, Configured, [s \in Signals |-> gates[s].status]}
    BY DEF StartUp, BeginReplay, LoadPolicy, EndScan, CandleCloses, SetGate
  <2>4. QED BY <1>0, <2>1, <2>2, <2>3 DEF FlowTypeOK
<1>5. candle' \in [Signals -> {"future", "last", "past"}] /\ pending' \subseteq Signals
      /\ starts' \in 0..MaxStarts
  <2>1. CASE StartUp
    BY <1>0, <2>1, FlowConstants DEF FlowTypeOK, StartUp, Replaying
  <2>2. CASE BeginReplay \/ LoadPolicy \/ EndScan
    BY <1>0, <2>2 DEF FlowTypeOK, BeginReplay, LoadPolicy, EndScan, Elsewhere, Replaying
  <2>3. CASE \E s \in Signals : CandleCloses(s)
    BY <1>0, <2>3 DEF FlowTypeOK, CandleCloses, Replaying
  <2>4. CASE \E s \in Signals, g \in GateStatus : SetGate(s, g)
    BY <1>0, <2>4 DEF FlowTypeOK, SetGate, Replaying
  <2>5. QED BY <2>1, <2>2, <2>3, <2>4
<1>6. FlowTypeOK'
  BY <1>0, <1>1, <1>2, <1>3, <1>4, <1>5 DEF FlowTypeOK
<1>7. BatchOK' /\ MemoryOK' /\ AllowedOK' /\ AckOK'
  BY <1>0, <1>1, <1>2 DEF BatchOK, MemoryOK, AllowedOK, AckOK, Waiting, MeSignals
<1>8. TradeableWasAllowed' /\ DeliveredIsStored'
  BY <1>0, <1>1 DEF TradeableWasAllowed, DeliveredIsStored
<1>9. NoSilentLoss'
  BY <1>0, <1>1, <1>2 DEF NoSilentLoss, MemoryOK, FlowTypeOK, Waiting
<1>10. QED BY <1>1, <1>6, <1>7, <1>8, <1>9 DEF FlowInv

(* The process ends: what it remembers is gone, what is stored is not.     *)
LEMMA CrashKeepsFlow ==
    ASSUME FlowInv, CrashScanner
    PROVE  FlowInv' /\ UNCHANGED setup
<1>0. FlowTypeOK /\ BatchOK /\ MemoryOK /\ AllowedOK /\ AckOK
      /\ TradeableWasAllowed /\ NoSilentLoss /\ DeliveredIsStored
  BY DEF FlowInv
<1>1. Configured \in [Signals -> GateStatus]
  BY FlowConstants DEF GateStatus
<1>2. FlowTypeOK'
  BY <1>0, <1>1, NoBatchFacts, FS_EmptySet
     DEF FlowTypeOK, CrashScanner, SetupRows, Nothing
<1>3. BatchOK' /\ MemoryOK' /\ AllowedOK' /\ AckOK'
  BY <1>0, NoBatchFacts DEF CrashScanner, BatchOK, MemoryOK, AllowedOK, AckOK, Waiting, Nothing, MeSignals
<1>4. TradeableWasAllowed' /\ NoSilentLoss' /\ DeliveredIsStored'
  BY <1>0 DEF CrashScanner, SetupRows, TradeableWasAllowed, NoSilentLoss, DeliveredIsStored
<1>5. QED BY <1>2, <1>3, <1>4 DEF FlowInv, CrashScanner, SetupRows

(* The replay of a capture: insert, then acknowledge.                      *)
LEMMA ReplayKeeps ==
    ASSUME FlowInv, Acknowledge \/ \E s \in Signals : Observe(s)
    PROVE  FlowInv' /\ UNCHANGED setup
<1>0. FlowTypeOK /\ BatchOK /\ MemoryOK /\ AllowedOK /\ AckOK
      /\ TradeableWasAllowed /\ NoSilentLoss /\ DeliveredIsStored
  BY DEF FlowInv
<1>1. CASE \E s \in Signals : Observe(s)
  <2>1. PICK s \in Signals : Observe(s)
    BY <1>1
  <2>2. /\ fpc = "replay" /\ UNCHANGED <<policy, fpc, seen, batch, setup, spool, gates, candle, starts,
                                         allowed, ownSetups, excused>>
        /\ pending' = pending \ {s}
    BY <2>1 DEF Observe, Elsewhere, History
  <2>3. PICK ans \in {"INSERTED", "DUPLICATE", "INVALID_SOURCE", "ERROR"} :
          /\ acked' = {<<s, ans>>}
          /\ oos' \in {oos, oos \union {s}}
          /\ ans \in {"INSERTED", "DUPLICATE"} => s \in oos'
    BY <2>1 DEF Observe
  <2>4. Cardinality(acked') <= 1
    BY <2>3, OneAck
  <2>5. FlowTypeOK'
    BY <1>0, <2>2, <2>3, <2>4 DEF FlowTypeOK
  <2>6. BatchOK' /\ MemoryOK' /\ AllowedOK'
    BY <1>0, <2>2 DEF BatchOK, MemoryOK, AllowedOK, Waiting, MeSignals
  <2>7. AckOK'
    BY <2>2, <2>3 DEF AckOK
  <2>8. TradeableWasAllowed' /\ NoSilentLoss'
    BY <1>0, <2>2 DEF TradeableWasAllowed, NoSilentLoss, Waiting
  <2>9. DeliveredIsStored'
    BY <1>0, <2>2, <2>3 DEF DeliveredIsStored
  <2>10. QED BY <2>2, <2>5, <2>6, <2>7, <2>8, <2>9 DEF FlowInv
<1>2. CASE Acknowledge
  <2>1. PICK a \in acked : spool[a[1]] = "PENDING" /\ spool' = [spool EXCEPT ![a[1]] = Acked(a[2])]
    BY <1>2 DEF Acknowledge
  <2>2. /\ fpc = "replay" /\ acked' = {}
        /\ UNCHANGED <<policy, fpc, seen, batch, setup, pending, oos, gates, candle, starts,
                                         allowed, ownSetups, excused>>
    BY <1>2 DEF Acknowledge, Elsewhere, History, Nothing
  <2>3. a[1] \in Signals /\ a[2] \in {"INSERTED", "DUPLICATE", "INVALID_SOURCE", "ERROR"}
    BY <1>0 DEF FlowTypeOK
  <2>4. /\ Acked(a[2]) \in {"PENDING", "DELIVERED", "QUARANTINED"}
        /\ Acked(a[2]) = "DELIVERED" => a[1] \in oos
    BY <1>0, <2>3 DEF Acked, AckOK
  <2>5. FlowTypeOK'
    BY <1>0, <2>1, <2>2, <2>3, <2>4, FS_EmptySet DEF FlowTypeOK
  <2>6. BatchOK' /\ MemoryOK' /\ AllowedOK' /\ AckOK'
    BY <1>0, <2>2 DEF BatchOK, MemoryOK, AllowedOK, AckOK, Waiting, MeSignals
  <2>7. TradeableWasAllowed'
    BY <1>0, <2>2 DEF TradeableWasAllowed
  <2>8. \A s \in Signals : spool'[s] = spool[s] \/ (s = a[1] /\ spool'[s] = Acked(a[2]))
    BY <1>0, <2>1 DEF FlowTypeOK
  <2>9. NoSilentLoss'
    BY <1>0, <2>2, <2>4, <2>8 DEF NoSilentLoss, Waiting, FlowTypeOK
  <2>10. DeliveredIsStored'
    BY <1>0, <2>2, <2>4, <2>8 DEF DeliveredIsStored
  <2>11. QED BY <2>2, <2>5, <2>6, <2>7, <2>9, <2>10 DEF FlowInv
<1>3. QED BY <1>1, <1>2

(* The readers of the setup table.                                         *)
LEMMA ReadersKeep ==
    ASSUME FlowInv, NEW s \in Signals, Execute(s) \/ Expire(s)
    PROVE  FlowInv' /\ \A i \in Signals : setup[i] = "EXECUTED" => setup'[i] = "EXECUTED"
<1>0. FlowTypeOK /\ BatchOK /\ MemoryOK /\ AllowedOK /\ AckOK
      /\ TradeableWasAllowed /\ NoSilentLoss /\ DeliveredIsStored
  BY DEF FlowInv
<1>1. UNCHANGED <<policy, fpc, seen, batch, spool, oos, pending, acked, gates, candle, starts,
                  allowed, ownSetups, excused>>
  BY DEF Execute, Expire, Replaying, Elsewhere, History
<1>2. PICK st \in {"EXECUTED", "EXPIRED"} :
        /\ setup' = [setup EXCEPT ![s] = st]
        /\ setup[s] \in {"DETECTED", "READY_TO_TRADE"}
        /\ st = "EXECUTED" => setup[s] = "READY_TO_TRADE"
  BY DEF Execute, Expire, Saved
<1>3. FlowTypeOK'
  BY <1>0, <1>1, <1>2 DEF FlowTypeOK, Statuses
<1>4. BatchOK' /\ MemoryOK' /\ AllowedOK' /\ AckOK' /\ DeliveredIsStored'
  BY <1>0, <1>1 DEF BatchOK, MemoryOK, AllowedOK, AckOK, DeliveredIsStored, Waiting, MeSignals
<1>5. \A i \in Signals : setup'[i] = IF i = s THEN st ELSE setup[i]
  BY <1>0, <1>2 DEF FlowTypeOK
<1>6. TradeableWasAllowed' /\ NoSilentLoss'
  BY <1>0, <1>1, <1>2, <1>5 DEF TradeableWasAllowed, NoSilentLoss, Waiting, FlowTypeOK
<1>7. QED BY <1>2, <1>3, <1>4, <1>5, <1>6 DEF FlowInv

(* A scan: what it found and did not know is traded, kept as a control,    *)
(* observed, or dropped.                                                   *)
LEMMA ScanKeepsFlow ==
    ASSUME FlowInv, Scan
    PROVE  FlowInv' /\ UNCHANGED setup
<1>0. FlowTypeOK /\ BatchOK /\ MemoryOK /\ AllowedOK /\ AckOK
      /\ TradeableWasAllowed /\ NoSilentLoss /\ DeliveredIsStored
  BY DEF FlowInv
<1>1. PICK found \in SUBSET {s \in Signals : candle[s] = "last"} :
         LET new == found \ Duplicates(found)
             me == {s \in found : SignalKindOf[s] = "me"}
         IN \E dropped \in SUBSET (new \ me) :
              LET valid == new \ (me \union dropped)
                  accepted == {s \in valid : GateAllows(s)}
                  control == {s \in valid \ accepted :
                                SignalKindOf[s] = "shadow" /\ policy[s] = "BLOCKED"}
              IN /\ batch' = [trade |-> accepted, shadow |-> control,
                              observe |-> me \union (valid \ (accepted \union control))]
                 /\ seen' = seen \union found
                 /\ allowed' = allowed \union
                       {s \in Signals : policy[s] = "ENABLED" /\ SignalKindOf[s] # "me"}
                 /\ excused' = (excused \ (new \union me)) \union (new \ (me \union accepted \union control))
  BY DEF Scan
<1> DEFINE new == found \ seen
           me == {s \in found : SignalKindOf[s] = "me"}
<1>2. PICK dropped \in SUBSET (new \ me) :
              LET valid == new \ (me \union dropped)
                  accepted == {s \in valid : policy[s] = "ENABLED"}
                  control == {s \in valid \ accepted :
                                SignalKindOf[s] = "shadow" /\ policy[s] = "BLOCKED"}
              IN /\ batch' = [trade |-> accepted, shadow |-> control,
                              observe |-> me \union (valid \ (accepted \union control))]
                 /\ seen' = seen \union found
                 /\ allowed' = allowed \union
                       {s \in Signals : policy[s] = "ENABLED" /\ SignalKindOf[s] # "me"}
                 /\ excused' = (excused \ (new \union me)) \union (new \ (me \union accepted \union control))
  <2>1. found \ Duplicates(found) = found \ seen
    BY DEF Duplicates
  <2>2. QED BY <1>1, <2>1 DEF GateAllows
<1> DEFINE valid == new \ (me \union dropped)
           accepted == {s \in valid : policy[s] = "ENABLED"}
           control == {s \in valid \ accepted : SignalKindOf[s] = "shadow" /\ policy[s] = "BLOCKED"}
<1>3. /\ batch' = [trade |-> accepted, shadow |-> control,
                   observe |-> me \union (valid \ (accepted \union control))]
      /\ seen' = seen \union found
      /\ allowed' = allowed \union {s \in Signals : policy[s] = "ENABLED" /\ SignalKindOf[s] # "me"}
      /\ excused' = (excused \ (new \union me)) \union (new \ (me \union accepted \union control))
  BY <1>2
<1>4. /\ fpc = "scan" /\ fpc' = "save" /\ policy' = Configured
      /\ UNCHANGED <<setup, spool, oos, pending, acked, gates, candle, starts, ownSetups>>
  BY DEF Scan, SetupRows, Replaying, Elsewhere
<1>5. found \subseteq Signals /\ new \subseteq found /\ me \subseteq found /\ valid \subseteq new
      /\ accepted \subseteq valid /\ control \subseteq valid /\ valid \intersect me = {}
      /\ accepted \intersect control = {}
  BY <1>1, <1>2
<1>6. \A s \in Signals : s \in me <=> s \in found /\ s \in MeSignals
  BY <1>5 DEF MeSignals
<1>7. \A s \in accepted : s \in allowed'
  BY <1>3, <1>5
<1>8. new \intersect seen = {} /\ MeSignals \intersect valid = {}
  BY <1>5, <1>6 DEF MeSignals
<1> HIDE DEF new, me, valid, accepted, control
<1>9. /\ batch'.trade = accepted /\ batch'.shadow = control
      /\ batch'.observe = me \union (valid \ (accepted \union control))
      /\ Waiting' = accepted \union control
  BY <1>3 DEF Waiting
<1>10. FlowTypeOK'
  <2>1. Configured \in [Signals -> GateStatus]
    BY FlowConstants DEF GateStatus
  <2>2. batch' \in Batch
    BY <1>3, <1>5 DEF Batch
  <2>3. seen' \subseteq Signals /\ allowed' \subseteq Signals /\ excused' \subseteq Signals
    BY <1>0, <1>3, <1>5 DEF FlowTypeOK
  <2>4. QED BY <1>0, <1>4, <2>1, <2>2, <2>3 DEF FlowTypeOK
<1>11. BatchOK'
  <2>1. valid \intersect ownSetups = {}
    BY <1>0, <1>5, <1>8 DEF MemoryOK
  <2>2. (Waiting' \union (batch'.observe \ MeSignals)) \subseteq valid
    <3>1. me \ MeSignals = {}
      BY <1>5, <1>6
    <3>2. QED BY <1>5, <1>9, <3>1
  <2>3. Waiting' \intersect batch'.observe = {} /\ Waiting' \intersect MeSignals = {}
    BY <1>5, <1>8, <1>9
  <2>4. QED BY <1>4, <1>5, <1>7, <1>9, <2>1, <2>2, <2>3 DEF BatchOK, MeSignals
<1>12. MemoryOK'
  <2>1. ownSetups' \union Waiting' \union batch'.observe \subseteq seen'
    BY <1>0, <1>3, <1>4, <1>5, <1>9 DEF MemoryOK
  <2>2. batch'.observe \ MeSignals \subseteq excused'
    BY <1>3, <1>5, <1>6, <1>9
  <2>3. QED BY <1>4, <2>1, <2>2 DEF MemoryOK, MeSignals
<1>13. AllowedOK' /\ AckOK'
  BY <1>0, <1>3, <1>4 DEF AllowedOK, AckOK, MeSignals
<1>14. TradeableWasAllowed' /\ DeliveredIsStored'
  BY <1>0, <1>3, <1>4 DEF TradeableWasAllowed, DeliveredIsStored
<1>15. NoSilentLoss'
  <2> SUFFICES ASSUME NEW s \in seen' \ (Waiting' \union batch'.observe \union excused')
               PROVE  \/ SignalKindOf[s] = "me" /\ spool'[s] # "none"
                      \/ SignalKindOf[s] # "me" /\ setup'[s] # "none"
    BY DEF NoSilentLoss
  <2>1. s \notin me /\ s \notin new
    BY <1>3, <1>5, <1>9
  <2>2. s \notin excused
    BY <1>3, <2>1
  <2>3. s \in seen
    BY <1>3, <1>5, <2>1 DEF new
  <2>4. batch = NoBatch
    BY <1>0, <1>4 DEF BatchOK
  <2>5. s \notin Waiting \union batch.observe
    BY <2>4, NoBatchFacts DEF Waiting
  <2>6. QED BY <1>0, <1>4, <2>2, <2>3, <2>5 DEF NoSilentLoss
<1>16. QED BY <1>4, <1>10, <1>11, <1>12, <1>13, <1>14, <1>15 DEF FlowInv

(* What a save writes over was not executed, as far as this process knows. *)
LEMMA SaveKeeps ==
    ASSUME FlowInv, NEW s \in Signals, SaveCandidate(s) \/ SaveFails(s) \/ SaveObserved(s)
    PROVE  /\ FlowInv'
           /\ \A i \in Signals : setup[i] = "EXECUTED" /\ setup'[i] # "EXECUTED" => i \notin ownSetups
<1>0. FlowTypeOK /\ BatchOK /\ MemoryOK /\ AllowedOK /\ AckOK
      /\ TradeableWasAllowed /\ NoSilentLoss /\ DeliveredIsStored
  BY DEF FlowInv
<1>1. batch \in Batch /\ batch.trade \subseteq Signals /\ batch.shadow \subseteq Signals
      /\ batch.observe \subseteq Signals
  BY <1>0 DEF FlowTypeOK, Batch
<1>2. fpc = "save" /\ UNCHANGED <<policy, seen, oos, pending, acked, gates, candle, starts, allowed>>
  BY DEF SaveCandidate, SaveFails, SaveObserved, Replaying, Elsewhere
<1>3. PICK st \in Statuses :
        /\ st = IF s \in Waiting
                THEN IF s \in batch.shadow THEN "DETECTED" ELSE "READY_TO_TRADE"
                ELSE "DETECTED"
        /\ setup' \in {setup, [setup EXCEPT ![s] = st]}
  <2>1. CASE SaveCandidate(s) \/ SaveFails(s)
    BY <2>1 DEF SaveCandidate, SaveFails, Saved, Statuses
  <2>2. CASE SaveObserved(s)
    BY <2>2 DEF SaveObserved, Saved, Statuses
  <2>3. QED BY <2>1, <2>2
<1>4. /\ s \in Waiting \/ s \in batch.observe
      /\ s \notin ownSetups \/ s \in MeSignals
      /\ st = "READY_TO_TRADE" => s \in allowed
      /\ setup[s] = "EXECUTED" => s \notin MeSignals
  <2>1. s \in Waiting \/ s \in batch.observe
    BY DEF SaveCandidate, SaveFails, SaveObserved
  <2>2. s \notin ownSetups \/ s \in MeSignals
    BY <1>0, <2>1 DEF BatchOK
  <2>3. st = "READY_TO_TRADE" => s \in batch.trade
    BY <1>3 DEF Waiting
  <2>4. setup[s] = "EXECUTED" => s \notin MeSignals
    BY <1>0 DEF TradeableWasAllowed, AllowedOK
  <2>5. QED BY <1>0, <2>1, <2>2, <2>3, <2>4 DEF BatchOK
<1>5. \A i \in Signals : setup'[i] = setup[i] \/ (i = s /\ setup'[i] = st)
  BY <1>0, <1>3 DEF FlowTypeOK
<1>6. \A i \in Signals : setup[i] = "EXECUTED" /\ setup'[i] # "EXECUTED" => i \notin ownSetups
  BY <1>4, <1>5
<1>7. setup' \in [Signals -> Statuses]
  BY <1>0, <1>3 DEF FlowTypeOK
<1>8. TradeableWasAllowed'
  BY <1>0, <1>2, <1>3, <1>4, <1>5 DEF TradeableWasAllowed
<1>9. AllowedOK' /\ AckOK'
  <2>1. acked = {}
    BY <1>0, <1>2 DEF AckOK
  <2>2. QED BY <1>0, <1>2, <2>1 DEF AllowedOK, AckOK, MeSignals
<1>10. \A i \in Signals : setup[i] # "none" => setup'[i] # "none"
  BY <1>3, <1>5
<1>11. CASE SaveCandidate(s)
  <2>1. /\ s \in Waiting /\ UNCHANGED <<fpc, spool, excused>> /\ ownSetups' = ownSetups \union {s}
        /\ batch' = [batch EXCEPT !.trade = @ \ {s}, !.shadow = @ \ {s}]
        /\ setup' = [setup EXCEPT ![s] = st]
    BY <1>3, <1>11 DEF SaveCandidate, Saved
  <2>2. batch' = [trade |-> batch.trade \ {s}, shadow |-> batch.shadow \ {s}, observe |-> batch.observe]
    BY <1>1, <2>1 DEF Batch
  <2>3. batch' \in Batch
    BY <1>1, <2>2 DEF Batch
  <2>4. /\ batch'.trade = batch.trade \ {s} /\ batch'.shadow = batch.shadow \ {s}
        /\ batch'.observe = batch.observe /\ Waiting' = Waiting \ {s}
    BY <2>2 DEF Waiting
  <2>5. FlowTypeOK'
    BY <1>0, <1>2, <1>7, <2>1, <2>3 DEF FlowTypeOK
  <2>6. s \notin MeSignals /\ s \notin batch.observe
    BY <1>0, <2>1 DEF BatchOK
  <2>7. BatchOK' /\ MemoryOK'
    <3>1. BatchOK'
      BY <1>0, <1>2, <2>1, <2>4, <2>6 DEF BatchOK, MeSignals
    <3>2. MemoryOK'
      BY <1>0, <1>2, <2>1, <2>4, <2>6 DEF MemoryOK, MeSignals
    <3>3. QED BY <3>1, <3>2
  <2>8. setup'[s] # "none" /\ SignalKindOf[s] # "me"
    BY <1>0, <1>3, <2>1, <2>6 DEF FlowTypeOK, MeSignals
  <2>9. NoSilentLoss'
    <3> SUFFICES ASSUME NEW i \in seen' \ (Waiting' \union batch'.observe \union excused')
                 PROVE  \/ SignalKindOf[i] = "me" /\ spool'[i] # "none"
                        \/ SignalKindOf[i] # "me" /\ setup'[i] # "none"
      BY DEF NoSilentLoss
    <3>1. CASE i = s
      BY <2>8, <3>1
    <3>2. CASE i # s
      <4>1. i \in seen \ (Waiting \union batch.observe \union excused) /\ i \in Signals
        BY <1>0, <1>2, <2>1, <2>4, <3>2 DEF FlowTypeOK
      <4>2. QED BY <1>0, <1>2, <1>10, <2>1, <4>1 DEF NoSilentLoss
    <3>3. QED BY <3>1, <3>2
  <2>10. DeliveredIsStored'
    BY <1>0, <1>2, <2>1 DEF DeliveredIsStored
  <2>11. QED BY <1>6, <1>8, <1>9, <2>5, <2>7, <2>9, <2>10 DEF FlowInv
<1>12. CASE SaveFails(s)
  <2>1. /\ fpc' = "idle" /\ UNCHANGED <<spool, ownSetups>> /\ batch' = NoBatch
        /\ excused' = excused \union (Waiting \union batch.observe)
    BY <1>12 DEF SaveFails, Reported
  <2>2. FlowTypeOK'
    BY <1>0, <1>1, <1>2, <1>7, <2>1, NoBatchFacts DEF FlowTypeOK, Waiting
  <2>3. batch'.trade = {} /\ batch'.shadow = {} /\ batch'.observe = {} /\ Waiting' = {}
    BY <2>1, NoBatchFacts DEF Waiting
  <2>4. BatchOK' /\ MemoryOK'
    BY <1>0, <1>2, <2>1, <2>3 DEF BatchOK, MemoryOK, MeSignals
  <2>5. NoSilentLoss'
    <3> SUFFICES ASSUME NEW i \in seen' \ (Waiting' \union batch'.observe \union excused')
                 PROVE  \/ SignalKindOf[i] = "me" /\ spool'[i] # "none"
                        \/ SignalKindOf[i] # "me" /\ setup'[i] # "none"
      BY DEF NoSilentLoss
    <3>1. i \in seen \ (Waiting \union batch.observe \union excused) /\ i \in Signals
      BY <1>0, <1>2, <2>1 DEF FlowTypeOK
    <3>2. QED BY <1>0, <1>2, <1>10, <2>1, <3>1 DEF NoSilentLoss
  <2>6. DeliveredIsStored'
    BY <1>0, <1>2, <2>1 DEF DeliveredIsStored
  <2>7. QED BY <1>6, <1>8, <1>9, <2>2, <2>4, <2>5, <2>6 DEF FlowInv
<1>13. CASE SaveObserved(s)
  <2>1. /\ Waiting = {} /\ s \in batch.observe /\ UNCHANGED fpc
        /\ batch' = [batch EXCEPT !.observe = @ \ {s}]
        /\ ownSetups' \in {ownSetups, ownSetups \union {s}}
    BY <1>13 DEF SaveObserved
  <2>2. /\ excused' \in {excused, excused \union {s}}
        /\ spool' = [spool EXCEPT ![s] = IF SignalKindOf[s] = "me" /\ @ = "none" THEN "PENDING" ELSE @]
             \/ spool' = spool
        /\ SignalKindOf[s] = "me" => s \in excused' \/ spool'[s] # "none"
    BY <1>0, <1>13 DEF SaveObserved, FlowTypeOK
  <2>3. batch' = [trade |-> batch.trade, shadow |-> batch.shadow, observe |-> batch.observe \ {s}]
    BY <1>1, <2>1 DEF Batch
  <2>4. batch' \in Batch
    BY <1>1, <2>3 DEF Batch
  <2>5. /\ batch'.trade = batch.trade /\ batch'.shadow = batch.shadow
        /\ batch'.observe = batch.observe \ {s} /\ Waiting' = {}
    BY <2>1, <2>3 DEF Waiting
  <2>6. spool' \in [Signals -> {"none", "PENDING", "DELIVERED", "QUARANTINED"}]
        /\ \A i \in Signals : \/ spool'[i] = spool[i]
                              \/ i = s /\ spool[i] = "none" /\ spool'[i] = "PENDING"
    BY <1>0, <2>2 DEF FlowTypeOK
  <2>7. FlowTypeOK'
    BY <1>0, <1>2, <1>7, <2>1, <2>2, <2>4, <2>6 DEF FlowTypeOK
  <2>8. BatchOK'
    BY <1>0, <1>2, <2>1, <2>5 DEF BatchOK, MeSignals
  <2>9. MemoryOK'
    BY <1>0, <1>2, <2>1, <2>2, <2>5 DEF MemoryOK, MeSignals
  <2>10. NoSilentLoss'
    <3> SUFFICES ASSUME NEW i \in seen' \ (Waiting' \union batch'.observe \union excused')
                 PROVE  \/ SignalKindOf[i] = "me" /\ spool'[i] # "none"
                        \/ SignalKindOf[i] # "me" /\ setup'[i] # "none"
      BY DEF NoSilentLoss
    <3>1. CASE i = s
      <4>1. s \in MeSignals
        BY <1>0, <2>1, <2>2, <3>1 DEF MemoryOK
      <4>2. QED BY <2>2, <3>1, <4>1 DEF MeSignals
    <3>2. CASE i # s
      <4>1. i \in seen \ (Waiting \union batch.observe \union excused) /\ i \in Signals
        BY <1>0, <1>2, <2>1, <2>2, <2>5, <3>2 DEF FlowTypeOK
      <4>2. spool'[i] = spool[i]
        BY <2>6, <3>2, <4>1
      <4>3. QED BY <1>0, <1>2, <1>10, <4>1, <4>2 DEF NoSilentLoss
    <3>3. QED BY <3>1, <3>2
  <2>11. DeliveredIsStored'
    BY <1>0, <1>2, <2>6 DEF DeliveredIsStored
  <2>12. QED BY <1>6, <1>8, <1>9, <2>7, <2>8, <2>9, <2>10, <2>11 DEF FlowInv
<1>14. QED BY <1>11, <1>12, <1>13

KeepsExecuted ==
    \A s \in Signals : setup[s] = "EXECUTED" /\ setup'[s] # "EXECUTED" => s \notin ownSetups

LEMMA FlowStepKeeps ==
    ASSUME FlowInv, [FlowNext]_flowVars
    PROVE  FlowInv' /\ KeepsExecuted
<1>1. CASE UNCHANGED flowVars
  <2>1. UNCHANGED <<gates, policy, fpc, candle, seen, batch, setup, spool, pending, acked,
                    oos, starts, allowed, ownSetups, excused>>
    BY <1>1 DEF flowVars
  <2>2. QED BY <2>1 DEF FlowInv, FlowTypeOK, BatchOK, MemoryOK, AllowedOK, AckOK, Waiting, MeSignals,
             TradeableWasAllowed, NoSilentLoss, DeliveredIsStored, KeepsExecuted
<1>2. CASE \/ StartUp \/ BeginReplay \/ LoadPolicy \/ EndScan
           \/ \E s \in Signals : CandleCloses(s) \/ \E g \in GateStatus : SetGate(s, g)
  BY <1>2, FlowMoves DEF KeepsExecuted
<1>3. CASE CrashScanner
  BY <1>3, CrashKeepsFlow DEF KeepsExecuted
<1>4. CASE Acknowledge \/ \E s \in Signals : Observe(s)
  BY <1>4, ReplayKeeps DEF KeepsExecuted
<1>5. CASE Scan
  BY <1>5, ScanKeepsFlow DEF KeepsExecuted
<1>6. CASE \E s \in Signals : SaveCandidate(s) \/ SaveFails(s) \/ SaveObserved(s)
  BY <1>6, SaveKeeps DEF KeepsExecuted
<1>7. CASE \E s \in Signals : Execute(s) \/ Expire(s)
  BY <1>7, ReadersKeep DEF KeepsExecuted
<1>8. QED BY <1>1, <1>2, <1>3, <1>4, <1>5, <1>6, <1>7 DEF FlowNext, FlowCycle

(* The gate, deduplication, the saving loops and the capture spool keep    *)
(* their invariant, for any set of signals and any settings of the gate.   *)
THEOREM FlowInvariance == FlowSpec => []FlowInv
<1>1. FlowInv /\ [FlowNext]_flowVars => FlowInv'
  BY FlowStepKeeps
<1>2. QED BY FlowInitHolds, <1>1, PTL DEF FlowSpec

(* run_scan_cycle, the deduplication, the direction gate and the capture   *)
(* replay together: nothing is tradeable that no gate allowed, nothing     *)
(* found is lost in silence, what is delivered is stored, and the process  *)
(* that saw a setup executed does not offer it again.                      *)
THEOREM FlowSafety == FlowSpec => FlowSafe
<1>1. FlowInv => FlowTypeOK /\ TradeableWasAllowed /\ NoSilentLoss /\ DeliveredIsStored
  BY DEF FlowInv
<1>2. FlowInv /\ [FlowNext]_flowVars => KeepsExecuted
  BY FlowStepKeeps
<1>3. FlowSpec => [](FlowTypeOK /\ TradeableWasAllowed /\ NoSilentLoss /\ DeliveredIsStored)
  BY FlowInvariance, <1>1, PTL
<1>4. FlowSpec => [][KeepsExecuted]_flowVars
  BY FlowInvariance, <1>2, PTL DEF FlowSpec
<1>5. [][KeepsExecuted]_flowVars => ExecutedStays
  BY PTL DEF KeepsExecuted, ExecutedStays
<1>6. QED BY <1>3, <1>4, <1>5, PTL DEF FlowSafe

-----------------------------------------------------------------------------
(* ProspectiveObserver: the inductive invariant, in parts.                 *)

(* A key that is a digest does not depend on the process.                  *)
DigestKeys == \A r \in observed \union inserted : ExpKind[r[1]] # "generic" => r[3] = 0

(* An HTF row has its event, before it is committed and after.             *)
EventsFrozen == \A r \in observed \union inserted : ExpKind[r[1]] = "htf" => r[2] \in frozen

(* The row lock of a v3 insert lasts as long as its transaction, and keeps *)
(* the experiment open.                                                    *)
ShareHeld ==
    /\ \A r \in inserted : ExpKind[r[1]] = "v3" => r[1] \in shared
    /\ shared \subseteq expOpen

(* Between two calls there is no transaction, a failed one is known to     *)
(* the call, and what it returns was inserted.                             *)
CallOK ==
    /\ opc = "idle" => inserted = {} /\ txn = "ok"
    /\ txn = "failed" => faulty
    /\ ~faulty => ids \subseteq observed \union inserted

ObsInv == ObserverTypeOK /\ DigestKeys /\ EventsFrozen /\ ShareHeld /\ CallOK

LEMMA ObsNumbers ==
    /\ Len(Registry) \in Nat /\ DOMAIN Registry = 1..Len(Registry)
    /\ MaxProcesses \in Nat /\ 0 \in Keys /\ 1 \in Keys
    /\ 1 \in 1..(Len(Registry) + 1)
BY ObserverConstants DEF Keys

LEMMA CurrentFacts ==
    ASSUME ObserverTypeOK, Walking
    PROVE  /\ CurrentExp \in Experiments /\ ExpKind[CurrentExp] \in {"generic", "htf", "v3"}
           /\ ObservedRow \in Observation
           /\ ObservedRow[1] = CurrentExp /\ ObservedRow[2] = cand
           /\ ExpKind[CurrentExp] # "generic" => ObservedRow[3] = 0
           /\ idx + 1 \in 1..(Len(Registry) + 1)
<1>1. idx \in DOMAIN Registry
  BY ObsNumbers DEF ObserverTypeOK, Walking
<1>2. CurrentExp \in Experiments
  BY <1>1 DEF CurrentExp, Experiments
<1>3. SourceKey(CurrentExp) \in Keys
  BY ObsNumbers DEF SourceKey, ObserverTypeOK
<1>4. QED BY <1>1, <1>2, <1>3, ObsNumbers, ObserverConstants
          DEF ObservedRow, Observation, SourceKey, ObserverTypeOK

LEMMA ObsInitHolds == ObserverInit => ObsInv
<1> SUFFICES ASSUME ObserverInit PROVE ObsInv
  OBVIOUS
<1>1. ObserverTypeOK
  BY ObsNumbers DEF ObserverInit, ObserverTypeOK
<1>2. QED BY <1>1 DEF ObserverInit, ObsInv, DigestKeys, EventsFrozen, ShareHeld, CallOK

(* No observation of a closed v3 experiment.                               *)
SilentStep == \A r \in observed' \ observed : ExpKind[r[1]] = "v3" => r[1] \in expOpen

(* What an insert may add to the open transaction: the row of the current  *)
(* experiment, locked if it is v3.                                         *)
LEMMA InsertFacts ==
    ASSUME ObsInv, InsertPlain
    PROVE  \E new \in SUBSET {ObservedRow} :
             /\ inserted' = inserted \union new
             /\ ids' = ids \union new
             /\ signals' = signals \union (new \cap observed)
             /\ shared \subseteq shared' /\ shared' \subseteq expOpen \intersect Experiments
             /\ new # {} /\ ExpKind[CurrentExp] = "v3" => CurrentExp \in shared'
<1>0. ObserverTypeOK /\ Walking /\ shared \subseteq expOpen
  BY DEF ObsInv, InsertPlain, ShareHeld
<1>1. CurrentExp \in Experiments
  BY <1>0, CurrentFacts
<1> DEFINE new == IF StillOpen(CurrentExp) THEN NewRows(observed \union inserted) ELSE {}
<1>2. /\ inserted' = inserted \union new /\ ids' = ids \union new
      /\ signals' = signals \union (new \cap observed)
      /\ shared' = IF ExpKind[CurrentExp] = "v3" /\ StillOpen(CurrentExp)
                   THEN shared \union {CurrentExp} ELSE shared
  BY DEF InsertPlain, Insert
<1>3. new \in SUBSET {ObservedRow}
  BY DEF NewRows
<1>4. ExpKind[CurrentExp] = "v3" /\ StillOpen(CurrentExp) => CurrentExp \in expOpen
  BY DEF StillOpen
<1>5. new # {} => StillOpen(CurrentExp)
  OBVIOUS
<1> HIDE DEF new
<1>6. shared \subseteq shared' /\ shared' \subseteq expOpen \intersect Experiments
  BY <1>0, <1>1, <1>2, <1>4 DEF ObserverTypeOK
<1>7. QED BY <1>2, <1>3, <1>5, <1>6

LEMMA ObsStepKeeps ==
    ASSUME ObsInv, [ObserverNext]_observerVars
    PROVE  ObsInv' /\ SilentStep
<1>0. ObserverTypeOK /\ DigestKeys /\ EventsFrozen /\ ShareHeld /\ CallOK
  BY DEF ObsInv
<1>1. CASE UNCHANGED observerVars
  BY <1>0, <1>1 DEF observerVars, ObsInv, ObserverTypeOK, DigestKeys, EventsFrozen, ShareHeld, CallOK,
     SilentStep
<1>2. CASE NewProcess
  <2>1. process' \in Keys
    BY <1>0, <1>2, ObsNumbers DEF NewProcess, ObserverTypeOK, Keys
  <2>2. ObserverTypeOK'
    BY <1>0, <1>2, <2>1, ObsNumbers DEF NewProcess, ObserverTypeOK
  <2>3. QED BY <1>0, <1>2, <2>2 DEF NewProcess, ObsInv, DigestKeys, EventsFrozen, ShareHeld, CallOK,
               SilentStep
<1>3. ASSUME NEW e \in Experiments, CloseExperiment(e) PROVE ObsInv' /\ SilentStep
  BY <1>0, <1>3 DEF CloseExperiment, ObserveCall, ObsInv, ObserverTypeOK, DigestKeys, EventsFrozen,
     ShareHeld, CallOK, SilentStep
<1>4. ASSUME NEW c \in Cands, BeginObserve(c) PROVE ObsInv' /\ SilentStep
  <2>1. ObserverTypeOK'
    BY <1>0, <1>4, ObsNumbers DEF BeginObserve, ObserverTypeOK
  <2>2. QED BY <1>0, <1>4, <2>1 DEF BeginObserve, ObsInv, DigestKeys, EventsFrozen,
     ShareHeld, CallOK, SilentStep
<1>5. CASE CheckExperiment
  <2>0. Walking /\ opc = "check"
    BY <1>5 DEF CheckExperiment
  <2>1. PICK a \in ObserveAnswers(CurrentExp) :
         /\ cache' = IF a = "swallowed" THEN cache ELSE [cache EXCEPT ![CurrentExp] = a]
         /\ txn' = IF a = "swallowed" THEN "failed" ELSE txn
         /\ faulty' = (faulty \/ a = "swallowed")
         /\ \/ opc' = "check" /\ idx' = idx + 1
            \/ opc' = "insert" /\ idx' = idx
    BY <1>5 DEF CheckExperiment, Skip
  <2>2. UNCHANGED <<expOpen, process, observed, inserted, shared, frozen, signals, cand, ids>>
    BY <1>5 DEF CheckExperiment
  <2>3. a # "swallowed" => a \in {"active", "closed"}
    <3>1. CurrentExp \in Experiments
      BY <1>0, <2>0, CurrentFacts
    <3>2. QED BY <1>0, <2>1, <3>1 DEF ObserveAnswers, ObserverTypeOK
  <2>4. cache' \in [Experiments -> {"unknown", "active", "closed"}]
    BY <1>0, <2>1, <2>3 DEF ObserverTypeOK
  <2>5. idx' \in 1..(Len(Registry) + 1) /\ opc' \in {"idle", "check", "insert"} /\ opc' # "idle"
    BY <1>0, <2>0, <2>1, CurrentFacts DEF ObserverTypeOK
  <2>6. txn' \in {"ok", "failed"} /\ faulty' \in BOOLEAN /\ (txn' = "failed" => faulty')
        /\ (~faulty' => ~faulty)
    BY <1>0, <2>1 DEF ObserverTypeOK, CallOK
  <2>7. ObserverTypeOK'
    BY <1>0, <2>2, <2>4, <2>5, <2>6 DEF ObserverTypeOK
  <2>8. QED BY <1>0, <2>2, <2>5, <2>6, <2>7 DEF ObsInv, DigestKeys, EventsFrozen, ShareHeld, CallOK, SilentStep
<1>6. CASE InsertPlain
  <2>0. /\ Walking /\ txn = "ok" /\ ExpKind[CurrentExp] # "htf"
        /\ opc' = "check" /\ idx' = idx + 1
        /\ UNCHANGED <<expOpen, cache, process, observed, txn, frozen, cand, faulty>>
    BY <1>6 DEF InsertPlain, Skip
  <2>1. PICK new \in SUBSET {ObservedRow} :
             /\ inserted' = inserted \union new
             /\ ids' = ids \union new
             /\ signals' = signals \union (new \cap observed)
             /\ shared \subseteq shared' /\ shared' \subseteq expOpen \intersect Experiments
             /\ new # {} /\ ExpKind[CurrentExp] = "v3" => CurrentExp \in shared'
    BY <1>6, InsertFacts
  <2>2. /\ ObservedRow \in Observation /\ ObservedRow[1] = CurrentExp
        /\ ExpKind[CurrentExp] # "generic" => ObservedRow[3] = 0
        /\ idx + 1 \in 1..(Len(Registry) + 1)
    BY <1>0, <2>0, CurrentFacts
  <2>3. ObserverTypeOK'
    BY <1>0, <2>0, <2>1, <2>2 DEF ObserverTypeOK
  <2>4. DigestKeys'
    BY <1>0, <2>0, <2>1, <2>2 DEF DigestKeys
  <2>5. EventsFrozen'
    BY <1>0, <2>0, <2>1, <2>2 DEF EventsFrozen
  <2>6. ShareHeld'
    BY <1>0, <2>0, <2>1, <2>2 DEF ShareHeld
  <2>7. CallOK' /\ SilentStep
    BY <1>0, <2>0, <2>1 DEF CallOK, SilentStep
  <2>8. QED BY <2>3, <2>4, <2>5, <2>6, <2>7 DEF ObsInv
<1>7. CASE InsertFrozen
  <2>0. /\ Walking /\ txn = "ok" /\ ExpKind[CurrentExp] = "htf"
        /\ opc' = "check" /\ idx' = idx + 1 /\ shared' = {}
        /\ frozen' = frozen \union {cand} /\ observed' = observed \union inserted
        /\ UNCHANGED <<expOpen, cache, process, txn, cand, faulty>>
    BY <1>7 DEF InsertFrozen, Skip, FreezeEvent
  <2>1. PICK new \in SUBSET {ObservedRow} :
             /\ inserted' = new
             /\ ids' = ids \union new
             /\ signals' = signals \union (new \cap observed)
    BY <1>7 DEF InsertFrozen
  <2>2. /\ ObservedRow \in Observation /\ ObservedRow[1] = CurrentExp /\ ObservedRow[2] = cand
        /\ ObservedRow[3] = 0
        /\ idx + 1 \in 1..(Len(Registry) + 1)
    BY <1>0, <2>0, CurrentFacts
  <2>3. ObserverTypeOK'
    BY <1>0, <2>0, <2>1, <2>2 DEF ObserverTypeOK
  <2>4. DigestKeys'
    BY <1>0, <2>0, <2>1, <2>2 DEF DigestKeys
  <2>5. EventsFrozen'
    BY <1>0, <2>0, <2>1, <2>2 DEF EventsFrozen
  <2>6. ShareHeld'
    BY <2>0, <2>1, <2>2 DEF ShareHeld
  <2>7. CallOK' /\ SilentStep
    BY <1>0, <2>0, <2>1 DEF CallOK, SilentStep, ShareHeld
  <2>8. QED BY <2>3, <2>4, <2>5, <2>6, <2>7 DEF ObsInv
<1>8. CASE FreezeFails
  <2>1. idx + 1 \in 1..(Len(Registry) + 1)
    BY <1>0, <1>8, CurrentFacts DEF FreezeFails
  <2>2. ObserverTypeOK'
    BY <1>0, <1>8, <2>1 DEF FreezeFails, Skip, ObserverTypeOK
  <2>3. QED BY <1>0, <1>8, <2>2 DEF FreezeFails, Skip, ObsInv, DigestKeys, EventsFrozen, ShareHeld, CallOK,
               SilentStep
<1>9. CASE InsertFails
  <2>1. ObserverTypeOK'
    BY <1>0, <1>9, ObsNumbers DEF InsertFails, ObserverTypeOK
  <2>2. QED BY <1>0, <1>9, <2>1 DEF InsertFails, ObsInv, DigestKeys, EventsFrozen, ShareHeld, CallOK,
               SilentStep
<1>10. CASE CommitCall
  <2>1. ObserverTypeOK'
    BY <1>0, <1>10, ObsNumbers DEF CommitCall, ObserverTypeOK, ObserveCall
  <2>2. DigestKeys' /\ EventsFrozen' /\ ShareHeld'
    BY <1>0, <1>10 DEF CommitCall, DigestKeys, EventsFrozen, ShareHeld
  <2>3. CallOK' /\ SilentStep
    BY <1>0, <1>10 DEF CommitCall, ObserveCall, CallOK, SilentStep, ShareHeld, ObserverTypeOK
  <2>4. QED BY <2>1, <2>2, <2>3 DEF ObsInv
<1>11. QED BY <1>1, <1>2, <1>3, <1>4, <1>5, <1>6, <1>7, <1>8, <1>9, <1>10 DEF ObserverNext

(* observe(), the completed-event freezer and the row locks keep their     *)
(* invariant, for any registry, any candidates and any number of restarts. *)
THEOREM ObsInvariance == ObserverSpec => []ObsInv
<1>1. ObsInv /\ [ObserverNext]_observerVars => ObsInv'
  BY ObsStepKeeps
<1>2. QED BY ObsInitHolds, <1>1, PTL DEF ObserverSpec

LEMMA AtMostOne ==
    ASSUME NEW S, NEW a, S \subseteq {a}
    PROVE  Cardinality(S) <= 1
<1>1. CASE S = {}
  BY <1>1, FS_EmptySet
<1>2. CASE S = {a}
  BY <1>2, FS_Singleton
<1>3. QED BY <1>1, <1>2

LEMMA ObsRecordedOnce == ObsInv => RecordedOnce
<1> SUFFICES ASSUME ObsInv, NEW e \in Experiments, NEW c \in Cands
             PROVE  /\ ExpKind[e] # "generic" => Cardinality(RowsOf(e, c)) <= 1
                    /\ \A k \in Keys : Cardinality({r \in RowsOf(e, c) : r[3] = k}) <= 1
  BY DEF RecordedOnce
<1>1. observed \subseteq Observation /\ DigestKeys
  BY DEF ObsInv, ObserverTypeOK
<1>2. ExpKind[e] # "generic" => RowsOf(e, c) \subseteq {<<e, c, 0>>}
  BY <1>1 DEF RowsOf, DigestKeys, Observation
<1>3. \A k \in Keys : {r \in RowsOf(e, c) : r[3] = k} \subseteq {<<e, c, k>>}
  BY <1>1 DEF RowsOf, Observation
<1>4. QED BY <1>2, <1>3, AtMostOne

(* ProspectiveOOSObserver.observe over restarts, failing statements and an *)
(* operator who closes experiments: one row for a candidate and key, an    *)
(* HTF row only with its event, no row of a closed v3 experiment, and the  *)
(* ids it returns are committed unless a statement failed.                 *)
THEOREM ObserverSafety == ObserverSpec => ObserverSafe
<1>1. ObsInv => ObserverTypeOK /\ RecordedOnce /\ BackedByEvent /\ ReturnedIdsExist
  BY ObsRecordedOnce DEF ObsInv, EventsFrozen, BackedByEvent, CallOK, ReturnedIdsExist
<1>2. ObsInv /\ [ObserverNext]_observerVars => SilentStep
  BY ObsStepKeeps
<1>3. ObserverSpec => [](ObserverTypeOK /\ RecordedOnce /\ BackedByEvent /\ ReturnedIdsExist)
  BY ObsInvariance, <1>1, PTL
<1>4. ObserverSpec => [][SilentStep]_observerVars
  BY ObsInvariance, <1>2, PTL DEF ObserverSpec
<1>5. [][SilentStep]_observerVars => ClosedIsSilent
  BY PTL DEF SilentStep, ClosedIsSilent
<1>6. QED BY <1>3, <1>4, <1>5, PTL DEF ObserverSafe

-----------------------------------------------------------------------------
(* A non-empty set of numbers has a least one.                             *)
LEMMA HasLeast == ASSUME NEW T, T \subseteq Nat, T # {} PROVE \E m \in T : \A k \in T : m <= k
<1> DEFINE R == OpToRel(<, Nat)
<1>1. R = {ss \in Nat \X Nat : ss[1] < ss[2]}
  BY DEF OpToRel
<1>2. IsWellFoundedOn(R, Nat)
  BY NatLessThanWellFounded
<1> HIDE DEF R
<1>3. PICK m \in T : \A y \in T : ~(<<y, m>> \in R)
  BY <1>2, WFMin
<1>4. \A y \in T : ~(y < m)
  BY <1>1, <1>3
<1>5. QED BY <1>3, <1>4

(* The early-MAE experiment, version 2: rows, and who may hold what.       *)
MaeRow(s) ==
    /\ s = [status |-> s.status, protocol |-> s.protocol, published |-> s.published,
            entry |-> s.entry, reason |-> s.reason, exit |-> s.exit, why |-> s.why,
            coverage |-> s.coverage, rows |-> s.rows]
    /\ s.status \in {"none", "INVALID", "DETECTED", "ENTRY_NOT_FILLED", "ENTRY_FILLED", "FINALIZED"}
    /\ s.published \in Nat /\ s.entry \in Nat /\ s.exit \in Nat

MaeReader ==
    [pc : {"off", "idle", "DETECTED", "refuse", "fill", "ENTRY_FILLED"}, entry : Nat,
     reason : {"none", "ENTRY_NOT_FILLED", "SOURCE_AVAILABLE_AFTER_EXPIRY"}]

MaeTyped ==
    /\ maeTime \in MaeDetectedAt..MaxMaeTime
    /\ DOMAIN tape \subseteq Nat /\ \A b \in DOMAIN tape : Closes(b) <= maeTime
    /\ filed \subseteq DOMAIN tape
    /\ capturer \in {"off", "idle", "inserted", "done", "lost"}
    /\ MaeRow(source)
    /\ env \in Environments
    /\ reader \in [MaeEvaluators -> MaeReader]

(* The capture comes before the publication, and the publication before    *)
(* every verdict.                                                          *)
CaptureThenVerdict ==
    /\ capturer \in {"off", "idle"} => source = NoSource
    /\ source.published # Never => capturer = "done"
    /\ source.entry # Never <=> source.status \in {"ENTRY_FILLED", "FINALIZED"}
    /\ source.reason # "none" => source.status = "ENTRY_NOT_FILLED"

(* A verdict is about a published source whose entry window is over.       *)
WindowIsOver == source.published # Never /\ maeTime >= ExpiryAt

FirstTouch(t) ==
    /\ \E b \in TrueTouches : Closes(b) = t
    /\ \A b \in TrueTouches : Closes(b) >= t

VerdictsAreTrue ==
    /\ source.entry # Never => WindowIsOver /\ FirstTouch(source.entry)
    /\ source.reason = "ENTRY_NOT_FILLED" => WindowIsOver /\ TrueTouches = {}
    /\ \A e \in MaeEvaluators :
          /\ reader[e].pc \in {"DETECTED", "refuse", "fill"} => WindowIsOver
          /\ reader[e].pc = "fill" => FirstTouch(reader[e].entry) /\ reader[e].entry # Never
          /\ reader[e].pc = "refuse" => reader[e].reason # "none"
          /\ reader[e].pc = "refuse" /\ reader[e].reason = "ENTRY_NOT_FILLED" => TrueTouches = {}

MaeInv ==
    MaeTyped /\ CaptureThenVerdict /\ VerdictsAreTrue /\ PairedOutcome /\ OneProtocol

LEMMA MaeConstants ==
  /\ MaxMaeTime \in Nat /\ MaeDetectedAt \in Nat /\ MaeDetectedAt <= MaxMaeTime
  /\ ExpiryAt \in Nat /\ MaxHold \in Nat /\ Never \in Nat /\ Never = MaxMaeTime + 1
BY MaeAssumption DEF ExpiryAt, Never

LEMMA HalfOf ==
    ASSUME NEW m \in Nat, NEW b \in Nat, 2 * b <= m
    PROVE  b \in 0..(m \div 2)
OBVIOUS

(* A candle of the tape that touches the zone lies in the window.          *)
LEMMA TouchInWindow ==
  ASSUME MaeTyped, NEW b \in TrueTouches
  PROVE  /\ b \in Nat /\ b \in DOMAIN tape /\ Closes(b) \in Nat /\ Closes(b) <= maeTime
         /\ Closes(b) # Never
         /\ \A t \in Nat : Closes(b) <= t => b \in Spanned(source.published, t)
<1>1. b \in DOMAIN tape /\ 2 * b >= source.published /\ b \in Nat
  BY DEF TrueTouches, MaeTyped
<1>2. Closes(b) = 2 * b + 2 /\ Closes(b) <= maeTime /\ maeTime <= MaxMaeTime /\ maeTime \in Nat
  BY <1>1, MaeConstants DEF MaeTyped, Closes
<1>3. b \in 0..(MaxMaeTime \div 2)
  BY <1>1, <1>2, HalfOf, MaeConstants
<1>4. QED BY <1>1, <1>2, <1>3, MaeConstants DEF Spanned

(* evaluate_virtual_fill finds the first touch of the whole tape, and only *)
(* a covered window without a touch is written off.                        *)
LEMMA FillIsFirstTouch ==
  ASSUME MaeTyped, FillAt(filed, source.published) # Never
  PROVE  FirstTouch(FillAt(filed, source.published)) /\ FillAt(filed, source.published) \in Nat
<1> DEFINE p == source.published
           T == {b \in filed : 2 * b >= p /\ Closes(b) <= ExpiryAt /\ tape[b] \in Touching}
           first == CHOOSE b \in T : \A c \in T : b <= c
<1>1. /\ T # {} /\ EntryCovered(filed, p, Closes(first)) /\ FillAt(filed, p) = Closes(first)
  BY DEF FillAt
<1>2. T \subseteq Nat /\ T \subseteq TrueTouches
  BY DEF MaeTyped, TrueTouches
<1>3. \E b \in T : \A c \in T : b <= c
  BY <1>1, <1>2, HasLeast
<1>4. first \in T /\ \A c \in T : first <= c
  BY <1>3
<1> HIDE DEF first
<1>5. first \in Nat /\ Closes(first) \in Nat /\ Closes(first) = 2 * first + 2 /\ first \in TrueTouches
  BY <1>2, <1>4 DEF Closes
<1>6. ASSUME NEW b \in TrueTouches PROVE Closes(b) >= Closes(first)
  <2>1. b \in Nat /\ Closes(b) = 2 * b + 2
    BY TouchInWindow DEF Closes
  <2>2. CASE Closes(b) <= Closes(first)
    <3>1. b \in filed
      BY <1>1, <1>5, <2>2, TouchInWindow DEF EntryCovered
    <3>2. b \in T
      BY <3>1 DEF TrueTouches
    <3>3. QED BY <1>4, <1>5, <2>1, <3>2
  <2>3. QED BY <1>5, <2>1, <2>2
<1>7. QED BY <1>1, <1>5, <1>6 DEF FirstTouch

LEMMA NoFillNoTouch ==
  ASSUME MaeTyped, FillAt(filed, source.published) = Never,
         EntryCovered(filed, source.published, ExpiryAt)
  PROVE  TrueTouches = {}
<1> DEFINE p == source.published
           T == {b \in filed : 2 * b >= p /\ Closes(b) <= ExpiryAt /\ tape[b] \in Touching}
           first == CHOOSE b \in T : \A c \in T : b <= c
<1>1. T # {} /\ EntryCovered(filed, p, Closes(first)) => FillAt(filed, p) = Closes(first)
  BY DEF FillAt
<1>2. T \subseteq Nat /\ T \subseteq TrueTouches
  BY DEF MaeTyped, TrueTouches
<1>3. ASSUME T # {} PROVE FALSE
  <2>1. \E b \in T : \A c \in T : b <= c
    BY <1>2, <1>3, HasLeast
  <2>2. first \in T /\ \A c \in T : first <= c
    BY <2>1
  <2>3. first \in TrueTouches /\ Closes(first) <= ExpiryAt
    BY <1>2, <2>2
  <2> HIDE DEF first
  <2>4. Closes(first) # Never /\ Closes(first) \in Nat /\ first \in Spanned(p, Closes(first))
    BY <2>3, TouchInWindow
  <2>5. Spanned(p, Closes(first)) \subseteq Spanned(p, ExpiryAt)
    BY <2>3, <2>4, MaeConstants DEF Spanned, Closes, MaeTyped, MaeRow
  <2>6. EntryCovered(filed, p, Closes(first))
    BY <2>4, <2>5 DEF EntryCovered
  <2>7. QED BY <1>1, <1>3, <2>4, <2>6
<1>4. ASSUME NEW b \in TrueTouches PROVE FALSE
  <2>1. Closes(b) <= ExpiryAt /\ 2 * b >= p /\ tape[b] \in Touching
    BY DEF TrueTouches
  <2>2. b \in filed
    BY <2>1, TouchInWindow, MaeConstants DEF EntryCovered
  <2>3. b \in T
    BY <2>1, <2>2
  <2>4. QED BY <1>3, <2>3
<1>5. QED BY <1>4

(* The outcome that Evaluate writes pairs every variant with its baseline. *)
LEMMA FirstEndFacts ==
  ASSUME NEW from \in Nat, NEW to \in Nat, NEW ends,
         ends = {b \in Spanned(from, to) : tape[b] \in Ending}
  PROVE  /\ ends = {} => FirstEnd(from, to) = Never
         /\ ends # {} => /\ FirstEnd(from, to) \in ends /\ FirstEnd(from, to) # Never
                         /\ \A b \in ends : FirstEnd(from, to) <= b
         /\ ends \subseteq Nat
<1>1. FirstEnd(from, to) = IF ends = {} THEN Never
                           ELSE CHOOSE b \in ends : \A c \in ends : b <= c
  BY DEF FirstEnd
<1>2. ends \subseteq 0..(MaxMaeTime \div 2) /\ ends \subseteq Nat
  BY DEF Spanned
<1>3. ASSUME ends # {}
      PROVE  /\ FirstEnd(from, to) \in ends /\ FirstEnd(from, to) # Never
             /\ \A b \in ends : FirstEnd(from, to) <= b
  <2>1. \E b \in ends : \A c \in ends : b <= c
    BY <1>2, <1>3, HasLeast
  <2>2. FirstEnd(from, to) \in ends /\ \A b \in ends : FirstEnd(from, to) <= b
    BY <1>1, <1>3, <2>1
  <2>3. \A b \in 0..(MaxMaeTime \div 2) : b # Never
    BY MaeConstants
  <2>4. QED BY <1>2, <2>2, <2>3
<1>4. QED BY <1>1, <1>2, <1>3

LEMMA VariantIsPaired ==
  ASSUME NEW entry \in Nat, NEW h \in Horizons
  PROVE  LET base == BaselineOf(entry)
             row  == VariantOf(entry, base, h)
         IN /\ base.exit \in Nat /\ row.exit \in Nat
            /\ row.exit <= base.exit
            /\ row.exit < base.exit => row.status = "EVALUATED_TRIGGERED"
            /\ row.status = "AMBIGUOUS" => base.why = "AMBIGUOUS_STOP_FIRST"
<1> DEFINE end  == entry + h
           last == entry + MaxHold
           B    == {b \in Spanned(entry, last) : tape[b] \in Ending}
           V    == {b \in Spanned(entry, end) : tape[b] \in Ending}
           bb   == FirstEnd(entry, last)
           vb   == FirstEnd(entry, end)
           base == BaselineOf(entry)
           row  == VariantOf(entry, base, h)
<1>1. h \in Nat /\ end \in Nat /\ last \in Nat /\ end <= last
  BY MaeAssumption, MaeConstants
<1>2. /\ B = {} => bb = Never
      /\ B # {} => bb \in B /\ bb # Never /\ \A b \in B : bb <= b
      /\ B \subseteq Nat
  BY <1>1, FirstEndFacts
<1>3. /\ V = {} => vb = Never
      /\ V # {} => vb \in V /\ vb # Never /\ \A b \in V : vb <= b
      /\ V \subseteq Nat
  BY <1>1, FirstEndFacts
<1>4. V \subseteq B
  BY <1>1 DEF Spanned, Closes
<1>5. base = IF bb = Never THEN [exit |-> last, why |-> "FIXED_HORIZON"]
             ELSE [exit |-> Closes(bb), why |-> EndReason(bb)]
  BY DEF BaselineOf
<1>6. row = IF base.exit < end THEN [exit |-> base.exit, status |-> "BASELINE_EXITED_EARLY"]
            ELSE IF vb # Never
                 THEN [exit |-> Closes(vb),
                       status |-> IF tape[vb] = "both" THEN "AMBIGUOUS" ELSE "BASELINE_EXITED_EARLY"]
                 ELSE IF \E c \in Spanned(entry, end) : tape[c] \in Adverse
                      THEN [exit |-> end, status |-> "EVALUATED_TRIGGERED"]
                      ELSE [exit |-> base.exit, status |-> "EVALUATED_NO_TRIGGER"]
  BY DEF VariantOf
<1>7. base.exit \in Nat
  <2>1. CASE bb = Never
    BY <1>1, <1>5, <2>1
  <2>2. CASE bb # Never
    <3>1. bb \in Nat
      BY <1>2, <2>2
    <3>2. QED BY <1>5, <2>2, <3>1 DEF Closes
  <2>3. QED BY <2>1, <2>2
<1>8. CASE vb # Never /\ ~(base.exit < end)
  <2>1. vb \in V /\ vb \in B /\ vb \in Nat /\ V # {} /\ B # {}
    BY <1>3, <1>4, <1>8
  <2>2. bb \in B /\ bb # Never /\ bb <= vb /\ bb \in Nat
    BY <1>2, <2>1
  <2>3. Closes(vb) = 2 * vb + 2 /\ Closes(bb) = 2 * bb + 2 /\ Closes(vb) <= end
    BY <2>1 DEF Closes, Spanned
  <2>4. base = [exit |-> Closes(bb), why |-> EndReason(bb)]
    BY <1>5, <2>2
  <2>5. bb = vb
    BY <1>1, <1>8, <2>1, <2>2, <2>3, <2>4
  <2>6. tape[vb] = "both" => base.why = "AMBIGUOUS_STOP_FIRST"
    BY <2>4, <2>5 DEF EndReason
  <2>7. row = [exit |-> Closes(vb),
               status |-> IF tape[vb] = "both" THEN "AMBIGUOUS" ELSE "BASELINE_EXITED_EARLY"]
    BY <1>6, <1>8
  <2>8. base.exit = Closes(vb)
    BY <2>4, <2>5
  <2> HIDE DEF vb, bb, base, row, end, last, B, V
  <2>9. row.exit = base.exit /\ (row.status = "AMBIGUOUS" => base.why = "AMBIGUOUS_STOP_FIRST")
    BY <2>6, <2>7, <2>8
  <2>10. QED BY <1>7, <2>9 DEF base, row
<1>9. CASE ~(vb # Never /\ ~(base.exit < end))
  <2>1. \/ row = [exit |-> base.exit, status |-> "BASELINE_EXITED_EARLY"]
        \/ row = [exit |-> base.exit, status |-> "EVALUATED_NO_TRIGGER"]
        \/ row = [exit |-> end, status |-> "EVALUATED_TRIGGERED"] /\ ~(base.exit < end)
    BY <1>6, <1>9
  <2> HIDE DEF vb, bb, base, row, end, last, B, V
  <2>2. /\ row.exit \in Nat /\ row.exit <= base.exit
        /\ row.exit < base.exit => row.status = "EVALUATED_TRIGGERED"
        /\ row.status # "AMBIGUOUS"
    BY <1>1, <1>7, <2>1
  <2>3. QED BY <1>7, <2>2 DEF base, row
<1>10. QED BY <1>8, <1>9

-----------------------------------------------------------------------------
(* Types, and the order of the source's life.                              *)
MaeRecord(st, pr, pu, en, re, ex, wh, co, ro) ==
    [status |-> st, protocol |-> pr, published |-> pu, entry |-> en, reason |-> re,
     exit |-> ex, why |-> wh, coverage |-> co, rows |-> ro]

LEMMA MaeRecordIsRow ==
  ASSUME NEW st \in {"none", "INVALID", "DETECTED", "ENTRY_NOT_FILLED", "ENTRY_FILLED", "FINALIZED"},
         NEW pr, NEW pu \in Nat, NEW en \in Nat, NEW re, NEW ex \in Nat, NEW wh, NEW co, NEW ro
  PROVE  LET s == MaeRecord(st, pr, pu, en, re, ex, wh, co, ro) IN
         /\ MaeRow(s)
         /\ s.status = st /\ s.protocol = pr /\ s.published = pu /\ s.entry = en
         /\ s.reason = re /\ s.exit = ex /\ s.why = wh /\ s.coverage = co /\ s.rows = ro
BY DEF MaeRecord, MaeRow

LEMMA MaeRowForm ==
  ASSUME NEW s, MaeRow(s)
  PROVE  s = MaeRecord(s.status, s.protocol, s.published, s.entry, s.reason, s.exit, s.why,
                       s.coverage, s.rows)
BY DEF MaeRecord, MaeRow

LEMMA NoSourceForm ==
  NoSource = MaeRecord("none", "none", Never, Never, "none", Never, "none", "none",
                       [h \in Horizons |-> "NONE"])
BY DEF NoSource, MaeRecord

(* What each step leaves in the source.                                    *)
SourceStays == source' = source
SourceCaptured ==
    /\ capturer = "idle" /\ capturer' = "inserted" /\ env' = env
    /\ \E s \in {"DETECTED", "INVALID"} : \E ro :
          source' = MaeRecord(s, env["scanner"], Never, Never, "none", Never, "none", "none", ro)
SourcePublished ==
    /\ capturer = "inserted" /\ capturer' = "done"
    /\ source' = MaeRecord(source.status, source.protocol, maeTime, source.entry, source.reason,
                           source.exit, source.why, source.coverage, source.rows)
SourceRefused(e) ==
    /\ reader[e].pc = "refuse" /\ source.status = "DETECTED"
    /\ source' = MaeRecord("ENTRY_NOT_FILLED", source.protocol, source.published, source.entry,
                           reader[e].reason, source.exit, source.why, source.coverage, source.rows)
SourceFilled(e) ==
    /\ reader[e].pc = "fill" /\ source.status = "DETECTED"
    /\ source' = MaeRecord("ENTRY_FILLED", source.protocol, source.published, reader[e].entry,
                           source.reason, source.exit, source.why, "PENDING", source.rows)
SourceMarked ==
    /\ source.status = "ENTRY_FILLED"
    /\ \E ro : source' = MaeRecord(source.status, source.protocol, source.published, source.entry,
                                   source.reason, source.exit, source.why, source.coverage, ro)
SourcePaired ==
    /\ source.status = "ENTRY_FILLED"
    /\ LET base == BaselineOf(source.entry) IN
       source' = MaeRecord("FINALIZED", source.protocol, source.published, source.entry,
                           source.reason, base.exit, base.why, "COMPLETE",
                           [h \in Horizons |-> VariantOf(source.entry, base, h)])

LEMMA SourceSteps ==
  ASSUME MaeTyped, MaeNext
  PROVE  \/ SourceStays \/ SourceCaptured \/ SourcePublished
         \/ \E e \in MaeEvaluators : SourceRefused(e) \/ SourceFilled(e)
         \/ SourceMarked \/ SourcePaired
<1>0. source = MaeRecord(source.status, source.protocol, source.published, source.entry,
                         source.reason, source.exit, source.why, source.coverage, source.rows)
  BY MaeRowForm DEF MaeTyped
<1>1. CASE Capture
  <2> DEFINE ro == [h \in Horizons |-> "PENDING"]
  <2>1. PICK s \in {"DETECTED", "INVALID"} :
          source' = [NoSource EXCEPT !.status = s, !.protocol = env["scanner"], !.rows = ro]
    BY <1>1 DEF Capture, Detected
  <2> HIDE DEF ro
  <2>2. source' = MaeRecord(s, env["scanner"], Never, Never, "none", Never, "none", "none", ro)
    BY <2>1, NoSourceForm DEF MaeRecord
  <2>3. QED BY <1>1, <2>2 DEF Capture, SourceCaptured
<1>2. CASE Publish
  <2>1. source' = [source EXCEPT !.published = maeTime]
    BY <1>2 DEF Publish
  <2>2. SourcePublished
    BY <1>0, <1>2, <2>1 DEF Publish, SourcePublished, MaeRecord
  <2>3. QED BY <2>2
<1>3. ASSUME NEW e \in MaeEvaluators, Refuse(e) PROVE SourceStays \/ SourceRefused(e)
  <2>1. source.status # "DETECTED" => SourceStays
    BY <1>3 DEF Refuse, SourceStays
  <2>2. source.status = "DETECTED" => SourceRefused(e)
    BY <1>0, <1>3 DEF Refuse, SourceRefused, MaeRecord
  <2>3. QED BY <2>1, <2>2
<1>4. ASSUME NEW e \in MaeEvaluators, Fill(e) PROVE SourceStays \/ SourceFilled(e)
  <2>1. source.status # "DETECTED" => SourceStays
    BY <1>4 DEF Fill, SourceStays
  <2>2. source.status = "DETECTED" => SourceFilled(e)
    BY <1>0, <1>4 DEF Fill, SourceFilled, MaeRecord
  <2>3. QED BY <2>1, <2>2
<1>5. ASSUME NEW e \in MaeEvaluators, Evaluate(e) PROVE SourceStays \/ SourceMarked \/ SourcePaired
  <2> DEFINE base == BaselineOf(source.entry)
             rm == [h \in Horizons |-> "INCOMPLETE_COVERAGE"]
             rp == [h \in Horizons |-> VariantOf(source.entry, base, h)]
  <2>1. \/ source' = source
        \/ source.status = "ENTRY_FILLED" /\ source' = [source EXCEPT !.rows = rm]
        \/ /\ source.status = "ENTRY_FILLED"
           /\ source' = [source EXCEPT !.status = "FINALIZED", !.exit = base.exit, !.why = base.why,
                                       !.coverage = "COMPLETE", !.rows = rp]
    BY <1>5 DEF Evaluate, PairedRow, IncompleteBatch
  <2> HIDE DEF rm, rp, base
  <2>2. CASE source' = source
    BY <2>2 DEF SourceStays
  <2>3. CASE source.status = "ENTRY_FILLED" /\ source' = [source EXCEPT !.rows = rm]
    <3>1. source' = MaeRecord(source.status, source.protocol, source.published, source.entry,
                              source.reason, source.exit, source.why, source.coverage, rm)
      BY <1>0, <2>3 DEF MaeRecord
    <3>2. QED BY <2>3, <3>1 DEF SourceMarked
  <2>4. CASE /\ source.status = "ENTRY_FILLED"
             /\ source' = [source EXCEPT !.status = "FINALIZED", !.exit = base.exit, !.why = base.why,
                                         !.coverage = "COMPLETE", !.rows = rp]
    <3>1. source' = MaeRecord("FINALIZED", source.protocol, source.published, source.entry,
                              source.reason, base.exit, base.why, "COMPLETE", rp)
      BY <1>0, <2>4 DEF MaeRecord
    <3>2. QED BY <2>4, <3>1 DEF SourcePaired, rp, base
  <2>5. QED BY <2>1, <2>2, <2>3, <2>4
<1>6. CASE UNCHANGED source
  BY <1>6 DEF SourceStays
<1>7. \/ Capture \/ Publish \/ UNCHANGED source
      \/ \E e \in MaeEvaluators : Refuse(e) \/ Fill(e) \/ Evaluate(e)
  BY DEF MaeNext, MaeTick, FileCandle, RegisterScanner, LosePublish, RegisterEvaluator, Load,
         Attempt, GiveUp
<1>8. QED BY <1>1, <1>2, <1>3, <1>4, <1>5, <1>6, <1>7

LEMMA MaeTypedInit == MaeInit => MaeTyped
<1> SUFFICES ASSUME MaeInit PROVE MaeTyped
  OBVIOUS
<1>1. MaeRow(source)
  BY NoSourceForm, MaeRecordIsRow, MaeConstants DEF MaeInit
<1>2. reader \in [MaeEvaluators -> MaeReader]
  BY MaeConstants DEF MaeInit, Off, MaeReader
<1>3. QED BY <1>1, <1>2, MaeConstants DEF MaeInit, MaeTyped

LEMMA SourceTyped == ASSUME MaeTyped, MaeNext PROVE MaeRow(source')
<1>0. MaeRow(source) /\ maeTime \in Nat /\ Never \in Nat
      /\ \A e \in MaeEvaluators : reader[e].entry \in Nat
  BY MaeConstants DEF MaeTyped, MaeReader
<1>1. /\ source.published \in Nat /\ source.entry \in Nat /\ source.exit \in Nat
      /\ source.status \in {"none", "INVALID", "DETECTED", "ENTRY_NOT_FILLED", "ENTRY_FILLED",
                            "FINALIZED"}
  BY <1>0 DEF MaeRow
<1>2. CASE SourcePaired
  <2>1. BaselineOf(source.entry).exit \in Nat
    <3>1. CASE FirstEnd(source.entry, source.entry + MaxHold) = Never
      BY <1>1, <3>1, MaeConstants DEF BaselineOf
    <3>2. CASE FirstEnd(source.entry, source.entry + MaxHold) # Never
      <4> DEFINE last == source.entry + MaxHold
      <4>0. last \in Nat
        BY <1>1, MaeConstants
      <4>1. PICK ends : ends = {b \in Spanned(source.entry, last) : tape[b] \in Ending}
        OBVIOUS
      <4> HIDE DEF last
      <4>2. FirstEnd(source.entry, last) \in Nat
        BY <1>1, <3>2, <4>0, <4>1, FirstEndFacts DEF last
      <4>3. FirstEnd(source.entry, source.entry + MaxHold) \in Nat
        BY <4>2 DEF last
      <4>4. QED BY <3>2, <4>3 DEF BaselineOf, Closes
    <3>3. QED BY <3>1, <3>2
  <2>2. QED BY <1>1, <1>2, <2>1, MaeRecordIsRow DEF SourcePaired
<1>3. CASE SourceStays
  BY <1>0, <1>3 DEF SourceStays
<1>4. CASE SourceCaptured
  BY <1>0, <1>4, MaeRecordIsRow DEF SourceCaptured
<1>5. CASE SourcePublished
  BY <1>0, <1>1, <1>5, MaeRecordIsRow DEF SourcePublished
<1>6. ASSUME NEW e \in MaeEvaluators, SourceRefused(e) PROVE MaeRow(source')
  BY <1>1, <1>6, MaeRecordIsRow DEF SourceRefused
<1>7. ASSUME NEW e \in MaeEvaluators, SourceFilled(e) PROVE MaeRow(source')
  BY <1>0, <1>1, <1>7, MaeRecordIsRow DEF SourceFilled
<1>8. CASE SourceMarked
  BY <1>1, <1>8, MaeRecordIsRow DEF SourceMarked
<1>9. QED BY <1>2, <1>3, <1>4, <1>5, <1>6, <1>7, <1>8, SourceSteps

(* What a step leaves in the row of a reader.                              *)
ReaderTo(e, r) == reader' = [reader EXCEPT ![e] = r]

AttemptResult ==
    IF source.published >= ExpiryAt
    THEN [pc |-> "refuse", entry |-> Never, reason |-> "SOURCE_AVAILABLE_AFTER_EXPIRY"]
    ELSE IF FillAt(filed, source.published) # Never
         THEN [pc |-> "fill", entry |-> FillAt(filed, source.published), reason |-> "none"]
         ELSE IF EntryCovered(filed, source.published, ExpiryAt)
              THEN [pc |-> "refuse", entry |-> Never, reason |-> "ENTRY_NOT_FILLED"]
              ELSE AtRest

LEMMA AtRestChanged ==
  ASSUME NEW p, NEW n, NEW w
  PROVE  /\ [AtRest EXCEPT !.pc = p, !.reason = w] = [pc |-> p, entry |-> Never, reason |-> w]
         /\ [AtRest EXCEPT !.pc = p, !.entry = n] = [pc |-> p, entry |-> n, reason |-> "none"]
<1>1. PICK r : r = AtRest
  OBVIOUS
<1>2. /\ r = [pc |-> r.pc, entry |-> r.entry, reason |-> r.reason]
      /\ r.entry = Never /\ r.reason = "none"
  BY <1>1 DEF AtRest
<1>3. PICK a : a = [r EXCEPT !.pc = p, !.reason = w]
  OBVIOUS
<1>4. PICK b : b = [r EXCEPT !.pc = p, !.entry = n]
  OBVIOUS
<1>5. a = [pc |-> p, entry |-> Never, reason |-> w]
  BY <1>2, <1>3
<1>6. b = [pc |-> p, entry |-> n, reason |-> "none"]
  BY <1>2, <1>4
<1>7. QED BY <1>1, <1>3, <1>4, <1>5, <1>6

LEMMA AttemptForm == ASSUME NEW e, Attempt(e) PROVE ReaderTo(e, AttemptResult)
<1> DEFINE tooLate == [AtRest EXCEPT !.pc = "refuse", !.reason = "SOURCE_AVAILABLE_AFTER_EXPIRY"]
           hit  == [AtRest EXCEPT !.pc = "fill", !.entry = FillAt(filed, source.published)]
           miss == [AtRest EXCEPT !.pc = "refuse", !.reason = "ENTRY_NOT_FILLED"]
<1>1. tooLate = [pc |-> "refuse", entry |-> Never, reason |-> "SOURCE_AVAILABLE_AFTER_EXPIRY"]
  BY AtRestChanged
<1>2. hit = [pc |-> "fill", entry |-> FillAt(filed, source.published), reason |-> "none"]
  BY AtRestChanged
<1>3. miss = [pc |-> "refuse", entry |-> Never, reason |-> "ENTRY_NOT_FILLED"]
  BY AtRestChanged
<1>4. reader' = [reader EXCEPT ![e] =
                   IF source.published >= ExpiryAt THEN tooLate
                   ELSE IF FillAt(filed, source.published) # Never THEN hit
                   ELSE IF EntryCovered(filed, source.published, ExpiryAt) THEN miss ELSE AtRest]
  BY DEF Attempt
<1> HIDE DEF tooLate, hit, miss
<1>5. QED BY <1>1, <1>2, <1>3, <1>4 DEF AttemptResult, ReaderTo

LEMMA AttemptResultTyped ==
  ASSUME MaeTyped PROVE AttemptResult \in MaeReader
<1>1. FillAt(filed, source.published) # Never => FillAt(filed, source.published) \in Nat
  BY FillIsFirstTouch
<1>2. QED BY <1>1, MaeConstants DEF AttemptResult, AtRest, MaeReader

LEMMA ReaderSteps ==
  ASSUME MaeTyped, MaeNext
  PROVE  \/ reader' = reader
         \/ \E e \in MaeEvaluators :
               \/ ReaderTo(e, AtRest)
               \/ Load(e) /\ ReaderTo(e, [pc |-> source.status, entry |-> reader[e].entry,
                                          reason |-> reader[e].reason])
               \/ Attempt(e) /\ ReaderTo(e, AttemptResult)
<1>1. ASSUME NEW e \in MaeEvaluators, Load(e)
      PROVE  ReaderTo(e, [pc |-> source.status, entry |-> reader[e].entry,
                          reason |-> reader[e].reason])
  <2>1. reader[e] = [pc |-> reader[e].pc, entry |-> reader[e].entry, reason |-> reader[e].reason]
        /\ e \in DOMAIN reader
    BY DEF MaeTyped, MaeReader
  <2>2. reader' = [reader EXCEPT ![e].pc = source.status]
    BY <1>1 DEF Load
  <2>3. [reader[e] EXCEPT !.pc = source.status]
           = [pc |-> source.status, entry |-> reader[e].entry, reason |-> reader[e].reason]
    BY <2>1
  <2>4. reader' = [reader EXCEPT ![e] = [reader[e] EXCEPT !.pc = source.status]]
    BY <2>2
  <2>5. QED BY <2>3, <2>4 DEF ReaderTo
<1>2. QED BY <1>1, AttemptForm
     DEF MaeNext, MaeTick, FileCandle, RegisterScanner, Capture, Publish, LosePublish,
         RegisterEvaluator, Refuse, Fill, Evaluate, GiveUp, ReaderTo

LEMMA ReaderTyped == ASSUME MaeTyped, MaeNext PROVE reader' \in [MaeEvaluators -> MaeReader]
<1>1. AtRest \in MaeReader
  BY MaeConstants DEF AtRest, MaeReader
<1>2. ASSUME NEW e \in MaeEvaluators, Load(e)
      PROVE  [pc |-> source.status, entry |-> reader[e].entry, reason |-> reader[e].reason]
                \in MaeReader
  BY <1>2 DEF MaeTyped, MaeReader, Load
<1>3. QED BY <1>1, <1>2, AttemptResultTyped, ReaderSteps DEF ReaderTo, MaeTyped

LEMMA MaeTypedStep == ASSUME MaeTyped, MaeNext PROVE MaeTyped'
<1>1. CASE MaeTick
  <2>1. maeTime' = maeTime + 1 /\ maeTime < MaxMaeTime /\ maeTime \in MaeDetectedAt..MaxMaeTime
        /\ maeTime \in Nat /\ maeTime' \in MaeDetectedAt..MaxMaeTime
    BY <1>1, MaeConstants DEF MaeTick, MaeTyped
  <2>2. \A b \in DOMAIN tape : b \in Nat /\ 2 * b + 2 <= maeTime
    BY DEF MaeTyped, Closes
  <2>3. DOMAIN tape' \subseteq Nat /\ (\A b \in DOMAIN tape' : Closes(b) <= maeTime')
        /\ DOMAIN tape \subseteq DOMAIN tape'
    <3>1. CASE UNCHANGED tape
      BY <2>1, <2>2, <3>1 DEF Closes
    <3>2. CASE /\ maeTime' % 2 = 0 /\ maeTime' - 2 >= MaeDetectedAt
               /\ \E k \in TapeKinds :
                     tape' = [b \in DOMAIN tape \cup {maeTime' \div 2 - 1} |->
                                IF b \in DOMAIN tape THEN tape[b] ELSE k]
      <4> DEFINE nb == maeTime' \div 2 - 1
      <4>1. nb \in Nat /\ 2 * nb + 2 <= maeTime'
        BY <2>1, <3>2, MaeConstants
      <4>2. DOMAIN tape' = DOMAIN tape \cup {nb}
        BY <3>2
      <4> HIDE DEF nb
      <4>3. QED BY <2>1, <2>2, <4>1, <4>2 DEF Closes
    <3>3. QED BY <1>1, <3>1, <3>2 DEF MaeTick
  <2>4. QED BY <1>1, <2>1, <2>3, SourceTyped, ReaderTyped DEF MaeTick, MaeTyped, MaeRow, Closes
<1>2. CASE ~MaeTick
  <2>1. UNCHANGED <<maeTime, tape, env>>
    BY <1>2 DEF MaeNext, FileCandle, RegisterScanner, Capture, Publish, LosePublish,
                RegisterEvaluator, Load, Attempt, Refuse, Fill, Evaluate, GiveUp
  <2>2. filed' \subseteq DOMAIN tape
    BY <1>2 DEF MaeTyped, MaeNext, FileCandle, RegisterScanner, Capture, Publish, LosePublish,
                RegisterEvaluator, Load, Attempt, Refuse, Fill, Evaluate, GiveUp
  <2>3. capturer' \in {"off", "idle", "inserted", "done", "lost"}
    BY <1>2 DEF MaeTyped, MaeNext, FileCandle, RegisterScanner, Capture, Publish, LosePublish,
                RegisterEvaluator, Load, Attempt, Refuse, Fill, Evaluate, GiveUp
  <2>4. QED BY <2>1, <2>2, <2>3, SourceTyped, ReaderTyped DEF MaeTyped, MaeRow, Closes
<1>3. QED BY <1>1, <1>2

(* What a step leaves of the capture, of the entry and of the refusal.     *)
LEMMA CapturerMoves ==
  ASSUME MaeNext
  PROVE  /\ capturer' \in {"off", "idle"} => capturer \in {"off", "idle"}
         /\ capturer = "done" => capturer' = "done"
BY DEF MaeNext, MaeTick, FileCandle, RegisterScanner, Capture, Publish, LosePublish,
       RegisterEvaluator, Load, Attempt, Refuse, Fill, Evaluate, GiveUp

LEMMA SourceMoves ==
  ASSUME MaeTyped, CaptureThenVerdict, MaeNext
  PROVE  /\ \/ source'.entry = source.entry
            \/ \E e \in MaeEvaluators : SourceFilled(e) /\ source'.entry = reader[e].entry
         /\ \/ source'.reason = source.reason
            \/ \E e \in MaeEvaluators : SourceRefused(e) /\ source'.reason = reader[e].reason
         /\ source.published # Never => source'.published = source.published
<1>1. CASE SourceCaptured
  <2>1. source = NoSource
    BY <1>1 DEF SourceCaptured, CaptureThenVerdict
  <2>2. source.entry = Never /\ source.reason = "none" /\ source.published = Never
    BY <2>1 DEF NoSource
  <2>3. source'.entry = Never /\ source'.reason = "none"
    BY <1>1 DEF SourceCaptured, MaeRecord
  <2>4. QED BY <2>2, <2>3
<1>2. CASE SourcePublished
  <2>1. source.published = Never
    BY <1>2 DEF SourcePublished, CaptureThenVerdict
  <2>2. QED BY <1>2, <2>1 DEF SourcePublished, MaeRecord
<1>3. CASE SourceStays
  BY <1>3 DEF SourceStays
<1>4. ASSUME NEW e \in MaeEvaluators, SourceRefused(e)
      PROVE  /\ source'.entry = source.entry /\ source'.reason = reader[e].reason
             /\ source'.published = source.published
  BY <1>4 DEF SourceRefused, MaeRecord
<1>5. ASSUME NEW e \in MaeEvaluators, SourceFilled(e)
      PROVE  /\ source'.entry = reader[e].entry /\ source'.reason = source.reason
             /\ source'.published = source.published
  BY <1>5 DEF SourceFilled, MaeRecord
<1>6. CASE SourceMarked
  BY <1>6 DEF SourceMarked, MaeRecord
<1>7. CASE SourcePaired
  BY <1>7 DEF SourcePaired, MaeRecord
<1>8. QED BY <1>1, <1>2, <1>3, <1>4, <1>5, <1>6, <1>7, SourceSteps

LEMMA CaptureStep ==
  ASSUME MaeTyped, CaptureThenVerdict, VerdictsAreTrue, MaeNext
  PROVE  CaptureThenVerdict'
<1>1. CASE SourceStays
  BY <1>1, CapturerMoves DEF SourceStays, CaptureThenVerdict
<1>2. CASE SourceCaptured
  BY <1>2 DEF SourceCaptured, CaptureThenVerdict, MaeRecord
<1>3. CASE SourcePublished
  BY <1>3 DEF SourcePublished, CaptureThenVerdict, MaeRecord
<1>4. source.status # "none" => capturer' \notin {"off", "idle"}
  BY CapturerMoves DEF CaptureThenVerdict, NoSource
<1>5. ASSUME NEW e \in MaeEvaluators, SourceRefused(e) PROVE CaptureThenVerdict'
  <2>1. /\ source'.status = "ENTRY_NOT_FILLED" /\ source'.entry = source.entry
        /\ source'.published = source.published
    BY <1>5 DEF SourceRefused, MaeRecord
  <2>2. source.entry = Never /\ source.status # "none"
    BY <1>5 DEF SourceRefused, CaptureThenVerdict
  <2>3. QED BY <1>4, <2>1, <2>2, CapturerMoves DEF CaptureThenVerdict
<1>6. ASSUME NEW e \in MaeEvaluators, SourceFilled(e) PROVE CaptureThenVerdict'
  <2>1. /\ source'.status = "ENTRY_FILLED" /\ source'.entry = reader[e].entry
        /\ source'.published = source.published /\ source'.reason = source.reason
    BY <1>6 DEF SourceFilled, MaeRecord
  <2>2. source.reason = "none" /\ source.status # "none"
    BY <1>6 DEF SourceFilled, CaptureThenVerdict
  <2>3. reader[e].entry # Never
    BY <1>6 DEF SourceFilled, VerdictsAreTrue
  <2>4. QED BY <1>4, <2>1, <2>2, <2>3, CapturerMoves DEF CaptureThenVerdict
<1>7. CASE SourceMarked \/ SourcePaired
  <2>1. /\ source.status = "ENTRY_FILLED" /\ source'.status \in {"ENTRY_FILLED", "FINALIZED"}
        /\ source'.entry = source.entry
        /\ source'.published = source.published /\ source'.reason = source.reason
    BY <1>7 DEF SourceMarked, SourcePaired, MaeRecord
  <2>2. source.entry # Never /\ source.reason = "none"
    BY <2>1 DEF CaptureThenVerdict
  <2>3. QED BY <1>4, <2>1, <2>2, CapturerMoves DEF CaptureThenVerdict
<1>8. QED BY <1>1, <1>2, <1>3, <1>5, <1>6, <1>7, SourceSteps

(* Once the window of a published source is over, the market adds no touch *)
(* to it: a candle that closes later closes after the expiry.              *)
LEMMA TouchesStay ==
  ASSUME MaeTyped, CaptureThenVerdict, MaeNext, WindowIsOver
  PROVE  WindowIsOver' /\ TrueTouches' = TrueTouches
<1>1. source'.published = source.published /\ source.published # Never
  BY SourceMoves DEF WindowIsOver
<1>2. CASE MaeTick
  <2>1. maeTime' = maeTime + 1 /\ maeTime \in Nat /\ maeTime >= ExpiryAt /\ maeTime \in MaeDetectedAt..MaxMaeTime
    BY <1>2, MaeConstants DEF MaeTick, MaeTyped, WindowIsOver
  <2>2. CASE UNCHANGED tape
    BY <1>1, <2>1, <2>2, MaeConstants DEF WindowIsOver, TrueTouches, Closes
  <2>3. CASE /\ maeTime' % 2 = 0 /\ maeTime' - 2 >= MaeDetectedAt
             /\ \E k \in TapeKinds :
                   tape' = [b \in DOMAIN tape \cup {maeTime' \div 2 - 1} |->
                              IF b \in DOMAIN tape THEN tape[b] ELSE k]
    <3> DEFINE nb == maeTime' \div 2 - 1
    <3>1. nb \in Nat /\ 2 * nb + 2 = maeTime'
      BY <2>1, <2>3, MaeConstants
    <3>2. Closes(nb) = 2 * nb + 2
      BY DEF Closes
    <3>3. DOMAIN tape' = DOMAIN tape \cup {nb} /\ \A b \in DOMAIN tape : tape'[b] = tape[b]
      BY <2>3
    <3> HIDE DEF nb
    <3>4. ~(Closes(nb) <= ExpiryAt)
      BY <2>1, <3>1, <3>2, MaeConstants
    <3>5. TrueTouches' = {b \in DOMAIN tape' : /\ 2 * b >= source.published /\ Closes(b) <= ExpiryAt
                                               /\ tape'[b] \in Touching}
      BY <1>1 DEF TrueTouches, Closes, ExpiryAt
    <3>6. TrueTouches' = TrueTouches
      BY <3>3, <3>4, <3>5 DEF TrueTouches
    <3>7. QED BY <1>1, <2>1, <3>6, MaeConstants DEF WindowIsOver, ExpiryAt
  <2>4. QED BY <1>2, <2>2, <2>3 DEF MaeTick
<1>3. CASE ~MaeTick
  <2>1. UNCHANGED <<maeTime, tape>>
    BY <1>3 DEF MaeNext, FileCandle, RegisterScanner, Capture, Publish, LosePublish,
                RegisterEvaluator, Load, Attempt, Refuse, Fill, Evaluate, GiveUp
  <2>2. QED BY <1>1, <2>1 DEF WindowIsOver, TrueTouches, Closes, ExpiryAt
<1>4. QED BY <1>2, <1>3

LEMMA FirstTouchStays ==
  ASSUME MaeTyped, CaptureThenVerdict, MaeNext, WindowIsOver, NEW t, FirstTouch(t), NEW u, u = t
  PROVE  /\ \E b \in TrueTouches' : Closes(b) = u
         /\ \A b \in TrueTouches' : Closes(b) >= u
BY TouchesStay DEF FirstTouch

LEMMA VerdictsStep ==
  ASSUME MaeTyped, CaptureThenVerdict, VerdictsAreTrue, MaeNext
  PROVE  VerdictsAreTrue'
<1>1. ASSUME source'.entry # Never
      PROVE  WindowIsOver' /\ FirstTouch(source.entry)'
  <2>1. CASE source'.entry = source.entry
    <3>1. WindowIsOver /\ FirstTouch(source.entry)
      BY <1>1, <2>1 DEF VerdictsAreTrue
    <3>2. QED BY <2>1, <3>1, TouchesStay, FirstTouchStays DEF FirstTouch, Closes
  <2>2. ASSUME NEW e \in MaeEvaluators, SourceFilled(e), source'.entry = reader[e].entry
        PROVE  WindowIsOver' /\ FirstTouch(source.entry)'
    <3>1. WindowIsOver /\ FirstTouch(reader[e].entry)
      BY <2>2 DEF VerdictsAreTrue, SourceFilled
    <3>2. QED BY <2>2, <3>1, TouchesStay, FirstTouchStays DEF FirstTouch, Closes
  <2>3. QED BY <2>1, <2>2, SourceMoves
<1>2. ASSUME source'.reason = "ENTRY_NOT_FILLED"
      PROVE  WindowIsOver' /\ TrueTouches' = {}
  <2>1. WindowIsOver /\ TrueTouches = {}
    BY <1>2, SourceMoves DEF VerdictsAreTrue, SourceRefused
  <2>2. QED BY <2>1, TouchesStay
<1>3. ASSUME NEW e \in MaeEvaluators
      PROVE  /\ reader'[e].pc \in {"DETECTED", "refuse", "fill"} => WindowIsOver'
             /\ reader'[e].pc = "fill" => FirstTouch(reader[e].entry)' /\ reader'[e].entry # Never
             /\ reader'[e].pc = "refuse" => reader'[e].reason # "none"
             /\ reader'[e].pc = "refuse" /\ reader'[e].reason = "ENTRY_NOT_FILLED" => TrueTouches' = {}
  <2>0. e \in DOMAIN reader
    BY DEF MaeTyped
  <2>1. CASE reader'[e] = reader[e]
    <3>1. /\ reader'[e].pc = reader[e].pc /\ reader'[e].entry = reader[e].entry
          /\ reader'[e].reason = reader[e].reason
      BY <2>1
    <3>2. ASSUME reader[e].pc \in {"DETECTED", "refuse", "fill"} PROVE WindowIsOver
      BY <3>2 DEF VerdictsAreTrue
    <3>3. ASSUME reader[e].pc = "fill" PROVE FirstTouch(reader[e].entry)' /\ reader[e].entry # Never
      <4>1. FirstTouch(reader[e].entry) /\ reader[e].entry # Never
        BY <3>3 DEF VerdictsAreTrue
      <4>2. QED BY <3>1, <3>2, <3>3, <4>1, FirstTouchStays DEF FirstTouch, Closes
    <3>4. /\ reader[e].pc = "refuse" => reader[e].reason # "none"
          /\ reader[e].pc = "refuse" /\ reader[e].reason = "ENTRY_NOT_FILLED" => TrueTouches = {}
      BY DEF VerdictsAreTrue
    <3>5. QED BY <3>1, <3>2, <3>3, <3>4, TouchesStay
  <2>2. CASE ReaderTo(e, AtRest)
    <3>1. reader'[e].pc = "idle"
      BY <2>0, <2>2 DEF ReaderTo, AtRest
    <3>2. QED BY <3>1
  <2>3. CASE Load(e) /\ ReaderTo(e, [pc |-> source.status, entry |-> reader[e].entry,
                                     reason |-> reader[e].reason])
    <3>1. reader'[e].pc = source.status /\ source.status \in {"DETECTED", "ENTRY_FILLED"}
      BY <2>0, <2>3 DEF ReaderTo, Load
    <3>2. source.status = "DETECTED" => WindowIsOver
      BY <2>3 DEF Load, WindowIsOver
    <3>3. QED BY <3>1, <3>2, TouchesStay
  <2>4. CASE Attempt(e) /\ ReaderTo(e, AttemptResult)
    <3>1. reader'[e] = AttemptResult
      BY <2>0, <2>4 DEF ReaderTo
    <3>2. WindowIsOver
      BY <2>4 DEF Attempt, VerdictsAreTrue
    <3>3. CASE AttemptResult.pc = "fill"
      <4>1. /\ FillAt(filed, source.published) # Never
            /\ AttemptResult.entry = FillAt(filed, source.published)
        BY <3>3 DEF AttemptResult, AtRest
      <4>2. FirstTouch(reader'[e].entry)
        BY <3>1, <4>1, FillIsFirstTouch
      <4>3. FirstTouch(reader[e].entry)'
        BY <3>2, <4>2, FirstTouchStays DEF FirstTouch, Closes
      <4>4. QED BY <3>1, <3>2, <3>3, <4>1, <4>3, TouchesStay
    <3>4. CASE AttemptResult.pc # "fill"
      <4>1. /\ AttemptResult.pc = "refuse" => AttemptResult.reason # "none"
            /\ AttemptResult.pc = "refuse" /\ AttemptResult.reason = "ENTRY_NOT_FILLED" =>
                 /\ FillAt(filed, source.published) = Never
                 /\ EntryCovered(filed, source.published, ExpiryAt)
        BY DEF AttemptResult, AtRest
      <4>2. QED BY <3>1, <3>2, <3>4, <4>1, NoFillNoTouch, TouchesStay
    <3>5. QED BY <3>3, <3>4
  <2>5. QED
    <3>1. ASSUME NEW f \in MaeEvaluators, f # e, NEW r, ReaderTo(f, r) PROVE reader'[e] = reader[e]
      BY <2>0, <3>1 DEF ReaderTo
    <3>2. QED BY <2>1, <2>2, <2>3, <2>4, <3>1, ReaderSteps
<1>4. QED BY <1>1, <1>2, <1>3 DEF VerdictsAreTrue

LEMMA PairedStep ==
  ASSUME MaeTyped, MaeNext, PairedOutcome PROVE PairedOutcome'
<1>1. CASE SourceStays
  BY <1>1 DEF SourceStays, PairedOutcome
<1>2. CASE SourcePublished
  BY <1>2 DEF SourcePublished, MaeRecord, PairedOutcome
<1>3. CASE SourcePaired
  <2> DEFINE base == BaselineOf(source.entry)
  <2>1. /\ source'.exit = base.exit /\ source'.why = base.why
        /\ \A h \in Horizons : source'.rows[h] = VariantOf(source.entry, base, h)
    BY <1>3 DEF SourcePaired, MaeRecord
  <2>2. source.entry \in Nat
    BY DEF MaeTyped, MaeRow
  <2>3. ASSUME NEW h \in Horizons
        PROVE  /\ VariantOf(source.entry, base, h).exit <= base.exit
               /\ VariantOf(source.entry, base, h).exit < base.exit =>
                    VariantOf(source.entry, base, h).status = "EVALUATED_TRIGGERED"
               /\ VariantOf(source.entry, base, h).status = "AMBIGUOUS" =>
                    base.why = "AMBIGUOUS_STOP_FIRST"
    BY <2>2, VariantIsPaired
  <2> HIDE DEF base
  <2>4. QED BY <2>1, <2>3 DEF PairedOutcome
<1>4. CASE SourceCaptured \/ SourceMarked \/ \E e \in MaeEvaluators : SourceRefused(e) \/ SourceFilled(e)
  <2>1. source'.status # "FINALIZED"
    BY <1>4 DEF SourceCaptured, SourceMarked, SourceRefused, SourceFilled, MaeRecord
  <2>2. QED BY <2>1 DEF PairedOutcome
<1>5. QED BY <1>1, <1>2, <1>3, <1>4, SourceSteps

(* Before the first registration nobody has started.                       *)
LEMMA NobodyYet ==
  ASSUME MaeTyped, CaptureThenVerdict, OneProtocol, protocol = "none"
  PROVE  capturer = "off" /\ source = NoSource /\ \A e \in MaeEvaluators : reader[e].pc = "off"
BY EveryoneIsConfigured DEF MaeTyped, CaptureThenVerdict, OneProtocol

LEMMA ProtocolStep ==
  ASSUME MaeTyped, CaptureThenVerdict, OneProtocol, MaeNext PROVE OneProtocol'
<1>0. env' = env /\ NoSource.status = "none"
  BY DEF MaeNext, MaeTick, FileCandle, RegisterScanner, Capture, Publish, LosePublish,
         RegisterEvaluator, Load, Attempt, Refuse, Fill, Evaluate, GiveUp, NoSource
<1>1. CASE RegisterScanner
  <2>1. CASE protocol = "none"
    BY <1>0, <1>1, <2>1, NobodyYet DEF RegisterScanner, OneProtocol
  <2>2. CASE protocol # "none"
    BY <1>0, <1>1, <2>2 DEF RegisterScanner, MayRegister, OneProtocol
  <2>3. QED BY <2>1, <2>2
<1>2. ASSUME NEW e \in MaeEvaluators, RegisterEvaluator(e) PROVE OneProtocol'
  <2>1. /\ protocol' = env[e] /\ capturer' = capturer /\ source' = source
        /\ \A f \in MaeEvaluators : f # e => reader'[f] = reader[f]
    BY <1>2 DEF RegisterEvaluator, MaeTyped
  <2>2. CASE protocol = "none"
    BY <1>0, <2>1, <2>2, NobodyYet DEF OneProtocol
  <2>3. CASE protocol # "none"
    BY <1>0, <1>2, <2>1, <2>3 DEF RegisterEvaluator, MayRegister, OneProtocol
  <2>4. QED BY <2>2, <2>3
<1>3. CASE ~RegisterScanner /\ ~\E e \in MaeEvaluators : RegisterEvaluator(e)
  <2>1. protocol' = protocol /\ (capturer' # "off" => capturer # "off")
    BY <1>3 DEF MaeNext, MaeTick, FileCandle, Capture, Publish, LosePublish,
                Load, Attempt, Refuse, Fill, Evaluate, GiveUp
  <2>2. ASSUME NEW e \in MaeEvaluators, reader'[e].pc # "off" PROVE reader[e].pc # "off"
    <3>1. CASE reader' = reader
      BY <2>2, <3>1
    <3>2. ASSUME NEW f \in MaeEvaluators, reader[f].pc # "off", NEW r, reader' = [reader EXCEPT ![f] = r]
          PROVE  reader[e].pc # "off"
      BY <2>2, <3>2 DEF MaeTyped
    <3>3. ASSUME NEW f \in MaeEvaluators, Load(f) PROVE reader[e].pc # "off"
      <4>1. reader[f].pc = "idle" /\ (f # e => reader'[e] = reader[e])
        BY <3>3 DEF Load, MaeTyped
      <4>2. QED BY <2>2, <4>1
    <3>4. \/ reader' = reader \/ \E f \in MaeEvaluators : Load(f)
          \/ \E f \in MaeEvaluators : reader[f].pc # "off" /\ \E r : reader' = [reader EXCEPT ![f] = r]
      BY <1>3 DEF MaeNext, MaeTick, FileCandle, Capture, Publish, LosePublish,
                  Attempt, Refuse, Fill, Evaluate, GiveUp
    <3>5. QED BY <3>1, <3>2, <3>3, <3>4
  <2>3. source'.status # "none" => source'.protocol = protocol
    <3>1. CASE SourceCaptured
      BY <3>1 DEF SourceCaptured, OneProtocol, MaeRecord
    <3>2. CASE ~SourceCaptured
      <4>1. source'.protocol = source.protocol /\ (source'.status # "none" => source.status # "none")
        BY <3>2, SourceSteps DEF SourceStays, SourcePublished, SourceRefused, SourceFilled,
                                 SourceMarked, SourcePaired, MaeRecord
      <4>2. QED BY <4>1 DEF OneProtocol
    <3>3. QED BY <3>1, <3>2
  <2>4. QED BY <1>0, <2>1, <2>2, <2>3 DEF OneProtocol
<1>4. QED BY <1>1, <1>2, <1>3

LEMMA MaeStarts == MaeInit => MaeInv
<1> SUFFICES ASSUME MaeInit PROVE MaeInv
  OBVIOUS
<1>1. source.status = "none" /\ source.entry = Never /\ source.published = Never /\ source.reason = "none"
  BY DEF MaeInit, NoSource
<1>2. \A e \in MaeEvaluators : reader[e].pc = "off"
  BY DEF MaeInit, Off
<1>3. CaptureThenVerdict
  BY <1>1 DEF MaeInit, CaptureThenVerdict
<1>4. VerdictsAreTrue
  BY <1>1, <1>2 DEF VerdictsAreTrue
<1>5. PairedOutcome /\ OneProtocol
  BY <1>1, <1>2 DEF MaeInit, PairedOutcome, OneProtocol
<1>6. QED BY <1>3, <1>4, <1>5, MaeTypedInit DEF MaeInv

LEMMA MaeStutters == MaeInv /\ UNCHANGED maeVars => MaeInv'
<1> SUFFICES ASSUME MaeInv, UNCHANGED maeVars PROVE MaeInv'
  OBVIOUS
<1>1. MaeTyped'
  BY DEF MaeInv, maeVars, MaeTyped, MaeRow, Closes
<1>2. CaptureThenVerdict'
  BY DEF MaeInv, maeVars, CaptureThenVerdict
<1>3. VerdictsAreTrue'
  BY DEF MaeInv, maeVars, VerdictsAreTrue, WindowIsOver, FirstTouch, TrueTouches, Closes, ExpiryAt
<1>4. PairedOutcome' /\ OneProtocol'
  BY DEF MaeInv, maeVars, PairedOutcome, OneProtocol
<1>5. QED BY <1>1, <1>2, <1>3, <1>4 DEF MaeInv

(* The early-MAE experiment keeps its inductive invariant: the life of a   *)
(* source, the truth of both entry verdicts while an evaluator holds them  *)
(* and after it has written them, the pairing and the one protocol.        *)
THEOREM MaeV2Invariance == MaeSpec => []MaeInv
<1>1. MaeInv /\ [MaeNext]_maeVars => MaeInv'
  BY MaeStutters, MaeTypedStep, CaptureStep, VerdictsStep, PairedStep, ProtocolStep DEF MaeInv
<1>2. QED BY <1>1, MaeStarts, PTL DEF MaeSpec

(* Entry, refusal and outcome are written once.                            *)
LEMMA MaeWritesOnce ==
  ASSUME MaeInv, [MaeNext]_maeVars
  PROVE  /\ source.status \in {"FINALIZED", "ENTRY_NOT_FILLED", "INVALID"} =>
              source'.status = source.status /\ source'.exit = source.exit
                /\ source'.reason = source.reason /\ source'.entry = source.entry
         /\ source.entry # Never => source'.entry = source.entry
         /\ (source'.status = "FINALIZED" /\ source.status # "FINALIZED") =>
              source.status = "ENTRY_FILLED"
<1>1. CASE UNCHANGED maeVars
  BY <1>1 DEF maeVars
<1>2. CASE MaeNext
  <2>0. /\ source.entry # Never <=> source.status \in {"ENTRY_FILLED", "FINALIZED"}
        /\ capturer = "idle" => source.status = "none"
    BY DEF MaeInv, CaptureThenVerdict, NoSource
  <2>1. CASE SourceStays
    BY <2>1 DEF SourceStays
  <2>2. CASE SourceCaptured
    BY <2>0, <2>2 DEF SourceCaptured, MaeRecord
  <2>3. CASE SourcePublished
    BY <2>3 DEF SourcePublished, MaeRecord
  <2>4. ASSUME NEW e \in MaeEvaluators, SourceRefused(e) \/ SourceFilled(e)
        PROVE  source.status = "DETECTED" /\ source'.status # "FINALIZED"
    BY <2>4 DEF SourceRefused, SourceFilled, MaeRecord
  <2>5. CASE SourceMarked \/ SourcePaired
    BY <2>5 DEF SourceMarked, SourcePaired, MaeRecord
  <2>6. QED BY <1>2, <2>0, <2>1, <2>2, <2>3, <2>4, <2>5, SourceSteps DEF MaeInv
<1>3. QED BY <1>1, <1>2

(* Of the early-MAE experiment, for every tape, expiry, horizon and number *)
(* of evaluators: the entry is the market's first touch after publication  *)
(* however late the candles come, a refusal is never wrong, every variant  *)
(* is paired with its baseline, verdicts are written once, and all of it   *)
(* is one registered protocol's.                                           *)
THEOREM MaeV2Safety == MaeSpec => MaeV2Safe
<1>1. MaeInv => MaeTypeOK /\ OneProtocol /\ EntryIsTrue /\ PairedOutcome
  <2>1. MaeTyped => MaeTypeOK
    BY MaeConstants DEF MaeTyped, MaeRow, MaeTypeOK
  <2>2. VerdictsAreTrue => EntryIsTrue
    BY DEF VerdictsAreTrue, EntryIsTrue, FirstTouch
  <2>3. QED BY <2>1, <2>2 DEF MaeInv
<1>2. MaeInv /\ [MaeNext]_maeVars =>
        [/\ source.status \in {"FINALIZED", "ENTRY_NOT_FILLED", "INVALID"} =>
              source'.status = source.status /\ source'.exit = source.exit
                /\ source'.reason = source.reason /\ source'.entry = source.entry
         /\ source.entry # Never => source'.entry = source.entry
         /\ (source'.status = "FINALIZED" /\ source.status # "FINALIZED") =>
              source.status = "ENTRY_FILLED"]_maeVars
  BY MaeWritesOnce
<1>3. QED BY <1>1, <1>2, MaeV2Invariance, PTL DEF MaeSpec, MaeV2Safe, WrittenOnce

-----------------------------------------------------------------------------

(* The early-MAE experiment, version 3: rows, and who may hold what.       *)
EventRow ==
    [status : {"none", "DETECTED", "ENTRY_FILLED", "FINALIZED", "AMBIGUOUS_NONFINAL"},
     eligible : Nat, entry : Nat, exit : Nat,
     why : {"none", "AMBIGUOUS_STOP_FIRST", "STOP_LOSS", "TAKE_PROFIT", "FIXED_HORIZON_TIMEOUT"},
     coverage : {"none", "PENDING", "INCOMPLETE", "COMPLETE"}, ambiguous : BOOLEAN]

CollectorRow ==
    [pc : {"asleep", "fetching", "fetched", "stored", "idle", "DETECTED", "ENTRY_FILLED"},
     bar : Nat, at : Nat]

(* The tape has every candle that is closed.                               *)
OosTyped ==
    /\ oosTime \in 0..MaxOosTime
    /\ DOMAIN ticker = {b \in Nat : BarEnd(b) <= oosTime}
    /\ signalled \subseteq SignalBars /\ signalled \subseteq DOMAIN ticker
    /\ kept \subseteq DOMAIN ticker
    /\ events \in [SignalBars -> EventRow]
    /\ collector \in [Collectors -> CollectorRow]

(* What a process holds is of the past, and of a signal.                   *)
CollectorsHonest ==
    \A c \in Collectors :
      /\ collector[c].at <= oosTime
      /\ collector[c].pc \in {"fetching", "fetched"} => collector[c].bar \in DOMAIN ticker
      /\ collector[c].pc \in {"DETECTED", "ENTRY_FILLED"} => collector[c].bar \in SignalBars

(* The exit that the tape alone decides.                                   *)
TerminalBars(e, tp) == {b \in Within(e, e + OosHold) : tp[b] \in {"stop", "target", "both"}}
ReasonOf(k) ==
    CASE k = "both" -> "AMBIGUOUS_STOP_FIRST" [] k = "stop" -> "STOP_LOSS" [] OTHER -> "TAKE_PROFIT"
TrueOutcome(e, tp, exit, why) ==
    \/ TerminalBars(e, tp) = {} /\ exit = e + OosHold /\ why = "FIXED_HORIZON_TIMEOUT"
    \/ \E b \in TerminalBars(e, tp) :
         /\ \A x \in TerminalBars(e, tp) : b <= x
         /\ exit = BarEnd(b) /\ why = ReasonOf(tp[b])

(* What each status of a row says of its columns, at a time and with the   *)
(* tape of that time.                                                      *)
RowIsSound(row, now, tp) ==
    /\ row.status = "none" => row = NoEvent
    /\ row.status \in {"none", "DETECTED"} <=> row.entry = NoTime
    /\ row.status \in {"FINALIZED", "AMBIGUOUS_NONFINAL"} <=> row.exit # NoTime
    /\ row.entry # NoTime =>
         row.entry = NextBoundary(row.eligible) /\ row.entry + 2 <= now
    /\ row.exit # NoTime =>
         row.entry + OosHold <= now /\ TrueOutcome(row.entry, tp, row.exit, row.why)
    /\ row.ambiguous => row.status = "AMBIGUOUS_NONFINAL"
    /\ row.status = "FINALIZED" => ~Collides(row.entry, [exit |-> row.exit, why |-> row.why])
RowsAreSound == \A b \in SignalBars : RowIsSound(events[b], oosTime, ticker)

OosInv == OosTyped /\ CollectorsHonest /\ SignalIsCaptured /\ RowsAreSound

LEMMA OosConstants ==
  /\ MaxOosTime \in Nat /\ OosHold \in Nat /\ NoTime \in Nat /\ NoTime = MaxOosTime + 1
  /\ MaxLag \in Nat /\ SignalBars \subseteq Nat /\ \A h \in OosHorizons : h \in Nat /\ h < OosHold
BY OosAssumption DEF NoTime

(* The candles between two times, and that all of them are on the tape     *)
(* when the second one has passed.                                         *)
LEMMA WithinFacts ==
  ASSUME NEW from \in Nat, NEW to \in Nat
  PROVE  /\ Within(from, to) \subseteq Nat
         /\ \A b \in Within(from, to) :
               b # NoTime /\ BarEnd(b) \in Nat /\ BarEnd(b) = 2 * b + 2 /\ BarEnd(b) <= to
         /\ OosTyped /\ to <= oosTime => Within(from, to) \subseteq DOMAIN ticker
         /\ \A t \in Nat : t <= to => Within(from, t) \subseteq Within(from, to)
         /\ \A b, x \in Within(from, to) : x <= b => x \in Within(from, BarEnd(b))
<1>1. \A b \in 0..(MaxOosTime \div 2) : b \in Nat /\ b # NoTime /\ BarEnd(b) = 2 * b + 2 /\ BarEnd(b) \in Nat
  BY OosConstants DEF BarEnd
<1>2. QED BY <1>1 DEF Within, OosTyped

LEMMA FirstTerminalFacts ==
  ASSUME NEW bars, bars \subseteq 0..(MaxOosTime \div 2), NEW ends,
         ends = {b \in bars : ticker[b] \in {"stop", "target", "both"}}
  PROVE  /\ ends = {} => FirstTerminal(bars) = NoTime
         /\ ends # {} => /\ FirstTerminal(bars) \in ends /\ FirstTerminal(bars) # NoTime
                         /\ \A b \in ends : FirstTerminal(bars) <= b
<1>1. FirstTerminal(bars) = IF ends = {} THEN NoTime ELSE CHOOSE b \in ends : \A x \in ends : b <= x
  BY DEF FirstTerminal
<1>2. ASSUME ends # {}
      PROVE  /\ FirstTerminal(bars) \in ends /\ FirstTerminal(bars) # NoTime
             /\ \A b \in ends : FirstTerminal(bars) <= b
  <2>0. ends \subseteq Nat
    <3>1. ends \subseteq bars
      OBVIOUS
    <3>2. bars \subseteq Nat
      OBVIOUS
    <3>3. QED BY <3>1, <3>2
  <2>1. \E b \in ends : \A x \in ends : b <= x
    BY <1>2, <2>0, HasLeast
  <2>2. FirstTerminal(bars) \in ends /\ \A b \in ends : FirstTerminal(bars) <= b
    BY <1>1, <1>2, <2>1
  <2>3. \A b \in 0..(MaxOosTime \div 2) : b # NoTime
    BY OosConstants
  <2>4. QED BY <2>2, <2>3
<1>3. QED BY <1>1, <1>2

(* evaluate_baseline over the stored candles finds nothing, or what the    *)
(* whole tape gives.                                                       *)
LEMMA BaselineIsTrue ==
  ASSUME OosTyped, NEW e \in Nat, e + OosHold <= oosTime, NEW inStore, inStore \subseteq DOMAIN ticker,
         NEW base, base = BaselineFrom(e, inStore), base.exit # NoTime
  PROVE  TrueOutcome(e, ticker, base.exit, base.why) /\ base.exit \in Nat
<1> DEFINE last == e + OosHold
           W    == Within(e, last)
           eh   == {b \in W \cap inStore : ticker[b] \in {"stop", "target", "both"}}
           bh   == FirstTerminal(W \cap inStore)
           T    == TerminalBars(e, ticker)
<1>1. last \in Nat /\ W \subseteq 0..(MaxOosTime \div 2)
  BY OosConstants DEF Within
<1>2. /\ eh = {} => bh = NoTime
      /\ eh # {} => bh \in eh /\ bh # NoTime /\ \A b \in eh : bh <= b
  BY <1>1, FirstTerminalFacts
<1>3. T = {b \in W : ticker[b] \in {"stop", "target", "both"}} /\ eh \subseteq T
  BY DEF TerminalBars
<1>4. base = IF bh # NoTime /\ NoHole(e, BarEnd(bh), inStore)
             THEN [exit |-> BarEnd(bh), why |-> ReasonOf(ticker[bh])]
             ELSE IF NoHole(e, last, inStore)
                  THEN [exit |-> last, why |-> "FIXED_HORIZON_TIMEOUT"]
                  ELSE [exit |-> NoTime, why |-> "INCOMPLETE_BASELINE_COVERAGE"]
  BY DEF BaselineFrom, ReasonOf
<1>5. /\ W \subseteq Nat
      /\ \A b \in W : BarEnd(b) \in Nat /\ BarEnd(b) <= last
      /\ \A b, x \in W : x <= b => x \in Within(e, BarEnd(b))
      /\ \A b \in W : Within(e, BarEnd(b)) \subseteq W
  BY <1>1, WithinFacts
<1> HIDE DEF last, W, eh, bh, T
<1>6. CASE bh # NoTime /\ NoHole(e, BarEnd(bh), inStore)
  <2>1. bh \in eh /\ bh \in T /\ bh \in W /\ bh \in Nat /\ \A b \in eh : bh <= b
    BY <1>2, <1>3, <1>5, <1>6 DEF eh
  <2>2. ASSUME NEW x \in T PROVE bh <= x
    <3>1. x \in W /\ x \in Nat
      BY <1>3, <1>5
    <3>2. CASE x <= bh
      <4>1. x \in inStore
        BY <1>5, <1>6, <2>1, <3>1, <3>2 DEF NoHole
      <4>2. x \in eh
        BY <1>3, <3>1, <4>1 DEF eh
      <4>3. QED BY <2>1, <4>2
    <3>3. QED BY <2>1, <3>1, <3>2
  <2>3. base.exit = BarEnd(bh) /\ base.why = ReasonOf(ticker[bh])
    BY <1>4, <1>6
  <2>4. QED BY <1>5, <2>1, <2>2, <2>3 DEF TrueOutcome, T
<1>7. CASE ~(bh # NoTime /\ NoHole(e, BarEnd(bh), inStore))
  <2>1. NoHole(e, last, inStore) /\ base.exit = last /\ base.why = "FIXED_HORIZON_TIMEOUT"
    BY <1>4, <1>7
  <2>2. W \subseteq inStore
    BY <2>1 DEF NoHole, W
  <2>3. bh = NoTime
    <3>1. ASSUME bh # NoTime PROVE FALSE
      <4>1. bh \in W
        BY <1>2, <3>1 DEF eh
      <4>2. NoHole(e, BarEnd(bh), inStore)
        BY <1>5, <2>2, <4>1 DEF NoHole
      <4>3. QED BY <1>7, <3>1, <4>2
    <3>2. QED BY <3>1
  <2>4. T = {}
    BY <1>2, <1>3, <2>2, <2>3 DEF eh
  <2>5. QED BY <1>1, <2>1, <2>4 DEF TrueOutcome, T, last
<1>8. QED BY <1>6, <1>7

LEMMA BaselineOfTape ==
  ASSUME OosTyped, NEW e \in Nat, e + OosHold <= oosTime, NEW x, NEW w,
         TrueOutcome(e, ticker, x, w)
  PROVE  BaselineFrom(e, DOMAIN ticker) = [exit |-> x, why |-> w]
<1> DEFINE last == e + OosHold
           W    == Within(e, last)
           D    == DOMAIN ticker
           T    == TerminalBars(e, ticker)
           bd   == FirstTerminal(W \cap D)
<1>1. last \in Nat /\ W \subseteq 0..(MaxOosTime \div 2)
  BY OosConstants DEF Within
<1>2. W \subseteq D /\ W \cap D = W
  BY <1>1, WithinFacts
<1>3. T = {b \in W \cap D : ticker[b] \in {"stop", "target", "both"}}
  BY <1>2 DEF TerminalBars
<1>4. /\ T = {} => bd = NoTime
      /\ T # {} => bd \in T /\ bd # NoTime /\ \A b \in T : bd <= b
  BY <1>1, <1>3, FirstTerminalFacts
<1>5. BaselineFrom(e, D) = IF bd # NoTime /\ NoHole(e, BarEnd(bd), D)
             THEN [exit |-> BarEnd(bd), why |-> ReasonOf(ticker[bd])]
             ELSE IF NoHole(e, last, D)
                  THEN [exit |-> last, why |-> "FIXED_HORIZON_TIMEOUT"]
                  ELSE [exit |-> NoTime, why |-> "INCOMPLETE_BASELINE_COVERAGE"]
  BY DEF BaselineFrom, ReasonOf
<1>6. \A b \in W : Within(e, BarEnd(b)) \subseteq W /\ b \in Nat
  BY <1>1, WithinFacts
<1>7. T \subseteq W
  BY DEF TerminalBars
<1>8. \/ T = {} /\ x = last /\ w = "FIXED_HORIZON_TIMEOUT"
      \/ \E b \in T : (\A y \in T : b <= y) /\ x = BarEnd(b) /\ w = ReasonOf(ticker[b])
  BY DEF TrueOutcome
<1> HIDE DEF last, W, D, T, bd
<1>9. CASE T = {}
  <2>1. NoHole(e, last, D) /\ bd = NoTime
    BY <1>2, <1>4, <1>9 DEF NoHole, W
  <2>2. QED BY <1>5, <1>8, <1>9, <2>1 DEF D
<1>10. CASE T # {}
  <2>1. PICK b \in T : (\A y \in T : b <= y) /\ x = BarEnd(b) /\ w = ReasonOf(ticker[b])
    BY <1>8, <1>10
  <2>2. bd \in T /\ bd # NoTime /\ bd = b
    BY <1>4, <1>6, <1>7, <1>10, <2>1
  <2>3. NoHole(e, BarEnd(bd), D)
    BY <1>2, <1>6, <1>7, <2>2 DEF NoHole
  <2>4. QED BY <1>5, <2>1, <2>2, <2>3 DEF D
<1>11. QED BY <1>9, <1>10

-----------------------------------------------------------------------------
(* What each step leaves in the row of a source.                           *)
OosRecord(st, el, en, ex, wh, co, am) ==
    [status |-> st, eligible |-> el, entry |-> en, exit |-> ex, why |-> wh, coverage |-> co,
     ambiguous |-> am]

LEMMA EventForm ==
  ASSUME NEW s \in EventRow
  PROVE  s = OosRecord(s.status, s.eligible, s.entry, s.exit, s.why, s.coverage, s.ambiguous)
BY DEF EventRow, OosRecord

LEMMA NewEventForm ==
  ASSUME NEW at
  PROVE  /\ NewEvent(at) = OosRecord("DETECTED", at, NoTime, NoTime, "none", "PENDING", FALSE)
         /\ NoEvent = OosRecord("none", NoTime, NoTime, NoTime, "none", "none", FALSE)
<1>1. PICK r : r = NoEvent
  OBVIOUS
<1>2. /\ r = [status |-> r.status, eligible |-> r.eligible, entry |-> r.entry, exit |-> r.exit,
              why |-> r.why, coverage |-> r.coverage, ambiguous |-> r.ambiguous]
      /\ r.entry = NoTime /\ r.exit = NoTime /\ r.why = "none" /\ r.ambiguous = FALSE
  BY <1>1 DEF NoEvent
<1>3. PICK n : n = [r EXCEPT !.status = "DETECTED", !.eligible = at, !.coverage = "PENDING"]
  OBVIOUS
<1>4. n = OosRecord("DETECTED", at, NoTime, NoTime, "none", "PENDING", FALSE)
  BY <1>2, <1>3 DEF OosRecord
<1>5. NewEvent(at) = n
  BY <1>1, <1>3 DEF NewEvent
<1>6. QED BY <1>4, <1>5 DEF NoEvent, OosRecord

LEMMA WrittenForms ==
  ASSUME NEW s \in EventRow, NEW e, NEW base
  PROVE  /\ Marked(s) = OosRecord(s.status, s.eligible, s.entry, s.exit, s.why, "INCOMPLETE", s.ambiguous)
         /\ Filled(s, e) = OosRecord("ENTRY_FILLED", s.eligible, e, s.exit, s.why, "PENDING", s.ambiguous)
         /\ Finalised(s, base) =
              OosRecord("FINALIZED", s.eligible, s.entry, base.exit, base.why, "COMPLETE", s.ambiguous)
         /\ Diagnostic(s, base) =
              OosRecord("AMBIGUOUS_NONFINAL", s.eligible, s.entry, base.exit, base.why, "COMPLETE", TRUE)
<1>1. s = [status |-> s.status, eligible |-> s.eligible, entry |-> s.entry, exit |-> s.exit,
           why |-> s.why, coverage |-> s.coverage, ambiguous |-> s.ambiguous]
  BY DEF EventRow
<1>2. PICK a : a = Marked(s)
  OBVIOUS
<1>3. PICK b : b = Filled(s, e)
  OBVIOUS
<1>4. PICK f : f = Finalised(s, base)
  OBVIOUS
<1>5. PICK d : d = Diagnostic(s, base)
  OBVIOUS
<1>6. a = OosRecord(s.status, s.eligible, s.entry, s.exit, s.why, "INCOMPLETE", s.ambiguous)
  BY <1>1, <1>2 DEF Marked, OosRecord
<1>7. b = OosRecord("ENTRY_FILLED", s.eligible, e, s.exit, s.why, "PENDING", s.ambiguous)
  BY <1>1, <1>3 DEF Filled, OosRecord
<1>8. f = OosRecord("FINALIZED", s.eligible, s.entry, base.exit, base.why, "COMPLETE", s.ambiguous)
  BY <1>1, <1>4 DEF Finalised, OosRecord
<1>9. d = OosRecord("AMBIGUOUS_NONFINAL", s.eligible, s.entry, base.exit, base.why, "COMPLETE", TRUE)
  BY <1>1, <1>5 DEF Diagnostic, OosRecord
<1>10. QED BY <1>2, <1>3, <1>4, <1>5, <1>6, <1>7, <1>8, <1>9

EventTo(b, r) == events' = [events EXCEPT ![b] = r]

EventCaptured(c, b) ==
    /\ b \in signalled /\ events[b] = NoEvent /\ kept' = kept \cup {b}
    /\ collector[c].at - BarEnd(b) <= MaxLag
    /\ EventTo(b, OosRecord("DETECTED", collector[c].at, NoTime, NoTime, "none", "PENDING", FALSE))
EventMarked(b) ==
    /\ events[b].status \in {"DETECTED", "ENTRY_FILLED"}
    /\ EventTo(b, OosRecord(events[b].status, events[b].eligible, events[b].entry, events[b].exit,
                            events[b].why, "INCOMPLETE", events[b].ambiguous))
EventFilled(c, b) ==
    LET e == NextBoundary(events[b].eligible) IN
    /\ events[b].status = "DETECTED" /\ ~(collector[c].at < e + 2)
    /\ EventTo(b, OosRecord("ENTRY_FILLED", events[b].eligible, e, events[b].exit, events[b].why,
                            "PENDING", events[b].ambiguous))
EventEnded(c, b, base) ==
    /\ events[b].status = "ENTRY_FILLED" /\ ~(collector[c].at < events[b].entry + OosHold)
    /\ base = BaselineFrom(events[b].entry, kept) /\ base.exit # NoTime
    /\ \/ /\ Collides(events[b].entry, base)
          /\ EventTo(b, OosRecord("AMBIGUOUS_NONFINAL", events[b].eligible, events[b].entry, base.exit,
                                  base.why, "COMPLETE", TRUE))
       \/ /\ ~Collides(events[b].entry, base)
          /\ EventTo(b, OosRecord("FINALIZED", events[b].eligible, events[b].entry, base.exit,
                                  base.why, "COMPLETE", events[b].ambiguous))

LEMMA SameEvent ==
  ASSUME OosTyped, NEW b \in SignalBars, EventTo(b, events[b]) PROVE events' = events
BY DEF OosTyped, EventTo

LEMMA EventSteps ==
  ASSUME OosTyped, CollectorsHonest, OosNext
  PROVE  \/ events' = events
         \/ \E c \in Collectors : \E b \in SignalBars :
              EventCaptured(c, b) \/ EventMarked(b) \/ EventFilled(c, b) \/ \E base : EventEnded(c, b, base)
<1>1. ASSUME NEW c \in Collectors, StoreLatest(c)
      PROVE  events' = events \/ \E b \in SignalBars : EventCaptured(c, b)
  <2> DEFINE b == collector[c].bar
  <2>1. CASE ~(b \in signalled /\ events[b] = NoEvent)
    BY <1>1, <2>1 DEF StoreLatest
  <2>2. CASE b \in signalled /\ events[b] = NoEvent
    <3>1. \/ events' = events
          \/ /\ kept' = kept \cup {b} /\ collector[c].at - BarEnd(b) <= MaxLag
             /\ events' = [events EXCEPT ![b] = NewEvent(collector[c].at)]
      BY <1>1, <2>2 DEF StoreLatest, CandleKept
    <3>2. b \in SignalBars
      BY <2>2 DEF OosTyped
    <3> HIDE DEF b
    <3>3. QED BY <2>2, <3>1, <3>2, NewEventForm DEF EventCaptured, EventTo
  <2>3. QED BY <2>1, <2>2
<1>2. ASSUME NEW c \in Collectors, AttemptEntry(c)
      PROVE  events' = events \/ \E b \in SignalBars : EventMarked(b) \/ EventFilled(c, b)
  <2> DEFINE b == collector[c].bar
             e == NextBoundary(events[b].eligible)
  <2>1. b \in SignalBars /\ events[b] \in EventRow
    BY <1>2 DEF AttemptEntry, CollectorsHonest, OosTyped
  <2>2. events' = [events EXCEPT ![b] =
            IF collector[c].at < e + 2 \/ events[b].status # "DETECTED" THEN events[b]
            ELSE IF e \div 2 \in kept THEN Filled(events[b], e) ELSE Marked(events[b])]
    BY <1>2 DEF AttemptEntry
  <2> HIDE DEF b, e
  <2>3. CASE collector[c].at < e + 2 \/ events[b].status # "DETECTED"
    BY <2>1, <2>2, <2>3, SameEvent DEF EventTo
  <2>4. CASE ~(collector[c].at < e + 2) /\ events[b].status = "DETECTED" /\ e \div 2 \in kept
    <3>1. EventTo(b, Filled(events[b], e))
      BY <2>2, <2>4 DEF EventTo
    <3>2. QED BY <2>1, <2>4, <3>1, WrittenForms DEF EventFilled, e
  <2>5. CASE ~(collector[c].at < e + 2) /\ events[b].status = "DETECTED" /\ e \div 2 \notin kept
    <3>1. EventTo(b, Marked(events[b]))
      BY <2>2, <2>5 DEF EventTo
    <3>2. QED BY <2>1, <2>5, <3>1, WrittenForms DEF EventMarked
  <2>6. QED BY <2>3, <2>4, <2>5
<1>3. ASSUME NEW c \in Collectors, AttemptBaseline(c)
      PROVE  events' = events \/ \E b \in SignalBars : EventMarked(b) \/ \E base : EventEnded(c, b, base)
  <2> DEFINE b == collector[c].bar
             e == events[b].entry
  <2>0. PICK base : base = BaselineFrom(e, kept)
    OBVIOUS
  <2>1. b \in SignalBars /\ events[b] \in EventRow
    BY <1>3 DEF AttemptBaseline, CollectorsHonest, OosTyped
  <2>2. events' = [events EXCEPT ![b] =
            IF collector[c].at < e + OosHold \/ events[b].status # "ENTRY_FILLED" THEN events[b]
            ELSE IF base.exit = NoTime THEN Marked(events[b])
            ELSE IF Collides(e, base) THEN Diagnostic(events[b], base) ELSE Finalised(events[b], base)]
    BY <1>3, <2>0 DEF AttemptBaseline
  <2> HIDE DEF b
  <2>3. CASE collector[c].at < e + OosHold \/ events[b].status # "ENTRY_FILLED"
    BY <2>1, <2>2, <2>3, SameEvent DEF EventTo
  <2>4. CASE ~(collector[c].at < e + OosHold \/ events[b].status # "ENTRY_FILLED") /\ base.exit = NoTime
    <3>1. EventTo(b, Marked(events[b]))
      BY <2>2, <2>4 DEF EventTo
    <3>2. QED BY <2>1, <2>4, <3>1, WrittenForms DEF EventMarked
  <2>5. CASE /\ ~(collector[c].at < e + OosHold \/ events[b].status # "ENTRY_FILLED")
             /\ base.exit # NoTime /\ Collides(e, base)
    <3>1. EventTo(b, Diagnostic(events[b], base))
      BY <2>2, <2>5 DEF EventTo
    <3>2. EventEnded(c, b, base)
      BY <2>0, <2>1, <2>5, <3>1, WrittenForms DEF EventEnded
    <3>3. QED BY <2>1, <3>2
  <2>6. CASE /\ ~(collector[c].at < e + OosHold \/ events[b].status # "ENTRY_FILLED")
             /\ base.exit # NoTime /\ ~Collides(e, base)
    <3>1. EventTo(b, Finalised(events[b], base))
      BY <2>2, <2>6 DEF EventTo
    <3>2. EventEnded(c, b, base)
      BY <2>0, <2>1, <2>6, <3>1, WrittenForms DEF EventEnded
    <3>3. QED BY <2>1, <3>2
  <2>7. QED BY <2>3, <2>4, <2>5, <2>6
<1>4. \/ events' = events
      \/ \E c \in Collectors : StoreLatest(c) \/ AttemptEntry(c) \/ AttemptBaseline(c)
  BY DEF OosNext, OosTick, FetchContext, CompleteFetch, SkipSymbol, BeginCollect, LoadSource, EndOnce
<1>5. QED BY <1>1, <1>2, <1>3, <1>4

-----------------------------------------------------------------------------
(* The tape only grows, and a closed window of it never changes.           *)
LEMMA TapeGrows ==
  ASSUME OosTyped, OosNext
  PROVE  /\ oosTime' \in 0..MaxOosTime /\ oosTime <= oosTime'
         /\ DOMAIN ticker' = {b \in Nat : BarEnd(b) <= oosTime'}
         /\ \A b \in DOMAIN ticker : b \in DOMAIN ticker' /\ ticker'[b] = ticker[b]
         /\ signalled' \subseteq SignalBars /\ signalled' \subseteq DOMAIN ticker'
         /\ signalled' \cap DOMAIN ticker \subseteq signalled
<1>0. oosTime \in Nat /\ oosTime \in 0..MaxOosTime /\ DOMAIN ticker = {b \in Nat : BarEnd(b) <= oosTime}
      /\ signalled \subseteq SignalBars /\ signalled \subseteq DOMAIN ticker
  BY OosConstants DEF OosTyped
<1>1. CASE OosTick
  <2> DEFINE nb == oosTime' \div 2 - 1
  <2>1. oosTime' = oosTime + 1 /\ oosTime' \in 0..MaxOosTime
    BY <1>0, <1>1, OosConstants DEF OosTick
  <2>2. CASE oosTime' % 2 = 0
    <3>1. nb \in Nat /\ 2 * nb + 2 = oosTime' /\ BarEnd(nb) = oosTime'
      <4>1. nb \in Nat /\ 2 * nb + 2 = oosTime'
        BY <1>0, <2>1, <2>2
      <4>2. QED BY <4>1 DEF BarEnd
    <3>2. DOMAIN ticker' = DOMAIN ticker \cup {nb} /\ \A b \in DOMAIN ticker : ticker'[b] = ticker[b]
      BY <1>1, <2>2 DEF OosTick
    <3>3. signalled' \in {signalled, signalled \cup ({nb} \cap SignalBars)}
      BY <1>1, <2>2 DEF OosTick
    <3> HIDE DEF nb
    <3>4. {b \in Nat : BarEnd(b) <= oosTime'} = {b \in Nat : BarEnd(b) <= oosTime} \cup {nb}
      <4>1. ASSUME NEW b \in Nat PROVE BarEnd(b) <= oosTime' <=> BarEnd(b) <= oosTime \/ b = nb
        BY <1>0, <2>1, <3>1 DEF BarEnd
      <4>2. QED BY <3>1, <4>1
    <3>5. nb \notin DOMAIN ticker
      BY <1>0, <2>1, <3>1
    <3>6. QED BY <1>0, <2>1, <3>2, <3>3, <3>4, <3>5
  <2>3. CASE oosTime' % 2 # 0
    <3>1. ticker' = ticker /\ signalled' = signalled
      BY <1>1, <2>3 DEF OosTick
    <3>2. ASSUME NEW b \in Nat PROVE BarEnd(b) <= oosTime' <=> BarEnd(b) <= oosTime
      <4>1. 2 * b + 2 # oosTime + 1
        BY <1>0, <2>1, <2>3
      <4>2. QED BY <1>0, <2>1, <4>1 DEF BarEnd
    <3>3. {b \in Nat : BarEnd(b) <= oosTime'} = {b \in Nat : BarEnd(b) <= oosTime}
      BY <3>2
    <3>4. QED BY <1>0, <2>1, <3>1, <3>3
  <2>4. QED BY <2>2, <2>3
<1>2. CASE ~OosTick
  <2>1. UNCHANGED <<oosTime, ticker, signalled>>
    BY <1>2 DEF OosNext, FetchContext, CompleteFetch, StoreLatest, SkipSymbol, BeginCollect,
                LoadSource, AttemptEntry, AttemptBaseline, EndOnce
  <2>2. QED BY <1>0, <2>1
<1>3. QED BY <1>1, <1>2

LEMMA RowLater ==
  ASSUME OosTyped, OosNext, NEW s \in EventRow, RowIsSound(s, oosTime, ticker)
  PROVE  RowIsSound(s, oosTime', ticker')
<1>0. oosTime \in Nat /\ oosTime' \in Nat /\ oosTime <= oosTime' /\ s.entry \in Nat /\ OosHold \in Nat
  BY TapeGrows, OosConstants DEF OosTyped, EventRow
<1>1. ASSUME s.exit # NoTime
      PROVE  s.entry + OosHold <= oosTime' /\ TrueOutcome(s.entry, ticker', s.exit, s.why)
  <2>1. s.entry + OosHold <= oosTime /\ TrueOutcome(s.entry, ticker, s.exit, s.why)
    BY <1>1 DEF RowIsSound
  <2>2. Within(s.entry, s.entry + OosHold) \subseteq DOMAIN ticker
    BY <1>0, <2>1, WithinFacts
  <2>3. \A b \in Within(s.entry, s.entry + OosHold) : ticker'[b] = ticker[b]
    BY <2>2, TapeGrows
  <2>4. TerminalBars(s.entry, ticker') = TerminalBars(s.entry, ticker)
    BY <2>3 DEF TerminalBars
  <2>5. \A b \in TerminalBars(s.entry, ticker) : ticker'[b] = ticker[b]
    BY <2>3 DEF TerminalBars
  <2>6. TrueOutcome(s.entry, ticker', s.exit, s.why)
    BY <2>1, <2>4, <2>5 DEF TrueOutcome
  <2>7. QED BY <1>0, <2>1, <2>6
<1>2. s.entry # NoTime => s.entry = NextBoundary(s.eligible) /\ s.entry + 2 <= oosTime'
  BY <1>0 DEF RowIsSound
<1>3. QED BY <1>1, <1>2 DEF RowIsSound

(* The row of one source after a step: a sound row, of the right type,     *)
(* which keeps what was settled.                                           *)
Settled(old, new) ==
    /\ old.status \in {"FINALIZED", "AMBIGUOUS_NONFINAL"} => new = old
    /\ old.entry # NoTime => new.entry = old.entry
    /\ old.status # "none" => new.status # "none" /\ new.eligible = old.eligible

LEMMA OosRecordIs ==
  ASSUME NEW st, NEW el, NEW en, NEW ex, NEW wh, NEW co, NEW am
  PROVE  LET r == OosRecord(st, el, en, ex, wh, co, am) IN
         /\ r.status = st /\ r.eligible = el /\ r.entry = en /\ r.exit = ex /\ r.why = wh
         /\ r.coverage = co /\ r.ambiguous = am
         /\ /\ st \in {"none", "DETECTED", "ENTRY_FILLED", "FINALIZED", "AMBIGUOUS_NONFINAL"}
            /\ el \in Nat /\ en \in Nat /\ ex \in Nat /\ am \in BOOLEAN
            /\ wh \in {"none", "AMBIGUOUS_STOP_FIRST", "STOP_LOSS", "TAKE_PROFIT", "FIXED_HORIZON_TIMEOUT"}
            /\ co \in {"none", "PENDING", "INCOMPLETE", "COMPLETE"}
            => r \in EventRow
BY DEF OosRecord, EventRow

LEMMA RowAfter ==
  ASSUME OosTyped, CollectorsHonest, RowsAreSound, OosNext, NEW b \in SignalBars
  PROVE  /\ events'[b] \in EventRow /\ RowIsSound(events'[b], oosTime, ticker)
         /\ Settled(events[b], events'[b])
<1> DEFINE row == events[b]
           Good(r) == r \in EventRow /\ RowIsSound(r, oosTime, ticker) /\ Settled(row, r)
<1>0. /\ row \in EventRow /\ RowIsSound(row, oosTime, ticker) /\ b \in DOMAIN events
      /\ oosTime \in Nat /\ oosTime <= MaxOosTime /\ kept \subseteq DOMAIN ticker
      /\ \A c \in Collectors : collector[c].at \in Nat /\ collector[c].at <= oosTime
  BY OosConstants DEF OosTyped, RowsAreSound, CollectorRow, CollectorsHonest
<1>1. /\ row.status \in {"none", "DETECTED", "ENTRY_FILLED", "FINALIZED", "AMBIGUOUS_NONFINAL"}
      /\ row.eligible \in Nat /\ row.entry \in Nat /\ row.exit \in Nat /\ row.ambiguous \in BOOLEAN
      /\ row.why \in {"none", "AMBIGUOUS_STOP_FIRST", "STOP_LOSS", "TAKE_PROFIT", "FIXED_HORIZON_TIMEOUT"}
      /\ row.coverage \in {"none", "PENDING", "INCOMPLETE", "COMPLETE"}
  BY <1>0 DEF EventRow
<1> HIDE DEF row
<1>2. CASE events'[b] = row
  BY <1>0, <1>2 DEF Settled, row
<1>3. ASSUME NEW c \in Collectors, EventCaptured(c, b) PROVE Good(events'[b])
  <2> DEFINE r == OosRecord("DETECTED", collector[c].at, NoTime, NoTime, "none", "PENDING", FALSE)
  <2>1. events'[b] = r /\ row = NoEvent
    BY <1>0, <1>3 DEF EventCaptured, EventTo, row
  <2>2. /\ r.status = "DETECTED" /\ r.eligible = collector[c].at /\ r.entry = NoTime /\ r.exit = NoTime
        /\ ~r.ambiguous /\ r \in EventRow
    BY <1>0, OosConstants DEF OosRecord, EventRow
  <2>3. row.status = "none" /\ row.entry = NoTime
    BY <2>1 DEF NoEvent
  <2> HIDE DEF r
  <2>4. RowIsSound(r, oosTime, ticker)
    BY <2>2 DEF RowIsSound
  <2>5. Settled(row, r)
    BY <2>3 DEF Settled
  <2>6. QED BY <2>1, <2>2, <2>4, <2>5
<1>4. CASE EventMarked(b)
  <2> DEFINE r == OosRecord(row.status, row.eligible, row.entry, row.exit, row.why, "INCOMPLETE",
                            row.ambiguous)
  <2>1. events'[b] = r /\ row.status \in {"DETECTED", "ENTRY_FILLED"}
    BY <1>0, <1>4 DEF EventMarked, EventTo, row
  <2>2. /\ r.status = row.status /\ r.eligible = row.eligible /\ r.entry = row.entry
        /\ r.exit = row.exit /\ r.why = row.why /\ r.ambiguous = row.ambiguous /\ r \in EventRow
    BY <1>1, OosRecordIs
  <2> HIDE DEF r
  <2>3. RowIsSound(r, oosTime, ticker)
    BY <1>0, <2>1, <2>2 DEF RowIsSound
  <2>4. Settled(row, r)
    BY <2>1, <2>2 DEF Settled
  <2>5. QED BY <2>1, <2>2, <2>3, <2>4 DEF row
<1>5. ASSUME NEW c \in Collectors, EventFilled(c, b) PROVE Good(events'[b])
  <2> DEFINE e == NextBoundary(row.eligible)
             r == OosRecord("ENTRY_FILLED", row.eligible, e, row.exit, row.why, "PENDING", row.ambiguous)
  <2>1. events'[b] = r /\ row.status = "DETECTED" /\ ~(collector[c].at < e + 2)
    BY <1>0, <1>5 DEF EventFilled, EventTo, row
  <2>2. e \in Nat
    BY <1>1 DEF NextBoundary
  <2>3. /\ r.status = "ENTRY_FILLED" /\ r.eligible = row.eligible /\ r.entry = e
        /\ r.exit = row.exit /\ r.why = row.why /\ r.ambiguous = row.ambiguous /\ r \in EventRow
    BY <1>1, <2>2, OosRecordIs
  <2>4. row.entry = NoTime /\ row.exit = NoTime /\ ~row.ambiguous
    BY <1>0, <1>1, <2>1 DEF RowIsSound
  <2>5. e + 2 <= oosTime /\ e # NoTime
    BY <1>0, <2>1, <2>2, OosConstants
  <2> HIDE DEF r
  <2>6. RowIsSound(r, oosTime, ticker)
    <3> HIDE DEF e
    <3>1. r.entry = NextBoundary(r.eligible)
      BY <2>3 DEF e
    <3>2. QED BY <2>3, <2>4, <2>5, <3>1 DEF RowIsSound
  <2>7. Settled(row, r)
    BY <2>1, <2>3, <2>4 DEF Settled
  <2>8. QED BY <2>1, <2>3, <2>6, <2>7
<1>6. ASSUME NEW c \in Collectors, NEW base, EventEnded(c, b, base) PROVE Good(events'[b])
  <2>1. /\ row.status = "ENTRY_FILLED" /\ ~(collector[c].at < row.entry + OosHold)
        /\ base = BaselineFrom(row.entry, kept) /\ base.exit # NoTime
    BY <1>6 DEF EventEnded, row
  <2>2. row.entry + OosHold <= oosTime
    BY <1>0, <1>1, <2>1, OosConstants
  <2>3. TrueOutcome(row.entry, ticker, base.exit, base.why) /\ base.exit \in Nat
    BY <1>0, <1>1, <2>1, <2>2, BaselineIsTrue
  <2>4. base.why \in {"none", "AMBIGUOUS_STOP_FIRST", "STOP_LOSS", "TAKE_PROFIT", "FIXED_HORIZON_TIMEOUT"}
    BY <2>3 DEF TrueOutcome, ReasonOf
  <2>5. row.entry # NoTime /\ ~row.ambiguous /\ row.entry = NextBoundary(row.eligible)
        /\ row.entry + 2 <= oosTime
    BY <1>0, <2>1 DEF RowIsSound
  <2>6. CASE Collides(row.entry, base)
    <3> DEFINE r == OosRecord("AMBIGUOUS_NONFINAL", row.eligible, row.entry, base.exit, base.why,
                              "COMPLETE", TRUE)
    <3>1. events'[b] = r
      BY <1>0, <1>6, <2>6 DEF EventEnded, EventTo, row
    <3>2. /\ r.status = "AMBIGUOUS_NONFINAL" /\ r.eligible = row.eligible /\ r.entry = row.entry
          /\ r.exit = base.exit /\ r.why = base.why /\ r \in EventRow
      BY <1>1, <2>3, <2>4 DEF OosRecord, EventRow
    <3> HIDE DEF r
    <3>3. RowIsSound(r, oosTime, ticker)
      BY <2>1, <2>2, <2>3, <2>5, <3>2 DEF RowIsSound
    <3>4. Settled(row, r)
      BY <2>1, <3>2 DEF Settled
    <3>5. QED BY <3>1, <3>2, <3>3, <3>4
  <2>7. CASE ~Collides(row.entry, base)
    <3> DEFINE r == OosRecord("FINALIZED", row.eligible, row.entry, base.exit, base.why,
                              "COMPLETE", row.ambiguous)
    <3>1. events'[b] = r
      BY <1>0, <1>6, <2>7 DEF EventEnded, EventTo, row
    <3>2. /\ r.status = "FINALIZED" /\ r.eligible = row.eligible /\ r.entry = row.entry
          /\ r.exit = base.exit /\ r.why = base.why /\ r.ambiguous = row.ambiguous /\ r \in EventRow
      BY <1>1, <2>3, <2>4, OosRecordIs
    <3> HIDE DEF r
    <3>3. ~Collides(r.entry, [exit |-> r.exit, why |-> r.why])
      BY <2>7, <3>2 DEF Collides
    <3>4. RowIsSound(r, oosTime, ticker)
      BY <2>1, <2>2, <2>3, <2>5, <3>2, <3>3 DEF RowIsSound
    <3>5. Settled(row, r)
      BY <2>1, <3>2 DEF Settled
    <3>6. QED BY <3>1, <3>2, <3>4, <3>5
  <2>8. QED BY <2>6, <2>7
<1>7. \/ events'[b] = row
      \/ \E c \in Collectors :
           EventCaptured(c, b) \/ EventMarked(b) \/ EventFilled(c, b) \/ \E base : EventEnded(c, b, base)
  <2>1. ASSUME NEW x \in SignalBars, NEW r, x # b, EventTo(x, r) PROVE events'[b] = events[b]
    BY <1>0, <2>1 DEF EventTo
  <2>2. ASSUME NEW c \in Collectors, NEW x \in SignalBars, NEW base, x # b,
               EventCaptured(c, x) \/ EventMarked(x) \/ EventFilled(c, x) \/ EventEnded(c, x, base)
        PROVE  events'[b] = events[b]
    BY <2>1, <2>2 DEF EventCaptured, EventMarked, EventFilled, EventEnded
  <2>3. QED BY <2>2, EventSteps DEF row
<1>8. QED BY <1>2, <1>3, <1>4, <1>5, <1>6, <1>7 DEF row

LEMMA EventsTyped ==
  ASSUME OosTyped, CollectorsHonest, RowsAreSound, OosNext
  PROVE  events' \in [SignalBars -> EventRow] /\ RowsAreSound'
<1>1. events' = [b \in SignalBars |-> events'[b]]
  BY EventSteps DEF OosTyped, EventCaptured, EventMarked, EventFilled, EventEnded, EventTo
<1>2. \A b \in SignalBars : events'[b] \in EventRow /\ RowIsSound(events'[b], oosTime, ticker)
  BY RowAfter
<1>3. \A b \in SignalBars : RowIsSound(events'[b], oosTime', ticker')
  BY <1>2, RowLater
<1>4. RowsAreSound'
  BY <1>3 DEF RowsAreSound
<1>5. QED BY <1>1, <1>2, <1>4

(* What the store of candles gains.                                        *)
LEMMA KeptGrows ==
  ASSUME OosTyped, CollectorsHonest, OosNext
  PROVE  \/ kept' = kept
         \/ \E b \in DOMAIN ticker :
              /\ kept' = kept \cup {b} /\ signalled' = signalled
              /\ b \in signalled /\ events[b] = NoEvent => events'[b].status # "none"
<1>1. ASSUME NEW c \in Collectors, StoreLatest(c)
      PROVE  \/ kept' = kept
             \/ \E b \in DOMAIN ticker :
                  /\ kept' = kept \cup {b} /\ signalled' = signalled
                  /\ b \in signalled /\ events[b] = NoEvent => events'[b].status # "none"
  <2> DEFINE b == collector[c].bar
  <2>1. b \in DOMAIN ticker /\ signalled' = signalled
    BY <1>1 DEF StoreLatest, CollectorsHonest
  <2>2. \/ kept' = kept
        \/ /\ kept' = kept \cup {b}
           /\ b \in signalled /\ events[b] = NoEvent =>
                events' = [events EXCEPT ![b] = NewEvent(collector[c].at)]
    BY <1>1 DEF StoreLatest, CandleKept
  <2> HIDE DEF b
  <2>3. ASSUME b \in signalled, events' = [events EXCEPT ![b] = NewEvent(collector[c].at)]
        PROVE  events'[b].status # "none"
    <3>1. b \in DOMAIN events
      BY <2>3 DEF OosTyped
    <3>2. events'[b] = NewEvent(collector[c].at)
      BY <2>3, <3>1
    <3>3. QED BY <3>2, NewEventForm DEF OosRecord
  <2>4. QED BY <2>1, <2>2, <2>3
<1>2. kept' = kept \/ \E c \in Collectors : StoreLatest(c)
  BY DEF OosNext, OosTick, FetchContext, CompleteFetch, SkipSymbol, BeginCollect, LoadSource,
         AttemptEntry, AttemptBaseline, EndOnce
<1>3. QED BY <1>1, <1>2

LEMMA SignalStep ==
  ASSUME OosTyped, CollectorsHonest, RowsAreSound, SignalIsCaptured, OosNext
  PROVE  SignalIsCaptured'
<1> SUFFICES ASSUME NEW b \in SignalBars
             PROVE  /\ b \in kept' \cap signalled' => events'[b].status # "none"
                    /\ events'[b].status # "none" => b \in kept' /\ events'[b].eligible <= BarEnd(b) + MaxLag
  BY DEF SignalIsCaptured, BarEnd
<1>0. /\ b \in Nat /\ BarEnd(b) \in Nat /\ kept \subseteq DOMAIN ticker
      /\ b \in kept \cap signalled => events[b].status # "none"
      /\ events[b].status # "none" => b \in kept /\ events[b].eligible <= BarEnd(b) + MaxLag
  BY OosConstants DEF SignalIsCaptured, OosTyped, BarEnd
<1>1. Settled(events[b], events'[b])
  BY RowAfter
<1>2. kept \subseteq kept'
  BY KeptGrows
<1>3. ASSUME b \in kept', b \in signalled' PROVE events'[b].status # "none"
  <2>1. CASE b \in kept
    <3>1. b \in signalled
      BY <1>0, <1>3, <2>1, TapeGrows
    <3>2. QED BY <1>0, <1>1, <2>1, <3>1 DEF Settled
  <2>2. CASE b \notin kept
    <3>1. signalled' = signalled /\ (b \in signalled /\ events[b] = NoEvent => events'[b].status # "none")
      BY <1>3, <2>2, KeptGrows
    <3>2. events[b] = NoEvent
      BY <1>0, <2>2 DEF RowsAreSound, RowIsSound
    <3>3. QED BY <1>3, <3>1, <3>2
  <2>3. QED BY <2>1, <2>2
<1>4. ASSUME events'[b].status # "none"
      PROVE  b \in kept' /\ events'[b].eligible <= BarEnd(b) + MaxLag
  <2>1. CASE events[b].status # "none"
    BY <1>0, <1>1, <1>2, <2>1 DEF Settled
  <2>2. CASE events[b].status = "none"
    <3>1. PICK c \in Collectors : EventCaptured(c, b)
      <4>1. b \in DOMAIN events
        BY DEF OosTyped
      <4>2. ASSUME NEW x \in SignalBars, NEW r, x # b, EventTo(x, r) PROVE events'[b] = events[b]
        BY <4>1, <4>2 DEF EventTo
      <4>3. ASSUME NEW c \in Collectors, NEW x \in SignalBars, NEW base, x # b,
                   EventCaptured(c, x) \/ EventMarked(x) \/ EventFilled(c, x) \/ EventEnded(c, x, base)
            PROVE  events'[b] = events[b]
        BY <4>2, <4>3 DEF EventCaptured, EventMarked, EventFilled, EventEnded
      <4>4. \E c \in Collectors :
              EventCaptured(c, b) \/ EventMarked(b) \/ EventFilled(c, b) \/ \E base : EventEnded(c, b, base)
        BY <1>4, <2>2, <4>3, EventSteps
      <4>5. QED BY <2>2, <4>4 DEF EventMarked, EventFilled, EventEnded
    <3>2. collector[c].at \in Nat /\ collector[c].at - BarEnd(b) <= MaxLag /\ kept' = kept \cup {b}
      BY <3>1 DEF EventCaptured, OosTyped, CollectorRow
    <3>3. events'[b].eligible = collector[c].at
      BY <3>1 DEF EventCaptured, EventTo, OosTyped, OosRecord
    <3>4. QED BY <1>0, <3>2, <3>3, OosConstants
  <2>3. QED BY <2>1, <2>2
<1>5. QED BY <1>3, <1>4

(* What a step leaves with a process.                                      *)
CollectorFine(r) ==
    /\ r \in CollectorRow /\ r.at <= oosTime
    /\ r.pc \in {"fetching", "fetched"} => r.bar \in DOMAIN ticker
    /\ r.pc \in {"DETECTED", "ENTRY_FILLED"} => r.bar \in SignalBars
CollectorTo(c, r) == collector' = [collector EXCEPT ![c] = r]

LEMMA LatestBar ==
  ASSUME OosTyped, DOMAIN ticker # {}
  PROVE  (CHOOSE b \in DOMAIN ticker : \A x \in DOMAIN ticker : x <= b) \in DOMAIN ticker
<1>1. oosTime \in Nat /\ DOMAIN ticker = {b \in Nat : 2 * b + 2 <= oosTime}
  BY OosConstants DEF OosTyped, BarEnd
<1>2. PICK y \in DOMAIN ticker : y \in Nat /\ 2 * y + 2 <= oosTime
  BY <1>1
<1>3. PICK m : m = oosTime \div 2 - 1
  OBVIOUS
<1>4. m \in Nat /\ 2 * m + 2 <= oosTime
  BY <1>1, <1>2, <1>3
<1>5. \A x \in Nat : 2 * x + 2 <= oosTime => x <= m
  BY <1>1, <1>3
<1>6. QED BY <1>1, <1>4, <1>5

LEMMA ChangedBar ==
  ASSUME NEW c \in Collectors, collector \in [Collectors -> CollectorRow], NEW p, NEW t, NEW f,
         f = [collector EXCEPT ![c].pc = p, ![c].bar = t]
  PROVE  f = [collector EXCEPT ![c] = [pc |-> p, bar |-> t, at |-> collector[c].at]]
<1>1. PICK row : row = collector[c]
  OBVIOUS
<1>2. row = [pc |-> row.pc, bar |-> row.bar, at |-> row.at] /\ c \in DOMAIN collector
  BY <1>1 DEF CollectorRow
<1>3. PICK g : g = [collector EXCEPT ![c].pc = p]
  OBVIOUS
<1>4. PICK s : s = [row EXCEPT !.pc = p]
  OBVIOUS
<1>5. s = [pc |-> p, bar |-> row.bar, at |-> row.at]
  BY <1>2, <1>4
<1>6. g = [collector EXCEPT ![c] = s]
  BY <1>1, <1>3, <1>4
<1>7. PICK u : u = [s EXCEPT !.bar = t]
  OBVIOUS
<1>8. u = [pc |-> p, bar |-> t, at |-> row.at]
  BY <1>5, <1>7
<1>9. f = [g EXCEPT ![c].bar = t]
  BY <1>3
<1>10. f = [collector EXCEPT ![c] = u]
  BY <1>2, <1>6, <1>7, <1>9
<1>11. QED BY <1>1, <1>8, <1>10

LEMMA CollectorSteps ==
  ASSUME OosTyped, CollectorsHonest, OosNext
  PROVE  \/ collector' = collector
         \/ \E c \in Collectors : \E r : CollectorFine(r) /\ CollectorTo(c, r)
<1>0. oosTime \in Nat /\ DOMAIN ticker \subseteq Nat /\ SignalBars \subseteq Nat
      /\ collector \in [Collectors -> CollectorRow]
  BY OosConstants DEF OosTyped
<1>1. ASSUME NEW c \in Collectors
      PROVE  /\ collector[c] = [pc |-> collector[c].pc, bar |-> collector[c].bar, at |-> collector[c].at]
             /\ c \in DOMAIN collector /\ collector[c].bar \in Nat /\ collector[c].at \in Nat
             /\ collector[c].at <= oosTime
             /\ collector[c].pc \in {"fetching", "fetched"} => collector[c].bar \in DOMAIN ticker
  BY DEF OosTyped, CollectorsHonest, CollectorRow
<1>2. Asleep = [pc |-> "asleep", bar |-> 0, at |-> 0]
      /\ [Asleep EXCEPT !.pc = "stored"] = [pc |-> "stored", bar |-> 0, at |-> 0]
  <2>1. PICK r : r = Asleep
    OBVIOUS
  <2>2. r = [pc |-> r.pc, bar |-> r.bar, at |-> r.at] /\ r.bar = 0 /\ r.at = 0
    BY <2>1 DEF Asleep
  <2>3. PICK s : s = [r EXCEPT !.pc = "stored"]
    OBVIOUS
  <2>4. s = [pc |-> "stored", bar |-> 0, at |-> 0]
    BY <2>2, <2>3
  <2>5. QED BY <2>1, <2>3, <2>4 DEF Asleep
<1>3. ASSUME NEW c \in Collectors, FetchContext(c) PROVE \E r : CollectorFine(r) /\ CollectorTo(c, r)
  <2>1. PICK b : b = CHOOSE y \in DOMAIN ticker : \A x \in DOMAIN ticker : x <= y
    OBVIOUS
  <2>2. b \in DOMAIN ticker
    BY <1>3, <2>1, LatestBar DEF FetchContext
  <2>3. CollectorTo(c, [pc |-> "fetching", at |-> 0, bar |-> b])
    BY <1>3, <2>1 DEF FetchContext, CollectorTo
  <2>4. CollectorFine([pc |-> "fetching", at |-> 0, bar |-> b])
    BY <1>0, <2>2 DEF CollectorFine, CollectorRow
  <2>5. QED BY <2>3, <2>4
<1>4. ASSUME NEW c \in Collectors, CompleteFetch(c) PROVE \E r : CollectorFine(r) /\ CollectorTo(c, r)
  <2> DEFINE r == [pc |-> "fetched", bar |-> collector[c].bar, at |-> oosTime]
  <2>0. /\ collector[c].pc = "fetching" /\ c \in Collectors
        /\ collector' = [collector EXCEPT ![c].pc = "fetched", ![c].at = oosTime]
    BY <1>4 DEF CompleteFetch
  <2>1. CollectorTo(c, r)
    <3>1. PICK row : row = collector[c]
      OBVIOUS
    <3>2. row = [pc |-> row.pc, bar |-> row.bar, at |-> row.at] /\ c \in DOMAIN collector
      BY <1>1, <3>1
    <3>3. PICK g : g = [collector EXCEPT ![c].pc = "fetched"]
      OBVIOUS
    <3>4. PICK s : s = [row EXCEPT !.pc = "fetched"]
      OBVIOUS
    <3>5. s = [pc |-> "fetched", bar |-> row.bar, at |-> row.at]
      BY <3>2, <3>4
    <3>6. g = [collector EXCEPT ![c] = s]
      BY <3>1, <3>3, <3>4
    <3>7. PICK u : u = [s EXCEPT !.at = oosTime]
      OBVIOUS
    <3>8. u = [pc |-> "fetched", bar |-> row.bar, at |-> oosTime]
      BY <3>5, <3>7
    <3>9. collector' = [g EXCEPT ![c].at = oosTime]
      BY <2>0, <3>3
    <3>10. collector' = [collector EXCEPT ![c] = u]
      BY <3>2, <3>6, <3>7, <3>9
    <3>11. QED BY <3>1, <3>8, <3>10 DEF CollectorTo
  <2>2. CollectorFine(r)
    <3>1. collector[c].bar \in DOMAIN ticker /\ collector[c].bar \in Nat
      BY <1>1, <2>0
    <3>2. PICK k : k = collector[c].bar
      OBVIOUS
    <3>3. CollectorFine([pc |-> "fetched", bar |-> k, at |-> oosTime])
      BY <1>0, <3>1, <3>2 DEF CollectorFine, CollectorRow
    <3>4. QED BY <3>2, <3>3
  <2>3. QED BY <2>1, <2>2
<1>5. ASSUME NEW c \in Collectors, StoreLatest(c) \/ SkipSymbol(c) \/ EndOnce(c) \/ BeginCollect(c)
      PROVE  \E r : CollectorFine(r) /\ CollectorTo(c, r)
  <2>1. \/ CollectorTo(c, [pc |-> "stored", bar |-> 0, at |-> 0])
        \/ CollectorTo(c, [pc |-> "asleep", bar |-> 0, at |-> 0])
        \/ CollectorTo(c, [pc |-> "idle", bar |-> 0, at |-> oosTime])
    BY <1>2, <1>5 DEF StoreLatest, SkipSymbol, EndOnce, BeginCollect, CollectorTo
  <2>2. /\ CollectorFine([pc |-> "stored", bar |-> 0, at |-> 0])
        /\ CollectorFine([pc |-> "asleep", bar |-> 0, at |-> 0])
        /\ CollectorFine([pc |-> "idle", bar |-> 0, at |-> oosTime])
    BY <1>0 DEF CollectorFine, CollectorRow
  <2>3. QED BY <2>1, <2>2
<1>6. ASSUME NEW c \in Collectors, LoadSource(c) PROVE \E r : CollectorFine(r) /\ CollectorTo(c, r)
  <2>1. PICK b \in SignalBars :
           /\ events[b].status \in {"DETECTED", "ENTRY_FILLED"}
           /\ collector' = [collector EXCEPT ![c].pc = events[b].status, ![c].bar = b]
    BY <1>6 DEF LoadSource
  <2> DEFINE r == [pc |-> events[b].status, bar |-> b, at |-> collector[c].at]
  <2>2. CollectorTo(c, r)
    BY <1>0, <2>1, ChangedBar DEF CollectorTo
  <2>3. CollectorFine(r)
    BY <1>0, <1>1, <2>1 DEF CollectorFine, CollectorRow
  <2>4. QED BY <2>2, <2>3
<1>7. ASSUME NEW c \in Collectors, AttemptEntry(c) \/ AttemptBaseline(c)
      PROVE  \E r : CollectorFine(r) /\ CollectorTo(c, r)
  <2> DEFINE r == [pc |-> "idle", bar |-> 0, at |-> collector[c].at]
  <2>1. CollectorTo(c, r)
    BY <1>1, <1>7 DEF AttemptEntry, AttemptBaseline, CollectorTo
  <2>2. CollectorFine(r)
    BY <1>0, <1>1 DEF CollectorFine, CollectorRow
  <2>3. QED BY <2>1, <2>2
<1>8. CASE OosTick
  BY <1>8 DEF OosTick
<1>9. QED BY <1>3, <1>4, <1>5, <1>6, <1>7, <1>8 DEF OosNext

LEMMA CollectorStep ==
  ASSUME OosTyped, CollectorsHonest, OosNext
  PROVE  collector' \in [Collectors -> CollectorRow] /\ CollectorsHonest'
<1>0. oosTime \in Nat /\ \A c \in Collectors : CollectorFine(collector[c])
  BY OosConstants DEF OosTyped, CollectorsHonest, CollectorFine
<1>1. ASSUME NEW r, CollectorFine(r)
      PROVE  /\ r \in CollectorRow /\ r.at <= oosTime'
             /\ r.pc \in {"fetching", "fetched"} => r.bar \in DOMAIN ticker'
             /\ r.pc \in {"DETECTED", "ENTRY_FILLED"} => r.bar \in SignalBars
  <2>1. oosTime' \in Nat /\ oosTime <= oosTime'
    BY TapeGrows, OosConstants
  <2>2. r.at \in Nat /\ r.at <= oosTime
    BY <1>1 DEF CollectorFine, CollectorRow
  <2>3. QED BY <1>0, <1>1, <2>1, <2>2, TapeGrows DEF CollectorFine
<1>2. collector' = [c \in Collectors |-> collector'[c]]
  BY CollectorSteps DEF OosTyped, CollectorTo
<1>3. ASSUME NEW c \in Collectors PROVE CollectorFine(collector'[c])
  <2>1. ASSUME NEW d \in Collectors, NEW r, CollectorFine(r), CollectorTo(d, r)
        PROVE  CollectorFine(collector'[c])
    <3>1. collector'[c] = r \/ collector'[c] = collector[c]
      BY <2>1 DEF OosTyped, CollectorTo
    <3>2. QED BY <1>0, <2>1, <3>1
  <2>2. QED BY <1>0, <2>1, CollectorSteps
<1>4. \A c \in Collectors :
        /\ collector'[c] \in CollectorRow /\ collector'[c].at <= oosTime'
        /\ collector'[c].pc \in {"fetching", "fetched"} => collector'[c].bar \in DOMAIN ticker'
        /\ collector'[c].pc \in {"DETECTED", "ENTRY_FILLED"} => collector'[c].bar \in SignalBars
  BY <1>1, <1>3
<1>5. QED BY <1>2, <1>4 DEF CollectorsHonest

LEMMA OosTypedStep ==
  ASSUME OosTyped, CollectorsHonest, RowsAreSound, OosNext
  PROVE  OosTyped'
<1>1. DOMAIN ticker' = {b \in Nat : 2 * b + 2 <= oosTime'}
  BY TapeGrows DEF BarEnd
<1>2. kept' \subseteq DOMAIN ticker'
  BY KeptGrows, TapeGrows DEF OosTyped
<1>3. QED BY <1>1, <1>2, TapeGrows, EventsTyped, CollectorStep DEF OosTyped, BarEnd

LEMMA OosStarts == OosInit => OosInv
<1> SUFFICES ASSUME OosInit PROVE OosInv
  OBVIOUS
<1>1. {b \in Nat : BarEnd(b) <= 0} = {}
  BY DEF BarEnd
<1>2. NoEvent \in EventRow /\ NoEvent.entry = NoTime /\ NoEvent.exit = NoTime /\ NoEvent.status = "none"
      /\ ~NoEvent.ambiguous
  BY OosConstants DEF NoEvent, EventRow
<1>3. Asleep \in CollectorRow /\ Asleep.at = 0 /\ Asleep.pc = "asleep"
  BY DEF Asleep, CollectorRow
<1>4. OosTyped
  BY <1>1, <1>2, <1>3, OosConstants DEF OosInit, OosTyped
<1>5. CollectorsHonest
  BY <1>3 DEF OosInit, CollectorsHonest
<1>6. SignalIsCaptured
  BY <1>2 DEF OosInit, SignalIsCaptured
<1>7. \A t, tp : RowIsSound(NoEvent, t, tp)
  BY <1>2 DEF RowIsSound
<1>8. RowsAreSound
  BY <1>7 DEF OosInit, RowsAreSound
<1>9. QED BY <1>4, <1>5, <1>6, <1>8 DEF OosInv

LEMMA OosStutters == OosInv /\ UNCHANGED oosVars => OosInv'
<1> SUFFICES ASSUME OosInv, UNCHANGED oosVars PROVE OosInv'
  OBVIOUS
<1>1. OosTyped'
  BY DEF OosInv, oosVars, OosTyped, BarEnd
<1>2. CollectorsHonest' /\ SignalIsCaptured'
  BY DEF OosInv, oosVars, CollectorsHonest, SignalIsCaptured, BarEnd
<1>3. RowsAreSound'
  BY DEF OosInv, oosVars, RowsAreSound
<1>4. QED BY <1>1, <1>2, <1>3 DEF OosInv

(* The out-of-sample collector keeps its inductive invariant: the tape is  *)
(* complete though the store is not, a held candle is past, and every row  *)
(* says what the tape of its time says.                                    *)
THEOREM MaeV3Invariance == OosSpec => []OosInv
<1>1. OosInv /\ [OosNext]_oosVars => OosInv'
  BY OosStutters, OosTypedStep, CollectorStep, SignalStep, EventsTyped DEF OosInv
<1>2. QED BY <1>1, OosStarts, PTL DEF OosSpec

(* A pair that is final has no stop inside a horizon and no candle with    *)
(* both exits: an outcome that collides is kept as a diagnostic instead.   *)
LEMMA FinalHasNoDoubt ==
  ASSUME OosInv PROVE FinalIsUnambiguous
<1> SUFFICES ASSUME NEW b \in SignalBars, events[b].status = "FINALIZED"
             PROVE  /\ ~events[b].ambiguous
                    /\ \A h \in OosHorizons : \A x \in Within(events[b].entry, events[b].entry + h) :
                         BarEnd(x) <= events[b].exit => ticker[x] \notin {"stop", "both"}
  BY DEF FinalIsUnambiguous
<1> DEFINE row == events[b]
           T   == TerminalBars(row.entry, ticker)
<1>1. /\ ~row.ambiguous /\ row.entry \in Nat /\ row.exit # NoTime
      /\ ~Collides(row.entry, [exit |-> row.exit, why |-> row.why])
      /\ TrueOutcome(row.entry, ticker, row.exit, row.why)
  BY DEF OosInv, OosTyped, EventRow, RowsAreSound, RowIsSound
<1>2. /\ row.why # "AMBIGUOUS_STOP_FIRST"
      /\ row.why = "STOP_LOSS" => \A h \in OosHorizons : ~(row.exit <= row.entry + h)
  BY <1>1 DEF Collides
<1>3. ASSUME NEW h \in OosHorizons, NEW x \in Within(row.entry, row.entry + h), BarEnd(x) <= row.exit,
             ticker[x] \in {"stop", "both"}
      PROVE  FALSE
  <2>1. /\ x \in Nat /\ BarEnd(x) \in Nat /\ BarEnd(x) = 2 * x + 2 /\ BarEnd(x) <= row.entry + h
        /\ x \in T
    <3>1. h \in Nat /\ row.entry + h \in Nat /\ row.entry + OosHold \in Nat
          /\ row.entry + h <= row.entry + OosHold
      BY <1>1, OosConstants
    <3>2. x \in Within(row.entry, row.entry + OosHold)
      BY <1>1, <3>1, WithinFacts
    <3>3. QED BY <1>1, <1>3, <3>1, <3>2, WithinFacts DEF TerminalBars
  <2>2. PICK m \in T : /\ \A y \in T : m <= y
                       /\ row.exit = BarEnd(m) /\ row.why = ReasonOf(ticker[m])
    BY <1>1, <2>1 DEF TrueOutcome
  <2>3. m \in Nat /\ BarEnd(m) = 2 * m + 2 /\ m <= x
    BY <1>1, <2>1, <2>2, OosConstants, WithinFacts DEF TerminalBars
  <2>4. x = m
    BY <1>3, <2>1, <2>2, <2>3
  <2>5. row.why \in {"STOP_LOSS", "AMBIGUOUS_STOP_FIRST"}
    BY <1>3, <2>2, <2>4 DEF ReasonOf
  <2>6. QED BY <1>2, <2>1, <2>2, <2>4, <2>5
<1>4. QED BY <1>1, <1>3

LEMMA OutcomesAreTrue ==
  ASSUME OosInv PROVE OutcomeIsTrue
<1> SUFFICES ASSUME NEW b \in SignalBars
             PROVE  LET e == events[b].entry
                    IN /\ e # NoTime => /\ e = NextBoundary(events[b].eligible)
                                        /\ e > events[b].eligible /\ e + 2 <= oosTime
                       /\ events[b].exit # NoTime =>
                            /\ events[b].exit <= oosTime
                            /\ [exit |-> events[b].exit, why |-> events[b].why]
                                 = BaselineFrom(e, DOMAIN ticker)
  BY DEF OutcomeIsTrue
<1> DEFINE row == events[b]
<1>1. /\ RowIsSound(row, oosTime, ticker) /\ row.entry \in Nat /\ row.eligible \in Nat /\ row.exit \in Nat
      /\ oosTime \in Nat
  BY OosConstants DEF OosInv, OosTyped, EventRow, RowsAreSound
<1>2. NextBoundary(row.eligible) > row.eligible
  BY <1>1 DEF NextBoundary
<1>3. ASSUME row.exit # NoTime
      PROVE  /\ row.exit <= oosTime
             /\ [exit |-> row.exit, why |-> row.why] = BaselineFrom(row.entry, DOMAIN ticker)
  <2>1. row.entry + OosHold <= oosTime /\ TrueOutcome(row.entry, ticker, row.exit, row.why)
    BY <1>1, <1>3 DEF RowIsSound
  <2>2. row.exit <= row.entry + OosHold
    BY <1>1, <2>1, OosConstants, WithinFacts DEF TrueOutcome, TerminalBars
  <2>3. BaselineFrom(row.entry, DOMAIN ticker) = [exit |-> row.exit, why |-> row.why]
    BY <1>1, <2>1, BaselineOfTape DEF OosInv
  <2>4. QED BY <1>1, <2>1, <2>2, <2>3, OosConstants
<1>4. row.entry # NoTime => row.entry = NextBoundary(row.eligible) /\ row.entry + 2 <= oosTime
  BY <1>1 DEF RowIsSound
<1>5. QED BY <1>2, <1>3, <1>4

(* Of the out-of-sample collector, for every tape, lag, hold and number of *)
(* processes: a candle that is stored has brought its signal's source with *)
(* it, the entry is the first open after the source was eligible, every    *)
(* exit is the one that the whole tape gives although the store has holes, *)
(* a final pair is free of doubt inside a candle, and rows settle.         *)
THEOREM MaeV3Safety == OosSpec => MaeV3Safe
<1>1. OosInv => OosTypeOK /\ SignalIsCaptured /\ OutcomeIsTrue /\ FinalIsUnambiguous
  BY FinalHasNoDoubt, OutcomesAreTrue DEF OosInv, OosTyped, EventRow, OosTypeOK
<1>2. OosInv /\ [OosNext]_oosVars =>
        [\A b \in SignalBars :
           /\ events[b].status \in {"FINALIZED", "AMBIGUOUS_NONFINAL"} => events'[b] = events[b]
           /\ events[b].entry # NoTime => events'[b].entry = events[b].entry]_oosVars
  <2>1. OosInv /\ OosNext =>
          \A b \in SignalBars :
            /\ events[b].status \in {"FINALIZED", "AMBIGUOUS_NONFINAL"} => events'[b] = events[b]
            /\ events[b].entry # NoTime => events'[b].entry = events[b].entry
    BY RowAfter DEF OosInv, Settled
  <2>2. QED BY <2>1
<1>3. QED BY <1>1, <1>2, MaeV3Invariance, PTL DEF OosSpec, MaeV3Safe, RowsSettle
=============================================================================

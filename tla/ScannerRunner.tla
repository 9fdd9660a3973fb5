---------------------------- MODULE ScannerRunner ----------------------------
(***************************************************************************)
(* The scanner process, scanner_runner.py: the single-runner lock at       *)
(* start-up, the rows of dds.scanner_run and dds.scanner_event that a scan *)
(* cycle writes, and the completion report                                 *)
(* (app/scanners/cycle_completion_v1.py) they are written from.            *)
(*                                                                         *)
(* Several runner processes may be started.  Each has ONE PostgreSQL       *)
(* session; the advisory lock belongs to the session, not to the process.  *)
(* Every database call may fail.  What a failed call leaves behind differs *)
(* from method to method: the ones that roll back leave the session        *)
(* usable, the others leave it inside a failed transaction, in which every *)
(* later statement fails until somebody rolls back.                        *)
(***************************************************************************)
EXTENDS Naturals, FiniteSets

CONSTANTS
    Runners,      \* scanner processes that may be started
    ScanSymbols,  \* the scanner universe
    MaxRuns,      \* rows of dds.scanner_run (bounds the runs)
    NoOne, NoRun

ASSUME ScannerConstants ==
    /\ ScanSymbols # {} /\ IsFiniteSet(ScanSymbols)
    /\ MaxRuns \in Nat
    /\ NoOne \notin Runners
    /\ NoRun \notin 1..MaxRuns

VARIABLES
    runnerAt,    \* where each runner is in main()
    dbSession,   \* its session: "none", "open", "failed" (transaction) or "dead"
    holder,      \* the runner whose session holds the advisory lock
    runRows,     \* dds.scanner_run with the CYCLE_COMPLETION rows of each run
    runOf,       \* the run_id of the current cycle, NoRun when it has none
    toScan,      \* symbols of the current cycle not answered yet
    cycleReport  \* CycleCompletionReport of the current cycle

scannerVars == <<runnerAt, dbSession, holder, runRows, runOf, toScan, cycleReport>>

RunIds == 1..MaxRuns
FinalStatus == {"COMPLETED", "PARTIAL", "FAILED", "ABORTED"}

(* processed and outcomes as sets of symbols, the event_persisted flag.    *)
(* missed and lost are history: the symbols this cycle did not scan        *)
(* completely, and whether writing its completion event failed.            *)
CycleReport == [processed: SUBSET ScanSymbols, outcomes: SUBSET ScanSymbols, persisted: BOOLEAN,
                missed: SUBSET ScanSymbols, lost: BOOLEAN]
EmptyReport == [processed |-> {}, outcomes |-> {}, persisted |-> FALSE,
                missed |-> {}, lost |-> FALSE]

RunRow == [status: {"none", "RUNNING"} \union FinalStatus, events: 0..2]
NoRunRow == [status |-> "none", events |-> 0]

(* The type invariant.                                                     *)
ScannerTypeOK ==
    /\ runnerAt \in [Runners -> {"down", "universe", "boot", "idle", "scan", "close",
                           "tail", "after", "abort", "aborted"}]
    /\ dbSession \in [Runners -> {"none", "open", "failed", "dead"}]
    /\ holder \in Runners \union {NoOne}
    /\ runRows \in [RunIds -> RunRow]
    /\ runOf \in [Runners -> RunIds \union {NoRun}]
    /\ toScan \in [Runners -> SUBSET ScanSymbols]
    /\ cycleReport \in [Runners -> CycleReport]

ScannerInit ==
    /\ runnerAt = [r \in Runners |-> "down"]
    /\ dbSession = [r \in Runners |-> "none"]
    /\ holder = NoOne
    /\ runRows = [i \in RunIds |-> NoRunRow]
    /\ runOf = [r \in Runners |-> NoRun]
    /\ toScan = [r \in Runners |-> {}]
    /\ cycleReport = [r \in Runners |-> EmptyReport]

-----------------------------------------------------------------------------
(* Sessions.                                                               *)

RunnerGoes(r, label) == runnerAt' = [runnerAt EXCEPT ![r] = label]

(* The server drops the locks of a session that ends.                      *)
LockAfter(r) == IF holder = r THEN NoOne ELSE holder

(* What one database call of runner r may leave: success needs a usable    *)
(* session; a failure leaves a failed transaction unless the method rolls  *)
(* back (rollback of a dead connection raises too).                        *)
CallOk(r) == dbSession[r] = "open"
FailedSession(r) == IF dbSession[r] = "dead" THEN "dead" ELSE "failed"
RolledBack(r) == IF dbSession[r] = "dead" THEN "dead" ELSE "open"

(* The server, the network or another runner ends the session of r.        *)
SessionLost(r) ==
    /\ dbSession[r] \in {"open", "failed"}
    /\ dbSession' = [dbSession EXCEPT ![r] = "dead"]
    /\ holder' = LockAfter(r)
    /\ UNCHANGED <<runnerAt, runRows, runOf, toScan, cycleReport>>

(* The process ends, at any point.                                         *)
StopRunner(r) ==
    /\ runnerAt[r] # "down"
    /\ RunnerGoes(r, "down")
    /\ dbSession' = [dbSession EXCEPT ![r] = "none"]
    /\ holder' = LockAfter(r)
    /\ runOf' = [runOf EXCEPT ![r] = NoRun]
    /\ toScan' = [toScan EXCEPT ![r] = {}]
    /\ cycleReport' = [cycleReport EXCEPT ![r] = EmptyReport]
    /\ UNCHANGED runRows

-----------------------------------------------------------------------------
(* Start-up.                                                               *)

(* main() up to the universe: initialize_scanner_universe keeps retrying   *)
(* temporary limiter denials, before any database object exists.           *)
LaunchRunner(r) ==
    /\ runnerAt[r] = "down"
    /\ RunnerGoes(r, "universe")
    /\ UNCHANGED <<dbSession, holder, runRows, runOf, toScan, cycleReport>>

(* The universe arrived; the repository connects and answers the ping.     *)
UniverseReady(r) ==
    /\ runnerAt[r] = "universe"
    /\ RunnerGoes(r, "boot")
    /\ dbSession' = [dbSession EXCEPT ![r] = "open"]
    /\ UNCHANGED <<holder, runRows, runOf, toScan, cycleReport>>

(* A permanent denial, the last attempt denied, a shutdown signal while    *)
(* waiting, or no database: the process ends.                              *)
UniverseDenied(r) ==
    /\ runnerAt[r] = "universe"
    /\ RunnerGoes(r, "down")
    /\ UNCHANGED <<dbSession, holder, runRows, runOf, toScan, cycleReport>>

(* abort_stale_runs: RUNNING rows older than ten minutes, whoever runs     *)
(* them.                                                                   *)
AbortStale(S) ==
    runRows' = [i \in RunIds |-> IF i \in S THEN [runRows[i] EXCEPT !.status = "ABORTED"]
                              ELSE runRows[i]]

RunningRows == {i \in RunIds : runRows[i].status = "RUNNING"}

(* acquire_runner_lock succeeds, then the rest of main()'s preparation.    *)
TakeLock(r) ==
    /\ runnerAt[r] = "boot" /\ CallOk(r)
    /\ holder = NoOne
    /\ holder' = r
    /\ \E S \in SUBSET RunningRows : AbortStale(S)
    /\ RunnerGoes(r, "idle")
    /\ UNCHANGED <<dbSession, runOf, toScan, cycleReport>>

(* A session is reported idle whenever it is between two transactions:     *)
(* while its runner sleeps, and also while it waits for market data.       *)
MayLookIdle(h) == runnerAt[h] \in {"idle", "scan", "close", "tail", "after", "abort", "aborted"}

(* The lock is held by a session that looks idle:                          *)
(* cleanup_stale_advisory_lock terminates that backend; the second attempt *)
(* gets the lock when the backend is already gone.                         *)
StealLock(r) ==
    /\ runnerAt[r] = "boot" /\ CallOk(r)
    /\ holder # NoOne /\ MayLookIdle(holder)
    /\ dbSession' = [dbSession EXCEPT ![holder] = "dead"]
    /\ holder' = r
    /\ \E S \in SUBSET RunningRows : AbortStale(S)
    /\ RunnerGoes(r, "idle")
    /\ UNCHANGED <<runOf, toScan, cycleReport>>

(* The lock is held and the holder is busy, or still held after the        *)
(* termination was requested: exit.                                        *)
LockDenied(r) ==
    /\ runnerAt[r] = "boot"
    /\ holder # NoOne \/ ~CallOk(r)
    /\ RunnerGoes(r, "down")
    /\ \/ dbSession' = [dbSession EXCEPT ![r] = "none"] /\ UNCHANGED holder
       \/ /\ holder # NoOne /\ MayLookIdle(holder) /\ CallOk(r)
          /\ dbSession' = [dbSession EXCEPT ![r] = "none", ![holder] = "dead"]
          /\ holder' = NoOne
    /\ UNCHANGED <<runRows, runOf, toScan, cycleReport>>

-----------------------------------------------------------------------------
(* One cycle.                                                              *)

CreatedRuns == {i \in RunIds : runRows[i].status # "none"}

(* start_run and save_run_universe.  The row is committed before the       *)
(* universe is written, so a failure of the second call leaves it RUNNING  *)
(* and the retry after reconnect() starts another one.  reconnect() closes *)
(* the session, with it the advisory lock, and does not take it again.     *)
BeginCycle(r, orphans, has, reconnect) ==
    LET first == Cardinality(CreatedRuns) + 1
        rows == orphans + (IF has THEN 1 ELSE 0)
    IN /\ runnerAt[r] = "idle"
       /\ reconnect = "no" => has /\ orphans = 0
       /\ reconnect = "lost" => ~has /\ orphans <= 1
       /\ has => orphans <= 1
       /\ reconnect = "no" \/ (reconnect = "lost" /\ orphans = 1) \/ orphans = 2 => CallOk(r)
       /\ first + rows <= MaxRuns + 1
       /\ runRows' = [i \in RunIds |-> IF i \in first..(first + rows - 1)
                                    THEN [NoRunRow EXCEPT !.status = "RUNNING"] ELSE runRows[i]]
       /\ runOf' = [runOf EXCEPT ![r] = IF has THEN first + rows - 1 ELSE NoRun]
       /\ dbSession' = [dbSession EXCEPT ![r] = CASE reconnect = "no" -> @
                                        [] reconnect = "ok" -> "open"
                                        [] reconnect = "lost" -> "dead"]
       /\ holder' = IF reconnect = "no" THEN holder ELSE LockAfter(r)
       /\ toScan' = [toScan EXCEPT ![r] = ScanSymbols]
       /\ cycleReport' = [cycleReport EXCEPT ![r] = EmptyReport]
       /\ RunnerGoes(r, "scan")

SymbolAnswered(r, s) == toScan' = [toScan EXCEPT ![r] = @ \ {s}]

(* Past this point only event_persisted of the report is read again; the   *)
(* rest is forgotten.                                                      *)
ReportUsed(r) ==
    cycleReport' = [cycleReport EXCEPT ![r] = [EmptyReport EXCEPT !.persisted = cycleReport[r].persisted]]

(* One symbol scanned and its setups saved.  Saving rolls back on failure, *)
(* so the session is usable again unless it is dead.                       *)
ScanSymbol(r, s) ==
    /\ runnerAt[r] = "scan" /\ s \in toScan[r]
    /\ CallOk(r)
    /\ cycleReport' = [cycleReport EXCEPT ![r].processed = @ \union {s}]
    /\ SymbolAnswered(r, s)
    /\ UNCHANGED <<runnerAt, dbSession, holder, runRows, runOf>>

(* Mutant: a lost capture is only counted, not recorded in the report.     *)
CaptureOnlyCounted(r, s) ==
    /\ runnerAt[r] = "scan" /\ s \in toScan[r]
    /\ CallOk(r)
    /\ cycleReport' = [cycleReport EXCEPT ![r].processed = @ \union {s}, ![r].missed = @ \union {s}]
    /\ SymbolAnswered(r, s)
    /\ UNCHANGED <<runnerAt, dbSession, holder, runRows, runOf>>

(* The same, but a capture could not be put into the durable spool: the    *)
(* symbol counts as processed and as failed (Issue 261).                   *)
CaptureLost(r, s) ==
    /\ runnerAt[r] = "scan" /\ s \in toScan[r]
    /\ CallOk(r)
    /\ cycleReport' = [cycleReport EXCEPT ![r].processed = @ \union {s}, ![r].outcomes = @ \union {s},
                                          ![r].missed = @ \union {s}]
    /\ SymbolAnswered(r, s)
    /\ UNCHANGED <<runnerAt, dbSession, holder, runRows, runOf>>

(* Market data failed or was skipped, or the scan raised after the data    *)
(* arrived: the outcome is recorded, then save_error; when that raises too *)
(* the exception leaves run_scan_cycle and the cycle is aborted.           *)
SymbolFailed(r, s, arrived, saved) ==
    /\ runnerAt[r] = "scan" /\ s \in toScan[r]
    /\ saved => CallOk(r)
    /\ IF saved THEN cycleReport' = [cycleReport EXCEPT ![r].outcomes = @ \union {s}, ![r].missed = @ \union {s},
                                           ![r].processed = IF arrived THEN @ \union {s} ELSE @]
       ELSE ReportUsed(r)
    /\ SymbolAnswered(r, s)
    /\ dbSession' = [dbSession EXCEPT ![r] = IF saved THEN @ ELSE FailedSession(r)]
    /\ RunnerGoes(r, IF saved THEN "scan" ELSE "abort")
    /\ UNCHANGED <<holder, runRows, runOf>>

(* completion_status and run_status.                                       *)
IsComplete(rep) == rep.outcomes = {} /\ rep.processed = ScanSymbols

RunStatus(rep) == IF IsComplete(rep) THEN "COMPLETED" ELSE "PARTIAL"

(* The loop is over: save_run_stat; its failure aborts the cycle.          *)
SaveRunStats(r, ok) ==
    /\ runnerAt[r] = "scan" /\ toScan[r] = {}
    /\ ok => CallOk(r)
    /\ dbSession' = [dbSession EXCEPT ![r] = IF ok THEN @ ELSE FailedSession(r)]
    /\ RunnerGoes(r, IF ok THEN "close" ELSE "abort")
    /\ IF ok THEN UNCHANGED cycleReport ELSE ReportUsed(r)
    /\ UNCHANGED <<holder, runRows, runOf, toScan>>

(* How save_event can end: "saved"; "failed", nothing written; "unsure",   *)
(* the row is committed and the answer lost with the connection.           *)
EventOutcomes == {"saved", "failed", "unsure"}

(* save_event for the run of r.  It does not roll back.                    *)
SaveEvent(r, o) ==
    /\ o # "failed" => CallOk(r)
    /\ runRows' = IF runOf[r] = NoRun \/ o = "failed" THEN runRows
                  ELSE [runRows EXCEPT ![runOf[r]].events = @ + 1]
    /\ dbSession' = [dbSession EXCEPT ![r] = CASE o = "saved" -> @
                                     [] o = "unsure" -> "dead"
                                     [] o = "failed" -> FailedSession(r)]
    /\ holder' = IF o = "unsure" THEN LockAfter(r) ELSE holder

(* The end of run_scan_cycle: one diagnostic row for an incomplete cycle;  *)
(* its failure is swallowed.                                               *)
ReportCycle(r, o) ==
    /\ runnerAt[r] = "close"
    /\ IF IsComplete(cycleReport[r]) THEN o = "saved" /\ UNCHANGED <<dbSession, holder, runRows, cycleReport>>
       ELSE /\ SaveEvent(r, o)
            /\ cycleReport' = [cycleReport EXCEPT ![r].persisted = (o = "saved"),
                                                  ![r].lost = (o = "failed")]
    /\ RunnerGoes(r, "tail")
    /\ UNCHANGED <<runOf, toScan>>

(* finish_run of the row, without any condition on its present status.     *)
FinishRow(i, status) ==
    IF i = NoRun THEN runRows ELSE [runRows EXCEPT ![i].status = status]

(* flush_and_persist_all, expire_setups, aggregate_signals and finish_run. *)
(* A failed transaction met by expire_setups may be recovered by           *)
(* _with_retry; aggregate_signals swallows its error and leaves the        *)
(* transaction failed, so finish_run then raises as well (it rolls back).  *)
FinishCycle(r) ==
    /\ runnerAt[r] = "tail"
    /\ dbSession[r] \in {"open", "failed"}
    /\ dbSession' = [dbSession EXCEPT ![r] = "open"]
    /\ runRows' = FinishRow(runOf[r], RunStatus(cycleReport[r]))
    /\ RunnerGoes(r, "after")
    /\ ReportUsed(r)
    /\ UNCHANGED <<holder, runOf, toScan>>

FinishFails(r) ==
    /\ runnerAt[r] = "tail"
    /\ dbSession' = [dbSession EXCEPT ![r] = RolledBack(r)]
    /\ RunnerGoes(r, "abort")
    /\ ReportUsed(r)
    /\ UNCHANGED <<holder, runRows, runOf, toScan>>

(* The iteration is over.  run_id and report are overwritten before they   *)
(* are read again, so they are forgotten here.                             *)
CycleOver(r) ==
    /\ RunnerGoes(r, "idle")
    /\ runOf' = [runOf EXCEPT ![r] = NoRun]
    /\ toScan' = [toScan EXCEPT ![r] = {}]
    /\ cycleReport' = [cycleReport EXCEPT ![r] = EmptyReport]

(* After finish_run: the expectancy filter is reloaded every tenth cycle   *)
(* and the OOS evaluator runs (its failure is swallowed).                  *)
EndScanCycle(r) ==
    /\ runnerAt[r] = "after"
    /\ CycleOver(r)
    /\ UNCHANGED <<dbSession, holder, runRows>>

(* The reload is not guarded: its failure takes the abort path of a cycle  *)
(* that is already finished.                                               *)
ReloadFails(r) ==
    /\ runnerAt[r] = "after"
    /\ dbSession' = [dbSession EXCEPT ![r] = FailedSession(r)]
    /\ RunnerGoes(r, "abort")
    /\ UNCHANGED <<holder, runRows, runOf, toScan, cycleReport>>

(* The abort path of main(): finish_run(FAILED), which rolls back and      *)
(* raises inside a failed transaction; then reconnect(), which ends the    *)
(* session and opens another one, or none.                                 *)
AbortCycle(r, finished) ==
    /\ runnerAt[r] = "abort"
    /\ finished => runOf[r] = NoRun \/ CallOk(r)
    /\ ~finished => runOf[r] # NoRun
    /\ runRows' = IF finished THEN FinishRow(runOf[r], "FAILED") ELSE runRows
    /\ holder' = IF finished THEN holder ELSE LockAfter(r)
    /\ IF finished THEN UNCHANGED dbSession
       ELSE \E c \in {"open", "dead"} : dbSession' = [dbSession EXCEPT ![r] = c]
    /\ toScan' = [toScan EXCEPT ![r] = {}]
    /\ RunnerGoes(r, "aborted")
    /\ UNCHANGED <<runOf, cycleReport>>

(* report_aborted_cycle: the diagnostic row, unless run_scan_cycle has     *)
(* written it; a failure is swallowed.                                     *)
ReportAborted(r, o) ==
    /\ runnerAt[r] = "aborted"
    /\ IF cycleReport[r].persisted THEN o = "saved" /\ UNCHANGED <<dbSession, holder, runRows>>
       ELSE SaveEvent(r, o)
    /\ CycleOver(r)

ScannerNext ==
    \E r \in Runners :
        \/ LaunchRunner(r) \/ UniverseReady(r) \/ UniverseDenied(r)
        \/ TakeLock(r) \/ StealLock(r) \/ LockDenied(r)
        \/ \E n \in 0..2, has \in BOOLEAN, c \in {"no", "lost", "ok"} : BeginCycle(r, n, has, c)
        \/ \E s \in ScanSymbols : \/ ScanSymbol(r, s) \/ CaptureLost(r, s)
                             \/ \E a, b \in BOOLEAN : SymbolFailed(r, s, a, b)
        \/ \E ok \in BOOLEAN : SaveRunStats(r, ok) \/ AbortCycle(r, ok)
        \/ EndScanCycle(r) \/ ReloadFails(r)
        \/ FinishCycle(r) \/ FinishFails(r)
        \/ \E o \in EventOutcomes : ReportCycle(r, o) \/ ReportAborted(r, o)
        \/ SessionLost(r) \/ StopRunner(r)

ScannerSpec == ScannerInit /\ [][ScannerNext]_scannerVars

-----------------------------------------------------------------------------
(* Properties.                                                             *)

BecomesStatus(i, status) == runRows'[i].status = status /\ runRows[i].status # status

(* "failed > 0 must never coexist with COMPLETED": a run whose row says    *)
(* COMPLETED scanned every symbol of its universe and lost no capture,     *)
(* whatever failed, was retried or was reported in between.                *)
CompletedIsClean ==
    [][\A i \in RunIds : BecomesStatus(i, "COMPLETED")
          => \E r \in Runners : runOf[r] = i /\ cycleReport[r].missed = {}]_scannerVars

(* A run recorded as PARTIAL left a CYCLE_COMPLETION row, unless writing   *)
(* that row was tried and failed.                                          *)
PartialIsExplained ==
    [][\A i \in RunIds : BecomesStatus(i, "PARTIAL")
          => \/ runRows[i].events > 0
             \/ \E r \in Runners : runOf[r] = i /\ cycleReport[r].lost]_scannerVars

(* The event_persisted flag: once the scanner knows that the diagnostic    *)
(* row of a cycle is stored, no path writes another one for that run.      *)
NoSecondEvent ==
    [][\A r \in Runners : runOf[r] # NoRun /\ cycleReport[r].persisted
          => runRows'[runOf[r]].events = runRows[runOf[r]].events]_scannerVars

(* One run is written by one process: two live runners never work on the   *)
(* same row of dds.scanner_run.                                            *)
OwnRun ==
    \A r, q \in Runners : runOf[r] # NoRun /\ runOf[r] = runOf[q] => r = q

(* What the run rows and completion events of main and run_scan_cycle say  *)
(* is true.                                                                *)
ScannerSafe ==
    /\ [](ScannerTypeOK /\ OwnRun)
    /\ CompletedIsClean /\ PartialIsExplained /\ NoSecondEvent
=============================================================================

--------------------------- MODULE AnalyticsRunner ---------------------------
(***************************************************************************)
(* The daily analytics pipeline, AnalyticsRunner (app/analytics/runner.py) *)
(* with the tables it keeps (app/analytics/repository.py), for one         *)
(* business date: the row of analytics.analysis_run, the outcome of the    *)
(* last SQL quality gate and the dataset publications, one per maturity.   *)
(*                                                                         *)
(* Every invocation is a process of its own (a systemd timer or an         *)
(* operator), with its own database session and its own copy of the run.   *)
(* Each database call is a commit of its own, so one step here.  An        *)
(* invocation may fail in any stage and may die anywhere; the server then  *)
(* drops its advisory lock.  The date has one row: two provisional runs    *)
(* that would both insert one are not modelled.                            *)
(***************************************************************************)
CONSTANTS
    AnalyticsCalls,  \* invocations of the command-line tool
    CommandOf,       \* the command of each: "provisional" or "final"
    LockIds          \* the values hash(date) may take; a singleton when the seed is fixed

Maturities == {"PROVISIONAL", "FINAL"}
Qualities == {"PASS", "DEGRADED", "FAIL"}

ASSUME AnalyticsConstants ==
    /\ CommandOf \in [AnalyticsCalls -> {"provisional", "final"}]
    /\ LockIds # {}

VARIABLES
    callAt,       \* where each invocation is
    lockId,       \* the advisory lock it computed
    callRow,      \* the maturity its AnalysisRun object holds
    runRow,       \* the row of analytics.analysis_run
    facts,        \* were the canonical facts built?
    qualityGate,  \* what the latest sql_quality_gate stage run says
    pub,          \* per maturity: analytics.dataset_publication
    askedFor,     \* per maturity: what the agent orchestration answered
    windowOver    \* has analysis_to passed?

analyticsVars == <<callAt, lockId, callRow, runRow, facts, qualityGate, pub, askedFor, windowOver>>

NoRowYet == [status |-> "none", maturity |-> "PROVISIONAL"]
NoPub == [status |-> "none", quality |-> "PASS"]

Working == {"opened", "reconciled", "checked", "built", "gated", "publishing", "published",
            "advised", "failed", "finished"}

(* The type invariant.                                                     *)
AnalyticsTypeOK ==
    /\ callAt \in [AnalyticsCalls -> {"idle", "read", "locked", "done"} \union Working]
    /\ lockId \in [AnalyticsCalls -> LockIds]
    /\ callRow \in [AnalyticsCalls -> Maturities \union {"FAILED"}]
    /\ runRow \in [status: {"none", "RUNNING", "SUCCEEDED", "FAILED"},
                   maturity: Maturities \union {"FAILED"}]
    /\ facts \in BOOLEAN
    /\ qualityGate \in Qualities \union {"none"}
    /\ pub \in [Maturities -> [status: {"none", "BUILDING", "READY"}, quality: Qualities]]
    /\ askedFor \in [Maturities -> {"no", "skipped", "ran"}]
    /\ windowOver \in BOOLEAN

AnalyticsInit ==
    /\ callAt = [c \in AnalyticsCalls |-> "idle"]
    /\ lockId \in [AnalyticsCalls -> LockIds]
    /\ callRow = [c \in AnalyticsCalls |-> "PROVISIONAL"]
    /\ runRow = NoRowYet
    /\ facts = FALSE
    /\ qualityGate = "none"
    /\ pub = [m \in Maturities |-> NoPub]
    /\ askedFor = [m \in Maturities |-> "no"]
    /\ windowOver = FALSE

-----------------------------------------------------------------------------
StageDone(c, to) == callAt' = [callAt EXCEPT ![c] = to]

(* update_analysis_run of the whole object, whatever the row says by now.  *)
WriteRow(status, maturity) == runRow' = [status |-> status, maturity |-> maturity]

Holding == {"locked"} \union Working

(* Time reaches analysis_to.                                               *)
WindowCloses ==
    /\ ~windowOver
    /\ windowOver' = TRUE
    /\ UNCHANGED <<callAt, lockId, callRow, runRow, facts, qualityGate, pub, askedFor>>

(* run_final reads the run BEFORE it asks for the lock and refuses: no     *)
(* run, a run that is FINAL already, a window that is not over.            *)
ReadProvisional(c) ==
    /\ callAt[c] = "idle" /\ CommandOf[c] = "final"
    /\ IF runRow.status = "none" \/ runRow.maturity = "FINAL" \/ ~windowOver
       THEN StageDone(c, "done") /\ UNCHANGED callRow
       ELSE /\ callRow' = [callRow EXCEPT ![c] = runRow.maturity]
            /\ StageDone(c, "read")
    /\ UNCHANGED <<lockId, runRow, facts, qualityGate, pub, askedFor, windowOver>>

AtLock(c) == callAt[c] = IF CommandOf[c] = "final" THEN "read" ELSE "idle"

(* Mutant: the lock is not asked for.                                      *)
AcquireAnyway(c) ==
    /\ AtLock(c)
    /\ StageDone(c, "locked")
    /\ UNCHANGED <<lockId, callRow, runRow, facts, qualityGate, pub, askedFor, windowOver>>

(* pg_try_advisory_lock of _calculate_lock_id: the string hash differs     *)
(* from process to process unless PYTHONHASHSEED is fixed, so two          *)
(* invocations conflict only when their ids happen to be equal.            *)
AcquireDateLock(c) ==
    /\ AtLock(c)
    /\ IF \E d \in AnalyticsCalls \ {c} : callAt[d] \in Holding /\ lockId[d] = lockId[c]
       THEN StageDone(c, "done") ELSE StageDone(c, "locked")
    /\ UNCHANGED <<lockId, callRow, runRow, facts, qualityGate, pub, askedFor, windowOver>>

(* run_provisional: _create_or_get_run, the FINAL check, and               *)
(* _prepare_run_for_execution.                                             *)
OpenProvisional(c) ==
    /\ callAt[c] = "locked" /\ CommandOf[c] = "provisional"
    /\ IF runRow.maturity = "FINAL" THEN StageDone(c, "done") /\ UNCHANGED <<callRow, runRow>>
       ELSE /\ callRow' = [callRow EXCEPT ![c] = "PROVISIONAL"]
            /\ WriteRow("RUNNING", "PROVISIONAL")
            /\ StageDone(c, "opened")
    /\ UNCHANGED <<lockId, facts, qualityGate, pub, askedFor, windowOver>>

(* run_final continues from the copy it read before the lock, with the     *)
(* maturity that copy holds.                                               *)
OpenFinal(c) ==
    /\ callAt[c] = "locked" /\ CommandOf[c] = "final"
    /\ WriteRow("RUNNING", callRow[c])
    /\ StageDone(c, "opened")
    /\ UNCHANGED <<lockId, callRow, facts, qualityGate, pub, askedFor, windowOver>>

-----------------------------------------------------------------------------
(* The stages.  _execute_stage records each one; its rows only count       *)
(* attempts, except the result of the SQL quality gate.                    *)

(* candle_reconciliation, or post_exit_backfill for the final run.         *)
Reconcile(c) ==
    /\ callAt[c] = "opened"
    /\ StageDone(c, "reconciled")
    /\ UNCHANGED <<lockId, callRow, runRow, facts, qualityGate, pub, askedFor, windowOver>>

(* quality_gate, or final_quality_gate.                                    *)
QualityGate(c) ==
    /\ callAt[c] = "reconciled"
    /\ StageDone(c, "checked")
    /\ UNCHANGED <<lockId, callRow, runRow, facts, qualityGate, pub, askedFor, windowOver>>

(* canonical_build: one transaction.                                       *)
CanonicalBuild(c) ==
    /\ callAt[c] = "checked"
    /\ facts' = TRUE
    /\ StageDone(c, "built")
    /\ UNCHANGED <<lockId, callRow, runRow, qualityGate, pub, askedFor, windowOver>>

(* update_stage_run: the row of a stage that raised has no result.         *)
GateRecorded(q) == qualityGate' = IF q = "FAIL" THEN "none" ELSE q

(* sql_quality_gate: a result with blocking findings fails the stage, and  *)
(* with it the run.                                                        *)
SqlQualityGate(c, q) ==
    /\ callAt[c] = "built"
    /\ GateRecorded(q)
    /\ StageDone(c, IF q = "FAIL" THEN "failed" ELSE "gated")
    /\ UNCHANGED <<lockId, callRow, runRow, facts, pub, askedFor, windowOver>>

(* get_stage_run_by_name: the latest result of the SQL gate, PASS when it  *)
(* has none or cannot be read.                                             *)
GateQuality(readable) == IF readable /\ qualityGate # "none" THEN qualityGate ELSE "PASS"

(* update_dataset_publication_status, a commit of its own.                 *)
Publication(m, status, quality) == pub' = [pub EXCEPT ![m] = [status |-> status, quality |-> quality]]

(* dataset_publication, first commit: BUILDING, under the maturity the run *)
(* object has NOW.  A row for maturity FAILED violates a check.            *)
PublishBuilding(c, readable) ==
    /\ callAt[c] = "gated"
    /\ callRow[c] \in Maturities
    /\ Publication(callRow[c], "BUILDING", GateQuality(readable))
    /\ StageDone(c, "publishing")
    /\ UNCHANGED <<lockId, callRow, runRow, facts, qualityGate, askedFor, windowOver>>

(* Second commit: READY, after the fact counts have been read.             *)
PublishReady(c) ==
    /\ callAt[c] = "publishing"
    /\ Publication(callRow[c], "READY", pub[callRow[c]].quality)
    /\ StageDone(c, "published")
    /\ UNCHANGED <<lockId, callRow, runRow, facts, qualityGate, askedFor, windowOver>>

(* A stage raises: update_stage_run(FAILED), then the run fails.           *)
StageFails(c) ==
    /\ \/ callAt[c] \in {"opened", "reconciled", "checked", "built", "gated", "publishing"}
       \/ callAt[c] = "published" /\ CommandOf[c] = "provisional"
    /\ StageDone(c, "failed")
    /\ UNCHANGED <<lockId, callRow, runRow, facts, qualityGate, pub, askedFor, windowOver>>

(* DataReadinessGate.evaluate for maturity m, as run() feeds it: a RUNNING *)
(* run counts as succeeded.                                                *)
DatasetReady(m) ==
    /\ runRow.status \in {"RUNNING", "SUCCEEDED"}
    /\ pub[m].status = "READY"
    /\ pub[m].quality # "FAIL"

Advise(m) == askedFor' = [askedFor EXCEPT ![m] = IF DatasetReady(m) THEN "ran" ELSE "skipped"]

(* Retention, then the agent orchestration of a provisional run, which     *)
(* comes before the run is marked; its failure is swallowed.               *)
AdviseProvisional(c) ==
    /\ callAt[c] = "published" /\ CommandOf[c] = "provisional"
    /\ Advise("PROVISIONAL") \/ UNCHANGED askedFor
    /\ StageDone(c, "advised")
    /\ UNCHANGED <<lockId, callRow, runRow, facts, qualityGate, pub, windowOver>>

(* update_analysis_run with the outcome.                                   *)
FinishRun(c) ==
    /\ \/ callAt[c] \in {"advised", "failed"}
       \/ callAt[c] = "published" /\ CommandOf[c] = "final"
    /\ LET m == IF callAt[c] = "failed" THEN "FAILED"
                ELSE IF CommandOf[c] = "final" THEN "FINAL" ELSE "PROVISIONAL"
       IN /\ callRow' = [callRow EXCEPT ![c] = m]
          /\ WriteRow(IF callAt[c] = "failed" THEN "FAILED" ELSE "SUCCEEDED", m)
    /\ StageDone(c, "finished")
    /\ UNCHANGED <<lockId, facts, qualityGate, pub, askedFor, windowOver>>

(* The agent orchestration of a successful final run comes after that;     *)
(* then the lock is released.                                              *)
ReturnFromCall(c) ==
    /\ callAt[c] = "finished"
    /\ IF CommandOf[c] = "final" /\ callRow[c] = "FINAL"
       THEN Advise("FINAL") \/ UNCHANGED askedFor ELSE UNCHANGED askedFor
    /\ StageDone(c, "done")
    /\ UNCHANGED <<lockId, callRow, runRow, facts, qualityGate, pub, windowOver>>

(* The process or its session dies (a database error that escapes the      *)
(* handlers has the same effect).                                          *)
KillCall(c) ==
    /\ callAt[c] \in Holding \union {"read"}
    /\ StageDone(c, "done")
    /\ UNCHANGED <<lockId, callRow, runRow, facts, qualityGate, pub, askedFor, windowOver>>

AnalyticsNext ==
    \/ WindowCloses
    \/ \E c \in AnalyticsCalls :
          \/ ReadProvisional(c) \/ AcquireDateLock(c)
          \/ OpenProvisional(c) \/ OpenFinal(c)
          \/ Reconcile(c) \/ QualityGate(c) \/ CanonicalBuild(c)
          \/ \E q \in Qualities : SqlQualityGate(c, q)
          \/ \E readable \in BOOLEAN : PublishBuilding(c, readable)
          \/ PublishReady(c) \/ StageFails(c)
          \/ AdviseProvisional(c) \/ FinishRun(c) \/ ReturnFromCall(c) \/ KillCall(c)

AnalyticsSpec == AnalyticsInit /\ [][AnalyticsNext]_analyticsVars

-----------------------------------------------------------------------------
(* Properties.                                                             *)

(* A run that says SUCCEEDED has its dataset published: no crash, failed   *)
(* stage or later attempt leaves a SUCCEEDED row beside a publication that *)
(* is missing or still BUILDING.                                           *)
SucceededIsPublished ==
    runRow.status = "SUCCEEDED" => pub["PROVISIONAL"].status = "READY" /\ facts

(* A dataset that the SQL gate found blocking failures in is never offered *)
(* to the agents.                                                          *)
BlockedNeverPublished ==
    \A m \in Maturities : pub[m].status # "none" => pub[m].quality # "FAIL"

(* run_provisional looks at the maturity inside the lock: it never writes  *)
(* to a run that is FINAL by then, however late it started.                *)
ProvisionalKeepsFinal ==
    [][\A c \in AnalyticsCalls : CommandOf[c] = "provisional" /\ callAt'[c] # callAt[c] /\ runRow.maturity = "FINAL"
          => runRow' = runRow]_analyticsVars

(* run_provisional and run_final keep the run row and the publications     *)
(* consistent.                                                             *)
AnalyticsSafe ==
    /\ [](AnalyticsTypeOK /\ SucceededIsPublished /\ BlockedNeverPublished)
    /\ ProvisionalKeepsFinal
=============================================================================

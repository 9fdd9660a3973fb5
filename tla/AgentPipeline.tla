---------------------------- MODULE AgentPipeline ----------------------------
(***************************************************************************)
(* Stage 3 of the daily analysis, AgentOrchestrator                        *)
(* (app/analytics/agents/orchestrator.py) with AgentExecutor, RetryPolicyV1*)
(* and check_chief_eligibility: the specialist agents run as coroutines of *)
(* one process, then the chief agent, then the daily report.               *)
(*                                                                         *)
(* Coroutines interleave only where they await: a model call, a repair     *)
(* call, the delay before a retry.  Each database call commits.  The       *)
(* process may die anywhere, and is run again over the same dataset.       *)
(***************************************************************************)
EXTENDS Naturals, FiniteSets

CONSTANTS
    Specialists,   \* SPECIALIST_AGENTS
    Chief,         \* CHIEF_AGENT
    MaxAttempts,   \* RetryPolicyV1.max_attempts
    MaxAgentRows,  \* rows of analytics.agent_run per agent (bounds the runs)
    MaxReports     \* rows of analytics.daily_trading_report (bounds the runs)

(* The chief takes the steps of a specialist, over the results of the      *)
(* others, and writes the report.                                          *)
Agents == Specialists \union {Chief}

ASSUME PipelineConstants ==
    /\ Chief \notin Specialists
    /\ MaxAttempts \in Nat \ {0} /\ MaxAgentRows \in Nat /\ MaxReports \in Nat
    /\ IsFiniteSet(Specialists)

VARIABLES
    agentSession,  \* the maturity being orchestrated, "off" between two sessions
    agentAt,       \* where the coroutine of each agent is
    tryNo,         \* the row it works on, 0 when it has none
    calls,         \* model calls of this session
    verdict,       \* AgentExecutionResult.status, as the orchestrator holds it
    agentRows,     \* analytics.agent_run with agent_result and agent_input_manifest
    reports,       \* analytics.daily_trading_report, in order of creation
    finalSeen      \* has a FINAL session been started?

pipelineVars == <<agentSession, agentAt, tryNo, calls, verdict, agentRows, reports, finalSeen>>

AgentRowIds == 1..MaxAgentRows
ReportIds == 1..MaxReports
GoodAnswer == {"SUCCEEDED", "DEGRADED"}
CurrentReport == {"DRAFT", "VALIDATED"}

(* model: does the row name the model?  seen: the specialists whose        *)
(* results are in the manifest of a chief row.                             *)
AgentRow == [status: {"none", "PENDING", "RUNNING", "SUCCEEDED", "FAILED", "SKIPPED"},
             result: BOOLEAN, model: BOOLEAN, seen: SUBSET Specialists]
NoAgentRow == [status |-> "none", result |-> FALSE, model |-> FALSE, seen |-> {}]
NoReport == [status |-> "none", maturity |-> "PROVISIONAL", chief |-> 0]

(* The type invariant.                                                     *)
PipelineTypeOK ==
    /\ agentSession \in {"off", "PROVISIONAL", "FINAL"}
    /\ agentAt \in [Agents -> {"off", "start", "calling", "repairing", "sleeping", "ended",
                             "superseding", "drafted"}]
    /\ tryNo \in [Agents -> 0..MaxAgentRows]
    /\ calls \in [Agents -> 0..(MaxAttempts + 1)]
    /\ verdict \in [Agents -> {"none", "FAILED", "SKIPPED"} \union GoodAnswer]
    /\ agentRows \in [Agents -> [AgentRowIds -> AgentRow]]
    /\ reports \in [ReportIds -> [status: {"none", "SUPERSEDED"} \union CurrentReport,
                                  maturity: {"PROVISIONAL", "FINAL"}, chief: 0..MaxAgentRows]]
    /\ finalSeen \in BOOLEAN

PipelineInit ==
    /\ agentSession = "off"
    /\ agentAt = [a \in Agents |-> "off"]
    /\ tryNo = [a \in Agents |-> 0]
    /\ calls = [a \in Agents |-> 0]
    /\ verdict = [a \in Agents |-> "none"]
    /\ agentRows = [a \in Agents |-> [n \in AgentRowIds |-> NoAgentRow]]
    /\ reports = [i \in ReportIds |-> NoReport]
    /\ finalSeen = FALSE

-----------------------------------------------------------------------------
(* get_next_attempt.                                                       *)
NextAttempt(a) == Cardinality({n \in AgentRowIds : agentRows[a][n].status # "none"}) + 1
RoomFor(a) == NextAttempt(a) <= MaxAgentRows

Available == {s \in Specialists : verdict[s] \in GoodAnswer}

(* check_chief_eligibility: all required specialists, or all but one and   *)
(* at least two.                                                           *)
ChiefEligible ==
    \/ Available = Specialists
    \/ Cardinality(Specialists \ Available) <= 1 /\ Cardinality(Available) >= 2

(* _build_chief_manifest: the specialists whose results the chief is given.*)
Manifest(a) == IF a = Chief THEN Available ELSE {}

(* _create_new_attempt, create_input_manifest and the update to RUNNING.   *)
(* Only the chief names its model in the row.                              *)
NewRow(a, status) ==
    [status |-> status, result |-> FALSE, model |-> (a = Chief),
     seen |-> Manifest(a)]

(* The coroutine is over, with a status for the orchestrator; the row it   *)
(* worked on becomes row.                                                  *)
Conclude(a, status, row) ==
    /\ agentRows' = [agentRows EXCEPT ![a][tryNo[a]] = row]
    /\ verdict' = [verdict EXCEPT ![a] = status]
    /\ agentAt' = [agentAt EXCEPT ![a] = "ended"]

(* _finalize_attempt: the result, if there is one, then the status.        *)
Finalized(a, status) ==
    [agentRows[a][tryNo[a]] EXCEPT !.status = status, !.result = (status \in GoodAnswer)]

-----------------------------------------------------------------------------
(* run(): the dataset is ready; every specialist gets a coroutine.  The    *)
(* runner never orchestrates a provisional dataset after a final one.      *)
StartSession(m) ==
    /\ agentSession = "off"
    /\ m = "PROVISIONAL" => ~finalSeen
    /\ agentSession' = m
    /\ agentAt' = [a \in Agents |-> "start"]
    /\ finalSeen' = (finalSeen \/ m = "FINAL")
    /\ UNCHANGED <<tryNo, calls, verdict, agentRows, reports>>

(* run(): not ready; _skip_all_agents writes one SKIPPED row per agent.    *)
SkipAll ==
    /\ agentSession = "off"
    /\ \A a \in Agents : RoomFor(a)
    /\ agentRows' = [a \in Agents |->
           [agentRows[a] EXCEPT ![NextAttempt(a)] = [NoAgentRow EXCEPT !.status = "SKIPPED"]]]
    /\ UNCHANGED <<agentSession, agentAt, tryNo, calls, verdict, reports, finalSeen>>

MayStart(a) ==
    /\ agentSession # "off" /\ agentAt[a] = "start"
    /\ a = Chief => /\ \A s \in Specialists : agentAt[s] = "ended"
                    /\ ChiefEligible

(* The early returns: a disabled agent, a missing registry entry, an input *)
(* that cannot be assembled, a chief without a model.  No row is written.  *)
Refuse(a, status) ==
    /\ MayStart(a)
    /\ status = "SKIPPED" => a # Chief
    /\ verdict' = [verdict EXCEPT ![a] = status]
    /\ agentAt' = [agentAt EXCEPT ![a] = "ended"]
    /\ UNCHANGED <<agentSession, tryNo, calls, agentRows, reports, finalSeen>>

(* The idempotency check: a completed row with the same model and the same *)
(* input.  The dataset is the same; a chief's input also holds the results *)
(* of the specialists.                                                     *)
Reusable(a, n) ==
    /\ agentRows[a][n].status \in GoodAnswer /\ agentRows[a][n].result
    /\ agentRows[a][n].model
    /\ a = Chief => agentRows[a][n].seen = Available

Reuse(a) ==
    /\ MayStart(a)
    /\ \E n \in AgentRowIds : Reusable(a, n)
    /\ verdict' = [verdict EXCEPT ![a] = "SUCCEEDED"]
    /\ agentAt' = [agentAt EXCEPT ![a] = "ended"]
    /\ UNCHANGED <<agentSession, tryNo, calls, agentRows, reports, finalSeen>>

(* An attempt begins: the coroutine awaits the model.  A specialist looks  *)
(* for a completed row first; the specialists' answers may differ from     *)
(* those a chief saw before.                                               *)
CallAgent(a) ==
    /\ MayStart(a)
    /\ a \in Specialists => ~\E n \in AgentRowIds : Reusable(a, n)
    /\ RoomFor(a)
    /\ agentRows' = [agentRows EXCEPT ![a][NextAttempt(a)] = NewRow(a, "RUNNING")]
    /\ tryNo' = [tryNo EXCEPT ![a] = NextAttempt(a)]
    /\ calls' = [calls EXCEPT ![a] = @ + 1]
    /\ agentAt' = [agentAt EXCEPT ![a] = "calling"]
    /\ UNCHANGED <<agentSession, verdict, reports, finalSeen>>

(* The manifest is refused (or the database fails) after the row was       *)
(* created: gather() turns the exception of a specialist into FAILED, the  *)
(* row stays PENDING.                                                      *)
CallBreaks(s) ==
    /\ s \in Specialists /\ MayStart(s) /\ RoomFor(s)
    /\ agentRows' = [agentRows EXCEPT ![s][NextAttempt(s)] = NewRow(s, "PENDING")]
    /\ verdict' = [verdict EXCEPT ![s] = "FAILED"]
    /\ agentAt' = [agentAt EXCEPT ![s] = "ended"]
    /\ UNCHANGED <<agentSession, tryNo, calls, reports, finalSeen>>

(* execute() or repair() returned a valid answer.  What the chief said is  *)
(* validated once more before it is stored, and leads to the report.       *)
AnswerOk(a) ==
    /\ agentAt[a] \in {"calling", "repairing"}
    /\ IF a = Chief
       THEN /\ agentRows' = [agentRows EXCEPT ![a][tryNo[a]] = Finalized(a, "SUCCEEDED")]
            /\ verdict' = [verdict EXCEPT ![a] = "SUCCEEDED"]
            /\ agentAt' = [agentAt EXCEPT ![a] = "superseding"]
       ELSE Conclude(a, "SUCCEEDED", Finalized(a, "SUCCEEDED"))
    /\ UNCHANGED <<agentSession, tryNo, calls, reports, finalSeen>>

(* The answer is valid but create_agent_result raises: the row stays       *)
(* RUNNING and has no result.                                              *)
StoreBreaks(s) ==
    /\ s \in Specialists /\ agentAt[s] \in {"calling", "repairing"}
    /\ Conclude(s, "FAILED", agentRows[s][tryNo[s]])
    /\ UNCHANGED <<agentSession, tryNo, calls, reports, finalSeen>>

(* A terminal error, a failed repair, an exhausted retry, a rejected chief *)
(* answer.                                                                 *)
AnswerBad(a) ==
    /\ agentAt[a] \in {"calling", "repairing"}
    /\ Conclude(a, "FAILED", Finalized(a, "FAILED"))
    /\ UNCHANGED <<agentSession, tryNo, calls, reports, finalSeen>>

(* A schema error: a repair call under a row of its own.  The first row is *)
(* left as it is.                                                          *)
RepairAnswer(s) ==
    /\ s \in Specialists /\ agentAt[s] = "calling" /\ RoomFor(s)
    /\ agentRows' = [agentRows EXCEPT ![s][NextAttempt(s)] = NewRow(s, "RUNNING")]
    /\ tryNo' = [tryNo EXCEPT ![s] = NextAttempt(s)]
    /\ calls' = [calls EXCEPT ![s] = @ + 1]
    /\ agentAt' = [agentAt EXCEPT ![s] = "repairing"]
    /\ UNCHANGED <<agentSession, verdict, reports, finalSeen>>

(* A retryable error before the last attempt: should_retry counts ALL      *)
(* attempts of the analysis run, then the coroutine sleeps.                *)
RetryAgent(s) ==
    /\ s \in Specialists /\ agentAt[s] = "calling"
    /\ tryNo[s] < MaxAttempts
    /\ agentAt' = [agentAt EXCEPT ![s] = "sleeping"]
    /\ UNCHANGED <<agentSession, tryNo, calls, verdict, agentRows, reports, finalSeen>>

(* After the delay: the failed attempt is finalized and the next begins.   *)
WakeAgent(s) ==
    /\ s \in Specialists /\ agentAt[s] = "sleeping" /\ RoomFor(s)
    /\ agentRows' = [agentRows EXCEPT ![s][tryNo[s]] = Finalized(s, "FAILED"),
                                      ![s][NextAttempt(s)] = NewRow(s, "RUNNING")]
    /\ tryNo' = [tryNo EXCEPT ![s] = NextAttempt(s)]
    /\ calls' = [calls EXCEPT ![s] = @ + 1]
    /\ agentAt' = [agentAt EXCEPT ![s] = "calling"]
    /\ UNCHANGED <<agentSession, verdict, reports, finalSeen>>

-----------------------------------------------------------------------------
(* _persist_daily_report.                                                  *)
NextReport == Cardinality({i \in ReportIds : reports[i].status # "none"}) + 1

(* Reports the new one replaces: same maturity, and for a FINAL report the *)
(* provisional ones.                                                       *)
Replaced ==
    {i \in ReportIds : reports[i].status \in CurrentReport
                       /\ (reports[i].maturity = agentSession \/ agentSession = "FINAL")}

(* Mutant: a FINAL report leaves the provisional one current.              *)
SupersedeOwn ==
    /\ agentAt[Chief] = "superseding" /\ NextReport <= MaxReports
    /\ reports' = [i \in ReportIds |->
           IF i \in Replaced /\ reports[i].maturity = agentSession
           THEN [reports[i] EXCEPT !.status = "SUPERSEDED"]
           ELSE IF i = NextReport
           THEN [status |-> "DRAFT", maturity |-> agentSession, chief |-> tryNo[Chief]]
           ELSE reports[i]]
    /\ agentAt' = [agentAt EXCEPT ![Chief] = "drafted"]
    /\ UNCHANGED <<agentSession, tryNo, calls, verdict, agentRows, finalSeen>>

(* The replaced reports are SUPERSEDED one by one, then the DRAFT is       *)
(* inserted.                                                               *)
DraftReport ==
    /\ agentAt[Chief] = "superseding" /\ NextReport <= MaxReports
    /\ reports' = [i \in ReportIds |->
           IF i \in Replaced THEN [reports[i] EXCEPT !.status = "SUPERSEDED"]
           ELSE IF i = NextReport
           THEN [status |-> "DRAFT", maturity |-> agentSession, chief |-> tryNo[Chief]]
           ELSE reports[i]]
    /\ agentAt' = [agentAt EXCEPT ![Chief] = "drafted"]
    /\ UNCHANGED <<agentSession, tryNo, calls, verdict, agentRows, finalSeen>>

(* A failure on the way: some reports superseded, no new one; swallowed.   *)
DraftBreaks(done) ==
    /\ agentAt[Chief] = "superseding"
    /\ done \subseteq Replaced
    /\ reports' = [i \in ReportIds |->
           IF i \in done THEN [reports[i] EXCEPT !.status = "SUPERSEDED"] ELSE reports[i]]
    /\ agentAt' = [agentAt EXCEPT ![Chief] = "ended"]
    /\ UNCHANGED <<agentSession, tryNo, calls, verdict, agentRows, finalSeen>>

ValidateReport(ok) ==
    /\ agentAt[Chief] = "drafted"
    /\ reports' = IF ok THEN [reports EXCEPT ![NextReport - 1].status = "VALIDATED"] ELSE reports
    /\ agentAt' = [agentAt EXCEPT ![Chief] = "ended"]
    /\ UNCHANGED <<agentSession, tryNo, calls, verdict, agentRows, finalSeen>>

(* The locals of run() and of the coroutines are gone.                     *)
SessionOver ==
    /\ agentSession' = "off"
    /\ agentAt' = [a \in Agents |-> "off"]
    /\ tryNo' = [a \in Agents |-> 0]
    /\ calls' = [a \in Agents |-> 0]
    /\ verdict' = [a \in Agents |-> "none"]

(* run() returns.                                                          *)
EndSession ==
    /\ agentSession # "off"
    /\ \A s \in Specialists : agentAt[s] = "ended"
    /\ agentAt[Chief] = "ended" \/ (agentAt[Chief] = "start" /\ ~ChiefEligible)
    /\ SessionOver
    /\ UNCHANGED <<agentRows, reports, finalSeen>>

(* The process dies (the chief's coroutine raising ends run() the same     *)
(* way).  stored: it died between the result and the status of one row.    *)
KillPipeline(stored) ==
    /\ agentSession # "off"
    /\ stored \in {{}} \union {{a} : a \in {b \in Agents : agentAt[b] \in {"calling", "repairing"}}}
    /\ agentRows' = [a \in Agents |->
           IF a \in stored THEN [agentRows[a] EXCEPT ![tryNo[a]].result = TRUE] ELSE agentRows[a]]
    /\ SessionOver
    /\ UNCHANGED <<reports, finalSeen>>

(* recover_stale_runs: RUNNING rows of a session that is gone.             *)
RecoverStale ==
    /\ agentSession = "off"
    /\ \E a \in Agents, n \in AgentRowIds : agentRows[a][n].status = "RUNNING"
    /\ agentRows' = [a \in Agents |-> [n \in AgentRowIds |->
           IF agentRows[a][n].status = "RUNNING"
           THEN [agentRows[a][n] EXCEPT !.status = "FAILED"] ELSE agentRows[a][n]]]
    /\ UNCHANGED <<agentSession, agentAt, tryNo, calls, verdict, reports, finalSeen>>

(* What the event loop does by itself.                                     *)
PipelineProgress ==
    \/ \E a \in Agents :
          \/ Refuse(a, "FAILED") \/ Refuse(a, "SKIPPED") \/ Reuse(a) \/ CallAgent(a) \/ CallBreaks(a)
          \/ AnswerOk(a) \/ StoreBreaks(a) \/ AnswerBad(a)
          \/ RepairAnswer(a) \/ RetryAgent(a) \/ WakeAgent(a)
    \/ DraftReport \/ (\E done \in SUBSET ReportIds : DraftBreaks(done))
    \/ (\E ok \in BOOLEAN : ValidateReport(ok))
    \/ EndSession

PipelineNext ==
    \/ \E m \in {"PROVISIONAL", "FINAL"} : StartSession(m)
    \/ SkipAll \/ RecoverStale
    \/ \E stored \in SUBSET Agents : KillPipeline(stored)
    \/ PipelineProgress

PipelineSpec == PipelineInit /\ [][PipelineNext]_pipelineVars

-----------------------------------------------------------------------------
(* Properties.                                                             *)

(* At most one report of a maturity is current, and a current FINAL report *)
(* leaves no provisional one current, whatever died on the way.            *)
OneCurrentReport ==
    \A i, j \in ReportIds :
        reports[i].status \in CurrentReport /\ reports[j].status \in CurrentReport => i = j

(* A report rests on a stored chief result, and that on the stored results *)
(* of enough specialists.                                                  *)
ReportIsBacked ==
    \A i \in ReportIds : reports[i].status # "none" =>
        LET row == agentRows[Chief][reports[i].chief]
        IN /\ row.status = "SUCCEEDED" /\ row.result
           /\ Cardinality(row.seen) >= 2
           /\ \A s \in row.seen : \E n \in AgentRowIds :
                 agentRows[s][n].status = "SUCCEEDED" /\ agentRows[s][n].result

(* The model is asked at most max_attempts times per specialist and        *)
(* session; a repair call comes on top.                                    *)
AttemptBudget == \A s \in Specialists : agentAt[s] = "calling" => calls[s] <= MaxAttempts

(* A session that is not killed ends: every coroutine ends, and run()      *)
(* returns.                                                                *)
SessionEnds == (agentSession # "off") ~> (agentSession = "off")

(* Reports, results and attempts agree, over every crash and restart of a  *)
(* session.                                                                *)
PipelineSafe ==
    PipelineTypeOK /\ OneCurrentReport /\ ReportIsBacked /\ AttemptBudget
=============================================================================

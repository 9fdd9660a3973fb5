------------------------- MODULE AgentPipelineProofs -------------------------
(***************************************************************************)
(* Proofs about the analytics programs.                                    *)
(*                                                                         *)
(* AgentPipeline: the attempts and results of the agents and the daily     *)
(* reports that rest on them.                                              *)
(*                                                                         *)
(* AnalyticsRunner: the run row, its stages and the publications.          *)
(*                                                                         *)
(* ResearchFindings: the registry of findings under overlapping            *)
(* ingestions, failures, replays and status updates.                       *)
(*                                                                         *)
(* ShadowStudy: what the shadow evaluators store, from candle answers with *)
(* any defect.                                                             *)
(***************************************************************************)
EXTENDS AgentPipeline, AnalyticsRunner, ResearchFindings, ShadowStudy,
        FiniteSetTheorems, WellFoundedInduction, TLAPS

-----------------------------------------------------------------------------
(* AgentPipeline: the inductive invariant, in parts.                       *)

(* Rows are numbered without a gap, so the next attempt is a free row.     *)
RowsInOrder ==
    \A a \in Agents : \A m, n \in AgentRowIds :
        m < n /\ agentRows[a][n].status # "none" => agentRows[a][m].status # "none"

ReportsInOrder ==
    \A i, j \in ReportIds : i < j /\ reports[j].status # "none" => reports[i].status # "none"

(* A coroutine that is under way works on a RUNNING row of its own.        *)
Calling == {"calling", "repairing", "sleeping"}
WorkedOn ==
    \A a \in Agents : agentAt[a] \in Calling =>
        tryNo[a] \in AgentRowIds /\ agentRows[a][tryNo[a]].status = "RUNNING"

(* Every call has its row, and a coroutine sleeps only before its last.    *)
Budget ==
    \A a \in Agents :
        /\ agentAt[a] \in {"off", "start"} => calls[a] = 0
        /\ agentAt[a] \in Calling => calls[a] <= tryNo[a]
        /\ agentAt[a] \in {"calling", "repairing", "sleeping"} => calls[a] <= MaxAttempts + 1
        /\ agentAt[a] = "calling" => calls[a] <= MaxAttempts
        /\ agentAt[a] = "sleeping" => calls[a] < MaxAttempts

(* No coroutine outlives its session.                                      *)
Idle == agentSession = "off" => agentAt = [a \in Agents |-> "off"]

(* A row that succeeded has its result, a good verdict its row.            *)
Good(row) == row.status = "SUCCEEDED" /\ row.result
HasGood(s) == \E n \in AgentRowIds : Good(agentRows[s][n])
ResultsStored ==
    /\ \A a \in Agents, n \in AgentRowIds :
          agentRows[a][n].status = "SUCCEEDED" => agentRows[a][n].result
    /\ \A s \in Specialists : verdict[s] \in GoodAnswer => HasGood(s)

(* A chief row that runs or succeeded was given enough stored results.     *)
ChiefBacked ==
    \A n \in AgentRowIds : agentRows[Chief][n].status \in {"RUNNING", "SUCCEEDED"} =>
        /\ Cardinality(agentRows[Chief][n].seen) >= 2
        /\ \A s \in agentRows[Chief][n].seen : HasGood(s)

(* The chief's last steps: its row succeeded, then a DRAFT is the newest   *)
(* report.                                                                 *)
ChiefAtReport ==
    /\ \A s \in Specialists : agentAt[s] \notin {"superseding", "drafted"}
    /\ agentAt[Chief] \in {"superseding", "drafted"} =>
          tryNo[Chief] \in AgentRowIds /\ agentRows[Chief][tryNo[Chief]].status = "SUCCEEDED"
    /\ agentAt[Chief] = "drafted" =>
          NextReport - 1 \in ReportIds /\ reports[NextReport - 1].status = "DRAFT"

(* A report names a chief row that succeeded.                              *)
ReportsNamed ==
    \A i \in ReportIds : reports[i].status # "none" =>
        reports[i].chief \in AgentRowIds
        /\ agentRows[Chief][reports[i].chief].status = "SUCCEEDED"

(* No provisional session comes after a FINAL report.                      *)
FinalIsLast ==
    /\ agentSession = "PROVISIONAL" => ~finalSeen
    /\ agentSession = "FINAL" => finalSeen
    /\ \A i \in ReportIds :
          reports[i].status # "none" /\ reports[i].maturity = "FINAL" => finalSeen

IInv ==
    /\ PipelineTypeOK /\ RowsInOrder /\ ReportsInOrder /\ WorkedOn /\ Budget /\ Idle
    /\ ResultsStored /\ ChiefBacked /\ ChiefAtReport /\ ReportsNamed /\ FinalIsLast
    /\ OneCurrentReport

-----------------------------------------------------------------------------
(* The next free row.                                                      *)

LEMMA NatMin ==
    ASSUME NEW T, T \subseteq Nat, T # {}
    PROVE  \E m \in T : \A k \in T : m <= k
<1> DEFINE R == OpToRel(<, Nat)
<1>1. R = {ss \in Nat \X Nat : ss[1] < ss[2]}
  BY DEF OpToRel
<1>2. IsWellFoundedOn(R, Nat)
  BY NatLessThanWellFounded
<1> HIDE DEF R
<1>3. PICK m \in T : \A y \in T : ~(<<y, m>> \in R)
  BY <1>2, WFMin
<1>4. \A y \in T : ~(y < m)
  BY <1>1, <1>3
<1>5. QED BY <1>3, <1>4

(* A set of numbers without a gap is an interval, and its size its end.    *)
LEMMA WithoutGap ==
    ASSUME NEW M \in Nat, NEW S \in SUBSET (1..M),
           \A m, n \in 1..M : m < n /\ n \in S => m \in S
    PROVE  Cardinality(S) \in 0..M /\ S = 1..Cardinality(S)
<1> DEFINE T == {k \in Nat : k + 1 \notin S}
<1>1. M \in T
  OBVIOUS
<1> HIDE DEF T
<1>2. PICK k \in T : \A j \in T : k <= j
  BY <1>1, NatMin DEF T
<1>3. k \in 0..M /\ k + 1 \notin S
  BY <1>1, <1>2 DEF T
<1>4. ASSUME NEW n \in 1..k PROVE n \in S
  <2>1. n - 1 \in Nat /\ n - 1 < k
    BY <1>3
  <2>2. n - 1 \notin T
    BY <1>2, <2>1 DEF T
  <2>3. QED BY <2>1, <2>2 DEF T
<1>5. ASSUME NEW n \in S PROVE n \in 1..k
  <2>1. CASE n > k + 1
    <3>1. k + 1 \in 1..M
      BY <1>3, <2>1
    <3>2. QED BY <1>3, <2>1, <3>1
  <2>2. QED BY <1>3, <2>1
<1>6. S = 1..k
  BY <1>4, <1>5
<1>7. Cardinality(1..k) = k
  BY <1>3, FS_Interval
<1>8. QED BY <1>3, <1>6, <1>7

LEMMA Constants ==
    /\ MaxAttempts \in Nat /\ MaxAttempts > 0 /\ MaxAgentRows \in Nat /\ MaxReports \in Nat
    /\ Chief \in Agents /\ Chief \notin Specialists /\ Specialists \subseteq Agents
    /\ \A a \in Agents : a # Chief => a \in Specialists
BY PipelineConstants DEF Agents

(* get_next_attempt numbers a row that is free and follows all others.     *)
LEMMA NextIsFree ==
    ASSUME PipelineTypeOK, RowsInOrder, NEW a \in Agents
    PROVE  /\ NextAttempt(a) \in 1..(MaxAgentRows + 1)
           /\ \A n \in AgentRowIds : agentRows[a][n].status = "none" <=> n >= NextAttempt(a)
<1> DEFINE S == {n \in AgentRowIds : agentRows[a][n].status # "none"}
<1>1. S \in SUBSET (1..MaxAgentRows) /\ NextAttempt(a) = Cardinality(S) + 1
  BY DEF AgentRowIds, NextAttempt
<1>2. \A m, n \in 1..MaxAgentRows : m < n /\ n \in S => m \in S
  BY DEF RowsInOrder, AgentRowIds
<1>3. \A n \in AgentRowIds : n \in S <=> agentRows[a][n].status # "none"
  OBVIOUS
<1> HIDE DEF S
<1>4. Cardinality(S) \in 0..MaxAgentRows /\ S = 1..Cardinality(S)
  BY <1>1, <1>2, Constants, WithoutGap
<1>5. QED BY <1>1, <1>3, <1>4, Constants DEF AgentRowIds

LEMMA NextReportIsFree ==
    ASSUME PipelineTypeOK, ReportsInOrder
    PROVE  /\ NextReport \in 1..(MaxReports + 1)
           /\ \A i \in ReportIds : reports[i].status = "none" <=> i >= NextReport
<1> DEFINE S == {i \in ReportIds : reports[i].status # "none"}
<1>1. S \in SUBSET (1..MaxReports) /\ NextReport = Cardinality(S) + 1
  BY DEF ReportIds, NextReport
<1>2. \A m, n \in 1..MaxReports : m < n /\ n \in S => m \in S
  BY DEF ReportsInOrder, ReportIds
<1>3. \A i \in ReportIds : i \in S <=> reports[i].status # "none"
  OBVIOUS
<1> HIDE DEF S
<1>4. Cardinality(S) \in 0..MaxReports /\ S = 1..Cardinality(S)
  BY <1>1, <1>2, Constants, WithoutGap
<1>5. QED BY <1>1, <1>3, <1>4, Constants DEF ReportIds

(* A row that is in use comes before the next free one.                    *)
LEMMA WorkedBefore ==
    ASSUME PipelineTypeOK, RowsInOrder, WorkedOn, NEW a \in Agents, agentAt[a] \in Calling
    PROVE  tryNo[a] \in AgentRowIds /\ tryNo[a] < NextAttempt(a)
<1>1. tryNo[a] \in AgentRowIds /\ agentRows[a][tryNo[a]].status = "RUNNING"
  BY DEF WorkedOn
<1>2. ~(tryNo[a] >= NextAttempt(a))
  BY <1>1, NextIsFree
<1>3. QED BY <1>1, <1>2, NextIsFree, Constants DEF AgentRowIds

(* Writing one row of one agent.                                           *)
LEMMA OneRow ==
    ASSUME NEW f \in [Agents -> [AgentRowIds -> AgentRow]], NEW a \in Agents,
           NEW k \in AgentRowIds, NEW row \in AgentRow
    PROVE  /\ [f EXCEPT ![a][k] = row] \in [Agents -> [AgentRowIds -> AgentRow]]
           /\ \A b \in Agents, n \in AgentRowIds :
                 [f EXCEPT ![a][k] = row][b][n] = IF b = a /\ n = k THEN row ELSE f[b][n]
           /\ \A b \in Agents \ {a} : [f EXCEPT ![a][k] = row][b] = f[b]
OBVIOUS

-----------------------------------------------------------------------------
(* What a step may do, in kinds.                                           *)

(* A row stays, or is a new one in the next free place, or it was RUNNING  *)
(* and is over.                                                            *)
IsAdded(a, row) ==
    /\ row.status \in {"PENDING", "RUNNING", "SKIPPED"}
    /\ a = Chief /\ row.status = "RUNNING" => row.seen = Available /\ ChiefEligible
IsTurned(old, new) ==
    /\ old.status = "RUNNING" /\ new.status \in {"RUNNING", "FAILED", "SUCCEEDED"}
    /\ new.seen = old.seen
    /\ new.status = "SUCCEEDED" => new.result

RowMoves(a, n) ==
    \/ agentRows'[a][n] = agentRows[a][n]
    \/ n = NextAttempt(a) /\ IsAdded(a, agentRows'[a][n])
    \/ IsTurned(agentRows[a][n], agentRows'[a][n])
RowsMove == \A a \in Agents, n \in AgentRowIds : RowMoves(a, n)

SameReports == reports' = reports /\ finalSeen' = finalSeen

(* A coroutine ends, makes a call, falls asleep, or is the chief's and     *)
(* has a stored answer.                                                    *)
Ends(a) ==
    /\ agentAt'[a] = "ended"
    /\ a \in Specialists /\ verdict'[a] \in GoodAnswer =>
          \E n \in AgentRowIds : Good(agentRows'[a][n])
Asks(a) ==
    /\ \/ agentAt[a] \in {"start", "sleeping"} /\ agentAt'[a] = "calling"
       \/ agentAt[a] = "calling" /\ agentAt'[a] = "repairing"
    /\ tryNo'[a] = NextAttempt(a) /\ tryNo'[a] \in AgentRowIds
    /\ calls'[a] = calls[a] + 1
    /\ verdict'[a] = verdict[a]
    /\ agentRows'[a][tryNo'[a]].status = "RUNNING"
Sleeps(a) ==
    /\ agentAt[a] = "calling" /\ agentAt'[a] = "sleeping" /\ tryNo[a] < MaxAttempts
    /\ tryNo'[a] = tryNo[a] /\ calls'[a] = calls[a] /\ verdict'[a] = verdict[a]
    /\ agentRows'[a] = agentRows[a]
Answers(a) ==
    /\ a = Chief /\ agentAt'[a] = "superseding"
    /\ tryNo'[a] = tryNo[a] /\ tryNo[a] \in AgentRowIds
    /\ agentRows'[a][tryNo[a]].status = "SUCCEEDED"

Moves(a) ==
    /\ agentSession' = agentSession /\ SameReports
    /\ agentAt[a] \in Calling \union {"start"}
    /\ \A b \in Agents \ {a} :
          /\ agentAt'[b] = agentAt[b] /\ tryNo'[b] = tryNo[b] /\ calls'[b] = calls[b]
          /\ verdict'[b] = verdict[b] /\ agentRows'[b] = agentRows[b]
    /\ \A n \in AgentRowIds : RowMoves(a, n)
    /\ Ends(a) \/ Asks(a) \/ Sleeps(a) \/ Answers(a)

(* Between two sessions only rows change; a session that is over leaves    *)
(* the reports alone.                                                      *)
Between ==
    /\ agentSession = "off" /\ RowsMove /\ SameReports
    /\ UNCHANGED <<agentSession, agentAt, tryNo, calls, verdict>>
Over == SessionOver /\ RowsMove /\ SameReports

Reporting ==
    \/ DraftReport
    \/ \E done \in SUBSET ReportIds : DraftBreaks(done)
    \/ \E ok \in BOOLEAN : ValidateReport(ok)

Kinds ==
    \/ \E m \in {"PROVISIONAL", "FINAL"} : StartSession(m)
    \/ Between \/ Over \/ Reporting
    \/ \E a \in Agents : Moves(a)

-----------------------------------------------------------------------------
(* Every step is of one of these kinds and keeps the types.                *)

(* What the lemmas on single actions start from.                           *)
Basics == PipelineTypeOK /\ RowsInOrder /\ WorkedOn /\ Budget

LEMMA NewRowType ==
    ASSUME NEW a \in Agents, NEW st \in {"PENDING", "RUNNING"}
    PROVE  /\ NewRow(a, st) \in AgentRow
           /\ NewRow(a, st).status = st
           /\ a = Chief => NewRow(a, st).seen = Available
BY DEF NewRow, AgentRow, Available, Manifest

LEMMA FinalizedType ==
    ASSUME PipelineTypeOK, NEW a \in Agents, tryNo[a] \in AgentRowIds,
           NEW st \in {"SUCCEEDED", "FAILED"}
    PROVE  /\ Finalized(a, st) \in AgentRow
           /\ Finalized(a, st).status = st
           /\ Finalized(a, st).seen = agentRows[a][tryNo[a]].seen
           /\ st = "SUCCEEDED" => Finalized(a, st).result
<1>1. agentRows[a][tryNo[a]] \in AgentRow
  BY DEF PipelineTypeOK
<1> DEFINE r == agentRows[a][tryNo[a]]
           new == [r EXCEPT !.status = st, !.result = (st \in GoodAnswer)]
<1>2. (st \in GoodAnswer) \in BOOLEAN /\ (st = "SUCCEEDED" => (st \in GoodAnswer) = TRUE)
  BY DEF GoodAnswer
<1>3. new = Finalized(a, st)
  BY DEF Finalized
<1> HIDE DEF r
<1>4. new \in AgentRow /\ new.status = st /\ new.seen = r.seen
      /\ new.result = (st \in GoodAnswer)
  BY <1>1, <1>2 DEF AgentRow, r
<1>5. QED BY <1>2, <1>3, <1>4 DEF r

LEMMA DoRefuse ==
    ASSUME Basics, NEW a \in Agents, NEW st \in {"FAILED", "SKIPPED"}, Refuse(a, st)
    PROVE  PipelineTypeOK' /\ Moves(a)
<1>1. PipelineTypeOK'
  BY DEF Basics, PipelineTypeOK, Refuse
<1>2. agentAt'[a] = "ended" /\ verdict'[a] = st /\ agentAt[a] = "start"
  BY DEF Basics, PipelineTypeOK, Refuse, MayStart
<1>3. \A b \in Agents \ {a} :
          /\ agentAt'[b] = agentAt[b] /\ tryNo'[b] = tryNo[b] /\ calls'[b] = calls[b]
          /\ verdict'[b] = verdict[b] /\ agentRows'[b] = agentRows[b]
  BY DEF Basics, PipelineTypeOK, Refuse
<1>4. agentRows' = agentRows /\ agentSession' = agentSession /\ SameReports
  BY DEF Refuse, SameReports
<1>5. QED BY <1>1, <1>2, <1>3, <1>4 DEF Moves, Ends, RowMoves, GoodAnswer

LEMMA DoReuse ==
    ASSUME Basics, NEW a \in Agents, Reuse(a)
    PROVE  PipelineTypeOK' /\ Moves(a)
<1>1. PipelineTypeOK'
  BY DEF Basics, PipelineTypeOK, Reuse, GoodAnswer
<1>2. agentAt'[a] = "ended" /\ agentAt[a] = "start"
  BY DEF Basics, PipelineTypeOK, Reuse, MayStart
<1>3. \A b \in Agents \ {a} :
          /\ agentAt'[b] = agentAt[b] /\ tryNo'[b] = tryNo[b] /\ calls'[b] = calls[b]
          /\ verdict'[b] = verdict[b] /\ agentRows'[b] = agentRows[b]
  BY DEF Basics, PipelineTypeOK, Reuse
<1>4. agentRows' = agentRows /\ agentSession' = agentSession /\ SameReports
  BY DEF Reuse, SameReports
<1>5. PICK n \in AgentRowIds : Reusable(a, n)
  BY DEF Reuse
<1>6. agentRows[a][n] \in AgentRow
  BY DEF Basics, PipelineTypeOK
<1>7. Good(agentRows[a][n])
  BY <1>5, <1>6 DEF Reusable, Good, GoodAnswer, AgentRow
<1>8. QED BY <1>1, <1>2, <1>3, <1>4, <1>7 DEF Moves, Ends, RowMoves

(* A new row for a, and what it changes.                                   *)
LEMMA AddsRow ==
    ASSUME PipelineTypeOK, NEW a \in Agents, NEW st \in {"PENDING", "RUNNING"},
           NextAttempt(a) \in AgentRowIds,
           a = Chief => ChiefEligible,
           agentRows' = [agentRows EXCEPT ![a][NextAttempt(a)] = NewRow(a, st)]
    PROVE  /\ agentRows' \in [Agents -> [AgentRowIds -> AgentRow]]
           /\ \A b \in Agents \ {a} : agentRows'[b] = agentRows[b]
           /\ \A n \in AgentRowIds : RowMoves(a, n)
           /\ agentRows'[a][NextAttempt(a)].status = st
<1> DEFINE row == NewRow(a, st)
           k == NextAttempt(a)
<1>1. row \in AgentRow /\ row.status = st /\ (a = Chief => row.seen = Available)
  BY NewRowType
<1>2. IsAdded(a, row)
  BY <1>1 DEF IsAdded
<1>3. agentRows' = [agentRows EXCEPT ![a][k] = row] /\ k \in AgentRowIds
  OBVIOUS
<1>4. agentRows \in [Agents -> [AgentRowIds -> AgentRow]]
  BY DEF PipelineTypeOK
<1> HIDE DEF row, k
<1>5. /\ agentRows' \in [Agents -> [AgentRowIds -> AgentRow]]
      /\ \A b \in Agents, n \in AgentRowIds :
            agentRows'[b][n] = IF b = a /\ n = k THEN row ELSE agentRows[b][n]
      /\ \A b \in Agents \ {a} : agentRows'[b] = agentRows[b]
  BY <1>1, <1>3, <1>4, OneRow
<1>6. agentRows'[a][k] = row /\ \A n \in AgentRowIds : n # k => agentRows'[a][n] = agentRows[a][n]
  BY <1>3, <1>5
<1>7. \A n \in AgentRowIds : n = k \/ agentRows'[a][n] = agentRows[a][n]
  BY <1>6
<1>8. \A n \in AgentRowIds : RowMoves(a, n)
  BY <1>2, <1>6, <1>7 DEF RowMoves, k
<1>9. QED BY <1>1, <1>5, <1>6, <1>8 DEF k

(* The row a works on is replaced by row.                                  *)
LEMMA TurnsRow ==
    ASSUME Basics, NEW a \in Agents, agentAt[a] \in Calling,
           NEW row \in AgentRow, IsTurned(agentRows[a][tryNo[a]], row),
           agentRows' = [agentRows EXCEPT ![a][tryNo[a]] = row]
    PROVE  /\ agentRows' \in [Agents -> [AgentRowIds -> AgentRow]]
           /\ \A b \in Agents \ {a} : agentRows'[b] = agentRows[b]
           /\ \A n \in AgentRowIds : RowMoves(a, n)
           /\ agentRows'[a][tryNo[a]] = row
<1> DEFINE k == tryNo[a]
<1>1. k \in AgentRowIds /\ agentRows' = [agentRows EXCEPT ![a][k] = row]
  BY DEF Basics, WorkedOn
<1>2. agentRows \in [Agents -> [AgentRowIds -> AgentRow]]
  BY DEF Basics, PipelineTypeOK
<1>3. IsTurned(agentRows[a][k], row)
  OBVIOUS
<1> HIDE DEF k
<1> DEFINE f == [agentRows EXCEPT ![a][k] = row]
<1>a. /\ f \in [Agents -> [AgentRowIds -> AgentRow]]
      /\ \A b \in Agents, n \in AgentRowIds :
            f[b][n] = IF b = a /\ n = k THEN row ELSE agentRows[b][n]
      /\ \A b \in Agents \ {a} : f[b] = agentRows[b]
  BY <1>1, <1>2, OneRow
<1>b. agentRows' = f
  BY <1>1
<1> HIDE DEF f
<1>4. /\ agentRows' \in [Agents -> [AgentRowIds -> AgentRow]]
      /\ \A b \in Agents, n \in AgentRowIds :
            agentRows'[b][n] = IF b = a /\ n = k THEN row ELSE agentRows[b][n]
      /\ \A b \in Agents \ {a} : agentRows'[b] = agentRows[b]
  BY <1>a, <1>b
<1>5. agentRows'[a][k] = row /\ \A n \in AgentRowIds : n # k => agentRows'[a][n] = agentRows[a][n]
  BY <1>1, <1>4
<1>6. \A n \in AgentRowIds : RowMoves(a, n)
  BY <1>3, <1>5 DEF RowMoves
<1>7. QED BY <1>4, <1>5, <1>6 DEF k

LEMMA DoCallAgent ==
    ASSUME Basics, NEW a \in Agents, CallAgent(a)
    PROVE  PipelineTypeOK' /\ Moves(a)
<1>1. NextAttempt(a) \in AgentRowIds
  BY NextIsFree, Constants DEF Basics, CallAgent, RoomFor, AgentRowIds
<1>2. agentRows' = [agentRows EXCEPT ![a][NextAttempt(a)] = NewRow(a, "RUNNING")]
      /\ (a = Chief => ChiefEligible) /\ agentAt[a] = "start"
  BY DEF CallAgent, MayStart
<1>3. /\ agentRows' \in [Agents -> [AgentRowIds -> AgentRow]]
      /\ \A b \in Agents \ {a} : agentRows'[b] = agentRows[b]
      /\ \A n \in AgentRowIds : RowMoves(a, n)
      /\ agentRows'[a][NextAttempt(a)].status = "RUNNING"
  BY <1>1, <1>2, AddsRow DEF Basics
<1>4. calls[a] = 0
  BY <1>2 DEF Basics, Budget
<1>5. PipelineTypeOK'
  BY <1>1, <1>3, <1>4, Constants DEF Basics, PipelineTypeOK, CallAgent, AgentRowIds
<1>6. \A b \in Agents \ {a} :
          agentAt'[b] = agentAt[b] /\ tryNo'[b] = tryNo[b] /\ calls'[b] = calls[b]
          /\ verdict'[b] = verdict[b]
  BY DEF Basics, PipelineTypeOK, CallAgent
<1>7. tryNo'[a] = NextAttempt(a) /\ calls'[a] = calls[a] + 1 /\ verdict'[a] = verdict[a]
      /\ agentAt'[a] = "calling" /\ agentSession' = agentSession /\ SameReports
  BY DEF Basics, PipelineTypeOK, CallAgent, SameReports
<1>8. Asks(a)
  BY <1>1, <1>2, <1>3, <1>7 DEF Asks
<1>9. QED BY <1>2, <1>3, <1>5, <1>6, <1>7, <1>8 DEF Moves

LEMMA DoRepairAnswer ==
    ASSUME Basics, NEW a \in Agents, RepairAnswer(a)
    PROVE  PipelineTypeOK' /\ Moves(a)
<1>1. NextAttempt(a) \in AgentRowIds /\ a # Chief
  BY NextIsFree, Constants DEF Basics, RepairAnswer, RoomFor, AgentRowIds
<1>2. agentRows' = [agentRows EXCEPT ![a][NextAttempt(a)] = NewRow(a, "RUNNING")]
      /\ agentAt[a] = "calling"
  BY DEF RepairAnswer
<1>3. /\ agentRows' \in [Agents -> [AgentRowIds -> AgentRow]]
      /\ \A b \in Agents \ {a} : agentRows'[b] = agentRows[b]
      /\ \A n \in AgentRowIds : RowMoves(a, n)
      /\ agentRows'[a][NextAttempt(a)].status = "RUNNING"
  BY <1>1, <1>2, AddsRow DEF Basics
<1>4. calls[a] <= MaxAttempts /\ calls[a] \in Nat
  BY <1>2, Constants DEF Basics, Budget, PipelineTypeOK
<1>5. PipelineTypeOK'
  BY <1>1, <1>3, <1>4, Constants DEF Basics, PipelineTypeOK, RepairAnswer, AgentRowIds
<1>6. \A b \in Agents \ {a} :
          agentAt'[b] = agentAt[b] /\ tryNo'[b] = tryNo[b] /\ calls'[b] = calls[b]
          /\ verdict'[b] = verdict[b]
  BY DEF Basics, PipelineTypeOK, RepairAnswer
<1>7. tryNo'[a] = NextAttempt(a) /\ calls'[a] = calls[a] + 1 /\ verdict'[a] = verdict[a]
      /\ agentAt'[a] = "repairing" /\ agentSession' = agentSession /\ SameReports
  BY DEF Basics, PipelineTypeOK, RepairAnswer, SameReports
<1>8. Asks(a)
  BY <1>1, <1>2, <1>3, <1>7 DEF Asks
<1>9. QED BY <1>2, <1>3, <1>5, <1>6, <1>7, <1>8 DEF Moves, Calling

LEMMA DoCallBreaks ==
    ASSUME Basics, NEW a \in Agents, CallBreaks(a)
    PROVE  PipelineTypeOK' /\ Moves(a)
<1>1. NextAttempt(a) \in AgentRowIds /\ a # Chief
  BY NextIsFree, Constants DEF Basics, CallBreaks, RoomFor, AgentRowIds
<1>2. agentRows' = [agentRows EXCEPT ![a][NextAttempt(a)] = NewRow(a, "PENDING")]
      /\ agentAt[a] = "start"
  BY DEF CallBreaks, MayStart
<1>3. /\ agentRows' \in [Agents -> [AgentRowIds -> AgentRow]]
      /\ \A b \in Agents \ {a} : agentRows'[b] = agentRows[b]
      /\ \A n \in AgentRowIds : RowMoves(a, n)
  BY <1>1, <1>2, AddsRow DEF Basics
<1>5. PipelineTypeOK'
  BY <1>3 DEF Basics, PipelineTypeOK, CallBreaks
<1>6. \A b \in Agents \ {a} :
          agentAt'[b] = agentAt[b] /\ tryNo'[b] = tryNo[b] /\ calls'[b] = calls[b]
          /\ verdict'[b] = verdict[b]
  BY DEF Basics, PipelineTypeOK, CallBreaks
<1>7. verdict'[a] = "FAILED"
      /\ agentAt'[a] = "ended" /\ agentSession' = agentSession /\ SameReports
  BY DEF Basics, PipelineTypeOK, CallBreaks, SameReports
<1>8. Ends(a)
  BY <1>7 DEF Ends, GoodAnswer
<1>9. QED BY <1>2, <1>3, <1>5, <1>6, <1>7, <1>8 DEF Moves, Calling

LEMMA DoRetryAgent ==
    ASSUME Basics, NEW a \in Agents, RetryAgent(a)
    PROVE  PipelineTypeOK' /\ Moves(a)
<1>1. PipelineTypeOK'
  BY DEF Basics, PipelineTypeOK, RetryAgent
<1>2. Sleeps(a)
  BY DEF Basics, PipelineTypeOK, RetryAgent, Sleeps
<1>3. \A b \in Agents \ {a} :
          agentAt'[b] = agentAt[b] /\ tryNo'[b] = tryNo[b] /\ calls'[b] = calls[b]
          /\ verdict'[b] = verdict[b] /\ agentRows'[b] = agentRows[b]
  BY DEF Basics, PipelineTypeOK, RetryAgent
<1>4. agentRows' = agentRows /\ agentSession' = agentSession /\ SameReports /\ agentAt[a] = "calling"
  BY DEF RetryAgent, SameReports
<1>5. QED BY <1>1, <1>2, <1>3, <1>4 DEF Moves, RowMoves, Calling

(* The row a works on is finalized.                                        *)
LEMMA Finalizes ==
    ASSUME Basics, NEW a \in Agents, agentAt[a] \in Calling, NEW st \in {"SUCCEEDED", "FAILED"}
    PROVE  /\ tryNo[a] \in AgentRowIds
           /\ Finalized(a, st) \in AgentRow
           /\ IsTurned(agentRows[a][tryNo[a]], Finalized(a, st))
<1>1. tryNo[a] \in AgentRowIds /\ agentRows[a][tryNo[a]].status = "RUNNING"
  BY DEF Basics, WorkedOn
<1>2. /\ Finalized(a, st) \in AgentRow
      /\ Finalized(a, st).status = st
      /\ Finalized(a, st).seen = agentRows[a][tryNo[a]].seen
      /\ st = "SUCCEEDED" => Finalized(a, st).result
  BY <1>1, FinalizedType DEF Basics
<1>3. QED BY <1>1, <1>2 DEF IsTurned

(* What Conclude leaves of the other coroutines.                           *)
LEMMA Concludes ==
    ASSUME Basics, NEW a \in Agents, NEW st \in {"SUCCEEDED", "FAILED"}, NEW row \in AgentRow,
           agentAt[a] \in Calling, IsTurned(agentRows[a][tryNo[a]], row),
           st = "SUCCEEDED" => row.status = "SUCCEEDED" /\ row.result,
           Conclude(a, st, row), UNCHANGED <<agentSession, tryNo, calls, reports, finalSeen>>
    PROVE  PipelineTypeOK' /\ Moves(a)
<1>1. agentRows' = [agentRows EXCEPT ![a][tryNo[a]] = row]
  BY DEF Conclude
<1>2. /\ agentRows' \in [Agents -> [AgentRowIds -> AgentRow]]
      /\ \A b \in Agents \ {a} : agentRows'[b] = agentRows[b]
      /\ \A n \in AgentRowIds : RowMoves(a, n)
      /\ agentRows'[a][tryNo[a]] = row
  BY <1>1, TurnsRow
<1>3. verdict' = [verdict EXCEPT ![a] = st] /\ agentAt' = [agentAt EXCEPT ![a] = "ended"]
  BY DEF Conclude
<1>4. PipelineTypeOK'
  BY <1>2, <1>3 DEF Basics, PipelineTypeOK, GoodAnswer
<1>5. \A b \in Agents \ {a} :
          agentAt'[b] = agentAt[b] /\ tryNo'[b] = tryNo[b] /\ calls'[b] = calls[b]
          /\ verdict'[b] = verdict[b]
  BY <1>3 DEF Basics, PipelineTypeOK
<1>6. verdict'[a] = st /\ agentAt'[a] = "ended"
  BY <1>3 DEF Basics, PipelineTypeOK
<1>7. tryNo[a] \in AgentRowIds
  BY DEF Basics, WorkedOn
<1>8. Ends(a)
  BY <1>2, <1>6, <1>7 DEF Ends, Good, GoodAnswer
<1>9. agentSession' = agentSession /\ SameReports
  BY DEF SameReports
<1>10. QED BY <1>2, <1>4, <1>5, <1>8, <1>9 DEF Moves

LEMMA DoAnswerBad ==
    ASSUME Basics, NEW a \in Agents, AnswerBad(a)
    PROVE  PipelineTypeOK' /\ Moves(a)
<1>1. agentAt[a] \in Calling
  BY DEF AnswerBad, Calling
<1>2. Finalized(a, "FAILED") \in AgentRow /\ IsTurned(agentRows[a][tryNo[a]], Finalized(a, "FAILED"))
  BY <1>1, Finalizes
<1> DEFINE row == Finalized(a, "FAILED")
<1>3. Conclude(a, "FAILED", row) /\ UNCHANGED <<agentSession, tryNo, calls, reports, finalSeen>>
  BY DEF AnswerBad
<1>4. row \in AgentRow /\ IsTurned(agentRows[a][tryNo[a]], row)
  BY <1>2
<1> HIDE DEF row
<1>5. QED BY <1>1, <1>3, <1>4, Concludes

LEMMA DoStoreBreaks ==
    ASSUME Basics, NEW a \in Agents, StoreBreaks(a)
    PROVE  PipelineTypeOK' /\ Moves(a)
<1>1. agentAt[a] \in Calling
  BY DEF StoreBreaks, Calling
<1> DEFINE row == agentRows[a][tryNo[a]]
<1>2. row \in AgentRow /\ row.status = "RUNNING"
  BY <1>1 DEF Basics, WorkedOn, PipelineTypeOK
<1>3. Conclude(a, "FAILED", row) /\ UNCHANGED <<agentSession, tryNo, calls, reports, finalSeen>>
  BY DEF StoreBreaks
<1>4. IsTurned(agentRows[a][tryNo[a]], row)
  BY <1>2 DEF IsTurned
<1> HIDE DEF row
<1>5. QED BY <1>1, <1>2, <1>3, <1>4, Concludes

LEMMA DoAnswerOk ==
    ASSUME Basics, NEW a \in Agents, AnswerOk(a)
    PROVE  PipelineTypeOK' /\ Moves(a)
<1>1. agentAt[a] \in Calling
  BY DEF AnswerOk, Calling
<1> DEFINE row == Finalized(a, "SUCCEEDED")
<1>2. row \in AgentRow /\ IsTurned(agentRows[a][tryNo[a]], row) /\ tryNo[a] \in AgentRowIds
  BY <1>1, Finalizes
<1>3. row.status = "SUCCEEDED" /\ row.result
  BY <1>2, FinalizedType DEF Basics
<1>4. UNCHANGED <<agentSession, tryNo, calls, reports, finalSeen>>
  BY DEF AnswerOk
<1>5. CASE a # Chief
  <2>1. Conclude(a, "SUCCEEDED", row)
    BY <1>5 DEF AnswerOk
  <2> HIDE DEF row
  <2>2. QED BY <1>1, <1>2, <1>3, <1>4, <2>1, Concludes
<1>6. CASE a = Chief
  <2>1. /\ agentRows' = [agentRows EXCEPT ![a][tryNo[a]] = row]
        /\ verdict' = [verdict EXCEPT ![a] = "SUCCEEDED"]
        /\ agentAt' = [agentAt EXCEPT ![a] = "superseding"]
    BY <1>6 DEF AnswerOk
  <2> HIDE DEF row
  <2>2. /\ agentRows' \in [Agents -> [AgentRowIds -> AgentRow]]
        /\ \A b \in Agents \ {a} : agentRows'[b] = agentRows[b]
        /\ \A n \in AgentRowIds : RowMoves(a, n)
        /\ agentRows'[a][tryNo[a]] = row
    BY <1>1, <1>2, <2>1, TurnsRow
  <2>3. PipelineTypeOK'
    BY <1>4, <2>1, <2>2 DEF Basics, PipelineTypeOK, GoodAnswer
  <2>4. \A b \in Agents \ {a} :
            agentAt'[b] = agentAt[b] /\ tryNo'[b] = tryNo[b] /\ calls'[b] = calls[b]
            /\ verdict'[b] = verdict[b]
    BY <1>4, <2>1 DEF Basics, PipelineTypeOK
  <2>5. agentAt'[a] = "superseding" /\ tryNo'[a] = tryNo[a]
    BY <1>4, <2>1 DEF Basics, PipelineTypeOK
  <2>6. Answers(a)
    BY <1>2, <1>3, <1>6, <2>2, <2>5 DEF Answers
  <2>7. agentSession' = agentSession /\ SameReports
    BY <1>4 DEF SameReports
  <2>8. QED BY <1>1, <2>2, <2>3, <2>4, <2>6, <2>7 DEF Moves
<1>7. QED BY <1>5, <1>6

LEMMA DoWakeAgent ==
    ASSUME Basics, NEW a \in Agents, WakeAgent(a)
    PROVE  PipelineTypeOK' /\ Moves(a)
<1>1. a # Chief /\ agentAt[a] = "sleeping" /\ agentAt[a] \in Calling
  BY Constants DEF WakeAgent, Calling
<1> DEFINE j == tryNo[a]
           k == NextAttempt(a)
           old == Finalized(a, "FAILED")
           new == NewRow(a, "RUNNING")
           f == [agentRows EXCEPT ![a][j] = old]
           g == [f EXCEPT ![a][k] = new]
<1>2. k \in AgentRowIds
  BY NextIsFree, Constants DEF Basics, WakeAgent, RoomFor, AgentRowIds
<1>3. old \in AgentRow /\ IsTurned(agentRows[a][j], old) /\ j \in AgentRowIds
  BY <1>1, Finalizes
<1>4. new \in AgentRow /\ new.status = "RUNNING"
  BY NewRowType
<1>5. IsAdded(a, new)
  BY <1>1, <1>4 DEF IsAdded
<1>6. j # k
  BY <1>1, <1>2, <1>3, WorkedBefore DEF Basics, AgentRowIds
<1>7. agentRows' = g
  BY DEF WakeAgent
<1>8. agentRows \in [Agents -> [AgentRowIds -> AgentRow]]
  BY DEF Basics, PipelineTypeOK
<1>9. tryNo' = [tryNo EXCEPT ![a] = k]
  BY DEF WakeAgent
<1> HIDE DEF old, new
<1>10. /\ f \in [Agents -> [AgentRowIds -> AgentRow]]
       /\ \A b \in Agents, n \in AgentRowIds : f[b][n] = IF b = a /\ n = j THEN old ELSE agentRows[b][n]
       /\ \A b \in Agents \ {a} : f[b] = agentRows[b]
  <2> HIDE DEF j
  <2>1. QED BY <1>3, <1>8, OneRow
<1> HIDE DEF f
<1>11. /\ g \in [Agents -> [AgentRowIds -> AgentRow]]
       /\ \A b \in Agents, n \in AgentRowIds : g[b][n] = IF b = a /\ n = k THEN new ELSE f[b][n]
       /\ \A b \in Agents \ {a} : g[b] = f[b]
  <2> HIDE DEF k
  <2>1. QED BY <1>2, <1>4, <1>10, OneRow
<1> HIDE DEF g
<1>12. agentRows' \in [Agents -> [AgentRowIds -> AgentRow]]
       /\ \A b \in Agents \ {a} : agentRows'[b] = agentRows[b]
  BY <1>7, <1>10, <1>11
<1>13. ASSUME NEW n \in AgentRowIds
       PROVE  agentRows'[a][n] = IF n = k THEN new ELSE IF n = j THEN old ELSE agentRows[a][n]
  BY <1>7, <1>10, <1>11
<1>14. \A n \in AgentRowIds : RowMoves(a, n)
  BY <1>3, <1>5, <1>13 DEF RowMoves
<1>15. agentRows'[a][k].status = "RUNNING"
  BY <1>2, <1>4, <1>13
<1> HIDE DEF k, j
<1>16. calls[a] < MaxAttempts
  BY <1>1 DEF Basics, Budget
<1>w. /\ calls' = [calls EXCEPT ![a] = @ + 1] /\ agentAt' = [agentAt EXCEPT ![a] = "calling"]
      /\ UNCHANGED <<agentSession, verdict, reports, finalSeen>>
  BY DEF WakeAgent
<1>17. PipelineTypeOK'
  BY <1>2, <1>9, <1>12, <1>16, <1>w, Constants DEF Basics, PipelineTypeOK, AgentRowIds
<1>18. \A b \in Agents \ {a} :
          agentAt'[b] = agentAt[b] /\ tryNo'[b] = tryNo[b] /\ calls'[b] = calls[b]
          /\ verdict'[b] = verdict[b]
  BY <1>9 DEF Basics, PipelineTypeOK, WakeAgent
<1>19. tryNo'[a] = k /\ calls'[a] = calls[a] + 1 /\ verdict'[a] = verdict[a]
      /\ agentAt'[a] = "calling" /\ agentSession' = agentSession /\ SameReports
  BY <1>9 DEF Basics, PipelineTypeOK, WakeAgent, SameReports
<1>20. Asks(a)
  BY <1>1, <1>2, <1>15, <1>19 DEF Asks, k
<1>21. QED BY <1>1, <1>12, <1>14, <1>17, <1>18, <1>19, <1>20 DEF Moves

LEMMA DoStartSession ==
    ASSUME Basics, NEW m \in {"PROVISIONAL", "FINAL"}, StartSession(m)
    PROVE  PipelineTypeOK'
BY DEF Basics, PipelineTypeOK, StartSession

LEMMA DoSkipAll ==
    ASSUME Basics, SkipAll
    PROVE  PipelineTypeOK' /\ Between
<1> DEFINE row == [NoAgentRow EXCEPT !.status = "SKIPPED"]
<1>1. row \in AgentRow /\ row.status = "SKIPPED"
  BY DEF NoAgentRow, AgentRow
<1>2. agentRows' = [a \in Agents |-> [agentRows[a] EXCEPT ![NextAttempt(a)] = row]]
  BY DEF SkipAll
<1>3. \A a \in Agents : NextAttempt(a) \in AgentRowIds
  BY NextIsFree, Constants DEF Basics, SkipAll, RoomFor, AgentRowIds
<1>4. IsAdded(Chief, row) /\ \A a \in Agents : IsAdded(a, row)
  BY <1>1 DEF IsAdded
<1> HIDE DEF row
<1>5. ASSUME NEW a \in Agents
      PROVE  /\ agentRows'[a] \in [AgentRowIds -> AgentRow]
             /\ \A n \in AgentRowIds : RowMoves(a, n)
  <2> DEFINE k == NextAttempt(a)
  <2>1. agentRows[a] \in [AgentRowIds -> AgentRow]
    BY DEF Basics, PipelineTypeOK
  <2>2. k \in AgentRowIds /\ agentRows'[a] = [agentRows[a] EXCEPT ![k] = row] /\ IsAdded(a, row)
    BY <1>2, <1>3, <1>4
  <2> HIDE DEF k
  <2>3. /\ agentRows'[a] \in [AgentRowIds -> AgentRow]
        /\ \A n \in AgentRowIds : agentRows'[a][n] = IF n = k THEN row ELSE agentRows[a][n]
    BY <1>1, <2>1, <2>2
  <2>4. \A n \in AgentRowIds : RowMoves(a, n)
    BY <2>2, <2>3 DEF RowMoves, k
  <2>5. QED BY <2>3, <2>4
<1>6. agentRows' \in [Agents -> [AgentRowIds -> AgentRow]]
  <2>1. DOMAIN agentRows' = Agents /\ agentRows' = [a \in Agents |-> agentRows'[a]]
    BY <1>2
  <2>2. QED BY <1>5, <2>1
<1>7. /\ agentSession = "off"
      /\ UNCHANGED <<agentSession, agentAt, tryNo, calls, verdict, reports, finalSeen>>
  BY DEF SkipAll
<1>8. PipelineTypeOK'
  BY <1>6, <1>7 DEF Basics, PipelineTypeOK
<1>9. QED BY <1>5, <1>7, <1>8 DEF Between, RowsMove, SameReports

LEMMA DoRecoverStale ==
    ASSUME Basics, RecoverStale
    PROVE  PipelineTypeOK' /\ Between
<1>1. ASSUME NEW a \in Agents, NEW n \in AgentRowIds
      PROVE  agentRows'[a][n] \in AgentRow /\ RowMoves(a, n)
  <2> DEFINE r == agentRows[a][n]
             new == [r EXCEPT !.status = "FAILED"]
  <2>1. r \in AgentRow
    BY DEF Basics, PipelineTypeOK
  <2>2. agentRows'[a][n] = IF r.status = "RUNNING" THEN new ELSE r
    BY DEF RecoverStale
  <2> HIDE DEF r
  <2>3. new \in AgentRow /\ new.status = "FAILED" /\ new.seen = r.seen
    BY <2>1 DEF AgentRow
  <2> HIDE DEF new
  <2>4. agentRows'[a][n] \in AgentRow
    BY <2>1, <2>2, <2>3
  <2>5. agentRows'[a][n] = r \/ IsTurned(r, agentRows'[a][n])
    BY <2>2, <2>3 DEF IsTurned
  <2>6. QED BY <2>4, <2>5 DEF RowMoves, r
<1>2. agentRows' = [a \in Agents |-> [n \in AgentRowIds |-> agentRows'[a][n]]]
  BY DEF RecoverStale
<1>3. agentRows' \in [Agents -> [AgentRowIds -> AgentRow]]
  BY <1>1, <1>2
<1>4. /\ agentSession = "off"
      /\ UNCHANGED <<agentSession, agentAt, tryNo, calls, verdict, reports, finalSeen>>
  BY DEF RecoverStale
<1>5. PipelineTypeOK'
  BY <1>3, <1>4 DEF Basics, PipelineTypeOK
<1>6. QED BY <1>1, <1>4, <1>5 DEF Between, RowsMove, SameReports

(* A session that is over, whatever becomes of its rows.                   *)
LEMMA OverTypes ==
    ASSUME Basics, SessionOver, agentRows' \in [Agents -> [AgentRowIds -> AgentRow]],
           reports' = reports, finalSeen' = finalSeen
    PROVE  PipelineTypeOK'
BY Constants DEF Basics, SessionOver, PipelineTypeOK

LEMMA DoEndSession ==
    ASSUME Basics, EndSession
    PROVE  PipelineTypeOK' /\ Over
<1>1. SessionOver /\ agentRows' = agentRows /\ reports' = reports /\ finalSeen' = finalSeen
  BY DEF EndSession
<1>2. agentRows' \in [Agents -> [AgentRowIds -> AgentRow]]
  BY <1>1 DEF Basics, PipelineTypeOK
<1>3. QED BY <1>1, <1>2, OverTypes DEF Over, RowsMove, RowMoves, SameReports

LEMMA DoKillPipeline ==
    ASSUME Basics, NEW dead \in SUBSET Agents, KillPipeline(dead)
    PROVE  PipelineTypeOK' /\ Over
<1>1. SessionOver /\ reports' = reports /\ finalSeen' = finalSeen
  BY DEF KillPipeline
<1>2. \A a \in dead : agentAt[a] \in Calling
  BY DEF KillPipeline, Calling
<1>3. agentRows' = [a \in Agents |->
           IF a \in dead THEN [agentRows[a] EXCEPT ![tryNo[a]].result = TRUE] ELSE agentRows[a]]
  BY DEF KillPipeline
<1>4. ASSUME NEW a \in Agents
      PROVE  agentRows'[a] \in [AgentRowIds -> AgentRow] /\ \A n \in AgentRowIds : RowMoves(a, n)
  <2>1. agentRows[a] \in [AgentRowIds -> AgentRow]
    BY DEF Basics, PipelineTypeOK
  <2>2. CASE a \notin dead
    <3>1. agentRows'[a] = agentRows[a]
      BY <1>3, <2>2
    <3>2. QED BY <2>1, <3>1 DEF RowMoves
  <2>3. CASE a \in dead
    <3> DEFINE k == tryNo[a]
               r == agentRows[a][k]
               new == [r EXCEPT !.result = TRUE]
    <3>1. k \in AgentRowIds /\ r.status = "RUNNING"
      BY <1>2, <2>3 DEF Basics, WorkedOn
    <3>2. agentRows'[a] = [agentRows[a] EXCEPT ![k] = new]
      BY <1>3, <2>3
    <3>3. r \in AgentRow
      BY <2>1, <3>1
    <3> HIDE DEF r
    <3>4. new \in AgentRow /\ new.status = r.status /\ new.seen = r.seen
      BY <3>3 DEF AgentRow
    <3> HIDE DEF new, k
    <3>5. /\ agentRows'[a] \in [AgentRowIds -> AgentRow]
          /\ \A n \in AgentRowIds : agentRows'[a][n] = IF n = k THEN new ELSE agentRows[a][n]
      BY <2>1, <3>1, <3>2, <3>4
    <3>6. IsTurned(r, new)
      BY <3>1, <3>4 DEF IsTurned
    <3>7. QED BY <3>5, <3>6 DEF RowMoves, r
  <2>4. QED BY <2>2, <2>3
<1>5. agentRows' \in [Agents -> [AgentRowIds -> AgentRow]]
  <2>1. agentRows' = [a \in Agents |-> agentRows'[a]]
    BY <1>3
  <2>2. QED BY <1>4, <2>1
<1>6. QED BY <1>1, <1>4, <1>5, OverTypes DEF Over, RowsMove, SameReports

Report == [status: {"none", "SUPERSEDED"} \union CurrentReport,
           maturity: {"PROVISIONAL", "FINAL"}, chief: 0..MaxAgentRows]

LEMMA Superseded ==
    ASSUME NEW r \in Report
    PROVE  /\ [r EXCEPT !.status = "SUPERSEDED"] \in Report
           /\ [r EXCEPT !.status = "SUPERSEDED"].status = "SUPERSEDED"
           /\ [r EXCEPT !.status = "SUPERSEDED"].maturity = r.maturity
           /\ [r EXCEPT !.status = "SUPERSEDED"].chief = r.chief
BY DEF Report, CurrentReport

LEMMA DraftRow ==
    ASSUME PipelineTypeOK, agentSession # "off"
    PROVE  [status |-> "DRAFT", maturity |-> agentSession, chief |-> tryNo[Chief]] \in Report
BY Constants DEF PipelineTypeOK, Report, CurrentReport

(* A report that is not the new one keeps its maturity and its chief row,  *)
(* and its status or is SUPERSEDED.                                        *)
Kept(i) ==
    /\ reports'[i].maturity = reports[i].maturity /\ reports'[i].chief = reports[i].chief
    /\ \/ reports'[i].status = reports[i].status
       \/ reports[i].status \in CurrentReport /\ reports'[i].status = "SUPERSEDED"

LEMMA DoDraftReport ==
    ASSUME Basics, Idle, ReportsInOrder, DraftReport
    PROVE  /\ PipelineTypeOK'
           /\ NextReport \in ReportIds
           /\ reports'[NextReport] =
                 [status |-> "DRAFT", maturity |-> agentSession, chief |-> tryNo[Chief]]
           /\ \A i \in ReportIds \ {NextReport} :
                 Kept(i) /\ (i \in Replaced => reports'[i].status = "SUPERSEDED")
<1> DEFINE new == [status |-> "DRAFT", maturity |-> agentSession, chief |-> tryNo[Chief]]
           k == NextReport
<1>1. agentSession # "off" /\ agentAt[Chief] = "superseding"
  BY Constants DEF Idle, DraftReport
<1>2. new \in Report
  BY <1>1, DraftRow DEF Basics
<1>3. k \in ReportIds /\ reports[k].status = "none"
  BY NextReportIsFree, Constants DEF Basics, DraftReport, ReportIds
<1>4. k \notin Replaced
  BY <1>3 DEF Replaced, CurrentReport
<1>5. reports' = [i \in ReportIds |->
           IF i \in Replaced THEN [reports[i] EXCEPT !.status = "SUPERSEDED"]
           ELSE IF i = k THEN new ELSE reports[i]]
  BY DEF DraftReport
<1> HIDE DEF new, k
<1>6. reports'[k] = new
  BY <1>3, <1>4, <1>5
<1>7. ASSUME NEW i \in ReportIds
      PROVE  reports[i] \in Report /\ reports'[i] \in Report
             /\ (i # k => Kept(i) /\ (i \in Replaced => reports'[i].status = "SUPERSEDED"))
  <2>1. reports[i] \in Report
    BY DEF Basics, PipelineTypeOK, Report
  <2>2. CASE i \in Replaced
    <3>1. reports'[i] = [reports[i] EXCEPT !.status = "SUPERSEDED"]
      BY <1>5, <2>2
    <3>2. /\ reports'[i] \in Report /\ reports'[i].status = "SUPERSEDED"
          /\ reports'[i].maturity = reports[i].maturity /\ reports'[i].chief = reports[i].chief
      BY <2>1, <3>1, Superseded
    <3>3. reports[i].status \in CurrentReport
      BY <2>2 DEF Replaced
    <3>4. QED BY <2>1, <3>2, <3>3 DEF Kept
  <2>3. CASE i \notin Replaced /\ i = k
    BY <1>2, <1>6, <2>1, <2>3
  <2>4. CASE i \notin Replaced /\ i # k
    <3>1. reports'[i] = reports[i]
      BY <1>5, <2>4
    <3>2. QED BY <2>1, <2>4, <3>1 DEF Kept
  <2>5. QED BY <2>2, <2>3, <2>4
<1>8. reports' \in [ReportIds -> Report]
  <2>1. reports' = [i \in ReportIds |-> reports'[i]]
    BY <1>5
  <2>2. QED BY <1>7, <2>1
<1>9. PipelineTypeOK'
  <2>1. /\ agentAt' = [agentAt EXCEPT ![Chief] = "drafted"]
        /\ UNCHANGED <<agentSession, tryNo, calls, verdict, agentRows, finalSeen>>
    BY DEF DraftReport
  <2>2. QED BY <1>8, <2>1 DEF Basics, PipelineTypeOK, Report
<1>10. QED BY <1>3, <1>6, <1>7, <1>9 DEF k, new

LEMMA DoDraftBreaks ==
    ASSUME Basics, NEW done \in SUBSET ReportIds, DraftBreaks(done)
    PROVE  PipelineTypeOK' /\ \A i \in ReportIds : Kept(i)
<1>1. ASSUME NEW i \in ReportIds
      PROVE  reports'[i] \in Report /\ Kept(i)
  <2>1. reports[i] \in Report
    BY DEF Basics, PipelineTypeOK, Report
  <2>2. CASE i \in done
    <3>1. reports'[i] = [reports[i] EXCEPT !.status = "SUPERSEDED"]
      BY <2>2 DEF DraftBreaks
    <3>2. /\ reports'[i] \in Report /\ reports'[i].status = "SUPERSEDED"
          /\ reports'[i].maturity = reports[i].maturity /\ reports'[i].chief = reports[i].chief
      BY <2>1, <3>1, Superseded
    <3>3. reports[i].status \in CurrentReport
      BY <2>2 DEF DraftBreaks, Replaced
    <3>4. QED BY <3>2, <3>3 DEF Kept
  <2>3. CASE i \notin done
    <3>1. reports'[i] = reports[i]
      BY <2>3 DEF DraftBreaks
    <3>2. QED BY <2>1, <3>1 DEF Kept
  <2>4. QED BY <2>2, <2>3
<1>2. reports' \in [ReportIds -> Report]
  <2>1. reports' = [i \in ReportIds |-> reports'[i]]
    BY DEF DraftBreaks
  <2>2. QED BY <1>1, <2>1
<1>3. /\ agentAt' = [agentAt EXCEPT ![Chief] = "ended"]
      /\ UNCHANGED <<agentSession, tryNo, calls, verdict, agentRows, finalSeen>>
  BY DEF DraftBreaks
<1>4. QED BY <1>1, <1>2, <1>3 DEF Basics, PipelineTypeOK, Report

LEMMA DoValidateReport ==
    ASSUME Basics, ChiefAtReport, NEW ok \in BOOLEAN, ValidateReport(ok)
    PROVE  /\ PipelineTypeOK'
           /\ \A i \in ReportIds :
                 /\ reports'[i].maturity = reports[i].maturity
                 /\ reports'[i].chief = reports[i].chief
                 /\ \/ reports'[i].status = reports[i].status
                    \/ reports[i].status = "DRAFT" /\ reports'[i].status = "VALIDATED"
<1> DEFINE k == NextReport - 1
           r == reports[k]
           new == [r EXCEPT !.status = "VALIDATED"]
<1>1. k \in ReportIds /\ r.status = "DRAFT"
  BY DEF ChiefAtReport, ValidateReport
<1>2. reports' = [reports EXCEPT ![k] = new] \/ reports' = reports
  BY DEF ValidateReport
<1>3. r \in Report /\ reports \in [ReportIds -> Report]
  BY <1>1 DEF Basics, PipelineTypeOK, Report
<1>4. new \in Report /\ new.status = "VALIDATED" /\ new.maturity = r.maturity /\ new.chief = r.chief
  <2> HIDE DEF r
  <2>1. QED BY <1>3 DEF Report, CurrentReport
<1> HIDE DEF new, k
<1>5. reports' \in [ReportIds -> Report]
  BY <1>1, <1>2, <1>3, <1>4
<1>6. \A i \in ReportIds : reports'[i] = reports[i] \/ (i = k /\ reports'[i] = new)
  BY <1>1, <1>2, <1>3
<1>7. /\ agentAt' = [agentAt EXCEPT ![Chief] = "ended"]
      /\ UNCHANGED <<agentSession, tryNo, calls, verdict, agentRows, finalSeen>>
  BY DEF ValidateReport
<1>8. PipelineTypeOK'
  BY <1>5, <1>7 DEF Basics, PipelineTypeOK, Report
<1>9. QED BY <1>1, <1>4, <1>6, <1>8

LEMMA StepKinds ==
    ASSUME Basics, Idle, ReportsInOrder, ChiefAtReport, PipelineNext
    PROVE  PipelineTypeOK' /\ Kinds
<1>1. CASE \E m \in {"PROVISIONAL", "FINAL"} : StartSession(m)
  BY <1>1, DoStartSession DEF Kinds
<1>2. CASE SkipAll \/ RecoverStale
  BY <1>2, DoSkipAll, DoRecoverStale DEF Kinds
<1>3. CASE \E dead \in SUBSET Agents : KillPipeline(dead)
  BY <1>3, DoKillPipeline DEF Kinds
<1>4. CASE EndSession
  BY <1>4, DoEndSession DEF Kinds
<1>5. CASE DraftReport \/ (\E done \in SUBSET ReportIds : DraftBreaks(done))
           \/ (\E ok \in BOOLEAN : ValidateReport(ok))
  BY <1>5, DoDraftReport, DoDraftBreaks, DoValidateReport DEF Kinds, Reporting
<1>6. ASSUME NEW a \in Agents,
          \/ Refuse(a, "FAILED") \/ Refuse(a, "SKIPPED") \/ Reuse(a) \/ CallAgent(a) \/ CallBreaks(a)
          \/ AnswerOk(a) \/ StoreBreaks(a) \/ AnswerBad(a)
          \/ RepairAnswer(a) \/ RetryAgent(a) \/ WakeAgent(a)
      PROVE  PipelineTypeOK' /\ Moves(a)
  BY <1>6, DoRefuse, DoReuse, DoCallAgent, DoCallBreaks, DoAnswerOk, DoStoreBreaks, DoAnswerBad,
     DoRepairAnswer, DoRetryAgent, DoWakeAgent
<1>7. QED BY <1>1, <1>2, <1>3, <1>4, <1>5, <1>6 DEF PipelineNext, PipelineProgress, Kinds

-----------------------------------------------------------------------------
(* Rows only move forward.                                                 *)

LEMMA AllRowsMove ==
    ASSUME Kinds
    PROVE  RowsMove
<1>1. CASE \E m \in {"PROVISIONAL", "FINAL"} : StartSession(m)
  BY <1>1 DEF StartSession, RowsMove, RowMoves
<1>2. CASE Between \/ Over
  BY <1>2 DEF Between, Over
<1>3. CASE Reporting
  BY <1>3 DEF Reporting, DraftReport, DraftBreaks, ValidateReport, RowsMove, RowMoves
<1>4. ASSUME NEW a \in Agents, Moves(a) PROVE RowsMove
  BY <1>4 DEF Moves, RowsMove, RowMoves
<1>5. QED BY <1>1, <1>2, <1>3, <1>4 DEF Kinds

(* What a row was, it stays; what it is, it was or has become.             *)
LEMMA RowsLast ==
    ASSUME PipelineTypeOK, RowsInOrder, RowsMove, NEW a \in Agents, NEW n \in AgentRowIds
    PROVE  /\ agentRows[a][n].status # "none" => agentRows'[a][n].status # "none"
           /\ agentRows[a][n].status = "SUCCEEDED" => agentRows'[a][n] = agentRows[a][n]
           /\ agentRows[a][n].status = "none" =>
                 agentRows'[a][n] = agentRows[a][n]
                 \/ (n = NextAttempt(a) /\ IsAdded(a, agentRows'[a][n]))
           /\ agentRows'[a][n].status = "SUCCEEDED" =>
                 agentRows'[a][n].result \/ agentRows'[a][n] = agentRows[a][n]
<1>1. RowMoves(a, n)
  BY DEF RowsMove
<1>2. n = NextAttempt(a) => agentRows[a][n].status = "none"
  BY NextIsFree, Constants DEF AgentRowIds
<1>3. QED BY <1>1, <1>2 DEF RowMoves, IsAdded, IsTurned

LEMMA RowsStayInOrder ==
    ASSUME PipelineTypeOK, RowsInOrder, RowsMove
    PROVE  RowsInOrder'
<1> SUFFICES ASSUME NEW a \in Agents, NEW m \in AgentRowIds, NEW n \in AgentRowIds, m < n,
                    agentRows'[a][n].status # "none"
             PROVE  agentRows'[a][m].status # "none"
  BY DEF RowsInOrder
<1>1. agentRows[a][n].status # "none" \/ n = NextAttempt(a)
  BY RowsLast
<1>2. agentRows[a][m].status # "none"
  <2>1. CASE agentRows[a][n].status # "none"
    BY <2>1 DEF RowsInOrder
  <2>2. CASE n = NextAttempt(a)
    BY <2>2, NextIsFree, Constants DEF AgentRowIds
  <2>3. QED BY <1>1, <2>1, <2>2
<1>3. QED BY <1>2, RowsLast

LEMMA GoodLasts ==
    ASSUME PipelineTypeOK, RowsInOrder, RowsMove, NEW s \in Specialists, HasGood(s)
    PROVE  HasGood(s)'
<1>1. PICK n \in AgentRowIds : Good(agentRows[s][n])
  BY DEF HasGood
<1>2. agentRows'[s][n] = agentRows[s][n]
  BY <1>1, RowsLast, Constants DEF Good
<1>3. QED BY <1>1, <1>2 DEF HasGood, Good

LEMMA ReportsStayInOrder ==
    ASSUME Basics, Idle, ReportsInOrder, ChiefAtReport, Kinds
    PROVE  ReportsInOrder'
<1>1. CASE \A i \in ReportIds : reports'[i].status = "none" <=> reports[i].status = "none"
  BY <1>1 DEF ReportsInOrder
<1>2. CASE \E m \in {"PROVISIONAL", "FINAL"} : StartSession(m)
  BY <1>2 DEF StartSession, ReportsInOrder
<1>3. CASE Between \/ Over \/ \E a \in Agents : Moves(a)
  BY <1>3 DEF Between, Over, Moves, SameReports, ReportsInOrder
<1>4. CASE DraftReport
  <2> DEFINE k == NextReport
  <2>1. k \in ReportIds /\ reports'[k].status = "DRAFT"
        /\ \A i \in ReportIds \ {k} : Kept(i)
    BY <1>4, DoDraftReport
  <2>2. \A i \in ReportIds : reports[i].status = "none" <=> i >= k
    BY NextReportIsFree DEF Basics
  <2> HIDE DEF k
  <2>3. \A i \in ReportIds : reports'[i].status # "none" <=> reports[i].status # "none" \/ i = k
    BY <2>1, <2>2 DEF Kept, CurrentReport
  <2>4. QED BY <2>1, <2>2, <2>3 DEF ReportsInOrder, ReportIds
<1>5. ASSUME NEW done \in SUBSET ReportIds, DraftBreaks(done) PROVE ReportsInOrder'
  BY <1>1, <1>5, DoDraftBreaks DEF Kept, CurrentReport
<1>6. ASSUME NEW ok \in BOOLEAN, ValidateReport(ok) PROVE ReportsInOrder'
  BY <1>1, <1>6, DoValidateReport
<1>7. QED BY <1>2, <1>3, <1>4, <1>5, <1>6 DEF Kinds, Reporting

LEMMA StillWorkedOn ==
    ASSUME Basics, Idle, Kinds
    PROVE  WorkedOn'
<1> SUFFICES ASSUME NEW b \in Agents, agentAt'[b] \in Calling
             PROVE  tryNo'[b] \in AgentRowIds /\ agentRows'[b][tryNo'[b]].status = "RUNNING"
  BY DEF WorkedOn
<1>1. CASE \E m \in {"PROVISIONAL", "FINAL"} : StartSession(m)
  BY <1>1 DEF StartSession, Calling
<1>2. CASE Between
  BY <1>2 DEF Between, Idle, Calling
<1>3. CASE Over
  BY <1>3 DEF Over, SessionOver, Calling
<1>4. CASE Reporting
  <2>1. tryNo' = tryNo /\ agentRows' = agentRows
        /\ (agentAt' = [agentAt EXCEPT ![Chief] = "ended"]
            \/ agentAt' = [agentAt EXCEPT ![Chief] = "drafted"])
    BY <1>4 DEF Reporting, DraftReport, DraftBreaks, ValidateReport
  <2>2. agentAt[b] \in Calling
    BY <2>1 DEF Basics, PipelineTypeOK, Calling
  <2>3. QED BY <2>1, <2>2 DEF Basics, WorkedOn
<1>5. ASSUME NEW a \in Agents, Moves(a)
      PROVE  tryNo'[b] \in AgentRowIds /\ agentRows'[b][tryNo'[b]].status = "RUNNING"
  <2>1. CASE b # a
    BY <1>5, <2>1 DEF Moves, Basics, WorkedOn
  <2>2. CASE b = a
    <3>1. Asks(a) \/ Sleeps(a)
      BY <1>5, <2>2 DEF Moves, Ends, Answers, Calling
    <3>2. QED BY <2>2, <3>1 DEF Asks, Sleeps, Basics, WorkedOn, Calling
  <2>3. QED BY <2>1, <2>2
<1>6. QED BY <1>1, <1>2, <1>3, <1>4, <1>5 DEF Kinds

LEMMA StillBudget ==
    ASSUME Basics, Idle, Kinds
    PROVE  Budget'
<1>1. CASE \E m \in {"PROVISIONAL", "FINAL"} : StartSession(m)
  BY <1>1 DEF StartSession, Calling, Basics, Budget, Idle
<1>2. CASE Between
  BY <1>2 DEF Between, Basics, Budget
<1>3. CASE Over
  BY <1>3 DEF Over, SessionOver, Calling, Budget
<1>4. CASE Reporting
  <2>1. calls' = calls /\ tryNo' = tryNo
        /\ (agentAt' = [agentAt EXCEPT ![Chief] = "ended"]
            \/ agentAt' = [agentAt EXCEPT ![Chief] = "drafted"])
    BY <1>4 DEF Reporting, DraftReport, DraftBreaks, ValidateReport
  <2>2. \A b \in Agents : agentAt'[b] = agentAt[b] \/ agentAt'[b] \in {"ended", "drafted"}
    BY <2>1 DEF Basics, PipelineTypeOK
  <2>3. QED BY <2>1, <2>2 DEF Basics, Budget, Calling
<1>5. ASSUME NEW a \in Agents, Moves(a) PROVE Budget'
  <2>0. \A b \in Agents : calls[b] \in Nat /\ tryNo[b] \in Nat
    BY Constants DEF Basics, PipelineTypeOK
  <2>1. \A b \in Agents \ {a} :
           agentAt'[b] = agentAt[b] /\ tryNo'[b] = tryNo[b] /\ calls'[b] = calls[b]
    BY <1>5 DEF Moves
  <2>2. agentAt'[a] = "ended" \/ agentAt'[a] = "superseding" \/ Asks(a) \/ Sleeps(a)
    BY <1>5 DEF Moves, Ends, Answers
  <2>3. /\ agentAt[a] \in {"off", "start"} => calls[a] = 0
        /\ agentAt[a] \in Calling => calls[a] <= tryNo[a]
        /\ agentAt[a] = "calling" => calls[a] <= MaxAttempts
        /\ agentAt[a] = "sleeping" => calls[a] < MaxAttempts
    BY DEF Basics, Budget
  <2>4. agentAt[a] \in Calling => tryNo[a] < NextAttempt(a)
    BY WorkedBefore DEF Basics
  <2>5. NextAttempt(a) \in 1..(MaxAgentRows + 1)
    BY NextIsFree DEF Basics
  <2>6. /\ agentAt'[a] \in {"off", "start"} => calls'[a] = 0
        /\ agentAt'[a] \in Calling => calls'[a] <= tryNo'[a]
        /\ agentAt'[a] \in {"calling", "repairing", "sleeping"} => calls'[a] <= MaxAttempts + 1
        /\ agentAt'[a] = "calling" => calls'[a] <= MaxAttempts
        /\ agentAt'[a] = "sleeping" => calls'[a] < MaxAttempts
    <3>1. CASE agentAt'[a] \in {"ended", "superseding"}
      BY <3>1 DEF Calling
    <3>2. CASE Asks(a)
      BY <2>0, <2>3, <2>4, <2>5, <3>2, Constants DEF Asks, Calling
    <3>3. CASE Sleeps(a)
      BY <2>0, <2>3, <3>3, Constants DEF Sleeps, Calling
    <3>4. QED BY <2>2, <3>1, <3>2, <3>3
  <2>7. QED BY <2>1, <2>6 DEF Basics, Budget
<1>6. QED BY <1>1, <1>2, <1>3, <1>4, <1>5 DEF Kinds

LEMMA StillIdle ==
    ASSUME Basics, Idle, Kinds
    PROVE  Idle'
<1>1. CASE \E m \in {"PROVISIONAL", "FINAL"} : StartSession(m)
  BY <1>1 DEF StartSession, Idle
<1>2. CASE Between \/ Over
  BY <1>2 DEF Between, Over, SessionOver, Idle
<1>3. CASE Reporting
  BY <1>3, Constants DEF Reporting, DraftReport, DraftBreaks, ValidateReport, Idle
<1>4. ASSUME NEW a \in Agents, Moves(a) PROVE Idle'
  <2>1. agentSession # "off"
    BY <1>4 DEF Moves, Idle, Calling
  <2>2. QED BY <1>4, <2>1 DEF Moves, Idle
<1>5. QED BY <1>1, <1>2, <1>3, <1>4 DEF Kinds

LEMMA StillResultsStored ==
    ASSUME Basics, ResultsStored, Kinds
    PROVE  ResultsStored'
<1>1. RowsMove
  BY AllRowsMove
<1>2. ASSUME NEW a \in Agents, NEW n \in AgentRowIds, agentRows'[a][n].status = "SUCCEEDED"
      PROVE  agentRows'[a][n].result
  BY <1>1, <1>2, RowsLast DEF Basics, ResultsStored
<1>3. ASSUME NEW s \in Specialists, verdict'[s] \in GoodAnswer
      PROVE  HasGood(s)'
  <2>1. HasGood(s) => HasGood(s)'
    BY <1>1, GoodLasts DEF Basics
  <2>2. s \in Agents
    BY Constants
  <2>3. verdict[s] \in GoodAnswer => HasGood(s)
    BY DEF ResultsStored
  <2>4. CASE verdict'[s] = verdict[s]
    BY <1>3, <2>1, <2>3, <2>4
  <2>5. CASE \E m \in {"PROVISIONAL", "FINAL"} : StartSession(m)
    BY <2>4, <2>5 DEF StartSession
  <2>6. CASE Between \/ Reporting
    BY <2>4, <2>6 DEF Between, Reporting, DraftReport, DraftBreaks, ValidateReport
  <2>7. CASE Over
    BY <1>3, <2>2, <2>7 DEF Over, SessionOver, GoodAnswer
  <2>8. ASSUME NEW a \in Agents, Moves(a) PROVE HasGood(s)'
    <3>1. CASE s # a
      BY <2>2, <2>4, <2>8, <3>1 DEF Moves
    <3>2. CASE s = a
      <4>1. Ends(a) \/ verdict'[a] = verdict[a]
        BY <2>8, <3>2, Constants DEF Moves, Asks, Sleeps, Answers
      <4>2. CASE Ends(a)
        BY <1>3, <3>2, <4>2 DEF Ends, HasGood
      <4>3. QED BY <2>4, <3>2, <4>1, <4>2
    <3>3. QED BY <3>1, <3>2
  <2>9. QED BY <2>5, <2>6, <2>7, <2>8 DEF Kinds
<1>4. QED BY <1>2, <1>3 DEF ResultsStored

(* check_chief_eligibility counts specialists that really have a result.   *)
LEMMA EligibleIsBacked ==
    ASSUME ResultsStored, ChiefEligible, Cardinality(Specialists) >= 2
    PROVE  Cardinality(Available) >= 2 /\ \A s \in Available : HasGood(s)
<1>1. Cardinality(Available) >= 2
  BY DEF ChiefEligible
<1>2. QED BY <1>1 DEF Available, ResultsStored

LEMMA StillChiefBacked ==
    ASSUME Basics, ResultsStored, ChiefBacked, Kinds, Cardinality(Specialists) >= 2
    PROVE  ChiefBacked'
<1>1. RowsMove
  BY AllRowsMove
<1> SUFFICES ASSUME NEW n \in AgentRowIds, agentRows'[Chief][n].status \in {"RUNNING", "SUCCEEDED"}
             PROVE  /\ Cardinality(agentRows'[Chief][n].seen) >= 2
                    /\ \A s \in agentRows'[Chief][n].seen : HasGood(s)'
  BY DEF ChiefBacked
<1>2. RowMoves(Chief, n)
  BY <1>1, Constants DEF RowsMove
<1>3. Cardinality(agentRows'[Chief][n].seen) >= 2 /\ \A s \in agentRows'[Chief][n].seen : HasGood(s)
  <2>1. CASE agentRows'[Chief][n] = agentRows[Chief][n]
    BY <2>1 DEF ChiefBacked
  <2>2. CASE IsAdded(Chief, agentRows'[Chief][n])
    BY <2>2, EligibleIsBacked DEF IsAdded
  <2>3. CASE IsTurned(agentRows[Chief][n], agentRows'[Chief][n])
    BY <2>3 DEF IsTurned, ChiefBacked
  <2>4. QED BY <1>2, <2>1, <2>2, <2>3 DEF RowMoves
<1>4. agentRows'[Chief][n].seen \subseteq Specialists
  <2>1. agentRows[Chief][n].seen \subseteq Specialists
    BY Constants DEF Basics, PipelineTypeOK, AgentRow
  <2>2. CASE agentRows'[Chief][n] = agentRows[Chief][n]
    BY <2>1, <2>2
  <2>3. CASE IsAdded(Chief, agentRows'[Chief][n])
    BY <2>3 DEF IsAdded, Available
  <2>4. CASE IsTurned(agentRows[Chief][n], agentRows'[Chief][n])
    BY <2>1, <2>4 DEF IsTurned
  <2>5. QED BY <1>2, <2>2, <2>3, <2>4 DEF RowMoves
<1>5. QED BY <1>1, <1>3, <1>4, GoodLasts DEF Basics

LEMMA StillChiefAtReport ==
    ASSUME Basics, Idle, ReportsInOrder, ChiefAtReport, Kinds
    PROVE  ChiefAtReport'
<1>1. RowsMove
  BY AllRowsMove
<1>2. ASSUME NEW n \in AgentRowIds, agentRows[Chief][n].status = "SUCCEEDED"
      PROVE  agentRows'[Chief][n].status = "SUCCEEDED"
  BY <1>1, <1>2, RowsLast, Constants DEF Basics
<1>3. CASE \E m \in {"PROVISIONAL", "FINAL"} : StartSession(m)
  BY <1>3, Constants DEF StartSession, ChiefAtReport
<1>4. CASE Between
  BY <1>4, Constants DEF Between, Idle, ChiefAtReport
<1>5. CASE Over
  BY <1>5, Constants DEF Over, SessionOver, ChiefAtReport
<1>6. ASSUME NEW a \in Agents, Moves(a) PROVE ChiefAtReport'
  <2>1. a = Chief => agentAt'[Chief] # "drafted"
    BY <1>6 DEF Moves, Ends, Asks, Sleeps, Answers
  <2>2. reports' = reports /\ NextReport' = NextReport
    BY <1>6 DEF Moves, SameReports, NextReport
  <2>3. \A s \in Specialists : agentAt'[s] \notin {"superseding", "drafted"}
    BY <1>6, Constants DEF Moves, Ends, Asks, Sleeps, Answers, ChiefAtReport
  <2>4. CASE a # Chief
    <3>1. agentAt'[Chief] = agentAt[Chief] /\ tryNo'[Chief] = tryNo[Chief]
          /\ agentRows'[Chief] = agentRows[Chief]
      BY <1>6, <2>4, Constants DEF Moves
    <3>2. QED BY <2>2, <2>3, <3>1 DEF ChiefAtReport
  <2>5. CASE a = Chief
    <3>1. agentAt'[Chief] = "superseding" => Answers(Chief)
      BY <1>6, <2>5 DEF Moves, Ends, Asks, Sleeps
    <3>2. QED BY <2>1, <2>3, <2>5, <3>1 DEF Answers, ChiefAtReport
  <2>6. QED BY <2>4, <2>5
<1>7. CASE DraftReport
  <2> DEFINE k == NextReport
             S == {i \in ReportIds : reports[i].status # "none"}
  <2>1. k \in ReportIds /\ reports'[k].status = "DRAFT" /\ \A i \in ReportIds \ {k} : Kept(i)
    BY <1>7, DoDraftReport
  <2>2. \A i \in ReportIds : reports[i].status = "none" <=> i >= k
    BY NextReportIsFree DEF Basics
  <2>3. k = Cardinality(S) + 1
    BY DEF NextReport
  <2> HIDE DEF k
  <2>4. {i \in ReportIds : reports'[i].status # "none"} = S \union {k}
    BY <2>1, <2>2 DEF Kept, CurrentReport, ReportIds
  <2>5. k \notin S
    BY <2>1, <2>2 DEF ReportIds
  <2>6. IsFiniteSet(S)
    <3>1. IsFiniteSet(ReportIds)
      BY Constants, FS_Interval DEF ReportIds
    <3>2. QED BY <3>1, FS_Subset
  <2>7. Cardinality(S \union {k}) = Cardinality(S) + 1
    BY <2>5, <2>6, FS_AddElement
  <2>8. NextReport' = Cardinality({i \in ReportIds : reports'[i].status # "none"}) + 1
    BY DEF NextReport
  <2>9. NextReport' - 1 = k
    <3>1. Cardinality({i \in ReportIds : reports'[i].status # "none"}) = Cardinality(S) + 1
      BY <2>4, <2>7
    <3> HIDE DEF S
    <3>2. k \in Nat
      BY <2>1 DEF ReportIds
    <3>3. QED BY <2>3, <2>8, <3>1, <3>2
  <2>10. /\ tryNo' = tryNo /\ agentRows' = agentRows /\ agentAt[Chief] = "superseding"
         /\ agentAt' = [agentAt EXCEPT ![Chief] = "drafted"]
    BY <1>7 DEF DraftReport
  <2>11. \A s \in Specialists : agentAt'[s] = agentAt[s]
    BY <2>10, Constants DEF Basics, PipelineTypeOK
  <2>12. NextReport' - 1 \in ReportIds /\ reports'[NextReport' - 1].status = "DRAFT"
    BY <2>1, <2>9
  <2>13. (NextReport - 1)' = NextReport' - 1
    OBVIOUS
  <2>14. QED BY <2>10, <2>11, <2>12 DEF ChiefAtReport
<1>8. ASSUME \/ \E done \in SUBSET ReportIds : DraftBreaks(done)
             \/ \E ok \in BOOLEAN : ValidateReport(ok)
      PROVE  ChiefAtReport'
  <2>1. agentAt' = [agentAt EXCEPT ![Chief] = "ended"]
    BY <1>8 DEF DraftBreaks, ValidateReport
  <2>2. agentAt'[Chief] = "ended" /\ \A s \in Specialists : agentAt'[s] = agentAt[s]
    BY <2>1, Constants DEF Basics, PipelineTypeOK
  <2>3. QED BY <2>2 DEF ChiefAtReport
<1>9. QED BY <1>3, <1>4, <1>5, <1>6, <1>7, <1>8 DEF Kinds, Reporting

LEMMA StillReportsNamed ==
    ASSUME Basics, Idle, ReportsInOrder, ChiefAtReport, ReportsNamed, Kinds
    PROVE  ReportsNamed'
<1>1. RowsMove
  BY AllRowsMove
<1>2. ASSUME NEW n \in AgentRowIds, agentRows[Chief][n].status = "SUCCEEDED"
      PROVE  agentRows'[Chief][n].status = "SUCCEEDED"
  BY <1>1, <1>2, RowsLast, Constants DEF Basics
<1>3. CASE \A i \in ReportIds :
              /\ reports'[i].chief = reports[i].chief
              /\ reports'[i].status # "none" => reports[i].status # "none"
  BY <1>2, <1>3 DEF ReportsNamed
<1>4. CASE (\E m \in {"PROVISIONAL", "FINAL"} : StartSession(m)) \/ Between \/ Over
           \/ \E a \in Agents : Moves(a)
  <2>1. reports' = reports
    BY <1>4 DEF StartSession, Between, Over, Moves, SameReports
  <2>2. QED BY <1>3, <2>1
<1>5. CASE DraftReport
  <2> DEFINE k == NextReport
  <2>1. k \in ReportIds /\ reports'[k].chief = tryNo[Chief] /\ \A i \in ReportIds \ {k} : Kept(i)
    BY <1>5, DoDraftReport
  <2>2. tryNo[Chief] \in AgentRowIds /\ agentRows[Chief][tryNo[Chief]].status = "SUCCEEDED"
    BY <1>5 DEF ChiefAtReport, DraftReport
  <2> HIDE DEF k
  <2>3. ASSUME NEW i \in ReportIds, reports'[i].status # "none"
        PROVE  reports'[i].chief \in AgentRowIds
               /\ agentRows'[Chief][reports'[i].chief].status = "SUCCEEDED"
    <3>1. CASE i = k
      BY <1>2, <2>1, <2>2, <3>1
    <3>2. CASE i # k
      <4>1. Kept(i)
        BY <2>1, <3>2
      <4>2. reports[i].status # "none" /\ reports'[i].chief = reports[i].chief
        BY <2>3, <4>1 DEF Kept, CurrentReport
      <4>3. QED BY <1>2, <4>2 DEF ReportsNamed
    <3>3. QED BY <3>1, <3>2
  <2>4. QED BY <2>3 DEF ReportsNamed
<1>6. ASSUME NEW done \in SUBSET ReportIds, DraftBreaks(done) PROVE ReportsNamed'
  BY <1>3, <1>6, DoDraftBreaks DEF Kept, CurrentReport
<1>7. ASSUME NEW ok \in BOOLEAN, ValidateReport(ok) PROVE ReportsNamed'
  BY <1>3, <1>7, DoValidateReport
<1>8. QED BY <1>4, <1>5, <1>6, <1>7 DEF Kinds, Reporting

LEMMA StillFinalIsLast ==
    ASSUME Basics, Idle, ReportsInOrder, ChiefAtReport, FinalIsLast, Kinds
    PROVE  FinalIsLast'
<1>1. CASE \E m \in {"PROVISIONAL", "FINAL"} : StartSession(m)
  BY <1>1 DEF StartSession, FinalIsLast, Basics, PipelineTypeOK
<1>2. CASE Between \/ \E a \in Agents : Moves(a)
  BY <1>2 DEF Between, Moves, SameReports, FinalIsLast
<1>3. CASE Over
  BY <1>3 DEF Over, SessionOver, SameReports, FinalIsLast
<1>4. CASE Reporting /\ \A i \in ReportIds :
              /\ reports'[i].maturity = reports[i].maturity
              /\ reports'[i].status # "none" => reports[i].status # "none"
  <2>1. agentSession' = agentSession /\ finalSeen' = finalSeen
    BY <1>4 DEF Reporting, DraftReport, DraftBreaks, ValidateReport
  <2>2. QED BY <1>4, <2>1 DEF FinalIsLast
<1>5. CASE DraftReport
  <2> DEFINE k == NextReport
  <2>1. k \in ReportIds /\ reports'[k].maturity = agentSession /\ \A i \in ReportIds \ {k} : Kept(i)
    BY <1>5, DoDraftReport
  <2>2. agentSession' = agentSession /\ finalSeen' = finalSeen
    BY <1>5 DEF DraftReport
  <2> HIDE DEF k
  <2>3. ASSUME NEW i \in ReportIds, reports'[i].status # "none", reports'[i].maturity = "FINAL"
        PROVE  finalSeen
    <3>1. CASE i = k
      BY <2>1, <2>3, <3>1 DEF FinalIsLast
    <3>2. CASE i # k
      BY <2>1, <2>3, <3>2 DEF Kept, CurrentReport, FinalIsLast
    <3>3. QED BY <3>1, <3>2
  <2>4. QED BY <2>2, <2>3 DEF FinalIsLast
<1>6. ASSUME NEW done \in SUBSET ReportIds, DraftBreaks(done) PROVE FinalIsLast'
  BY <1>4, <1>6, DoDraftBreaks DEF Kept, CurrentReport, Reporting
<1>7. ASSUME NEW ok \in BOOLEAN, ValidateReport(ok) PROVE FinalIsLast'
  BY <1>4, <1>7, DoValidateReport DEF Reporting
<1>8. QED BY <1>1, <1>2, <1>3, <1>5, <1>6, <1>7 DEF Kinds, Reporting

LEMMA StillOneCurrent ==
    ASSUME Basics, Idle, ReportsInOrder, ChiefAtReport, FinalIsLast, OneCurrentReport, Kinds
    PROVE  OneCurrentReport'
<1>1. CASE \A i \in ReportIds :
              reports'[i].status \in CurrentReport => reports[i].status \in CurrentReport
  BY <1>1 DEF OneCurrentReport
<1>2. CASE (\E m \in {"PROVISIONAL", "FINAL"} : StartSession(m)) \/ Between \/ Over
           \/ \E a \in Agents : Moves(a)
  <2>1. reports' = reports
    BY <1>2 DEF StartSession, Between, Over, Moves, SameReports
  <2>2. QED BY <1>1, <2>1
<1>3. CASE DraftReport
  <2>1. agentSession \in {"PROVISIONAL", "FINAL"}
    BY <1>3, Constants DEF DraftReport, Idle, Basics, PipelineTypeOK
  <2>2. \A i \in ReportIds : reports[i].maturity \in {"PROVISIONAL", "FINAL"}
    BY DEF Basics, PipelineTypeOK
  <2>3. \A i \in ReportIds : reports[i].status \in CurrentReport => i \in Replaced
    BY <2>1, <2>2 DEF Replaced, FinalIsLast, CurrentReport
  <2>4. \A i \in ReportIds : reports'[i].status \in CurrentReport => i = NextReport
    BY <1>3, <2>3, DoDraftReport DEF Kept, CurrentReport
  <2>5. QED BY <2>4 DEF OneCurrentReport
<1>4. ASSUME NEW done \in SUBSET ReportIds, DraftBreaks(done) PROVE OneCurrentReport'
  BY <1>1, <1>4, DoDraftBreaks DEF Kept, CurrentReport
<1>5. ASSUME NEW ok \in BOOLEAN, ValidateReport(ok) PROVE OneCurrentReport'
  BY <1>1, <1>5, DoValidateReport DEF CurrentReport
<1>6. QED BY <1>2, <1>3, <1>4, <1>5 DEF Kinds, Reporting

-----------------------------------------------------------------------------
(* The theorems.                                                           *)

(* The inductive invariant holds in every reachable state, for any number  *)
(* of specialists but one (the code has a fixed list of three), attempts,  *)
(* rows and reports.                                                       *)
THEOREM Invariance ==
    ASSUME Cardinality(Specialists) >= 2
    PROVE  PipelineSpec => []IInv
<1>1. PipelineInit => IInv
  <2> SUFFICES ASSUME PipelineInit PROVE IInv
    OBVIOUS
  <2>1. PipelineTypeOK
    <3>1. NoAgentRow \in AgentRow
      BY DEF NoAgentRow, AgentRow
    <3>2. NoReport \in Report
      BY Constants DEF NoReport, Report
    <3>3. agentRows \in [Agents -> [AgentRowIds -> AgentRow]] /\ reports \in [ReportIds -> Report]
      BY <3>1, <3>2 DEF PipelineInit
    <3>4. /\ tryNo \in [Agents -> 0..MaxAgentRows] /\ calls \in [Agents -> 0..(MaxAttempts + 1)]
          /\ verdict \in [Agents -> {"none", "FAILED", "SKIPPED"} \union GoodAnswer]
          /\ agentAt \in [Agents -> {"off", "start", "calling", "repairing", "sleeping", "ended",
                                     "superseding", "drafted"}]
      BY Constants DEF PipelineInit
    <3>5. agentSession = "off" /\ finalSeen = FALSE
      BY DEF PipelineInit
    <3>6. QED BY <3>3, <3>4, <3>5 DEF PipelineTypeOK, Report
  <2>2. \A a \in Agents, n \in AgentRowIds : agentRows[a][n].status = "none"
    BY DEF PipelineInit, NoAgentRow
  <2>3. \A i \in ReportIds : reports[i].status = "none"
    BY DEF PipelineInit, NoReport
  <2>4. \A a \in Agents : agentAt[a] = "off" /\ calls[a] = 0 /\ verdict[a] = "none"
    BY DEF PipelineInit
  <2>5. agentSession = "off" /\ agentAt = [a \in Agents |-> "off"]
    BY DEF PipelineInit
  <2>6. RowsInOrder /\ ReportsInOrder /\ WorkedOn /\ Budget /\ Idle
    BY <2>2, <2>3, <2>4, <2>5 DEF RowsInOrder, ReportsInOrder, WorkedOn, Budget, Idle, Calling
  <2>7. ResultsStored /\ ChiefBacked
    BY <2>2, <2>4, Constants DEF ResultsStored, ChiefBacked, GoodAnswer
  <2>8. ChiefAtReport /\ ReportsNamed /\ FinalIsLast /\ OneCurrentReport
    BY <2>3, <2>4, <2>5, Constants
       DEF ChiefAtReport, ReportsNamed, FinalIsLast, OneCurrentReport, CurrentReport
  <2>9. QED BY <2>1, <2>6, <2>7, <2>8 DEF IInv
<1>2. IInv /\ [PipelineNext]_pipelineVars => IInv'
  <2>1. ASSUME IInv, PipelineNext PROVE IInv'
    <3>1. Basics /\ Idle /\ ReportsInOrder /\ ChiefAtReport /\ ResultsStored /\ ChiefBacked
          /\ ReportsNamed /\ FinalIsLast /\ OneCurrentReport
      BY <2>1 DEF IInv, Basics
    <3>2. PipelineTypeOK' /\ Kinds
      BY <2>1, <3>1, StepKinds
    <3>3. RowsInOrder'
      BY <3>1, <3>2, AllRowsMove, RowsStayInOrder DEF Basics
    <3>4. ReportsInOrder' /\ WorkedOn' /\ Budget' /\ Idle'
      BY <3>1, <3>2, ReportsStayInOrder, StillWorkedOn, StillBudget, StillIdle
    <3>5. ResultsStored' /\ ChiefBacked'
      BY <3>1, <3>2, StillResultsStored, StillChiefBacked
    <3>6. ChiefAtReport' /\ ReportsNamed' /\ FinalIsLast' /\ OneCurrentReport'
      BY <3>1, <3>2, StillChiefAtReport, StillReportsNamed, StillFinalIsLast, StillOneCurrent
    <3>7. QED BY <3>2, <3>3, <3>4, <3>5, <3>6 DEF IInv
  <2>2. ASSUME IInv, UNCHANGED pipelineVars PROVE IInv'
    BY <2>2 DEF IInv, pipelineVars, PipelineTypeOK, RowsInOrder, ReportsInOrder, WorkedOn, Budget,
       Idle, ResultsStored, HasGood, ChiefBacked, ChiefAtReport, NextReport, ReportsNamed,
       FinalIsLast, OneCurrentReport
  <2>3. QED BY <2>1, <2>2
<1>3. QED BY <1>1, <1>2, PTL DEF PipelineSpec

(* Reports, results and attempts agree over every crash and restart of a   *)
(* session: one current report; every report rests on a stored chief       *)
(* result and that on the stored results of two specialists or more; and   *)
(* the model is asked at most max_attempts times per specialist.           *)
THEOREM PipelineSafety ==
    ASSUME Cardinality(Specialists) >= 2
    PROVE  PipelineSpec => []PipelineSafe
<1>1. IInv => PipelineSafe
  <2> SUFFICES ASSUME IInv PROVE PipelineSafe
    OBVIOUS
  <2>1. AttemptBudget
    BY Constants DEF IInv, Budget, AttemptBudget
  <2>2. ASSUME NEW i \in ReportIds, reports[i].status # "none"
        PROVE  LET row == agentRows[Chief][reports[i].chief]
               IN /\ row.status = "SUCCEEDED" /\ row.result
                  /\ Cardinality(row.seen) >= 2
                  /\ \A s \in row.seen : \E n \in AgentRowIds :
                        agentRows[s][n].status = "SUCCEEDED" /\ agentRows[s][n].result
    <3> DEFINE k == reports[i].chief
    <3>1. k \in AgentRowIds /\ agentRows[Chief][k].status = "SUCCEEDED"
      BY <2>2 DEF IInv, ReportsNamed
    <3> HIDE DEF k
    <3>2. agentRows[Chief][k].result
      BY <3>1, Constants DEF IInv, ResultsStored
    <3>3. /\ Cardinality(agentRows[Chief][k].seen) >= 2
          /\ \A s \in agentRows[Chief][k].seen : HasGood(s)
      BY <3>1 DEF IInv, ChiefBacked
    <3>4. QED BY <3>1, <3>2, <3>3 DEF HasGood, Good, k
  <2>3. ReportIsBacked
    BY <2>2 DEF ReportIsBacked
  <2>4. QED BY <2>1, <2>3 DEF IInv, PipelineSafe
<1>2. QED BY <1>1, Invariance, PTL

-----------------------------------------------------------------------------
(* AnalyticsRunner: the inductive invariant, in parts.                     *)

(* The calls that work on the run, from its opening to its outcome.        *)
OnTheRun == Working \ {"finished"}
Built == {"built", "gated", "publishing", "published", "advised"}

OneHolder ==
    \A c, d \in AnalyticsCalls : callAt[c] \in Holding /\ callAt[d] \in Holding => c = d

(* While a call is at work the row says RUNNING, and a provisional call    *)
(* works on a provisional run.                                             *)
RowIsOpen ==
    \A c \in AnalyticsCalls :
        callAt[c] \in OnTheRun =>
            /\ runRow.status = "RUNNING"
            /\ CommandOf[c] = "provisional" => runRow.maturity # "FINAL" /\ callRow[c] = "PROVISIONAL"

(* The final call works on what it read before the lock, which was not     *)
(* FINAL: it publishes under PROVISIONAL.                                  *)
FinalCopy ==
    \A c \in AnalyticsCalls :
        CommandOf[c] = "final" /\ callAt[c] \in {"read", "locked"} \union OnTheRun
            => callRow[c] \in {"PROVISIONAL", "FAILED"}

(* What the stages behind a call have left.                                *)
StagesLeft ==
    \A c \in AnalyticsCalls :
        /\ callAt[c] \in Built => facts
        /\ callAt[c] \in {"publishing", "published", "advised"} => callRow[c] = "PROVISIONAL"
        /\ callAt[c] \in {"published", "advised"} => pub["PROVISIONAL"].status = "READY"

(* A result that blocks is not recorded, so none is published.             *)
GateNotFailed == qualityGate # "FAIL" /\ \A m \in Maturities : pub[m].quality # "FAIL"

AnInv ==
    /\ AnalyticsTypeOK /\ OneHolder /\ RowIsOpen /\ FinalCopy /\ StagesLeft
    /\ GateNotFailed /\ SucceededIsPublished

(* Every process computes the same advisory lock: PYTHONHASHSEED is fixed. *)
OneLock == \A i, j \in LockIds : i = j

LEMMA AnInitHolds == AnalyticsInit => AnInv
<1> SUFFICES ASSUME AnalyticsInit PROVE AnInv
  OBVIOUS
<1>1. AnalyticsTypeOK
  BY DEF AnalyticsInit, AnalyticsTypeOK, NoRowYet, NoPub, Maturities, Qualities, Working
<1>2. OneHolder /\ RowIsOpen /\ FinalCopy /\ StagesLeft
  BY DEF AnalyticsInit, OneHolder, RowIsOpen, FinalCopy, StagesLeft, Holding, OnTheRun, Built, Working
<1>3. GateNotFailed /\ SucceededIsPublished
  BY DEF AnalyticsInit, GateNotFailed, SucceededIsPublished, NoRowYet, NoPub
<1>4. QED BY <1>1, <1>2, <1>3 DEF AnInv

(* Only c moves, and it does not take the lock.                            *)
MovesOn(c) ==
    /\ \E to \in Working \union {"done"} : callAt' = [callAt EXCEPT ![c] = to]
    /\ callAt[c] \in Holding
    /\ UNCHANGED <<lockId, windowOver>>
    /\ \A d \in AnalyticsCalls \ {c} : callRow'[d] = callRow[d]

LEMMA MoveFacts ==
    ASSUME AnInv, NEW c \in AnalyticsCalls, MovesOn(c)
    PROVE  /\ callAt' \in [AnalyticsCalls -> {"idle", "read", "locked", "done"} \union Working]
           /\ OneHolder'
           /\ \A d \in AnalyticsCalls \ {c} : callAt'[d] = callAt[d] /\ callAt[d] \notin Holding
<1>1. PICK to \in Working \union {"done"} : callAt' = [callAt EXCEPT ![c] = to]
  BY DEF MovesOn
<1>2. callAt \in [AnalyticsCalls -> {"idle", "read", "locked", "done"} \union Working]
  BY DEF AnInv, AnalyticsTypeOK
<1>3. \A d \in AnalyticsCalls : callAt'[d] = IF d = c THEN to ELSE callAt[d]
  BY <1>1, <1>2
<1>4. \A d \in AnalyticsCalls \ {c} : callAt[d] \notin Holding
  BY DEF AnInv, OneHolder, MovesOn
<1>5. callAt' \in [AnalyticsCalls -> {"idle", "read", "locked", "done"} \union Working]
  BY <1>1, <1>2
<1>6. OneHolder'
  BY <1>3, <1>4 DEF OneHolder
<1>7. QED BY <1>3, <1>4, <1>5, <1>6

(* A step of the call at work keeps the parts about calls if it does so    *)
(* for that call.                                                          *)
LEMMA CallJoin ==
    ASSUME AnInv, NEW c \in AnalyticsCalls, MovesOn(c), AnalyticsTypeOK',
           callAt'[c] \in OnTheRun =>
               /\ runRow'.status = "RUNNING"
               /\ CommandOf[c] = "provisional" => runRow'.maturity # "FINAL" /\ callRow'[c] = "PROVISIONAL"
               /\ CommandOf[c] = "final" => callRow'[c] \in {"PROVISIONAL", "FAILED"},
           callAt'[c] \in Built => facts',
           callAt'[c] \in {"publishing", "published", "advised"} => callRow'[c] = "PROVISIONAL",
           callAt'[c] \in {"published", "advised"} => pub'["PROVISIONAL"].status = "READY",
           GateNotFailed', SucceededIsPublished'
    PROVE  AnInv'
<1>1. /\ OneHolder'
      /\ \A d \in AnalyticsCalls \ {c} : callAt'[d] = callAt[d] /\ callAt[d] \notin Holding
  BY MoveFacts
<1>2. callAt'[c] # "locked" /\ callAt'[c] # "read"
  BY DEF MovesOn, Working, AnInv, AnalyticsTypeOK
<1>3. \A d \in AnalyticsCalls \ {c} : callAt'[d] \notin OnTheRun /\ callAt'[d] \notin Built
         /\ callAt'[d] \notin {"publishing", "published", "advised"} /\ callRow'[d] = callRow[d]
  BY <1>1 DEF OnTheRun, Built, Holding, Working, MovesOn
<1>4. RowIsOpen' /\ StagesLeft'
  BY <1>3 DEF RowIsOpen, StagesLeft
<1>5. FinalCopy'
  BY <1>1, <1>2, <1>3 DEF FinalCopy, AnInv
<1>6. QED BY <1>1, <1>4, <1>5 DEF AnInv

LEMMA StageSets ==
    /\ OnTheRun = {"opened", "reconciled", "checked", "built", "gated", "publishing", "published",
                   "advised", "failed"}
    /\ Holding = {"locked", "finished"} \union OnTheRun
    /\ Working = {"finished"} \union OnTheRun
BY DEF OnTheRun, Holding, Working

(* No provisional call writes to a FINAL run.                              *)
FinalKept ==
    \A c \in AnalyticsCalls : CommandOf[c] = "provisional" /\ callAt'[c] # callAt[c] /\ runRow.maturity = "FINAL"
          => runRow' = runRow

(* The stages between the opening and the outcome.                         *)
LEMMA StagesKeep ==
    ASSUME AnInv, NEW c \in AnalyticsCalls,
           \/ Reconcile(c) \/ QualityGate(c) \/ CanonicalBuild(c) \/ StageFails(c)
           \/ \E q \in Qualities : SqlQualityGate(c, q)
    PROVE  AnInv' /\ UNCHANGED runRow
<1>0. AnalyticsTypeOK /\ RowIsOpen /\ FinalCopy /\ StagesLeft /\ GateNotFailed /\ SucceededIsPublished
  BY DEF AnInv
<1>1. UNCHANGED <<lockId, callRow, runRow, pub, askedFor, windowOver>>
      /\ callAt[c] \in OnTheRun /\ facts' \in BOOLEAN /\ (facts => facts')
  BY <1>0, StageSets DEF AnalyticsTypeOK, Reconcile, QualityGate, CanonicalBuild, StageFails, SqlQualityGate,
     GateRecorded
<1>2. PICK to \in OnTheRun : callAt' = [callAt EXCEPT ![c] = to]
                             /\ (to \in Built => facts') /\ to \notin {"publishing", "published", "advised"}
  <2>1. CASE \E q \in Qualities : SqlQualityGate(c, q)
    <3>1. facts
      BY <1>0, <2>1 DEF SqlQualityGate, StagesLeft, Built
    <3>2. QED BY <2>1, <3>1, StageSets DEF SqlQualityGate, StageDone, Built
  <2>2. CASE Reconcile(c) \/ QualityGate(c) \/ CanonicalBuild(c) \/ StageFails(c)
    BY <2>2, StageSets DEF Reconcile, QualityGate, CanonicalBuild, StageFails, StageDone, Built
  <2>3. QED BY <2>1, <2>2
<1>3. MovesOn(c)
  BY <1>1, <1>2, StageSets DEF MovesOn
<1>4. qualityGate' \in (Qualities \union {"none"}) \ {"FAIL"}
  BY <1>0 DEF AnalyticsTypeOK, GateNotFailed, Qualities, Reconcile, QualityGate, CanonicalBuild, StageFails,
     SqlQualityGate, GateRecorded
<1>5. AnalyticsTypeOK'
  BY <1>0, <1>1, <1>3, <1>4, MoveFacts DEF AnalyticsTypeOK
<1>6. callAt'[c] = to
  BY <1>0, <1>2 DEF AnalyticsTypeOK
<1>7. GateNotFailed' /\ SucceededIsPublished'
  <2>1. GateNotFailed'
    BY <1>0, <1>1, <1>4 DEF GateNotFailed
  <2>2. SucceededIsPublished'
    BY <1>0, <1>1 DEF SucceededIsPublished
  <2>3. QED BY <2>1, <2>2
<1>8. runRow.status = "RUNNING"
      /\ (CommandOf[c] = "provisional" => runRow.maturity # "FINAL" /\ callRow[c] = "PROVISIONAL")
      /\ (CommandOf[c] = "final" => callRow[c] \in {"PROVISIONAL", "FAILED"})
  BY <1>0, <1>1 DEF RowIsOpen, FinalCopy
<1>9. QED BY <1>1, <1>2, <1>3, <1>5, <1>6, <1>7, <1>8, CallJoin

(* The two commits of the publication.                                     *)
LEMMA PublishKeeps ==
    ASSUME AnInv, NEW c \in AnalyticsCalls,
           PublishReady(c) \/ \E readable \in BOOLEAN : PublishBuilding(c, readable)
    PROVE  AnInv' /\ UNCHANGED runRow
<1>0. AnalyticsTypeOK /\ RowIsOpen /\ FinalCopy /\ StagesLeft /\ GateNotFailed /\ SucceededIsPublished
  BY DEF AnInv
<1>1. /\ UNCHANGED <<lockId, callRow, runRow, facts, qualityGate, askedFor, windowOver>>
      /\ callAt[c] \in {"gated", "publishing"}
  BY DEF PublishReady, PublishBuilding
<1>2. /\ callAt[c] \in OnTheRun /\ facts /\ runRow.status = "RUNNING"
      /\ (CommandOf[c] = "provisional" => runRow.maturity # "FINAL" /\ callRow[c] = "PROVISIONAL")
      /\ (CommandOf[c] = "final" => callRow[c] \in {"PROVISIONAL", "FAILED"})
  BY <1>0, <1>1, StageSets DEF RowIsOpen, FinalCopy, StagesLeft, Built
<1>3. callRow[c] = "PROVISIONAL"
  <2>1. CommandOf[c] \in {"provisional", "final"}
    BY AnalyticsConstants
  <2>2. CASE PublishReady(c)
    BY <1>0, <2>2 DEF PublishReady, StagesLeft
  <2>3. CASE \E readable \in BOOLEAN : PublishBuilding(c, readable)
    BY <1>2, <2>1, <2>3 DEF PublishBuilding, Maturities
  <2>4. QED BY <2>2, <2>3
<1>4. pub["PROVISIONAL"] \in [status: {"none", "BUILDING", "READY"}, quality: Qualities]
  BY <1>0 DEF AnalyticsTypeOK, Maturities
<1>5. PICK row \in [status: {"BUILDING", "READY"}, quality: Qualities] :
        /\ pub' = [pub EXCEPT !["PROVISIONAL"] = row]
        /\ row.quality # "FAIL"
        /\ PublishReady(c) => row.status = "READY"
  <2>1. CASE PublishReady(c)
    <3>1. pub' = [pub EXCEPT !["PROVISIONAL"] = [status |-> "READY", quality |-> pub["PROVISIONAL"].quality]]
      BY <1>3, <2>1 DEF PublishReady, Publication
    <3>2. pub["PROVISIONAL"].quality # "FAIL"
      BY <1>0 DEF GateNotFailed, Maturities
    <3> DEFINE new == [status |-> "READY", quality |-> pub["PROVISIONAL"].quality]
    <3>3. new \in [status: {"BUILDING", "READY"}, quality: Qualities] /\ new.quality # "FAIL"
          /\ new.status = "READY" /\ pub' = [pub EXCEPT !["PROVISIONAL"] = new]
      BY <1>4, <3>1, <3>2
    <3> HIDE DEF new
    <3>4. QED BY <3>3
  <2>2. CASE \E readable \in BOOLEAN : PublishBuilding(c, readable)
    <3>1. PICK readable \in BOOLEAN : PublishBuilding(c, readable)
      BY <2>2
    <3>2. PICK q \in Qualities : q = GateQuality(readable) /\ q \in {qualityGate, "PASS"}
      BY <1>0 DEF AnalyticsTypeOK, Qualities, GateQuality
    <3>3. pub' = [pub EXCEPT !["PROVISIONAL"] = [status |-> "BUILDING", quality |-> q]]
      BY <1>3, <3>1, <3>2 DEF PublishBuilding, Publication
    <3>4. q # "FAIL"
      BY <1>0, <3>2 DEF GateNotFailed
    <3>5. ~PublishReady(c)
      BY <3>1 DEF PublishReady, PublishBuilding
    <3> DEFINE new == [status |-> "BUILDING", quality |-> q]
    <3>6. new \in [status: {"BUILDING", "READY"}, quality: Qualities] /\ new.quality = q
      BY <3>2
    <3> HIDE DEF new
    <3>7. pub' = [pub EXCEPT !["PROVISIONAL"] = new]
      BY <3>3 DEF new
    <3>8. new.quality # "FAIL"
      BY <3>4, <3>6
    <3>9. QED BY <3>5, <3>6, <3>7, <3>8
  <2>3. QED BY <2>1, <2>2
<1>6. PICK to \in {"publishing", "published"} :
         callAt' = [callAt EXCEPT ![c] = to] /\ (to = "published" => PublishReady(c))
  BY DEF PublishReady, PublishBuilding, StageDone
<1>7. MovesOn(c)
  BY <1>1, <1>2, <1>6, StageSets DEF MovesOn
<1>8. pub' \in [Maturities -> [status: {"none", "BUILDING", "READY"}, quality: Qualities]]
      /\ pub'["PROVISIONAL"] = row
      /\ \A m \in Maturities : m # "PROVISIONAL" => pub'[m] = pub[m]
  BY <1>0, <1>5 DEF AnalyticsTypeOK, Maturities
<1>9. AnalyticsTypeOK'
  BY <1>0, <1>1, <1>7, <1>8, MoveFacts DEF AnalyticsTypeOK
<1>10. callAt'[c] = to
  BY <1>0, <1>6 DEF AnalyticsTypeOK
<1>11. GateNotFailed'
  BY <1>0, <1>1, <1>5, <1>8 DEF GateNotFailed
<1>12. SucceededIsPublished'
  BY <1>1, <1>2 DEF SucceededIsPublished
<1>13. QED BY <1>1, <1>2, <1>3, <1>5, <1>6, <1>7, <1>8, <1>9, <1>10, <1>11, <1>12, CallJoin

(* The opening of the run, its outcome, the agents, and the death of a     *)
(* process that holds the lock.                                            *)
LEMMA RunKeeps ==
    ASSUME AnInv, NEW c \in AnalyticsCalls, callAt[c] \in Holding,
           \/ OpenProvisional(c) \/ OpenFinal(c) \/ AdviseProvisional(c) \/ FinishRun(c)
           \/ ReturnFromCall(c) \/ KillCall(c)
    PROVE  /\ AnInv'
           /\ CommandOf[c] = "provisional" /\ runRow.maturity = "FINAL" => runRow' = runRow
<1>0. AnalyticsTypeOK /\ RowIsOpen /\ FinalCopy /\ StagesLeft /\ GateNotFailed /\ SucceededIsPublished
  BY DEF AnInv
<1>1. UNCHANGED <<lockId, facts, qualityGate, pub, windowOver>>
  BY DEF OpenProvisional, OpenFinal, AdviseProvisional, FinishRun, ReturnFromCall, KillCall
<1>2. GateNotFailed'
  BY <1>0, <1>1 DEF GateNotFailed
<1>3. CommandOf[c] \in {"provisional", "final"}
  BY AnalyticsConstants
<1>4. askedFor' \in [Maturities -> {"no", "skipped", "ran"}]
  BY <1>0 DEF AnalyticsTypeOK, OpenProvisional, OpenFinal, AdviseProvisional, FinishRun,
     ReturnFromCall, KillCall, Advise
<1>5. CASE OpenProvisional(c)
  <2>1. CASE runRow.maturity = "FINAL"
    <3>1. callAt' = [callAt EXCEPT ![c] = "done"] /\ UNCHANGED <<callRow, runRow>>
      BY <1>5, <2>1 DEF OpenProvisional, StageDone
    <3>2. MovesOn(c)
      BY <1>1, <3>1 DEF MovesOn
    <3>3. AnalyticsTypeOK'
      BY <1>0, <1>1, <1>4, <3>1, <3>2, MoveFacts DEF AnalyticsTypeOK
    <3>4. callAt'[c] = "done"
      BY <1>0, <3>1 DEF AnalyticsTypeOK
    <3>5. SucceededIsPublished'
      BY <1>0, <1>1, <3>1 DEF SucceededIsPublished
    <3>6. QED BY <1>2, <3>1, <3>2, <3>3, <3>4, <3>5, StageSets, CallJoin DEF Built
  <2>2. CASE runRow.maturity # "FINAL"
    <3>1. /\ callAt' = [callAt EXCEPT ![c] = "opened"] /\ callRow' = [callRow EXCEPT ![c] = "PROVISIONAL"]
          /\ runRow' = [status |-> "RUNNING", maturity |-> "PROVISIONAL"]
          /\ CommandOf[c] = "provisional"
      BY <1>5, <2>2 DEF OpenProvisional, StageDone, WriteRow
    <3>2. MovesOn(c)
      BY <1>0, <1>1, <3>1 DEF MovesOn, Working, AnalyticsTypeOK
    <3>3. AnalyticsTypeOK'
      BY <1>0, <1>1, <1>4, <3>1, <3>2, MoveFacts DEF AnalyticsTypeOK, Maturities
    <3>4. callAt'[c] = "opened" /\ callRow'[c] = "PROVISIONAL"
      BY <1>0, <3>1 DEF AnalyticsTypeOK
    <3>5. SucceededIsPublished'
      BY <3>1 DEF SucceededIsPublished
    <3>6. QED BY <1>2, <2>2, <3>1, <3>2, <3>3, <3>4, <3>5, StageSets, CallJoin DEF Built
  <2>3. QED BY <2>1, <2>2
<1>6. CASE OpenFinal(c)
  <2>1. /\ callAt' = [callAt EXCEPT ![c] = "opened"] /\ UNCHANGED callRow
        /\ runRow' = [status |-> "RUNNING", maturity |-> callRow[c]]
        /\ CommandOf[c] = "final" /\ callAt[c] = "locked"
    BY <1>6 DEF OpenFinal, StageDone, WriteRow
  <2>2. callRow[c] \in {"PROVISIONAL", "FAILED"}
    BY <1>0, <2>1 DEF FinalCopy
  <2>3. MovesOn(c)
    BY <1>1, <2>1 DEF MovesOn, Working
  <2>4. AnalyticsTypeOK'
    BY <1>0, <1>1, <1>4, <2>1, <2>2, <2>3, MoveFacts DEF AnalyticsTypeOK, Maturities
  <2>5. callAt'[c] = "opened"
    BY <1>0, <2>1 DEF AnalyticsTypeOK
  <2>6. SucceededIsPublished'
    BY <2>1 DEF SucceededIsPublished
  <2>7. QED BY <1>2, <2>1, <2>2, <2>3, <2>4, <2>5, <2>6, StageSets, CallJoin DEF Built
<1>7. CASE AdviseProvisional(c)
  <2>1. /\ callAt[c] = "published" /\ CommandOf[c] = "provisional"
        /\ callAt' = [callAt EXCEPT ![c] = "advised"] /\ UNCHANGED <<callRow, runRow>>
    BY <1>7 DEF AdviseProvisional, StageDone
  <2>2. MovesOn(c)
    BY <1>1, <2>1 DEF MovesOn, Working
  <2>3. AnalyticsTypeOK'
    BY <1>0, <1>1, <1>4, <2>1, <2>2, MoveFacts DEF AnalyticsTypeOK
  <2>4. callAt'[c] = "advised"
    BY <1>0, <2>1 DEF AnalyticsTypeOK
  <2>5. SucceededIsPublished'
    BY <1>0, <1>1, <2>1 DEF SucceededIsPublished
  <2>6. callAt[c] \in OnTheRun /\ facts
    BY <1>0, <2>1, StageSets DEF StagesLeft, Built
  <2>7. QED BY <1>0, <1>1, <1>2, <2>1, <2>2, <2>3, <2>4, <2>5, <2>6, CallJoin DEF RowIsOpen, StagesLeft
<1>8. CASE FinishRun(c)
  <2>1. PICK m \in Maturities \union {"FAILED"} :
          /\ callRow' = [callRow EXCEPT ![c] = m]
          /\ runRow' = [status |-> IF callAt[c] = "failed" THEN "FAILED" ELSE "SUCCEEDED", maturity |-> m]
    BY <1>8 DEF FinishRun, WriteRow, Maturities
  <2>2. /\ callAt' = [callAt EXCEPT ![c] = "finished"]
        /\ callAt[c] \in {"advised", "failed", "published"}
    BY <1>8 DEF FinishRun, StageDone
  <2>3. MovesOn(c)
    BY <1>0, <1>1, <2>1, <2>2 DEF MovesOn, Working, AnalyticsTypeOK
  <2>4. AnalyticsTypeOK'
    BY <1>0, <1>1, <1>4, <2>1, <2>3, MoveFacts DEF AnalyticsTypeOK
  <2>5. callAt'[c] = "finished"
    BY <1>0, <2>2 DEF AnalyticsTypeOK
  <2>6. SucceededIsPublished'
    <3>1. callAt[c] # "failed" => pub["PROVISIONAL"].status = "READY" /\ facts
      BY <1>0, <2>2 DEF StagesLeft, Built
    <3>2. QED BY <1>1, <2>1, <3>1 DEF SucceededIsPublished
  <2>7. CommandOf[c] = "provisional" => runRow.maturity # "FINAL"
    BY <1>0, <2>2, StageSets DEF RowIsOpen
  <2>8. QED BY <1>2, <2>3, <2>4, <2>5, <2>6, <2>7, StageSets, CallJoin DEF Built
<1>9. CASE ReturnFromCall(c) \/ KillCall(c)
  <2>1. callAt' = [callAt EXCEPT ![c] = "done"] /\ UNCHANGED <<callRow, runRow>>
    BY <1>9 DEF ReturnFromCall, KillCall, StageDone
  <2>2. MovesOn(c)
    BY <1>1, <2>1 DEF MovesOn
  <2>3. AnalyticsTypeOK'
    BY <1>0, <1>1, <1>4, <2>1, <2>2, MoveFacts DEF AnalyticsTypeOK
  <2>4. callAt'[c] = "done"
    BY <1>0, <2>1 DEF AnalyticsTypeOK
  <2>5. SucceededIsPublished'
    BY <1>0, <1>1, <2>1 DEF SucceededIsPublished
  <2>6. QED BY <1>2, <2>1, <2>2, <2>3, <2>4, <2>5, StageSets, CallJoin DEF Built
<1>10. QED BY <1>5, <1>6, <1>7, <1>8, <1>9

(* Before the lock: only the call's copy and its place change.             *)
LEMMA EntryKeeps ==
    ASSUME OneLock, AnInv, NEW c \in AnalyticsCalls, callAt[c] \notin Holding,
           ReadProvisional(c) \/ AcquireDateLock(c) \/ KillCall(c)
    PROVE  AnInv' /\ UNCHANGED runRow
<1>0. /\ AnalyticsTypeOK /\ OneHolder /\ RowIsOpen /\ FinalCopy /\ StagesLeft
      /\ GateNotFailed /\ SucceededIsPublished
  BY DEF AnInv
<1>1. UNCHANGED <<lockId, runRow, facts, qualityGate, pub, askedFor, windowOver>>
  BY DEF ReadProvisional, AcquireDateLock, KillCall
<1>2. PICK to \in {"done", "read", "locked"} :
        /\ callAt' = [callAt EXCEPT ![c] = to]
        /\ to = "locked" => /\ \A d \in AnalyticsCalls : callAt[d] \notin Holding
                            /\ UNCHANGED callRow
                            /\ CommandOf[c] = "final" => callAt[c] = "read"
  <2>1. CASE AcquireDateLock(c)
    <3>1. \A d \in AnalyticsCalls \ {c} : lockId[d] = lockId[c]
      BY <1>0 DEF OneLock, AnalyticsTypeOK
    <3>2. QED BY <2>1, <3>1 DEF AcquireDateLock, AtLock, StageDone
  <2>2. CASE ReadProvisional(c) \/ KillCall(c)
    BY <2>2 DEF ReadProvisional, KillCall, StageDone
  <2>3. QED BY <2>1, <2>2
<1>3. \/ UNCHANGED callRow
      \/ /\ callRow' = [callRow EXCEPT ![c] = runRow.maturity]
         /\ runRow.maturity # "FINAL" /\ CommandOf[c] = "final" /\ ReadProvisional(c)
  BY DEF ReadProvisional, AcquireDateLock, KillCall
<1>4. runRow.maturity \in Maturities \union {"FAILED"}
  BY <1>0 DEF AnalyticsTypeOK
<1>5. AnalyticsTypeOK'
  BY <1>0, <1>1, <1>2, <1>3, <1>4 DEF AnalyticsTypeOK
<1>6. \A d \in AnalyticsCalls : callAt'[d] = IF d = c THEN to ELSE callAt[d]
  BY <1>0, <1>2 DEF AnalyticsTypeOK
<1>7. \A d \in AnalyticsCalls : callRow'[d] = callRow[d] \/ (d = c /\ callRow'[d] \in {"PROVISIONAL", "FAILED"})
  BY <1>0, <1>3, <1>4 DEF AnalyticsTypeOK, Maturities
<1>8. OneHolder'
  BY <1>0, <1>2, <1>6, StageSets DEF OneHolder
<1>9. to \notin OnTheRun /\ to \notin Built /\ to \notin {"publishing", "published", "advised"}
  BY <1>2, StageSets DEF Built
<1>10. RowIsOpen' /\ StagesLeft'
  <2>1. \A d \in AnalyticsCalls : d # c => callAt'[d] = callAt[d] /\ callRow'[d] = callRow[d]
    BY <1>6, <1>7
  <2>2. callAt'[c] = to
    BY <1>6
  <2>3. QED BY <1>0, <1>1, <1>9, <2>1, <2>2 DEF RowIsOpen, StagesLeft
<1>11. FinalCopy'
  <2> SUFFICES ASSUME NEW d \in AnalyticsCalls, CommandOf[d] = "final",
                      callAt'[d] \in {"read", "locked"} \union OnTheRun
               PROVE  callRow'[d] \in {"PROVISIONAL", "FAILED"}
    BY DEF FinalCopy
  <2>1. CASE d # c
    BY <1>0, <1>6, <1>7, <2>1 DEF FinalCopy
  <2>2. CASE d = c /\ to = "locked"
    BY <1>0, <1>2, <2>2 DEF FinalCopy
  <2>3. CASE d = c /\ to = "read"
    <3>1. ReadProvisional(c) /\ callRow' = [callRow EXCEPT ![c] = runRow.maturity]
      BY <1>0, <1>6, <2>3 DEF ReadProvisional, AcquireDateLock, KillCall, StageDone, AnalyticsTypeOK
    <3>2. runRow.maturity # "FINAL"
      BY <1>0, <1>6, <2>3, <3>1 DEF ReadProvisional, StageDone, AnalyticsTypeOK
    <3>3. QED BY <1>0, <1>4, <2>3, <3>1, <3>2 DEF AnalyticsTypeOK, Maturities
  <2>4. QED BY <1>2, <1>6, <1>9, <2>1, <2>2, <2>3
<1>12. GateNotFailed' /\ SucceededIsPublished'
  BY <1>0, <1>1 DEF GateNotFailed, SucceededIsPublished
<1>13. QED BY <1>1, <1>5, <1>8, <1>10, <1>11, <1>12 DEF AnInv

LEMMA AnStepKeeps ==
    ASSUME OneLock, AnInv, [AnalyticsNext]_analyticsVars
    PROVE  AnInv' /\ FinalKept
<1>1. CASE UNCHANGED analyticsVars \/ WindowCloses
  <2>1. UNCHANGED <<callAt, lockId, callRow, runRow, facts, qualityGate, pub, askedFor>>
        /\ windowOver' \in {windowOver, TRUE}
    BY <1>1 DEF analyticsVars, WindowCloses
  <2>2. QED BY <2>1 DEF AnInv, AnalyticsTypeOK, OneHolder, RowIsOpen, FinalCopy, StagesLeft,
               GateNotFailed, SucceededIsPublished, FinalKept
<1>2. ASSUME NEW c \in AnalyticsCalls,
             ReadProvisional(c) \/ AcquireDateLock(c) \/ (KillCall(c) /\ callAt[c] \notin Holding)
      PROVE  AnInv' /\ FinalKept
  <2>1. callAt[c] \notin Holding
    BY <1>2, StageSets DEF ReadProvisional, AcquireDateLock, AtLock
  <2>2. AnInv' /\ UNCHANGED runRow
    BY <1>2, <2>1, EntryKeeps
  <2>3. QED BY <2>2 DEF FinalKept
<1>3. ASSUME NEW c \in AnalyticsCalls,
             \/ Reconcile(c) \/ QualityGate(c) \/ CanonicalBuild(c) \/ StageFails(c)
             \/ \E q \in Qualities : SqlQualityGate(c, q)
             \/ PublishReady(c) \/ \E readable \in BOOLEAN : PublishBuilding(c, readable)
      PROVE  AnInv' /\ FinalKept
  <2>1. AnInv' /\ UNCHANGED runRow
    BY <1>3, StagesKeep, PublishKeeps
  <2>2. QED BY <2>1 DEF FinalKept
<1>4. ASSUME NEW c \in AnalyticsCalls,
             \/ OpenProvisional(c) \/ OpenFinal(c) \/ AdviseProvisional(c) \/ FinishRun(c)
             \/ ReturnFromCall(c) \/ (KillCall(c) /\ callAt[c] \in Holding)
      PROVE  AnInv' /\ FinalKept
  <2>1. callAt[c] \in Holding
    BY <1>4, StageSets DEF OpenProvisional, OpenFinal, AdviseProvisional, FinishRun, ReturnFromCall
  <2>2. /\ AnInv'
        /\ CommandOf[c] = "provisional" /\ runRow.maturity = "FINAL" => runRow' = runRow
    BY <1>4, <2>1, RunKeeps
  <2>3. \A d \in AnalyticsCalls : callAt'[d] # callAt[d] => d = c
    BY <1>4 DEF AnInv, AnalyticsTypeOK, OpenProvisional, OpenFinal, AdviseProvisional, FinishRun,
       ReturnFromCall, KillCall, StageDone
  <2>4. QED BY <2>2, <2>3 DEF FinalKept
<1>5. QED BY <1>1, <1>2, <1>3, <1>4 DEF AnalyticsNext

(* The run row, the stages and the publications of analytics/runner.py     *)
(* keep their invariant, for any number of invocations.                    *)
THEOREM AnInvariance ==
    ASSUME OneLock
    PROVE  AnalyticsSpec => []AnInv
<1>1. AnInv /\ [AnalyticsNext]_analyticsVars => AnInv'
  BY AnStepKeeps
<1>2. QED BY AnInitHolds, <1>1, PTL DEF AnalyticsSpec

(* With one advisory lock for the date, whatever is started, fails or      *)
(* dies: a SUCCEEDED run is published, a blocked dataset is not, and       *)
(* run_provisional never writes to a FINAL run.                            *)
THEOREM AnalyticsSafety ==
    ASSUME OneLock
    PROVE  AnalyticsSpec => AnalyticsSafe
<1>1. AnInv => AnalyticsTypeOK /\ SucceededIsPublished /\ BlockedNeverPublished
  BY DEF AnInv, GateNotFailed, BlockedNeverPublished
<1>2. AnInv /\ [AnalyticsNext]_analyticsVars => FinalKept
  BY AnStepKeeps
<1>3. AnalyticsSpec => [](AnalyticsTypeOK /\ SucceededIsPublished /\ BlockedNeverPublished)
  BY AnInvariance, <1>1, PTL
<1>4. AnalyticsSpec => [][FinalKept]_analyticsVars
  BY AnInvariance, <1>2, PTL DEF AnalyticsSpec
<1>5. [][FinalKept]_analyticsVars => ProvisionalKeepsFinal
  BY PTL DEF FinalKept, ProvisionalKeepsFinal
<1>6. QED BY <1>3, <1>4, <1>5, PTL DEF AnalyticsSafe

-----------------------------------------------------------------------------
(* The registry of findings: rows, and what an ingestion may hold.         *)
Entities == Fingerprints \cup EntityKinds

Statuses ==
    {"OPEN", "REPEATED", "RESEARCH_REQUIRED", "CLOSED", "DRAFT", "REJECTED", "EXPERIMENT_DESIGNED",
     "BACKTESTING", "OOS_VALIDATION", "INCONCLUSIVE", "VALIDATED", "PROPOSED", "FROZEN",
     "CANCELLED", "RUNNING", "COMPLETED", "PENDING", "FAILED", "APPROVED", "IMPLEMENTED"}

StatusMoves == [from : Statuses, to : Statuses, by : Operators \cup {"repeat_policy"}]

FindingsTyped ==
    /\ DOMAIN status = Entities /\ \A e \in Entities : status[e] \in Statuses \cup {NONE}
    /\ DOMAIN aggregate = Fingerprints /\ DOMAIN history = Entities
    /\ \A e \in Entities : history[e] \in Seq(StatusMoves)
    /\ IsFiniteSet(occurred)
    /\ DOMAIN tx = Ingesters /\ DOMAIN form = Operators

(* What is left of a batch is its end.                                     *)
Remaining(i, todo) ==
    /\ todo \in Seq({Batch(i)[n] : n \in DOMAIN Batch(i)}) /\ Len(todo) <= Len(Batch(i))
    /\ \A k \in 1..Len(todo) : todo[k] = Batch(i)[Len(Batch(i)) - Len(todo) + k]

InTransaction(r) == r.at \in {"insert", "occurrence", "count", "settle"}

(* What an ingester at each of its steps may hold, given the statuses and  *)
(* the committed occurrences.                                              *)
TxIsSound(i, r, st, oc) ==
    /\ DOMAIN r = {"at", "todo", "seen", "made", "own", "counted"}
    /\ r.at \in {"idle", "raised", "insert", "occurrence", "count", "settle"}
    /\ Remaining(i, r.todo)
    /\ InTransaction(r) => r.todo # <<>> /\ Hash(Head(r.todo)) \in Fingerprints
    /\ r.made \in BOOLEAN
    /\ r.made => r.at \in {"occurrence", "count", "settle"}
    /\ r.at \notin {"count", "settle"} => r.own = {}
    /\ \A o \in r.own : o = Occurrence(i, Head(r.todo))
    /\ \A o \in r.own, p \in oc : ~SameKey(o, p)
    /\ r.at \in {"occurrence", "count", "settle"} =>
         (r.made <=> st[Hash(Head(r.todo))] = NONE)
    /\ r.at \in {"count", "settle"} =>
         \E p \in oc \cup r.own : SameKey(Occurrence(i, Head(r.todo)), p)
    /\ r.at = "settle" => r.counted <= Cardinality(OfFinding(oc \cup r.own, Hash(Head(r.todo))))
                          /\ r.counted \in Nat

(* Two ingesters never hold the same new row.                              *)
Apart(r, q) ==
    /\ r.made /\ q.made => Hash(Head(r.todo)) # Hash(Head(q.todo))
    /\ \A o \in r.own, p \in q.own : ~SameKey(o, p)

TxsAreSound ==
    /\ \A i \in Ingesters : TxIsSound(i, tx[i], status, occurred)
    /\ \A i, j \in Ingesters : i # j => Apart(tx[i], tx[j])

(* A form that an operator has filled in is legal in itself, though the    *)
(* status may have changed since.                                          *)
FormsAreLegal ==
    \A o \in Operators :
      form[o] # BlankForm =>
        /\ form[o].entity \in Entities /\ status[form[o].entity] # NONE
        /\ Legal(form[o].entity, form[o].from, form[o].to)

NoRowNoHistory == \A e \in Entities : status[e] = NONE => history[e] = <<>>

FindingsInv ==
    /\ FindingsTyped /\ TxsAreSound /\ FormsAreLegal /\ NoRowNoHistory
    /\ OccurrencesAreExact /\ AggregatesAreSound /\ PromotionsAreEarned /\ HistoryExplainsStatus

LEMMA EntityNames ==
    /\ "hypothesis" \notin Fingerprints /\ "experiment" \notin Fingerprints
    /\ "experiment_run" \notin Fingerprints /\ "change_candidate" \notin Fingerprints
    /\ NONE \notin Fingerprints /\ "repeat_policy" \notin Operators
BY FindingNames DEF NONE

(* A batch is a list, whatever was left out of the result.                 *)
LEMMA BatchIsList ==
    ASSUME NEW i \in Ingesters
    PROVE  Batch(i) \in Seq({Batch(i)[n] : n \in DOMAIN Batch(i)})
<1> DEFINE items == Results[i].items
           chosen  == {k \in DOMAIN items : Extracted(Results[i], items[k])}
           place(k) == Cardinality({j \in chosen : j <= k})
           list  == [n \in 1..Cardinality(chosen) |-> items[CHOOSE k \in chosen : place(k) = n]]
<1>1. Batch(i) = list \/ Batch(i) = <<>>
  BY DEF Batch
<1>2. Cardinality(chosen) \in Nat
  <2>1. IsFiniteSet(DOMAIN items)
    BY FindingNames
  <2>2. chosen \in SUBSET (DOMAIN items)
    OBVIOUS
  <2> HIDE DEF chosen
  <2> QED BY <2>1, <2>2, FS_Subset, FS_CardinalityType
<1> DEFINE m == Cardinality(chosen)
<1>3. list \in Seq({list[n] : n \in DOMAIN list})
  <2> DEFINE g(n) == items[CHOOSE k \in chosen : place(k) = n]
  <2>1. list = [n \in 1..m |-> g(n)]
    OBVIOUS
  <2>2. m \in Nat
    BY <1>2
  <2> HIDE DEF g, m
  <2>3. [n \in 1..m |-> g(n)] \in Seq({[n \in 1..m |-> g(n)][l] : l \in DOMAIN [n \in 1..m |-> g(n)]})
    BY <2>2
  <2> QED BY <2>1, <2>3
<1> HIDE DEF list
<1>4. CASE Batch(i) = list
  BY <1>3, <1>4
<1>5. CASE Batch(i) = <<>>
  <2>1. <<>> \in Seq({Batch(i)[n] : n \in DOMAIN Batch(i)})
    OBVIOUS
  <2> QED BY <2>1, <1>5
<1> QED BY <1>1, <1>4, <1>5

(* Transitions start from and lead to statuses.                            *)
LEMMA LegalFacts ==
    ASSUME NEW e, NEW from, NEW to, Legal(e, from, to)
    PROVE  from \in Statuses /\ to \in Statuses
<1> USE DEF Legal, Transitions, Statuses
<1>1. CASE e = "hypothesis"
  BY <1>1 DEF HypothesisTransitions
<1>2. CASE e = "experiment"
  BY <1>2 DEF ExperimentTransitions
<1>3. CASE e = "experiment_run"
  BY <1>3 DEF ExperimentRunTransitions
<1>4. CASE e = "change_candidate"
  BY <1>4 DEF ChangeCandidateTransitions
<1>5. CASE e \notin {"hypothesis", "experiment", "experiment_run", "change_candidate"}
  BY <1>5 DEF FindingTransitions
<1> QED BY <1>1, <1>2, <1>3, <1>4, <1>5

LEMMA NoneIsNoStatus == NONE \notin Statuses /\ "OPEN" \in Statuses
BY DEF NONE, Statuses

(* What a finite set of rows says of dates and runs is finite, and grows   *)
(* with the rows.                                                          *)
LEMMA DatesFinite ==
    ASSUME NEW R, IsFiniteSet(R)
    PROVE  IsFiniteSet(Dates(R)) /\ Cardinality(Dates(R)) \in Nat
<1> DEFINE T == {o.date : o \in R}
           h == [o \in R |-> o.date]
<1>1. h \in Surjection(R, T)
  BY DEF Surjection
<1>2. IsFiniteSet(T)
  BY <1>1, FS_Surjection
<1>3. Dates(R) \in SUBSET T
  BY DEF Dates
<1> HIDE DEF T
<1> QED BY <1>2, <1>3, FS_Subset, FS_CardinalityType

Loose(rows) == {o.run : o \in {q \in rows : q.date = NoRef}}

LEMMA LooseFinite ==
    ASSUME NEW R, IsFiniteSet(R)
    PROVE  IsFiniteSet(Loose(R)) /\ Cardinality(Loose(R)) \in Nat
<1> DEFINE T == {o.run : o \in R}
           h == [o \in R |-> o.run]
<1>1. h \in Surjection(R, T)
  BY DEF Surjection
<1>2. IsFiniteSet(T)
  BY <1>1, FS_Surjection
<1>3. Loose(R) \in SUBSET T
  BY DEF Loose
<1> HIDE DEF T
<1> QED BY <1>2, <1>3, FS_Subset, FS_CardinalityType

LEMMA ObservationsGrow ==
    ASSUME NEW R, NEW S, R \subseteq S, IsFiniteSet(S)
    PROVE  /\ Cardinality(Dates(R)) \in Nat /\ Cardinality(Dates(S)) \in Nat
           /\ Cardinality(Loose(R)) \in Nat /\ Cardinality(Loose(S)) \in Nat
           /\ Cardinality(Dates(R)) <= Cardinality(Dates(S))
           /\ Cardinality(Loose(R)) <= Cardinality(Loose(S))
<1>1. IsFiniteSet(R)
  BY FS_Subset
<1>2. Dates(R) \in SUBSET Dates(S)
  BY DEF Dates
<1>3. Loose(R) \in SUBSET Loose(S)
  BY DEF Loose
<1>4. Cardinality(Dates(R)) <= Cardinality(Dates(S))
  BY <1>2, DatesFinite, FS_Subset
<1>5. Cardinality(Loose(R)) <= Cardinality(Loose(S))
  BY <1>3, LooseFinite, FS_Subset
<1> QED BY <1>1, <1>4, <1>5, DatesFinite, LooseFinite

LEMMA OfFindingFinite ==
    ASSUME NEW R, NEW S, NEW f, R \subseteq S, IsFiniteSet(S)
    PROVE  /\ IsFiniteSet(OfFinding(S, f)) /\ IsFiniteSet(OfFinding(R, f))
           /\ Cardinality(OfFinding(S, f)) \in Nat /\ Cardinality(OfFinding(R, f)) \in Nat
           /\ Cardinality(OfFinding(R, f)) <= Cardinality(OfFinding(S, f))
<1>1. OfFinding(S, f) \in SUBSET S
  BY DEF OfFinding
<1>2. OfFinding(R, f) \in SUBSET OfFinding(S, f)
  BY DEF OfFinding
<1>3. IsFiniteSet(OfFinding(S, f))
  BY <1>1, FS_Subset
<1>4. IsFiniteSet(OfFinding(R, f)) /\ Cardinality(OfFinding(R, f)) <= Cardinality(OfFinding(S, f))
  BY <1>2, <1>3, FS_Subset
<1> QED BY <1>3, <1>4, FS_CardinalityType

-----------------------------------------------------------------------------
(* An ingester moves while rows and committed occurrences stay.            *)
LEMMA IngesterMoves ==
    ASSUME FindingsInv, NEW i \in Ingesters, DOMAIN tx' = Ingesters,
           \A j \in Ingesters : j # i => tx'[j] = tx[j],
           status' = status, occurred' = occurred,
           TxIsSound(i, tx'[i], status, occurred),
           \A j \in Ingesters : j # i => Apart(tx'[i], tx[j])
    PROVE  TxsAreSound'
<1>1. \A j \in Ingesters : TxIsSound(j, tx'[j], status', occurred')
  BY DEF FindingsInv, TxsAreSound
<1>2. \A j, k \in Ingesters : j # k => Apart(tx'[j], tx'[k])
  <2> SUFFICES ASSUME NEW j \in Ingesters, NEW k \in Ingesters, j # k
               PROVE  Apart(tx'[j], tx'[k])
    OBVIOUS
  <2>1. CASE j = i
    BY <2>1
  <2>2. CASE k = i
    <3>1. Apart(tx'[i], tx'[j])
      BY <2>2
    <3> QED BY <2>2, <3>1 DEF Apart, SameKey
  <2>3. CASE j # i /\ k # i
    BY <2>3 DEF FindingsInv, TxsAreSound
  <2> QED BY <2>1, <2>2, <2>3
<1> QED BY <1>1, <1>2 DEF TxsAreSound

(* What an ingester holds is sound while it is at none of the steps of a   *)
(* transaction.                                                            *)
LEMMA IngesterAtRest ==
    ASSUME NEW i \in Ingesters, NEW r, NEW st, NEW oc,
           DOMAIN r = {"at", "todo", "seen", "made", "own", "counted"},
           r.at \in {"idle", "raised"}, Remaining(i, r.todo), r.made = FALSE, r.own = {}
    PROVE  TxIsSound(i, r, st, oc) /\ \A q : Apart(r, q)
BY DEF TxIsSound, InTransaction, Apart

LEMMA TailRemains ==
    ASSUME NEW i \in Ingesters, NEW todo, Remaining(i, todo), todo # <<>>
    PROVE  /\ Remaining(i, Tail(todo)) /\ Len(Tail(todo)) = Len(todo) - 1 /\ Len(todo) \in Nat
           /\ Head(todo) = Batch(i)[Len(Batch(i)) - Len(todo) + 1]
           /\ Len(todo) <= Len(Batch(i)) /\ Len(todo) > 0
           /\ Len(Batch(i)) \in Nat
<1> DEFINE T == {Batch(i)[n] : n \in DOMAIN Batch(i)}
           B == Batch(i)
<1>1. B \in Seq(T)
  BY BatchIsList
<1>2. todo \in Seq(T) /\ Len(todo) <= Len(B)
      /\ \A k \in 1..Len(todo) : todo[k] = B[Len(B) - Len(todo) + k]
  BY DEF Remaining
<1>3. /\ Tail(todo) \in Seq(T) /\ Len(Tail(todo)) <= Len(B) /\ Len(Tail(todo)) = Len(todo) - 1
      /\ Len(todo) \in Nat /\ Len(B) \in Nat /\ Len(todo) > 0
  <2> HIDE DEF B, T
  <2> QED BY <1>1, <1>2
<1>4. \A k \in 1..Len(Tail(todo)) : Tail(todo)[k] = B[Len(B) - Len(Tail(todo)) + k]
  <2> HIDE DEF B, T
  <2> TAKE k \in 1..Len(Tail(todo))
  <2>1. Tail(todo)[k] = todo[k + 1] /\ k + 1 \in 1..Len(todo)
    BY <1>2, <1>3
  <2> QED BY <2>1, <1>2, <1>3
<1>5. Head(todo) = B[Len(B) - Len(todo) + 1]
  <2> HIDE DEF B, T
  <2>1. Head(todo) = todo[1] /\ 1 \in 1..Len(todo)
    BY <1>2, <1>3
  <2> QED BY <2>1, <1>2
<1> QED BY <1>2, <1>3, <1>4, <1>5 DEF Remaining

LEMMA WholeRemains ==
    ASSUME NEW i \in Ingesters
    PROVE  Remaining(i, Batch(i)) /\ Len(Batch(i)) \in Nat
<1> DEFINE T == {Batch(i)[n] : n \in DOMAIN Batch(i)}
           B == Batch(i)
<1>1. B \in Seq(T)
  BY BatchIsList
<1>2. Len(B) \in Nat /\ Len(B) <= Len(B) /\ \A k \in 1..Len(B) : B[k] = B[Len(B) - Len(B) + k]
  <2> HIDE DEF B, T
  <2> QED BY <1>1
<1> QED BY <1>1, <1>2 DEF Remaining

LEMMA NewRowsAreInTransactions ==
    ASSUME NEW i \in Ingesters, NEW r, NEW st, NEW oc, TxIsSound(i, r, st, oc),
           r.at \in {"idle", "raised", "insert"}
    PROVE  r.made = FALSE
<1>1. r.made \in BOOLEAN
  BY DEF TxIsSound
<1>2. r.made => r.at \in {"occurrence", "count", "settle"}
  BY DEF TxIsSound
<1>3. ~r.made
  BY <1>2
<1> QED BY <1>1, <1>3, Zenon

LEMMA SkipKeepsTx ==
    ASSUME FindingsInv, NEW i \in Ingesters, Skip(i)
    PROVE  TxsAreSound'
<1> DEFINE r == tx[i]
<1>1. TxIsSound(i, r, status, occurred) /\ DOMAIN tx = Ingesters
  BY DEF FindingsInv, TxsAreSound, FindingsTyped
<1>2. /\ DOMAIN tx' = Ingesters /\ status' = status /\ occurred' = occurred
      /\ \A j \in Ingesters : j # i => tx'[j] = tx[j]
      /\ tx'[i] = [r EXCEPT !.todo = Tail(r.todo)]
  BY <1>1 DEF Skip
<1>3. r.at = "idle" /\ r.todo # <<>> /\ r.own = {} /\ Remaining(i, r.todo)
      /\ DOMAIN r = {"at", "todo", "seen", "made", "own", "counted"}
  BY <1>1 DEF Skip, TxIsSound
<1>30. r.made = FALSE
  BY <1>1, <1>3, NewRowsAreInTransactions
<1> HIDE DEF r
<1>4. /\ DOMAIN tx'[i] = {"at", "todo", "seen", "made", "own", "counted"}
      /\ tx'[i].at = "idle" /\ tx'[i].made = FALSE /\ tx'[i].own = {}
      /\ tx'[i].todo = Tail(r.todo)
  BY <1>2, <1>3, <1>30
<1>5. Remaining(i, tx'[i].todo)
  BY <1>3, <1>4, TailRemains
<1>6. TxIsSound(i, tx'[i], status, occurred) /\ \A q : Apart(tx'[i], q)
  BY <1>4, <1>5, IngesterAtRest
<1> QED BY <1>2, <1>6, IngesterMoves

LEMMA LookupKeepsTx ==
    ASSUME FindingsInv, NEW i \in Ingesters, Lookup(i)
    PROVE  TxsAreSound'
<1> DEFINE r == tx[i]
           f == Hash(Head(r.todo))
<1>1. TxIsSound(i, r, status, occurred) /\ DOMAIN tx = Ingesters
  BY DEF FindingsInv, TxsAreSound, FindingsTyped
<1>2. /\ DOMAIN tx' = Ingesters /\ status' = status /\ occurred' = occurred
      /\ \A j \in Ingesters : j # i => tx'[j] = tx[j]
      /\ tx'[i] = [[r EXCEPT !.at = IF status[f] = NONE THEN "insert" ELSE "occurrence"]
                     EXCEPT !.seen = status[f]]
  BY <1>1 DEF Lookup, Candidate
<1>3. r.at = "idle" /\ r.todo # <<>> /\ r.own = {} /\ Remaining(i, r.todo)
      /\ DOMAIN r = {"at", "todo", "seen", "made", "own", "counted"} /\ f \in Fingerprints
  BY <1>1 DEF Lookup, TxIsSound, Ingestible, Normalises, Candidate
<1>30. r.made = FALSE
  BY <1>1, <1>3, NewRowsAreInTransactions
<1> HIDE DEF r
<1>4. /\ DOMAIN tx'[i] = {"at", "todo", "seen", "made", "own", "counted"}
      /\ tx'[i].at = (IF status[f] = NONE THEN "insert" ELSE "occurrence")
      /\ tx'[i].made = FALSE /\ tx'[i].own = {} /\ tx'[i].todo = r.todo
  BY <1>2, <1>3, <1>30
<1>5. TxIsSound(i, tx'[i], status, occurred)
  BY <1>3, <1>4 DEF TxIsSound, InTransaction
<1>6. \A q : Apart(tx'[i], q)
  BY <1>4 DEF Apart
<1> QED BY <1>2, <1>5, <1>6, IngesterMoves

LEMMA FailKeepsTx ==
    ASSUME FindingsInv, NEW i \in Ingesters, tx' = Raised(i),
           status' = status, occurred' = occurred
    PROVE  TxsAreSound'
<1> DEFINE r == tx[i]
<1>1. TxIsSound(i, r, status, occurred) /\ DOMAIN tx = Ingesters
  BY DEF FindingsInv, TxsAreSound, FindingsTyped
<1>2. /\ DOMAIN tx' = Ingesters
      /\ \A j \in Ingesters : j # i => tx'[j] = tx[j]
      /\ tx'[i] = [Waiting(r.todo) EXCEPT !.at = "raised"]
  BY <1>1 DEF Raised
<1>3. Remaining(i, r.todo)
  BY <1>1 DEF TxIsSound
<1> HIDE DEF r
<1>4. /\ DOMAIN tx'[i] = {"at", "todo", "seen", "made", "own", "counted"}
      /\ tx'[i].at = "raised" /\ tx'[i].made = FALSE /\ tx'[i].own = {}
      /\ tx'[i].todo = r.todo
  BY <1>2 DEF Waiting
<1>6. TxIsSound(i, tx'[i], status, occurred) /\ \A q : Apart(tx'[i], q)
  BY <1>3, <1>4, IngesterAtRest
<1> QED BY <1>2, <1>6, IngesterMoves

LEMMA ReplayKeepsTx ==
    ASSUME FindingsInv, NEW i \in Ingesters, Replay(i)
    PROVE  TxsAreSound'
<1>1. DOMAIN tx = Ingesters
  BY DEF FindingsInv, FindingsTyped
<1>2. /\ DOMAIN tx' = Ingesters /\ status' = status /\ occurred' = occurred
      /\ \A j \in Ingesters : j # i => tx'[j] = tx[j]
      /\ tx'[i] = Waiting(Batch(i))
  BY <1>1 DEF Replay
<1>4. /\ DOMAIN tx'[i] = {"at", "todo", "seen", "made", "own", "counted"}
      /\ tx'[i].at = "idle" /\ tx'[i].made = FALSE /\ tx'[i].own = {}
      /\ tx'[i].todo = Batch(i)
  BY <1>2 DEF Waiting
<1>6. TxIsSound(i, tx'[i], status, occurred) /\ \A q : Apart(tx'[i], q)
  BY <1>4, IngesterAtRest, WholeRemains
<1> QED BY <1>2, <1>6, IngesterMoves

(* The transaction goes on: only the steps it is at, what it read and what *)
(* it holds change.                                                        *)
LEMMA InsertKeepsTx ==
    ASSUME FindingsInv, NEW i \in Ingesters, InsertFinding(i)
    PROVE  TxsAreSound'
<1> DEFINE r == tx[i]
           f == Hash(Head(r.todo))
<1>1. TxIsSound(i, r, status, occurred) /\ DOMAIN tx = Ingesters
      /\ \A j \in Ingesters : TxIsSound(j, tx[j], status, occurred)
  BY DEF FindingsInv, TxsAreSound, FindingsTyped
<1>2. status' = status /\ occurred' = occurred /\ r.at = "insert"
      /\ \A j \in Ingesters : j # i /\ tx[j].made => Hash(Head(tx[j].todo)) # f
  BY DEF InsertFinding, Candidate, Others
<1>3. /\ r.todo # <<>> /\ r.own = {} /\ Remaining(i, r.todo)
      /\ DOMAIN r = {"at", "todo", "seen", "made", "own", "counted"} /\ f \in Fingerprints
  BY <1>1, <1>2 DEF TxIsSound, InTransaction
<1>4. r.made = FALSE
  BY <1>1, <1>2, NewRowsAreInTransactions
<1>5. CASE status[f] # NONE /\ tx' = [tx EXCEPT ![i].at = "occurrence", ![i].seen = status[f]]
  <2>1. /\ DOMAIN tx' = Ingesters /\ \A j \in Ingesters : j # i => tx'[j] = tx[j]
        /\ tx'[i] = [[r EXCEPT !.at = "occurrence"] EXCEPT !.seen = status[f]]
    BY <1>1, <1>5
  <2> HIDE DEF r
  <2>2. /\ DOMAIN tx'[i] = {"at", "todo", "seen", "made", "own", "counted"}
        /\ tx'[i].at = "occurrence"
        /\ tx'[i].made = FALSE /\ tx'[i].own = {} /\ tx'[i].todo = r.todo
    BY <2>1, <1>3, <1>4
  <2>3. TxIsSound(i, tx'[i], status, occurred)
    BY <1>3, <1>5, <2>2 DEF TxIsSound, InTransaction
  <2>4. \A q : Apart(tx'[i], q)
    BY <2>2 DEF Apart
  <2> QED BY <1>2, <2>1, <2>3, <2>4, IngesterMoves
<1>6. CASE status[f] = NONE
           /\ tx' = [tx EXCEPT ![i].at = "occurrence", ![i].seen = "OPEN", ![i].made = TRUE]
  <2>1. /\ DOMAIN tx' = Ingesters /\ \A j \in Ingesters : j # i => tx'[j] = tx[j]
        /\ tx'[i] = [[[r EXCEPT !.at = "occurrence"] EXCEPT !.seen = "OPEN"] EXCEPT !.made = TRUE]
    BY <1>1, <1>6
  <2> HIDE DEF r
  <2>2. /\ DOMAIN tx'[i] = {"at", "todo", "seen", "made", "own", "counted"}
        /\ tx'[i].at = "occurrence"
        /\ tx'[i].made = TRUE /\ tx'[i].own = {} /\ tx'[i].todo = r.todo
    BY <2>1, <1>3, <1>4
  <2>3. TxIsSound(i, tx'[i], status, occurred)
    BY <1>3, <1>6, <2>2 DEF TxIsSound, InTransaction
  <2>4. \A j \in Ingesters : j # i => Apart(tx'[i], tx[j])
    BY <2>2, <1>2 DEF Apart
  <2> QED BY <1>2, <2>1, <2>3, <2>4, IngesterMoves
<1>7. CASE tx' = Raised(i)
  BY <1>2, <1>7, FailKeepsTx
<1> QED BY <1>5, <1>6, <1>7 DEF InsertFinding, Candidate

LEMMA OccurrenceKeepsTx ==
    ASSUME FindingsInv, NEW i \in Ingesters, CreateOccurrence(i)
    PROVE  TxsAreSound'
<1> DEFINE r == tx[i]
           o == Occurrence(i, Head(r.todo))
           new == IF \E p \in occurred : SameKey(o, p) THEN {} ELSE {o}
<1>1. TxIsSound(i, r, status, occurred) /\ DOMAIN tx = Ingesters
      /\ \A j \in Ingesters : j # i => Apart(r, tx[j])
  BY DEF FindingsInv, TxsAreSound, FindingsTyped
<1>2. status' = status /\ occurred' = occurred /\ r.at = "occurrence"
      /\ \A j \in Ingesters : j # i => \A p \in tx[j].own : ~SameKey(o, p)
  BY DEF CreateOccurrence, Candidate, Others
<1>3. /\ r.todo # <<>> /\ Remaining(i, r.todo) /\ r.made \in BOOLEAN
      /\ DOMAIN r = {"at", "todo", "seen", "made", "own", "counted"}
      /\ Hash(Head(r.todo)) \in Fingerprints /\ (r.made <=> status[Hash(Head(r.todo))] = NONE)
  BY <1>1, <1>2 DEF TxIsSound, InTransaction
<1>5. CASE tx' = [tx EXCEPT ![i].at = "count", ![i].own = new]
  <2>1. /\ DOMAIN tx' = Ingesters /\ \A j \in Ingesters : j # i => tx'[j] = tx[j]
        /\ tx'[i] = [[r EXCEPT !.at = "count"] EXCEPT !.own = new]
    BY <1>1, <1>5
  <2>2. (\A p \in new : p = o) /\ (\A p \in new, q \in occurred : ~SameKey(p, q))
        /\ (\E p \in occurred \cup new : SameKey(o, p))
    BY DEF SameKey
  <2> HIDE DEF r, new, o
  <2>3. /\ DOMAIN tx'[i] = {"at", "todo", "seen", "made", "own", "counted"}
        /\ tx'[i].at = "count"
        /\ tx'[i].made = r.made /\ tx'[i].own = new /\ tx'[i].todo = r.todo
    BY <2>1, <1>3
  <2>4. TxIsSound(i, tx'[i], status, occurred)
    BY <1>3, <2>3, <2>2 DEF TxIsSound, InTransaction, o
  <2>5. \A j \in Ingesters : j # i => Apart(tx'[i], tx[j])
    BY <2>2, <2>3, <1>1, <1>2 DEF Apart
  <2> QED BY <1>2, <2>1, <2>4, <2>5, IngesterMoves
<1>7. CASE tx' = Raised(i)
  BY <1>2, <1>7, FailKeepsTx
<1> QED BY <1>5, <1>7 DEF CreateOccurrence, Candidate

LEMMA OwnIsFinite ==
    ASSUME NEW i \in Ingesters, NEW r, NEW st, TxIsSound(i, r, st, occurred),
           IsFiniteSet(occurred)
    PROVE  IsFiniteSet(occurred \cup r.own)
<1>1. r.own \in SUBSET {Occurrence(i, Head(r.todo))}
  BY DEF TxIsSound
<1>2. IsFiniteSet({Occurrence(i, Head(r.todo))})
  BY FS_Singleton
<1>3. IsFiniteSet(r.own)
  BY <1>1, <1>2, FS_Subset
<1> QED BY <1>3, FS_Union

LEMMA CountKeepsTx ==
    ASSUME FindingsInv, NEW i \in Ingesters, CountOccurrences(i)
    PROVE  TxsAreSound'
<1> DEFINE r == tx[i]
           f == Hash(Head(r.todo))
           n == Cardinality(OfFinding(occurred \cup r.own, f))
<1>1. TxIsSound(i, r, status, occurred) /\ DOMAIN tx = Ingesters
      /\ \A j \in Ingesters : j # i => Apart(r, tx[j])
  BY DEF FindingsInv, TxsAreSound, FindingsTyped
<1>2. status' = status /\ occurred' = occurred /\ r.at = "count"
      /\ tx' = [tx EXCEPT ![i].at = "settle", ![i].counted = n]
  BY DEF CountOccurrences, Candidate
<1>3. n \in Nat
  <2>1. IsFiniteSet(occurred \cup r.own)
    BY <1>1, OwnIsFinite DEF FindingsInv, FindingsTyped
  <2> QED BY <2>1, OfFindingFinite
<1>4. /\ DOMAIN tx' = Ingesters /\ \A j \in Ingesters : j # i => tx'[j] = tx[j]
      /\ tx'[i] = [[r EXCEPT !.at = "settle"] EXCEPT !.counted = n]
  BY <1>1, <1>2
<1>5. DOMAIN r = {"at", "todo", "seen", "made", "own", "counted"}
  BY <1>1 DEF TxIsSound
<1> HIDE DEF r, n
<1>6. /\ DOMAIN tx'[i] = {"at", "todo", "seen", "made", "own", "counted"}
      /\ tx'[i].at = "settle" /\ tx'[i].counted = n
      /\ tx'[i].made = r.made /\ tx'[i].own = r.own /\ tx'[i].todo = r.todo
  BY <1>4, <1>5
<1>7. n <= Cardinality(OfFinding(occurred \cup tx'[i].own, Hash(Head(tx'[i].todo))))
  <2>1. n = Cardinality(OfFinding(occurred \cup tx'[i].own, Hash(Head(tx'[i].todo))))
    BY <1>6 DEF n
  <2> QED BY <2>1, <1>3
<1>8. TxIsSound(i, tx'[i], status, occurred)
  BY <1>1, <1>2, <1>3, <1>6, <1>7 DEF TxIsSound, InTransaction
<1>9. \A j \in Ingesters : j # i => Apart(tx'[i], tx[j])
  BY <1>6, <1>1 DEF Apart
<1> QED BY <1>2, <1>4, <1>8, <1>9, IngesterMoves

(* What the policy asks of a promotion, in the words of the property.      *)
EarnedBy(rows, to) ==
    /\ Independent(rows) >= (IF to = "REPEATED" THEN RepeatMin ELSE ResearchMin)
    /\ to = "RESEARCH_REQUIRED" => Cardinality(Dates(Qualifying(rows))) >= DatesMin

EarnedPromotions(oc, hs) ==
    \A f \in Fingerprints : \A k \in 1..Len(hs[f]) :
        hs[f][k].by = "repeat_policy" => EarnedBy(OfFinding(oc, f), hs[f][k].to)

LEMMA IndependentIsSum ==
    ASSUME NEW R
    PROVE  Independent(R) = Cardinality(Dates(Qualifying(R))) + Cardinality(Loose(Qualifying(R)))
BY DEF Independent, Loose

LEMMA EarnedIsPromotions ==
    PromotionsAreEarned <=> EarnedPromotions(occurred, history)
<1>1. \A f : {o \in occurred : o.fp = f /\ o.strong} = Qualifying(OfFinding(occurred, f))
  BY DEF Qualifying, OfFinding
<1>2. \A f :
        LET strong == {o \in occurred : o.fp = f /\ o.strong}
            days   == {o.date : o \in strong} \ {NoRef}
            loose  == {o.run : o \in {p \in strong : p.date = NoRef}}
        IN /\ days = Dates(Qualifying(OfFinding(occurred, f)))
           /\ Cardinality(days) + Cardinality(loose) = Independent(OfFinding(occurred, f))
  BY <1>1 DEF Independent, Dates
<1> QED BY <1>2 DEF PromotionsAreEarned, EarnedPromotions, EarnedBy

LEMMA EarnedIsPromotionsNext ==
    PromotionsAreEarned' <=> EarnedPromotions(occurred', history')
<1>1. \A f : {o \in occurred' : o.fp = f /\ o.strong} = Qualifying(OfFinding(occurred', f))
  BY DEF Qualifying, OfFinding
<1>2. \A f :
        LET strong == {o \in occurred' : o.fp = f /\ o.strong}
            days   == {o.date : o \in strong} \ {NoRef}
            loose  == {o.run : o \in {p \in strong : p.date = NoRef}}
        IN /\ days = Dates(Qualifying(OfFinding(occurred', f)))
           /\ Cardinality(days) + Cardinality(loose) = Independent(OfFinding(occurred', f))
  BY <1>1 DEF Independent, Dates
<1> QED BY <1>2 DEF PromotionsAreEarned, EarnedPromotions, EarnedBy

LEMMA EarnedGrows ==
    ASSUME NEW R, NEW S, NEW to, R \subseteq S, IsFiniteSet(S), EarnedBy(R, to)
    PROVE  EarnedBy(S, to)
<1>1. Qualifying(R) \subseteq Qualifying(S) /\ Qualifying(S) \in SUBSET S
  BY DEF Qualifying
<1>2. IsFiniteSet(Qualifying(S))
  BY <1>1, FS_Subset
<1> DEFINE d == Cardinality(Dates(Qualifying(R)))
           e == Cardinality(Dates(Qualifying(S)))
           l == Cardinality(Loose(Qualifying(R)))
           m == Cardinality(Loose(Qualifying(S)))
           least == IF to = "REPEATED" THEN RepeatMin ELSE ResearchMin
<1>3. d \in Nat /\ e \in Nat /\ l \in Nat /\ m \in Nat /\ d <= e /\ l <= m
  BY <1>1, <1>2, ObservationsGrow
<1>4. Independent(R) = d + l /\ Independent(S) = e + m
  BY IndependentIsSum
<1>5. least \in Nat /\ DatesMin \in Nat
  BY FindingThresholds
<1>6. d + l >= least /\ (to = "RESEARCH_REQUIRED" => d >= DatesMin)
  BY <1>4 DEF EarnedBy
<1>7. e + m >= least /\ (to = "RESEARCH_REQUIRED" => e >= DatesMin)
  <2> HIDE DEF d, e, l, m, least
  <2> QED BY <1>3, <1>5, <1>6
<1> HIDE DEF e, m
<1> QED BY <1>4, <1>7 DEF EarnedBy, e

LEMMA TargetIsEarned ==
    ASSUME NEW rows, NEW seen, PolicyTarget(rows, seen) # NONE
    PROVE  EarnedBy(rows, PolicyTarget(rows, seen))
<1>1. CASE PolicyTarget(rows, seen) = "REPEATED" /\ Independent(rows) >= RepeatMin
  BY <1>1 DEF EarnedBy
<1>2. CASE /\ PolicyTarget(rows, seen) = "RESEARCH_REQUIRED" /\ Independent(rows) >= ResearchMin
           /\ Cardinality(Dates(Qualifying(rows))) >= DatesMin
  BY <1>2 DEF EarnedBy
<1> QED BY <1>1, <1>2 DEF PolicyTarget

(* What a settled transaction leaves behind.                               *)
LEMMA SettleFacts ==
    ASSUME FindingsInv, NEW i \in Ingesters, Settle(i)
    PROVE  LET r    == tx[i]
               f    == Hash(Head(r.todo))
               rows == OfFinding(occurred \cup r.own, f)
               now  == IF r.made THEN "OPEN" ELSE status[f]
               want == PolicyTarget(rows, r.seen)
           IN /\ f \in Fingerprints /\ r.todo # <<>> /\ now \in Statuses
              /\ (r.made <=> status[f] = NONE)
              /\ occurred' = occurred \cup r.own /\ form' = form
              /\ tx' = [tx EXCEPT ![i] = Waiting(Tail(r.todo))]
              /\ aggregate' = [aggregate EXCEPT ![f] = [count |-> r.counted,
                                                       evidence |-> UNION {o.refs : o \in rows}]]
              /\ \/ /\ status' = [status EXCEPT ![f] = now] /\ history' = history
                 \/ /\ want # NONE /\ Legal(f, now, want)
                    /\ status' = [status EXCEPT ![f] = want]
                    /\ history' = [history EXCEPT ![f] =
                           Append(history[f], [from |-> now, to |-> want, by |-> "repeat_policy"])]
<1> DEFINE r == tx[i]
           f == Hash(Head(r.todo))
<1>1. TxIsSound(i, r, status, occurred) /\ r.at = "settle"
  BY DEF FindingsInv, TxsAreSound, Settle
<1>2. r.todo # <<>> /\ f \in Fingerprints /\ (r.made <=> status[f] = NONE)
  BY <1>1 DEF TxIsSound, InTransaction
<1>3. status[f] \in Statuses \cup {NONE}
  BY <1>2 DEF FindingsInv, FindingsTyped, Entities
<1>4. (IF r.made THEN "OPEN" ELSE status[f]) \in Statuses
  BY <1>2, <1>3, NoneIsNoStatus
<1> QED BY <1>2, <1>4 DEF Settle, Candidate

(* Rows that another ingester commits do not disturb a transaction.        *)
LEMMA OthersSurviveCommit ==
    ASSUME FindingsInv, NEW i \in Ingesters, NEW j \in Ingesters, j # i,
           tx[i].at = "settle", NEW st,
           st[Hash(Head(tx[i].todo))] # NONE,
           \A e : e # Hash(Head(tx[i].todo)) => st[e] = status[e]
    PROVE  TxIsSound(j, tx[j], st, occurred \cup tx[i].own)
<1> DEFINE r == tx[i]
           q == tx[j]
           f == Hash(Head(r.todo))
           g == Hash(Head(q.todo))
           S == occurred \cup r.own
<1>1. /\ TxIsSound(i, r, status, occurred) /\ TxIsSound(j, q, status, occurred)
      /\ Apart(r, q) /\ IsFiniteSet(occurred)
  BY DEF FindingsInv, TxsAreSound, FindingsTyped
<1>2. IsFiniteSet(S)
  BY <1>1, OwnIsFinite
<1>3. \A o \in q.own : o = Occurrence(j, Head(q.todo))
  BY <1>1 DEF TxIsSound
<1>4. IsFiniteSet(S \cup q.own)
  <2>1. q.own \in SUBSET {Occurrence(j, Head(q.todo))}
    BY <1>3
  <2>2. IsFiniteSet({Occurrence(j, Head(q.todo))})
    BY FS_Singleton
  <2>3. IsFiniteSet(q.own)
    BY <2>1, <2>2, FS_Subset
  <2> QED BY <1>2, <2>3, FS_Union
<1>5. \A o \in q.own, p \in S : ~SameKey(o, p)
  <2>1. \A o \in q.own, p \in occurred : ~SameKey(o, p)
    BY <1>1 DEF TxIsSound
  <2>2. \A o \in q.own, p \in r.own : ~SameKey(o, p)
    BY <1>1 DEF Apart, SameKey
  <2> QED BY <2>1, <2>2
<1>6. q.at \in {"occurrence", "count", "settle"} => (q.made <=> st[g] = NONE)
  <2>1. q.at \in {"occurrence", "count", "settle"} => (q.made <=> status[g] = NONE)
    BY <1>1 DEF TxIsSound
  <2>2. r.made <=> status[f] = NONE
    BY <1>1 DEF TxIsSound
  <2>3. ~(r.made /\ q.made /\ f = g)
    BY <1>1 DEF Apart
  <2>4. CASE f = g
    <3>1. st[g] # NONE
      BY <2>4
    <3>2. r.made <=> status[g] = NONE
      BY <2>2, <2>4
    <3> QED BY <2>1, <2>3, <2>4, <3>1, <3>2
  <2>5. CASE f # g
    <3>1. st[g] = status[g]
      BY <2>5
    <3> QED BY <2>1, <3>1
  <2> QED BY <2>4, <2>5
<1>7. q.at \in {"count", "settle"} => \E p \in S \cup q.own : SameKey(Occurrence(j, Head(q.todo)), p)
  BY <1>1 DEF TxIsSound
<1>8. q.at = "settle" =>
        q.counted \in Nat /\ q.counted <= Cardinality(OfFinding(S \cup q.own, g))
  <2> SUFFICES ASSUME q.at = "settle"
               PROVE  q.counted \in Nat /\ q.counted <= Cardinality(OfFinding(S \cup q.own, g))
    OBVIOUS
  <2>1. q.counted \in Nat /\ q.counted <= Cardinality(OfFinding(occurred \cup q.own, g))
    BY <1>1 DEF TxIsSound
  <2>2. occurred \cup q.own \subseteq S \cup q.own
    OBVIOUS
  <2>3. /\ Cardinality(OfFinding(occurred \cup q.own, g)) <= Cardinality(OfFinding(S \cup q.own, g))
        /\ Cardinality(OfFinding(occurred \cup q.own, g)) \in Nat
        /\ Cardinality(OfFinding(S \cup q.own, g)) \in Nat
    BY <1>4, <2>2, OfFindingFinite
  <2> QED BY <2>1, <2>3
<1> HIDE DEF S
<1>9. TxIsSound(j, q, st, S)
  BY <1>1, <1>3, <1>5, <1>6, <1>7, <1>8 DEF TxIsSound
<1> QED BY <1>9 DEF S

LEMMA SettleKeepsTx ==
    ASSUME FindingsInv, NEW i \in Ingesters, Settle(i)
    PROVE  TxsAreSound'
<1> DEFINE r == tx[i]
           f == Hash(Head(r.todo))
           now == IF r.made THEN "OPEN" ELSE status[f]
           want == PolicyTarget(OfFinding(occurred \cup r.own, f), r.seen)
<1>1. /\ f \in Fingerprints /\ r.todo # <<>> /\ now \in Statuses
      /\ occurred' = occurred \cup r.own
      /\ tx' = [tx EXCEPT ![i] = Waiting(Tail(r.todo))]
      /\ \/ status' = [status EXCEPT ![f] = now]
         \/ want # NONE /\ status' = [status EXCEPT ![f] = want]
  BY SettleFacts
<1>2. /\ DOMAIN tx = Ingesters /\ DOMAIN status = Entities /\ r.at = "settle"
      /\ Remaining(i, r.todo)
  BY DEF FindingsInv, FindingsTyped, TxsAreSound, TxIsSound, Settle
<1>3. f \in DOMAIN status /\ now # NONE
  BY <1>1, <1>2, NoneIsNoStatus DEF Entities
<1>4. status'[f] # NONE /\ \A e : e # f => status'[e] = status[e]
  <2> HIDE DEF now, want
  <2>1. CASE status' = [status EXCEPT ![f] = now]
    BY <1>3, <2>1
  <2>2. CASE want # NONE /\ status' = [status EXCEPT ![f] = want]
    BY <1>3, <2>2
  <2> QED BY <1>1, <2>1, <2>2
<1>5. /\ DOMAIN tx' = Ingesters /\ tx'[i] = Waiting(Tail(r.todo))
      /\ \A j \in Ingesters : j # i => tx'[j] = tx[j]
  BY <1>1, <1>2
<1>6. \A j \in Ingesters : j # i => TxIsSound(j, tx'[j], status', occurred')
  <2> SUFFICES ASSUME NEW j \in Ingesters, j # i
               PROVE  TxIsSound(j, tx'[j], status', occurred')
    OBVIOUS
  <2>1. TxIsSound(j, tx[j], status', occurred \cup tx[i].own)
    BY <1>2, <1>4, OthersSurviveCommit
  <2> QED BY <2>1, <1>1, <1>5
<1>7. TxIsSound(i, tx'[i], status', occurred') /\ \A q : Apart(tx'[i], q)
  <2> HIDE DEF r
  <2>1. /\ DOMAIN tx'[i] = {"at", "todo", "seen", "made", "own", "counted"}
        /\ tx'[i].at = "idle" /\ tx'[i].made = FALSE /\ tx'[i].own = {}
        /\ tx'[i].todo = Tail(r.todo)
    BY <1>5 DEF Waiting
  <2>2. Remaining(i, tx'[i].todo)
    BY <1>1, <1>2, <2>1, TailRemains
  <2> QED BY <2>1, <2>2, IngesterAtRest
<1>8. \A j, k \in Ingesters : j # k => Apart(tx'[j], tx'[k])
  <2> SUFFICES ASSUME NEW j \in Ingesters, NEW k \in Ingesters, j # k
               PROVE  Apart(tx'[j], tx'[k])
    OBVIOUS
  <2>1. CASE j = i
    BY <2>1, <1>7
  <2>2. CASE k = i
    <3>1. Apart(tx'[i], tx'[j])
      BY <1>7
    <3> QED BY <2>2, <3>1 DEF Apart, SameKey
  <2>3. CASE j # i /\ k # i
    BY <2>3, <1>5 DEF FindingsInv, TxsAreSound
  <2> QED BY <2>1, <2>2, <2>3
<1> QED BY <1>6, <1>7, <1>8 DEF TxsAreSound

(* What an ingester holds has the key of its candidate, and no committed   *)
(* row has: the committed rows stay one per finding and run, and once the  *)
(* candidate is passed one of them is there.                               *)
LEMMA SettleKeepsOccurrences ==
    ASSUME FindingsInv, NEW i \in Ingesters, Settle(i)
    PROVE  OccurrencesAreExact'
<1> DEFINE r == tx[i]
           S == occurred \cup r.own
<1>1. /\ r.todo # <<>> /\ occurred' = S
      /\ tx' = [tx EXCEPT ![i] = Waiting(Tail(r.todo))]
  BY SettleFacts
<1>2. /\ DOMAIN tx = Ingesters /\ TxIsSound(i, r, status, occurred) /\ r.at = "settle"
      /\ OccurrencesAreExact
  BY DEF FindingsInv, FindingsTyped, TxsAreSound, Settle
<1>3. /\ Remaining(i, r.todo) /\ (\A o \in r.own : o = Occurrence(i, Head(r.todo)))
      /\ (\A o \in r.own, p \in occurred : ~SameKey(o, p))
      /\ \E p \in S : SameKey(Occurrence(i, Head(r.todo)), p)
  BY <1>2 DEF TxIsSound
<1>4. /\ tx'[i].todo = Tail(r.todo)
      /\ \A j \in Ingesters : j # i => tx'[j] = tx[j]
  BY <1>1, <1>2 DEF Waiting
<1>5. \A o, p \in S : SameKey(o, p) => o = p
  <2> SUFFICES ASSUME NEW o \in S, NEW p \in S, SameKey(o, p)
               PROVE  o = p
    OBVIOUS
  <2>1. CASE o \in occurred /\ p \in occurred
    BY <2>1, <1>2 DEF OccurrencesAreExact
  <2>2. CASE o \in r.own /\ p \in r.own
    BY <2>2, <1>3
  <2>3. CASE o \in r.own /\ p \in occurred
    BY <2>3, <1>3
  <2>4. CASE o \in occurred /\ p \in r.own
    BY <2>4, <1>3 DEF SameKey
  <2> QED BY <2>1, <2>2, <2>3, <2>4
<1>6. \A j \in Ingesters : \A k \in 1..(Len(Batch(j)) - Len(tx'[j].todo)) :
        Ingestible(Batch(j)[k]) => \E p \in S : SameKey(Occurrence(j, Batch(j)[k]), p)
  <2> SUFFICES ASSUME NEW j \in Ingesters, NEW k \in 1..(Len(Batch(j)) - Len(tx'[j].todo)),
                      Ingestible(Batch(j)[k])
               PROVE  \E p \in S : SameKey(Occurrence(j, Batch(j)[k]), p)
    OBVIOUS
  <2>1. k \in 1..(Len(Batch(j)) - Len(tx[j].todo))
          => \E p \in S : SameKey(Occurrence(j, Batch(j)[k]), p)
    BY <1>2 DEF OccurrencesAreExact
  <2>2. CASE j # i
    BY <2>1, <2>2, <1>4
  <2>3. CASE j = i
    <3>1. /\ Len(Tail(r.todo)) = Len(r.todo) - 1 /\ Len(r.todo) \in Nat /\ Len(Batch(i)) \in Nat
          /\ Head(r.todo) = Batch(i)[Len(Batch(i)) - Len(r.todo) + 1]
      BY <1>1, <1>3, TailRemains
    <3>2. k \in 1..(Len(Batch(i)) - Len(Tail(r.todo)))
      BY <2>3, <1>4
    <3>3. CASE k = Len(Batch(i)) - Len(r.todo) + 1
      BY <3>1, <3>3, <2>3, <1>3
    <3>4. CASE k # Len(Batch(i)) - Len(r.todo) + 1
      <4> HIDE DEF S, r
      <4>1. k \in 1..(Len(Batch(i)) - Len(r.todo))
        BY <3>1, <3>2, <3>4
      <4> QED BY <4>1, <2>1, <2>3 DEF r
    <3> QED BY <3>3, <3>4
  <2> QED BY <2>2, <2>3
<1> QED BY <1>1, <1>5, <1>6 DEF OccurrencesAreExact

(* The aggregate is about the rows of the finding, of which there is one.  *)
LEMMA SettleKeepsAggregates ==
    ASSUME FindingsInv, NEW i \in Ingesters, Settle(i)
    PROVE  AggregatesAreSound'
<1> DEFINE r == tx[i]
           f == Hash(Head(r.todo))
           S == occurred \cup r.own
           now == IF r.made THEN "OPEN" ELSE status[f]
           want == PolicyTarget(OfFinding(S, f), r.seen)
           summary == UNION {o.refs : o \in OfFinding(S, f)}
<1>1. /\ f \in Fingerprints /\ now \in Statuses /\ occurred' = S
      /\ aggregate' = [aggregate EXCEPT ![f] = [count |-> r.counted, evidence |-> summary]]
      /\ \/ status' = [status EXCEPT ![f] = now]
         \/ want # NONE /\ status' = [status EXCEPT ![f] = want]
  BY SettleFacts
<1>2. /\ TxIsSound(i, r, status, occurred) /\ r.at = "settle" /\ AggregatesAreSound
      /\ DOMAIN status = Entities /\ DOMAIN aggregate = Fingerprints
  BY DEF FindingsInv, FindingsTyped, TxsAreSound, Settle
<1>3. /\ (\A o \in r.own : o.fp = f)
      /\ r.counted <= Cardinality(OfFinding(S, f))
      /\ \E p \in S : p.fp = f
  <2>1. /\ (\A o \in r.own : o = Occurrence(i, Head(r.todo)))
        /\ r.counted <= Cardinality(OfFinding(S, f))
        /\ \E p \in S : SameKey(Occurrence(i, Head(r.todo)), p)
    BY <1>2 DEF TxIsSound
  <2> QED BY <2>1 DEF Occurrence, SameKey
<1>4. status'[f] # NONE /\ \A e : e # f => status'[e] = status[e]
  <2>1. f \in DOMAIN status /\ now # NONE
    BY <1>1, <1>2, NoneIsNoStatus DEF Entities
  <2> HIDE DEF now, want
  <2>2. CASE status' = [status EXCEPT ![f] = now]
    BY <2>1, <2>2
  <2>3. CASE want # NONE /\ status' = [status EXCEPT ![f] = want]
    BY <2>1, <2>3
  <2> QED BY <1>1, <2>2, <2>3
<1>5. /\ aggregate'[f].count = r.counted /\ aggregate'[f].evidence = summary
      /\ \A g : g # f => aggregate'[g] = aggregate[g]
  <2> HIDE DEF summary, r
  <2> QED BY <1>1, <1>2
<1>6. \A g \in Fingerprints :
        /\ aggregate'[g].evidence = UNION {o.refs : o \in OfFinding(S, g)}
        /\ aggregate'[g].count <= Cardinality(OfFinding(S, g))
        /\ status'[g] = NONE <=> OfFinding(S, g) = {}
  <2> TAKE g \in Fingerprints
  <2>1. CASE g = f
    <3>1. OfFinding(S, f) # {}
      BY <1>3 DEF OfFinding
    <3> QED BY <2>1, <3>1, <1>3, <1>4, <1>5
  <2>2. CASE g # f
    <3>1. OfFinding(S, g) = OfFinding(occurred, g)
      BY <1>3, <2>2 DEF OfFinding
    <3>2. /\ aggregate[g].evidence = UNION {o.refs : o \in OfFinding(occurred, g)}
          /\ aggregate[g].count <= Cardinality(OfFinding(occurred, g))
          /\ status[g] = NONE <=> OfFinding(occurred, g) = {}
      BY <1>2 DEF AggregatesAreSound
    <3>3. aggregate'[g] = aggregate[g] /\ status'[g] = status[g]
      BY <1>4, <1>5, <2>2
    <3> HIDE DEF S
    <3> QED BY <3>1, <3>2, <3>3
  <2> QED BY <2>1, <2>2
<1> HIDE DEF S
<1> QED BY <1>1, <1>6 DEF AggregatesAreSound

(* A history one longer, at its end.                                       *)
LEMMA HistoryAppends ==
    ASSUME NEW s \in Seq(StatusMoves), NEW m \in StatusMoves
    PROVE  /\ Append(s, m) \in Seq(StatusMoves) /\ Len(Append(s, m)) = Len(s) + 1
           /\ Append(s, m) # <<>> /\ Last(Append(s, m)) = m
           /\ Append(s, m)[Len(s) + 1] = m /\ Len(s) \in Nat
           /\ \A k \in 1..Len(s) : Append(s, m)[k] = s[k]
<1> HIDE DEF StatusMoves
<1> QED BY DEF Last

(* Promotions stay earned when occurrences are added.                      *)
LEMMA PromotionsStayEarned ==
    ASSUME NEW oc, NEW S, oc \subseteq S, IsFiniteSet(S), EarnedPromotions(oc, history)
    PROVE  EarnedPromotions(S, history)
<1> SUFFICES ASSUME NEW f \in Fingerprints, NEW k \in 1..Len(history[f]),
                    history[f][k].by = "repeat_policy"
             PROVE  EarnedBy(OfFinding(S, f), history[f][k].to)
  BY DEF EarnedPromotions
<1>1. EarnedBy(OfFinding(oc, f), history[f][k].to)
  BY DEF EarnedPromotions
<1>2. OfFinding(oc, f) \subseteq OfFinding(S, f)
  BY DEF OfFinding
<1>3. IsFiniteSet(OfFinding(S, f))
  BY OfFindingFinite
<1> QED BY <1>1, <1>2, <1>3, EarnedGrows

LEMMA SettleKeepsHistory ==
    ASSUME FindingsInv, NEW i \in Ingesters, Settle(i)
    PROVE  /\ FindingsTyped' /\ NoRowNoHistory' /\ HistoryExplainsStatus'
           /\ PromotionsAreEarned' /\ FormsAreLegal' /\ PolicyMovesLegally
<1> DEFINE r == tx[i]
           f == Hash(Head(r.todo))
           S == occurred \cup r.own
           now == IF r.made THEN "OPEN" ELSE status[f]
           want == PolicyTarget(OfFinding(S, f), r.seen)
           m == [from |-> now, to |-> want, by |-> "repeat_policy"]
<1>1. /\ f \in Fingerprints /\ now \in Statuses /\ (r.made <=> status[f] = NONE)
      /\ occurred' = S /\ form' = form
      /\ tx' = [tx EXCEPT ![i] = Waiting(Tail(r.todo))]
      /\ DOMAIN aggregate' = DOMAIN aggregate
      /\ \/ status' = [status EXCEPT ![f] = now] /\ history' = history
         \/ /\ want # NONE /\ Legal(f, now, want)
            /\ status' = [status EXCEPT ![f] = want]
            /\ history' = [history EXCEPT ![f] = Append(history[f], m)]
  BY SettleFacts
<1>2. /\ DOMAIN status = Entities /\ (\A e \in Entities : status[e] \in Statuses \cup {NONE})
      /\ DOMAIN aggregate = Fingerprints /\ DOMAIN history = Entities
      /\ (\A e \in Entities : history[e] \in Seq(StatusMoves))
      /\ IsFiniteSet(occurred) /\ DOMAIN tx = Ingesters /\ DOMAIN form = Operators
      /\ TxIsSound(i, r, status, occurred) /\ NoRowNoHistory /\ HistoryExplainsStatus
      /\ EarnedPromotions(occurred, history) /\ FormsAreLegal
  BY EarnedIsPromotions DEF FindingsInv, FindingsTyped, TxsAreSound
<1>3. f \in Entities /\ now # NONE /\ NONE \notin Statuses
  BY <1>1, NoneIsNoStatus DEF Entities
<1>4. IsFiniteSet(S) /\ occurred \subseteq S
  BY <1>2, OwnIsFinite
<1>5. EarnedPromotions(S, history)
  BY <1>2, <1>4, PromotionsStayEarned
<1>6. DOMAIN tx' = Ingesters /\ DOMAIN form' = Operators /\ IsFiniteSet(occurred')
      /\ DOMAIN aggregate' = Fingerprints
  BY <1>1, <1>2, <1>4
<1>7. PolicyMovesLegally <=>
        \A g \in Fingerprints :
          (Len(history'[g]) > Len(history[g]) /\ Last(history'[g]).by = "repeat_policy") =>
             Last(history'[g]).from = (IF status[g] = NONE THEN "OPEN" ELSE status[g])
  BY DEF PolicyMovesLegally
<1>8. now = IF status[f] = NONE THEN "OPEN" ELSE status[f]
  BY <1>1
<1> HIDE DEF r, f, S, now, want
<1>9. CASE status' = [status EXCEPT ![f] = now] /\ history' = history
  <2>1. /\ DOMAIN status' = Entities /\ status'[f] = now
        /\ \A e \in Entities : e # f => status'[e] = status[e]
    BY <1>9, <1>2, <1>3
  <2>2. \A e \in Entities : /\ status'[e] \in Statuses \cup {NONE}
                            /\ status[e] # NONE => status'[e] # NONE
                            /\ history[e] # <<>> => status'[e] = status[e]
    <3> SUFFICES ASSUME NEW e \in Entities
                 PROVE  /\ status'[e] \in Statuses \cup {NONE}
                        /\ status[e] # NONE => status'[e] # NONE
                        /\ history[e] # <<>> => status'[e] = status[e]
      OBVIOUS
    <3>1. history[f] # <<>> => now = status[f]
      BY <1>2, <1>3, <1>8 DEF NoRowNoHistory
    <3> QED BY <2>1, <3>1, <1>1, <1>2, <1>3
  <2>3. FindingsTyped'
    BY <1>2, <1>6, <1>9, <2>1, <2>2 DEF FindingsTyped
  <2>4. NoRowNoHistory'
    BY <1>2, <1>9, <2>2 DEF NoRowNoHistory
  <2>5. HistoryExplainsStatus'
    BY <1>2, <1>9, <2>2 DEF HistoryExplainsStatus
  <2>6. PromotionsAreEarned'
    BY <1>1, <1>5, <1>9, EarnedIsPromotionsNext
  <2>7. FormsAreLegal'
    BY <1>1, <1>2, <2>2 DEF FormsAreLegal
  <2>8. PolicyMovesLegally
    <3>1. \A g \in Fingerprints : Len(history[g]) \in Nat
      BY <1>2 DEF Entities
    <3> QED BY <1>7, <1>9, <3>1
  <2> QED BY <2>3, <2>4, <2>5, <2>6, <2>7, <2>8
<1>10. CASE /\ want # NONE /\ Legal(f, now, want)
            /\ status' = [status EXCEPT ![f] = want]
            /\ history' = [history EXCEPT ![f] = Append(history[f], m)]
  <2>1. want \in Statuses
    BY <1>10, LegalFacts
  <2>2. m \in StatusMoves
    BY <1>1, <2>1 DEF StatusMoves
  <2>3. m.from = now /\ m.to = want /\ m.by = "repeat_policy"
    OBVIOUS
  <2> HIDE DEF m
  <2>4. /\ Append(history[f], m) \in Seq(StatusMoves)
        /\ Len(Append(history[f], m)) = Len(history[f]) + 1
        /\ Append(history[f], m) # <<>> /\ Last(Append(history[f], m)) = m
        /\ Append(history[f], m)[Len(history[f]) + 1] = m /\ Len(history[f]) \in Nat
        /\ \A k \in 1..Len(history[f]) : Append(history[f], m)[k] = history[f][k]
    BY <1>2, <1>3, <2>2, HistoryAppends
  <2>5. /\ DOMAIN status' = Entities /\ status'[f] = want
        /\ \A e \in Entities : e # f => status'[e] = status[e]
        /\ DOMAIN history' = Entities /\ history'[f] = Append(history[f], m)
        /\ \A e \in Entities : e # f => history'[e] = history[e]
    BY <1>10, <1>2, <1>3
  <2>6. FindingsTyped'
    BY <1>2, <1>6, <2>1, <2>4, <2>5 DEF FindingsTyped
  <2>7. NoRowNoHistory'
    BY <1>2, <1>10, <2>5 DEF NoRowNoHistory
  <2>8. HistoryExplainsStatus'
    <3> SUFFICES ASSUME NEW e \in Entities
                 PROVE  /\ history'[e] # <<>> => Last(history'[e]).to = status'[e]
                        /\ \A k \in 1..Len(history'[e]) :
                             Legal(e, history'[e][k].from, history'[e][k].to)
      BY <2>5 DEF HistoryExplainsStatus
    <3>1. CASE e # f
      BY <3>1, <1>2, <2>5 DEF HistoryExplainsStatus
    <3>2. CASE e = f
      <4>1. Last(history'[e]).to = status'[e]
        BY <3>2, <2>3, <2>4, <2>5
      <4>2. ASSUME NEW k \in 1..Len(history'[e])
            PROVE  Legal(e, history'[e][k].from, history'[e][k].to)
        <5>1. CASE k = Len(history[f]) + 1
          BY <5>1, <3>2, <2>3, <2>4, <2>5, <1>10
        <5>2. CASE k \in 1..Len(history[f])
          <6>1. history'[e][k] = history[f][k]
            BY <5>2, <3>2, <2>4, <2>5
          <6> QED BY <6>1, <5>2, <3>2, <1>2, <1>3 DEF HistoryExplainsStatus
        <5> QED BY <5>1, <5>2, <3>2, <2>4, <2>5
      <4> QED BY <4>1, <4>2
    <3> QED BY <3>1, <3>2
  <2>9. EarnedPromotions(S, history')
    <3> SUFFICES ASSUME NEW g \in Fingerprints, NEW k \in 1..Len(history'[g]),
                        history'[g][k].by = "repeat_policy"
                 PROVE  EarnedBy(OfFinding(S, g), history'[g][k].to)
      BY DEF EarnedPromotions
    <3>1. CASE g # f
      BY <3>1, <1>5, <2>5 DEF EarnedPromotions, Entities
    <3>2. CASE g = f /\ k = Len(history[f]) + 1
      <4>1. history'[g][k].to = want
        BY <3>2, <2>3, <2>4, <2>5
      <4>2. EarnedBy(OfFinding(S, f), want)
        BY <1>10, TargetIsEarned DEF want
      <4> QED BY <3>2, <4>1, <4>2
    <3>3. CASE g = f /\ k # Len(history[f]) + 1
      <4>1. k \in 1..Len(history[f]) /\ history'[g][k] = history[f][k]
        BY <3>3, <2>4, <2>5
      <4> QED BY <4>1, <3>3, <1>5 DEF EarnedPromotions
    <3> QED BY <3>1, <3>2, <3>3
  <2>10. PromotionsAreEarned'
    BY <1>1, <2>9, EarnedIsPromotionsNext
  <2>11. FormsAreLegal'
    BY <1>1, <1>2, <1>10, <2>5 DEF FormsAreLegal
  <2>12. PolicyMovesLegally
    <3> SUFFICES ASSUME NEW g \in Fingerprints, Len(history'[g]) > Len(history[g])
                 PROVE  Last(history'[g]).from = (IF status[g] = NONE THEN "OPEN" ELSE status[g])
      BY <1>7
    <3>1. g = f
      <4>1. SUFFICES ASSUME g # f PROVE FALSE
        OBVIOUS
      <4>2. history'[g] = history[g] /\ Len(history[g]) \in Nat
        BY <4>1, <1>2, <2>5 DEF Entities
      <4> QED BY <4>2
    <3> QED BY <3>1, <1>8, <2>3, <2>4, <2>5
  <2> QED BY <2>6, <2>7, <2>8, <2>10, <2>11, <2>12
<1> QED BY <1>1, <1>9, <1>10 DEF now

(* Only the ingesters move.                                                *)
LEMMA RegistryRests ==
    ASSUME FindingsInv, UNCHANGED <<status, aggregate, occurred, history, form>>,
           DOMAIN tx' = Ingesters, TxsAreSound', OccurrencesAreExact'
    PROVE  FindingsInv' /\ PolicyMovesLegally
<1>1. FindingsTyped'
  BY DEF FindingsInv, FindingsTyped
<1>2. FormsAreLegal' /\ NoRowNoHistory'
  BY DEF FindingsInv, FormsAreLegal, NoRowNoHistory
<1>3. AggregatesAreSound' /\ HistoryExplainsStatus'
  BY DEF FindingsInv, AggregatesAreSound, HistoryExplainsStatus
<1>4. PromotionsAreEarned'
  <2>1. EarnedPromotions(occurred', history')
    BY EarnedIsPromotions DEF FindingsInv
  <2> QED BY <2>1, EarnedIsPromotionsNext
<1>5. PolicyMovesLegally
  <2>1. \A f \in Fingerprints : Len(history[f]) \in Nat
    <3>1. \A f \in Fingerprints : history[f] \in Seq(StatusMoves)
      BY DEF FindingsInv, FindingsTyped, Entities
    <3> HIDE DEF StatusMoves
    <3> QED BY <3>1
  <2> QED BY <2>1 DEF PolicyMovesLegally
<1> QED BY <1>1, <1>2, <1>3, <1>4, <1>5 DEF FindingsInv

LEMMA OccurrencesStay ==
    ASSUME FindingsInv, NEW i \in Ingesters, occurred' = occurred,
           \A j \in Ingesters : j # i => tx'[j] = tx[j],
           \/ tx'[i].todo \in {tx[i].todo, Batch(i)}
           \/ /\ tx[i].todo # <<>> /\ tx'[i].todo = Tail(tx[i].todo)
              /\ ~Ingestible(Head(tx[i].todo))
    PROVE  OccurrencesAreExact'
<1>1. /\ OccurrencesAreExact /\ Remaining(i, tx[i].todo)
  BY DEF FindingsInv, TxsAreSound, TxIsSound
<1>2. \A j \in Ingesters : \A k \in 1..(Len(Batch(j)) - Len(tx'[j].todo)) :
        Ingestible(Batch(j)[k]) => \E p \in occurred : SameKey(Occurrence(j, Batch(j)[k]), p)
  <2> SUFFICES ASSUME NEW j \in Ingesters, NEW k \in 1..(Len(Batch(j)) - Len(tx'[j].todo)),
                      Ingestible(Batch(j)[k])
               PROVE  \E p \in occurred : SameKey(Occurrence(j, Batch(j)[k]), p)
    OBVIOUS
  <2>1. k \in 1..(Len(Batch(j)) - Len(tx[j].todo))
          => \E p \in occurred : SameKey(Occurrence(j, Batch(j)[k]), p)
    BY <1>1 DEF OccurrencesAreExact
  <2>2. CASE j # i \/ tx'[i].todo = tx[i].todo
    BY <2>1, <2>2
  <2>3. CASE j = i /\ tx'[i].todo = Batch(i)
    <3>1. Len(Batch(i)) \in Nat
      BY WholeRemains
    <3> QED BY <2>3, <3>1
  <2>4. CASE /\ j = i /\ tx[i].todo # <<>> /\ tx'[i].todo = Tail(tx[i].todo)
             /\ ~Ingestible(Head(tx[i].todo))
    <3> DEFINE td == tx[i].todo
    <3>1. /\ Len(Tail(td)) = Len(td) - 1 /\ Len(td) \in Nat /\ Len(Batch(i)) \in Nat
          /\ Head(td) = Batch(i)[Len(Batch(i)) - Len(td) + 1]
      BY <1>1, <2>4, TailRemains
    <3>2. k \in 1..(Len(Batch(i)) - Len(Tail(td))) /\ Ingestible(Batch(i)[k])
      BY <2>4
    <3>3. ~Ingestible(Head(td))
      BY <2>4
    <3>4. \A n \in Int : n \in 1..(Len(Batch(i)) - Len(td) + 1)
             => n = Len(Batch(i)) - Len(td) + 1 \/ n \in 1..(Len(Batch(i)) - Len(td))
      BY <3>1
    <3> HIDE DEF td
    <3>5. k # Len(Batch(i)) - Len(td) + 1
      BY <3>1, <3>2, <3>3
    <3>6. k \in 1..(Len(Batch(i)) - Len(td))
      BY <3>1, <3>2, <3>4, <3>5
    <3> QED BY <3>6, <2>1, <2>4 DEF td
  <2> QED BY <2>2, <2>3, <2>4
<1> QED BY <1>1, <1>2 DEF OccurrencesAreExact

LEMMA IngesterKeeps ==
    ASSUME FindingsInv, NEW i \in Ingesters,
           \/ Skip(i) \/ Lookup(i) \/ InsertFinding(i) \/ CreateOccurrence(i)
           \/ CountOccurrences(i) \/ Fail(i) \/ Replay(i)
    PROVE  FindingsInv' /\ PolicyMovesLegally
<1>1. DOMAIN tx = Ingesters /\ DOMAIN tx[i] = {"at", "todo", "seen", "made", "own", "counted"}
  BY DEF FindingsInv, FindingsTyped, TxsAreSound, TxIsSound
<1>2. UNCHANGED <<status, aggregate, occurred, history, form>>
  BY DEF Skip, Lookup, InsertFinding, CreateOccurrence, CountOccurrences, Fail, Replay
<1>3. TxsAreSound'
  <2>1. CASE Fail(i)
    BY <1>2, <2>1, FailKeepsTx DEF Fail
  <2> QED BY <2>1, SkipKeepsTx, LookupKeepsTx, InsertKeepsTx, OccurrenceKeepsTx, CountKeepsTx,
             ReplayKeepsTx
<1>4. \E row : tx' = [tx EXCEPT ![i] = row]
              /\ (\/ row.todo \in {tx[i].todo, Batch(i)}
                  \/ /\ tx[i].todo # <<>> /\ row.todo = Tail(tx[i].todo)
                     /\ ~Ingestible(Head(tx[i].todo)))
  <2> DEFINE r == tx[i]
  <2>1. CASE Skip(i)
    <3>1. tx' = [tx EXCEPT ![i] = [r EXCEPT !.todo = Tail(r.todo)]] /\ r.todo # <<>>
          /\ ~Ingestible(Head(r.todo))
      BY <2>1, <1>1 DEF Skip, Candidate
    <3>2. [r EXCEPT !.todo = Tail(r.todo)].todo = Tail(r.todo)
      BY <1>1
    <3> QED BY <3>1, <3>2
  <2>2. CASE Lookup(i)
    <3>1. PICK a, s : tx' = [tx EXCEPT ![i] = [r EXCEPT !.at = a, !.seen = s]]
      BY <2>2, <1>1 DEF Lookup
    <3>2. [r EXCEPT !.at = a, !.seen = s].todo = r.todo
      BY <1>1
    <3> QED BY <3>1, <3>2
  <2>3. CASE tx' = Raised(i)
    <3>1. tx' = [tx EXCEPT ![i] = [Waiting(r.todo) EXCEPT !.at = "raised"]]
      BY <2>3, <1>1 DEF Raised
    <3>2. [Waiting(r.todo) EXCEPT !.at = "raised"].todo = r.todo
      BY DEF Waiting
    <3> QED BY <3>1, <3>2
  <2>4. CASE InsertFinding(i)
    <3>1. CASE \E s : tx' = [tx EXCEPT ![i] = [r EXCEPT !.at = "occurrence", !.seen = s]]
      <4>1. PICK s : tx' = [tx EXCEPT ![i] = [r EXCEPT !.at = "occurrence", !.seen = s]]
        BY <3>1
      <4>2. [r EXCEPT !.at = "occurrence", !.seen = s].todo = r.todo
        BY <1>1
      <4> QED BY <4>1, <4>2
    <3>2. CASE tx' = [tx EXCEPT ![i] = [r EXCEPT !.at = "occurrence", !.seen = "OPEN",
                                                 !.made = TRUE]]
      <4>2. [r EXCEPT !.at = "occurrence", !.seen = "OPEN", !.made = TRUE].todo = r.todo
        BY <1>1
      <4> QED BY <3>2, <4>2
    <3> QED BY <2>4, <2>3, <3>1, <3>2, <1>1 DEF InsertFinding
  <2>5. CASE CreateOccurrence(i)
    <3>1. CASE \E s : tx' = [tx EXCEPT ![i] = [r EXCEPT !.at = "count", !.own = s]]
      <4>1. PICK s : tx' = [tx EXCEPT ![i] = [r EXCEPT !.at = "count", !.own = s]]
        BY <3>1
      <4>2. [r EXCEPT !.at = "count", !.own = s].todo = r.todo
        BY <1>1
      <4> QED BY <4>1, <4>2
    <3> QED BY <2>5, <2>3, <3>1, <1>1 DEF CreateOccurrence
  <2>6. CASE CountOccurrences(i)
    <3>1. PICK s : tx' = [tx EXCEPT ![i] = [r EXCEPT !.at = "settle", !.counted = s]]
      BY <2>6, <1>1 DEF CountOccurrences
    <3>2. [r EXCEPT !.at = "settle", !.counted = s].todo = r.todo
      BY <1>1
    <3> QED BY <3>1, <3>2
  <2>7. CASE Replay(i)
    <3>1. tx' = [tx EXCEPT ![i] = Waiting(Batch(i))] /\ Waiting(Batch(i)).todo = Batch(i)
      BY <2>7 DEF Replay, Waiting
    <3> QED BY <3>1
  <2>8. CASE Fail(i)
    BY <2>8, <2>3 DEF Fail
  <2> QED BY <2>1, <2>2, <2>4, <2>5, <2>6, <2>7, <2>8
<1>5. PICK row : tx' = [tx EXCEPT ![i] = row]
              /\ (\/ row.todo \in {tx[i].todo, Batch(i)}
                  \/ /\ tx[i].todo # <<>> /\ row.todo = Tail(tx[i].todo)
                     /\ ~Ingestible(Head(tx[i].todo)))
  BY <1>4
<1>6. DOMAIN tx' = Ingesters /\ tx'[i] = row /\ \A j \in Ingesters : j # i => tx'[j] = tx[j]
  BY <1>1, <1>5
<1>7. OccurrencesAreExact'
  BY <1>2, <1>5, <1>6, OccurrencesStay
<1> QED BY <1>2, <1>3, <1>6, <1>7, RegistryRests

(* Operators create entities and change statuses; whether a finding has a  *)
(* row does not change under an ingestion.                                 *)
LEMMA RowsStayRows ==
    ASSUME FindingsInv, tx' = tx, occurred' = occurred,
           \A f \in Fingerprints : status'[f] = NONE <=> status[f] = NONE
    PROVE  TxsAreSound' /\ OccurrencesAreExact'
<1>1. ASSUME NEW i \in Ingesters
      PROVE  TxIsSound(i, tx[i], status', occurred)
  <2>1. TxIsSound(i, tx[i], status, occurred)
    BY DEF FindingsInv, TxsAreSound
  <2>2. tx[i].at \in {"occurrence", "count", "settle"} => Hash(Head(tx[i].todo)) \in Fingerprints
    BY <2>1 DEF TxIsSound, InTransaction
  <2> QED BY <2>1, <2>2 DEF TxIsSound
<1>2. TxsAreSound'
  BY <1>1 DEF FindingsInv, TxsAreSound
<1>3. OccurrencesAreExact'
  BY DEF FindingsInv, OccurrencesAreExact
<1> QED BY <1>2, <1>3

LEMMA AggregatesStay ==
    ASSUME FindingsInv, aggregate' = aggregate, occurred' = occurred,
           \A f \in Fingerprints : status'[f] = NONE <=> status[f] = NONE
    PROVE  AggregatesAreSound'
BY DEF FindingsInv, AggregatesAreSound

LEMMA CreateKeeps ==
    ASSUME FindingsInv, NEW e \in EntityKinds, NEW initial \in Statuses, Create(e, initial)
    PROVE  FindingsInv' /\ PolicyMovesLegally
<1>1. /\ status[e] = NONE /\ status' = [status EXCEPT ![e] = initial]
      /\ UNCHANGED <<aggregate, occurred, history, tx, form>>
  BY DEF Create
<1>2. e \in Entities /\ e \notin Fingerprints
  BY EntityNames DEF Entities, EntityKinds
<1>3. /\ DOMAIN status' = Entities /\ status'[e] = initial
      /\ \A x : x # e => status'[x] = status[x]
  BY <1>1, <1>2 DEF FindingsInv, FindingsTyped
<1>4. \A f \in Fingerprints : status'[f] = status[f]
  BY <1>2, <1>3
<1>5. initial # NONE /\ history[e] = <<>>
  BY <1>1, <1>2, NoneIsNoStatus DEF FindingsInv, NoRowNoHistory
<1>6. TxsAreSound' /\ OccurrencesAreExact'
  BY <1>1, <1>4, RowsStayRows
<1>7. AggregatesAreSound'
  BY <1>1, <1>4, AggregatesStay
<1>8. FindingsTyped'
  BY <1>1, <1>3 DEF FindingsInv, FindingsTyped
<1>9. NoRowNoHistory'
  BY <1>1, <1>3, <1>5 DEF FindingsInv, NoRowNoHistory
<1>10. HistoryExplainsStatus'
  BY <1>1, <1>3, <1>5 DEF FindingsInv, HistoryExplainsStatus
<1>11. PromotionsAreEarned'
  <2>1. EarnedPromotions(occurred', history')
    BY <1>1, EarnedIsPromotions DEF FindingsInv
  <2> QED BY <2>1, EarnedIsPromotionsNext
<1>12. FormsAreLegal'
  BY <1>1, <1>3, <1>5 DEF FindingsInv, FormsAreLegal
<1>13. PolicyMovesLegally
  <2>1. \A f \in Fingerprints : Len(history[f]) \in Nat
    <3>1. \A f \in Fingerprints : history[f] \in Seq(StatusMoves)
      BY DEF FindingsInv, FindingsTyped, Entities
    <3> HIDE DEF StatusMoves
    <3> QED BY <3>1
  <2> QED BY <1>1, <2>1 DEF PolicyMovesLegally
<1> QED BY <1>6, <1>7, <1>8, <1>9, <1>10, <1>11, <1>12, <1>13 DEF FindingsInv

LEMMA ReadStatusKeeps ==
    ASSUME FindingsInv, NEW o \in Operators, NEW e \in Entities, NEW to, ReadStatus(o, e, to)
    PROVE  FindingsInv' /\ PolicyMovesLegally
<1> DEFINE page == [entity |-> e, from |-> status[e], to |-> to]
<1>1. /\ UNCHANGED <<status, aggregate, occurred, history, tx>>
      /\ Legal(e, status[e], to) /\ form' = [form EXCEPT ![o] = page]
  BY DEF ReadStatus
<1>2. status[e] # NONE
  BY <1>1, LegalFacts, NoneIsNoStatus
<1>3. DOMAIN form = Operators /\ DOMAIN tx' = Ingesters
  BY <1>1 DEF FindingsInv, FindingsTyped
<1>4. /\ DOMAIN form' = Operators /\ form'[o] = page
      /\ \A q \in Operators : q # o => form'[q] = form[q]
  BY <1>1, <1>3
<1>5. page.entity = e /\ page.from = status[e] /\ page.to = to
  OBVIOUS
<1> HIDE DEF page
<1>6. FormsAreLegal'
  BY <1>1, <1>2, <1>4, <1>5 DEF FindingsInv, FormsAreLegal
<1>7. TxsAreSound' /\ OccurrencesAreExact'
  BY <1>1, RowsStayRows
<1>8. AggregatesAreSound'
  BY <1>1, AggregatesStay
<1>9. FindingsTyped' /\ NoRowNoHistory'
  BY <1>1, <1>4 DEF FindingsInv, FindingsTyped, NoRowNoHistory
<1>10. HistoryExplainsStatus'
  BY <1>1 DEF FindingsInv, HistoryExplainsStatus
<1>11. PromotionsAreEarned'
  <2>1. EarnedPromotions(occurred', history')
    BY <1>1, EarnedIsPromotions DEF FindingsInv
  <2> QED BY <2>1, EarnedIsPromotionsNext
<1>12. PolicyMovesLegally
  <2>1. \A f \in Fingerprints : Len(history[f]) \in Nat
    <3>1. \A f \in Fingerprints : history[f] \in Seq(StatusMoves)
      BY DEF FindingsInv, FindingsTyped, Entities
    <3> HIDE DEF StatusMoves
    <3> QED BY <3>1
  <2> QED BY <1>1, <2>1 DEF PolicyMovesLegally
<1> QED BY <1>6, <1>7, <1>8, <1>9, <1>10, <1>11, <1>12 DEF FindingsInv

(* The status that was validated may be gone by the time it is written; the *)
(* row of the history is legal in itself, and ends at the status written.  *)
LEMMA WriteStatusKeeps ==
    ASSUME FindingsInv, NEW o \in Operators, WriteStatus(o)
    PROVE  FindingsInv' /\ PolicyMovesLegally
<1> DEFINE e == form[o].entity
           to == form[o].to
           m  == [from |-> form[o].from, to |-> form[o].to, by |-> o]
<1>1. /\ UNCHANGED <<aggregate, occurred, tx>>
      /\ status' = [status EXCEPT ![e] = to]
      /\ history' = [history EXCEPT ![e] = Append(history[e], m)]
      /\ form' = [form EXCEPT ![o] = BlankForm]
  BY DEF WriteStatus
<1>2. e \in Entities /\ status[e] # NONE /\ Legal(e, form[o].from, to)
  BY DEF WriteStatus, FindingsInv, FormsAreLegal
<1>3. /\ DOMAIN status = Entities /\ (\A x \in Entities : status[x] \in Statuses \cup {NONE})
      /\ DOMAIN aggregate = Fingerprints /\ DOMAIN history = Entities
      /\ (\A x \in Entities : history[x] \in Seq(StatusMoves))
      /\ IsFiniteSet(occurred) /\ DOMAIN tx = Ingesters /\ DOMAIN form = Operators
      /\ NoRowNoHistory /\ HistoryExplainsStatus /\ FormsAreLegal
      /\ EarnedPromotions(occurred, history)
  BY EarnedIsPromotions DEF FindingsInv, FindingsTyped
<1>4. to \in Statuses /\ form[o].from \in Statuses /\ to # NONE
  BY <1>2, LegalFacts, NoneIsNoStatus
<1>5. m \in StatusMoves
  BY <1>4 DEF StatusMoves
<1>6. m.from = form[o].from /\ m.to = to /\ m.by = o /\ o # "repeat_policy"
  BY EntityNames
<1> HIDE DEF m, e, to
<1>7. /\ Append(history[e], m) \in Seq(StatusMoves)
      /\ Len(Append(history[e], m)) = Len(history[e]) + 1
      /\ Append(history[e], m) # <<>> /\ Last(Append(history[e], m)) = m
      /\ Append(history[e], m)[Len(history[e]) + 1] = m /\ Len(history[e]) \in Nat
      /\ \A k \in 1..Len(history[e]) : Append(history[e], m)[k] = history[e][k]
  BY <1>2, <1>3, <1>5, HistoryAppends
<1>8. /\ DOMAIN status' = Entities /\ status'[e] = to
      /\ \A x : x # e => status'[x] = status[x]
      /\ DOMAIN history' = Entities /\ history'[e] = Append(history[e], m)
      /\ \A x \in Entities : x # e => history'[x] = history[x]
  BY <1>1, <1>2, <1>3
<1>9. \A f : status'[f] = NONE <=> status[f] = NONE
  BY <1>2, <1>4, <1>8
<1>10. TxsAreSound' /\ OccurrencesAreExact'
  BY <1>1, <1>9, RowsStayRows
<1>11. AggregatesAreSound'
  BY <1>1, <1>9, AggregatesStay
<1>12. FindingsTyped'
  BY <1>1, <1>3, <1>4, <1>7, <1>8 DEF FindingsTyped
<1>13. NoRowNoHistory'
  BY <1>2, <1>3, <1>4, <1>8 DEF NoRowNoHistory
<1>14. HistoryExplainsStatus'
  <2> SUFFICES ASSUME NEW x \in Entities
               PROVE  /\ history'[x] # <<>> => Last(history'[x]).to = status'[x]
                      /\ \A k \in 1..Len(history'[x]) :
                           Legal(x, history'[x][k].from, history'[x][k].to)
    BY <1>8 DEF HistoryExplainsStatus
  <2>1. CASE x # e
    BY <2>1, <1>3, <1>8 DEF HistoryExplainsStatus
  <2>2. CASE x = e
    <3>1. Last(history'[x]).to = status'[x]
      BY <2>2, <1>6, <1>7, <1>8
    <3>2. ASSUME NEW k \in 1..Len(history'[x])
          PROVE  Legal(x, history'[x][k].from, history'[x][k].to)
      <4>1. CASE k = Len(history[e]) + 1
        BY <4>1, <2>2, <1>2, <1>6, <1>7, <1>8
      <4>2. CASE k \in 1..Len(history[e])
        <5>1. history'[x][k] = history[e][k]
          BY <4>2, <2>2, <1>7, <1>8
        <5> QED BY <5>1, <4>2, <2>2, <1>2, <1>3 DEF HistoryExplainsStatus
      <4> QED BY <4>1, <4>2, <2>2, <1>7, <1>8
    <3> QED BY <3>1, <3>2
  <2> QED BY <2>1, <2>2
<1>15. PromotionsAreEarned'
  <2>1. EarnedPromotions(occurred', history')
    <3> SUFFICES ASSUME NEW g \in Fingerprints, NEW k \in 1..Len(history'[g]),
                        history'[g][k].by = "repeat_policy"
                 PROVE  EarnedBy(OfFinding(occurred, g), history'[g][k].to)
      BY <1>1 DEF EarnedPromotions
    <3>1. CASE g # e
      BY <3>1, <1>3, <1>8 DEF EarnedPromotions, Entities
    <3>2. CASE g = e /\ k = Len(history[e]) + 1
      BY <3>2, <1>6, <1>7, <1>8
    <3>3. CASE g = e /\ k # Len(history[e]) + 1
      <4>1. k \in 1..Len(history[e]) /\ history'[g][k] = history[e][k]
        BY <3>3, <1>7, <1>8
      <4> QED BY <4>1, <3>3, <1>3 DEF EarnedPromotions
    <3> QED BY <3>1, <3>2, <3>3
  <2> QED BY <2>1, EarnedIsPromotionsNext
<1>16. FormsAreLegal'
  <2>1. /\ DOMAIN form' = Operators /\ form'[o] = BlankForm
        /\ \A q \in Operators : q # o => form'[q] = form[q]
    BY <1>1, <1>3
  <2> QED BY <2>1, <1>3, <1>9 DEF FormsAreLegal
<1>17. PolicyMovesLegally
  <2> SUFFICES ASSUME NEW g \in Fingerprints, Len(history'[g]) > Len(history[g]),
                      Last(history'[g]).by = "repeat_policy"
               PROVE  FALSE
    BY DEF PolicyMovesLegally
  <2>1. CASE g = e
    BY <2>1, <1>6, <1>7, <1>8
  <2>2. CASE g # e
    <3>1. history'[g] = history[g] /\ history[g] \in Seq(StatusMoves)
      BY <2>2, <1>3, <1>8 DEF Entities
    <3>2. Len(history[g]) \in Nat
      <4> HIDE DEF StatusMoves
      <4> QED BY <3>1
    <3> QED BY <3>1, <3>2
  <2> QED BY <2>1, <2>2
<1> QED BY <1>10, <1>11, <1>12, <1>13, <1>14, <1>15, <1>16, <1>17 DEF FindingsInv

LEMMA FindingsInitially == FindingsInit => FindingsInv
<1> SUFFICES ASSUME FindingsInit PROVE FindingsInv
  OBVIOUS
<1>1. /\ status = [e \in Entities |-> NONE] /\ history = [e \in Entities |-> <<>>]
      /\ aggregate = [f \in Fingerprints |-> [count |-> 0, evidence |-> {}]]
      /\ occurred = {} /\ tx = [i \in Ingesters |-> Waiting(Batch(i))]
      /\ form = [o \in Operators |-> BlankForm]
  BY DEF FindingsInit, Entities
<1>2. /\ \A e \in Entities : status[e] = NONE /\ history[e] = <<>>
      /\ \A f \in Fingerprints : aggregate[f].count = 0 /\ aggregate[f].evidence = {}
      /\ \A f \in Fingerprints : f \in Entities
  BY <1>1 DEF Entities
<1>3. \A i \in Ingesters :
        /\ DOMAIN tx[i] = {"at", "todo", "seen", "made", "own", "counted"}
        /\ tx[i].at = "idle" /\ tx[i].made = FALSE /\ tx[i].own = {} /\ tx[i].todo = Batch(i)
  BY <1>1 DEF Waiting
<1>4. TxsAreSound
  <2>1. \A i \in Ingesters : TxIsSound(i, tx[i], status, occurred) /\ \A q : Apart(tx[i], q)
    BY <1>3, WholeRemains, IngesterAtRest
  <2> QED BY <2>1 DEF TxsAreSound
<1>5. FindingsTyped
  <2>1. IsFiniteSet(occurred)
    BY <1>1, FS_EmptySet
  <2>2. <<>> \in Seq(StatusMoves)
    <3> HIDE DEF StatusMoves
    <3> QED OBVIOUS
  <2>3. \A e \in Entities : history[e] \in Seq(StatusMoves)
    BY <1>2, <2>2
  <2> QED BY <1>1, <1>2, <2>1, <2>3 DEF FindingsTyped
<1>6. FormsAreLegal /\ NoRowNoHistory
  BY <1>1, <1>2 DEF FormsAreLegal, NoRowNoHistory
<1>7. OccurrencesAreExact
  <2>1. \A i \in Ingesters : Len(Batch(i)) \in Nat
    BY WholeRemains
  <2> QED BY <1>1, <1>3, <2>1 DEF OccurrencesAreExact
<1>8. AggregatesAreSound
  <2>1. \A f : OfFinding(occurred, f) = {} /\ UNION {o.refs : o \in OfFinding(occurred, f)} = {}
    BY <1>1 DEF OfFinding
  <2>2. Cardinality({}) = 0
    BY FS_EmptySet
  <2> SUFFICES ASSUME NEW f \in Fingerprints
               PROVE  /\ aggregate[f].evidence = UNION {o.refs : o \in OfFinding(occurred, f)}
                      /\ aggregate[f].count <= Cardinality(OfFinding(occurred, f))
                      /\ status[f] = NONE <=> OfFinding(occurred, f) = {}
    BY DEF AggregatesAreSound
  <2>3. aggregate[f].count = 0 /\ Cardinality(OfFinding(occurred, f)) = 0
    BY <1>2, <2>1, <2>2
  <2>4. aggregate[f].count <= Cardinality(OfFinding(occurred, f))
    BY <2>3
  <2>5. aggregate[f].evidence = UNION {o.refs : o \in OfFinding(occurred, f)}
    BY <1>2, <2>1
  <2>6. status[f] = NONE <=> OfFinding(occurred, f) = {}
    BY <1>2, <2>1
  <2> QED BY <2>4, <2>5, <2>6
<1>9. HistoryExplainsStatus
  BY <1>1, <1>2 DEF HistoryExplainsStatus
<1>10. PromotionsAreEarned
  BY <1>2 DEF PromotionsAreEarned
<1> QED BY <1>4, <1>5, <1>6, <1>7, <1>8, <1>9, <1>10 DEF FindingsInv

LEMMA FindingsStep ==
    ASSUME FindingsInv, [FindingsNext]_findingVars
    PROVE  FindingsInv' /\ (UNCHANGED findingVars \/ PolicyMovesLegally)
<1>1. ASSUME NEW i \in Ingesters, Settle(i)
      PROVE  FindingsInv' /\ PolicyMovesLegally
  BY <1>1, SettleKeepsTx, SettleKeepsOccurrences, SettleKeepsAggregates, SettleKeepsHistory
     DEF FindingsInv
<1>2. ASSUME NEW i \in Ingesters,
             \/ Skip(i) \/ Lookup(i) \/ InsertFinding(i) \/ CreateOccurrence(i)
             \/ CountOccurrences(i) \/ Fail(i) \/ Replay(i)
      PROVE  FindingsInv' /\ PolicyMovesLegally
  BY <1>2, IngesterKeeps
<1>3. ASSUME \/ CreateHypothesis \/ CreateExperiment \/ CreateExperimentRun
             \/ CreateChangeCandidate
      PROVE  FindingsInv' /\ PolicyMovesLegally
  <2>1. PICK e \in EntityKinds, s \in Statuses : Create(e, s)
    BY <1>3 DEF CreateHypothesis, CreateExperiment, CreateExperimentRun, CreateChangeCandidate,
                EntityKinds, Statuses
  <2> QED BY <2>1, CreateKeeps
<1>4. ASSUME NEW o \in Operators,
             \/ UpdateFindingStatus(o) \/ UpdateHypothesisStatus(o) \/ UpdateExperimentStatus(o)
             \/ UpdateExperimentRunStatus(o) \/ UpdateChangeCandidateStatus(o)
      PROVE  FindingsInv' /\ PolicyMovesLegally
  <2>1. PICK e \in Entities : \E to : ReadStatus(o, e, to)
    BY <1>4 DEF UpdateFindingStatus, UpdateHypothesisStatus, UpdateExperimentStatus,
                UpdateExperimentRunStatus, UpdateChangeCandidateStatus, Entities, EntityKinds
  <2> QED BY <2>1, ReadStatusKeeps
<1>5. ASSUME NEW o \in Operators, WriteStatus(o)
      PROVE  FindingsInv' /\ PolicyMovesLegally
  BY <1>5, WriteStatusKeeps
<1>6. ASSUME UNCHANGED findingVars
      PROVE  FindingsInv'
  <2>1. UNCHANGED <<status, aggregate, occurred, history, form, tx>>
    BY <1>6 DEF findingVars
  <2>2. DOMAIN tx' = Ingesters /\ TxsAreSound' /\ OccurrencesAreExact'
    <3>1. DOMAIN tx' = Ingesters
      BY <2>1 DEF FindingsInv, FindingsTyped
    <3> QED BY <2>1, <3>1, RowsStayRows
  <2> QED BY <2>1, <2>2, RegistryRests
<1> QED BY <1>1, <1>2, <1>3, <1>4, <1>5, <1>6 DEF FindingsNext

(* The registry under every interleaving of ingestions, failures, replays  *)
(* and operators (ingestion.py 90-214, repository.py 117-150, 1065-1311).  *)
THEOREM FindingsInvariance == FindingsSpec => []FindingsInv
<1>1. FindingsInv /\ [FindingsNext]_findingVars => FindingsInv'
  BY FindingsStep
<1> QED BY FindingsInitially, <1>1, PTL DEF FindingsSpec

(* Occurrences are exact, aggregates sound, promotions earned, histories   *)
(* legal, and the policy never moves a finding from a status it does not   *)
(* have (FindingsSafe), for every number of ingesters, results, thresholds *)
(* and operators.                                                          *)
THEOREM FindingsSafety == FindingsSpec => FindingsSafe
<1>1. FindingsInv => OccurrencesAreExact /\ AggregatesAreSound /\ PromotionsAreEarned
                     /\ HistoryExplainsStatus
  BY DEF FindingsInv
<1>2. FindingsInv /\ [FindingsNext]_findingVars => [PolicyMovesLegally]_findingVars
  BY FindingsStep
<1> QED BY FindingsInvariance, <1>1, <1>2, PTL DEF FindingsSpec, FindingsSafe

-----------------------------------------------------------------------------
(* ShadowStudy.                                                            *)

(* A set of numbers that is not empty has a least member.                  *)
LEMMA HasLeast == ASSUME NEW T, T \subseteq Nat, T # {} PROVE \E m \in T : \A k \in T : m <= k
<1> DEFINE R == OpToRel(<, Nat)
<1>1. R = {ss \in Nat \X Nat : ss[1] < ss[2]}
  BY DEF OpToRel
<1>2. IsWellFoundedOn(R, Nat)
  BY NatLessThanWellFounded
<1> HIDE DEF R
<1>3. PICK m \in T : \A y \in T : ~(<<y, m>> \in R)
  BY <1>2, WFMin
<1>4. \A y \in T : ~(y < m)
  BY <1>1, <1>3
<1>5. QED BY <1>3, <1>4

-----------------------------------------------------------------------------
(* The positions that a list comprehension keeps, counted from the first.  *)
Rank(P, i) == Cardinality({j \in P : j <= i})

(* Counting positions: ranks never fall, and rise exactly at a position.   *)
LEMMA RankFacts ==
    ASSUME NEW k \in Nat, NEW P, P \subseteq 1..k
    PROVE  /\ IsFiniteSet(P) /\ Cardinality(P) \in Nat
           /\ \A i \in Nat : Rank(P, i) \in Nat
           /\ Rank(P, 0) = 0 /\ Rank(P, k) = Cardinality(P)
           /\ \A i, j \in Nat : i <= j => Rank(P, i) <= Rank(P, j)
           /\ \A i \in Nat \ {0} : /\ i \in P => Rank(P, i) = Rank(P, i - 1) + 1
                                   /\ i \notin P => Rank(P, i) = Rank(P, i - 1)
<1> DEFINE Q(i) == {j \in P : j <= i}
<1>1. IsFiniteSet(P)
  <2>1. IsFiniteSet(1..k) /\ P \in SUBSET (1..k)
    BY FS_Interval
  <2> QED BY <2>1, FS_Subset
<1>2. \A i : IsFiniteSet(Q(i)) /\ Cardinality(Q(i)) \in Nat
  <2> TAKE i
  <2>1. Q(i) \in SUBSET P
    OBVIOUS
  <2> QED BY <1>1, <2>1, FS_Subset, FS_CardinalityType
<1>0. \A j \in P : j \in Int /\ 1 <= j /\ j <= k
  OBVIOUS
<1>31. Q(0) = {}
  <2>1. \A j \in P : ~(j <= 0)
    BY <1>0
  <2> QED BY <2>1
<1>32. Q(k) = P
  BY <1>0
<1>3. Q(0) = {} /\ Q(k) = P
  BY <1>31, <1>32
<1>4. \A i, j \in Nat : i <= j => Cardinality(Q(i)) <= Cardinality(Q(j))
  <2> SUFFICES ASSUME NEW i \in Nat, NEW j \in Nat, i <= j
               PROVE  Cardinality(Q(i)) <= Cardinality(Q(j))
    OBVIOUS
  <2>1. Q(i) \in SUBSET Q(j)
    <3>1. \A q \in P : q <= i => q <= j
      BY <1>0
    <3> QED BY <3>1
  <2> HIDE DEF Q
  <2> QED BY <1>2, <2>1, FS_Subset
<1>5. \A i \in Nat \ {0} :
        /\ i \in P => Cardinality(Q(i)) = Cardinality(Q(i - 1)) + 1
        /\ i \notin P => Cardinality(Q(i)) = Cardinality(Q(i - 1))
  <2> SUFFICES ASSUME NEW i \in Nat \ {0}
               PROVE  /\ i \in P => Cardinality(Q(i)) = Cardinality(Q(i - 1)) + 1
                      /\ i \notin P => Cardinality(Q(i)) = Cardinality(Q(i - 1))
    OBVIOUS
  <2>1. CASE i \in P
    <3>0. \A q \in P : (q <= i <=> q <= i - 1 \/ q = i) /\ ~(i <= i - 1)
      BY <1>0
    <3>1. Q(i) = Q(i - 1) \cup {i} /\ i \notin Q(i - 1)
      BY <2>1, <3>0
    <3> HIDE DEF Q
    <3> QED BY <1>2, <2>1, <3>1, FS_AddElement
  <2>2. CASE i \notin P
    <3>0. \A q \in P : (q <= i <=> q <= i - 1 \/ q = i)
      BY <1>0
    <3>1. Q(i) = Q(i - 1)
      BY <2>2, <3>0
    <3> HIDE DEF Q
    <3> QED BY <2>2, <3>1
  <2> QED BY <2>1, <2>2
<1>6. \A i : Rank(P, i) = Cardinality(Q(i))
  BY DEF Rank
<1>7. Cardinality({}) = 0
  BY FS_EmptySet
<1> HIDE DEF Q
<1>8. /\ \A i \in Nat : Rank(P, i) \in Nat
      /\ Rank(P, 0) = 0 /\ Rank(P, k) = Cardinality(P)
  BY <1>2, <1>3, <1>6, <1>7
<1>9. \A i, j \in Nat : i <= j => Rank(P, i) <= Rank(P, j)
  BY <1>4, <1>6
<1>10. \A i \in Nat \ {0} : /\ i \in P => Rank(P, i) = Rank(P, i - 1) + 1
                            /\ i \notin P => Rank(P, i) = Rank(P, i - 1)
  BY <1>5, <1>6
<1> QED BY <1>1, <1>8, <1>9, <1>10, FS_CardinalityType

(* The n-th position is a position, and they are taken in order.           *)
LEMMA NthFacts ==
    ASSUME NEW k \in Nat, NEW P, P \subseteq 1..k, NEW n \in 1..Cardinality(P)
    PROVE  NthOf(P, n) \in P /\ Rank(P, NthOf(P, n)) = n
<1>1. \E i \in P : Rank(P, i) = n
  <2> DEFINE T == {i \in Nat : Rank(P, i) >= n}
  <2>0. Cardinality(P) \in Nat /\ Rank(P, k) = Cardinality(P)
    BY RankFacts
  <2>1. k \in T
    BY <2>0
  <2>2. PICK m \in T : \A i \in T : m <= i
    <3>1. T \subseteq Nat /\ T # {}
      BY <2>1
    <3> HIDE DEF T
    <3> QED BY <3>1, HasLeast
  <2>3. n \in Nat /\ n > 0 /\ Rank(P, 0) = 0
    <3>1. Rank(P, 0) = 0
      BY RankFacts
    <3> QED BY <2>0, <3>1
  <2>4. m # 0
    BY <2>2, <2>3
  <2>5. m \in Nat \ {0} /\ m - 1 \in Nat
    BY <2>2, <2>4
  <2>6. Rank(P, m - 1) \in Nat /\ Rank(P, m) \in Nat /\ Rank(P, m) >= n
    BY <2>2, <2>5, RankFacts
  <2>7. ~(Rank(P, m - 1) >= n)
    <3>1. m - 1 \notin T
      BY <2>2, <2>5
    <3> QED BY <2>5, <3>1
  <2>8. /\ m \in P => Rank(P, m) = Rank(P, m - 1) + 1
        /\ m \notin P => Rank(P, m) = Rank(P, m - 1)
    BY <2>5, RankFacts
  <2>9. m \in P /\ Rank(P, m) = n
    BY <2>3, <2>6, <2>7, <2>8
  <2> QED BY <2>9
<1> QED BY <1>1 DEF NthOf, Rank

(* A later position has a higher rank.                                     *)
LEMMA RankIsStrict ==
    ASSUME NEW k \in Nat, NEW P, P \subseteq 1..k, NEW i \in P, NEW j \in P, i < j
    PROVE  Rank(P, i) < Rank(P, j)
<1>1. i \in Nat /\ j \in Nat \ {0} /\ i <= j - 1 /\ j - 1 \in Nat
  OBVIOUS
<1>2. Rank(P, i) <= Rank(P, j - 1) /\ Rank(P, j) = Rank(P, j - 1) + 1
      /\ Rank(P, i) \in Nat /\ Rank(P, j - 1) \in Nat
  BY <1>1, RankFacts
<1> QED BY <1>2

(* The list keeps the order of the positions.                              *)
LEMMA NthAscends ==
    ASSUME NEW k \in Nat, NEW P, P \subseteq 1..k,
           NEW m \in 1..Cardinality(P), NEW n \in 1..Cardinality(P), m < n
    PROVE  NthOf(P, m) < NthOf(P, n)
<1> DEFINE a == NthOf(P, m)
           b == NthOf(P, n)
<1>1. a \in P /\ b \in P /\ Rank(P, a) = m /\ Rank(P, b) = n
  BY NthFacts
<1>0. Cardinality(P) \in Nat
  BY RankFacts
<1>2. a \in Nat /\ b \in Nat /\ m \in Nat /\ n \in Nat
  <2>1. \A x \in P : x \in Nat
    OBVIOUS
  <2> HIDE DEF a, b
  <2> QED BY <1>0, <1>1, <2>1
<1> HIDE DEF a, b
<1>3. b < a => n < m
  BY <1>1, RankIsStrict
<1>4. a # b
  BY <1>1
<1> QED BY <1>2, <1>3, <1>4 DEF a, b

(* Every position is reached, at its rank.                                 *)
LEMMA NthIsOnto ==
    ASSUME NEW k \in Nat, NEW P, P \subseteq 1..k, NEW i \in P
    PROVE  Rank(P, i) \in 1..Cardinality(P) /\ NthOf(P, Rank(P, i)) = i
<1>1. i \in Nat \ {0} /\ i - 1 \in Nat /\ i <= k
  OBVIOUS
<1>2. Rank(P, i) = Rank(P, i - 1) + 1 /\ Rank(P, i - 1) \in Nat
      /\ Rank(P, i) <= Cardinality(P) /\ Cardinality(P) \in Nat
  BY <1>1, RankFacts
<1>3. Rank(P, i) \in 1..Cardinality(P)
  BY <1>2
<1> DEFINE a == NthOf(P, Rank(P, i))
<1>4. a \in P /\ Rank(P, a) = Rank(P, i)
  BY <1>3, NthFacts
<1> HIDE DEF a
<1>5. ~(a < i) /\ ~(i < a)
  <2>1. a < i => Rank(P, a) < Rank(P, i)
    BY <1>4, RankIsStrict
  <2>2. i < a => Rank(P, i) < Rank(P, a)
    BY <1>4, RankIsStrict
  <2>3. Rank(P, i) \in Nat
    BY <1>2
  <2> QED BY <1>4, <2>1, <2>2, <2>3
<1>6. a \in Nat /\ i \in Nat
  BY <1>1, <1>4
<1> QED BY <1>3, <1>5, <1>6 DEF a

(* An ascending list of all the members of a grid lists the grid.          *)
AscendsThrough(M, a, E, first, bar) ==
    /\ \A m \in 1..M : a[m] \in E
    /\ \A m, n \in 1..M : m < n => a[m] < a[n]
    /\ \A o \in E : \E m \in 1..M : a[m] = o
    /\ \A o \in E : \E j \in Nat \ {0} : o = first + (j - 1) * bar
    /\ \A j \in Nat \ {0}, i \in Nat \ {0} :
          i <= j /\ first + (j - 1) * bar \in E => first + (i - 1) * bar \in E

(* The m-th member of such a list is the m-th point of the grid.           *)
LEMMA AscendingListsGrid ==
    ASSUME NEW M \in Nat, NEW a, NEW E, NEW first \in Int, NEW bar \in Nat \ {0},
           AscendsThrough(M, a, E, first, bar)
    PROVE  \A m \in 1..M : a[m] = first + (m - 1) * bar
<1> DEFINE g(j) == first + (j - 1) * bar
           T == {m \in 1..M : a[m] # g(m)}
<1>0. /\ \A m \in 1..M : a[m] \in E
      /\ \A m, n \in 1..M : m < n => a[m] < a[n]
      /\ \A o \in E : \E m \in 1..M : a[m] = o
      /\ \A o \in E : \E j \in Nat \ {0} : o = first + (j - 1) * bar
      /\ \A j \in Nat \ {0}, i \in Nat \ {0} :
           i <= j /\ first + (j - 1) * bar \in E => first + (i - 1) * bar \in E
  BY DEF AscendsThrough
<1>10. \A j, i \in Nat \ {0} : i <= j /\ g(j) \in E => g(i) \in E
  BY <1>0
<1>1. \A i, j \in Nat \ {0} : g(i) \in Int /\ (i < j => g(i) < g(j))
  <2> SUFFICES ASSUME NEW i \in Nat \ {0}, NEW j \in Nat \ {0}
               PROVE  g(i) \in Int /\ (i < j => g(i) < g(j))
    OBVIOUS
  <2>1. \A d \in Nat \ {0} : d * bar > 0
    OBVIOUS
  <2>2. g(j) = g(i) + (j - i) * bar
    OBVIOUS
  <2>3. (j - i) * bar \in Int /\ g(i) \in Int
    OBVIOUS
  <2>4. i < j => j - i \in Nat \ {0}
    OBVIOUS
  <2> QED BY <2>1, <2>2, <2>3, <2>4
<1> HIDE DEF g
<1>2. SUFFICES ASSUME T # {} PROVE FALSE
  BY DEF g
<1>3. PICK k \in T : \A m \in T : k <= m
  <2>1. T \subseteq Nat
    OBVIOUS
  <2> HIDE DEF T
  <2> QED BY <1>2, <2>1, HasLeast
<1>4. k \in 1..M /\ a[k] # g(k) /\ k \in Nat \ {0} /\ \A m \in 1..M : m < k => a[m] = g(m)
  BY <1>3
<1>5. PICK j \in Nat \ {0} : a[k] = g(j)
  BY <1>0, <1>4 DEF g
<1>6. a[k] \in E /\ j # k
  BY <1>0, <1>4, <1>5
<1>7. CASE j < k
  <2>1. j \in 1..M /\ a[j] = g(j) /\ a[j] < a[k]
    BY <1>0, <1>4, <1>7
  <2>2. g(j) \in Int
    BY <1>1
  <2> QED BY <2>1, <2>2, <1>5
<1>8. CASE j > k
  <2>1. g(k) \in E
    BY <1>10, <1>4, <1>5, <1>6, <1>8
  <2>2. PICK p \in 1..M : a[p] = g(k)
    BY <1>0, <2>1
  <2>3. g(k) \in Int /\ g(j) \in Int /\ g(k) < g(j) /\ p \in Nat \ {0}
    BY <1>1, <1>4, <1>8
  <2>4. ~(p < k)
    <3>1. SUFFICES ASSUME p < k PROVE FALSE
      OBVIOUS
    <3>2. a[p] = g(p) /\ g(p) < g(k)
      BY <1>1, <1>4, <2>3, <3>1
    <3> QED BY <2>2, <2>3, <3>2
  <2>5. p # k
    BY <1>5, <2>2, <2>3
  <2>6. a[k] < a[p]
    BY <1>0, <1>4, <2>3, <2>4, <2>5
  <2> QED BY <1>5, <2>2, <2>3, <2>6
<1> QED BY <1>4, <1>5, <1>6, <1>7, <1>8

-----------------------------------------------------------------------------
(* Arithmetic of candles.                                                  *)
LEMMA StudyConstants ==
    /\ StudyBar \in Nat /\ StudyBar > 0 /\ DayTicks \in Nat /\ DayTicks > 0
    /\ PageLimit \in Nat /\ Slack \in Nat /\ ReadLag \in Nat /\ MaxStudyTime \in Nat
    /\ \A h \in DOMAIN HorizonTicks : HorizonTicks[h] \in Nat /\ HorizonTicks[h] > StudyBar
    /\ \A o \in RawBars : (o % DayTicks) + StudyBar < DayTicks
BY StudyAssumption

(* The first candle required is the one after the signal's.                *)
LEMMA FirstRequiredIsNext ==
    ASSUME NEW s \in Grid
    PROVE  FirstRequired(s) = s + StudyBar /\ s \in Nat /\ s % StudyBar = 0
<1>1. s \in Nat /\ s % StudyBar = 0
  BY StudyConstants DEF Grid
<1> DEFINE q == s \div StudyBar
<1>2. s = q * StudyBar /\ q \in Int
  BY <1>1, StudyConstants
<1> HIDE DEF q
<1>3. (q + 1) * StudyBar = q * StudyBar + StudyBar
  BY <1>2, StudyConstants
<1> QED BY <1>1, <1>2, <1>3 DEF FirstRequired, q

(* The expected path is a run of grid points without a hole.               *)
LEMMA PathIsGrid ==
    ASSUME NEW s \in Grid, NEW end \in Int
    PROVE  /\ \A o \in ExpectedPath(s, end) :
                \E j \in Nat \ {0} : o = FirstRequired(s) + (j - 1) * StudyBar
           /\ \A j \in Nat \ {0}, i \in Nat \ {0} :
                i <= j /\ FirstRequired(s) + (j - 1) * StudyBar \in ExpectedPath(s, end)
                  => FirstRequired(s) + (i - 1) * StudyBar \in ExpectedPath(s, end)
<1> DEFINE first == FirstRequired(s)
           p == first \div StudyBar
<1>1. first = s + StudyBar /\ first \in Nat /\ first % StudyBar = 0
  <2>1. first = s + StudyBar /\ s \in Nat /\ s % StudyBar = 0
    BY FirstRequiredIsNext
  <2>2. (s + StudyBar) % StudyBar = 0
    BY <2>1, StudyConstants
  <2> QED BY <2>1, <2>2, StudyConstants
<1>2. ExpectedPath(s, end) = {o \in Grid : first <= o /\ o <= end - 1}
  BY DEF ExpectedPath, GridOpens
<1> HIDE DEF first
<1>3. first = p * StudyBar /\ p \in Int
  BY <1>1, StudyConstants
<1> HIDE DEF p
<1>4. ASSUME NEW o \in ExpectedPath(s, end)
      PROVE  \E j \in Nat \ {0} : o = first + (j - 1) * StudyBar
  <2>1. o \in Nat /\ o % StudyBar = 0 /\ first <= o
    BY <1>2, StudyConstants DEF Grid
  <2> DEFINE q == o \div StudyBar
  <2>2. o = q * StudyBar /\ q \in Int
    BY <2>1, StudyConstants
  <2> HIDE DEF q
  <2>3. p <= q
    <3>1. SUFFICES ASSUME q < p PROVE FALSE
      BY <1>3, <2>2
    <3>2. p - q \in Nat \ {0}
      BY <1>3, <2>2, <3>1
    <3>3. \A d \in Nat \ {0} : d * StudyBar > 0
      BY StudyConstants
    <3>4. (p - q) * StudyBar > 0
      BY <3>2, <3>3
    <3>5. (p - q) * StudyBar = p * StudyBar - q * StudyBar
      BY <1>3, <2>2, StudyConstants
    <3> QED BY <1>1, <1>3, <2>1, <2>2, <3>4, <3>5
  <2>4. q - p + 1 \in Nat \ {0}
    BY <1>3, <2>2, <2>3
  <2>5. o = first + ((q - p + 1) - 1) * StudyBar
    <3>1. ((q - p + 1) - 1) * StudyBar = q * StudyBar - p * StudyBar
      BY <1>3, <2>2, StudyConstants
    <3>2. p * StudyBar \in Int /\ q * StudyBar \in Int
      BY <1>3, <2>2, StudyConstants
    <3> QED BY <1>3, <2>2, <3>1, <3>2
  <2> QED BY <2>4, <2>5
<1>5. ASSUME NEW j \in Nat \ {0}, NEW i \in Nat \ {0}, i <= j,
             first + (j - 1) * StudyBar \in ExpectedPath(s, end)
      PROVE  first + (i - 1) * StudyBar \in ExpectedPath(s, end)
  <2> DEFINE x == first + (i - 1) * StudyBar
             y == first + (j - 1) * StudyBar
  <2>1. x = (p + i - 1) * StudyBar
    BY <1>3, StudyConstants
  <2>2. x % StudyBar = 0
    <3>1. \A d \in Int : (d * StudyBar) % StudyBar = 0
      BY StudyConstants
    <3>2. p + i - 1 \in Int
      BY <1>3
    <3> QED BY <2>1, <3>1, <3>2
  <2>3. x <= y /\ first <= x /\ x \in Int /\ y \in Int
    <3>1. \A d \in Nat : d * StudyBar >= 0 /\ d * StudyBar \in Int
      BY StudyConstants
    <3>2. y = x + (j - i) * StudyBar
      BY <1>1, StudyConstants
    <3>3. j - i \in Nat /\ i - 1 \in Nat
      BY <1>5
    <3>4. (j - i) * StudyBar >= 0 /\ (i - 1) * StudyBar >= 0
          /\ (j - i) * StudyBar \in Int /\ (i - 1) * StudyBar \in Int
      BY <3>1, <3>3
    <3> HIDE DEF y
    <3>5. x \in Int /\ first <= x
      BY <3>4, <1>1
    <3> HIDE DEF x
    <3> QED BY <3>2, <3>4, <3>5
  <2>4. y \in Grid /\ y <= end - 1
    BY <1>2, <1>5
  <2> HIDE DEF x, y
  <2>5. x \in Grid
    BY <1>1, <2>2, <2>3, <2>4, StudyConstants DEF Grid
  <2>6. x \in ExpectedPath(s, end)
    BY <1>2, <2>3, <2>4, <2>5
  <2> QED BY <2>6 DEF x
<1> QED BY <1>4, <1>5 DEF first

(* What was read in order over a window whose candles are those expected.  *)
Path(s, end) ==
    [i \in 1..Cardinality(ExpectedPath(s, end)) |-> FirstRequired(s) + (i - 1) * StudyBar]

OpensRead(c, P) == [n \in 1..Cardinality(P) |-> c[NthOf(P, n)].open]
OpensAscend(c, P) == \A i, j \in P : i < j => c[i].open < c[j].open

(* Candles read in ascending order that are those expected are the path.   *)
LEMMA OrderedReadingIsPath ==
    ASSUME NEW k \in Nat, NEW c, NEW P, P \subseteq 1..k, NEW s \in Grid, NEW end \in Int,
           OpensAscend(c, P),
           OpensAt(c, P) = ExpectedPath(s, end)
    PROVE  OpensRead(c, P) = Path(s, end)
<1> DEFINE E == ExpectedPath(s, end)
           M == Cardinality(P)
           h == [i \in P |-> c[i].open]
           a == [n \in 1..M |-> c[NthOf(P, n)].open]
<1>1. E \subseteq Int
  BY DEF ExpectedPath, GridOpens, Grid
<1>2. E = {c[i].open : i \in P}
  BY DEF OpensAt
<1>3. M \in Nat /\ IsFiniteSet(P)
  BY RankFacts
<1>4. Cardinality(E) = M
  <2>1. h \in Surjection(P, E)
    BY <1>2 DEF Surjection
  <2>2. h \in Injection(P, E)
    <3>1. h \in [P -> E]
      BY <1>2
    <3>0. \A i, j \in P : i < j => c[i].open < c[j].open
      BY DEF OpensAscend
    <3>2. ASSUME NEW i \in P, NEW j \in P, h[i] = h[j]
          PROVE  i = j
      <4>1. i \in Int /\ j \in Int /\ c[i].open \in Int /\ c[j].open \in Int
        BY <1>1, <1>2
      <4>2. c[i].open = c[j].open
        BY <3>2
      <4>3. ~(i < j) /\ ~(j < i)
        BY <3>0, <4>1, <4>2
      <4> QED BY <4>1, <4>3
    <3> QED BY <3>1, <3>2 DEF Injection, IsInjective
  <2> HIDE DEF h, E, M
  <2> QED BY <1>3, <2>1, <2>2, FS_Surjection DEF M
<1> HIDE DEF M
<1>5. \A m \in 1..M : a[m] \in E
  <2> TAKE m \in 1..M
  <2>1. NthOf(P, m) \in P
    BY NthFacts DEF M
  <2> QED BY <1>2, <2>1
<1>6. \A m, n \in 1..M : m < n => a[m] < a[n]
  <2> SUFFICES ASSUME NEW m \in 1..M, NEW n \in 1..M, m < n PROVE a[m] < a[n]
    OBVIOUS
  <2>1. NthOf(P, m) \in P /\ NthOf(P, n) \in P /\ NthOf(P, m) < NthOf(P, n)
    BY NthFacts, NthAscends DEF M
  <2> QED BY <2>1 DEF OpensAscend
<1>7. \A o \in E : \E m \in 1..M : a[m] = o
  <2> SUFFICES ASSUME NEW o \in E PROVE \E m \in 1..M : a[m] = o
    OBVIOUS
  <2>1. PICK i \in P : o = c[i].open
    BY <1>2
  <2>2. Rank(P, i) \in 1..M /\ NthOf(P, Rank(P, i)) = i
    BY NthIsOnto DEF M
  <2> QED BY <2>1, <2>2
<1>8. /\ \A o \in E : \E j \in Nat \ {0} : o = FirstRequired(s) + (j - 1) * StudyBar
      /\ \A j \in Nat \ {0}, i \in Nat \ {0} :
           i <= j /\ FirstRequired(s) + (j - 1) * StudyBar \in E
             => FirstRequired(s) + (i - 1) * StudyBar \in E
  BY PathIsGrid
<1>9. FirstRequired(s) \in Int /\ StudyBar \in Nat \ {0}
  BY FirstRequiredIsNext, StudyConstants
<1>10. \A m \in 1..M : a[m] = FirstRequired(s) + (m - 1) * StudyBar
  <2> HIDE DEF a, E
  <2>1. AscendsThrough(M, a, E, FirstRequired(s), StudyBar)
    BY <1>5, <1>6, <1>7, <1>8 DEF AscendsThrough
  <2> QED BY <1>3, <1>9, <2>1, AscendingListsGrid
<1>11. Path(s, end) = [i \in 1..M |-> FirstRequired(s) + (i - 1) * StudyBar]
  BY <1>4 DEF Path
<1>12. a = [i \in 1..M |-> FirstRequired(s) + (i - 1) * StudyBar]
  BY <1>10
<1> QED BY <1>11, <1>12 DEF M, OpensRead

-----------------------------------------------------------------------------
(* What an exchange may answer is a list of candles, whatever is wrong     *)
(* with it.                                                                *)
IsCandle(x) == x = [open |-> x.open, fine |-> x.fine] /\ x.open \in Int

IsPage(s) == \E k \in Nat : DOMAIN s = 1..k /\ Len(s) = k /\ \A i \in 1..k : IsCandle(s[i])

(* A list of candles is a page, also when it is empty.                     *)
LEMMA ListIsPage ==
    ASSUME NEW n \in Int, NEW s, s = [i \in 1..n |-> s[i]], \A i \in 1..n : IsCandle(s[i])
    PROVE  IsPage(s)
<1> DEFINE k == IF n < 0 THEN 0 ELSE n
<1>1. k \in Nat /\ 1..n = 1..k
  OBVIOUS
<1> HIDE DEF k
<1>2. s = [i \in 1..k |-> s[i]]
  BY <1>1
<1>3. Len([i \in 1..k |-> s[i]]) = k /\ DOMAIN [i \in 1..k |-> s[i]] = 1..k
  BY <1>1
<1>4. Len(s) = k /\ DOMAIN s = 1..k
  BY <1>2, <1>3
<1> QED BY <1>1, <1>4 DEF IsPage

(* So is the run of candles that a page is made of.                        *)
LEMMA AscendingIsPage ==
    ASSUME NEW a \in Int, NEW b \in Int
    PROVE  IsPage(Ascending(a, b))
<1> DEFINE first == IF a < 0 THEN 0 ELSE a
           n == (b - first) \div StudyBar + 1
           s == [i \in 1..n |-> Fine(first + (i - 1) * StudyBar)]
<1>1. first \in Int /\ n \in Int /\ Ascending(a, b) = s
  BY StudyConstants DEF Ascending
<1> HIDE DEF first, n
<1>2. \A i \in 1..n : s[i].open = first + (i - 1) * StudyBar /\ s[i].fine = TRUE
                      /\ s[i] = Fine(first + (i - 1) * StudyBar)
  BY DEF Fine
<1>3. \A i \in 1..n : first + (i - 1) * StudyBar \in Int
  BY <1>1, StudyConstants
<1>4. \A i \in 1..n : IsCandle(s[i])
  BY <1>2, <1>3 DEF IsCandle, Fine
<1>5. s = [i \in 1..n |-> s[i]]
  OBVIOUS
<1> HIDE DEF s
<1>6. IsPage(s)
  BY <1>1, <1>4, <1>5, ListIsPage
<1> QED BY <1>1, <1>6

(* And so is what a defect makes of a page.                                *)
LEMMA DefectsArePages ==
    ASSUME NEW s, IsPage(s), DOMAIN s # {}
    PROVE  /\ IsPage(OffGrid(s)) /\ \A i \in DOMAIN s : IsPage(Without(s, i))
           /\ \A i \in {Len(s) - 1} \ {0} : IsPage(Twice(s, i)) /\ IsPage(Swapped(s, i))
                                             /\ IsPage(Broken(s, i))
<1>1. PICK k \in Nat : DOMAIN s = 1..k /\ Len(s) = k /\ \A i \in 1..k : IsCandle(s[i])
  BY DEF IsPage
<1>0. k # 0
  BY <1>1
<1>2. IsPage(OffGrid(s))
  <2> DEFINE t == [j \in 1..k |-> [s[j] EXCEPT !.open = s[j].open + 1]]
  <2>1. OffGrid(s) = t
    BY <1>1 DEF OffGrid
  <2>2. \A j \in 1..k : IsCandle(t[j])
    <3> TAKE j \in 1..k
    <3>1. s[j] = [open |-> s[j].open, fine |-> s[j].fine] /\ s[j].open \in Int
      BY <1>1 DEF IsCandle
    <3>2. t[j] = [open |-> s[j].open + 1, fine |-> s[j].fine]
      BY <3>1
    <3> HIDE DEF t
    <3> QED BY <3>1, <3>2 DEF IsCandle
  <2>3. t = [j \in 1..k |-> t[j]]
    OBVIOUS
  <2> HIDE DEF t
  <2>4. IsPage(t)
    BY <2>2, <2>3, ListIsPage
  <2> QED BY <2>1, <2>4
<1>3. ASSUME NEW i \in DOMAIN s PROVE IsPage(Without(s, i))
  <2> DEFINE t == [j \in 1..(k - 1) |-> IF j < i THEN s[j] ELSE s[j + 1]]
  <2>1. Without(s, i) = t
    BY <1>1 DEF Without
  <2>2. \A j \in 1..(k - 1) : j \in 1..k /\ j + 1 \in 1..k
    OBVIOUS
  <2>3. \A j \in 1..(k - 1) : IsCandle(t[j])
    BY <1>1, <2>2
  <2>4. t = [j \in 1..(k - 1) |-> t[j]] /\ k - 1 \in Int
    OBVIOUS
  <2> HIDE DEF t
  <2>5. IsPage(t)
    BY <2>3, <2>4, ListIsPage
  <2> QED BY <2>1, <2>5
<1>4. ASSUME NEW i \in {Len(s) - 1} \ {0} PROVE IsPage(Twice(s, i))
  <2> DEFINE t == [j \in 1..(k + 1) |-> IF j <= i THEN s[j] ELSE s[j - 1]]
  <2>1. Twice(s, i) = t /\ i = k - 1
    BY <1>1 DEF Twice
  <2>2. \A j \in 1..(k + 1) : j <= i => j \in 1..k
    BY <2>1
  <2>3. \A j \in 1..(k + 1) : ~(j <= i) /\ k # 0 => j - 1 \in 1..k
    BY <2>1
  <2>5. CASE k # 0
    <3>1. \A j \in 1..(k + 1) : ~(j <= i) => j - 1 \in 1..k
      BY <2>3, <2>5
    <3>2. \A j \in 1..(k + 1) : IsCandle(t[j])
      BY <1>1, <2>2, <3>1
    <3>3. t = [j \in 1..(k + 1) |-> t[j]] /\ k + 1 \in Int
      OBVIOUS
    <3> HIDE DEF t
    <3>4. IsPage(t)
      BY <3>2, <3>3, ListIsPage
    <3> QED BY <2>1, <3>4
  <2> QED BY <1>0, <2>5
<1>5. ASSUME NEW i \in {Len(s) - 1} \ {0} PROVE IsPage(Swapped(s, i))
  <2> DEFINE t == [s EXCEPT ![i] = s[i + 1], ![i + 1] = s[i]]
  <2>1. Swapped(s, i) = t /\ i \in 1..k /\ i + 1 \in 1..k
    BY <1>0, <1>1 DEF Swapped
  <2>2. DOMAIN t = 1..k /\ \A j \in 1..k : t[j] \in {s[j], s[i], s[i + 1]}
    BY <1>1, <2>1
  <2>3. t = [j \in 1..k |-> t[j]]
    BY <1>1, <2>1
  <2> HIDE DEF t
  <2>4. \A j \in 1..k : IsCandle(t[j])
    BY <1>1, <2>1, <2>2
  <2>5. IsPage(t)
    BY <2>3, <2>4, ListIsPage
  <2> QED BY <2>1, <2>5
<1>6. ASSUME NEW i \in {Len(s) - 1} \ {0} PROVE IsPage(Broken(s, i))
  <2> DEFINE x == [open |-> s[i].open, fine |-> FALSE]
             t == [s EXCEPT ![i] = x]
  <2>1. Broken(s, i) = t /\ i \in 1..k
    BY <1>0, <1>1 DEF Broken
  <2>2. IsCandle(x)
    BY <1>1, <2>1 DEF IsCandle
  <2> HIDE DEF x
  <2>3. t = [j \in 1..k |-> t[j]] /\ \A j \in 1..k : t[j] \in {s[j], x}
    BY <1>1, <2>1
  <2> HIDE DEF t
  <2>4. \A j \in 1..k : IsCandle(t[j])
    BY <1>1, <2>2, <2>3
  <2>5. IsPage(t)
    BY <2>3, <2>4, ListIsPage
  <2> QED BY <2>1, <2>5
<1> QED BY <1>2, <1>3, <1>4, <1>5, <1>6

(* The candles an evaluation works from: a list, closed at its `now`.      *)
IsReading(c, now) ==
    \E k \in Nat : DOMAIN c = 1..k /\ \A i \in 1..k : c[i].open \in Int /\ IsClosed(c[i].open, now)

(* fetch_candles_for_evaluation keeps the candles that have closed.        *)
LEMMA ClosedOnlyIsReading ==
    ASSUME NEW s, IsPage(s), NEW from, NEW now
    PROVE  IsReading(ClosedOnly(s, from, now), now)
<1>1. PICK k \in Nat : DOMAIN s = 1..k /\ Len(s) = k /\ \A i \in 1..k : IsCandle(s[i])
  BY DEF IsPage
<1> DEFINE P == {i \in DOMAIN s : AlignedStart(from) <= s[i].open /\ IsClosed(s[i].open, now)}
           M == Cardinality(P)
<1>2. P \subseteq 1..k /\ \A i \in P : s[i].open \in Int /\ IsClosed(s[i].open, now)
  BY <1>1 DEF IsCandle
<1>3. ClosedOnly(s, from, now) = [n \in 1..M |-> s[NthOf(P, n)]]
  BY DEF ClosedOnly, Picked
<1> HIDE DEF P
<1>4. M \in Nat /\ \A n \in 1..M : NthOf(P, n) \in P
  <2>1. M \in Nat
    BY <1>2, RankFacts
  <2>2. \A n \in 1..M : NthOf(P, n) \in P
    BY <1>2, NthFacts
  <2> QED BY <2>1, <2>2
<1> QED BY <1>2, <1>3, <1>4 DEF IsReading

(* The latest candles are a page with at least one candle.                 *)
LEMMA LatestIsPage ==
    ASSUME NEW limit \in Nat \ {0}, studyTime \in Nat
    PROVE  IsPage(LatestCandles(limit)) /\ DOMAIN LatestCandles(limit) # {}
<1> DEFINE last == (studyTime \div StudyBar) * StudyBar
           a == last - (limit - 1) * StudyBar
           first == IF a < 0 THEN 0 ELSE a
           n == (last - first) \div StudyBar + 1
<1>1. last \in Int /\ last >= 0
  <2>1. studyTime \div StudyBar \in Nat
    BY StudyConstants
  <2>2. \A d \in Nat : d * StudyBar \in Int /\ d * StudyBar >= 0
    BY StudyConstants
  <2> QED BY <2>1, <2>2
<1> HIDE DEF last
<1>2. a \in Int /\ a <= last
  <2>1. \A d \in Nat : d * StudyBar \in Int /\ d * StudyBar >= 0
    BY StudyConstants
  <2>2. limit - 1 \in Nat
    OBVIOUS
  <2> QED BY <1>1, <2>1, <2>2
<1>3. LatestCandles(limit) = Ascending(a, last)
  BY DEF LatestCandles, last
<1> HIDE DEF a
<1>4. first \in Int /\ first <= last
  BY <1>1, <1>2
<1>5. Ascending(a, last) = [i \in 1..n |-> Fine(first + (i - 1) * StudyBar)]
  BY DEF Ascending
<1> HIDE DEF first
<1>6. n \in Int /\ n >= 1
  <2>1. last - first \in Nat
    BY <1>1, <1>4
  <2>2. \A d \in Nat : d \div StudyBar \in Nat
    BY StudyConstants
  <2> QED BY <2>1, <2>2
<1>7. 1 \in DOMAIN Ascending(a, last)
  <2> HIDE DEF n
  <2> QED BY <1>5, <1>6
<1> QED BY <1>1, <1>2, <1>3, <1>7, AscendingIsPage

(* A window that is not empty needs at least one candle.                   *)
LEMMA AlignedIsInt ==
    ASSUME NEW from \in Int, NEW now \in Int
    PROVE  AlignedStart(from) \in Int /\ GridEnd(now) \in Int /\ Needed(from, now) \in Int
           /\ (GridEnd(now) >= AlignedStart(from) => Needed(from, now) >= 1)
<1>1. \A x \in Int : x \div StudyBar \in Int /\ (x >= 0 => x \div StudyBar >= 0)
  BY StudyConstants
<1>2. \A x \in Int : x * StudyBar \in Int
  BY StudyConstants
<1>3. AlignedStart(from) \in Int /\ GridEnd(now) \in Int
  BY <1>1, <1>2, StudyConstants DEF AlignedStart, GridEnd
<1>4. GridEnd(now) - AlignedStart(from) \in Int
      /\ (GridEnd(now) >= AlignedStart(from) => GridEnd(now) - AlignedStart(from) >= 0)
  BY <1>3
<1> QED BY <1>1, <1>3, <1>4 DEF Needed

(* Whatever the exchange answers, only closed candles are evaluated.       *)
LEMMA FetchedIsReading ==
    ASSUME NEW from \in Int, NEW now \in Int, studyTime \in Nat,
           NEW c \in FetchedCandles(from, now)
    PROVE  IsReading(c, now)
<1>1. GridEnd(now) \in Int /\ AlignedStart(from) \in Int /\ Needed(from, now) \in Int
  BY AlignedIsInt
<1>2. ~(GridEnd(now) < AlignedStart(from))
  BY DEF FetchedCandles
<1>3. Needed(from, now) >= 1
  BY <1>1, <1>2, AlignedIsInt
<1>4. PICK r \in IF Needed(from, now) > PageLimit THEN RangeAnswers(from, now)
                 ELSE PageAnswers(LatestCandles(Needed(from, now) + Slack)) :
           c = ClosedOnly(r, from, now)
  BY <1>2 DEF FetchedCandles
<1>5. IsPage(r)
  <2>1. CASE Needed(from, now) > PageLimit
    <3> DEFINE s == Ascending(AlignedStart(from), GridEnd(now))
    <3>1. r \in RangeAnswers(from, now)
      BY <1>4, <2>1
    <3>2. r \in {s} \union {Without(s, i) : i \in DOMAIN s}
      BY <3>1 DEF RangeAnswers
    <3>3. IsPage(s)
      BY <1>1, AscendingIsPage
    <3> HIDE DEF s
    <3>4. CASE r = s
      BY <3>3, <3>4
    <3>5. CASE \E i \in DOMAIN s : r = Without(s, i)
      <4>1. PICK i \in DOMAIN s : r = Without(s, i)
        BY <3>5
      <4>2. DOMAIN s # {}
        BY <4>1
      <4> QED BY <3>3, <4>1, <4>2, DefectsArePages
    <3> QED BY <3>2, <3>4, <3>5
  <2>2. CASE ~(Needed(from, now) > PageLimit)
    <3> DEFINE limit == Needed(from, now) + Slack
               s == LatestCandles(limit)
    <3>1. r \in PageAnswers(s)
      BY <1>4, <2>2
    <3>2. limit \in Nat \ {0}
      BY <1>1, <1>3, StudyConstants
    <3> HIDE DEF limit
    <3>3. IsPage(s) /\ DOMAIN s # {}
      BY <3>2, LatestIsPage
    <3> HIDE DEF s
    <3>4. \/ r = s \/ r = OffGrid(s) \/ \E i \in DOMAIN s : r = Without(s, i)
          \/ \E i \in {Len(s) - 1} \ {0} : r \in {Twice(s, i), Swapped(s, i), Broken(s, i)}
      BY <3>1 DEF PageAnswers
    <3>5. CASE \E i \in DOMAIN s : r = Without(s, i)
      <4>1. PICK i \in DOMAIN s : r = Without(s, i)
        BY <3>5
      <4> QED BY <3>3, <4>1, DefectsArePages
    <3>6. CASE \E i \in {Len(s) - 1} \ {0} : r \in {Twice(s, i), Swapped(s, i), Broken(s, i)}
      <4>1. PICK i \in {Len(s) - 1} \ {0} : r \in {Twice(s, i), Swapped(s, i), Broken(s, i)}
        BY <3>6
      <4>2. IsPage(Twice(s, i)) /\ IsPage(Swapped(s, i)) /\ IsPage(Broken(s, i))
        BY <3>3, DefectsArePages
      <4> QED BY <4>1, <4>2
    <3>7. IsPage(OffGrid(s))
      BY <3>3, DefectsArePages
    <3> QED BY <3>3, <3>4, <3>5, <3>6, <3>7
  <2> QED BY <2>1, <2>2
<1> QED BY <1>4, <1>5, ClosedOnlyIsReading

-----------------------------------------------------------------------------
(* Coverage: what passes validate_candle_coverage is the whole path.       *)
LEMMA HorizonsEnd ==
    ASSUME NEW s \in Grid, s \in RawBars
    PROVE  /\ EndOfDay(s) \in Nat /\ FirstRequired(s) < EndOfDay(s)
           /\ \A h \in DOMAIN HorizonTicks \union {"eod"} :
                 HorizonEnd(s, h) \in Nat /\ FirstRequired(s) < HorizonEnd(s, h)
<1>1. FirstRequired(s) = s + StudyBar /\ s \in Nat
  BY FirstRequiredIsNext
<1>2. EndOfDay(s) \in Nat /\ FirstRequired(s) < EndOfDay(s)
  <2> DEFINE q == s \div DayTicks
             r == s % DayTicks
  <2>1. q \in Nat /\ r \in Nat /\ s = q * DayTicks + r
    BY <1>1, StudyConstants
  <2>2. r + StudyBar < DayTicks
    BY StudyConstants
  <2>3. EndOfDay(s) = (q + 1) * DayTicks
    BY DEF EndOfDay
  <2> HIDE DEF q, r
  <2>4. (q + 1) * DayTicks = q * DayTicks + DayTicks /\ q * DayTicks \in Nat
    BY <2>1, StudyConstants
  <2> QED BY <1>1, <2>1, <2>2, <2>3, <2>4, StudyConstants
<1>3. ASSUME NEW h \in DOMAIN HorizonTicks \union {"eod"}
      PROVE  HorizonEnd(s, h) \in Nat /\ FirstRequired(s) < HorizonEnd(s, h)
  <2>1. CASE h = "eod"
    BY <1>2, <2>1 DEF HorizonEnd
  <2>2. CASE h # "eod"
    <3>1. HorizonEnd(s, h) = s + HorizonTicks[h] /\ h \in DOMAIN HorizonTicks
      BY <2>2 DEF HorizonEnd
    <3> QED BY <1>1, <3>1, StudyConstants
  <2> QED BY <2>1, <2>2
<1> QED BY <1>2, <1>3

(* A window that passes has exactly the candles of the path.               *)
LEMMA WholeCoverage ==
    ASSUME NEW c, NEW s \in Grid, NEW end \in Int, NEW now \in Int, FirstRequired(s) < end,
           CoverageValidated(c, s, end, now, TRUE)
    PROVE  /\ OpensAt(c, WindowOf(c, s, end)) = ExpectedPath(s, end)
           /\ AscendingAfter(c, s)
<1>1. FirstRequired(s) = s + StudyBar /\ s \in Nat /\ StudyBar \in Nat
  BY FirstRequiredIsNext, StudyConstants
<1>2. ~(end <= s \/ FirstRequired(s) >= end)
  BY <1>1
<1>3. {o \in ExpectedPath(s, end) : TRUE \/ IsClosed(o, now)} = ExpectedPath(s, end)
  OBVIOUS
<1> QED BY <1>2, <1>3 DEF CoverageValidated

(* Without the demand that the window has closed, the path ends with the   *)
(* last candle that has.                                                   *)
LEMMA CoverageSoFar ==
    ASSUME NEW c, NEW s \in Grid, NEW now \in Nat, IsReading(c, now),
           CoverageValidated(c, s, now, now, FALSE)
    PROVE  \/ WindowOf(c, s, now) = {}
           \/ /\ now - StudyBar + 1 \in 0..now /\ AscendingAfter(c, s)
              /\ OpensAt(c, WindowOf(c, s, now)) = ExpectedPath(s, now - StudyBar + 1)
<1> DEFINE w == WindowOf(c, s, now)
           E == ExpectedPath(s, now)
           demanded == {o \in E : FALSE \/ IsClosed(o, now)}
<1>0. PICK k \in Nat : /\ DOMAIN c = 1..k
                       /\ \A i \in 1..k : c[i].open \in Int /\ IsClosed(c[i].open, now)
  BY DEF IsReading
<1>1. FirstRequired(s) = s + StudyBar /\ s \in Nat /\ StudyBar \in Nat /\ StudyBar > 0
  BY FirstRequiredIsNext, StudyConstants
<1>2. CASE now <= s \/ FirstRequired(s) >= now
  <2>1. \A i \in DOMAIN c : ~(s < c[i].open)
    BY <1>0, <1>1, <1>2 DEF IsClosed
  <2>2. w = {}
    BY <2>1 DEF WindowOf
  <2> QED BY <2>2
<1>3. CASE ~(now <= s \/ FirstRequired(s) >= now)
  <2>1. /\ AscendingAfter(c, s) /\ demanded \subseteq OpensAt(c, w) /\ OpensAt(c, w) \subseteq E
    BY <1>3 DEF CoverageValidated
  <2>2. \A i \in w : IsClosed(c[i].open, now) /\ c[i].open \in Int
    BY <1>0 DEF WindowOf
  <2>3. \A o \in OpensAt(c, w) : IsClosed(o, now)
    BY <2>2 DEF OpensAt
  <2>4. E = {o \in Grid : FirstRequired(s) <= o /\ o <= now - 1}
    BY DEF ExpectedPath, GridOpens
  <2>5. ExpectedPath(s, now - StudyBar + 1)
          = {o \in Grid : FirstRequired(s) <= o /\ o <= (now - StudyBar + 1) - 1}
    BY DEF ExpectedPath, GridOpens
  <2>6. Grid \subseteq Int
    BY DEF Grid
  <2>7. \A o \in Int : IsClosed(o, now) <=> o <= (now - StudyBar + 1) - 1
    BY <1>1 DEF IsClosed
  <2>8. \A o \in Int : o <= (now - StudyBar + 1) - 1 => o <= now - 1
    BY <1>1
  <2> HIDE DEF E, w
  <2>9. OpensAt(c, w) = demanded
    BY <2>1, <2>3
  <2>10. demanded = ExpectedPath(s, now - StudyBar + 1)
    BY <2>4, <2>5, <2>6, <2>7, <2>8
  <2>11. now - StudyBar + 1 \in 0..now
    BY <1>1, <1>3
  <2> QED BY <2>1, <2>9, <2>10, <2>11 DEF w
<1> QED BY <1>2, <1>3

-----------------------------------------------------------------------------
(* What is worked out from the candles is true of the signal.              *)
VerdictTrue(v, st, s, t) ==
    IF st = "V1" THEN v = Path(s, EndOfDay(s)) ELSE \E end \in 0..t : v = Path(s, end)
MarkTrue(covers, h, s, t) ==
    HorizonEnd(s, h) <= t /\ covers[h] = ExpectedPath(s, HorizonEnd(s, h))
UpdateTrue(up, st, s, t, L) ==
    /\ up.marked \subseteq L /\ up.final \in BOOLEAN
    /\ \A h \in up.marked : MarkTrue(up.covers, h, s, t)
    /\ up.final => VerdictTrue(up.verdict, st, s, t)

(* A window is a set of positions of the list.                             *)
LEMMA WindowIsPositions ==
    ASSUME NEW c, NEW now, IsReading(c, now), NEW s, NEW end
    PROVE  \E k \in Nat : WindowOf(c, s, end) \subseteq 1..k
BY DEF IsReading, WindowOf

(* The candles of a covered window, read in order, are the path.           *)
LEMMA ReadVerdict ==
    ASSUME NEW c, NEW now, IsReading(c, now), NEW s \in Grid, NEW cutoff, NEW end \in Int,
           AscendingAfter(c, s), OpensAt(c, WindowOf(c, s, cutoff)) = ExpectedPath(s, end)
    PROVE  OpensRead(c, WindowOf(c, s, cutoff)) = Path(s, end)
<1> DEFINE w == WindowOf(c, s, cutoff)
<1>0. PICK k \in Nat : /\ DOMAIN c = 1..k
                       /\ \A i \in 1..k : c[i].open \in Int /\ IsClosed(c[i].open, now)
  BY DEF IsReading
<1>1. w \subseteq 1..k /\ \A i \in w : c[i].open > s
  <2>1. w \subseteq DOMAIN c /\ \A i \in w : s < c[i].open
    BY DEF WindowOf
  <2>2. s \in Int
    BY FirstRequiredIsNext
  <2>3. \A i \in w : c[i].open \in Int
    BY <1>0, <2>1
  <2> HIDE DEF w
  <2>4. \A i \in w : c[i].open > s
    BY <2>1, <2>2, <2>3
  <2> QED BY <1>0, <2>1, <2>4
<1>2. OpensAscend(c, w)
  <2>1. w \subseteq {q \in DOMAIN c : c[q].open > s}
    BY <1>0, <1>1
  <2> HIDE DEF w
  <2> QED BY <2>1 DEF AscendingAfter, OpensAscend
<1> HIDE DEF w
<1>3. OpensAt(c, w) = ExpectedPath(s, end)
  BY DEF w
<1>4. OpensRead(c, w) = Path(s, end)
  BY <1>1, <1>2, <1>3, OrderedReadingIsPath
<1> QED BY <1>4 DEF w

(* An empty window reads as the path that ends at once.                    *)
LEMMA NothingIsRead ==
    ASSUME NEW c, NEW s \in Grid
    PROVE  OpensRead(c, {}) = Path(s, 0)
<1>1. ExpectedPath(s, 0) = {}
  <2>1. \A o \in Grid : ~(FirstRequired(s) <= o /\ o <= 0 - 1)
    BY FirstRequiredIsNext, StudyConstants DEF Grid
  <2> QED BY <2>1 DEF ExpectedPath, GridOpens
<1>2. Cardinality({}) = 0
  BY FS_EmptySet
<1>3. 1..0 = {}
  OBVIOUS
<1> QED BY <1>1, <1>2, <1>3 DEF Path, OpensRead

(* _evaluate_signal_incremental works out only what is true.               *)
LEMMA UpdateIsTrue ==
    ASSUME NEW row, NEW s \in Grid, s \in RawBars, NEW c, NEW now \in Nat, IsReading(c, now),
           study \in {"V1", "V2D"}
    PROVE  /\ UpdateTrue(UpdateOf(row, s, c, now), study, s, now, Labels)
           /\ UpdateOf(row, s, c, now).final =>
                 Labels \ row.marked = UpdateOf(row, s, c, now).marked
<1> DEFINE up == UpdateOf(row, s, c, now)
           new == Proven(row, s, c, now)
           w == WindowOf(c, s, VerdictEnd(s, now))
           valid == CoverageValidated(c, s, VerdictEnd(s, now), now, study = "V1")
           finalises == Labels \ row.marked = new /\ ~row.final /\ valid
           read == OpensRead(c, w)
<1>1. /\ up.marked = new /\ up.final = finalises
      /\ up.covers = [h \in new |-> OpensAt(c, WindowOf(c, s, HorizonEnd(s, h)))]
      /\ up.verdict = IF finalises THEN read ELSE <<>>
  BY DEF UpdateOf, OpensRead
<1>2. new \subseteq Labels /\ Labels \subseteq DOMAIN HorizonTicks \union {"eod"}
  BY DEF Proven, Labels
<1>3. ASSUME NEW h \in new PROVE MarkTrue(up.covers, h, s, now)
  <2>1. now >= HorizonEnd(s, h) /\ CoverageValidated(c, s, HorizonEnd(s, h), now, TRUE)
    BY DEF Proven
  <2>2. HorizonEnd(s, h) \in Nat /\ FirstRequired(s) < HorizonEnd(s, h)
    BY <1>2, HorizonsEnd
  <2>5. HorizonEnd(s, h) \in Int /\ now \in Int
    BY <2>2
  <2>3. OpensAt(c, WindowOf(c, s, HorizonEnd(s, h))) = ExpectedPath(s, HorizonEnd(s, h))
    BY <2>1, <2>2, <2>5, WholeCoverage
  <2> HIDE DEF up, new
  <2>4. up.covers[h] = ExpectedPath(s, HorizonEnd(s, h))
    BY <1>1, <2>3
  <2> QED BY <2>1, <2>2, <2>4 DEF MarkTrue
<1>4. finalises \in BOOLEAN
  OBVIOUS
<1>5. ASSUME valid PROVE VerdictTrue(read, study, s, now)
  <2>1. CASE study = "V1"
    <3>1. VerdictEnd(s, now) = EndOfDay(s)
      BY <2>1 DEF VerdictEnd
    <3>2. EndOfDay(s) \in Nat /\ FirstRequired(s) < EndOfDay(s)
      BY HorizonsEnd
    <3>3. CoverageValidated(c, s, EndOfDay(s), now, TRUE)
      <4>1. (study = "V1") = TRUE
        BY <2>1
      <4> QED BY <1>5, <3>1, <4>1
    <3>6. EndOfDay(s) \in Int /\ now \in Int
      BY <3>2
    <3>4. OpensAt(c, w) = ExpectedPath(s, EndOfDay(s)) /\ AscendingAfter(c, s)
      BY <3>1, <3>2, <3>3, <3>6, WholeCoverage
    <3>5. read = Path(s, EndOfDay(s))
      BY <3>1, <3>2, <3>4, ReadVerdict
    <3> QED BY <2>1, <3>5 DEF VerdictTrue
  <2>2. CASE study # "V1"
    <3>1. VerdictEnd(s, now) = now
      BY <2>2 DEF VerdictEnd
    <3>2. CoverageValidated(c, s, now, now, FALSE)
      <4>1. (study = "V1") = FALSE
        BY <2>2
      <4> QED BY <1>5, <3>1, <4>1
    <3>3. CASE w = {}
      <4>1. read = Path(s, 0)
        BY <3>3, NothingIsRead
      <4>2. 0 \in 0..now
        OBVIOUS
      <4> QED BY <2>2, <4>1, <4>2 DEF VerdictTrue
    <3>4. CASE /\ now - StudyBar + 1 \in 0..now /\ AscendingAfter(c, s)
               /\ OpensAt(c, w) = ExpectedPath(s, now - StudyBar + 1)
      <4>1. now - StudyBar + 1 \in Int
        BY StudyConstants
      <4>2. read = Path(s, now - StudyBar + 1)
        BY <3>1, <3>4, <4>1, ReadVerdict
      <4> QED BY <2>2, <3>4, <4>2 DEF VerdictTrue
    <3> QED BY <3>1, <3>2, <3>3, <3>4, CoverageSoFar
  <2> QED BY <2>1, <2>2
<1> HIDE DEF up, new, read, valid
<1>6. up.final => VerdictTrue(up.verdict, study, s, now)
  BY <1>1, <1>5
<1>7. UpdateTrue(up, study, s, now, Labels)
  <2>1. up.marked \subseteq Labels
    BY <1>1, <1>2
  <2>2. up.final \in BOOLEAN
    BY <1>1, <1>4
  <2>3. \A h \in up.marked : MarkTrue(up.covers, h, s, now)
    BY <1>1, <1>3
  <2> QED BY <1>6, <2>1, <2>2, <2>3 DEF UpdateTrue
<1>8. up.final => Labels \ row.marked = up.marked
  BY <1>1
<1> QED BY <1>7, <1>8 DEF up

(* What is true of a signal stays true as time passes.                     *)
LEMMA UpdateStays ==
    ASSUME NEW up, NEW st, NEW s \in Grid, s \in RawBars, NEW t \in Int, NEW u \in Int, t <= u,
           NEW L, L \subseteq DOMAIN HorizonTicks \union {"eod"}, UpdateTrue(up, st, s, t, L)
    PROVE  UpdateTrue(up, st, s, u, L)
<1>1. /\ up.marked \subseteq L /\ up.final \in BOOLEAN
      /\ \A h \in up.marked : MarkTrue(up.covers, h, s, t)
      /\ up.final => VerdictTrue(up.verdict, st, s, t)
  BY DEF UpdateTrue
<1>2. ASSUME NEW h \in up.marked PROVE MarkTrue(up.covers, h, s, u)
  <2>1. HorizonEnd(s, h) \in Int
    BY <1>1, HorizonsEnd
  <2>2. HorizonEnd(s, h) <= t /\ up.covers[h] = ExpectedPath(s, HorizonEnd(s, h))
    BY <1>1 DEF MarkTrue
  <2> QED BY <2>1, <2>2 DEF MarkTrue
<1>3. VerdictTrue(up.verdict, st, s, t) => VerdictTrue(up.verdict, st, s, u)
  <2>1. 0..t \subseteq 0..u
    OBVIOUS
  <2> QED BY <2>1 DEF VerdictTrue
<1> QED BY <1>1, <1>2, <1>3 DEF UpdateTrue

-----------------------------------------------------------------------------
(* The inductive invariant.  StudyTyped types the state; SignalsSound says *)
(* that rows are only about candles with a wick; OutcomesSound that every  *)
(* stored row is true of its signal and final only when all is marked; and *)
(* EvaluationsSound what an evaluator may hold while others write: what it *)
(* read as marked is still marked, and an update that finalises a row      *)
(* leaves nothing unmarked once it is saved.                               *)
StudyTyped ==
    /\ study \in {"V1", "V2D"} /\ studyTime \in 0..MaxStudyTime
    /\ scanned \in Grid \union {NoBar} /\ checked \in Grid \union {NoBar}
    /\ scanned # NoBar => scanned \in RawBars /\ IsClosed(scanned, studyTime)
    /\ filling \subseteq Grid /\ filling \subseteq RawBars
    /\ checked # NoBar => checked \in RawBars
    /\ study = "V2D" => filling = {} /\ checked = NoBar
    /\ evalAt \in [Evaluators -> {"idle", "read", "saving"}]
    /\ DOMAIN asof = Evaluators /\ \A e \in Evaluators : asof[e] \in 0..studyTime
    /\ DOMAIN snapshot = Evaluators /\ DOMAIN unsaved = Evaluators

SignalsSound ==
    /\ DOMAIN signals \subseteq Grid /\ DOMAIN signals \subseteq RawBars
    /\ \A s \in DOMAIN signals : signals[s] \in [by : {"scan", "fill"}, strict : BOOLEAN]
    /\ SignalsAreClosed

RowTrue(r, st, s, t, L) ==
    /\ r = [marked |-> r.marked, covers |-> r.covers, verdict |-> r.verdict, final |-> r.final]
    /\ r.covers = [h \in L |-> r.covers[h]]
    /\ UpdateTrue(r, st, s, t, L)
    /\ r.final => r.marked = L

OutcomesSound ==
    /\ DOMAIN outcomes \subseteq DOMAIN signals
    /\ \A s \in DOMAIN outcomes : RowTrue(outcomes[s], study, s, studyTime, Labels)

MarkedIn(rows, s) == IF s \in DOMAIN rows THEN rows[s].marked ELSE {}

ReadSound(shot, sigs, outs) ==
    /\ DOMAIN shot \subseteq sigs
    /\ \A s \in DOMAIN shot : shot[s].marked \subseteq MarkedIn(outs, s)
HeldSound(ups, sigs, outs, st, t, L) ==
    /\ DOMAIN ups \subseteq sigs
    /\ \A s \in DOMAIN ups : /\ UpdateTrue(ups[s], st, s, t, L)
                             /\ ups[s].final => L \ ups[s].marked \subseteq MarkedIn(outs, s)

EvaluationsSound ==
    \A e \in Evaluators :
        /\ ReadSound(snapshot[e], DOMAIN signals, outcomes)
        /\ evalAt[e] = "read" => DOMAIN snapshot[e] # {}
        /\ HeldSound(unsaved[e], DOMAIN signals, outcomes, study, studyTime, Labels)

StudyInv == StudyTyped /\ SignalsSound /\ OutcomesSound /\ EvaluationsSound

-----------------------------------------------------------------------------
(* Every time of a candle is a natural number, and NoBar is none.         *)
LEMMA GridIsNat == Grid \subseteq Nat /\ NoBar \notin Grid
BY StudyConstants DEF Grid, NoBar

(* A label is a horizon of the table or the end of the day.                *)
LEMMA LabelNames == Labels \subseteq DOMAIN HorizonTicks \union {"eod"}
BY DEF Labels

(* Nothing is stored or held at the start.                                 *)
LEMMA StudyInit == ShadowInit => StudyInv
<1> SUFFICES ASSUME ShadowInit PROVE StudyInv
  OBVIOUS
<1>1. DOMAIN <<>> = {}
  OBVIOUS
<1>2. StudyTyped
  <2>1. 0 \in 0..MaxStudyTime /\ 0 \in 0..0
    BY StudyConstants
  <2> QED BY <2>1, StudyConstants DEF ShadowInit, StudyTyped
<1>3. SignalsSound
  BY <1>1 DEF ShadowInit, SignalsSound, SignalsAreClosed
<1>4. OutcomesSound
  BY <1>1 DEF ShadowInit, OutcomesSound
<1>5. EvaluationsSound
  BY <1>1 DEF ShadowInit, EvaluationsSound, ReadSound, HeldSound
<1> QED BY <1>2, <1>3, <1>4, <1>5 DEF StudyInv

(* A study never changes, and its time never runs back.                    *)
LEMMA StudyFrame ==
    ASSUME StudyTyped, ShadowNext \/ UNCHANGED studyVars
    PROVE  /\ study' = study /\ studyTime' \in 0..MaxStudyTime /\ studyTime <= studyTime'
           /\ studyTime \in Int /\ studyTime' \in Int /\ Labels' = Labels
<1>1. study' = study
  BY DEF ShadowNext, studyVars, StudyTick, ScanForStudy, PersistV1, PersistV2d, StartBackfill,
         BackfillCandle, BackfillSave, SelectEligible, FetchAndEvaluate, SaveOutcome, EndEvaluation
<1>2. studyTime' = studyTime \/ (studyTime < MaxStudyTime /\ studyTime' = studyTime + 1)
  BY DEF ShadowNext, studyVars, StudyTick, ScanForStudy, PersistV1, PersistV2d, StartBackfill,
         BackfillCandle, BackfillSave, SelectEligible, FetchAndEvaluate, SaveOutcome, EndEvaluation
<1>3. studyTime \in 0..MaxStudyTime
  BY DEF StudyTyped
<1> QED BY <1>1, <1>2, <1>3, StudyConstants DEF Labels

(* A closed candle stays closed.                                           *)
LEMMA ClosedStays ==
    ASSUME NEW o \in Grid, NEW t \in Int, NEW u \in Int, t <= u, IsClosed(o, t)
    PROVE  IsClosed(o, u)
BY GridIsNat, StudyConstants DEF IsClosed

(* Every step keeps the types and the closedness of a candidate.           *)
LEMMA TypedStep ==
    ASSUME StudyInv, ShadowNext \/ UNCHANGED studyVars
    PROVE  StudyTyped'
<1> USE DEF StudyInv
<1>0. /\ study' = study /\ studyTime' \in 0..MaxStudyTime /\ studyTime <= studyTime'
      /\ studyTime \in Int /\ studyTime' \in Int
  BY StudyFrame
<1>1. StudyTyped /\ 0..studyTime \subseteq 0..studyTime'
  BY <1>0
<1>2. ASSUME UNCHANGED <<scanned>> PROVE scanned' # NoBar => scanned' \in RawBars /\ IsClosed(scanned, studyTime)'
  <2>1. scanned # NoBar => scanned \in Grid /\ scanned \in RawBars /\ IsClosed(scanned, studyTime)
    BY <1>1 DEF StudyTyped
  <2>2. scanned # NoBar => IsClosed(scanned, studyTime')
    BY <2>1, <1>0, ClosedStays
  <2> QED BY <2>1, <2>2, <1>2 DEF IsClosed
<1>3. CASE UNCHANGED <<scanned, filling, checked, evalAt, asof, snapshot, unsaved>>
  BY <1>0, <1>1, <1>2, <1>3 DEF StudyTyped
<1>4. CASE ScanForStudy
  <2>1. scanned' \in Grid /\ scanned' \in RawBars /\ IsClosed(scanned', studyTime)
    BY <1>4 DEF ScanForStudy, LastClosed, DetectRaw
  <2>2. studyTime' = studyTime /\ IsClosed(scanned, studyTime)'
    BY <2>1, <1>4 DEF ScanForStudy, IsClosed
  <2> QED BY <1>0, <1>1, <1>4, <2>1, <2>2 DEF StudyTyped, ScanForStudy
<1>5. CASE PersistV1 \/ PersistV2d
  BY <1>0, <1>1, <1>5 DEF StudyTyped, PersistV1, PersistV2d
<1>6. CASE StartBackfill
  <2>1. filling' \subseteq Grid /\ filling' \subseteq RawBars /\ study = "V1"
    BY <1>6 DEF StartBackfill, DetectRaw
  <2>2. UNCHANGED <<study, studyTime, scanned, checked, evalAt, asof, snapshot, unsaved>>
    BY <1>6 DEF StartBackfill
  <2> QED BY <1>0, <1>1, <1>2, <2>1, <2>2 DEF StudyTyped
<1>7. CASE BackfillCandle
  <2>1. filling \subseteq Nat /\ filling # {}
    BY <1>1, <1>7, GridIsNat DEF StudyTyped, BackfillCandle
  <2>2. \E q \in filling : \A r \in filling : q <= r
    BY <2>1, HasLeast
  <2> DEFINE o == CHOOSE q \in filling : \A r \in filling : q <= r
  <2>3. o \in filling
    BY <2>2
  <2>4. filling' \subseteq filling /\ checked' \in {checked, NoBar, o}
    <3>1. \/ filling' = filling \ {o} /\ checked' = IF o \in DOMAIN signals THEN NoBar ELSE o
          \/ filling' = filling \ {o} /\ UNCHANGED checked
          \/ filling' = {} /\ UNCHANGED checked
      BY <1>7 DEF BackfillCandle
    <3> QED BY <3>1
  <2> HIDE DEF o
  <2>5. UNCHANGED <<study, studyTime, scanned, evalAt, asof, snapshot, unsaved>>
    BY <1>7 DEF BackfillCandle
  <2>6. study # "V2D"
    BY <1>1, <2>1 DEF StudyTyped
  <2> QED BY <1>0, <1>1, <1>2, <2>3, <2>4, <2>5, <2>6 DEF StudyTyped
<1>8. CASE BackfillSave
  BY <1>0, <1>1, <1>2, <1>8 DEF StudyTyped, BackfillSave
<1>9. ASSUME NEW e \in Evaluators, SelectEligible(e) PROVE StudyTyped'
  <2>1. PICK lag \in 0..ReadLag : lag <= studyTime /\ asof' = [asof EXCEPT ![e] = studyTime - lag]
    BY <1>9 DEF SelectEligible
  <2>2. studyTime - lag \in 0..studyTime
    BY <1>0, <1>1, <2>1, StudyConstants
  <2>3. DOMAIN asof' = Evaluators /\ \A d \in Evaluators : asof'[d] \in 0..studyTime
    BY <1>1, <2>1, <2>2 DEF StudyTyped
  <2>4. DOMAIN snapshot' = Evaluators
    BY <1>1, <1>9 DEF StudyTyped, SelectEligible
  <2>5. evalAt' = [evalAt EXCEPT ![e] = "read"]
        /\ UNCHANGED <<study, studyTime, scanned, filling, checked, unsaved>>
    BY <1>9 DEF SelectEligible
  <2> QED BY <1>0, <1>1, <1>2, <2>3, <2>4, <2>5 DEF StudyTyped
<1>10. ASSUME NEW e \in Evaluators, FetchAndEvaluate(e) PROVE StudyTyped'
  <2>1. DOMAIN snapshot' = Evaluators /\ DOMAIN unsaved' = Evaluators
    BY <1>1, <1>10 DEF StudyTyped, FetchAndEvaluate
  <2>2. asof' = [asof EXCEPT ![e] = 0] /\ evalAt' = [evalAt EXCEPT ![e] = "saving"]
        /\ UNCHANGED <<study, studyTime, scanned, filling, checked>>
    BY <1>10 DEF FetchAndEvaluate
  <2>3. 0 \in 0..studyTime
    BY <1>1, StudyConstants DEF StudyTyped
  <2>4. DOMAIN asof' = Evaluators /\ \A d \in Evaluators : asof'[d] \in 0..studyTime
    BY <1>1, <2>2, <2>3 DEF StudyTyped
  <2> QED BY <1>0, <1>1, <1>2, <2>1, <2>2, <2>4 DEF StudyTyped
<1>11. ASSUME NEW e \in Evaluators, SaveOutcome(e) PROVE StudyTyped'
  <2>1. DOMAIN unsaved' = Evaluators
        /\ UNCHANGED <<study, studyTime, scanned, filling, checked, evalAt, asof, snapshot>>
    BY <1>1, <1>11 DEF StudyTyped, SaveOutcome
  <2> QED BY <1>0, <1>1, <1>2, <2>1 DEF StudyTyped
<1>12. ASSUME NEW e \in Evaluators, EndEvaluation(e) PROVE StudyTyped'
  <2>1. DOMAIN snapshot' = Evaluators /\ DOMAIN unsaved' = Evaluators
    BY <1>1, <1>12 DEF StudyTyped, EndEvaluation
  <2>2. asof' = [asof EXCEPT ![e] = 0] /\ evalAt' = [evalAt EXCEPT ![e] = "idle"]
        /\ UNCHANGED <<study, studyTime, scanned, filling, checked>>
    BY <1>12 DEF EndEvaluation
  <2>3. 0 \in 0..studyTime
    BY <1>1, StudyConstants DEF StudyTyped
  <2>4. DOMAIN asof' = Evaluators /\ \A d \in Evaluators : asof'[d] \in 0..studyTime
    BY <1>1, <2>2, <2>3 DEF StudyTyped
  <2> QED BY <1>0, <1>1, <1>2, <2>1, <2>2, <2>4 DEF StudyTyped
<1>13. CASE StudyTick
  BY <1>3, <1>13 DEF StudyTick
<1>14. CASE UNCHANGED studyVars
  BY <1>3, <1>14 DEF studyVars
<1> QED BY <1>4, <1>5, <1>6, <1>7, <1>8, <1>9, <1>10, <1>11, <1>12, <1>13, <1>14 DEF ShadowNext

(* A signal row is written once.                                           *)
LEMMA SignalsStep ==
    ASSUME StudyInv, ShadowNext \/ UNCHANGED studyVars
    PROVE  /\ SignalsSound'
           /\ \A s \in DOMAIN signals : s \in DOMAIN signals' /\ signals'[s] = signals[s]
<1> USE DEF StudyInv
<1>0. /\ study' = study /\ studyTime' \in 0..MaxStudyTime /\ studyTime <= studyTime'
      /\ studyTime \in Int /\ studyTime' \in Int
  BY StudyFrame
<1>1. /\ DOMAIN signals \subseteq Grid /\ DOMAIN signals \subseteq RawBars
      /\ \A s \in DOMAIN signals : signals[s] \in [by : {"scan", "fill"}, strict : BOOLEAN]
      /\ \A s \in DOMAIN signals :
            /\ signals[s].by = "scan" =>
                  IsClosed(s, studyTime) /\ (signals[s].strict => s \in StrictBars)
            /\ study = "V2D" => s \in InBandBars
  BY DEF SignalsSound, SignalsAreClosed
<1>2. ASSUME UNCHANGED <<signals>> PROVE SignalsSound'
  <2>1. \A s \in DOMAIN signals : IsClosed(s, studyTime) => IsClosed(s, studyTime')
    BY <1>0, <1>1, ClosedStays
  <2> QED BY <1>0, <1>1, <1>2, <2>1 DEF SignalsSound, SignalsAreClosed, IsClosed
<1>3. ASSUME NEW o \in Grid, o \in RawBars, NEW by \in {"scan", "fill"}, NEW strict \in BOOLEAN,
             signals' = Inserted(o, by, strict), studyTime' = studyTime,
             by = "scan" => IsClosed(o, studyTime) /\ (strict => o \in StrictBars),
             study = "V2D" => o \in InBandBars
      PROVE  /\ SignalsSound'
             /\ \A s \in DOMAIN signals : s \in DOMAIN signals' /\ signals'[s] = signals[s]
  <2>1. CASE o \in DOMAIN signals
    <3>1. UNCHANGED <<signals>>
      BY <1>3, <2>1 DEF Inserted
    <3> QED BY <1>2, <3>1
  <2>2. CASE o \notin DOMAIN signals
    <3> DEFINE new == [by |-> by, strict |-> strict]
    <3>1. signals' = [x \in DOMAIN signals \union {o} |-> IF x = o THEN new ELSE signals[x]]
      BY <1>3, <2>2 DEF Inserted, Put
    <3>2. new \in [by : {"scan", "fill"}, strict : BOOLEAN] /\ new.by = by /\ new.strict = strict
      OBVIOUS
    <3> HIDE DEF new
    <3>3. /\ DOMAIN signals' = DOMAIN signals \union {o} /\ signals'[o] = new
          /\ \A s \in DOMAIN signals : s # o /\ signals'[s] = signals[s]
      BY <2>2, <3>1
    <3>4. DOMAIN signals' \subseteq Grid /\ DOMAIN signals' \subseteq RawBars
      BY <1>1, <1>3, <3>3
    <3>5. \A s \in DOMAIN signals' : signals'[s] \in [by : {"scan", "fill"}, strict : BOOLEAN]
      BY <1>1, <3>2, <3>3
    <3>6. \A s \in DOMAIN signals' :
            /\ signals'[s].by = "scan" =>
                  IsClosed(s, studyTime) /\ (signals'[s].strict => s \in StrictBars)
            /\ study = "V2D" => s \in InBandBars
      <4> TAKE s \in DOMAIN signals'
      <4>1. CASE s = o
        BY <1>3, <3>2, <3>3, <4>1
      <4>2. CASE s # o
        BY <1>1, <3>3, <4>2
      <4> QED BY <4>1, <4>2
    <3>7. SignalsAreClosed'
      BY <1>0, <1>3, <3>6 DEF SignalsAreClosed, IsClosed
    <3> QED BY <3>3, <3>4, <3>5, <3>7 DEF SignalsSound
  <2> QED BY <2>1, <2>2
<1>4. CASE PersistV1
  <2>1. scanned \in Grid /\ scanned \in RawBars /\ IsClosed(scanned, studyTime) /\ study = "V1"
        /\ studyTime' = studyTime
    BY <1>4 DEF StudyTyped, PersistV1
  <2>2. PassesStrict(scanned) \in BOOLEAN /\ (PassesStrict(scanned) => scanned \in StrictBars)
    BY DEF PassesStrict
  <2>3. signals' = signals \/ signals' = Inserted(scanned, "scan", PassesStrict(scanned))
    BY <1>4 DEF PersistV1
  <2> HIDE DEF PassesStrict
  <2>4. CASE signals' = Inserted(scanned, "scan", PassesStrict(scanned))
    BY <1>3, <2>1, <2>2, <2>4
  <2> QED BY <1>2, <2>3, <2>4
<1>5. CASE PersistV2d
  <2>1. scanned \in Grid /\ scanned \in RawBars /\ IsClosed(scanned, studyTime)
        /\ studyTime' = studyTime
    BY <1>5 DEF StudyTyped, PersistV2d
  <2>3. signals' = signals \/ (signals' = Inserted(scanned, "scan", FALSE) /\ scanned \in InBandBars)
    BY <1>5 DEF PersistV2d, InsertedV2d, V2dFilterPasses
  <2>4. CASE signals' = Inserted(scanned, "scan", FALSE) /\ scanned \in InBandBars
    BY <1>3, <2>1, <2>4
  <2> QED BY <1>2, <2>3, <2>4
<1>6. CASE BackfillSave
  <2>1. checked \in Grid /\ checked \in RawBars /\ study # "V2D" /\ studyTime' = studyTime
    BY <1>6 DEF StudyTyped, BackfillSave
  <2>3. signals' = signals \/ signals' = Inserted(checked, "fill", FALSE)
    BY <1>6 DEF BackfillSave
  <2>4. CASE signals' = Inserted(checked, "fill", FALSE)
    BY <1>3, <2>1, <2>4
  <2> QED BY <1>2, <2>3, <2>4
<1>7. CASE UNCHANGED <<signals>>
  BY <1>2, <1>7
<1>8. PersistV1 \/ PersistV2d \/ BackfillSave \/ UNCHANGED <<signals>>
  BY DEF ShadowNext, studyVars, StudyTick, ScanForStudy, StartBackfill,
         BackfillCandle, SelectEligible, FetchAndEvaluate, SaveOutcome, EndEvaluation
<1> QED BY <1>4, <1>5, <1>6, <1>7, <1>8

(* Saving an update keeps a row true and what it already says.             *)
LEMMA UpsertIsTrue ==
    ASSUME NEW row, NEW up, NEW s, NEW t,
           RowTrue(row, study, s, t, Labels), UpdateTrue(up, study, s, t, Labels),
           up.final => Labels \ up.marked \subseteq row.marked
    PROVE  /\ RowTrue(Upserted(row, up), study, s, t, Labels)
           /\ Upserted(row, up).marked = row.marked \union up.marked
           /\ \A h \in row.marked : Upserted(row, up).covers[h] = row.covers[h]
           /\ row.final => Upserted(row, up).final
           /\ row.final /\ study = "V1" => Upserted(row, up) = row
<1> DEFINE n == Upserted(row, up)
           L == Labels
           cov == [h \in L |-> IF h \in up.marked THEN up.covers[h] ELSE row.covers[h]]
           ver == IF up.final THEN up.verdict ELSE row.verdict
<1>1. /\ row = [marked |-> row.marked, covers |-> row.covers, verdict |-> row.verdict,
                final |-> row.final]
      /\ row.covers = [h \in L |-> row.covers[h]]
      /\ row.marked \subseteq L /\ row.final \in BOOLEAN
      /\ \A h \in row.marked : MarkTrue(row.covers, h, s, t)
      /\ row.final => VerdictTrue(row.verdict, study, s, t)
      /\ row.final => row.marked = L
  BY DEF RowTrue, UpdateTrue
<1>2. /\ up.marked \subseteq L /\ up.final \in BOOLEAN
      /\ \A h \in up.marked : MarkTrue(up.covers, h, s, t)
      /\ up.final => VerdictTrue(up.verdict, study, s, t)
      /\ up.final => L \ up.marked \subseteq row.marked
  BY DEF UpdateTrue
<1>3. n = [marked |-> row.marked \union up.marked, covers |-> cov, verdict |-> ver,
           final |-> row.final \/ up.final]
  BY DEF Upserted
<1>4. /\ n.marked = row.marked \union up.marked /\ n.covers = cov /\ n.verdict = ver
      /\ n.final = (row.final \/ up.final)
  BY <1>3
<1> HIDE DEF n, L
<1>5. /\ \A h \in up.marked : cov[h] = up.covers[h]
      /\ \A h \in row.marked : h \notin up.marked => cov[h] = row.covers[h]
  BY <1>1, <1>2
<1>6. \A h \in row.marked : cov[h] = row.covers[h]
  <2> TAKE h \in row.marked
  <2>1. CASE h \in up.marked
    <3>1. cov[h] = up.covers[h]
      BY <1>5, <2>1
    <3>2. up.covers[h] = ExpectedPath(s, HorizonEnd(s, h))
      BY <1>2, <2>1 DEF MarkTrue
    <3>3. row.covers[h] = ExpectedPath(s, HorizonEnd(s, h))
      BY <1>1 DEF MarkTrue
    <3> HIDE DEF cov
    <3> QED BY <3>1, <3>2, <3>3
  <2>2. CASE h \notin up.marked
    BY <1>5, <2>2
  <2> QED BY <2>1, <2>2
<1>7. \A h \in n.marked : MarkTrue(n.covers, h, s, t)
  <2> TAKE h \in n.marked
  <2> HIDE DEF cov
  <2>1. CASE h \in up.marked
    <3>1. MarkTrue(up.covers, h, s, t) /\ n.covers[h] = up.covers[h]
      BY <1>2, <1>4, <1>5, <2>1
    <3> QED BY <3>1 DEF MarkTrue
  <2>2. CASE h \in row.marked
    <3>1. MarkTrue(row.covers, h, s, t) /\ n.covers[h] = row.covers[h]
      BY <1>1, <1>4, <1>6, <2>2
    <3> QED BY <3>1 DEF MarkTrue
  <2> QED BY <1>4, <2>1, <2>2
<1>8. n.final => VerdictTrue(n.verdict, study, s, t) /\ n.marked = L
  <2>1. CASE up.final
    <3>1. n.marked = L
      BY <1>1, <1>2, <1>4, <2>1
    <3>2. n.verdict = up.verdict
      BY <1>4, <2>1
    <3> QED BY <1>2, <2>1, <3>1, <3>2
  <2>2. CASE ~up.final
    <3>1. n.verdict = row.verdict /\ (n.final => row.final)
      BY <1>4, <2>2
    <3>2. row.final => n.marked = L
      BY <1>1, <1>2, <1>4
    <3> QED BY <1>1, <3>1, <3>2
  <2> QED BY <2>1, <2>2
<1>9. n.marked \subseteq L /\ n.final \in BOOLEAN
  <2>1. n.marked \subseteq L
    BY <1>1, <1>2, <1>4
  <2>2. n.final \in BOOLEAN
    BY <1>4
  <2> QED BY <2>1, <2>2
<1>10. RowTrue(n, study, s, t, L)
  <2>1. n = [marked |-> n.marked, covers |-> n.covers, verdict |-> n.verdict, final |-> n.final]
    <3> HIDE DEF cov, ver
    <3> QED BY <1>3
  <2>2. n.covers = [h \in L |-> n.covers[h]]
    BY <1>4
  <2>3. UpdateTrue(n, study, s, t, L)
    BY <1>7, <1>8, <1>9 DEF UpdateTrue
  <2>4. n.final => n.marked = L
    BY <1>8
  <2> QED BY <2>1, <2>2, <2>3, <2>4 DEF RowTrue
<1>11. row.final /\ study = "V1" => n = row
  <2> SUFFICES ASSUME row.final, study = "V1" PROVE n = row
    OBVIOUS
  <2>1. row.marked = L
    BY <1>1
  <2>2. row.marked \union up.marked = row.marked
    BY <1>2, <2>1
  <2>3. cov = row.covers
    <3>1. cov = [h \in L |-> cov[h]]
      OBVIOUS
    <3>2. \A h \in L : cov[h] = row.covers[h]
      BY <1>6, <2>1
    <3> HIDE DEF cov
    <3>3. [h \in L |-> cov[h]] = [h \in L |-> row.covers[h]]
      BY <3>2
    <3> QED BY <1>1, <3>1, <3>3
  <2>4. ver = row.verdict
    <3>1. row.verdict = Path(s, EndOfDay(s))
      BY <1>1 DEF VerdictTrue
    <3>2. up.final => up.verdict = Path(s, EndOfDay(s))
      BY <1>2 DEF VerdictTrue
    <3> QED BY <3>1, <3>2
  <2>5. (row.final \/ up.final) = row.final
    BY <1>1
  <2> HIDE DEF cov, ver
  <2>6. n = [marked |-> row.marked, covers |-> row.covers, verdict |-> row.verdict,
             final |-> row.final]
    BY <1>3, <2>2, <2>3, <2>4, <2>5
  <2> QED BY <1>1, <2>6
<1>12. row.final => n.final
  BY <1>4
<1> HIDE DEF cov, ver
<1>13. n.marked = row.marked \union up.marked /\ \A h \in row.marked : n.covers[h] = row.covers[h]
  BY <1>4, <1>6
<1> QED BY <1>10, <1>11, <1>12, <1>13 DEF n, L

(* A row that marks nothing is true.                                       *)
LEMMA NewOutcomeIsTrue ==
    ASSUME NEW s, NEW t
    PROVE  RowTrue(NewOutcome, study, s, t, Labels) /\ NewOutcome.marked = {}
<1>1. /\ NewOutcome.marked = {} /\ NewOutcome.final = FALSE
      /\ NewOutcome.covers = [h \in Labels |-> {}]
      /\ NewOutcome = [marked |-> NewOutcome.marked, covers |-> NewOutcome.covers,
                       verdict |-> NewOutcome.verdict, final |-> NewOutcome.final]
  BY DEF NewOutcome
<1> HIDE DEF NewOutcome
<1>2. NewOutcome.covers = [h \in Labels |-> NewOutcome.covers[h]]
  BY <1>1
<1>3. UpdateTrue(NewOutcome, study, s, t, Labels)
  BY <1>1 DEF UpdateTrue
<1> QED BY <1>1, <1>2, <1>3 DEF RowTrue

(* A stored row stays true as time passes.                                 *)
LEMMA RowStays ==
    ASSUME NEW r, NEW s \in Grid, s \in RawBars, NEW t \in Int, NEW u \in Int, t <= u,
           RowTrue(r, study, s, t, Labels)
    PROVE  RowTrue(r, study, s, u, Labels)
BY LabelNames, UpdateStays DEF RowTrue

(* OldestOf chooses a member.                                              *)
LEMMA OldestIsIn == ASSUME NEW S, S \subseteq Nat, S # {} PROVE OldestOf(S) \in S
<1>1. \E s \in S : \A q \in S : s <= q
  BY HasLeast
<1> QED BY <1>1 DEF OldestOf

(* The one action that writes outcomes.                                    *)
LEMMA SaveStep ==
    ASSUME StudyInv, NEW e \in Evaluators, SaveOutcome(e)
    PROVE  /\ OutcomesSound'
           /\ \A s \in DOMAIN outcomes :
                 /\ s \in DOMAIN outcomes' /\ outcomes[s].marked \subseteq outcomes'[s].marked
                 /\ \A h \in outcomes[s].marked : outcomes'[s].covers[h] = outcomes[s].covers[h]
                 /\ outcomes[s].final =>
                       outcomes'[s].final /\ (study = "V1" => outcomes'[s] = outcomes[s])
<1> USE DEF StudyInv
<1> DEFINE s == OldestOf(DOMAIN unsaved[e])
           row == IF s \in DOMAIN outcomes THEN outcomes[s] ELSE NewOutcome
           new == Upserted(row, unsaved[e][s])
<1>1. /\ DOMAIN unsaved[e] # {} /\ outcomes' \in {outcomes, Put(outcomes, s, new)}
      /\ UNCHANGED <<study, studyTime, signals>>
  BY DEF SaveOutcome
<1>2. HeldSound(unsaved[e], DOMAIN signals, outcomes, study, studyTime, Labels)
  BY DEF EvaluationsSound
<1>3. DOMAIN unsaved[e] \subseteq DOMAIN signals /\ DOMAIN signals \subseteq Nat
  BY <1>2, GridIsNat DEF HeldSound, SignalsSound
<1>4. s \in DOMAIN unsaved[e] /\ s \in DOMAIN signals
  <2>1. DOMAIN unsaved[e] \subseteq Nat
    BY <1>3
  <2> QED BY <1>1, <1>3, <2>1, OldestIsIn
<1>5. Labels' = Labels
  BY <1>1 DEF Labels
<1> HIDE DEF s
<1>6. /\ UpdateTrue(unsaved[e][s], study, s, studyTime, Labels)
      /\ unsaved[e][s].final => Labels \ unsaved[e][s].marked \subseteq MarkedIn(outcomes, s)
  BY <1>2, <1>4 DEF HeldSound
<1>7. RowTrue(row, study, s, studyTime, Labels) /\ row.marked = MarkedIn(outcomes, s)
  <2>1. CASE s \in DOMAIN outcomes
    BY <2>1 DEF OutcomesSound, MarkedIn
  <2>2. CASE s \notin DOMAIN outcomes
    <3>1. row = NewOutcome /\ MarkedIn(outcomes, s) = {}
      BY <2>2 DEF MarkedIn
    <3> QED BY <3>1, NewOutcomeIsTrue
  <2> QED BY <2>1, <2>2
<1>71. s \in DOMAIN outcomes => row = outcomes[s]
  OBVIOUS
<1> HIDE DEF row
<1>8. /\ RowTrue(new, study, s, studyTime, Labels)
      /\ new.marked = row.marked \union unsaved[e][s].marked
      /\ \A h \in row.marked : new.covers[h] = row.covers[h]
      /\ row.final => new.final
      /\ row.final /\ study = "V1" => new = row
  <2>1. unsaved[e][s].final => Labels \ unsaved[e][s].marked \subseteq row.marked
    BY <1>6, <1>7
  <2> QED BY <1>6, <1>7, <2>1, UpsertIsTrue
<1> HIDE DEF new
<1>9. /\ DOMAIN outcomes \subseteq DOMAIN signals
      /\ \A q \in DOMAIN outcomes : RowTrue(outcomes[q], study, q, studyTime, Labels)
  BY DEF OutcomesSound
<1>10. CASE outcomes' = outcomes
  <2>1. OutcomesSound'
    BY <1>1, <1>5, <1>9, <1>10 DEF OutcomesSound
  <2> QED BY <1>10, <2>1
<1>11. CASE outcomes' = Put(outcomes, s, new)
  <2>1. /\ DOMAIN outcomes' = DOMAIN outcomes \union {s} /\ outcomes'[s] = new
        /\ \A q \in DOMAIN outcomes : q # s => outcomes'[q] = outcomes[q]
    BY <1>11 DEF Put
  <2>2. OutcomesSound'
    <3>1. \A q \in DOMAIN outcomes' : RowTrue(outcomes'[q], study, q, studyTime, Labels)
      BY <1>8, <1>9, <2>1
    <3>2. DOMAIN outcomes' \subseteq DOMAIN signals
      BY <1>4, <1>9, <2>1
    <3> QED BY <1>1, <1>5, <3>1, <3>2 DEF OutcomesSound
  <2>3. ASSUME NEW q \in DOMAIN outcomes
        PROVE  /\ q \in DOMAIN outcomes' /\ outcomes[q].marked \subseteq outcomes'[q].marked
               /\ \A h \in outcomes[q].marked : outcomes'[q].covers[h] = outcomes[q].covers[h]
               /\ outcomes[q].final =>
                     outcomes'[q].final /\ (study = "V1" => outcomes'[q] = outcomes[q])
    <3>1. CASE q # s
      <4>1. q \in DOMAIN outcomes' /\ outcomes'[q] = outcomes[q]
        BY <2>1, <3>1
      <4> QED BY <4>1
    <3>2. CASE q = s
      <4>1. row = outcomes[q] /\ outcomes'[q] = new /\ q \in DOMAIN outcomes'
        BY <1>71, <2>1, <3>2
      <4> QED BY <1>8, <4>1
    <3> QED BY <3>1, <3>2
  <2> QED BY <2>2, <2>3
<1> QED BY <1>1, <1>10, <1>11

(* ShadowRowsFrozen, and every row stays true.                             *)
LEMMA OutcomesStep ==
    ASSUME StudyInv, ShadowNext \/ UNCHANGED studyVars
    PROVE  OutcomesSound' /\ ShadowRowsFrozen
<1> USE DEF StudyInv
<1>0. /\ study' = study /\ studyTime <= studyTime' /\ Labels' = Labels
      /\ studyTime \in Int /\ studyTime' \in Int
  BY StudyFrame
<1>1. \A s \in DOMAIN signals : s \in DOMAIN signals' /\ signals'[s] = signals[s]
  BY SignalsStep
<1>2. CASE UNCHANGED <<outcomes>>
  <2>1. /\ DOMAIN outcomes \subseteq DOMAIN signals
        /\ DOMAIN signals \subseteq Grid /\ DOMAIN signals \subseteq RawBars
        /\ \A s \in DOMAIN outcomes : RowTrue(outcomes[s], study, s, studyTime, Labels)
    BY DEF OutcomesSound, SignalsSound
  <2>2. \A s \in DOMAIN outcomes : RowTrue(outcomes[s], study, s, studyTime', Labels)
    BY <1>0, <2>1, RowStays
  <2>3. DOMAIN outcomes \subseteq DOMAIN signals'
    BY <1>1, <2>1
  <2>4. OutcomesSound'
    BY <1>0, <1>2, <2>2, <2>3 DEF OutcomesSound
  <2>5. ShadowRowsFrozen
    BY <1>1, <1>2 DEF ShadowRowsFrozen
  <2> QED BY <2>4, <2>5
<1>3. ASSUME NEW e \in Evaluators, SaveOutcome(e) PROVE OutcomesSound' /\ ShadowRowsFrozen
  BY <1>1, <1>3, SaveStep DEF ShadowRowsFrozen
<1>4. (\E e \in Evaluators : SaveOutcome(e)) \/ UNCHANGED <<outcomes>>
  BY DEF ShadowNext, studyVars, StudyTick, ScanForStudy, PersistV1, PersistV2d, StartBackfill,
         BackfillCandle, BackfillSave, SelectEligible, FetchAndEvaluate, EndEvaluation
<1> QED BY <1>2, <1>3, <1>4

(* What an evaluator holds stays true whatever the others save meanwhile.  *)
LEMMA EvaluationStays ==
    ASSUME StudyInv, ShadowNext \/ UNCHANGED studyVars
    PROVE  /\ \A shot : ReadSound(shot, DOMAIN signals, outcomes)
                           => ReadSound(shot, DOMAIN signals', outcomes')
           /\ \A ups : HeldSound(ups, DOMAIN signals, outcomes, study, studyTime, Labels)
                => HeldSound(ups, DOMAIN signals', outcomes', study, studyTime', Labels)
<1> USE DEF StudyInv
<1>0. /\ study' = study /\ studyTime <= studyTime' /\ Labels' = Labels
      /\ studyTime \in Int /\ studyTime' \in Int
  BY StudyFrame
<1>1. \A s : MarkedIn(outcomes, s) \subseteq MarkedIn(outcomes', s)
  <2> TAKE s
  <2>1. ShadowRowsFrozen
    BY OutcomesStep
  <2>2. s \in DOMAIN outcomes =>
           s \in DOMAIN outcomes' /\ outcomes[s].marked \subseteq outcomes'[s].marked
    BY <2>1 DEF ShadowRowsFrozen
  <2> QED BY <2>2 DEF MarkedIn
<1>2. DOMAIN signals \subseteq DOMAIN signals'
  <2>1. \A s \in DOMAIN signals : s \in DOMAIN signals'
    BY SignalsStep
  <2> QED BY <2>1
<1>3. ASSUME NEW shot, ReadSound(shot, DOMAIN signals, outcomes)
      PROVE  ReadSound(shot, DOMAIN signals', outcomes')
  BY <1>1, <1>2, <1>3 DEF ReadSound
<1>4. ASSUME NEW ups, HeldSound(ups, DOMAIN signals, outcomes, study, studyTime, Labels)
      PROVE  HeldSound(ups, DOMAIN signals', outcomes', study, studyTime', Labels)
  <2>1. /\ DOMAIN ups \subseteq DOMAIN signals
        /\ \A s \in DOMAIN ups :
              /\ UpdateTrue(ups[s], study, s, studyTime, Labels)
              /\ ups[s].final => Labels \ ups[s].marked \subseteq MarkedIn(outcomes, s)
    BY <1>4 DEF HeldSound
  <2>2. DOMAIN ups \subseteq Grid /\ DOMAIN ups \subseteq RawBars
    BY <2>1 DEF SignalsSound
  <2>3. ASSUME NEW s \in DOMAIN ups
        PROVE  /\ UpdateTrue(ups[s], study, s, studyTime', Labels)
               /\ ups[s].final => Labels \ ups[s].marked \subseteq MarkedIn(outcomes', s)
    <3>1. UpdateTrue(ups[s], study, s, studyTime', Labels)
      BY <1>0, <2>1, <2>2, LabelNames, UpdateStays
    <3>2. ups[s].final => Labels \ ups[s].marked \subseteq MarkedIn(outcomes', s)
      BY <1>1, <2>1
    <3> QED BY <3>1, <3>2
  <2>4. DOMAIN ups \subseteq DOMAIN signals'
    BY <1>2, <2>1
  <2> QED BY <2>3, <2>4 DEF HeldSound
<1> QED BY <1>3, <1>4

(* The rows of a SELECT are those of the table.                            *)
LEMMA SelectIsSound ==
    ASSUME StudyInv, NEW e \in Evaluators, SelectEligible(e)
    PROVE  ReadSound(snapshot'[e], DOMAIN signals, outcomes) /\ DOMAIN snapshot'[e] # {}
<1> DEFINE rows == {s \in DOMAIN signals : EligibleRow(s, studyTime)}
           shot == [s \in rows |-> IF s \in DOMAIN outcomes THEN outcomes[s] ELSE NewOutcome]
<1>1. rows # {} /\ snapshot' = [snapshot EXCEPT ![e] = shot]
  BY DEF SelectEligible
<1>2. DOMAIN snapshot = Evaluators
  BY DEF StudyInv, StudyTyped
<1>3. rows \subseteq DOMAIN signals
  OBVIOUS
<1> HIDE DEF rows
<1>4. \A s \in rows : shot[s].marked \subseteq MarkedIn(outcomes, s)
  <2> TAKE s \in rows
  <2>1. shot[s] = IF s \in DOMAIN outcomes THEN outcomes[s] ELSE NewOutcome
    OBVIOUS
  <2>2. NewOutcome.marked = {}
    BY NewOutcomeIsTrue
  <2> HIDE DEF shot
  <2> QED BY <2>1, <2>2 DEF MarkedIn
<1>5. DOMAIN shot = rows
  OBVIOUS
<1> HIDE DEF shot
<1>6. snapshot'[e] = shot
  BY <1>1, <1>2
<1> QED BY <1>1, <1>3, <1>4, <1>5, <1>6 DEF ReadSound

(* What FetchAndEvaluate holds is proved by the candles, also when the     *)
(* rows it read have been marked further since.                            *)
LEMMA FetchIsSound ==
    ASSUME StudyInv, NEW e \in Evaluators, FetchAndEvaluate(e)
    PROVE  HeldSound(unsaved'[e], DOMAIN signals, outcomes, study, studyTime, Labels)
<1> USE DEF StudyInv
<1> DEFINE now == asof[e]
           shot == snapshot[e]
<1>1. PICK c \in FetchedCandles(OldestOf(DOMAIN shot), now) :
         LET up == [s \in DOMAIN shot |-> UpdateOf(shot[s], s, c, now)]
             some == {s \in DOMAIN up : up[s].marked # {} \/ up[s].final}
         IN unsaved' = [unsaved EXCEPT ![e] = [s \in some |-> up[s]]]
  BY DEF FetchAndEvaluate
<1> DEFINE up == [s \in DOMAIN shot |-> UpdateOf(shot[s], s, c, now)]
           some == {s \in DOMAIN up : up[s].marked # {} \/ up[s].final}
           held == [s \in some |-> up[s]]
<1>2. /\ evalAt[e] = "read" /\ ReadSound(shot, DOMAIN signals, outcomes) /\ DOMAIN shot # {}
      /\ DOMAIN unsaved = Evaluators
  BY DEF FetchAndEvaluate, EvaluationsSound, StudyTyped
<1>3. /\ DOMAIN shot \subseteq Grid /\ DOMAIN shot \subseteq RawBars /\ DOMAIN shot \subseteq Nat
      /\ DOMAIN shot \subseteq DOMAIN signals
      /\ \A s \in DOMAIN shot : shot[s].marked \subseteq MarkedIn(outcomes, s)
  BY <1>2, GridIsNat DEF ReadSound, SignalsSound
<1>4. /\ now \in Nat /\ now <= studyTime /\ studyTime \in Nat
      /\ now \in Int /\ studyTime \in Int /\ study \in {"V1", "V2D"}
  BY StudyConstants DEF StudyTyped
<1>5. OldestOf(DOMAIN shot) \in Int
  <2>1. OldestOf(DOMAIN shot) \in DOMAIN shot
    BY <1>2, <1>3, OldestIsIn
  <2> QED BY <1>3, <2>1
<1>6. unsaved'[e] = held
  BY <1>1, <1>2
<1>7. DOMAIN held \subseteq DOMAIN shot /\ \A s \in DOMAIN held : held[s] = UpdateOf(shot[s], s, c, now)
  OBVIOUS
<1> HIDE DEF held, shot, now, up, some
<1>8. IsReading(c, now)
  BY <1>1, <1>4, <1>5, FetchedIsReading
<1>9. ASSUME NEW s \in DOMAIN held
      PROVE  /\ UpdateTrue(held[s], study, s, studyTime, Labels)
             /\ held[s].final => Labels \ held[s].marked \subseteq MarkedIn(outcomes, s)
  <2>1. s \in Grid /\ s \in RawBars /\ s \in DOMAIN shot
    BY <1>3, <1>7
  <2>2. /\ UpdateTrue(UpdateOf(shot[s], s, c, now), study, s, now, Labels)
        /\ UpdateOf(shot[s], s, c, now).final =>
              Labels \ shot[s].marked = UpdateOf(shot[s], s, c, now).marked
    BY <1>4, <1>8, <2>1, UpdateIsTrue
  <2>3. UpdateTrue(held[s], study, s, now, Labels)
    BY <1>7, <2>2
  <2>4. UpdateTrue(held[s], study, s, studyTime, Labels)
    BY <1>4, <2>1, <2>3, LabelNames, UpdateStays
  <2>5. held[s].final => Labels \ shot[s].marked = held[s].marked
    BY <1>7, <2>2
  <2>6. shot[s].marked \subseteq MarkedIn(outcomes, s)
    BY <1>3, <2>1
  <2>7. held[s].final => Labels \ held[s].marked \subseteq MarkedIn(outcomes, s)
    BY <2>5, <2>6
  <2> QED BY <2>4, <2>7
<1>10. DOMAIN held \subseteq DOMAIN signals
  BY <1>3, <1>7
<1> QED BY <1>6, <1>9, <1>10 DEF HeldSound

(* Every step keeps EvaluationsSound, for the evaluator that acts and the  *)
(* others.                                                                 *)
LEMMA EvaluationsStep ==
    ASSUME StudyInv, ShadowNext \/ UNCHANGED studyVars
    PROVE  EvaluationsSound'
<1> DEFINE R(shot) == ReadSound(shot, DOMAIN signals, outcomes)
           H(ups) == HeldSound(ups, DOMAIN signals, outcomes, study, studyTime, Labels)
           RR(shot) == ReadSound(shot, DOMAIN signals', outcomes')
           HH(ups) == HeldSound(ups, DOMAIN signals', outcomes', study, studyTime', Labels)
<1>0. study' = study /\ Labels' = Labels
  <2>1. StudyTyped
    BY DEF StudyInv
  <2> QED BY <2>1, StudyFrame
<1>1. /\ \A shot : R(shot) => RR(shot)
      /\ \A ups : H(ups) => HH(ups)
  BY EvaluationStays
<1>2. /\ \A d \in Evaluators : /\ R(snapshot[d]) /\ H(unsaved[d])
                               /\ evalAt[d] = "read" => DOMAIN snapshot[d] # {}
      /\ DOMAIN snapshot = Evaluators /\ DOMAIN unsaved = Evaluators /\ DOMAIN evalAt = Evaluators
  BY DEF StudyInv, EvaluationsSound, StudyTyped
<1>3. SUFFICES ASSUME NEW d \in Evaluators
               PROVE  /\ RR(snapshot'[d]) /\ HH(unsaved'[d])
                      /\ evalAt'[d] = "read" => DOMAIN snapshot'[d] # {}
  BY <1>0 DEF EvaluationsSound
<1>4. R(<<>>) /\ H(<<>>) /\ DOMAIN <<>> = {}
  BY DEF ReadSound, HeldSound
<1>5. CASE UNCHANGED <<evalAt, snapshot, unsaved>>
  <2> HIDE DEF R, H, RR, HH
  <2> QED BY <1>1, <1>2, <1>5
<1>6. ASSUME NEW e \in Evaluators, SelectEligible(e)
      PROVE  /\ RR(snapshot'[d]) /\ HH(unsaved'[d])
             /\ evalAt'[d] = "read" => DOMAIN snapshot'[d] # {}
  <2>1. R(snapshot'[e]) /\ DOMAIN snapshot'[e] # {}
    BY <1>6, SelectIsSound
  <2>2. \E x, y : /\ evalAt' = [evalAt EXCEPT ![e] = x] /\ unsaved' = unsaved
                  /\ snapshot' = [snapshot EXCEPT ![e] = y]
    BY <1>6 DEF SelectEligible
  <2>3. d # e => evalAt'[d] = evalAt[d] /\ snapshot'[d] = snapshot[d]
    BY <1>2, <2>2
  <2> HIDE DEF R, H, RR, HH
  <2> QED BY <1>1, <1>2, <2>1, <2>2, <2>3
<1>7. ASSUME NEW e \in Evaluators, FetchAndEvaluate(e)
      PROVE  /\ RR(snapshot'[d]) /\ HH(unsaved'[d])
             /\ evalAt'[d] = "read" => DOMAIN snapshot'[d] # {}
  <2>1. H(unsaved'[e])
    BY <1>7, FetchIsSound
  <2>2. /\ evalAt' = [evalAt EXCEPT ![e] = "saving"]
        /\ snapshot' = [snapshot EXCEPT ![e] = <<>>]
        /\ \E y : unsaved' = [unsaved EXCEPT ![e] = y]
    BY <1>7 DEF FetchAndEvaluate
  <2>3. d # e => evalAt'[d] = evalAt[d] /\ snapshot'[d] = snapshot[d] /\ unsaved'[d] = unsaved[d]
    BY <1>2, <2>2
  <2>4. snapshot'[e] = <<>> /\ evalAt'[e] = "saving"
    BY <1>2, <2>2
  <2> HIDE DEF R, H, RR, HH
  <2> QED BY <1>1, <1>2, <1>4, <2>1, <2>3, <2>4
<1>8. ASSUME NEW e \in Evaluators, SaveOutcome(e)
      PROVE  /\ RR(snapshot'[d]) /\ HH(unsaved'[d])
             /\ evalAt'[d] = "read" => DOMAIN snapshot'[d] # {}
  <2> DEFINE s == OldestOf(DOMAIN unsaved[e])
             left == [q \in DOMAIN unsaved[e] \ {s} |-> unsaved[e][q]]
  <2>1. evalAt' = evalAt /\ snapshot' = snapshot /\ unsaved' = [unsaved EXCEPT ![e] = left]
    BY <1>8 DEF SaveOutcome
  <2>2. H(left)
    <3>1. H(unsaved[e])
      BY <1>2
    <3>2. DOMAIN left \subseteq DOMAIN unsaved[e] /\ \A q \in DOMAIN left : left[q] = unsaved[e][q]
      OBVIOUS
    <3> HIDE DEF left
    <3> QED BY <3>1, <3>2 DEF HeldSound
  <2> HIDE DEF left
  <2>3. unsaved'[e] = left /\ (d # e => unsaved'[d] = unsaved[d])
    BY <1>2, <2>1
  <2> HIDE DEF R, H, RR, HH
  <2> QED BY <1>1, <1>2, <2>1, <2>2, <2>3
<1>9. ASSUME NEW e \in Evaluators, EndEvaluation(e)
      PROVE  /\ RR(snapshot'[d]) /\ HH(unsaved'[d])
             /\ evalAt'[d] = "read" => DOMAIN snapshot'[d] # {}
  <2>2. /\ evalAt' = [evalAt EXCEPT ![e] = "idle"]
        /\ snapshot' = [snapshot EXCEPT ![e] = <<>>]
        /\ unsaved' = [unsaved EXCEPT ![e] = <<>>]
    BY <1>9 DEF EndEvaluation
  <2>3. d # e => evalAt'[d] = evalAt[d] /\ snapshot'[d] = snapshot[d] /\ unsaved'[d] = unsaved[d]
    BY <1>2, <2>2
  <2>4. snapshot'[e] = <<>> /\ unsaved'[e] = <<>> /\ evalAt'[e] = "idle"
    BY <1>2, <2>2
  <2> HIDE DEF R, H, RR, HH
  <2> QED BY <1>1, <1>2, <1>4, <2>3, <2>4
<1>10. \/ \E e \in Evaluators :
             SelectEligible(e) \/ FetchAndEvaluate(e) \/ SaveOutcome(e) \/ EndEvaluation(e)
       \/ UNCHANGED <<evalAt, snapshot, unsaved>>
  BY DEF ShadowNext, studyVars, StudyTick, ScanForStudy, PersistV1, PersistV2d, StartBackfill,
         BackfillCandle, BackfillSave
<1> HIDE DEF R, H, RR, HH
<1> QED BY <1>5, <1>6, <1>7, <1>8, <1>9, <1>10

-----------------------------------------------------------------------------
(* What the shadow studies store stays true in every reachable state,      *)
(* whoever scans, fills in or evaluates in between, whatever the exchange  *)
(* answers and wherever an evaluator dies.                                 *)
THEOREM ShadowInvariance == ShadowSpec => []StudyInv
<1>1. ShadowInit => StudyInv
  BY StudyInit
<1>2. StudyInv /\ [ShadowNext]_studyVars => StudyInv'
  <2> SUFFICES ASSUME StudyInv, [ShadowNext]_studyVars PROVE StudyInv'
    OBVIOUS
  <2>1. ShadowNext \/ UNCHANGED studyVars
    OBVIOUS
  <2>2. StudyTyped'
    BY <2>1, TypedStep
  <2>3. SignalsSound'
    BY <2>1, SignalsStep
  <2>4. OutcomesSound'
    BY <2>1, OutcomesStep
  <2>5. EvaluationsSound'
    BY <2>1, EvaluationsStep
  <2> QED BY <2>2, <2>3, <2>4, <2>5 DEF StudyInv
<1> QED BY <1>1, <1>2, PTL DEF ShadowSpec

(* The parts of ShadowSafe that are about a state.                         *)
LEMMA ShadowFollows ==
    ASSUME StudyInv
    PROVE  ShadowTypeOK /\ MarksAreProven /\ VerdictsAreProven /\ SignalsAreClosed
<1> USE DEF StudyInv
<1>1. \A s \in DOMAIN outcomes : RowTrue(outcomes[s], study, s, studyTime, Labels)
  BY DEF OutcomesSound
<1>2. ShadowTypeOK
  <2>1. \A s \in DOMAIN outcomes : outcomes[s].marked \subseteq Labels
    BY <1>1 DEF RowTrue, UpdateTrue
  <2>2. /\ study \in {"V1", "V2D"} /\ studyTime \in 0..MaxStudyTime
        /\ scanned \in Grid \union {NoBar} /\ checked \in Grid \union {NoBar} /\ filling \subseteq Grid
        /\ evalAt \in [Evaluators -> {"idle", "read", "saving"}]
    BY DEF StudyTyped
  <2>3. DOMAIN signals \subseteq Grid /\ DOMAIN outcomes \subseteq DOMAIN signals
        /\ \A s \in DOMAIN signals : signals[s] \in [by : {"scan", "fill"}, strict : BOOLEAN]
    BY DEF SignalsSound, OutcomesSound
  <2> QED BY <2>1, <2>2, <2>3 DEF ShadowTypeOK
<1>3. MarksAreProven
  BY <1>1 DEF MarksAreProven, RowTrue, UpdateTrue, MarkTrue
<1>4. VerdictsAreProven
  <2> SUFFICES ASSUME NEW s \in DOMAIN outcomes, outcomes[s].final
               PROVE  /\ outcomes[s].marked = Labels
                      /\ IF study = "V1" THEN outcomes[s].verdict = Path(s, EndOfDay(s))
                         ELSE \E end \in 0..studyTime : outcomes[s].verdict = Path(s, end)
    BY DEF VerdictsAreProven, Path
  <2> QED BY <1>1 DEF RowTrue, UpdateTrue, VerdictTrue
<1> QED BY <1>2, <1>3, <1>4 DEF SignalsSound

(* ShadowSafe: an answer of the exchange with a hole, a duplicate, an      *)
(* unsound or an unordered candle writes no mark and finalises nothing,    *)
(* and two evaluators on the same rows rewrite nothing that is recorded.   *)
THEOREM ShadowSafety == ShadowSpec => ShadowSafe
<1>1. StudyInv => ShadowTypeOK /\ MarksAreProven /\ VerdictsAreProven /\ SignalsAreClosed
  BY ShadowFollows
<1>2. StudyInv /\ [ShadowNext]_studyVars => [ShadowRowsFrozen]_studyVars
  <2> SUFFICES ASSUME StudyInv, [ShadowNext]_studyVars PROVE ShadowRowsFrozen
    OBVIOUS
  <2> QED BY OutcomesStep
<1> QED BY <1>1, <1>2, ShadowInvariance, PTL DEF ShadowSpec, ShadowSafe
=============================================================================

--------------------------- MODULE ResearchFindings ---------------------------
(***************************************************************************)
(* The registry of research findings (app/analytics/agents/research): the  *)
(* adapter that reads candidates out of an agent's result, the ingestion   *)
(* service that merges them into findings by fingerprint, the repeat       *)
(* policy that promotes a finding, and the status updates of the other     *)
(* research entities.                                                      *)
(*                                                                         *)
(* Ingestions run in transactions of their own at READ COMMITTED.  Where   *)
(* one statement waits for another transaction (a unique index, a row that *)
(* is being updated) the step is disabled until that transaction ends.     *)
(* From the UPDATE of the aggregate to COMMIT the finding's row is locked, *)
(* so these statements are one step; what the UPDATE counts is what its    *)
(* own snapshot saw, and that is a step of its own.                        *)
(***************************************************************************)
EXTENDS Integers, Sequences, FiniteSets, SequencesExt

CONSTANTS
    Ingesters,     \* the processes that ingest, one connection each
    Results,       \* the agent result each of them was given
    Fingerprints,  \* the fingerprints findings are merged by
    Canonical,     \* the fingerprint of each spelling of type, scanner, metric...
    RepeatMin,     \* repeated_min_independent_occurrences
    ResearchMin,   \* research_required_min_occurrences
    DatesMin,      \* min_distinct_business_dates
    Operators,     \* callers of the status updates
    MaxUpdates,    \* bound: creations and status updates by operators
    MaxReplays     \* bound: batches that are ingested again

ASSUME FindingThresholds == {RepeatMin, ResearchMin, DatesMin} \subseteq Nat

(* A result holds a finite list of items; a fingerprint is a hash, never   *)
(* the name of an entity; no operator signs as the policy does.            *)
ASSUME FindingNames ==
    /\ \A i \in Ingesters : IsFiniteSet(DOMAIN Results[i].items)
    /\ Fingerprints \cap {"NONE", "hypothesis", "experiment", "experiment_run",
                          "change_candidate"} = {}
    /\ "repeat_policy" \notin Operators

VARIABLES
    status,     \* the status column of every finding and entity; NONE: no row
    aggregate,  \* occurrence_count and evidence_summary of each finding
    occurred,   \* the committed rows of finding_occurrence
    history,    \* transition_history, per entity
    tx,         \* what each ingester is doing
    form,       \* what each operator has read and validated
    updates,    \* operations of the operators so far
    replays     \* batches ingested again so far

findingVars == <<status, aggregate, occurred, history, tx, form, updates, replays>>

NONE == "NONE"

NoRef == 0

BlankForm == [entity |-> NONE, from |-> NONE, to |-> NONE]

(***************************************************************************)
(* Lifecycles.                                                             *)
(***************************************************************************)
FindingTransitions ==
    [OPEN              |-> {"REPEATED", "CLOSED"},
     REPEATED          |-> {"RESEARCH_REQUIRED", "CLOSED"},
     RESEARCH_REQUIRED |-> {"CLOSED"}]

HypothesisTransitions ==
    [DRAFT               |-> {"RESEARCH_REQUIRED", "REJECTED"},
     RESEARCH_REQUIRED   |-> {"EXPERIMENT_DESIGNED", "REJECTED"},
     EXPERIMENT_DESIGNED |-> {"BACKTESTING", "REJECTED"},
     BACKTESTING         |-> {"OOS_VALIDATION", "REJECTED", "INCONCLUSIVE"},
     OOS_VALIDATION      |-> {"VALIDATED", "REJECTED", "INCONCLUSIVE"}]

ExperimentTransitions ==
    [PROPOSED |-> {"FROZEN", "CANCELLED"},
     FROZEN   |-> {"RUNNING", "CANCELLED"},
     RUNNING  |-> {"COMPLETED", "CANCELLED"}]

ExperimentRunTransitions ==
    [PENDING |-> {"RUNNING", "FAILED"},
     RUNNING |-> {"COMPLETED", "FAILED"}]

ChangeCandidateTransitions ==
    [PROPOSED |-> {"APPROVED", "REJECTED"},
     APPROVED |-> {"IMPLEMENTED"}]

EntityKinds == {"hypothesis", "experiment", "experiment_run", "change_candidate"}

Transitions(e) ==
    CASE e = "hypothesis"       -> HypothesisTransitions
      [] e = "experiment"       -> ExperimentTransitions
      [] e = "experiment_run"   -> ExperimentRunTransitions
      [] e = "change_candidate" -> ChangeCandidateTransitions
      [] OTHER                  -> FindingTransitions

(* ResearchTransitionPolicyV1.validate: a status without an entry is       *)
(* terminal.                                                               *)
Legal(e, from, to) ==
    /\ from \in DOMAIN Transitions(e)
    /\ to \in Transitions(e)[from]

(***************************************************************************)
(* From an agent's result to candidates.                                   *)
(***************************************************************************)
(* _extract_single: an item may not name another run, may only cite        *)
(* validated evidence and a validated metric, and must be complete.        *)
Extracted(result, item) ==
    /\ item.itemRun \in {NoRef, result.run}
    /\ item.refs # {} /\ item.refs \subseteq result.evidence
    /\ item.metric \in result.metrics
    /\ item.complete

(* extract_candidates: an unknown schema, no evidence or no metric refuses *)
(* the whole result; what is extracted stays in its order.                 *)
Batch(i) ==
    LET result   == Results[i]
        items    == result.items
        kept     == {k \in DOMAIN items : Extracted(result, items[k])}
        place(k) == Cardinality({j \in kept : j <= k})
    IN IF result.schema /\ result.evidence # {} /\ result.metrics # {}
       THEN [n \in 1..Cardinality(kept) |-> items[CHOOSE k \in kept : place(k) = n]]
       ELSE <<>>

(* FindingFingerprintV1.compute over the normalised fields: spellings that *)
(* differ in case, blanks or the order of keys have one hash.              *)
Hash(c) == Canonical[c.spelling]

(* _build_fingerprint_payload: a type, scanner, metric or comparator that  *)
(* the normalisers do not know.                                            *)
Normalises(c) == Hash(c) \in Fingerprints

(* What ingest_candidate refuses with a ValueError or answers with         *)
(* SKIPPED_INVALID before it opens a transaction.                          *)
Ingestible(c) == c.versioned /\ Normalises(c)

Occurrence(i, c) ==
    [fp |-> Hash(c), run |-> Results[i].run, date |-> c.date, strong |-> c.strong,
     refs |-> c.refs]

(***************************************************************************)
(* FindingRepeatPolicyV1.                                                  *)
(***************************************************************************)
Qualifying(rows) == {o \in rows : o.strong}

Dates(rows) == {o.date : o \in rows} \ {NoRef}

IndependentByRun(rows) == Cardinality(Qualifying(rows))

(* One observation per business date, and per run without a date.          *)
Independent(rows) ==
    Cardinality(Dates(Qualifying(rows)))
      + Cardinality({o.run : o \in {q \in Qualifying(rows) : q.date = NoRef}})

PromotionDisabled == RepeatMin = 0 /\ ResearchMin = 0 /\ DatesMin = 0

(* The status the policy wants, given the status the finding had when the  *)
(* ingestion first read it; NONE for no change.                            *)
PolicyTarget(rows, seen) ==
    CASE PromotionDisabled -> NONE
      [] ~PromotionDisabled /\ seen = "OPEN" /\ RepeatMin > 0
           /\ Independent(rows) >= RepeatMin -> "REPEATED"
      [] ~PromotionDisabled /\ seen = "REPEATED" /\ ResearchMin > 0 /\ DatesMin > 0
           /\ Independent(rows) >= ResearchMin
           /\ Cardinality(Dates(Qualifying(rows))) >= DatesMin -> "RESEARCH_REQUIRED"
      [] OTHER -> NONE

(***************************************************************************)
(* Ingestion.                                                              *)
(***************************************************************************)
Waiting(todo) ==
    [at |-> "idle", todo |-> todo, seen |-> NONE, made |-> FALSE, own |-> {},
     counted |-> 0]

FindingsInit ==
    /\ status = [e \in Fingerprints \cup EntityKinds |-> NONE]
    /\ aggregate = [f \in Fingerprints |-> [count |-> 0, evidence |-> {}]]
    /\ occurred = {}
    /\ history = [e \in Fingerprints \cup EntityKinds |-> <<>>]
    /\ tx = [i \in Ingesters |-> Waiting(Batch(i))]
    /\ form = [o \in Operators |-> BlankForm]
    /\ updates = 0
    /\ replays = 0

Candidate(i) == Head(tx[i].todo)

Others(i) == Ingesters \ {i}

(* ingest_batch: a refused candidate is counted and the batch goes on.     *)
Skip(i) ==
    /\ tx[i].at = "idle" /\ tx[i].todo # <<>> /\ ~Ingestible(Candidate(i))
    /\ tx' = [tx EXCEPT ![i].todo = Tail(@)]
    /\ UNCHANGED <<status, aggregate, occurred, history, form, updates, replays>>

(* BEGIN and get_finding_by_fingerprint.                                   *)
Lookup(i) ==
    /\ tx[i].at = "idle" /\ tx[i].todo # <<>> /\ Ingestible(Candidate(i))
    /\ LET found == status[Hash(Candidate(i))] IN
       tx' = [tx EXCEPT ![i].at = IF found = NONE THEN "insert" ELSE "occurrence",
                        ![i].seen = found]
    /\ UNCHANGED <<status, aggregate, occurred, history, form, updates, replays>>

(* The row cannot be stored: after ROLLBACK the RELEASE SAVEPOINT of the   *)
(* finally clause fails too, and that error stops the batch.               *)
Raised(i) == [tx EXCEPT ![i] = [Waiting(@.todo) EXCEPT !.at = "raised"]]

(* SAVEPOINT and create_finding_with_fingerprint.  The unique index makes  *)
(* the INSERT wait for another transaction's row; when that one committed, *)
(* the savepoint is rolled back and the finding read again.                *)
InsertFinding(i) ==
    LET c == Candidate(i) IN
    /\ tx[i].at = "insert"
    /\ \A j \in Others(i) : tx[j].made => Hash(Candidate(j)) # Hash(c)
    /\ \/ /\ status[Hash(c)] # NONE
          /\ tx' = [tx EXCEPT ![i].at = "occurrence", ![i].seen = status[Hash(c)]]
       \/ /\ status[Hash(c)] = NONE /\ c.storable
          /\ tx' = [tx EXCEPT ![i].at = "occurrence", ![i].seen = "OPEN", ![i].made = TRUE]
       \/ /\ status[Hash(c)] = NONE /\ ~c.storable
          /\ tx' = Raised(i)
    /\ UNCHANGED <<status, aggregate, occurred, history, form, updates, replays>>

SameKey(o, p) == o.fp = p.fp /\ o.run = p.run

(* create_occurrence_if_absent: ON CONFLICT (finding_id, analysis_run_id)  *)
(* DO NOTHING waits for another transaction's row of the same key.         *)
CreateOccurrence(i) ==
    LET o == Occurrence(i, Candidate(i)) IN
    /\ tx[i].at = "occurrence"
    /\ \A p \in UNION {tx[j].own : j \in Others(i)} : ~SameKey(o, p)
    /\ tx' = IF ~Candidate(i).storable THEN Raised(i)
             ELSE [tx EXCEPT ![i].at = "count",
                             ![i].own = IF \E p \in occurred : SameKey(o, p) THEN {} ELSE {o}]
    /\ UNCHANGED <<status, aggregate, occurred, history, form, updates, replays>>

OfFinding(rows, f) == {o \in rows : o.fp = f}

(* The UPDATE of the aggregate starts: its subquery counts what its        *)
(* snapshot shows, and keeps that number while it waits for the row.       *)
CountOccurrences(i) ==
    /\ tx[i].at = "count"
    /\ tx' = [tx EXCEPT ![i].at = "settle",
                        ![i].counted = Cardinality(OfFinding(occurred \cup tx[i].own,
                                                             Hash(Candidate(i))))]
    /\ UNCHANGED <<status, aggregate, occurred, history, form, updates, replays>>

(* The row is updated, the evidence collected, the policy evaluated with   *)
(* the status read at the beginning, its transition validated against the  *)
(* status of now (an illegal one is logged and dropped), and COMMIT.       *)
Settle(i) ==
    LET f    == Hash(Candidate(i))
        rows == OfFinding(occurred \cup tx[i].own, f)
        now  == IF tx[i].made THEN "OPEN" ELSE status[f]
        want == PolicyTarget(rows, tx[i].seen)
        move == want # NONE /\ Legal(f, now, want)
    IN
    /\ tx[i].at = "settle"
    /\ occurred' = occurred \cup tx[i].own
    /\ aggregate' = [aggregate EXCEPT ![f] = [count    |-> tx[i].counted,
                                             evidence |-> UNION {o.refs : o \in rows}]]
    /\ status' = [status EXCEPT ![f] = IF move THEN want ELSE now]
    /\ history' = IF move
                  THEN [history EXCEPT ![f] = Append(@, [from |-> now, to |-> want,
                                                        by |-> "repeat_policy"])]
                  ELSE history
    /\ tx' = [tx EXCEPT ![i] = Waiting(Tail(@.todo))]
    /\ UNCHANGED <<form, updates, replays>>

(* A statement or COMMIT fails, or the process dies: everything is rolled  *)
(* back and the error stops the batch.                                     *)
Fail(i) ==
    /\ tx[i].at \notin {"idle", "raised"}
    /\ tx' = Raised(i)
    /\ UNCHANGED <<status, aggregate, occurred, history, form, updates, replays>>

(* The same result is ingested again.                                      *)
Replay(i) ==
    /\ replays < MaxReplays
    /\ tx[i].at = "raised" \/ tx[i].todo = <<>>
    /\ tx' = [tx EXCEPT ![i] = Waiting(Batch(i))]
    /\ replays' = replays + 1
    /\ UNCHANGED <<status, aggregate, occurred, history, form, updates>>

(***************************************************************************)
(* Entities and their status updates.                                      *)
(***************************************************************************)
Create(e, initial) ==
    /\ updates < MaxUpdates /\ status[e] = NONE
    /\ status' = [status EXCEPT ![e] = initial]
    /\ updates' = updates + 1
    /\ UNCHANGED <<aggregate, occurred, history, tx, form, replays>>

CreateHypothesis == Create("hypothesis", "DRAFT")

CreateExperiment == Create("experiment", "PROPOSED")

(* experiment_run.experiment_id is a foreign key that may not be NULL.     *)
CreateExperimentRun ==
    /\ status["experiment"] # NONE
    /\ Create("experiment_run", "PENDING")

CreateChangeCandidate == Create("change_candidate", "PROPOSED")

(* The SELECT of the status, without FOR UPDATE, and the validation.       *)
ReadStatus(o, e, to) ==
    /\ updates < MaxUpdates /\ form[o] = BlankForm
    /\ Legal(e, status[e], to)
    /\ form' = [form EXCEPT ![o] = [entity |-> e, from |-> status[e], to |-> to]]
    /\ updates' = updates + 1
    /\ UNCHANGED <<status, aggregate, occurred, history, tx, replays>>

UpdateFindingStatus(o) ==
    \E f \in Fingerprints, to \in {"REPEATED", "RESEARCH_REQUIRED", "CLOSED"} :
        ReadStatus(o, f, to)

UpdateHypothesisStatus(o) ==
    \E to \in UNION {HypothesisTransitions[s] : s \in DOMAIN HypothesisTransitions} :
        ReadStatus(o, "hypothesis", to)

UpdateExperimentStatus(o) ==
    \E to \in UNION {ExperimentTransitions[s] : s \in DOMAIN ExperimentTransitions} :
        ReadStatus(o, "experiment", to)

UpdateExperimentRunStatus(o) ==
    \E to \in UNION {ExperimentRunTransitions[s] : s \in DOMAIN ExperimentRunTransitions} :
        ReadStatus(o, "experiment_run", to)

UpdateChangeCandidateStatus(o) ==
    \E to \in UNION {ChangeCandidateTransitions[s] : s \in DOMAIN ChangeCandidateTransitions} :
        ReadStatus(o, "change_candidate", to)

(* The UPDATE by primary key alone, the row of the history and the commit. *)
WriteStatus(o) ==
    /\ form[o] # BlankForm
    /\ status' = [status EXCEPT ![form[o].entity] = form[o].to]
    /\ history' = [history EXCEPT ![form[o].entity] =
                       Append(@, [from |-> form[o].from, to |-> form[o].to, by |-> o])]
    /\ form' = [form EXCEPT ![o] = BlankForm]
    /\ UNCHANGED <<aggregate, occurred, tx, updates, replays>>

FindingsNext ==
    \/ \E i \in Ingesters : \/ Skip(i) \/ Lookup(i) \/ InsertFinding(i)
                            \/ CreateOccurrence(i) \/ CountOccurrences(i)
                            \/ Settle(i) \/ Fail(i) \/ Replay(i)
    \/ CreateHypothesis \/ CreateExperiment \/ CreateExperimentRun
    \/ CreateChangeCandidate
    \/ \E o \in Operators : \/ UpdateFindingStatus(o) \/ UpdateHypothesisStatus(o)
                            \/ UpdateExperimentStatus(o)
                            \/ UpdateExperimentRunStatus(o)
                            \/ UpdateChangeCandidateStatus(o)
                            \/ WriteStatus(o)

FindingsSpec == FindingsInit /\ [][FindingsNext]_findingVars

(***************************************************************************)
(* Properties.                                                             *)
(***************************************************************************)
(* Replays and concurrent ingestions of one run leave one occurrence, and  *)
(* no candidate the batch went past is missing.                            *)
OccurrencesAreExact ==
    /\ \A o, p \in occurred : SameKey(o, p) => o = p
    /\ \A i \in Ingesters : \A k \in 1..(Len(Batch(i)) - Len(tx[i].todo)) :
           Ingestible(Batch(i)[k]) =>
               \E p \in occurred : SameKey(Occurrence(i, Batch(i)[k]), p)

(* evidence_summary is the evidence of all occurrences, and the count of a *)
(* finding, which may be stale, never exceeds them.                        *)
AggregatesAreSound ==
    \A f \in Fingerprints :
        LET rows == OfFinding(occurred, f) IN
        /\ aggregate[f].evidence = UNION {o.refs : o \in rows}
        /\ aggregate[f].count <= Cardinality(rows)
        /\ status[f] = NONE <=> rows = {}

(* What the policy promoted has been observed with sufficient confidence   *)
(* on enough different days, whatever was replayed in between.             *)
PromotionsAreEarned ==
    \A f \in Fingerprints : \A k \in 1..Len(history[f]) :
        LET strong == {o \in occurred : o.fp = f /\ o.strong}
            days   == {o.date : o \in strong} \ {NoRef}
            loose  == {o.run : o \in {p \in strong : p.date = NoRef}}
        IN history[f][k].by = "repeat_policy" =>
               /\ Cardinality(days) + Cardinality(loose) >=
                      (IF history[f][k].to = "REPEATED" THEN RepeatMin ELSE ResearchMin)
               /\ history[f][k].to = "RESEARCH_REQUIRED" => Cardinality(days) >= DatesMin

(* The status of an entity is where its history ends, and the history      *)
(* holds legal transitions only.                                           *)
HistoryExplainsStatus ==
    \A e \in DOMAIN history :
        /\ history[e] # <<>> => Last(history[e]).to = status[e]
        /\ \A k \in 1..Len(history[e]) : Legal(e, history[e][k].from, history[e][k].to)

(* The policy leaves the status it replaced by a legal transition: a stale *)
(* reading at the start of the ingestion never reopens a closed finding.   *)
PolicyMovesLegally ==
    \A f \in Fingerprints :
        (Len(history'[f]) > Len(history[f]) /\ Last(history'[f]).by = "repeat_policy") =>
            Last(history'[f]).from = (IF status[f] = NONE THEN "OPEN" ELSE status[f])

(* The registry through every interleaving of two ingestions, failures,    *)
(* replays and an operator's updates (ingestion.py 90-214, repository.py   *)
(* 117-150, 1065-1311).                                                    *)
FindingsSafe ==
    /\ [](OccurrencesAreExact /\ AggregatesAreSound /\ PromotionsAreEarned
          /\ HistoryExplainsStatus)
    /\ [][PolicyMovesLegally]_findingVars

(* repository.py 1260: the aggregate is refreshed "after inserting a new   *)
(* occurrence to keep aggregates current".                                 *)
CountIsCurrent ==
    (\A i \in Ingesters : tx[i].at \in {"idle", "raised"}) =>
        \A f \in Fingerprints : aggregate[f].count = Cardinality(OfFinding(occurred, f))

=============================================================================

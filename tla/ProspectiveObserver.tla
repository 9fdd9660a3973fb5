------------------------- MODULE ProspectiveObserver -------------------------
(***************************************************************************)
(* ProspectiveOOSObserver.observe (app/research/prospective_observer.py)   *)
(* as the scanner process calls it: for one candidate it walks over the    *)
(* registered experiments, inserts one research.prospective_observation    *)
(* row each and commits at the end.  The completed-event repository        *)
(* (prospective_completed_event_repository.py) commits in the middle of    *)
(* that walk, on the same connection; the promotion to research_signal     *)
(* (ResearchRepository.promote_prospective_to_signal) runs on another one. *)
(*                                                                         *)
(* Experiments differ in how they identify a candidate and in when they    *)
(* look at the experiment's status in the database:                        *)
(*   "generic"  key from Python's hash(), which every process seeds anew;  *)
(*              the status is read once and cached by the process          *)
(*   "htf"      key from a digest; status read for every candidate; the    *)
(*              completed event is frozen first                            *)
(*   "v3"       key from a digest; status read for every candidate and     *)
(*              again, FOR SHARE, in the statement before the insert       *)
(***************************************************************************)
EXTENDS Naturals, Sequences, FiniteSets

CONSTANTS
    Registry,     \* the experiments that match the scanner, in order
    ExpKind,      \* kind of each experiment
    Cands,        \* candidates that may be observed
    MaxProcesses  \* scanner processes, one after the other

Experiments == {Registry[i] : i \in DOMAIN Registry}

ASSUME ObserverConstants ==
    /\ IsFiniteSet(Cands)
    /\ Registry \in Seq(Experiments)
    /\ ExpKind \in [Experiments -> {"generic", "htf", "v3"}]
    /\ MaxProcesses \in Nat \ {0}

VARIABLES
    expOpen,   \* experiments whose row is not closed
    cache,     \* _active_cache: what the process remembers
    process,   \* which scanner process is running
    opc,       \* "idle", "check" or "insert"
    cand,      \* the candidate of the current call
    idx,       \* position in the registry
    observed,  \* committed research.prospective_observation rows
    inserted,  \* rows inserted in the open transaction
    txn,       \* "ok", "failed": a statement failed and was swallowed
    shared,    \* experiments whose row the transaction holds FOR SHARE
    frozen,    \* committed completed events
    signals,   \* research_signal rows that promote an observation
    ids,       \* observation_ids of the call
    faulty     \* history: a statement failed during the call

observerVars == <<expOpen, cache, process, opc, cand, idx, observed, inserted, txn,
                  shared, frozen, signals, ids, faulty>>

Keys == 0..MaxProcesses
Observation == Experiments \X Cands \X Keys

(* _make_source_key depends on the process, _make_htf_source_key and       *)
(* v3_source_key do not.                                                   *)
SourceKey(e) == IF ExpKind[e] = "generic" THEN process ELSE 0

(* The type invariant.                                                     *)
ObserverTypeOK ==
    /\ expOpen \subseteq Experiments
    /\ cache \in [Experiments -> {"unknown", "active", "closed"}]
    /\ process \in Keys
    /\ opc \in {"idle", "check", "insert"}
    /\ cand \in Cands
    /\ idx \in 1..(Len(Registry) + 1)
    /\ observed \subseteq Observation /\ inserted \subseteq Observation
    /\ txn \in {"ok", "failed"}
    /\ shared \subseteq Experiments
    /\ frozen \subseteq Cands
    /\ signals \subseteq Observation /\ ids \subseteq Observation
    /\ faulty \in BOOLEAN

ObserverInit ==
    /\ expOpen = Experiments
    /\ cache = [e \in Experiments |-> "unknown"]
    /\ process = 1 /\ opc = "idle" /\ cand \in Cands /\ idx = 1
    /\ observed = {} /\ inserted = {} /\ txn = "ok" /\ shared = {}
    /\ frozen = {} /\ signals = {} /\ ids = {} /\ faulty = FALSE

CurrentExp == Registry[idx]
Walking == opc # "idle" /\ idx <= Len(Registry)
ObserveCall == <<cand, ids, faulty>>

-----------------------------------------------------------------------------
(* A new scanner process: the caches, and the open transaction, are gone.  *)
NewProcess ==
    /\ process < MaxProcesses
    /\ process' = process + 1
    /\ cache' = [e \in Experiments |-> "unknown"]
    /\ opc' = "idle" /\ idx' = 1
    /\ inserted' = {} /\ txn' = "ok" /\ shared' = {} /\ ids' = {} /\ faulty' = FALSE
    /\ UNCHANGED <<expOpen, cand, observed, frozen, signals>>

(* An operator closes an experiment; the row must not be locked.           *)
CloseExperiment(e) ==
    /\ e \in expOpen /\ e \notin shared
    /\ expOpen' = expOpen \ {e}
    /\ UNCHANGED <<cache, process, opc, idx, observed, inserted, txn, shared, frozen,
                   signals, ObserveCall>>

(* The scanner calls observe().  It may do so more than once for a         *)
(* candidate: the observe-only loop and the loop over the candidates that  *)
(* the expectancy filter rejected have members in common.                  *)
BeginObserve(c) ==
    /\ opc = "idle"
    /\ opc' = "check" /\ cand' = c /\ idx' = 1
    /\ ids' = {} /\ faulty' = FALSE
    /\ UNCHANGED <<expOpen, cache, process, observed, inserted, txn, shared, frozen, signals>>

(* _is_db_active.  A cached answer is not asked for again; a failing       *)
(* SELECT is swallowed and counts as active, and is not cached.            *)
ObserveAnswers(e) ==
    IF ExpKind[e] = "generic" /\ cache[e] # "unknown" THEN {cache[e]}
    ELSE IF txn = "failed" THEN {"swallowed"}
    ELSE {IF e \in expOpen THEN "active" ELSE "closed", "swallowed"}

Skip == opc' = "check" /\ idx' = idx + 1

(* The checks of one experiment.  _is_htf_db_activation_ready treats a     *)
(* failing SELECT as not ready, which is a skip too.                       *)
CheckExperiment ==
    /\ Walking /\ opc = "check"
    /\ \E a \in ObserveAnswers(CurrentExp) :
         /\ cache' = IF a = "swallowed" THEN cache ELSE [cache EXCEPT ![CurrentExp] = a]
         /\ txn' = IF a = "swallowed" THEN "failed" ELSE txn
         /\ faulty' = (faulty \/ a = "swallowed")
         /\ IF a = "closed" \/ (a = "swallowed" /\ ExpKind[CurrentExp] # "generic")
            THEN Skip
            ELSE opc' = "insert" /\ idx' = idx
    /\ UNCHANGED <<expOpen, process, observed, inserted, shared, frozen, signals, cand, ids>>

ObservedRow == <<CurrentExp, cand, SourceKey(CurrentExp)>>

(* ON CONFLICT (experiment_id, source_signal_id) DO NOTHING RETURNING      *)
NewRows(seen) == {ObservedRow} \ seen

(* The SELECT ... FOR SHARE of _observe_me_reverse_long_v3.                *)
StillOpen(e) == ExpKind[e] # "v3" \/ e \in expOpen

(* The insert, and _promote_observation for a new row: its session sees    *)
(* committed observations only.                                            *)
Insert(before) ==
    LET new == IF StillOpen(CurrentExp) THEN NewRows(observed \union before) ELSE {}
    IN /\ inserted' = before \union new
       /\ ids' = ids \union new
       /\ signals' = signals \union (new \cap observed)
       /\ shared' = IF ExpKind[CurrentExp] = "v3" /\ StillOpen(CurrentExp)
                    THEN shared \union {CurrentExp} ELSE shared

InsertPlain ==
    /\ Walking /\ opc = "insert" /\ txn = "ok" /\ ExpKind[CurrentExp] # "htf"
    /\ Insert(inserted)
    /\ Skip
    /\ UNCHANGED <<expOpen, cache, process, observed, txn, frozen, cand, faulty>>

(* Mutant: the observation is committed with the event it is made from.    *)
FreezeEventLater == frozen

(* freeze_completed_event inserts the event or finds it, and commits: with *)
(* it whatever the call has inserted so far.                               *)
FreezeEvent == frozen \union {cand}

InsertFrozen ==
    /\ Walking /\ opc = "insert" /\ txn = "ok" /\ ExpKind[CurrentExp] = "htf"
    /\ frozen' = FreezeEvent
    /\ observed' = observed \union inserted
    /\ LET new == {ObservedRow} \ (observed \union inserted)
       IN /\ inserted' = new
          /\ ids' = ids \union new
          /\ signals' = signals \union (new \cap observed)
    /\ shared' = {}
    /\ Skip
    /\ UNCHANGED <<expOpen, cache, process, txn, cand, faulty>>

(* freeze_completed_event fails: it rolls everything back and raises, the  *)
(* observer logs that and goes on with the next experiment.                *)
FreezeFails ==
    /\ Walking /\ opc = "insert" /\ ExpKind[CurrentExp] = "htf"
    /\ inserted' = {} /\ txn' = "ok" /\ shared' = {} /\ faulty' = TRUE
    /\ Skip
    /\ UNCHANGED <<expOpen, cache, process, observed, frozen, signals, cand, ids>>

(* An insert that raises, as each does in a failed transaction, ends the   *)
(* call; the ids collected so far are returned all the same.               *)
InsertFails ==
    /\ Walking /\ opc = "insert" /\ ExpKind[CurrentExp] # "htf"
    /\ inserted' = {} /\ txn' = "ok" /\ shared' = {} /\ faulty' = TRUE
    /\ opc' = "idle" /\ idx' = 1
    /\ UNCHANGED <<expOpen, cache, process, observed, frozen, signals, cand, ids>>

(* The commit at the end.  Committing a failed transaction rolls it back   *)
(* without an error.                                                       *)
CommitCall ==
    /\ opc = "check" /\ idx > Len(Registry)
    /\ observed' = IF txn = "ok" THEN observed \union inserted ELSE observed
    /\ inserted' = {} /\ txn' = "ok" /\ shared' = {}
    /\ opc' = "idle" /\ idx' = 1
    /\ UNCHANGED <<expOpen, cache, process, frozen, signals, ObserveCall>>

ObserverNext ==
    \/ NewProcess \/ CheckExperiment \/ InsertPlain \/ InsertFrozen \/ FreezeFails
    \/ InsertFails \/ CommitCall
    \/ \E c \in Cands : BeginObserve(c)
    \/ \E e \in Experiments : CloseExperiment(e)

ObserverSpec == ObserverInit /\ [][ObserverNext]_observerVars

-----------------------------------------------------------------------------
RowsOf(e, c) == {r \in observed : r[1] = e /\ r[2] = c}

(* A candidate is recorded once per experiment: over restarts and retries  *)
(* where the key is a digest, and within one process where it is not, even *)
(* though one cycle observes some candidates twice.                        *)
RecordedOnce ==
    \A e \in Experiments, c \in Cands :
        /\ ExpKind[e] # "generic" => Cardinality(RowsOf(e, c)) <= 1
        /\ \A k \in Keys : Cardinality({r \in RowsOf(e, c) : r[3] = k}) <= 1

(* An HTF observation is never committed without the immutable event it    *)
(* was made from, wherever the call is interrupted.                        *)
BackedByEvent ==
    \A r \in observed : ExpKind[r[1]] = "htf" => r[2] \in frozen

(* Closing a v3 experiment is final: the check FOR SHARE and the insert    *)
(* are one transaction, so no observation of it is committed afterwards,   *)
(* although the experiment was open when the walk looked at it first.      *)
ClosedIsSilent ==
    [][\A r \in observed' \ observed : ExpKind[r[1]] = "v3" => r[1] \in expOpen]_observerVars

(* The ids that observe() returns name committed rows, unless a statement  *)
(* failed during the call: the fill-feasibility capture is made for them   *)
(* on the same connection.                                                 *)
ReturnedIdsExist == opc = "idle" /\ ~faulty => ids \subseteq observed

(* Observations are recorded once, with their event, and only for open     *)
(* experiments.                                                            *)
ObserverSafe ==
    /\ [](ObserverTypeOK /\ RecordedOnce /\ BackedByEvent /\ ReturnedIdsExist)
    /\ ClosedIsSilent
=============================================================================

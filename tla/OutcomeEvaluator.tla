-------------------------- MODULE OutcomeEvaluator ---------------------------
(***************************************************************************)
(* The evaluators that fill in, horizon by horizon, what a recorded signal *)
(* came to.  Three programs share one shape:                               *)
(*   "research"     ResearchEvaluator (app/research/evaluator.py)          *)
(*   "prospective"  ProspectiveOOSEvaluator (prospective_evaluator.py)     *)
(*   "oos"          MERLongCLoOosEvaluator (app/shadow), whose repository  *)
(*                  locks the row and keeps what is there                  *)
(* The first two run in the service evaluator_runner.py and, by hand, in a *)
(* second process (--once); nothing keeps the two apart.  A process reads  *)
(* the rows that are due, then fetches candles, then writes: what it read  *)
(* may be old by then.                                                     *)
(*                                                                         *)
(* Time is counted from the signals, in horizons: horizon h is mature when *)
(* now >= h.  Candles end anywhere between the signal and now.             *)
(***************************************************************************)
EXTENDS Naturals, FiniteSets

CONSTANTS
    SignalRows,   \* signals that may have been recorded
    Loads,      \* the sets of them to start from
    RowKind,    \* the program that evaluates each of them
    Hold,       \* _frozen_max_hold; 240 minutes, the last horizon, for the others
    LastHorizon,
    MaxNow,     \* bounds the clock
    Evaluators  \* processes

Horizons == 1..LastHorizon

ASSUME EvaluatorConstants ==
    /\ Loads \subseteq SUBSET SignalRows
    /\ LastHorizon \in Nat \ {0} /\ MaxNow \in Nat
    /\ RowKind \in [SignalRows -> {"research", "prospective", "oos"}]
    /\ Hold \in [SignalRows -> Nat \ {0}]
    /\ \A r \in SignalRows : RowKind[r] # "prospective" => Hold[r] = LastHorizon

VARIABLES
    recorded,    \* the rows of the tables
    evalNow,
    rowAt,       \* evaluated_<h>_at of each row, 0 for NULL
    final,       \* rows with is_final
    closedDir,   \* rows whose direction has been closed for the experiment
    epc,         \* "idle" or "working"
    asOf,        \* the time the process read the rows
    rowsLeft,    \* rows it read and has not evaluated yet
    known,       \* the horizons it saw evaluated
    evalSession  \* "ok" or "failed"

evaluatorVars == <<recorded, evalNow, rowAt, final, closedDir, epc, asOf, rowsLeft, known, evalSession>>

(* The type invariant.                                                     *)
OutcomeTypeOK ==
    /\ recorded \subseteq SignalRows
    /\ evalNow \in 0..MaxNow
    /\ rowAt \in [SignalRows -> [Horizons -> 0..MaxNow]]
    /\ final \subseteq SignalRows /\ closedDir \subseteq SignalRows
    /\ epc \in [Evaluators -> {"idle", "working"}]
    /\ asOf \in [Evaluators -> 0..MaxNow]
    /\ rowsLeft \in [Evaluators -> SUBSET SignalRows]
    /\ known \in [Evaluators -> [SignalRows -> SUBSET Horizons]]
    /\ evalSession \in [Evaluators -> {"ok", "failed"}]

NothingKnown == [r \in SignalRows |-> {}]

OutcomeInit ==
    /\ recorded \in Loads
    /\ evalNow = 0
    /\ rowAt = [r \in SignalRows |-> [h \in Horizons |-> 0]]
    /\ final = {} /\ closedDir = {}
    /\ epc = [e \in Evaluators |-> "idle"]
    /\ asOf = [e \in Evaluators |-> 0]
    /\ rowsLeft = [e \in Evaluators |-> {}]
    /\ known = [e \in Evaluators |-> NothingKnown]
    /\ evalSession = [e \in Evaluators |-> "ok"]

OutcomeTable == <<recorded, rowAt, final>>
Done(r) == {h \in Horizons : rowAt[r][h] # 0}

-----------------------------------------------------------------------------
EvalTick ==
    /\ evalNow < MaxNow
    /\ evalNow' = evalNow + 1
    /\ UNCHANGED <<OutcomeTable, closedDir, epc, asOf, rowsLeft, known, evalSession>>

CloseDirection(r) ==
    /\ r \in recorded \ closedDir /\ RowKind[r] = "prospective"
    /\ closedDir' = closedDir \union {r}
    /\ UNCHANGED <<evalNow, OutcomeTable, epc, asOf, rowsLeft, known, evalSession>>

(* The rows that are due.  Prospective rows are read until they are final, *)
(* unless their direction was closed before they had an outcome row; the   *)
(* others only while a mature horizon is open.                             *)
Due(r) ==
    IF RowKind[r] = "prospective"
    THEN ~(r \in closedDir /\ Done(r) = {})
    ELSE \E h \in Horizons \ Done(r) : h <= evalNow

ReadRows(e) ==
    /\ epc[e] = "idle" /\ evalSession[e] = "ok"
    /\ epc' = [epc EXCEPT ![e] = "working"]
    /\ asOf' = [asOf EXCEPT ![e] = evalNow]
    /\ rowsLeft' = [rowsLeft EXCEPT ![e] = {r \in recorded \ final : Due(r)}]
    /\ known' = [known EXCEPT ![e] = [r \in SignalRows |-> Done(r)]]
    /\ UNCHANGED <<evalNow, OutcomeTable, closedDir, evalSession>>

(* A SELECT outside the guarded writes fails (_load_active_experiments,    *)
(* run_evaluation_cycle): it is logged, nobody rolls back, and every later *)
(* statement of the process fails in the same transaction.                 *)
ReadFails(e) ==
    /\ epc[e] = "idle" /\ evalSession[e] = "ok"
    /\ evalSession' = [evalSession EXCEPT ![e] = "failed"]
    /\ UNCHANGED <<evalNow, OutcomeTable, closedDir, epc, asOf, rowsLeft, known>>

RestartEvaluator(e) ==
    /\ epc[e] = "working" \/ evalSession[e] = "failed"
    /\ epc' = [epc EXCEPT ![e] = "idle"]
    /\ rowsLeft' = [rowsLeft EXCEPT ![e] = {}]
    /\ known' = [known EXCEPT ![e] = NothingKnown]
    /\ asOf' = [asOf EXCEPT ![e] = 0]
    /\ evalSession' = [evalSession EXCEPT ![e] = "ok"]
    /\ UNCHANGED <<evalNow, OutcomeTable, closedDir>>

(* Mature horizons that the process has not seen evaluated.                *)
Open(e, r) == {h \in Horizons \ known[e][r] : h <= asOf[e]}

(* validate_candle_coverage refuses a horizon that the candles do not      *)
(* reach.  The "oos" source refuses the whole signal instead.              *)
Covered(e, r, cover) ==
    LET reached == {h \in Open(e, r) : h <= cover}
    IN IF RowKind[r] = "oos" /\ reached # Open(e, r) THEN {} ELSE reached

(* Mutant: final as soon as the last horizon is known.                     *)
FinishesEarly(e, r, new, cover) == LastHorizon \in new \union known[e][r]

(* A row becomes final with its last open horizon, once the candles also   *)
(* reach the end of the holding period.                                    *)
Finishes(e, r, new, cover) ==
    /\ known[e][r] \union new = Horizons
    /\ Hold[r] <= cover

(* upsert_outcome: the new values replace what is there.                   *)
Overwritten(e, r, new) ==
    [h \in Horizons |-> IF h \in new THEN asOf[e] ELSE rowAt[r][h]]

(* "oos" keeps a value that is there (COALESCE under the row lock).        *)
Written(e, r, new) == Overwritten(e, r, IF RowKind[r] = "oos" THEN new \ Done(r) ELSE new)

Evaluate(e, r, cover) ==
    /\ epc[e] = "working" /\ r \in rowsLeft[e] /\ cover <= asOf[e]
    /\ rowsLeft' = [rowsLeft EXCEPT ![e] = @ \ {r}]
    /\ LET new == Covered(e, r, cover)
       IN /\ rowAt' = [rowAt EXCEPT ![r] = Written(e, r, new)]
          /\ final' = IF Finishes(e, r, new, cover) THEN final \union {r} ELSE final
    /\ UNCHANGED <<recorded, evalNow, closedDir, epc, asOf, known, evalSession>>

(* No candles at all, or a write that fails and is rolled back.            *)
EvaluateFails(e, r) ==
    /\ epc[e] = "working" /\ r \in rowsLeft[e]
    /\ rowsLeft' = [rowsLeft EXCEPT ![e] = @ \ {r}]
    /\ UNCHANGED <<evalNow, OutcomeTable, closedDir, epc, asOf, known, evalSession>>

EndEvaluation(e) ==
    /\ epc[e] = "working" /\ rowsLeft[e] = {}
    /\ epc' = [epc EXCEPT ![e] = "idle"]
    /\ known' = [known EXCEPT ![e] = NothingKnown]
    /\ asOf' = [asOf EXCEPT ![e] = 0]
    /\ UNCHANGED <<evalNow, OutcomeTable, closedDir, rowsLeft, evalSession>>

OutcomeNext ==
    \/ EvalTick
    \/ \E r \in SignalRows : CloseDirection(r)
    \/ \E e \in Evaluators :
         \/ ReadRows(e) \/ ReadFails(e) \/ RestartEvaluator(e) \/ EndEvaluation(e)
         \/ \E r \in SignalRows :
              \/ EvaluateFails(e, r)
              \/ \E cover \in 0..MaxNow : Evaluate(e, r, cover)

EvaluatorSpec == OutcomeInit /\ [][OutcomeNext]_evaluatorVars

(* What EventuallyFinal assumes: a row that was read is evaluated or fails, *)
(* and of the evaluations tried again and again some have all the candles. *)
EvaluationAnswers(e, r) == EvaluateFails(e, r) \/ \E cover \in 0..MaxNow : Evaluate(e, r, cover)
FullyCovered(e, r) == asOf[e] = MaxNow /\ Evaluate(e, r, MaxNow)

-----------------------------------------------------------------------------
(* A final row has every horizon, each evaluated when it was mature, and   *)
(* its holding period is over: nothing final was computed from a future    *)
(* that had not happened, whichever process wrote which part.              *)
FinalIsComplete ==
    /\ \A r \in final : Done(r) = Horizons /\ Hold[r] <= evalNow
    /\ \A r \in SignalRows, h \in Horizons : rowAt[r][h] # 0 => rowAt[r][h] >= h

(* Two processes that read the same rows: nothing evaluated becomes open   *)
(* again, and in the "oos" table the first evaluation stays.               *)
EvaluationKept ==
    [][\A r \in SignalRows :
          /\ r \in final => r \in final'
          /\ \A h \in Done(r) :
                rowAt'[r][h] # 0 /\ (RowKind[r] = "oos" => rowAt'[r][h] = rowAt[r][h])]_evaluatorVars

(* Once its holding period is over, every row becomes final, if the        *)
(* candles and the writes sometimes succeed and no process is stuck in a   *)
(* failed transaction.  A closed direction may leave its rows without an   *)
(* outcome.                                                                *)
EventuallyFinal ==
    <>[](\A e \in Evaluators : evalSession[e] = "ok") =>
        \A r \in SignalRows :
            (r \in recorded /\ evalNow >= Hold[r]) ~>
                (r \in final \/ (r \in closedDir /\ Done(r) = {}))

(* What the evaluators write is complete and stays, whichever process      *)
(* writes.                                                                 *)
EvaluatorSafe ==
    /\ [](OutcomeTypeOK /\ FinalIsComplete)
    /\ EvaluationKept
=============================================================================

---------------------------- MODULE SrrShortFill ----------------------------
(***************************************************************************)
(* The capture of a quote at signal time for confirmed SRR SHORT           *)
(* observations (srr_short_fill_feasibility_v1): the policy gates, the     *)
(* budgets, the claim row, the quote worker thread with its deadline, the  *)
(* finalisation of the row and the coverage ledger.                        *)
(*                                                                         *)
(* A capturer is one life of a scanner process; its main thread captures,  *)
(* and every quote runs in a worker thread that may outlive its capture.   *)
(***************************************************************************)
EXTENDS Integers, FiniteSets

CONSTANTS
    Capturers,      \* lives of scanner processes
    FillObs,        \* observations of the source experiment
    Offers,         \* what the observer may hand to each process
    ObsSignal,      \* their signal times
    ActivationTs,   \* the boundary of the activation record
    CaptureWindow,  \* max_capture_ms
    CycleWindow,    \* max_cycle_latency_ms
    DelayLimit,     \* quote_delay_limit_ms
    MaxPerCycle, MaxPerRun, MaxQuoteWorkers,
    MaxFillTime     \* bound on time

NoTaker == "nobody"

ASSUME SrrFillAssumption ==
    /\ NoTaker \notin Capturers
    /\ Offers \subseteq [Capturers -> SUBSET FillObs]
    /\ ObsSignal \in [FillObs -> Nat] /\ ActivationTs \in Int
    /\ {CaptureWindow, CycleWindow, DelayLimit, MaxFillTime} \subseteq Nat
    /\ {MaxPerCycle, MaxPerRun, MaxQuoteWorkers} \subseteq Nat \ {0}

VARIABLES
    offered,   \* the observations each process is given
    fillTime,  \* the time, wall and monotonic
    fillRow,   \* srr_short_fill_feasibility_v1
    coverage,  \* observations in srr_short_fill_coverage_v1
    counted,   \* observations that _STATS counts as failed or anomalous
    taker,     \* main thread and budget of each process
    worker     \* the quote worker of each capture

fillVars == <<offered, fillTime, fillRow, coverage, counted, taker, worker>>

NoFill == [state |-> "absent", by |-> NoTaker, deadline |-> 0, received |-> 0]
NoQuote == [at |-> "none", ok |-> FALSE, known |-> FALSE, time |-> 0]
IdleTaker == [at |-> "idle", obs |-> NoTaker, started |-> 0, taken |-> FALSE,
            cycle |-> 0, run |-> 0, latency |-> 0]
LiveWorker == {"starting", "lookup", "book"}

SrrFillInit ==
    /\ offered \in Offers /\ fillTime = 0
    /\ fillRow = [o \in FillObs |-> NoFill]
    /\ coverage = {}
    /\ counted = {}
    /\ taker = [p \in Capturers |-> IdleTaker]
    /\ worker = [p \in Capturers |-> [o \in FillObs |-> NoQuote]]

FillTick ==
    /\ fillTime < MaxFillTime /\ fillTime' = fillTime + 1
    /\ UNCHANGED <<offered, fillRow, coverage, counted, taker, worker>>

(* The process dies in a capture, its worker threads with it.              *)
CapturerDies(p) ==
    /\ taker[p].at \notin {"idle", "dead"}
    /\ taker' = [taker EXCEPT ![p] = [IdleTaker EXCEPT !.at = "dead"]]
    /\ worker' = [worker EXCEPT ![p] = [o \in FillObs |-> NoQuote]]
    /\ UNCHANGED <<offered, fillTime, fillRow, coverage, counted>>

(* The per-run counter survives the cycle.                                 *)
BeginCaptureCycle(p) ==
    /\ taker[p].at = "idle" /\ taker[p].cycle + taker[p].latency > 0
    /\ taker' = [taker EXCEPT ![p].cycle = 0, ![p].latency = 0]
    /\ UNCHANGED <<offered, fillTime, fillRow, coverage, counted, worker>>

-----------------------------------------------------------------------------
(* The end of a capture charges its whole duration to the cycle.           *)
CaptureEnded(p) ==
    [taker EXCEPT ![p].at = "idle", ![p].obs = NoTaker, ![p].taken = FALSE, ![p].started = 0,
                     ![p].latency = @ + (fillTime - taker[p].started)]

(* _record_coverage, whatever the disposition; a failed write is counted.  *)
RecordCoverage(o) ==
    \/ coverage' = coverage \union {o} /\ counted' = counted
    \/ counted' = counted \union {o} /\ coverage' = coverage

RefuseOffer(p) ==
    /\ RecordCoverage(taker[p].obs)
    /\ taker' = CaptureEnded(p)
    /\ UNCHANGED <<offered, fillTime, fillRow, worker>>

(* An exception anywhere: rolled back, counted and swallowed.              *)
CaptureError(p) ==
    /\ taker[p].at \in {"preflight", "claim", "quote", "finalize"}
    /\ counted' = counted \union {taker[p].obs}
    /\ taker' = CaptureEnded(p)
    /\ UNCHANGED <<offered, fillTime, fillRow, coverage, worker>>

(* _resolve_observations: an id that belongs to this signal of SRR SHORT.  *)
Resolved(p, o) == o \in offered[p]

(* capture: the configuration is valid, the activation record RUNNING, the *)
(* signal after its boundary.                                              *)
CaptureOffer(p, o) ==
    /\ taker[p].at = "idle" /\ Resolved(p, o) /\ ObsSignal[o] > ActivationTs
    /\ taker' = [taker EXCEPT ![p].at = "preflight", ![p].obs = o, ![p].started = fillTime]
    /\ UNCHANGED <<offered, fillTime, fillRow, coverage, counted, worker>>

(* Or it is not: an operator stops the activation when he likes, and the   *)
(* configuration is read for every call.                                   *)
PolicyDenied(p, o) ==
    /\ taker[p].at = "idle" /\ Resolved(p, o) /\ RecordCoverage(o)
    /\ UNCHANGED <<offered, fillTime, fillRow, taker, worker>>

LiveWorkers(p) == {o \in FillObs : worker[p][o].at \in LiveWorker}

CapacityAvailable(p) == Cardinality(LiveWorkers(p)) < MaxQuoteWorkers
SlotAvailable(p) == CycleWindow - taker[p].latency >= CaptureWindow
BudgetAvailable(p) == taker[p].cycle < MaxPerCycle /\ taker[p].run < MaxPerRun
SignalAhead(p) == taker[p].started < ObsSignal[taker[p].obs]

(* The refusal of the first gate that is closed; a signal ahead of the     *)
(* clock is only counted.                                                  *)
PreflightRefused(p) ==
    LET o == taker[p].obs
    IN /\ taker[p].at = "preflight"
       /\ \/ fillRow[o] # NoFill /\ RefuseOffer(p)
          \/ /\ fillRow[o] = NoFill /\ SignalAhead(p)
             /\ counted' = counted \union {o} /\ taker' = CaptureEnded(p)
             /\ UNCHANGED <<offered, fillTime, fillRow, coverage, worker>>
          \/ /\ fillRow[o] = NoFill /\ ~SignalAhead(p) /\ ~SlotAvailable(p)
             /\ RefuseOffer(p)
          \/ /\ fillRow[o] = NoFill /\ ~SignalAhead(p) /\ SlotAvailable(p)
             /\ ~(CapacityAvailable(p) /\ BudgetAvailable(p))
             /\ RefuseOffer(p)

PreflightPassed(p) ==
    /\ taker[p].at = "preflight" /\ fillRow[taker[p].obs] = NoFill
    /\ ~SignalAhead(p) /\ SlotAvailable(p) /\ CapacityAvailable(p) /\ BudgetAvailable(p)
    /\ taker' = [taker EXCEPT ![p].at = "claim", ![p].cycle = @ + 1, ![p].run = @ + 1]
    /\ UNCHANGED <<offered, fillTime, fillRow, coverage, counted, worker>>

(* INSERT ... ON CONFLICT DO NOTHING and commit; the commit may be applied *)
(* and yet be reported as failed.                                          *)
Claim(p) ==
    LET o == taker[p].obs
    IN /\ taker[p].at = "claim" /\ fillRow[o] = NoFill
       /\ fillRow' = [fillRow EXCEPT ![o].state = "PENDING", ![o].by = p]
       /\ \/ taker' = [taker EXCEPT ![p].at = "quote"] /\ counted' = counted
          \/ taker' = CaptureEnded(p) /\ counted' = counted \union {o}
       /\ UNCHANGED <<offered, fillTime, coverage, worker>>

ClaimLost(p) ==
    /\ taker[p].at = "claim" /\ fillRow[taker[p].obs] # NoFill
    /\ RefuseOffer(p)

-----------------------------------------------------------------------------
(* The quote phase.                                                        *)
DeadlineAt(p) == taker[p].started + CaptureWindow

ToFinalize(p, taken) == [taker EXCEPT ![p].at = "finalize", ![p].taken = taken]

(* _fetch_quote_phase: a late start or a full set of workers is a timeout. *)
SpawnWorker(p) ==
    LET o == taker[p].obs
    IN /\ taker[p].at = "quote"
       /\ IF fillTime < DeadlineAt(p) /\ CapacityAvailable(p)
          THEN /\ worker' = [worker EXCEPT ![p][o] = [NoQuote EXCEPT !.at = "starting",
                                                                    !.time = DeadlineAt(p)]]
               /\ taker' = [taker EXCEPT ![p].at = "join"]
          ELSE taker' = ToFinalize(p, FALSE) /\ worker' = worker
       /\ UNCHANGED <<offered, fillTime, fillRow, coverage, counted>>

(* The worker's deadline is in its time field until it ends; what it       *)
(* records after its capture is over is read by nobody.                    *)
WorkerEnds(p, o, how, ok) ==
    worker' = [worker EXCEPT ![p][o] =
                 IF taker[p].obs = o
                 THEN [@ EXCEPT !.at = how, !.ok = ok, !.time = fillTime] ELSE NoQuote]

(* calculate_snapshot: whether the base scenario is feasible in the book.  *)
SnapshotOk == BOOLEAN

(* The deadline is checked before each of the two requests.                *)
WorkerStep(p, o) ==
    /\ \/ /\ worker[p][o].at = "starting"
          /\ IF fillTime >= worker[p][o].time THEN WorkerEnds(p, o, "refused", FALSE)
             ELSE worker' = [worker EXCEPT ![p][o].at = "lookup"]
       \/ /\ worker[p][o].at = "lookup"
          /\ \E known \in BOOLEAN :
               IF fillTime >= worker[p][o].time THEN WorkerEnds(p, o, "refused", FALSE)
               ELSE worker' = [worker EXCEPT ![p][o].at = "book", ![p][o].known = known]
       \/ /\ worker[p][o].at = "book"
          /\ \E ok \in SnapshotOk : WorkerEnds(p, o, "received", ok)
       \/ worker[p][o].at = "book" /\ WorkerEnds(p, o, "error", FALSE)
    /\ UNCHANGED <<offered, fillTime, fillRow, coverage, counted, taker>>

(* Mutant: the quote of a thread that has finished is taken.               *)
OnTimeWhenDone(p, o) == worker[p][o].at \in {"received", "error"}

(* A quote counts when it was recorded on or before the deadline.          *)
OnTime(p, o) == worker[p][o].at \in {"received", "error"} /\ worker[p][o].time <= DeadlineAt(p)

QuoteFresh(o, received) == 0 <= received - ObsSignal[o] /\ received - ObsSignal[o] <= DelayLimit

(* The payload of the row.  It counts for the statistics when the quote is *)
(* FRESH, the book OK and the constraints of the instrument are known; a   *)
(* delayed quote, a bad book and an error do not.                          *)
Evidence(p, o) ==
    LET w == worker[p][o]
    IN IF taker[p].taken /\ w.at = "received" /\ QuoteFresh(o, w.time) /\ w.ok /\ w.known
       THEN [state |-> "eligible", by |-> p, deadline |-> DeadlineAt(p), received |-> w.time]
       ELSE [NoFill EXCEPT !.state = "not eligible", !.by = p]

(* join returns when the worker has ended or the deadline is reached; what *)
(* is classified is what the worker has recorded by then.                  *)
JoinReturns(p) ==
    /\ taker[p].at = "join"
    /\ worker[p][taker[p].obs].at \notin LiveWorker \/ fillTime >= DeadlineAt(p)
    /\ taker' = ToFinalize(p, OnTime(p, taker[p].obs))
    /\ UNCHANGED <<offered, fillTime, fillRow, coverage, counted, worker>>

(* UPDATE ... WHERE feasibility_status = 'PENDING', with its commit, which *)
(* may be applied and yet be reported as failed.                           *)
FinalizeRow(p) ==
    LET o == taker[p].obs
    IN /\ taker[p].at = "finalize" /\ fillRow[o].state = "PENDING"
       /\ fillRow' = [fillRow EXCEPT ![o] = Evidence(p, o)]
       /\ counted' \in {counted, counted \union {o}}
       /\ taker' = CaptureEnded(p)
       /\ worker' = [worker EXCEPT ![p][o] = IF @.at \in LiveWorker THEN @ ELSE NoQuote]
       /\ UNCHANGED <<offered, fillTime, coverage>>

SrrFillNext ==
    \/ FillTick
    \/ \E p \in Capturers :
         \/ CapturerDies(p) \/ BeginCaptureCycle(p) \/ CaptureError(p)
         \/ PreflightRefused(p) \/ PreflightPassed(p) \/ Claim(p) \/ ClaimLost(p)
         \/ SpawnWorker(p) \/ JoinReturns(p) \/ FinalizeRow(p)
         \/ \E o \in FillObs : CaptureOffer(p, o) \/ PolicyDenied(p, o) \/ WorkerStep(p, o)

SrrFillSpec == SrrFillInit /\ [][SrrFillNext]_fillVars

-----------------------------------------------------------------------------
(* Properties.                                                             *)

SrrFillTypeOK ==
    /\ fillRow \in [FillObs -> [state : {"absent", "PENDING", "eligible", "not eligible"},
                                by : Capturers \union {NoTaker}, deadline : Nat, received : Nat]]
    /\ coverage \subseteq FillObs /\ counted \subseteq FillObs

(* A row that counts for the execution statistics is about a signal after  *)
(* the activation, and its quote was received inside the window of its own *)
(* capture and inside the delay limit of the signal, however long threads  *)
(* were held up.                                                           *)
EligibleIsTimely ==
    \A o \in FillObs :
      LET r == fillRow[o]
      IN r.state = "eligible" =>
           /\ ObsSignal[o] > ActivationTs
           /\ r.received \in ObsSignal[o]..(ObsSignal[o] + DelayLimit)
           /\ r.received <= r.deadline

(* Threads of hung requests never exceed the ceiling, and no life of a     *)
(* process claims more rows than its budget.                               *)
CaptureIsBounded ==
    \A p \in Capturers :
      /\ Cardinality(LiveWorkers(p)) <= MaxQuoteWorkers
      /\ Cardinality({o \in FillObs : fillRow[o].by = p}) <= MaxPerRun

(* A claimed row is not forgotten: it is final, or its claimer is still at *)
(* it, has counted an error or is dead.                                    *)
PendingIsExplained ==
    \A o \in FillObs :
      fillRow[o].state = "PENDING" =>
        LET c == taker[fillRow[o].by] IN c.obs = o \/ c.at = "dead" \/ o \in counted

(* A capture that returns leaves evidence, a coverage row or a count: the  *)
(* denominator of the statistics loses no event in silence.                *)
NoEventUncounted ==
    [][\A p \in Capturers :
         (taker[p].at \notin {"idle", "dead"} /\ taker'[p].at = "idle") =>
            LET o == taker[p].obs
            IN fillRow'[o] # NoFill \/ o \in coverage' \/ o \in counted']_fillVars

(* A final row stays, and only its claimer finalises it.                   *)
EvidenceIsFinal ==
    [][\A o \in FillObs :
         fillRow'[o] # fillRow[o] =>
            /\ fillRow[o].state \in {"absent", "PENDING"}
            /\ fillRow[o].state = "PENDING" => fillRow'[o].by = fillRow[o].by]_fillVars

(* What the capture of SRR SHORT quotes promises.                          *)
SrrFillSafe ==
    /\ [](SrrFillTypeOK /\ EligibleIsTimely /\ CaptureIsBounded /\ PendingIsExplained)
    /\ NoEventUncounted /\ EvidenceIsFinal
=============================================================================

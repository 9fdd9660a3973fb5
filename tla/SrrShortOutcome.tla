-------------------------- MODULE SrrShortOutcome --------------------------
(***************************************************************************)
(* The prospective evaluation of one SRR SHORT observation: candles of     *)
(* Bar ticks are fetched from the exchange, the timeout candle policy      *)
(* classifies the path, and the writer stores the class under an           *)
(* activation record that an operator may revoke at any time.              *)
(*                                                                         *)
(* The price is known here tick by tick, finer than the candles, so that   *)
(* the class can be compared with what happened.                           *)
(***************************************************************************)
EXTENDS Integers, FiniteSets

CONSTANTS
    Bar,        \* ticks of a candle (CANDLE_MS)
    HoldTicks,  \* the frozen holding time
    MaxTick,    \* bound on time
    Boundary,   \* activation_ts the processes are configured with
    SrrWriters  \* processes that evaluate: the service, a --once run

ASSUME SrrOutcomeAssumption ==
    /\ Bar \in Nat \ {0} /\ HoldTicks \in Nat \ {0} /\ HoldTicks % Bar = 0
    /\ MaxTick \in Nat /\ Boundary \in Nat

VARIABLES
    tick,      \* the time
    prices,    \* what the price did in each tick that is over
    signalAt,  \* signal_time of the observation
    directed,  \* the direction of the experiment is RUNNING
    record,    \* the row of srr_short_writer_activation
    srrRow,    \* the row of srr_short_execution_prospective_outcome
    srrAt,     \* where each process is
    srrResult  \* what it is about to write

srrVars == <<tick, prices, signalAt, directed, record, srrRow, srrAt, srrResult>>

Moves == {"quiet", "target", "stop"}
Classes == {"TP_FIRST", "SL_FIRST", "TIMEOUT", "UNCERTAIN", "INCOMPLETE", "UNVERIFIABLE"}
NoOutcome == [class |-> "none", final |-> FALSE]
Outcome(c) == [class |-> c, final |-> c \in {"TP_FIRST", "SL_FIRST", "TIMEOUT"}]

SrrOutcomeTypeOK ==
    /\ tick \in 0..MaxTick
    /\ prices \in [0..(tick - 1) -> Moves]
    /\ signalAt \in 0..Bar
    /\ directed \in BOOLEAN
    /\ record \in [status : {"absent", "PENDING", "ACTIVE", "REVOKED"}, ts : 0..(Boundary + 1)]
    /\ srrRow \in {NoOutcome} \union {Outcome(c) : c \in Classes}
    /\ srrAt \in [SrrWriters -> {"idle", "read", "routed", "locked"}]
    /\ srrResult \in [SrrWriters -> {NoOutcome} \union {Outcome(c) : c \in Classes}]

SrrOutcomeInit ==
    /\ tick = 0 /\ prices = <<>> /\ signalAt \in 0..Bar /\ directed = TRUE
    /\ record = [status |-> "absent", ts |-> 0]
    /\ srrRow = NoOutcome
    /\ srrAt = [e \in SrrWriters |-> "idle"]
    /\ srrResult = [e \in SrrWriters |-> NoOutcome]

-----------------------------------------------------------------------------
(* Environment: time, and the operator.                                    *)

SrrTick ==
    /\ tick < MaxTick /\ tick' = tick + 1
    /\ \E m \in Moves : prices' = [t \in 0..tick |-> IF t = tick THEN m ELSE prices[t]]
    /\ UNCHANGED <<signalAt, directed, record, srrRow, srrAt, srrResult>>

StopDirection ==
    /\ directed /\ directed' = FALSE
    /\ UNCHANGED <<tick, prices, signalAt, record, srrRow, srrAt, srrResult>>

RecordActivation ==
    /\ record.status = "absent"
    /\ \E ts \in {Boundary, Boundary + 1} : record' = [status |-> "PENDING", ts |-> ts]
    /\ UNCHANGED <<tick, prices, signalAt, directed, srrRow, srrAt, srrResult>>

AllowedTransitions == {<<"PENDING", "ACTIVE">>, <<"PENDING", "REVOKED">>, <<"ACTIVE", "REVOKED">>}

(* The writers hold the row FOR SHARE until their transaction ends.        *)
ChangeStatus(to) ==
    /\ <<record.status, to>> \in AllowedTransitions
    /\ \A e \in SrrWriters : srrAt[e] # "locked"
    /\ record' = [record EXCEPT !.status = to]
    /\ UNCHANGED <<tick, prices, signalAt, directed, srrRow, srrAt, srrResult>>

-----------------------------------------------------------------------------
(* Candles, by their open times.                                           *)

Cutoff == signalAt + HoldTicks
FloorBar(t) == (t \div Bar) * Bar
CeilBar(t) == FloorBar(t + Bar - 1)
BarOpens(a, b) == {o \in a..b : o % Bar = 0}

TouchesTarget(o) == \E t \in o..(o + Bar - 1) : prices[t] = "target"
TouchesStop(o) == \E t \in o..(o + Bar - 1) : prices[t] = "stop"
Touches(o) == TouchesTarget(o) \/ TouchesStop(o)

RequestedStart == FloorBar(signalAt)
RequestedEnd == FloorBar(Cutoff - Bar)

(* expected_opens: what the source must have at the time of the question.  *)
ExpectedOpens(asof) ==
    LET latest == FloorBar(asof) - Bar
    IN BarOpens(RequestedStart, IF latest < RequestedEnd THEN latest ELSE RequestedEnd)

(* The paged fetch ends with any part of what is there.                    *)
SourceAnswers(asof) == SUBSET ExpectedOpens(asof)

LeastOf(S) == CHOOSE o \in S : \A q \in S : o <= q
GreatestOf(S) == CHOOSE o \in S : \A q \in S : q <= o

PathWindow(got) == {o \in got : o + Bar > signalAt /\ o < Cutoff}
EligibleOpens(got) == {o \in PathWindow(got) : o >= signalAt /\ o + Bar <= Cutoff}

(* Mutant: the candle in which the signal fell is forgotten.               *)
SignalBoundaryIgnored(got) == FALSE

(* The candle that was open at the signal touches a level: before or after *)
(* the signal, nobody knows.                                               *)
SignalBoundaryUncertain(got) ==
    /\ PathWindow(got) # {}
    /\ LET o == LeastOf(PathWindow(got)) IN o < signalAt /\ signalAt < o + Bar /\ Touches(o)

CutoffBoundaryUncertain(got) ==
    /\ PathWindow(got) # {}
    /\ LET o == GreatestOf(PathWindow(got)) IN o < Cutoff /\ Cutoff < o + Bar /\ Touches(o)

TouchedOpens(got) == {o \in EligibleOpens(got) : Touches(o)}

(* A candle that touches both levels counts as a stop.                     *)
FirstTouchClass(got) ==
    LET o == LeastOf(TouchedOpens(got))
    IN IF ~BarOpens(CeilBar(signalAt), o) \subseteq EligibleOpens(got) THEN "INCOMPLETE"
       ELSE IF TouchesStop(o) THEN "SL_FIRST" ELSE "TP_FIRST"

TimeoutClass(got) ==
    IF CutoffBoundaryUncertain(got) THEN "UNCERTAIN"
    ELSE IF BarOpens(CeilBar(signalAt), Cutoff - Bar) \subseteq EligibleOpens(got)
         THEN "TIMEOUT" ELSE "INCOMPLETE"

(* SrrShortTimeoutCandlePolicy.evaluate on candles without a hole.         *)
PolicyClass(got) ==
    IF SignalBoundaryUncertain(got) THEN "UNCERTAIN"
    ELSE IF TouchedOpens(got) # {} THEN FirstTouchClass(got) ELSE TimeoutClass(got)

(* validate_source_result, then the policy.                                *)
RouteClass(got, asof) == IF got = ExpectedOpens(asof) THEN PolicyClass(got) ELSE "INCOMPLETE"

(* A timeout is not persisted before the cutoff.                           *)
Persisted(class, asof) == IF class = "TIMEOUT" /\ asof < Cutoff THEN "INCOMPLETE" ELSE class

-----------------------------------------------------------------------------
(* verify_persisted_record and is_eligible.                                *)
RecordVerified == record.status = "ACTIVE" /\ record.ts = Boundary
SignalEligible == signalAt > Boundary

(* run_evaluation_cycle reads the observations that are still open; the    *)
(* boundary was resolved against the record when the process started.      *)
ReadObservation(e) ==
    /\ srrAt[e] = "idle" /\ RecordVerified
    /\ tick >= signalAt /\ SignalEligible
    /\ ~srrRow.final /\ (directed \/ srrRow # NoOutcome)
    /\ srrAt' = [srrAt EXCEPT ![e] = "read"]
    /\ UNCHANGED <<tick, prices, signalAt, directed, record, srrRow, srrResult>>

Routed(e, class) ==
    /\ srrAt[e] = "read" /\ srrAt' = [srrAt EXCEPT ![e] = "routed"]
    /\ srrResult' = [srrResult EXCEPT ![e] = Outcome(class)]
    /\ UNCHANGED <<tick, prices, signalAt, directed, record, srrRow>>

RouteObservation(e) ==
    \E got \in SourceAnswers(tick) : Routed(e, Persisted(RouteClass(got, tick), tick))

(* The fetch fails, or what it returns is malformed.                       *)
SourceFails(e) == Routed(e, "UNVERIFIABLE")

(* load_authoritative_record FOR SHARE in the writer's own transaction.    *)
EnforceBoundary(e) ==
    /\ srrAt[e] = "routed" /\ RecordVerified /\ SignalEligible
    /\ srrAt' = [srrAt EXCEPT ![e] = "locked"]
    /\ UNCHANGED <<tick, prices, signalAt, directed, record, srrRow, srrResult>>

(* The writer's answer is a rejection, the process dies, or a statement    *)
(* fails: the transaction is rolled back.                                  *)
LeaveObservation(e) ==
    /\ srrAt[e] # "idle" /\ srrAt' = [srrAt EXCEPT ![e] = "idle"]
    /\ srrResult' = [srrResult EXCEPT ![e] = NoOutcome]
    /\ UNCHANGED <<tick, prices, signalAt, directed, record, srrRow>>

(* Insert, refresh or finalise; a final row is left alone.                 *)
UpdatedRow(e) == IF srrRow.final THEN srrRow ELSE srrResult[e]

WriteOutcome(e) ==
    /\ srrAt[e] = "locked" /\ srrRow' = UpdatedRow(e)
    /\ srrAt' = [srrAt EXCEPT ![e] = "idle"]
    /\ srrResult' = [srrResult EXCEPT ![e] = NoOutcome]
    /\ UNCHANGED <<tick, prices, signalAt, directed, record>>

SrrOutcomeNext ==
    \/ SrrTick \/ StopDirection \/ RecordActivation
    \/ \E to \in {"ACTIVE", "REVOKED"} : ChangeStatus(to)
    \/ \E e \in SrrWriters :
         \/ ReadObservation(e) \/ RouteObservation(e) \/ SourceFails(e)
         \/ EnforceBoundary(e) \/ LeaveObservation(e) \/ WriteOutcome(e)

SrrSpec == SrrOutcomeInit /\ [][SrrOutcomeNext]_srrVars

-----------------------------------------------------------------------------
(* Properties.                                                             *)

TouchTicks(a, b) == {t \in a..b : t < tick /\ prices[t] # "quiet"}

(* What a final row says is what the price did after the signal: the level *)
(* that was reached first, tick by tick, where a stop in the same candle   *)
(* wins; and for a timeout no level in any whole candle of the holding     *)
(* time, which is over.  (A holding time that ends inside a candle: the    *)
(* ticks of that last candle are never requested.)                         *)
FinalIsTrue ==
    LET touched == TouchTicks(signalAt, Cutoff - 1)
        first == LeastOf(touched)
    IN /\ srrRow.class = "TP_FIRST" => touched # {} /\ prices[first] = "target"
       /\ srrRow.class = "SL_FIRST" => touched # {} /\ TouchesStop(FloorBar(first))
       /\ srrRow.class = "TIMEOUT" =>
            tick >= Cutoff /\ TouchTicks(signalAt, FloorBar(Cutoff) - 1) = {}

(* The first final result stays, whichever process comes later with an     *)
(* older or poorer one.                                                    *)
FinalOutcomeStays == [][srrRow.final => srrRow' = srrRow]_srrVars

(* No outcome is written unless the record is ACTIVE with the configured   *)
(* timestamp at the moment of the commit, nor for an earlier signal.       *)
WrittenWhileActive ==
    [][srrRow' # srrRow => RecordVerified /\ SignalEligible]_srrVars

(* The evaluation of SRR SHORT observations is right and governed by the   *)
(* activation record.                                                      *)
SrrOutcomeSafe ==
    /\ [](SrrOutcomeTypeOK /\ FinalIsTrue)
    /\ FinalOutcomeStays
    /\ WrittenWhileActive
=============================================================================

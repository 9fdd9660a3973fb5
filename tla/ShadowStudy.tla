---------------------------- MODULE ShadowStudy ----------------------------
(***************************************************************************)
(* The shadow studies of the ATR wick detector, for one symbol: a scanner  *)
(* (and, in V1, a manual backfill) records signals, and evaluators measure *)
(* each signal over several horizons from candles of the exchange, as the  *)
(* horizons mature.  The V1 study also has an end-of-day horizon; the V2D  *)
(* study keeps only the signals its filter accepts.                        *)
(*                                                                         *)
(* A measurement is a function of the candles it was computed from, so a   *)
(* stored excursion is represented by the set of candles it covers and the *)
(* stored target flags by the sequence of candles they were read from.     *)
(***************************************************************************)
EXTENDS Integers, FiniteSets, Sequences

CONSTANTS
    StudyBar,      \* ticks of a 5-minute candle (CANDLE_MS)
    HorizonTicks,  \* HORIZONS: label -> ticks
    DayTicks,      \* ticks of a day
    RawBars,       \* opens of the candles with an upper wick, never a day's last
    StrictBars,    \* those that pass the strict filters
    InBandBars,    \* those whose StochRSI is in [0.20, 0.60)
    PageLimit,     \* candles of a page (PAGE_LIMIT)
    Slack,         \* candles asked for beyond the window (10)
    ReadLag,       \* bound on the time between an evaluator's `now` and its SELECT
    Evaluators,    \* evaluator processes: the timer's, a manual --once
    MaxStudyTime   \* bound on time

ASSUME StudyAssumption ==
    /\ {StudyBar, DayTicks, PageLimit} \subseteq Nat \ {0}
    /\ {Slack, ReadLag, MaxStudyTime} \subseteq Nat
    /\ DayTicks % StudyBar = 0 /\ "eod" \notin DOMAIN HorizonTicks
    /\ \A h \in DOMAIN HorizonTicks : HorizonTicks[h] \in Nat /\ HorizonTicks[h] > StudyBar
    /\ StrictBars \subseteq RawBars /\ InBandBars \subseteq RawBars
    /\ \A o \in RawBars : (o % DayTicks) + StudyBar < DayTicks

VARIABLES
    study,      \* which study this is: "V1" or "V2D"
    studyTime,  \* the time
    scanned,    \* the candidate a scan cycle holds before it persists it
    filling,    \* the candidates a backfill still has to look up
    checked,    \* the candidate whose existence the backfill has just denied
    signals,    \* rows of dds.shadow_signal or dds.v2d_signal, by signal time
    outcomes,   \* rows of the outcome table, by signal time
    evalAt,     \* where each evaluator is
    asof,       \* the `now` of its cycle
    snapshot,   \* the rows its SELECT returned
    unsaved     \* what it has worked out from the candles and not yet saved

studyVars == <<study, studyTime, scanned, filling, checked, signals, outcomes,
               evalAt, asof, snapshot, unsaved>>

NoBar == -1
Grid == {o \in 0..MaxStudyTime : o % StudyBar = 0}
Labels == DOMAIN HorizonTicks \union (IF study = "V1" THEN {"eod"} ELSE {})
EndOfDay(s) == (s \div DayTicks + 1) * DayTicks
HorizonEnd(s, h) == IF h = "eod" THEN EndOfDay(s) ELSE s + HorizonTicks[h]

NewOutcome == [marked |-> {}, covers |-> [h \in Labels |-> {}], verdict |-> <<>>, final |-> FALSE]

ShadowTypeOK ==
    /\ study \in {"V1", "V2D"} /\ studyTime \in 0..MaxStudyTime
    /\ scanned \in Grid \union {NoBar} /\ checked \in Grid \union {NoBar} /\ filling \subseteq Grid
    /\ DOMAIN signals \subseteq Grid /\ DOMAIN outcomes \subseteq DOMAIN signals
    /\ \A s \in DOMAIN signals : signals[s] \in [by : {"scan", "fill"}, strict : BOOLEAN]
    /\ \A s \in DOMAIN outcomes : outcomes[s].marked \subseteq Labels
    /\ evalAt \in [Evaluators -> {"idle", "read", "saving"}]

ShadowInit ==
    /\ study \in {"V1", "V2D"} /\ studyTime = 0
    /\ scanned = NoBar /\ filling = {} /\ checked = NoBar
    /\ signals = <<>> /\ outcomes = <<>>
    /\ evalAt = [e \in Evaluators |-> "idle"] /\ asof = [e \in Evaluators |-> 0]
    /\ snapshot = [e \in Evaluators |-> <<>>] /\ unsaved = [e \in Evaluators |-> <<>>]

StudyTick ==
    /\ studyTime < MaxStudyTime /\ studyTime' = studyTime + 1
    /\ UNCHANGED <<study, scanned, filling, checked, signals, outcomes,
                   evalAt, asof, snapshot, unsaved>>

-----------------------------------------------------------------------------
(* Signals.                                                                *)

IsClosed(o, now) == o + StudyBar <= now
Put(f, k, v) == [x \in DOMAIN f \union {k} |-> IF x = k THEN v ELSE f[x]]

(* detect_raw_candidate and passes_strict_filters on the last candle given.*)
DetectRaw(o) == o \in RawBars
PassesStrict(o) == o \in StrictBars

(* _build_shadow_context: the last candle that has closed.                 *)
LastClosed == {o \in Grid : IsClosed(o, studyTime) /\ ~IsClosed(o + StudyBar, studyTime)}

(* run_cycle scans; a rate-limited or failing symbol is dropped.           *)
ScanForStudy ==
    /\ scanned = NoBar /\ \E o \in LastClosed : DetectRaw(o) /\ scanned' = o
    /\ UNCHANGED <<study, studyTime, filling, checked, signals, outcomes,
                   evalAt, asof, snapshot, unsaved>>

(* INSERT ... ON CONFLICT (experiment_id, symbol, signal_time) DO NOTHING. *)
Inserted(o, by, strict) ==
    IF o \in DOMAIN signals THEN signals ELSE Put(signals, o, [by |-> by, strict |-> strict])

PersistV1 ==
    /\ study = "V1" /\ scanned # NoBar /\ scanned' = NoBar
    /\ signals' \in {signals, Inserted(scanned, "scan", PassesStrict(scanned))}
    /\ UNCHANGED <<study, studyTime, filling, checked, outcomes, evalAt, asof, snapshot, unsaved>>

(* apply_v2d_filter.                                                       *)
V2dFilterPasses(o) == o \in InBandBars

(* V2DRepository.save_signal stores no strictness.                         *)
InsertedV2d(o) == Inserted(o, "scan", FALSE)

PersistV2d ==
    /\ study = "V2D" /\ scanned # NoBar /\ scanned' = NoBar
    /\ signals' \in {signals} \union {InsertedV2d(o) : o \in {q \in {scanned} : V2dFilterPasses(q)}}
    /\ UNCHANGED <<study, studyTime, filling, checked, outcomes, evalAt, asof, snapshot, unsaved>>

(* A backfill asks for everything up to now: the candle that is still open *)
(* is among what the exchange returns.  Candles without a wick are passed. *)
StartBackfill ==
    /\ study = "V1" /\ filling = {} /\ checked = NoBar
    /\ filling' = {o \in Grid : o <= studyTime /\ DetectRaw(o)} /\ filling' # {}
    /\ UNCHANGED <<study, studyTime, scanned, checked, signals, outcomes,
                   evalAt, asof, snapshot, unsaved>>

(* One candle of backfill_symbol.  A candle that is open may or may not    *)
(* show a wick; a failing signal_exists ends the symbol.                   *)
BackfillCandle ==
    /\ filling # {} /\ checked = NoBar
    /\ LET o == CHOOSE q \in filling : \A r \in filling : q <= r
       IN \/ /\ filling' = filling \ {o}
             /\ checked' = IF o \in DOMAIN signals THEN NoBar ELSE o
          \/ ~IsClosed(o, studyTime) /\ filling' = filling \ {o} /\ UNCHANGED checked
          \/ filling' = {} /\ UNCHANGED checked
    /\ UNCHANGED <<study, studyTime, scanned, signals, outcomes, evalAt, asof, snapshot, unsaved>>

(* save_signal(raw): the candidate goes in as detected, strict_pass FALSE. *)
BackfillSave ==
    /\ checked # NoBar /\ checked' = NoBar
    /\ signals' \in {signals, Inserted(checked, "fill", FALSE)}
    /\ UNCHANGED <<study, studyTime, scanned, filling, outcomes, evalAt, asof, snapshot, unsaved>>

-----------------------------------------------------------------------------
(* Candles from the exchange: [open, fine], fine when the OHLC is sound.   *)

Fine(o) == [open |-> o, fine |-> TRUE]
GridOpens(a, b) == {o \in Grid : a <= o /\ o <= b}
Ascending(a, b) ==
    LET first == IF a < 0 THEN 0 ELSE a
    IN [i \in 1..((b - first) \div StudyBar + 1) |-> Fine(first + (i - 1) * StudyBar)]

(* Ways in which an answer falls short of the candles asked for.           *)
Without(s, i) == [j \in 1..(Len(s) - 1) |-> IF j < i THEN s[j] ELSE s[j + 1]]
Twice(s, i) == [j \in 1..(Len(s) + 1) |-> IF j <= i THEN s[j] ELSE s[j - 1]]
Swapped(s, i) == [s EXCEPT ![i] = s[i + 1], ![i + 1] = s[i]]
OffGrid(s) == [j \in DOMAIN s |-> [s[j] EXCEPT !.open = @ + 1]]
Broken(s, i) == [s EXCEPT ![i] = [open |-> s[i].open, fine |-> FALSE]]

(* A hole anywhere, or another defect at the last closed candle.           *)
PageAnswers(s) ==
    {s, OffGrid(s)} \union {Without(s, i) : i \in DOMAIN s}
        \union UNION {{Twice(s, i), Swapped(s, i), Broken(s, i)} : i \in {Len(s) - 1} \ {0}}

AlignedStart(from) == ((from - StudyBar) \div StudyBar) * StudyBar
GridEnd(now) == (now \div StudyBar) * StudyBar - StudyBar
Needed(from, now) == (GridEnd(now) - AlignedStart(from)) \div StudyBar + 1

(* A list comprehension: what s has at the positions P, in its order.      *)
NthOf(P, n) == CHOOSE i \in P : Cardinality({j \in P : j <= i}) = n
Picked(s, P) == [n \in 1..Cardinality(P) |-> s[NthOf(P, n)]]

ClosedOnly(s, from, now) ==
    Picked(s, {i \in DOMAIN s : AlignedStart(from) <= s[i].open /\ IsClosed(s[i].open, now)})

(* get_klines: the latest `limit` candles at the time of the request, the  *)
(* open one included.                                                      *)
LatestCandles(limit) ==
    LET last == (studyTime \div StudyBar) * StudyBar
    IN Ascending(last - (limit - 1) * StudyBar, last)

(* get_klines_range: unique, on the grid, ascending; holes stay holes.     *)
RangeAnswers(from, now) ==
    LET s == Ascending(AlignedStart(from), GridEnd(now))
    IN {s} \union {Without(s, i) : i \in DOMAIN s}

(* What fetch_candles_for_evaluation may return; nothing is returned when  *)
(* the request fails or no candle of the range has closed.                 *)
FetchedCandles(from, now) ==
    IF GridEnd(now) < AlignedStart(from) THEN {}
    ELSE {s \in {ClosedOnly(r, from, now) :
                    r \in IF Needed(from, now) > PageLimit THEN RangeAnswers(from, now)
                          ELSE PageAnswers(LatestCandles(Needed(from, now) + Slack))} : s # <<>>}

-----------------------------------------------------------------------------
(* validate_candle_coverage.                                               *)

FirstRequired(signal) == (signal \div StudyBar + 1) * StudyBar
WindowOf(s, signal, cutoff) == {i \in DOMAIN s : signal < s[i].open /\ s[i].open < cutoff}
OpensAt(s, P) == {s[i].open : i \in P}
AscendingAfter(s, signal) ==
    \A i, j \in {k \in DOMAIN s : s[k].open > signal} : i < j => s[i].open < s[j].open
ExpectedPath(signal, cutoff) == GridOpens(FirstRequired(signal), cutoff - 1)

(* Mutant: an answer that is not empty is taken for the whole path.        *)
CoverageByPresence(s, signal, cutoff, now, demandClosed) ==
    \/ FirstRequired(signal) >= cutoff \/ WindowOf(s, signal, cutoff) # {}

CoverageValidated(s, signal, cutoff, now, demandClosed) ==
    LET w == WindowOf(s, signal, cutoff)
        demanded == {o \in ExpectedPath(signal, cutoff) : demandClosed \/ IsClosed(o, now)}
    IN \/ cutoff <= signal \/ FirstRequired(signal) >= cutoff
       \/ /\ w # {} /\ AscendingAfter(s, signal)
          /\ demanded \subseteq OpensAt(s, w)
          /\ OpensAt(s, w) \subseteq ExpectedPath(signal, cutoff)
          /\ \A o \in demanded : IsClosed(o, now)
          /\ \A i \in w : s[i].fine

-----------------------------------------------------------------------------
(* Evaluators.                                                             *)

(* get_eligible_signals of the two repositories, at the clock of the SQL.  *)
MatureIn(s, h, now) == HorizonEnd(s, h) <= now
Unmarked(s) == Labels \ outcomes[s].marked
EligibleRow(s, now) ==
    IF s \notin DOMAIN outcomes THEN \E h \in DOMAIN HorizonTicks : MatureIn(s, h, now)
    ELSE ~outcomes[s].final /\ (Unmarked(s) = {} \/ \E h \in Unmarked(s) : MatureIn(s, h, now))

(* run_evaluation_cycle takes its `now`, then reads the rows.              *)
SelectEligible(e) ==
    /\ evalAt[e] = "idle" /\ evalAt' = [evalAt EXCEPT ![e] = "read"]
    /\ \E lag \in 0..ReadLag : lag <= studyTime /\ asof' = [asof EXCEPT ![e] = studyTime - lag]
    /\ LET rows == {s \in DOMAIN signals : EligibleRow(s, studyTime)}
       IN /\ rows # {}
          /\ snapshot' = [snapshot EXCEPT ![e] =
                [s \in rows |-> IF s \in DOMAIN outcomes THEN outcomes[s] ELSE NewOutcome]]
    /\ UNCHANGED <<study, studyTime, scanned, filling, checked, signals, outcomes, unsaved>>

(* The horizons a cycle marks, from candles c at the cycle's `now`.        *)
Proven(row, s, c, now) ==
    {h \in Labels \ row.marked :
        now >= HorizonEnd(s, h) /\ CoverageValidated(c, s, HorizonEnd(s, h), now, TRUE)}

(* The window of _check_target_achievement: V1 reads up to the end of the  *)
(* day, V2D every candle it was given.                                     *)
VerdictEnd(s, now) == IF study = "V1" THEN EndOfDay(s) ELSE now

(* _evaluate_signal_incremental, up to the save.                           *)
UpdateOf(row, s, c, now) ==
    LET new == Proven(row, s, c, now)
        w == WindowOf(c, s, VerdictEnd(s, now))
        finalises ==
            /\ Labels \ row.marked = new /\ ~row.final
            /\ CoverageValidated(c, s, VerdictEnd(s, now), now, study = "V1")
    IN [marked |-> new,
        covers |-> [h \in new |-> OpensAt(c, WindowOf(c, s, HorizonEnd(s, h)))],
        verdict |-> IF finalises THEN [n \in 1..Cardinality(w) |-> c[NthOf(w, n)].open] ELSE <<>>,
        final |-> finalises]

OldestOf(S) == CHOOSE s \in S : \A q \in S : s <= q

(* One request serves all the signals of the symbol, from the oldest on;   *)
(* a signal without updates is left alone.                                 *)
FetchAndEvaluate(e) ==
    /\ evalAt[e] = "read" /\ evalAt' = [evalAt EXCEPT ![e] = "saving"]
    /\ \E c \in FetchedCandles(OldestOf(DOMAIN snapshot[e]), asof[e]) :
          LET up == [s \in DOMAIN snapshot[e] |-> UpdateOf(snapshot[e][s], s, c, asof[e])]
              some == {s \in DOMAIN up : up[s].marked # {} \/ up[s].final}
          IN unsaved' = [unsaved EXCEPT ![e] = [s \in some |-> up[s]]]
    /\ asof' = [asof EXCEPT ![e] = 0] /\ snapshot' = [snapshot EXCEPT ![e] = <<>>]
    /\ UNCHANGED <<study, studyTime, scanned, filling, checked, signals, outcomes>>

(* save_outcome_partial: only the columns of this cycle are set.           *)
Upserted(row, up) ==
    [marked |-> row.marked \union up.marked,
     covers |-> [h \in Labels |-> IF h \in up.marked THEN up.covers[h] ELSE row.covers[h]],
     verdict |-> IF up.final THEN up.verdict ELSE row.verdict,
     final |-> row.final \/ up.final]

(* A save that fails is rolled back and counted; the cycle goes on.        *)
SaveOutcome(e) ==
    /\ evalAt[e] = "saving" /\ DOMAIN unsaved[e] # {}
    /\ LET s == OldestOf(DOMAIN unsaved[e])
           row == IF s \in DOMAIN outcomes THEN outcomes[s] ELSE NewOutcome
       IN /\ outcomes' \in {outcomes, Put(outcomes, s, Upserted(row, unsaved[e][s]))}
          /\ unsaved' = [unsaved EXCEPT ![e] = [q \in DOMAIN unsaved[e] \ {s} |-> unsaved[e][q]]]
    /\ UNCHANGED <<study, studyTime, scanned, filling, checked, signals, evalAt, asof, snapshot>>

(* No candles, nothing left to save, a statement that fails,               *)
(* or the process dies.                                                    *)
EndEvaluation(e) ==
    /\ evalAt[e] # "idle"
    /\ evalAt' = [evalAt EXCEPT ![e] = "idle"] /\ asof' = [asof EXCEPT ![e] = 0]
    /\ snapshot' = [snapshot EXCEPT ![e] = <<>>] /\ unsaved' = [unsaved EXCEPT ![e] = <<>>]
    /\ UNCHANGED <<study, studyTime, scanned, filling, checked, signals, outcomes>>

ShadowNext ==
    \/ StudyTick \/ ScanForStudy \/ PersistV1 \/ PersistV2d
    \/ StartBackfill \/ BackfillCandle \/ BackfillSave
    \/ \E e \in Evaluators :
          \/ SelectEligible(e) \/ FetchAndEvaluate(e)
          \/ SaveOutcome(e) \/ EndEvaluation(e)

ShadowSpec == ShadowInit /\ [][ShadowNext]_studyVars

-----------------------------------------------------------------------------
(* What is stored about a horizon was measured over the whole of it, after *)
(* it had passed, whatever the exchange answered.                          *)
MarksAreProven ==
    \A s \in DOMAIN outcomes : \A h \in outcomes[s].marked :
        /\ HorizonEnd(s, h) <= studyTime
        /\ outcomes[s].covers[h] = ExpectedPath(s, HorizonEnd(s, h))

(* The flags of a final row were read in order over all of V1's day, and   *)
(* in V2D over every candle from the signal to the evaluator's `now`.      *)
VerdictsAreProven ==
    \A s \in {q \in DOMAIN outcomes : outcomes[q].final} :
        LET v == outcomes[s].verdict
            path(end) == [i \in 1..Cardinality(ExpectedPath(s, end)) |->
                            FirstRequired(s) + (i - 1) * StudyBar]
        IN /\ outcomes[s].marked = Labels
           /\ IF study = "V1" THEN v = path(EndOfDay(s))
              ELSE \E end \in 0..studyTime : v = path(end)

(* A scanner's signal is the verdict on a candle that had closed; V2D has  *)
(* only signals its filter accepts.                                        *)
SignalsAreClosed ==
    \A s \in DOMAIN signals :
        /\ signals[s].by = "scan" =>
              IsClosed(s, studyTime) /\ (signals[s].strict => s \in StrictBars)
        /\ study = "V2D" => s \in InBandBars

(* A signal row is never rewritten, whoever finds it again; a horizon once *)
(* marked keeps its measurement and a final V1 row keeps everything, also  *)
(* when two evaluators work from the same rows.                            *)
ShadowRowsFrozen ==
    /\ \A s \in DOMAIN signals : s \in DOMAIN signals' /\ signals'[s] = signals[s]
    /\ \A s \in DOMAIN outcomes :
          /\ s \in DOMAIN outcomes' /\ outcomes[s].marked \subseteq outcomes'[s].marked
          /\ \A h \in outcomes[s].marked : outcomes'[s].covers[h] = outcomes[s].covers[h]
          /\ outcomes[s].final => outcomes'[s].final /\ (study = "V1" => outcomes'[s] = outcomes[s])

(* The shadow evaluators' fail-closed contract: incomplete candle coverage *)
(* writes no mark and finalises nothing, and nothing recorded is rewritten.*)
ShadowSafe ==
    /\ [](ShadowTypeOK /\ MarksAreProven /\ VerdictsAreProven /\ SignalsAreClosed)
    /\ [][ShadowRowsFrozen]_studyVars
============================================================================

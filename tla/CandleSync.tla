----------------------------- MODULE CandleSync -----------------------------
(***************************************************************************)
(* The candle stages of an analytics run: the ranges that the closed       *)
(* trades need, the gaps in market.candle, the paged fetch from the        *)
(* exchange, the upsert, the quality gate and the retention that deletes   *)
(* old candles beside it.                                                  *)
(*                                                                         *)
(* One instrument and one timeframe; a candle is named by its open time.   *)
(***************************************************************************)
EXTENDS Integers, FiniteSets

CONSTANTS
    Tf,             \* ticks of a candle
    PaperTrades,    \* closed trades, [entered, closed]
    PostExit,       \* post_exit_horizon
    BatchSpan,      \* ticks of one request (8 hours)
    ApiLimit,       \* candles of one answer (200)
    RetainTicks,    \* retention_days
    MaxMarketTime   \* bound on time

ASSUME CandleSyncAssumption ==
    /\ {Tf, BatchSpan, ApiLimit} \subseteq Nat \ {0}
    /\ {PostExit, RetainTicks, MaxMarketTime} \subseteq Nat
    /\ \A t \in PaperTrades : t.entered \in Nat /\ t.closed \in Nat /\ t.entered < t.closed

VARIABLES
    market,       \* the time
    stored,       \* market.candle
    unfinished,   \* stored candles whose values were read before their close
    ingested,     \* candles that were stored since the run started
    sync          \* the run: stage, cutoff, gaps, the batch and its candles

syncVars == <<market, stored, unfinished, ingested, sync>>

Opens == {o \in 0..MaxMarketTime : o % Tf = 0}
NoRunYet == [at |-> "idle", mode |-> "none", cutoff |-> 0, gaps |-> {}, pos |-> 0,
             read |-> {}, open |-> {}, failed |-> FALSE, rejected |-> FALSE, rows |-> FALSE,
             blocking |-> FALSE, warned |-> FALSE]

CandleSyncTypeOK ==
    /\ market \in 0..MaxMarketTime
    /\ unfinished \subseteq stored /\ stored \subseteq Opens /\ ingested \subseteq Opens
    /\ sync.at \in {"idle", "plan", "fetch", "gate", "SUCCEEDED", "FAILED"}
    /\ sync.open \subseteq sync.read /\ sync.read \subseteq Opens

CandleSyncInit ==
    /\ market = 0 /\ stored = {} /\ unfinished = {} /\ ingested = {} /\ sync = NoRunYet

MarketTick ==
    /\ market < MaxMarketTime /\ market' = market + 1
    /\ UNCHANGED <<stored, unfinished, ingested, sync>>

-----------------------------------------------------------------------------
(* Ranges and gaps.                                                        *)

AlignToGrid(t) == (t \div Tf) * Tf
LesserOf(a, b) == IF a < b THEN a ELSE b

(* Provisional: from the entry to the end of the post-exit window.  Final: *)
(* from the exit, and no further than the cutoff.                          *)
TradeRange(t, mode, cutoff) ==
    IF mode = "provisional"
    THEN [from |-> AlignToGrid(t.entered), to |-> AlignToGrid(t.closed + PostExit)]
    ELSE [from |-> AlignToGrid(t.closed), to |-> AlignToGrid(LesserOf(t.closed + PostExit, cutoff))]

TradesOf(mode, cutoff) == {t \in PaperTrades : mode = "provisional" \/ t.closed < cutoff}
ClosedTrades(now) == {t \in PaperTrades : t.closed <= now}

OpensOf(range) == {o \in Opens : range.from <= o /\ o < range.to}

(* _merge_ranges: the candles of all the ranges.                           *)
RequiredOpens(mode, cutoff, now) ==
    UNION {OpensOf(TradeRange(t, mode, cutoff)) : t \in TradesOf(mode, cutoff) \cap ClosedTrades(now)}

(* check_candle_coverage and _coalesce_gaps: the longest runs of missing   *)
(* candles, as half-open intervals.                                        *)
GapsOf(missing) ==
    {[from |-> p[1], to |-> p[2] + Tf] : p \in
       {r \in missing \X missing :
          /\ r[1] <= r[2] /\ r[1] - Tf \notin missing /\ r[2] + Tf \notin missing
          /\ \A x \in Opens : r[1] <= x /\ x <= r[2] => x \in missing}}

-----------------------------------------------------------------------------
(* The run.                                                                *)

StartSync(mode) ==
    /\ sync.at \in {"idle", "SUCCEEDED", "FAILED"}
    /\ mode = "final" => sync.at # "idle"
    /\ sync' = [NoRunYet EXCEPT !.at = "plan", !.mode = mode, !.cutoff = market,
                                !.blocking = mode = "final" /\ sync.at = "FAILED"]
    /\ ingested' = {}
    /\ UNCHANGED <<market, stored, unfinished>>

FirstGap == CHOOSE g \in sync.gaps : \A h \in sync.gaps : g.from <= h.from

StartOf(gaps) ==
    IF gaps = {} THEN 0 ELSE (CHOOSE g \in gaps : \A h \in gaps : g.from <= h.from).from

PlanGaps ==
    /\ sync.at = "plan"
    /\ LET gaps == GapsOf(RequiredOpens(sync.mode, sync.cutoff, market) \ stored)
       IN sync' = [sync EXCEPT !.at = "fetch", !.gaps = gaps, !.pos = StartOf(gaps)]
    /\ UNCHANGED <<market, stored, unfinished, ingested>>

(* A query, or the process, fails.                                         *)
SyncFails ==
    /\ sync.at \in {"plan", "fetch", "gate"}
    /\ sync' = [NoRunYet EXCEPT !.at = "FAILED"]
    /\ UNCHANGED <<market, stored, unfinished, ingested>>

(* Eight hours of candles fit into one answer: so from three minutes up,   *)
(* not for candles of one minute.                                          *)
BatchFits == BatchSpan \div Tf < ApiLimit

GapEnd == LesserOf(FirstGap.to, sync.cutoff)
BatchEnd == LesserOf(sync.pos + BatchSpan, GapEnd)

(* The exchange gives the newest candles of the interval, both ends        *)
(* included, the open one too.                                             *)
KlineAnswer ==
    LET limit == LesserOf(ApiLimit, (BatchEnd - sync.pos) \div Tf + 1)
        there == {o \in Opens : sync.pos <= o /\ o <= BatchEnd /\ o <= market}
    IN {o \in there : Cardinality({q \in there : q > o}) < limit}

(* Mutant: a candle that opened before the cutoff is taken.                *)
ParsedByOpen(o) == o <= sync.cutoff

(* _parse_candle drops a candle that closes after the cutoff.              *)
Parsed(o) == o + Tf <= sync.cutoff

FetchBatch ==
    /\ sync.at = "fetch" /\ sync.gaps # {} /\ sync.pos < GapEnd
    /\ \/ LET got == {o \in KlineAnswer : Parsed(o)}
          IN sync' = [sync EXCEPT !.pos = BatchEnd, !.read = @ \union got,
                                  !.open = @ \union {o \in got : o + Tf > market}]
       \/ sync' = [sync EXCEPT !.pos = BatchEnd, !.failed = TRUE]
    /\ UNCHANGED <<market, stored, unfinished, ingested>>

(* insert_candles_batch: every candle has its own transaction, and may be  *)
(* rejected.                                                               *)
StoreGap ==
    /\ sync.at = "fetch" /\ sync.gaps # {} /\ sync.pos >= GapEnd
    /\ \E rejected \in {{}} \union {{o} : o \in sync.read} :
         LET new == sync.read \ rejected
             left == sync.gaps \ {FirstGap}
         IN /\ stored' = stored \union new
            /\ unfinished' = (unfinished \ new) \union (sync.open \cap new)
            /\ ingested' = ingested \union new
            /\ sync' = [sync EXCEPT !.gaps = left, !.pos = StartOf(left),
                                    !.read = {}, !.open = {},
                                    !.rejected = @ \/ rejected # {}, !.rows = @ \/ new # {}]
    /\ UNCHANGED market

(* Provisional fails when nothing came through, final on any failure.      *)
StageEnds ==
    /\ sync.at = "fetch" /\ sync.gaps = {}
    /\ sync' = [sync EXCEPT !.at = IF sync.failed /\ (sync.mode = "final" \/ ~sync.rows)
                                  THEN "FAILED" ELSE "gate"]
    /\ UNCHANGED <<market, stored, unfinished, ingested>>

-----------------------------------------------------------------------------
(* The quality gate: look-ahead blocks the run.  Missing post-exit candles *)
(* are a warning while the maturity is PROVISIONAL, which it is in the     *)
(* stages of a final run too, unless the run before it failed.             *)

SourceTimestampsOk == \A o \in ingested : o <= sync.cutoff /\ o + Tf <= sync.cutoff

(* The other blocking checks look at the values of the candles.            *)
OhlcAnswers == BOOLEAN

(* As many candles as the aligned window has room for.                     *)
PostExitCovered ==
    \A t \in ClosedTrades(sync.cutoff) :
      LET window == [from |-> AlignToGrid(t.closed), to |-> AlignToGrid(t.closed + PostExit)]
      IN Cardinality(OpensOf(window) \cap stored) >= (window.to - window.from) \div Tf

QualityGate ==
    /\ sync.at = "gate"
    /\ \E ohlc \in OhlcAnswers :
         LET passed == SourceTimestampsOk /\ ohlc /\ (PostExitCovered \/ ~sync.blocking)
         IN sync' = [sync EXCEPT !.at = IF passed THEN "SUCCEEDED" ELSE "FAILED",
                                 !.warned = ~PostExitCovered]
    /\ UNCHANGED <<market, stored, unfinished, ingested>>

(* The run of another date stores a closed candle.                         *)
OtherRunStores(o) ==
    /\ o + Tf <= market /\ o \notin stored
    /\ stored' = stored \union {o} /\ ingested' = ingested \union {o}
    /\ UNCHANGED <<market, unfinished, sync>>

(* run_retention, from a run or from the command line: no lock.            *)
Expirable == {o \in stored : o < market - RetainTicks}

RunRetention ==
    /\ Expirable # {}
    /\ stored' = stored \ Expirable /\ unfinished' = unfinished \ Expirable
    /\ ingested' = ingested \ Expirable
    /\ UNCHANGED <<market, sync>>

CandleSyncNext ==
    \/ MarketTick \/ PlanGaps \/ SyncFails \/ FetchBatch \/ StoreGap
    \/ StageEnds \/ QualityGate \/ RunRetention
    \/ \E mode \in {"provisional", "final"} : StartSync(mode)
    \/ \E o \in Opens : OtherRunStores(o)

CandleSyncSpec == CandleSyncInit /\ [][CandleSyncNext]_syncVars

-----------------------------------------------------------------------------
(* Properties.                                                             *)

(* No stored candle has values that were read before its close: it would   *)
(* be taken for closed for ever, because only missing candles are fetched. *)
NoUnfinishedCandle == unfinished = {}

(* A stage that ends without a failed request and without a rejected row   *)
(* has closed every gap it could: each required candle that closed before  *)
(* the cutoff is there, except what the retention may delete.              *)
StageCloses ==
    (sync.at \in {"gate", "SUCCEEDED"} /\ ~sync.failed /\ ~sync.rejected) =>
       \A o \in RequiredOpens(sync.mode, sync.cutoff, sync.cutoff) :
          o + Tf <= sync.cutoff => o \in stored \/ o < market - RetainTicks

(* A run that succeeded without a coverage warning, whatever requests and  *)
(* rows failed on its way, has every post-exit candle of the trades that   *)
(* were closed before its cutoff.                                          *)
SilenceMeansCovered ==
    (sync.at = "SUCCEEDED" /\ ~sync.warned) =>
       \A t \in ClosedTrades(sync.cutoff), o \in Opens :
          AlignToGrid(t.closed) <= o /\ o + Tf <= t.closed + PostExit =>
             o \in stored \/ o < market - RetainTicks

(* What the candle stages promise.                                         *)
CandleSafe ==
    /\ CandleSyncTypeOK /\ NoUnfinishedCandle /\ StageCloses /\ SilenceMeansCovered
=============================================================================

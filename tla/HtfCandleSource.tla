--------------------------- MODULE HtfCandleSource ---------------------------
(***************************************************************************)
(* BybitPhase2CandleSource.load                                            *)
(* (app/research/htf_baseline_short_phase2_bybit_candle_source_v1.py): the *)
(* closed bars the HTF observer works on, fetched page by page in a window *)
(* that starts the history a level needs before the bar to resume at and   *)
(* ends where the page budget ends.  The exchange answers each page with   *)
(* its own clock, may leave bars out, may fail.                            *)
(*                                                                         *)
(* The unit of time is one bar: bar n is open from n to n + 1.             *)
(***************************************************************************)
EXTENDS Integers, FiniteSets, FiniteSetsExt

CONSTANTS
    MinHistory,            \* min_history_bars
    PageLimit,             \* page_limit
    MaxPages,              \* max_pages
    MaxBackfill,           \* max_backfill_bars
    MaxGapWindows,         \* max_gap_windows
    GapAttempts,           \* gap_recovery_attempts
    StartClock, MaxClock,  \* bound the exchange's clock
    MaxLag                 \* how far the clock of an answer may be behind

(* What __init__ refuses, and that the time of an answer is never negative *)
(* (_extract_server_time_ms takes a positive number only).                 *)
ASSUME SourceConstants ==
    /\ {MinHistory, PageLimit, MaxPages, MaxBackfill, MaxGapWindows, GapAttempts} \subseteq Nat \ {0}
    /\ MinHistory <= MaxPages * PageLimit
    /\ MaxLag \in Nat /\ StartClock \in Nat /\ MaxClock \in Nat /\ MaxLag <= StartClock /\ StartClock <= MaxClock

VARIABLES
    sourceClock,  \* the exchange's time
    resume,       \* the bar to resume at, NoResume before the first checkpoint
    spc,          \* where load is
    asOfOpen,     \* evaluation_asof_ms
    strict,       \* min(asof_ms, server_time_ms)
    cursor,       \* the next page's first bar
    pages,        \* pages asked for
    byOpen,       \* by_open
    unclosed,     \* unclosed_opens
    expected,     \* the bars that must be there
    gapTodo,      \* missing bars that recovery has not given up or found
    gapAttempt,   \* the attempt at the first of them
    requests      \* requests made by recovery

sourceVars == <<sourceClock, resume, spc, asOfOpen, strict, cursor, pages, byOpen, unclosed,
                expected, gapTodo, gapAttempt, requests>>

NoResume == 0 - MaxClock - MinHistory
Opens == NoResume..MaxClock

(* The type invariant.                                                     *)
SourceTypeOK ==
    /\ sourceClock \in StartClock..MaxClock /\ resume \in Opens
    /\ spc \in {"idle", "paging", "recover", "check", "returned", "failed", "MAX_PAGES_EXCEEDED"}
    /\ asOfOpen \in 0..MaxClock /\ strict \in (0 - MaxLag)..MaxClock
    /\ cursor \in Opens /\ pages \in 0..(MaxPages + 1)
    /\ byOpen \union unclosed \union expected \union gapTodo \subseteq Opens
    /\ gapAttempt \in 1..GapAttempts /\ requests \in 0..(MaxGapWindows * GapAttempts)

SourceInit ==
    /\ sourceClock = StartClock /\ resume = NoResume /\ spc = "idle"
    /\ asOfOpen = 0 /\ strict = 0 /\ cursor = 0 /\ pages = 0
    /\ byOpen = {} /\ unclosed = {} /\ expected = {} /\ gapTodo = {}
    /\ gapAttempt = 1 /\ requests = 0

-----------------------------------------------------------------------------
(* _plan_window.                                                           *)

EndOpen == asOfOpen - 1
Lesser(a, b) == IF a < b THEN a ELSE b
BatchBars == Lesser(MaxBackfill, MaxPages * PageLimit - MinHistory)
SteadyStart == EndOpen - (MinHistory - 1)

(* Mutant: the window starts at the bar to resume at, without its history. *)
WindowStartAtResume == IF resume = NoResume THEN SteadyStart ELSE Lesser(resume, SteadyStart)

WindowStart ==
    IF resume = NoResume THEN SteadyStart ELSE Lesser(resume - (MinHistory - 1), SteadyStart)

WindowEnd == IF resume = NoResume THEN EndOpen ELSE Lesser(EndOpen, resume + BatchBars - 1)

PageEnd == Lesser(WindowEnd, cursor + PageLimit - 1)

-----------------------------------------------------------------------------
(* A bar closes.                                                           *)
SourceTick ==
    /\ spc \in {"idle", "failed"} /\ sourceClock < MaxClock
    /\ sourceClock' = sourceClock + 1
    /\ UNCHANGED <<resume, spc, asOfOpen, strict, cursor, pages, byOpen, unclosed, expected,
                   gapTodo, gapAttempt, requests>>

(* load, up to the plan: the first answer of the exchange is the clock.  A *)
(* frozen evaluation_asof_ms is clipped to it.                             *)
StartLoad(t) ==
    /\ spc \in {"idle", "failed"}
    /\ asOfOpen' = t /\ strict' = t
    /\ UNCHANGED <<sourceClock, resume>>
    /\ IF resume # NoResume /\ BatchBars < 1 THEN spc' = "failed" /\ cursor' = cursor
       ELSE spc' = "paging" /\ cursor' = WindowStart'
    /\ pages' = 0 /\ byOpen' = {} /\ unclosed' = {} /\ expected' = {} /\ gapTodo' = {}
    /\ gapAttempt' = 1 /\ requests' = 0

(* The clock of a later answer may only lower the limit.                   *)
Stricter(t) == Lesser(strict, t)

Closed(o, t) == o + 1 <= t

(* One page and _merge_rows.                                               *)
FetchPage(rows, t) ==
    /\ spc = "paging" /\ cursor <= WindowEnd
    /\ rows \subseteq cursor..PageEnd
    /\ pages' = pages + 1
    /\ IF pages + 1 > MaxPages
       THEN spc' = "MAX_PAGES_EXCEEDED" /\ UNCHANGED <<strict, byOpen, unclosed, cursor>>
       ELSE /\ strict' = Stricter(t)
            /\ byOpen' = byOpen \union {o \in rows : Closed(o, strict')}
            /\ unclosed' = unclosed \union {o \in rows : ~Closed(o, strict')}
            /\ cursor' = PageEnd + 1
            /\ spc' = spc
    /\ UNCHANGED <<sourceClock, resume, asOfOpen, expected, gapTodo, gapAttempt, requests>>

(* The gap windows: runs of missing bars.                                  *)
GapStarts(S) == {o \in S : o - 1 \notin S}
FirstRun(S) == {o \in S : \A m \in Min(S)..o : m \in S}

(* After the last page: bars that the strictest clock calls open are       *)
(* dropped again, and what is missing among the others is looked for.      *)
SettlePages ==
    /\ spc = "paging" /\ cursor > WindowEnd
    /\ LET open == {o \in byOpen : ~Closed(o, strict)}
           want == (WindowStart..WindowEnd) \ (unclosed \union open)
           missing == want \ byOpen
       IN /\ byOpen' = byOpen \ open
          /\ unclosed' = unclosed \union open
          /\ expected' = want
          /\ gapTodo' = missing
          /\ spc' = IF byOpen' = {} \/ Cardinality(GapStarts(missing)) > MaxGapWindows
                    THEN "failed" ELSE IF missing = {} THEN "check" ELSE "recover"
    /\ UNCHANGED <<sourceClock, resume, asOfOpen, strict, cursor, pages, gapAttempt, requests>>

(* _recover_gaps, one request.  A run that its attempts do not fill is     *)
(* left, and the next one tried.                                           *)
GapPage == Min(gapTodo)..Lesser(Max(FirstRun(gapTodo)), Min(gapTodo) + PageLimit - 1)

FetchGap(rows, t) ==
    /\ spc = "recover" /\ gapTodo # {}
    /\ rows \subseteq GapPage
    /\ requests < MaxGapWindows * GapAttempts
    /\ requests' = requests + 1
    /\ LET limit == Lesser(strict, t)
       IN /\ byOpen' = byOpen \union {o \in rows : Closed(o, limit)}
          /\ unclosed' = unclosed \union {o \in rows : ~Closed(o, limit)}
    /\ IF GapPage \subseteq byOpen'
       THEN gapTodo' = gapTodo \ GapPage /\ gapAttempt' = 1
       ELSE IF gapAttempt < GapAttempts THEN gapTodo' = gapTodo /\ gapAttempt' = gapAttempt + 1
       ELSE gapTodo' = gapTodo \ FirstRun(gapTodo) /\ gapAttempt' = 1
    /\ UNCHANGED <<sourceClock, resume, spc, asOfOpen, strict, cursor, pages, expected>>

GapBudgetSpent ==
    /\ spc = "recover" /\ gapTodo # {} /\ requests >= MaxGapWindows * GapAttempts
    /\ spc' = "failed"
    /\ UNCHANGED <<sourceClock, resume, asOfOpen, strict, cursor, pages, byOpen, unclosed, expected,
                   gapTodo, gapAttempt, requests>>

RecoveryOver ==
    /\ spc = "recover" /\ gapTodo = {}
    /\ spc' = "check"
    /\ UNCHANGED <<sourceClock, resume, asOfOpen, strict, cursor, pages, byOpen, unclosed, expected,
                   gapTodo, gapAttempt, requests>>

(* Mutant: a history of exactly the required length is too short.          *)
CompleteStrictly == expected \subseteq byOpen /\ Cardinality(byOpen) > MinHistory

(* The second coverage check and the length of the history.                *)
Complete == expected \subseteq byOpen /\ Cardinality(byOpen) >= MinHistory

ReturnBars ==
    /\ spc = "check"
    /\ spc' = IF Complete THEN "returned" ELSE "failed"
    /\ UNCHANGED <<sourceClock, resume, asOfOpen, strict, cursor, pages, byOpen, unclosed, expected,
                   gapTodo, gapAttempt, requests>>

(* A request fails, or its payload or one of its rows is refused.          *)
RequestFails ==
    /\ spc \in {"paging", "recover"}
    /\ spc' = "failed"
    /\ UNCHANGED <<sourceClock, resume, asOfOpen, strict, cursor, pages, byOpen, unclosed, expected,
                   gapTodo, gapAttempt, requests>>

(* The observer advances over the bars from the one to resume at, and its  *)
(* checkpoint says where the next load resumes.                            *)
LastBar == Max(byOpen)

Consume ==
    /\ spc = "returned"
    /\ resume' = IF LastBar + 1 > resume THEN LastBar + 1 ELSE resume
    /\ spc' = "idle"
    /\ UNCHANGED <<sourceClock, asOfOpen, strict, cursor, pages, byOpen, unclosed, expected, gapTodo,
                   gapAttempt, requests>>

PageAnswers == (sourceClock - MaxLag)..sourceClock

(* The exchange answers in full and with the right time.                   *)
LoadProgress ==
    \/ StartLoad(sourceClock)
    \/ FetchPage(cursor..PageEnd, sourceClock)
    \/ SettlePages
    \/ spc = "recover" /\ gapTodo # {} /\ FetchGap(GapPage, sourceClock)
    \/ GapBudgetSpent \/ RecoveryOver \/ ReturnBars \/ Consume

SourceNext ==
    \/ SourceTick \/ RequestFails \/ LoadProgress
    \/ \E t \in PageAnswers :
         \/ StartLoad(t)
         \/ \E rows \in SUBSET (cursor..PageEnd) : FetchPage(rows, t)
         \/ spc = "recover" /\ gapTodo # {} /\ \E rows \in SUBSET GapPage : FetchGap(rows, t)

SourceSpec == SourceInit /\ [][SourceNext]_sourceVars

-----------------------------------------------------------------------------
(* What load returns has no hole: it is the window from its start to some  *)
(* last bar, every bar of it is closed by the strictest clock any page was *)
(* answered with, and whatever the window has after it is not.             *)
ReturnedIsWhole ==
    spc = "returned" =>
        /\ byOpen = WindowStart..LastBar
        /\ \A o \in WindowStart..WindowEnd : o \in byOpen <=> Closed(o, strict)

(* A backfill never skips: the bars returned hold the one to resume at     *)
(* with the history a level needs before it, and all that follow it,       *)
(* however long the observer was down.                                     *)
BackfillIsGapless ==
    spc = "returned" /\ resume # NoResume /\ LastBar >= resume
        => (resume - MinHistory + 1)..LastBar \subseteq byOpen

(* The window that is planned always fits the page budget: the error for   *)
(* an exceeded budget cannot happen.                                       *)
PlanFitsPages == spc # "MAX_PAGES_EXCEEDED"

(* Batch by batch the backfill catches up with the exchange, if requests   *)
(* do not fail and answers are not late or short for ever.                 *)
BackfillCatchesUp ==
    <>[][LoadProgress]_sourceVars => (spc = "paging" ~> resume = sourceClock)

(* load returns whole windows and a backfill skips nothing.                *)
SourceSafe ==
    SourceTypeOK /\ ReturnedIsWhole /\ BackfillIsGapless /\ PlanFitsPages
=============================================================================

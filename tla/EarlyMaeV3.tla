----------------------------- MODULE EarlyMaeV3 -----------------------------
(* The isolated out-of-sample collector of the ME_R_LONG early-MAE         *)
(* experiment, version 3 (app/research/me_r_long_early_mae_v3). A timer,   *)
(* or an operator, starts `once`: it fetches the closed candles, stores    *)
(* only the latest one, captures the source of a signal in the same        *)
(* transaction, and then evaluates the pending sources from the candles    *)
(* that earlier calls stored. Nothing is back-filled. One symbol is        *)
(* modelled; time runs in ticks, two to a 5-minute candle.                 *)
EXTENDS Naturals, FiniteSets

CONSTANTS Collectors,     \* `once` processes: the timer's and an operator's
          OosKinds,     \* what a candle may do
          SignalBars,   \* candles on which the detector may signal
          MaxLag,       \* 300 s: how late the latest candle is still stored
          OosHold,      \* BASELINE_MAX_HOLD_MINUTES
          OosHorizons,  \* horizon_minutes of the variants
          MaxOosTime    \* bound on the clock

ASSUME OosAssumption ==
    /\ OosKinds \subseteq {"quiet", "dip", "stop", "target", "both"}
    /\ OosHold \in Nat /\ OosHold % 2 = 0
    /\ \A h \in OosHorizons : h \in Nat /\ h % 2 = 0 /\ h < OosHold
    /\ SignalBars \subseteq Nat /\ MaxLag \in Nat /\ MaxOosTime \in Nat

VARIABLES oosTime,    \* the clock
          ticker,     \* what each closed candle did, stored or not
          signalled,  \* the closed candles on which detect_v1_closed signals
          kept,       \* the candles of the isolated market.candle
          events,     \* source_event: per signal candle, its row
          collector   \* per process: its step and what it holds

oosVars == <<oosTime, ticker, signalled, kept, events, collector>>

NoTime == MaxOosTime + 1
BarEnd(b) == 2 * b + 2
NoEvent == [status |-> "none", eligible |-> NoTime, entry |-> NoTime, exit |-> NoTime,
            why |-> "none", coverage |-> "none", ambiguous |-> FALSE]
Asleep == [pc |-> "asleep", bar |-> 0, at |-> 0]

OosInit ==
    /\ oosTime = 0
    /\ ticker = [b \in {} |-> "quiet"]
    /\ signalled = {}
    /\ kept = {}
    /\ events = [b \in SignalBars |-> NoEvent]
    /\ collector = [c \in Collectors |-> Asleep]

-----------------------------------------------------------------------------
(* The market. What a candle did is looked at only after a signal candle.  *)
OosTick ==
    /\ oosTime < MaxOosTime
    /\ oosTime' = oosTime + 1
    /\ LET b == oosTime' \div 2 - 1
       IN IF oosTime' % 2 = 0
          THEN /\ \E k \in IF \E x \in SignalBars : x < b THEN OosKinds ELSE {"quiet"} :
                    ticker' = [x \in DOMAIN ticker \cup {b} |->
                                 IF x \in DOMAIN ticker THEN ticker[x] ELSE k]
               /\ signalled' \in {signalled, signalled \cup ({b} \cap SignalBars)}
          ELSE UNCHANGED <<ticker, signalled>>
    /\ UNCHANGED <<kept, events, collector>>

-----------------------------------------------------------------------------
(* Collecting. collect_context asks for the candles, completed_only drops  *)
(* the open one; the later requests take time.                             *)
FetchContext(c) ==
    /\ collector[c].pc = "asleep"
    /\ DOMAIN ticker # {}
    /\ collector' = [collector EXCEPT ![c] =
         [pc |-> "fetching", at |-> 0,
          bar |-> CHOOSE b \in DOMAIN ticker : \A x \in DOMAIN ticker : x <= b]]
    /\ UNCHANGED <<oosTime, ticker, signalled, kept, events>>

CompleteFetch(c) ==
    /\ collector[c].pc = "fetching"
    /\ collector' = [collector EXCEPT ![c].pc = "fetched", ![c].at = oosTime]
    /\ UNCHANGED <<oosTime, ticker, signalled, kept, events>>

(* Mutant: the candle is committed before its capture.                     *)
CandleKeptFirst(b, captured) == {b}

(* What the transaction of one symbol leaves in market.candle: the latest  *)
(* candle, unless the capture that goes with it failed.                    *)
CandleKept(b, captured) == IF captured THEN {b} ELSE {}

NewEvent(at) ==
    [NoEvent EXCEPT !.status = "DETECTED", !.eligible = at, !.coverage = "PENDING"]

(* store_latest_5m and capture_source under one commit. The candle must be *)
(* new and closed no more than MaxLag before `completed`; a candle that    *)
(* another process stored first ends the work on the symbol, and an error  *)
(* in the capture rolls both back.                                         *)
StoreLatest(c) ==
    LET b == collector[c].bar
    IN /\ collector[c].pc = "fetched"
       /\ collector[c].at - BarEnd(b) <= MaxLag
       /\ b \notin kept
       /\ \E captured \in IF b \in signalled THEN BOOLEAN ELSE {TRUE} :
            /\ kept' = kept \cup CandleKept(b, captured)
            /\ events' = IF b \in signalled /\ captured /\ events[b] = NoEvent
                         THEN [events EXCEPT ![b] = NewEvent(collector[c].at)] ELSE events
       /\ collector' = [collector EXCEPT ![c] = [Asleep EXCEPT !.pc = "stored"]]
       /\ UNCHANGED <<oosTime, ticker, signalled>>

(* The other ways past the symbol: the detector rejects the context, the   *)
(* candle is too old, it is stored already, or the fetch failed.           *)
SkipSymbol(c) ==
    /\ collector[c].pc = "fetched"
    /\ collector' = [collector EXCEPT ![c] = [Asleep EXCEPT !.pc = "stored"]]
    /\ UNCHANGED <<oosTime, ticker, signalled, kept, events>>

-----------------------------------------------------------------------------
(* Evaluating.                                                             *)
NextBoundary(t) == 2 * (t \div 2 + 1)
Within(from, to) == {b \in 0..(MaxOosTime \div 2) : 2 * b >= from /\ BarEnd(b) <= to}

FirstTerminal(bars) ==
    LET ends == {b \in bars : ticker[b] \in {"stop", "target", "both"}}
    IN IF ends = {} THEN NoTime ELSE CHOOSE b \in ends : \A x \in ends : b <= x

(* evaluate_baseline walks the stored candles one by one and needs no more *)
(* of them than it has to look at.                                         *)
NoHole(entry, to, held) == Within(entry, to) \subseteq held
BaselineFrom(entry, held) ==
    LET b == FirstTerminal(Within(entry, entry + OosHold) \cap held)
        reason == CASE ticker[b] = "both" -> "AMBIGUOUS_STOP_FIRST"
                    [] ticker[b] = "stop" -> "STOP_LOSS"
                    [] OTHER              -> "TAKE_PROFIT"
    IN IF b # NoTime /\ NoHole(entry, BarEnd(b), held)
       THEN [exit |-> BarEnd(b), why |-> reason]
       ELSE IF NoHole(entry, entry + OosHold, held)
            THEN [exit |-> entry + OosHold, why |-> "FIXED_HORIZON_TIMEOUT"]
            ELSE [exit |-> NoTime, why |-> "INCOMPLETE_BASELINE_COVERAGE"]

(* evaluate_all: a variant is ambiguous when the candle that ended the     *)
(* trade within its horizon hit stop and target, or its own threshold too; *)
(* a candle that reaches the stop has passed every threshold.              *)
Collides(entry, base) ==
    \/ base.why = "AMBIGUOUS_STOP_FIRST"
    \/ base.why = "STOP_LOSS" /\ \E h \in OosHorizons : base.exit <= entry + h

(* load_pending_sources, then one source after another with the now of the *)
(* cycle; an error in one is counted and the next is tried.                *)
BeginCollect(c) ==
    /\ collector[c].pc = "stored"
    /\ collector' = [collector EXCEPT ![c] = [pc |-> "idle", bar |-> 0, at |-> oosTime]]
    /\ UNCHANGED <<oosTime, ticker, signalled, kept, events>>

LoadSource(c) ==
    /\ collector[c].pc = "idle"
    /\ \E b \in SignalBars :
         /\ events[b].status \in {"DETECTED", "ENTRY_FILLED"}
         /\ collector' = [collector EXCEPT ![c].pc = events[b].status, ![c].bar = b]
    /\ UNCHANGED <<oosTime, ticker, signalled, kept, events>>

(* The writes of an evaluation, each in its own transaction under the lock *)
(* of the row.                                                             *)
Marked(row) == [row EXCEPT !.coverage = "INCOMPLETE"]
Filled(row, e) == [row EXCEPT !.status = "ENTRY_FILLED", !.entry = e, !.coverage = "PENDING"]
Finalised(row, base) ==
    [row EXCEPT !.status = "FINALIZED", !.exit = base.exit, !.why = base.why,
                !.coverage = "COMPLETE"]
Diagnostic(row, base) ==
    [row EXCEPT !.status = "AMBIGUOUS_NONFINAL", !.exit = base.exit, !.why = base.why,
                !.coverage = "COMPLETE", !.ambiguous = TRUE]

(* _attempt_entry: the open of the first candle after the source became    *)
(* eligible, once that candle is closed; without the candle the coverage   *)
(* is INCOMPLETE and the source stays as it is.                            *)
AttemptEntry(c) ==
    LET b == collector[c].bar
        e == NextBoundary(events[b].eligible)
    IN /\ collector[c].pc = "DETECTED"
       /\ events' = [events EXCEPT ![b] =
            IF collector[c].at < e + 2 \/ @.status # "DETECTED" THEN @
            ELSE IF e \div 2 \in kept THEN Filled(@, e) ELSE Marked(@)]
       /\ collector' = [collector EXCEPT ![c].pc = "idle", ![c].bar = 0]
       /\ UNCHANGED <<oosTime, ticker, signalled, kept>>

(* _attempt_baseline with save_paired_outcome, save_ambiguous_outcome or   *)
(* mark_source_incomplete, each refused unless the row is ENTRY_FILLED.    *)
AttemptBaseline(c) ==
    LET b    == collector[c].bar
        e    == events[b].entry
        base == BaselineFrom(e, kept)
    IN /\ collector[c].pc = "ENTRY_FILLED"
       /\ events' = [events EXCEPT ![b] =
            IF collector[c].at < e + OosHold \/ @.status # "ENTRY_FILLED" THEN @
            ELSE IF base.exit = NoTime THEN Marked(@)
            ELSE IF Collides(e, base) THEN Diagnostic(@, base) ELSE Finalised(@, base)]
       /\ collector' = [collector EXCEPT ![c].pc = "idle", ![c].bar = 0]
       /\ UNCHANGED <<oosTime, ticker, signalled, kept>>

(* The call ends, or is killed between two of its transactions.            *)
EndOnce(c) ==
    /\ collector[c].pc # "asleep"
    /\ collector' = [collector EXCEPT ![c] = Asleep]
    /\ UNCHANGED <<oosTime, ticker, signalled, kept, events>>

OosNext ==
    \/ OosTick
    \/ \E c \in Collectors :
         \/ FetchContext(c) \/ CompleteFetch(c) \/ StoreLatest(c) \/ SkipSymbol(c)
         \/ BeginCollect(c) \/ LoadSource(c) \/ AttemptEntry(c) \/ AttemptBaseline(c) \/ EndOnce(c)

OosSpec == OosInit /\ [][OosNext]_oosVars

-----------------------------------------------------------------------------
(* Properties.                                                             *)

OosTypeOK ==
    /\ oosTime \in 0..MaxOosTime /\ kept \subseteq DOMAIN ticker
    /\ \A b \in SignalBars : events[b].status \in
         {"none", "DETECTED", "ENTRY_FILLED", "FINALIZED", "AMBIGUOUS_NONFINAL"}

(* A stored signal candle has its source: the candle is stored once and    *)
(* `once` skips what is stored, so a candle committed without its source   *)
(* would lose the signal for good. The source's delay is within 300 s.     *)
SignalIsCaptured ==
    \A b \in SignalBars :
      /\ b \in kept \cap signalled => events[b].status # "none"
      /\ events[b].status # "none" => b \in kept /\ events[b].eligible <= BarEnd(b) + MaxLag

(* No look-ahead and no cherry-picking: the entry is the first open after  *)
(* the source was eligible, and the exit is the one that the whole market  *)
(* tape gives, however many candles of the tape were never stored.         *)
OutcomeIsTrue ==
    \A b \in SignalBars :
      LET e == events[b].entry
      IN /\ e # NoTime => /\ e = NextBoundary(events[b].eligible)
                          /\ e > events[b].eligible /\ e + 2 <= oosTime
         /\ events[b].exit # NoTime =>
              /\ events[b].exit <= oosTime
              /\ [exit |-> events[b].exit, why |-> events[b].why]
                   = BaselineFrom(e, DOMAIN ticker)

(* A finalised pair has no doubt about the order inside a candle: no stop  *)
(* within a variant's horizon and no candle with both exits.               *)
FinalIsUnambiguous ==
    \A b \in SignalBars :
      events[b].status = "FINALIZED" =>
        /\ ~events[b].ambiguous
        /\ \A h \in OosHorizons : \A x \in Within(events[b].entry, events[b].entry + h) :
             BarEnd(x) <= events[b].exit => ticker[x] \notin {"stop", "both"}

(* Entries and terminal rows are never rewritten by a second process.      *)
RowsSettle ==
    [][\A b \in SignalBars :
         /\ events[b].status \in {"FINALIZED", "AMBIGUOUS_NONFINAL"} => events'[b] = events[b]
         /\ events[b].entry # NoTime => events'[b].entry = events[b].entry]_oosVars

MaeV3Safe ==
    [](OosTypeOK /\ SignalIsCaptured /\ OutcomeIsTrue /\ FinalIsUnambiguous) /\ RowsSettle
=============================================================================

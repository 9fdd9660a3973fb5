----------------------------- MODULE EarlyMaeV2 -----------------------------
(* The ME_R_LONG early-MAE experiment, version 2 (app/research/            *)
(* me_r_long_early_mae_v2): the scanner captures a source in one           *)
(* transaction and publishes it in a second one; evaluators (the service   *)
(* and a --once call) decide a virtual entry when the entry window is      *)
(* over, and later the baseline exit with its early-exit variants, from    *)
(* 5-minute candles that the candle store may receive late and in any      *)
(* order. Time runs in ticks, two to a candle, so that a source can become *)
(* available in the middle of one.                                         *)
EXTENDS Naturals, FiniteSets

CONSTANTS MaeEvaluators,  \* evaluator processes
          TapeKinds,      \* what a candle may do: see Touching and below
          MaeDetectedAt,  \* detected_at of the source
          EntryExpiry,    \* ENTRY_EXPIRY_MINUTES
          MaxHold,        \* BASELINE_MAX_HOLD_MINUTES
          Horizons,       \* horizon_minutes of the variants
          Environments,   \* the frozen protocol that each process is configured with
          MaxMaeTime      \* bound on the clock

ASSUME MaeAssumption ==
    /\ TapeKinds \subseteq {"quiet", "dip", "stop", "target", "both"}
    /\ EntryExpiry \in Nat \ {0} /\ MaxHold \in Nat \ {0}
    /\ \A h \in Horizons : h \in Nat /\ h % 2 = 0 /\ h <= MaxHold
    /\ MaxMaeTime \in Nat /\ MaeDetectedAt \in 0..MaxMaeTime

(* "none" stands for a protocol that is not registered yet.                *)
ASSUME EveryoneIsConfigured ==
    \A c \in Environments : \A p \in {"scanner"} \cup MaeEvaluators : c[p] # "none"

VARIABLES maeTime,   \* the clock
          tape,      \* what each closed candle did, whether stored or not
          filed,     \* the candles market.candle holds
          capturer,  \* the scanner: "off", "idle", "inserted", "done", "lost"
          source,    \* the row of source_event with its seven variant rows
          protocol,  \* the registered row of research_me_early_mae_v2.protocol
          env,       \* the configuration of each process, from Environments
          reader     \* per evaluator: its step and the verdict it has reached

maeVars == <<maeTime, tape, filed, capturer, source, protocol, env, reader>>

Never == MaxMaeTime + 1
Closes(b) == 2 * b + 2

Touching == {"dip", "stop", "both"}
Ending   == {"stop", "target", "both"}
Adverse  == {"dip", "stop", "both"}

NoSource == [status |-> "none", protocol |-> "none", published |-> Never, entry |-> Never, reason |-> "none",
             exit |-> Never, why |-> "none", coverage |-> "none",
             rows |-> [h \in Horizons |-> "NONE"]]
Off    == [pc |-> "off", entry |-> Never, reason |-> "none"]
AtRest == [pc |-> "idle", entry |-> Never, reason |-> "none"]

MaeInit ==
    /\ maeTime = MaeDetectedAt
    /\ tape = [b \in {} |-> "quiet"]
    /\ filed = {}
    /\ capturer = "off"
    /\ source = NoSource
    /\ protocol = "none"
    /\ env \in Environments
    /\ reader = [e \in MaeEvaluators |-> Off]

-----------------------------------------------------------------------------
(* The world: time passes, a candle that closes has done something, and    *)
(* the candle store learns of it at any later moment. Candles that opened  *)
(* before the detection are never looked at and left out.                  *)
MaeTick ==
    /\ maeTime < MaxMaeTime
    /\ maeTime' = maeTime + 1
    /\ IF maeTime' % 2 = 0 /\ maeTime' - 2 >= MaeDetectedAt
       THEN \E k \in TapeKinds :
              tape' = [b \in DOMAIN tape \cup {maeTime' \div 2 - 1} |->
                         IF b \in DOMAIN tape THEN tape[b] ELSE k]
       ELSE UNCHANGED tape
    /\ UNCHANGED <<filed, capturer, source, protocol, env, reader>>

FileCandle ==
    /\ \E b \in DOMAIN tape \ filed : filed' = filed \cup {b}
    /\ UNCHANGED <<maeTime, tape, capturer, source, protocol, env, reader>>

-----------------------------------------------------------------------------
(* register_protocol, the first call of every process: the first one       *)
(* stores its frozen protocol, a later one must find exactly its own.      *)
MayRegister(p) == protocol \in {"none", env[p]}

RegisterScanner ==
    /\ capturer = "off" /\ MayRegister("scanner")
    /\ protocol' = env["scanner"]
    /\ capturer' = "idle"
    /\ UNCHANGED <<maeTime, tape, filed, source, env, reader>>

RegisterEvaluator(e) ==
    /\ reader[e].pc = "off" /\ MayRegister(e)
    /\ protocol' = env[e]
    /\ reader' = [reader EXCEPT ![e] = AtRest]
    /\ UNCHANGED <<maeTime, tape, filed, capturer, source, env>>

(* The scanner's capture. A bad geometry is stored as INVALID; a candidate *)
(* of another scanner or from before the activation is not stored at all.  *)
Detected(s) ==
    [NoSource EXCEPT !.status = s, !.protocol = env["scanner"],
                     !.rows = [h \in Horizons |-> "PENDING"]]
Capture ==
    /\ capturer = "idle"
    /\ \E s \in {"DETECTED", "INVALID"} : source' = Detected(s)
    /\ capturer' = "inserted"
    /\ UNCHANGED <<maeTime, tape, filed, protocol, env, reader>>

(* The second transaction stamps source_available_at with the database's   *)
(* clock; it is never tried again when it fails or the scanner dies.       *)
Publish ==
    /\ capturer = "inserted"
    /\ source' = [source EXCEPT !.published = maeTime]
    /\ capturer' = "done"
    /\ UNCHANGED <<maeTime, tape, filed, protocol, env, reader>>

LosePublish ==
    /\ capturer = "inserted"
    /\ capturer' = "lost"
    /\ UNCHANGED <<maeTime, tape, filed, source, protocol, env, reader>>

-----------------------------------------------------------------------------
(* What an evaluator works out from the candles that it fetches.           *)

Spanned(from, to) == {b \in 0..(MaxMaeTime \div 2) : 2 * b >= from /\ Closes(b) <= to}

(* Mutant: the candles before the touch are not looked for.                *)
EntryAssumed(held, from, to) == TRUE

(* check_entry_coverage: every candle that lies wholly between the two     *)
(* times is there, and there is one.                                       *)
EntryCovered(held, from, to) == Spanned(from, to) # {} /\ Spanned(from, to) \subseteq held

ExpiryAt == MaeDetectedAt + EntryExpiry

(* evaluate_virtual_fill: the first touching candle after publication, if  *)
(* no candle before it is missing.                                         *)
FillAt(held, published) ==
    LET touched == {b \in held : /\ 2 * b >= published /\ Closes(b) <= ExpiryAt
                                 /\ tape[b] \in Touching}
        first == CHOOSE b \in touched : \A c \in touched : b <= c
    IN IF touched # {} /\ EntryCovered(held, published, Closes(first))
       THEN Closes(first) ELSE Never

(* first_terminal_exit: the first candle of a window that hits the stop or *)
(* the target; the stop comes first when it hits both.                     *)
FirstEnd(from, to) ==
    LET ends == {b \in Spanned(from, to) : tape[b] \in Ending}
    IN IF ends = {} THEN Never ELSE CHOOSE b \in ends : \A c \in ends : b <= c
EndReason(b) == CASE tape[b] = "both" -> "AMBIGUOUS_STOP_FIRST"
                  [] tape[b] = "stop" -> "STOP_LOSS"
                  [] OTHER            -> "TAKE_PROFIT"

(* baseline_outcome over a complete window (validate_window).              *)
BaselineOf(entry) ==
    LET b == FirstEnd(entry, entry + MaxHold)
    IN IF b = Never THEN [exit |-> entry + MaxHold, why |-> "FIXED_HORIZON"]
       ELSE [exit |-> Closes(b), why |-> EndReason(b)]

(* evaluate_variant: leave at the horizon if the price ran against the     *)
(* entry far enough and neither stop nor target was hit before.            *)
VariantOf(entry, base, h) ==
    LET end == entry + h
        b   == FirstEnd(entry, end)
    IN IF base.exit < end THEN [exit |-> base.exit, status |-> "BASELINE_EXITED_EARLY"]
       ELSE IF b # Never
            THEN [exit |-> Closes(b),
                  status |-> IF tape[b] = "both" THEN "AMBIGUOUS" ELSE "BASELINE_EXITED_EARLY"]
            ELSE IF \E c \in Spanned(entry, end) : tape[c] \in Adverse
                 THEN [exit |-> end, status |-> "EVALUATED_TRIGGERED"]
                 ELSE [exit |-> base.exit, status |-> "EVALUATED_NO_TRIGGER"]

-----------------------------------------------------------------------------
(* One evaluator's work on the source: load it, then decide from the       *)
(* candles, then write under the row conditions of the repository. The     *)
(* columns that it read beside the status are never changed once set, and  *)
(* no decision looks past the window that its now has left behind.         *)
Load(e) ==
    /\ reader[e].pc = "idle"
    /\ source.status \in {"DETECTED", "ENTRY_FILLED"}
    /\ source.published # Never
    /\ maeTime >= IF source.status = "DETECTED" THEN ExpiryAt ELSE source.entry + MaxHold
    /\ reader' = [reader EXCEPT ![e].pc = source.status]
    /\ UNCHANGED <<maeTime, tape, filed, capturer, source, protocol, env>>

(* _attempt_fill.                                                          *)
Attempt(e) ==
    LET published == source.published
        fill == FillAt(filed, published)
    IN /\ reader[e].pc = "DETECTED"
       /\ reader' = [reader EXCEPT ![e] =
            IF published >= ExpiryAt
            THEN [AtRest EXCEPT !.pc = "refuse", !.reason = "SOURCE_AVAILABLE_AFTER_EXPIRY"]
            ELSE IF fill # Never THEN [AtRest EXCEPT !.pc = "fill", !.entry = fill]
            ELSE IF EntryCovered(filed, published, ExpiryAt)
                 THEN [AtRest EXCEPT !.pc = "refuse", !.reason = "ENTRY_NOT_FILLED"]
                 ELSE AtRest]
       /\ UNCHANGED <<maeTime, tape, filed, capturer, source, protocol, env>>

(* mark_source_not_filled and update_source_entry, followed by             *)
(* ensure_variants, which finds the rows that the capture made.            *)
Refuse(e) ==
    /\ reader[e].pc = "refuse"
    /\ source' = IF source.status = "DETECTED"
                 THEN [source EXCEPT !.status = "ENTRY_NOT_FILLED",
                                     !.reason = reader[e].reason]
                 ELSE source
    /\ reader' = [reader EXCEPT ![e] = AtRest]
    /\ UNCHANGED <<maeTime, tape, filed, capturer, protocol, env>>

Fill(e) ==
    /\ reader[e].pc = "fill"
    /\ source' = IF source.status = "DETECTED"
                 THEN [source EXCEPT !.status = "ENTRY_FILLED", !.coverage = "PENDING",
                                     !.entry = reader[e].entry]
                 ELSE source
    /\ reader' = [reader EXCEPT ![e] = AtRest]
    /\ UNCHANGED <<maeTime, tape, filed, capturer, protocol, env>>

IncompleteBatch(s) == [s EXCEPT !.rows = [h \in Horizons |-> "INCOMPLETE_COVERAGE"]]
PairedRow(s, base) ==
    [s EXCEPT !.status = "FINALIZED", !.exit = base.exit, !.why = base.why,
              !.coverage = "COMPLETE",
              !.rows = [h \in Horizons |-> VariantOf(s.entry, base, h)]]

(* The baseline: when its window has a hole the variants are marked        *)
(* INCOMPLETE_COVERAGE and the source stays; otherwise the baseline, the   *)
(* variants and FINALIZED are one transaction, refused when the source     *)
(* is no longer ENTRY_FILLED.                                              *)
Evaluate(e) ==
    LET base == BaselineOf(source.entry)
        full == Spanned(source.entry, source.entry + MaxHold) \subseteq filed
    IN /\ reader[e].pc = "ENTRY_FILLED"
       /\ source' = CASE source.status # "ENTRY_FILLED" -> source
                      [] source.status = "ENTRY_FILLED" /\ full -> PairedRow(source, base)
                      [] OTHER -> IncompleteBatch(source)
       /\ reader' = [reader EXCEPT ![e] = AtRest]
       /\ UNCHANGED <<maeTime, tape, filed, capturer, protocol, env>>

(* A statement fails or the process ends: nothing of the step is kept.     *)
GiveUp(e) ==
    /\ reader[e].pc \notin {"off", "idle"}
    /\ reader' = [reader EXCEPT ![e] = AtRest]
    /\ UNCHANGED <<maeTime, tape, filed, capturer, source, protocol, env>>

MaeNext ==
    \/ MaeTick \/ FileCandle \/ RegisterScanner \/ Capture \/ Publish \/ LosePublish
    \/ \E e \in MaeEvaluators :
         \/ RegisterEvaluator(e) \/ Load(e) \/ Attempt(e) \/ Refuse(e)
         \/ Fill(e) \/ Evaluate(e) \/ GiveUp(e)

MaeSpec == MaeInit /\ [][MaeNext]_maeVars

-----------------------------------------------------------------------------
(* Properties.                                                             *)

MaeTypeOK ==
    /\ maeTime \in Nat /\ filed \subseteq DOMAIN tape
    /\ capturer \in {"off", "idle", "inserted", "done", "lost"}
    /\ source.status \in {"none", "INVALID", "DETECTED", "ENTRY_NOT_FILLED",
                          "ENTRY_FILLED", "FINALIZED"}

(* A virtual entry is at the first candle of the market that touched the   *)
(* zone after publication, stored or not, and a source is written off as   *)
(* not filled only if no candle of its window did: the coverage check in   *)
(* front of both verdicts lets no late candle prove them wrong.            *)
TrueTouches ==
    {b \in DOMAIN tape : /\ 2 * b >= source.published /\ Closes(b) <= ExpiryAt
                         /\ tape[b] \in Touching}
EntryIsTrue ==
    /\ source.entry # Never =>
         /\ \E b \in TrueTouches : Closes(b) = source.entry
         /\ \A b \in TrueTouches : Closes(b) >= source.entry
    /\ source.reason = "ENTRY_NOT_FILLED" => TrueTouches = {}

(* A variant never holds longer than its baseline, leaves at its own       *)
(* horizon only when it triggered, and is ambiguous only with a baseline   *)
(* that is: the pair compares one exit rule with another on one trade.     *)
PairedOutcome ==
    source.status = "FINALIZED" =>
      \A h \in Horizons :
        /\ source.rows[h].exit <= source.exit
        /\ source.rows[h].exit < source.exit => source.rows[h].status = "EVALUATED_TRIGGERED"
        /\ source.rows[h].status = "AMBIGUOUS" => source.why = "AMBIGUOUS_STOP_FIRST"

(* With two evaluators and loaded rows that are out of date: an entry, a   *)
(* refusal and a finished outcome are written once and never altered, and  *)
(* a source is finished only from ENTRY_FILLED.                            *)
WrittenOnce ==
    [][/\ source.status \in {"FINALIZED", "ENTRY_NOT_FILLED", "INVALID"} =>
            source'.status = source.status /\ source'.exit = source.exit
              /\ source'.reason = source.reason /\ source'.entry = source.entry
       /\ source.entry # Never => source'.entry = source.entry
       /\ (source'.status = "FINALIZED" /\ source.status # "FINALIZED") =>
            source.status = "ENTRY_FILLED"]_maeVars

(* A process whose configuration has drifted from the frozen protocol      *)
(* neither captures nor evaluates: all that work, and the source, are of   *)
(* one protocol.                                                           *)
OneProtocol ==
    /\ source.status # "none" => source.protocol = protocol
    /\ capturer # "off" => env["scanner"] = protocol
    /\ \A e \in MaeEvaluators : reader[e].pc # "off" => env[e] = protocol

MaeV2Safe == [](MaeTypeOK /\ OneProtocol /\ EntryIsTrue /\ PairedOutcome) /\ WrittenOnce
=============================================================================

--------------------------- MODULE MeShortForward ----------------------------
(***************************************************************************)
(* The forward outcome runtime of ME SHORT A                               *)
(* (app/research/me_short_a_forward_outcome_runtime_v1.py and its runner): *)
(* a cycle drains the candidate pages of two tables behind a keyset        *)
(* cursor, writes a source signal and a lineage row for each candidate     *)
(* (..._lineage_v1.py), follows every event without an outcome through its *)
(* post-signal candles and finalizes it.  Beside it the scanner commits    *)
(* candidates, phase 1 writes its own rows, operators change the           *)
(* activation and systemd sends SIGTERM.                                   *)
(*                                                                         *)
(* An event is a signal; its number orders it by signal time.  Event n is  *)
(* signalled at time n, its candle k closes at n + k.                      *)
(***************************************************************************)
EXTENDS Integers, FiniteSets

CONSTANTS
    MaxEvent,        \* events are 1..MaxEvent
    MeFreeze,        \* freeze_ts, as an event time
    MeHorizon,       \* post-signal candles of an event
    MePageSize,      \* page_size
    Phase1Attempts,  \* phase1_link_retry_attempts
    SendStop,        \* whether SIGTERM is sent
    MaxTime          \* bounds time

ASSUME MeConstants ==
    /\ {MaxEvent, MeHorizon, MePageSize, Phase1Attempts} \subseteq Nat \ {0}
    /\ {MeFreeze, MaxTime} \subseteq Nat
    /\ SendStop \in BOOLEAN

VARIABLES
    meTime,
    candRows,    \* committed candidate rows, as <<source, event>>
    lateRows,    \* history: rows committed behind the cursor
    phase1,      \* events with a phase 1 snapshot
    meStatus,    \* the activation row: "NOT_ACTIVATED", "RUNNING" or "STOPPED"
    mpc,         \* where the process is in main
    rstate,      \* the runtime's _state
    stopAsked,   \* history: SIGTERM was received and is not yet obeyed
    turn,        \* the source the composite page starts with
    keyset,      \* the cursor of each source
    mePage,      \* rows of the page being handled
    meLeft,      \* events of the page still to be handled
    current,     \* the event between the steps of _handle_candidate
    tries,       \* phase 1 lookups made for it
    linkFound,   \* and whether the last one found the row
    remembered,  \* _seen_candidate_ids
    meSignals,   \* me_short_a_source_signal_v1
    meLineage,   \* me_short_a_event_lineage_v1: link_status of each event
    meCandles,   \* me_short_a_post_signal_candle_v1: the candles of each event
    openNow,     \* open events still to be advanced in this cycle
    meOutcome    \* me_short_a_outcome_observation_v1: outcome_status

meTables == <<meSignals, meLineage, meCandles, meOutcome>>
meInput == <<meTime, candRows, lateRows, phase1, meStatus>>
meWork == <<turn, keyset, mePage, meLeft, current, tries, linkFound, remembered, openNow>>
meVars == <<meInput, mpc, rstate, stopAsked, meWork, meTables>>

Events == 1..MaxEvent
Sources == {"dds", "intake"}

(* The type invariant.                                                     *)
MeTypeOK ==
    /\ meTime \in 0..MaxTime /\ lateRows \subseteq candRows /\ candRows \subseteq Sources \X Events
    /\ phase1 \subseteq Events /\ meStatus \in {"NOT_ACTIVATED", "RUNNING", "STOPPED"}
    /\ mpc \in {"down", "top", "pages", "handle", "lookup", "record", "advance", "events",
                "beat", "check", "sleep"}
    /\ rstate \in {"IDLE", "RUNNING", "STOPPING", "FAILED"}
    /\ stopAsked \in BOOLEAN /\ linkFound \in BOOLEAN
    /\ turn \in Sources /\ keyset \in [Sources -> 0..MaxEvent]
    /\ mePage \subseteq candRows /\ meLeft \union remembered \union meSignals \union openNow \subseteq Events
    /\ current \in 0..MaxEvent /\ tries \in 0..Phase1Attempts
    /\ meLineage \in [Events -> {"none", "LINKED", "PHASE1_PENDING"}]
    /\ meCandles \in [Events -> SUBSET (1..MeHorizon)]
    /\ meOutcome \in [Events -> {"none", "MATCHED_FINALIZED", "SOURCE_INCOMPLETE"}]

MeInit ==
    /\ meTime = 0 /\ candRows = {} /\ lateRows = {} /\ phase1 = {} /\ meStatus = "NOT_ACTIVATED"
    /\ mpc = "down" /\ rstate = "IDLE" /\ stopAsked = FALSE
    /\ turn = "dds" /\ keyset = [s \in Sources |-> 0]
    /\ mePage = {} /\ meLeft = {} /\ current = 0 /\ tries = 0 /\ linkFound = FALSE
    /\ remembered = {} /\ openNow = {}
    /\ meSignals = {} /\ meLineage = [e \in Events |-> "none"] /\ meOutcome = [e \in Events |-> "none"]
    /\ meCandles = [e \in Events |-> {}]

-----------------------------------------------------------------------------
(* The surroundings.                                                       *)

MeTick ==
    /\ meTime < MaxTime /\ meTime' = meTime + 1
    /\ UNCHANGED <<candRows, lateRows, phase1, meStatus, mpc, rstate, stopAsked, meWork, meTables>>

(* The largest event of a source in the page, or where its cursor is.      *)
KeysetAfter(s) == LET S == {e \in Events : <<s, e>> \in mePage}
            IN IF S = {} THEN keyset[s] ELSE CHOOSE e \in S : \A d \in S : d <= e

(* A transaction of the scanner commits; not always in signal order.       *)
CommitCandidate(s, e) ==
    /\ e <= meTime /\ <<s, e>> \notin candRows
    /\ candRows' = candRows \union {<<s, e>>}
    /\ lateRows' = IF e <= KeysetAfter(s) THEN lateRows \union {<<s, e>>} ELSE lateRows
    /\ UNCHANGED <<meTime, phase1, meStatus, mpc, rstate, stopAsked, meWork, meTables>>

CommitPhase1(e) ==
    /\ e <= meTime /\ e \notin phase1
    /\ phase1' = phase1 \union {e}
    /\ UNCHANGED <<meTime, candRows, lateRows, meStatus, mpc, rstate, stopAsked, meWork, meTables>>

ToggleActivation ==
    /\ meStatus' = IF meStatus = "RUNNING" THEN "STOPPED" ELSE "RUNNING"
    /\ UNCHANGED <<meTime, candRows, lateRows, phase1, mpc, rstate, stopAsked, meWork, meTables>>

(* request_stop, from the signal handler, at any point of the process.     *)
RequestStop ==
    /\ SendStop /\ mpc # "down" /\ ~stopAsked
    /\ stopAsked' = TRUE
    /\ rstate' = IF rstate = "RUNNING" THEN "STOPPING" ELSE rstate
    /\ UNCHANGED <<meInput, mpc, meWork, meTables>>

(* The process has no memory but the tables.                               *)
ResetRuntime ==
    /\ turn' = "dds" /\ keyset' = [s \in Sources |-> 0] /\ lateRows' = {}
    /\ mePage' = {} /\ meLeft' = {} /\ current' = 0 /\ tries' = 0 /\ linkFound' = FALSE
    /\ remembered' = {} /\ openNow' = {}

(* main refuses to run without an activation.                              *)
StartRuntime ==
    /\ mpc = "down" /\ meStatus = "RUNNING"
    /\ mpc' = "top" /\ rstate' = "RUNNING" /\ stopAsked' = FALSE
    /\ ResetRuntime /\ UNCHANGED <<meTime, candRows, phase1, meStatus, meTables>>

KillRuntime ==
    /\ mpc # "down"
    /\ mpc' = "down" /\ rstate' = "IDLE" /\ stopAsked' = FALSE
    /\ ResetRuntime /\ UNCHANGED <<meTime, candRows, phase1, meStatus, meTables>>

-----------------------------------------------------------------------------
(* run_cycle.                                                              *)

(* _transition(RUNNING, ...) at the start of a cycle and after it.         *)
EnterRunning == rstate' = "RUNNING"

(* Without an activation the cycle is only a heartbeat.                    *)
BeginCycleMe ==
    /\ mpc = "top" /\ EnterRunning
    /\ mpc' = IF meStatus = "RUNNING" THEN "pages" ELSE "beat"
    /\ UNCHANGED <<meInput, stopAsked, meWork, meTables>>

(* A statement of the cycle fails: the runtime ends FAILED.                *)
CycleBreaks ==
    /\ mpc \in {"top", "advance"}
    /\ rstate' = "FAILED" /\ mpc' = "beat"
    /\ UNCHANGED <<meInput, stopAsked, meWork, meTables>>

(* fetch_page of one source: post-freeze rows behind its cursor, in order, *)
(* at most n.                                                              *)
Behind(s) == {e \in Events : <<s, e>> \in candRows /\ e > MeFreeze /\ e > keyset[s]}

FirstOf(S, n) == {e \in S : Cardinality({d \in S : d <= e}) <= n}

OtherSource(s) == IF s = "dds" THEN "intake" ELSE "dds"

(* CompositeCandidateSource.fetch_page: a share for each source, beginning *)
(* with the one whose turn it is, then what room is left.  An intake that  *)
(* cannot be read has an empty page.                                       *)
Composite(readable) ==
    LET V(s) == IF s \in readable THEN Behind(s) ELSE {}
        share == IF MePageSize > 1 THEN MePageSize \div 2 ELSE 1
        a1 == FirstOf(V(turn), share)
        a2 == FirstOf(V(OtherSource(turn)), IF share < MePageSize - Cardinality(a1)
                                        THEN share ELSE MePageSize - Cardinality(a1))
        b1 == FirstOf(V(turn) \ a1, MePageSize - Cardinality(a1) - Cardinality(a2))
        b2 == FirstOf(V(OtherSource(turn)) \ a2,
                      MePageSize - Cardinality(a1) - Cardinality(a2) - Cardinality(b1))
    IN ({turn} \X (a1 \union b1)) \union ({OtherSource(turn)} \X (a2 \union b2))

(* _observe_candidates, one page.  Both rows of an event in one page are   *)
(* one candidate.                                                          *)
FetchCandidates(readable) ==
    /\ mpc = "pages" /\ "dds" \in readable
    /\ mePage' = Composite(readable)
    /\ meLeft' = {r[2] : r \in Composite(readable)}
    /\ mpc' = IF Composite(readable) = {} THEN "advance" ELSE "handle"
    /\ UNCHANGED <<meInput, rstate, stopAsked, turn, keyset, current, tries, linkFound, remembered,
                   openNow, meTables>>

(* The page cannot be read: intake is over for this cycle.                 *)
FetchFails ==
    /\ mpc = "pages" /\ mpc' = "advance"
    /\ UNCHANGED <<meInput, rstate, stopAsked, meWork, meTables>>

(* HANDLER_RETRY: the rest of the page stays, the cursor too.              *)
StallPage ==
    /\ mpc' = "advance" /\ meLeft' = {} /\ mePage' = {} /\ current' = 0 /\ tries' = 0 /\ linkFound' = FALSE
    /\ UNCHANGED <<turn, keyset, remembered, openNow>>

(* _gated, and again in the INSERT's WHERE EXISTS.                         *)
ActivationGate == meStatus = "RUNNING"

(* The three writers, all ON CONFLICT DO NOTHING.                          *)
SignalStored(e, ok) == IF ok /\ ActivationGate THEN meSignals \union {e} ELSE meSignals

LineageStored(e, ok) ==
    IF ok /\ ActivationGate /\ meLineage[e] = "none"
    THEN [meLineage EXCEPT ![e] = IF linkFound THEN "LINKED" ELSE "PHASE1_PENDING"] ELSE meLineage

CandlesStored(e, got) ==
    IF ActivationGate THEN [meCandles EXCEPT ![e] = @ \union got] ELSE meCandles

(* capture_source_signal, then the row is read back.  ok: the INSERT and   *)
(* the SELECT do not fail.                                                 *)
CaptureSignal(e, ok) ==
    /\ mpc = "handle" /\ e \in meLeft
    /\ IF e \in remembered
       THEN meLeft' = meLeft \ {e} /\ UNCHANGED <<mpc, turn, keyset, mePage, current, tries, linkFound,
                                              remembered, openNow, meSignals>>
       ELSE /\ meSignals' = SignalStored(e, ok)
            /\ IF ok /\ e \in meSignals'
               THEN mpc' = "lookup" /\ current' = e /\ tries' = 0
                    /\ UNCHANGED <<turn, keyset, mePage, meLeft, linkFound, remembered, openNow>>
               ELSE StallPage
    /\ UNCHANGED <<meInput, rstate, stopAsked, meLineage, meCandles, meOutcome>>

(* _phase1_lookup, with a bounded number of retries.                       *)
LookUpPhase1(ok) ==
    /\ mpc = "lookup"
    /\ IF ~ok THEN StallPage
       ELSE /\ tries' = tries + 1
            /\ linkFound' = (current \in phase1)
            /\ mpc' = IF linkFound' \/ tries' >= Phase1Attempts THEN "record" ELSE "lookup"
            /\ UNCHANGED <<turn, keyset, mePage, meLeft, current, remembered, openNow>>
    /\ UNCHANGED <<meInput, rstate, stopAsked, meTables>>

(* record_event_lineage, ON CONFLICT DO NOTHING, and the row is read back. *)
RecordLineage(ok) ==
    /\ mpc = "record"
    /\ meLineage' = LineageStored(current, ok)
    /\ IF meLineage'[current] # "none"
       THEN /\ remembered' = remembered \union {current}
            /\ meLeft' = meLeft \ {current}
            /\ current' = 0 /\ tries' = 0 /\ linkFound' = FALSE /\ mpc' = "handle"
            /\ UNCHANGED <<turn, keyset, mePage, openNow>>
       ELSE StallPage
    /\ UNCHANGED <<meInput, rstate, stopAsked, meSignals, meCandles, meOutcome>>

(* Mutant: the cursor moves when the page is read.                         *)
PageHandledEarly ==
    /\ mpc = "handle" /\ mePage # {}
    /\ keyset' = [s \in Sources |-> KeysetAfter(s)]
    /\ turn' = OtherSource(turn) /\ mePage' = {}
    /\ mpc' = IF meLeft = {} THEN "advance" ELSE "handle"
    /\ UNCHANGED <<meInput, rstate, stopAsked, meLeft, current, tries, linkFound, remembered, openNow, meTables>>

(* The whole page was handled: only now the cursor moves.                  *)
PageHandled ==
    /\ mpc = "handle" /\ meLeft = {}
    /\ keyset' = [s \in Sources |-> KeysetAfter(s)]
    /\ turn' = OtherSource(turn)
    /\ mpc' = IF Cardinality(mePage) < MePageSize THEN "advance" ELSE "pages"
    /\ mePage' = {}
    /\ UNCHANGED <<meInput, rstate, stopAsked, meLeft, current, tries, linkFound, remembered, openNow, meTables>>

-----------------------------------------------------------------------------
(* _advance_open_events: a query, then one event after the other.          *)

ReadOpenEvents ==
    /\ mpc = "advance"
    /\ openNow' = {e \in Events : meLineage[e] # "none" /\ meOutcome[e] = "none"}
    /\ mpc' = "events"
    /\ UNCHANGED <<meInput, rstate, stopAsked, turn, keyset, mePage, meLeft, current, tries, linkFound,
                   remembered, meTables>>

ClosedCandles(e) == {k \in 1..MeHorizon : e + k <= meTime}

(* The last candle of the window has closed.                               *)
WindowClosed(got) == MeHorizon \in got

(* compute_outcome: without all the candles of the window there is none.   *)
OutcomeStatus(got) == IF got = 1..MeHorizon THEN "MATCHED_FINALIZED" ELSE "SOURCE_INCOMPLETE"

(* finalize_outcome: written once, whatever comes later.                   *)
OutcomeStored(e, got, ok) ==
    IF ok /\ WindowClosed(got) /\ ActivationGate /\ meOutcome[e] = "none"
    THEN [meOutcome EXCEPT ![e] = OutcomeStatus(got)] ELSE meOutcome

(* _advance_event with the candles the source answers and the ones that    *)
(* could be stored.                                                        *)
AdvanceEvent(e, got, kept, ok) ==
    /\ mpc = "events" /\ e \in openNow /\ got \subseteq ClosedCandles(e)
    /\ openNow' = openNow \ {e}
    /\ meCandles' = CandlesStored(e, kept)
    /\ meOutcome' = OutcomeStored(e, got, ok)
    /\ UNCHANGED <<meInput, mpc, rstate, stopAsked, turn, keyset, mePage, meLeft, current, tries, linkFound,
                   remembered, meSignals, meLineage>>

EventsAdvanced ==
    /\ mpc = "events" /\ openNow = {}
    /\ EnterRunning
    /\ mpc' = "beat"
    /\ UNCHANGED <<meInput, stopAsked, meWork, meTables>>

(* heartbeat, which never raises.                                          *)
WriteHeartbeat ==
    /\ mpc = "beat" /\ mpc' = "check"
    /\ UNCHANGED <<meInput, rstate, stopAsked, meWork, meTables>>

(* main after a cycle: end on FAILED and on STOPPING, or sleep.            *)
CheckState ==
    /\ mpc = "check"
    /\ IF rstate \in {"FAILED", "STOPPING"}
       THEN mpc' = "down" /\ rstate' = "IDLE" /\ stopAsked' = FALSE /\ ResetRuntime
       ELSE mpc' = "sleep" /\ UNCHANGED <<rstate, stopAsked, meWork, lateRows>>
    /\ UNCHANGED <<meTime, candRows, phase1, meStatus, meTables>>

(* A signal does not end time.sleep.                                       *)
WakeUp ==
    /\ mpc = "sleep" /\ mpc' = "top"
    /\ UNCHANGED <<meInput, rstate, stopAsked, meWork, meTables>>

(* What the process does when nothing fails.                               *)
MeProgress ==
    \/ StartRuntime \/ BeginCycleMe \/ FetchCandidates(Sources)
    \/ \E e \in meLeft : CaptureSignal(e, TRUE)
    \/ LookUpPhase1(TRUE) \/ RecordLineage(TRUE) \/ PageHandled
    \/ ReadOpenEvents \/ (\E e \in openNow : AdvanceEvent(e, ClosedCandles(e), ClosedCandles(e), TRUE)) \/ EventsAdvanced
    \/ WriteHeartbeat \/ CheckState \/ WakeUp

MeFails ==
    \/ CycleBreaks \/ FetchFails \/ FetchCandidates({"dds"})
    \/ \E e \in meLeft : CaptureSignal(e, FALSE)
    \/ LookUpPhase1(FALSE) \/ RecordLineage(FALSE)
    \/ \E e \in openNow : \E got \in SUBSET ClosedCandles(e), ok \in BOOLEAN :
            AdvanceEvent(e, got, got, ok) \/ AdvanceEvent(e, got, {}, ok)
    \/ KillRuntime

MeNext ==
    \/ MeProgress \/ MeFails
    \/ MeTick \/ ToggleActivation \/ RequestStop
    \/ \E e \in Events : CommitPhase1(e) \/ \E s \in Sources : CommitCandidate(s, e)

MeSpec == MeInit /\ [][MeNext]_meVars

(* The loop goes round and time passes; nothing else is promised.          *)
MeFairSpec ==
    MeSpec /\ WF_meVars(MeProgress) /\ WF_meVars(MeTick)

-----------------------------------------------------------------------------
(* "the cursor advances only over pages that were handled in full": every  *)
(* candidate that was in the table when the cursor passed it has its       *)
(* lineage, whatever failed, was revoked or restarted in between.          *)
CursorPassesWritten ==
    \A r \in candRows : r[2] > MeFreeze /\ r[2] <= keyset[r[1]] => r \in lateRows \/ meLineage[r[2]] # "none"

(* No table gets a row while the activation is not RUNNING, also when it   *)
(* was at the start of the cycle.                                          *)
WritesOnlyWhenRunning == [][meStatus = "RUNNING" \/ UNCHANGED meTables]_meVars

(* The chain source signal, lineage, outcome has no dangling end, and only *)
(* post-freeze events are in it; a link to phase 1 is to a row that exists.*)
ChainIsWhole ==
    \A e \in Events :
        /\ meOutcome[e] # "none" => meLineage[e] # "none" /\ e + MeHorizon <= meTime
        /\ meLineage[e] # "none" => e \in meSignals
        /\ meLineage[e] = "LINKED" => e \in phase1
        /\ e \in meSignals => e > MeFreeze

(* Every candidate committed in time is followed to its outcome, if the    *)
(* activation stays, failures stop, and time goes on.                      *)
EveryCandidateDecided ==
    <>[](meStatus = "RUNNING") /\ <>[][MeFails => MeProgress]_meVars =>
        \A r \in Sources \X Events :
            (r \in candRows \ lateRows /\ r[2] > MeFreeze /\ r[2] + MeHorizon <= MaxTime)
                ~> meOutcome[r[2]] # "none"

(* "SIGTERM finishes the current cycle": the process then ends.            *)
StopIsHonoured == stopAsked ~> ~stopAsked

(* The cursor, the tables and the activation row agree.                    *)
MeSafe ==
    /\ [](MeTypeOK /\ CursorPassesWritten /\ ChainIsWhole)
    /\ WritesOnlyWhenRunning
=============================================================================

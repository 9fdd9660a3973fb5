------------------------------ MODULE SetupFlow ------------------------------
(***************************************************************************)
(* From a detected signal to the rows that other processes read.           *)
(*                                                                         *)
(* One scanner process: ScannerOrchestrator.scan_all_with_stats            *)
(* (app/scanners/orchestrator.py) with its in-memory deduplication, the    *)
(* direction gate loaded for the cycle (app/scanners/direction_gate.py),   *)
(* the saving loops of run_scan_cycle (scanner_runner.py), and the durable *)
(* capture spool of the ME clean experiment, replayed at the start of      *)
(* every cycle (app/shadow/me_r_close_location_capture_*.py).              *)
(*                                                                         *)
(* A signal stands for its identity: scanner, symbol, direction, timeframe *)
(* and signal candle.  It is found by every scan while its candle is the   *)
(* last one, and by none afterwards.  The signals of one symbol are        *)
(* modelled, so a cycle is one scan.                                       *)
(***************************************************************************)
EXTENDS Naturals, FiniteSets

CONSTANTS
    Signals,
    SignalKindOf,  \* "plain", "shadow" (SHADOW_CONTROL_SCANNERS) or "me"
    Configured,    \* the gate that the settings give each signal's scanner
    MaxStarts      \* bounds the restarts

GateStatus == {"ENABLED", "BLOCKED", "OBSERVE_ONLY"}

ASSUME FlowConstants ==
    /\ IsFiniteSet(Signals)
    /\ SignalKindOf \in [Signals -> {"plain", "shadow", "me"}]
    /\ Configured \in [Signals -> {"ENABLED", "BLOCKED"}]
    /\ MaxStarts \in Nat

VARIABLES
    gates,                       \* config.scanner_direction_gate
    policy,                      \* the gate policy of the current cycle
    fpc,                         \* where the process is in its cycle
    candle,                      \* a signal's candle: still to come, the last one, or past
    seen,                        \* DeduplicationEngine._seen
    batch,                       \* candidates of the scan still to be saved, by list
    setup,                       \* dds.scanner_setup.status
    spool,                       \* the SQLite capture table
    pending,                     \* the rows replay has selected
    acked,                       \* the observation replay has made and not acknowledged yet
    oos,                         \* rows of dds.me_r_long_close_location_oos_signal
    starts,
    allowed, ownSetups, excused  \* history, see the properties

flowVars == <<gates, policy, fpc, candle, seen, batch, setup, spool, pending, acked,
              oos, starts, allowed, ownSetups, excused>>

Statuses == {"none", "DETECTED", "READY_TO_TRADE", "EXECUTED", "EXPIRED"}
Batch == [trade: SUBSET Signals, shadow: SUBSET Signals, observe: SUBSET Signals]
NoBatch == [trade |-> {}, shadow |-> {}, observe |-> {}]
Nothing == {}

(* The type invariant.                                                     *)
FlowTypeOK ==
    /\ gates \in [Signals -> [status: GateStatus, manual: BOOLEAN]]
    /\ policy \in [Signals -> GateStatus]
    /\ fpc \in {"down", "idle", "replay", "scan", "save"}
    /\ candle \in [Signals -> {"future", "last", "past"}]
    /\ seen \subseteq Signals
    /\ batch \in Batch
    /\ setup \in [Signals -> Statuses]
    /\ spool \in [Signals -> {"none", "PENDING", "DELIVERED", "QUARANTINED"}]
    /\ pending \subseteq Signals
    /\ acked \subseteq (Signals \X {"INSERTED", "DUPLICATE", "INVALID_SOURCE", "ERROR"})
    /\ Cardinality(acked) <= 1
    /\ oos \subseteq Signals
    /\ starts \in 0..MaxStarts
    /\ allowed \subseteq Signals /\ ownSetups \subseteq Signals /\ excused \subseteq Signals

FlowInit ==
    /\ gates = [s \in Signals |-> [status |-> Configured[s], manual |-> FALSE]]
    /\ policy = Configured
    /\ fpc = "down"
    /\ candle \in [Signals -> {"future", "last"}]
    /\ seen = {} /\ batch = NoBatch
    /\ setup = [s \in Signals |-> "none"]
    /\ spool = [s \in Signals |-> "none"]
    /\ pending = {} /\ acked = Nothing /\ oos = {} /\ starts = 0
    /\ allowed = {} /\ ownSetups = {} /\ excused = {}

SetupRows == <<setup, spool, oos>>
Replaying == <<pending, acked>>
History == <<allowed, ownSetups, excused>>
Elsewhere == <<gates, candle, starts>>

-----------------------------------------------------------------------------
(* sync_scanner_direction_gate at start-up: the settings overwrite every   *)
(* row except the operator's.  A failed sync is logged and ignored.        *)
Synchronised ==
    [s \in Signals |-> IF gates[s].manual THEN gates[s]
                       ELSE [status |-> Configured[s], manual |-> FALSE]]

StartUp ==
    /\ fpc = "down" /\ starts < MaxStarts
    /\ fpc' = "idle" /\ starts' = starts + 1
    /\ gates' \in {gates, Synchronised}
    /\ UNCHANGED <<policy, candle, seen, batch, SetupRows, Replaying, History>>

CrashScanner ==
    /\ fpc # "down"
    /\ fpc' = "down" /\ batch' = NoBatch /\ pending' = {} /\ acked' = Nothing
    /\ policy' = Configured /\ seen' = {} /\ ownSetups' = {} /\ excused' = {}
    /\ UNCHANGED <<gates, candle, SetupRows, starts, allowed>>

(* An operator edits the gate table (ME candidates do not depend on it).   *)
SetGate(s, g) ==
    /\ SignalKindOf[s] # "me"
    /\ gates[s] # [status |-> g, manual |-> TRUE]
    /\ gates' = [gates EXCEPT ![s] = [status |-> g, manual |-> TRUE]]
    /\ UNCHANGED <<policy, fpc, candle, seen, batch, SetupRows, Replaying, starts, History>>

CandleCloses(s) ==
    /\ candle[s] # "past"
    /\ candle' = [candle EXCEPT ![s] = IF @ = "future" THEN "last" ELSE "past"]
    /\ UNCHANGED <<gates, policy, fpc, seen, batch, SetupRows, Replaying, starts, History>>

-----------------------------------------------------------------------------
(* Mutant: what the experiment's table has already is not replayed.        *)
BeginReplayMissing ==
    /\ fpc = "idle"
    /\ fpc' = "replay"
    /\ pending' \in {{}, {s \in Signals \ oos : spool[s] = "PENDING"}}
    /\ UNCHANGED <<policy, seen, batch, SetupRows, acked, Elsewhere, History>>

(* replay_me_clean_capture.  It has a connection of its own; without one   *)
(* the replay is deferred to the next cycle.                               *)
BeginReplay ==
    /\ fpc = "idle"
    /\ fpc' = "replay"
    /\ pending' \in {{}, {s \in Signals : spool[s] = "PENDING"}}
    /\ UNCHANGED <<policy, seen, batch, SetupRows, acked, Elsewhere, History>>

(* observe_oos_candidate: an insert that conflicts is a duplicate; a       *)
(* commit whose answer is lost is an error although the row is there.      *)
Observe(s) ==
    /\ fpc = "replay" /\ s \in pending /\ acked = Nothing
    /\ \/ /\ acked' = {<<s, IF s \in oos THEN "DUPLICATE" ELSE "INSERTED">>}
          /\ oos' = oos \union {s}
       \/ /\ acked' = {<<s, "ERROR">>}
          /\ oos' \in {oos, oos \union {s}}
       \/ /\ acked' = {<<s, "INVALID_SOURCE">>} /\ s \notin oos
          /\ oos' = oos
    /\ pending' = pending \ {s}
    /\ UNCHANGED <<policy, fpc, seen, batch, setup, spool, Elsewhere, History>>

Acked(ack) ==
    CASE ack \in {"INSERTED", "DUPLICATE"} -> "DELIVERED"
      [] ack = "INVALID_SOURCE" -> "QUARANTINED"
      [] ack = "ERROR" -> "PENDING"

(* MECleanCaptureSpool.acknowledge, a transaction of its own.              *)
Acknowledge ==
    /\ fpc = "replay"
    /\ \E a \in acked :
         /\ spool[a[1]] = "PENDING"
         /\ spool' = [spool EXCEPT ![a[1]] = Acked(a[2])]
    /\ acked' = Nothing
    /\ UNCHANGED <<policy, fpc, seen, batch, setup, pending, oos, Elsewhere, History>>

(* The replay is over; ScannerDirectionGatePolicy.load_for_cycle reads the *)
(* table, or falls back to the settings when the database does not answer. *)
LoadPolicy ==
    /\ fpc = "replay" /\ pending = {} /\ acked = Nothing
    /\ fpc' = "scan"
    /\ policy' \in {Configured, [s \in Signals |-> gates[s].status]}
    /\ UNCHANGED <<seen, batch, SetupRows, Replaying, Elsewhere, History>>

-----------------------------------------------------------------------------
(* DeduplicationEngine.filter_new                                          *)
Duplicates(found) == found \cap seen

(* Mutant: the gate is asked about tradeable scanners only.                *)
GateAllowsShadow(s) == policy[s] = "ENABLED" \/ SignalKindOf[s] = "shadow"

(* ScannerDirectionGatePolicy.evaluate, regime gates included.             *)
GateAllows(s) == policy[s] = "ENABLED"

(* scan_all_with_stats.  dropped are the candidates that geometry, score,  *)
(* expectancy or regime reject.  ME candidates are only ever observed, and *)
(* are delivered again when deduplication removed them.  What the gate     *)
(* blocks is observed, or kept as a control when its scanner is one.       *)
Scan ==
    /\ fpc = "scan"
    /\ \E found \in SUBSET {s \in Signals : candle[s] = "last"} :
         LET new == found \ Duplicates(found)
             me == {s \in found : SignalKindOf[s] = "me"}
         IN \E dropped \in SUBSET (new \ me) :
              LET valid == new \ (me \union dropped)
                  accepted == {s \in valid : GateAllows(s)}
                  control == {s \in valid \ accepted :
                                SignalKindOf[s] = "shadow" /\ policy[s] = "BLOCKED"}
              IN /\ batch' = [trade |-> accepted, shadow |-> control,
                              observe |-> me \union (valid \ (accepted \union control))]
                 /\ seen' = seen \union found
                 /\ allowed' = allowed \union
                       {s \in Signals : policy[s] = "ENABLED" /\ SignalKindOf[s] # "me"}
                 /\ excused' = (excused \ (new \union me)) \union (new \ (me \union accepted \union control))
    /\ fpc' = "save"
    /\ policy' = Configured  \* a local of the cycle, not used again
    /\ UNCHANGED <<SetupRows, Replaying, Elsewhere, ownSetups>>

Waiting == batch.trade \union batch.shadow
Saved(s, status) == [setup EXCEPT ![s] = status]

(* save_setup for the tradeable and control candidates: an upsert of the   *)
(* signal's row, status included.                                          *)
SaveCandidate(s) ==
    /\ fpc = "save" /\ s \in Waiting
    /\ setup' = Saved(s, IF s \in batch.shadow THEN "DETECTED" ELSE "READY_TO_TRADE")
    /\ batch' = [batch EXCEPT !.trade = @ \ {s}, !.shadow = @ \ {s}]
    /\ ownSetups' = ownSetups \union {s}
    /\ UNCHANGED <<policy, fpc, seen, spool, oos, Replaying, Elsewhere, allowed, excused>>

(* SCAN_ERROR is recorded for the symbol: it stands for the whole batch.   *)
Reported(s) == Waiting \union batch.observe

(* A save that raises ends the symbol; the commit may have happened.       *)
SaveFails(s) ==
    /\ fpc = "save" /\ s \in Waiting
    /\ setup' \in {setup, Saved(s, IF s \in batch.shadow THEN "DETECTED" ELSE "READY_TO_TRADE")}
    /\ batch' = NoBatch /\ fpc' = "idle"
    /\ excused' = excused \union Reported(s)
    /\ UNCHANGED <<policy, seen, spool, oos, Replaying, Elsewhere, allowed, ownSetups>>

(* Observe-only candidates come last: ME ones are captured in the spool    *)
(* (a failure is reported as ME_CAPTURE_ERROR), all are saved as DETECTED, *)
(* and a failed save is swallowed.                                         *)
SaveObserved(s) ==
    /\ fpc = "save" /\ Waiting = {} /\ s \in batch.observe
    /\ batch' = [batch EXCEPT !.observe = @ \ {s}]
    /\ \/ /\ spool' = [spool EXCEPT ![s] = IF SignalKindOf[s] = "me" /\ @ = "none" THEN "PENDING" ELSE @]
          /\ excused' = excused
       \/ /\ SignalKindOf[s] = "me"
          /\ spool' = spool /\ excused' = excused \union {s}
    /\ setup' \in {setup, Saved(s, "DETECTED")}
    /\ ownSetups' = IF setup'[s] # "none" THEN ownSetups \union {s} ELSE ownSetups
    /\ UNCHANGED <<policy, fpc, seen, oos, Replaying, Elsewhere, allowed>>

EndScan ==
    /\ fpc = "save" /\ batch = NoBatch
    /\ fpc' = "idle"
    /\ UNCHANGED <<policy, seen, batch, SetupRows, Replaying, Elsewhere, History>>

(* The readers of the table: the paper process opens a trade and marks the *)
(* setup in the same transaction, expire_setups applies the time to live.  *)
Execute(s) ==
    /\ setup[s] = "READY_TO_TRADE"
    /\ setup' = Saved(s, "EXECUTED")
    /\ UNCHANGED <<policy, fpc, seen, batch, spool, oos, Replaying, Elsewhere, History>>

Expire(s) ==
    /\ setup[s] \in {"DETECTED", "READY_TO_TRADE"} /\ candle[s] = "past"
    /\ setup' = Saved(s, "EXPIRED")
    /\ UNCHANGED <<policy, fpc, seen, batch, spool, oos, Replaying, Elsewhere, History>>

-----------------------------------------------------------------------------
FlowCycle ==
    \/ StartUp \/ BeginReplay \/ LoadPolicy \/ Scan \/ EndScan
    \/ \E s \in Signals : SaveCandidate(s) \/ SaveObserved(s)

FlowNext ==
    \/ FlowCycle \/ CrashScanner \/ Acknowledge
    \/ \E s \in Signals :
         \/ Observe(s) \/ SaveFails(s) \/ Execute(s) \/ Expire(s) \/ CandleCloses(s)
         \/ \E g \in GateStatus : SetGate(s, g)

FlowSpec == FlowInit /\ [][FlowNext]_flowVars

(* What CaptureSettles assumes of the database: asked again and again, it  *)
(* sometimes accepts a connection and sometimes an observation.            *)
ReplayConnected == BeginReplay /\ pending' = {s \in Signals : spool[s] = "PENDING"}
ObserveAnswered(s) == Observe(s) /\ acked' # {<<s, "ERROR">>}

-----------------------------------------------------------------------------
(* Nothing becomes tradeable unless the gate in force in some scan of it   *)
(* allowed it: the controls, the observed and the ME candidates carry the  *)
(* same SETUP_READY state out of their scanners and lose it on the way to  *)
(* save_setup.                                                             *)
TradeableWasAllowed ==
    \A s \in Signals : setup[s] \in {"READY_TO_TRADE", "EXECUTED"} => s \in allowed

(* save_setup overwrites the status of the row it finds.  That a trade     *)
(* already taken is not offered again rests on deduplication alone, and    *)
(* so holds within the life of a process only (mine is what this process   *)
(* has saved).                                                             *)
ExecutedStays ==
    [][\A s \in Signals :
          setup[s] = "EXECUTED" /\ setup'[s] # "EXECUTED" => s \notin ownSetups]_flowVars

(* Deduplication remembers a signal before it is saved.  A signal that was *)
(* remembered and has no row (no spool row for ME) was filtered out or     *)
(* only observed, or its loss was reported as an error of the cycle.       *)
NoSilentLoss ==
    \A s \in seen \ (Waiting \union batch.observe \union excused) :
        fpc \in {"idle", "replay", "scan", "save"} =>
            \/ SignalKindOf[s] = "me" /\ spool[s] # "none"
            \/ SignalKindOf[s] # "me" /\ setup[s] # "none"

(* A capture the spool calls delivered is in the experiment's table, over  *)
(* crashes between the insert and its acknowledgement and over commits     *)
(* whose answer was lost.                                                  *)
DeliveredIsStored == \A s \in Signals : spool[s] = "DELIVERED" => s \in oos

(* A captured observation is eventually delivered or set aside once the    *)
(* process stays up.                                                       *)
CaptureSettles ==
    <>[](fpc # "down") =>
        \A s \in Signals : (spool[s] = "PENDING") ~> (spool[s] # "PENDING")

(* No signal is traded against the gate, lost in silence, or offered again *)
(* by the process that saw it executed.                                    *)
FlowSafe ==
    /\ [](FlowTypeOK /\ TradeableWasAllowed /\ NoSilentLoss /\ DeliveredIsStored)
    /\ ExecutedStays
=============================================================================

---------------------------- MODULE PaperPosition ----------------------------
(***************************************************************************)
(* The life of one paper position under its management policies, and of    *)
(* the reverse shadow trade that goes with it: PaperTradingEngine          *)
(* .check_exits with the DCA state machine (app/paper/engine.py,           *)
(* app/paper/dca.py), ShadowPaperEngine (app/paper/shadow_engine.py) and   *)
(* the monitor that drives both (app/paper/position_monitor.py).           *)
(* PaperEngine models the account, the risk limits and the locks; here DCA *)
(* may be on, execution policies may be configured and prices are numbers. *)
(*                                                                         *)
(* All sources trade one symbol, SHORT, the only direction a shadow trade  *)
(* reverses: a loss is a higher price.  A LONG position is its mirror.     *)
(* Slippage, fees and funding are left out.                                *)
(***************************************************************************)
EXTENDS Integers, Sequences, FiniteSets, FiniteSetsExt

CONSTANTS
    Sources,       \* the setups to be traded
    Policy,        \* Sources -> execution policy
    DcaOn,         \* dca.enabled
    PolicyTakes, PolicyTrails, \* tp_enabled, trailing_enabled of a TP_SL policy
    Prices, Zone,  \* prices, and those of the entry zone
    StopGap,       \* distance of the scanner's stop
    DcaGap, DcaStopGap, \* of the DCA level and of the DCA stop
    Target1, Target2,   \* of the scanner's targets
    Hold,          \* hold_minutes of the policies
    TradeLife,     \* minutes before a default trade expires
    ShadowStop, ShadowTarget, ShadowLife, \* of the experimental scanner
    MaxPositionTime, MaxSlips \* bounds: time, failures and crashes

DEFAULT == "DEFAULT"
HORIZON == "FIXED_HORIZON_V1"
TPSL    == "FIXED_TP_SL_HORIZON_V1"

Nobody == "-"

ASSUME PositionAssumption ==
    /\ IsFiniteSet(Sources) /\ Nobody \notin Sources
    /\ Policy \in [Sources -> {DEFAULT, HORIZON, TPSL}]
    /\ {DcaOn, PolicyTakes, PolicyTrails} \subseteq BOOLEAN
    /\ Prices \subseteq Int /\ Zone \subseteq Prices
    /\ {StopGap, DcaGap, DcaStopGap, Target1, Target2, ShadowStop, ShadowTarget}
           \subseteq Nat \ {0}
    /\ DcaGap < DcaStopGap
    /\ {Hold, TradeLife, ShadowLife, MaxPositionTime, MaxSlips} \subseteq Nat

VARIABLES
    price, minute,
    trade,     \* dds.paper_trade, by source
    held,      \* the engine's open trade
    reverse,   \* dds.paper_shadow_trade, by source trade
    watched,   \* source trades in the shadow engine's open_trades
    hook,      \* the trade whose shadow hook the runner has yet to run
    check,     \* the monitor
    alive, slips

positionVars == <<price, minute, trade, held, reverse, watched, hook, check, alive, slips>>

Unfilled == -100
Untraded == [status |-> "none", entry |-> 0, entered |-> 0, size |-> 0, dca |-> "none",
             fill |-> Unfilled, why |-> "none"]
Flat == [id |-> Nobody]
NoReverse == [status |-> "none", entry |-> 0, entered |-> 0, why |-> "none"]
Resting == [at |-> "idle", price |-> 0]

TargetSize == 2    \* target_qty, in units of the initial fill
InitialSize == 1   \* initial_entry_pct = dca_entry_pct = 50 %

PositionInit ==
    /\ price \in Zone /\ minute = 0
    /\ trade = [s \in Sources |-> Untraded] /\ held = Flat
    /\ reverse = [s \in Sources |-> NoReverse] /\ watched = {}
    /\ hook = Nobody /\ check = Resting
    /\ alive = TRUE /\ slips = 0

PriceMoves ==
    /\ price' \in Prices \ {price}
    /\ UNCHANGED <<minute, trade, held, reverse, watched, hook, check, alive, slips>>

MinutePasses ==
    /\ minute < MaxPositionTime /\ minute' = minute + 1
    /\ UNCHANGED <<price, trade, held, reverse, watched, hook, check, alive, slips>>

(* A database call fails: it counts against the bound.                     *)
Slip(failed) == slips' = (IF failed THEN slips + 1 ELSE slips) /\ slips' <= MaxSlips

-----------------------------------------------------------------------------
(* Entry.                                                                  *)

(* check_entries: the row is committed with the full quantity, then the    *)
(* DCA state splits the trade in memory and a second commit, whose failure *)
(* is swallowed, stores that state but never the smaller size.             *)
OpenTrade(s) ==
    /\ alive /\ held = Flat /\ hook = Nobody
    /\ trade[s].status = "none" /\ price \in Zone
    /\ \E lost \in BOOLEAN :
          /\ Slip(lost) /\ (lost => DcaOn)
          /\ trade' = [trade EXCEPT ![s] =
                [Untraded EXCEPT !.status = "OPEN", !.entry = price, !.entered = minute,
                                 !.size = TargetSize,
                                 !.dca = IF DcaOn /\ ~lost THEN "INITIAL_FILLED" ELSE "none"]]
    /\ held' = [id |-> s, entry |-> price, entered |-> minute, stop |-> price + StopGap,
                size |-> IF DcaOn THEN InitialSize ELSE TargetSize,
                dca |-> IF DcaOn THEN "INITIAL_FILLED" ELSE "none", fill |-> Unfilled,
                policy |-> Policy[s], target |-> TRUE]
    /\ hook' = s
    /\ UNCHANGED <<price, minute, reverse, watched, check, alive>>

(* The row save_shadow_trade inserts: the source trade's entry price.      *)
NewReverse(s) == [NoReverse EXCEPT !.status = "OPEN", !.entry = trade[s].entry,
                                   !.entered = minute]

(* check_shadow_entries, called for each opened trade after trading_lock   *)
(* is released.  A commit may be reported as failed: the row is there but  *)
(* memory does not have it.                                                *)
OpenReverse ==
    /\ alive /\ hook # Nobody
    /\ hook' = Nobody
    /\ \E row \in BOOLEAN, told \in BOOLEAN :
          /\ told => row
          /\ Slip(~told)
          /\ reverse' = IF row THEN [reverse EXCEPT ![hook] = NewReverse(hook)] ELSE reverse
          /\ watched' = IF told THEN watched \union {hook} ELSE watched
    /\ UNCHANGED <<price, minute, trade, held, check, alive>>

-----------------------------------------------------------------------------
(* What one price does to the open trade.                                  *)

ByPolicy(h) == h.policy # DEFAULT

(* effective_stop_price: the DCA stop stays where the entry put it.        *)
ActiveStop(h) == IF ByPolicy(h) \/ h.dca = "none" THEN h.stop ELSE h.entry + DcaStopGap
StopHit(h, p) == p >= ActiveStop(h)
HorizonDue(h) == ByPolicy(h) /\ minute >= h.entered + Hold

(* check_dca_level and fill_dca; the scanner's first target is dropped.    *)
AverageDown(h, p) ==
    IF h.dca = "INITIAL_FILLED" /\ ~ByPolicy(h) /\ p >= h.entry + DcaGap
    THEN [h EXCEPT !.dca = "DCA_FILLED", !.fill = p, !.size = TargetSize, !.target = FALSE]
    ELSE h

(* Mutant: the DCA order is looked at before the stop.                     *)
ManagedDcaFirst(h, p) == AverageDown(h, p)

(* The stop and the horizon come before the DCA order.                     *)
Managed(h, p) == IF StopHit(h, p) \/ HorizonDue(h) THEN h ELSE AverageDown(h, p)

(* _check_trailing_stop: from 1R half of R is locked, from 1.5R the stop   *)
(* follows at R; R is the distance to the stop as it stands.               *)
TrailsAt(h) == (h.policy = DEFAULT \/ (h.policy = TPSL /\ PolicyTrails)) /\ h.dca # "DCA_FILLED"
Trail(h, p) ==
    LET risk == IF h.stop > h.entry THEN h.stop - h.entry ELSE h.entry - h.stop
        gain == h.entry - p
        levels == {h.stop}
            \union (IF gain >= risk THEN {h.entry - risk \div 2} ELSE {})
            \union (IF 2 * gain >= 3 * risk THEN {p + risk} ELSE {})
    IN IF TrailsAt(h) /\ risk > 0 THEN [h EXCEPT !.stop = Min(levels)] ELSE h

Takes(h) == h.policy = DEFAULT \/ (h.policy = TPSL /\ PolicyTakes)

(* The exits of check_exits in their order.                                *)
Exits == <<"STOP", "FIXED_HORIZON", "DCA_BREAKEVEN", "TAKE_PROFIT_1", "TAKE_PROFIT_2",
           "TRAILING_STOP", "EXPIRED">>
Fires(exit, h, p) ==
    CASE exit = "STOP"          -> StopHit(h, p)
      [] exit = "FIXED_HORIZON" -> HorizonDue(h)
      [] exit = "DCA_BREAKEVEN" -> /\ h.dca = "DCA_FILLED" /\ ~ByPolicy(h)
                                   /\ 2 * p <= h.entry + h.fill
      [] exit = "TAKE_PROFIT_1" -> h.target /\ Takes(h) /\ p <= h.entry - Target1
      [] exit = "TAKE_PROFIT_2" -> ~ByPolicy(h) /\ p <= h.entry - Target2
      [] exit = "TRAILING_STOP" -> TrailsAt(h) /\ p >= Trail(h, p).stop
      [] exit = "EXPIRED"       -> ~ByPolicy(h) /\ minute > h.entered + TradeLife

Due(h, p) == {i \in DOMAIN Exits : Fires(Exits[i], h, p)}
Named(exit, h) == IF exit = "STOP" /\ h.dca = "DCA_FILLED" THEN "DCA_STOP" ELSE exit

(* close_position of the DCA state machine.                                *)
DcaClosed(why) ==
    CASE why = "DCA_BREAKEVEN"          -> "CLOSED_BREAKEVEN"
      [] why \in {"DCA_STOP", "STOP"}   -> "CLOSED_STOP"
      [] OTHER                          -> "CLOSED_NO_DCA"

-----------------------------------------------------------------------------
(* The monitor.                                                            *)

(* _check_positions asks for prices only of symbols the engine trades, and *)
(* returns when it trades none.                                            *)
FetchPrices ==
    /\ alive /\ check = Resting /\ held # Flat
    /\ check' = [at |-> "fetched", price |-> price]
    /\ UNCHANGED <<price, minute, trade, held, reverse, watched, hook, alive, slips>>

(* save_dca_state, after a fill or after the closing of trade h.           *)
DcaSaved(row, h, why) ==
    [row EXCEPT !.fill = h.fill, !.dca = IF why = "none" THEN h.dca ELSE DcaClosed(why)]

(* check_exits under trading_lock.  A save of the DCA state may fail       *)
(* unnoticed.                                                              *)
CheckExits ==
    /\ alive /\ check.at = "fetched"
    /\ LET p == check.price
           managed == Managed(held, p)
           filled == managed # held
           due == Due(managed, p)
           closing == due # {}
           why == IF closing THEN Named(Exits[Min(due)], managed) ELSE "none"
           s == held.id
           row == [trade[s] EXCEPT !.status = IF closing THEN "CLOSED" ELSE "OPEN", !.why = why]
           saves == filled \/ (closing /\ managed.dca # "none")
       IN \E lost \in BOOLEAN :
             /\ Slip(lost) /\ (lost => saves)
             /\ trade' = [trade EXCEPT ![s] =
                   IF saves /\ ~lost THEN DcaSaved(row, managed, why) ELSE row]
             /\ held' = IF closing THEN Flat ELSE Trail(managed, p)
    /\ check' = [check EXCEPT !.at = "exited"]
    /\ UNCHANGED <<price, minute, reverse, watched, hook, alive>>

ReverseEnds(s, p) ==
    IF p <= reverse[s].entry - ShadowStop THEN "STOP"
    ELSE IF p >= reverse[s].entry + ShadowTarget THEN "TAKE_PROFIT_1"
    ELSE IF minute > reverse[s].entered + ShadowLife THEN "EXPIRED" ELSE "none"

(* close_shadow_trade. *)
ReverseClosed(s, p) == [reverse[s] EXCEPT !.status = "CLOSED", !.why = ReverseEnds(s, p)]

(* check_shadow_exits with the same prices.  Memory lets a trade go even   *)
(* when its row could not be closed.                                       *)
CheckReverse ==
    /\ alive /\ check.at = "exited"
    /\ LET ending == {s \in watched : ReverseEnds(s, check.price) # "none"}
       IN \E lost \in SUBSET ending :
             /\ Cardinality(lost) <= 1 /\ Slip(lost # {})
             /\ reverse' = [s \in Sources |->
                   IF s \in ending \ lost THEN ReverseClosed(s, check.price) ELSE reverse[s]]
             /\ watched' = watched \ ending
    /\ check' = Resting
    /\ UNCHANGED <<price, minute, trade, held, hook, alive>>

-----------------------------------------------------------------------------
(* Restart: _load_open_trades of both engines.                             *)

PaperStops ==
    /\ alive /\ slips < MaxSlips
    /\ alive' = FALSE /\ slips' = slips + 1
    /\ held' = Flat /\ watched' = {} /\ hook' = Nobody /\ check' = Resting
    /\ UNCHANGED <<price, minute, trade, reverse>>

(* get_open_paper_trades selects neither the DCA columns nor the policy,   *)
(* and the row has the full size and the stop of the entry or of the DCA.  *)
Reloaded(s) ==
    [id |-> s, entry |-> trade[s].entry, entered |-> trade[s].entered,
     stop |-> trade[s].entry + (IF trade[s].dca = "none" THEN StopGap ELSE DcaStopGap),
     size |-> trade[s].size, dca |-> "none", fill |-> Unfilled, policy |-> DEFAULT,
     target |-> TRUE]

(* get_open_shadow_trades. *)
OpenReverses == {s \in Sources : reverse[s].status = "OPEN"}

PaperStarts ==
    /\ ~alive /\ alive' = TRUE
    /\ LET open == {s \in Sources : trade[s].status = "OPEN"}
       IN held' = IF open = {} THEN Flat ELSE Reloaded(CHOOSE s \in open : TRUE)
    /\ watched' = OpenReverses
    /\ UNCHANGED <<price, minute, trade, reverse, hook, check, slips>>

PositionNext ==
    \/ PriceMoves \/ MinutePasses
    \/ \E s \in Sources : OpenTrade(s)
    \/ OpenReverse \/ FetchPrices \/ CheckExits \/ CheckReverse
    \/ PaperStops \/ PaperStarts

PositionSpec == PositionInit /\ [][PositionNext]_positionVars

(* The monitor, the runner and the restart of the service go on, and time  *)
(* passes.                                                                 *)
LivePosition ==
    /\ PositionSpec
    /\ WF_positionVars(MinutePasses) /\ WF_positionVars(OpenReverse)
    /\ WF_positionVars(FetchPrices) /\ WF_positionVars(CheckExits)
    /\ WF_positionVars(CheckReverse) /\ WF_positionVars(PaperStarts)

-----------------------------------------------------------------------------
(* Memory against the tables: the engine holds the one OPEN trade, and the *)
(* shadow engine never holds a shadow that is closed already, so none is   *)
(* closed twice.                                                           *)
MemoryIsOpen ==
    /\ alive => {held.id} \ {Nobody} = {s \in Sources : trade[s].status = "OPEN"}
    /\ \A s \in watched : reverse[s].status = "OPEN"

(* A stored DCA fill lies between the DCA level and the stop, whatever     *)
(* price the monitor saw; a terminal DCA state is of a closed trade, and   *)
(* the trade is never larger than planned.                                 *)
FillInsideStop ==
    \A s \in Sources :
        /\ trade[s].fill # Unfilled => /\ trade[s].fill >= trade[s].entry + DcaGap
                                       /\ trade[s].fill < trade[s].entry + DcaStopGap
        /\ trade[s].dca \in {"CLOSED_BREAKEVEN", "CLOSED_STOP", "CLOSED_NO_DCA"}
               => trade[s].status = "CLOSED"
        /\ held.id = s => held.size <= trade[s].size
        /\ held.id = s /\ held.dca = "DCA_FILLED" => held.size = trade[s].size

Ended(s) == trade[s].status = "OPEN" /\ trade'[s].status = "CLOSED"

(* While the process lives, an averaged trade ends only by its stop, at    *)
(* breakeven or by expiry, and a trade under a policy only as the policy   *)
(* says; after a restart either may end like any other trade.              *)
EndsAsManaged(s) ==
    Ended(s) =>
        /\ held.dca = "DCA_FILLED"
               => trade'[s].why \in {"DCA_STOP", "DCA_BREAKEVEN", "EXPIRED"}
        /\ held.policy = HORIZON => trade'[s].why \in {"STOP", "FIXED_HORIZON"}
        /\ held.policy = TPSL =>
               trade'[s].why \in {"STOP", "FIXED_HORIZON"}
                   \union (IF PolicyTakes THEN {"TAKE_PROFIT_1"} ELSE {})
                   \union (IF PolicyTrails THEN {"TRAILING_STOP"} ELSE {})

(* What is over stays as it is: a closed trade or shadow keeps its reason, *)
(* a fill its price.  A stop moves only in the trade's favour.             *)
PastIsKept(s) ==
    /\ trade[s].status = "CLOSED" => trade'[s] = trade[s]
    /\ reverse[s].status = "CLOSED" => reverse'[s] = reverse[s]
    /\ trade[s].fill # Unfilled => trade'[s].fill = trade[s].fill
    /\ held.id = s /\ held'.id = s => held'.stop <= held.stop

(* The paper position with its policies and its shadow, check_exits of     *)
(* app/paper/engine.py with the DCA order of app/paper/dca.py.             *)
PositionSafe ==
    /\ [](MemoryIsOpen /\ FillInsideStop)
    /\ [][\A s \in Sources : EndsAsManaged(s) /\ PastIsKept(s)]_positionVars

(* "After 1R: lock +0.5R profit" (_check_trailing_stop): once its stop     *)
(* locks a profit, a trade does not average down into a loss.              *)
LockedProfitIsKept ==
    [][held.id # Nobody /\ held.dca = "INITIAL_FILLED" /\ held.stop < held.entry
           => held'.id = Nobody \/ held'.dca = "INITIAL_FILLED"]_positionVars

(* Shadow trades "auto-expire after a configurable time horizon"           *)
(* (app/paper/shadow_engine.py): one that is past it is closed.            *)
OverdueShadowEnds ==
    \A s \in Sources :
        reverse[s].status = "OPEN" /\ minute > reverse[s].entered + ShadowLife
            ~> reverse[s].status = "CLOSED"
=============================================================================

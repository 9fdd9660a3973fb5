----------------------------- MODULE PaperEngine -----------------------------
(***************************************************************************)
(* The paper trading process: PaperTradingEngine (app/paper/engine.py),    *)
(* PositionMonitor (app/paper/position_monitor.py), the entry cycle of     *)
(* paper_runner.py and the ScannerRepository calls they make               *)
(* (app/db/repository.py).                                                 *)
(*                                                                         *)
(* Two threads share one engine under trading_lock: the runner opens       *)
(* positions and saves account snapshots, the monitor closes positions.    *)
(* They also share one database connection, and the runner uses it without *)
(* the lock.  db is what is committed, txn what the connection sees, began *)
(* when its transaction began: PostgreSQL's now() is that time, and every  *)
(* statement, a SELECT too, opens a transaction when none is open.         *)
(*                                                                         *)
(* Prices are abstracted to what they decide: whether a position is held   *)
(* or closed, with which result, and whether the stop was gapped.  DCA is  *)
(* off, as by default, the gate mode is "enforce", no execution policy is  *)
(* configured, and positions expire before their first funding interval.   *)
(***************************************************************************)
EXTENDS Integers, Sequences, FiniteSets, FiniteSetsExt

CONSTANTS
    Setups,
    SymOf,           \* the symbol of a setup
    Initial,         \* initial_balance
    Fee, Slippage,   \* costs booked at entry
    Results,         \* what closing may add to the balance: move minus exit costs
    MaxOpen,         \* max_open_positions
    LossLimit,       \* initial_balance * max_daily_loss
    MaxLosses,       \* max_consecutive_losses
    Cooldown,        \* paper_consecutive_loss_cooldown_minutes, 0: hard stop
    Lifetime,        \* of a position before it expires
    DayLength,
    MaxTime, MaxMishaps,  \* bounds of the runs
    Mishaps          \* which of "crash", "fault", "torn" may happen

ASSUME PaperAssumption ==
    /\ IsFiniteSet(Setups) /\ DOMAIN SymOf = Setups
    /\ Initial \in Int /\ Fee \in Nat /\ Slippage \in Nat /\ Results \subseteq Int
    /\ MaxOpen \in Nat \ {0} /\ LossLimit \in Nat \ {0} /\ MaxLosses \in Nat \ {0}
    /\ Cooldown \in Nat /\ Lifetime \in Nat /\ DayLength \in Nat \ {0}
    /\ MaxTime \in Nat /\ MaxMishaps \in Nat /\ Mishaps \subseteq {"crash", "fault", "torn"}

VARIABLES
    db,       \* the committed tables
    txn,      \* the tables as the shared connection sees them
    began,    \* when the connection's transaction began, or Never
    up,       \* the process is running
    mem,      \* the engine's fields
    lock,     \* holder of trading_lock
    main,     \* the runner thread
    mon,      \* the monitor thread
    clock, mishaps,
    severe    \* history: the safety gate has been activated

vars == <<db, txn, began, up, mem, lock, main, mon, clock, mishaps, severe>>

Symbols == {SymOf[s] : s \in Setups}
Never == -1
Today == clock \div DayLength
Now == IF began = Never THEN clock ELSE began

(* dds.paper_trade by setup (unique index), with the closing order; the    *)
(* setup's own status; the latest dds.paper_account row; the gate row.     *)
Row == [status: {"none", "OPEN", "CLOSED"}, entered: Nat, before: Int,
        pnl: Int, day: Nat, nth: Nat]
NoRow == [status |-> "none", entered |-> 0, before |-> 0, pnl |-> 0, day |-> 0, nth |-> 0]
Database == [row: [Setups -> Row], closings: Nat,
             setup: [Setups -> {"READY_TO_TRADE", "EXECUTED", "EXPIRED"}],
             saved: BOOLEAN, balance: Int, cooldown: Int, gate: BOOLEAN]

Engine == [balance: Int, open: Seq(Setups), daily: Nat, losses: Nat, cooldown: Int,
           halt: BOOLEAN, day: Nat]

MainState == [pc: {"idle", "loaded", "entering", "expiring", "stats", "saving", "failed"},
              todo: SUBSET Setups]
Gaps == {"none", "mild", "severe"}
MonitorState == [pc: {"idle", "fetched", "checking", "closing", "gap"},
                 seen: SUBSET Symbols, todo: Seq(Setups), gone: SUBSET Setups,
                 gap: Gaps]

(* The type invariant.                                                     *)
TypeOK ==
    /\ db \in Database /\ txn \in Database
    /\ began \in Int /\ up \in BOOLEAN
    /\ mem \in Engine
    /\ lock \in {"free", "main", "monitor"}
    /\ main \in MainState /\ mon \in MonitorState
    /\ clock \in Nat /\ mishaps \in Nat
    /\ severe \in BOOLEAN

MainIdle == [pc |-> "idle", todo |-> {}]
MonitorIdle == [pc |-> "idle", seen |-> {}, todo |-> <<>>, gone |-> {}, gap |-> "none"]

Opened(d) == {s \in Setups : d.row[s].status = "OPEN"}
Closed(d) == {s \in Setups : d.row[s].status = "CLOSED"}
Members(q) == {q[i] : i \in DOMAIN q}
Ready(d) == {s \in Setups : d.setup[s] = "READY_TO_TRADE"}
Larger(a, b) == IF a >= b THEN a ELSE b

-----------------------------------------------------------------------------
(* The risk state and its recovery.                                        *)

ClosedToday(d) == {s \in Closed(d) : d.row[s].day >= Now \div DayLength}

(* get_paper_risk_state: the day's losses and its trailing losing streak.  *)
DailyLoss(d) == MapThenSumSet(LAMBDA s : Larger(0, -d.row[s].pnl), ClosedToday(d))
LossStreak(d) ==
    Cardinality({s \in ClosedToday(d) :
        \A q \in ClosedToday(d) : d.row[q].nth >= d.row[s].nth => d.row[q].pnl < 0})

(* _load_risk_state.  A persisted cooldown is taken over while it runs and *)
(* forgiven with the streak when it is over; without one the field stays.  *)
LoadRisk(m, d) ==
    [m EXCEPT !.daily = DailyLoss(d),
              !.losses = IF d.cooldown # Never /\ d.cooldown <= clock THEN 0 ELSE LossStreak(d),
              !.cooldown = IF d.cooldown = Never THEN @
                           ELSE IF d.cooldown > clock THEN d.cooldown ELSE Never]

(* Mutant: midnight just resets the counter.                               *)
RolloverToZero(m, d) ==
    IF m.day = Today THEN m ELSE [m EXCEPT !.daily = 0, !.day = Today]

(* _refresh_daily_risk_state_if_needed. *)
Rollover(m, d) ==
    IF m.day = Today THEN m ELSE [LoadRisk(m, d) EXCEPT !.day = Today]

(* _load_account_state, or the recovery of _load_open_trades when there is *)
(* no snapshot yet.                                                        *)
LoadBalance(d) ==
    IF d.saved THEN d.balance
    ELSE IF Opened(d) = {} THEN Initial
    ELSE LET first == CHOOSE s \in Opened(d) :
                         \A q \in Opened(d) : d.row[s].entered <= d.row[q].entered
         IN d.row[first].before - Fee * Cardinality(Opened(d))

(* _load_open_trades fills a dictionary by symbol, latest entry first, so  *)
(* the earliest row of a symbol stays.                                     *)
LoadOpen(d) ==
    {q \in [1 .. Cardinality({SymOf[s] : s \in Opened(d)}) -> Opened(d)] :
        /\ \A i, j \in DOMAIN q : i < j => /\ SymOf[q[i]] # SymOf[q[j]]
                                           /\ d.row[q[i]].entered >= d.row[q[j]].entered
        /\ \A i \in DOMAIN q : \A s \in Opened(d) :
              SymOf[s] = SymOf[q[i]] => d.row[q[i]].entered <= d.row[s].entered}

(* __init__: the engine after a (re)start. *)
Fresh == [balance |-> Initial, open |-> <<>>, daily |-> 0, losses |-> 0, cooldown |-> Never,
          halt |-> FALSE, day |-> Today]
Loaded(d, q) ==
    LoadRisk([Fresh EXCEPT !.balance = LoadBalance(d), !.open = q, !.halt = d.gate], d)

NewDatabase == [row |-> [s \in Setups |-> NoRow], closings |-> 0,
                setup |-> [s \in Setups |-> "READY_TO_TRADE"],
                saved |-> FALSE, balance |-> 0, cooldown |-> Never, gate |-> FALSE]

Init ==
    /\ db = NewDatabase /\ txn = NewDatabase
    /\ began = 0 /\ up = TRUE
    /\ clock = 0 /\ mishaps = 0
    /\ mem = [balance |-> Initial, open |-> <<>>, daily |-> 0, losses |-> 0,
              cooldown |-> Never, halt |-> FALSE, day |-> 0]
    /\ lock = "free"
    /\ main = MainIdle /\ mon = MonitorIdle
    /\ severe = FALSE

-----------------------------------------------------------------------------
(* The shared connection.                                                  *)

Mishap(kind) ==
    /\ kind \in Mishaps /\ mishaps < MaxMishaps
    /\ mishaps' = mishaps + 1

(* A write and its commit, which also commits whatever the connection has  *)
(* pending; a failure, which rolls all of that back; or a commit whose     *)
(* answer is lost.  _with_retry re-raises after the rollback.              *)
Endings == {"ok", "fault", "torn"}
Execute(e, new) ==
    /\ IF e = "ok" THEN mishaps' = mishaps ELSE Mishap(e)
    /\ txn' = IF e = "fault" THEN db ELSE new
    /\ db' = txn'
    /\ began' = Never

(* A statement before the commit. *)
Begin == began' = Now

Discard == txn' = db /\ db' = db /\ began' = Never
Rollback == Mishap("fault") /\ Discard

-----------------------------------------------------------------------------
(* The runner: run_entry_cycle.                                            *)

Process == <<up, clock>>
Tables == <<db, txn, began, mishaps>>

(* ping, load_ready_setups, the price fetch and the filters, all without   *)
(* the lock: some of the ready setups become candidates.                   *)
LoadSetups ==
    /\ up /\ main.pc = "idle"
    /\ Begin
    /\ \E C \in SUBSET Ready(txn) :
          main' = [pc |-> IF Ready(txn) = {} THEN "expiring" ELSE "loaded", todo |-> C]
    /\ UNCHANGED <<db, txn, mem, lock, mon, mishaps, Process, severe>>

EmergencyStop ==
    /\ up /\ main.pc = "idle"
    /\ Begin
    /\ main' = [MainIdle EXCEPT !.pc = "expiring"]
    /\ UNCHANGED <<db, txn, mem, lock, mon, mishaps, Process, severe>>

(* ping fails and reconnects, or load_ready_setups fails: either way what  *)
(* both threads have pending on the connection is gone.                    *)
LoadFails ==
    /\ up /\ main.pc = "idle"
    /\ Rollback
    /\ \E pc \in {"idle", "expiring"} : main' = [MainIdle EXCEPT !.pc = pc]
    /\ UNCHANGED <<mem, lock, mon, Process, severe>>

(* check_entries up to its loop; main's handler of what it raises. *)
EnterStart ==
    /\ up /\ main.pc = "loaded" /\ lock = "free"
    /\ mem' = Rollover(mem, txn)
    /\ IF mem.day = Today THEN UNCHANGED began ELSE Begin
    /\ IF mem.halt THEN lock' = lock /\ main' = [MainIdle EXCEPT !.pc = "expiring"]
       ELSE lock' = "main" /\ main' = [main EXCEPT !.pc = "entering"]
    /\ UNCHANGED <<db, txn, mon, mishaps, Process, severe>>

RolloverFails ==
    /\ up /\ main.pc = "loaded" /\ lock = "free" /\ mem.day # Today
    /\ Rollback
    /\ main' = [MainIdle EXCEPT !.pc = "failed"]
    /\ UNCHANGED <<mem, lock, mon, Process, severe>>

Reconnect ==
    /\ up /\ main.pc = "failed"
    /\ Discard
    /\ main' = MainIdle
    /\ UNCHANGED <<mem, lock, mon, mishaps, Process, severe>>

Leave(pc) == lock' = "free" /\ main' = [MainIdle EXCEPT !.pc = pc]

(* The consecutive-loss branch: a running cooldown or a hard stop ends the *)
(* loop; a missing cooldown is set and an expired one is forgiven, and in  *)
(* both cases this candidate goes on.                                      *)
StreakStops(m) ==
    /\ m.losses >= MaxLosses
    /\ Cooldown = 0 \/ (m.cooldown # Never /\ m.cooldown > clock)
AfterStreak(m) ==
    IF m.losses < MaxLosses THEN m
    ELSE IF m.cooldown = Never THEN [m EXCEPT !.cooldown = clock + Cooldown]
    ELSE [m EXCEPT !.losses = 0, !.cooldown = Never]

Skipped(s) == \E q \in Members(mem.open) : SymOf[q] = SymOf[s]

(* Mutant: the number of positions is compared with > instead of >=.       *)
LimitReachedLate == Len(mem.open) > MaxOpen \/ mem.daily >= LossLimit

LimitReached == Len(mem.open) >= MaxOpen \/ mem.daily >= LossLimit

(* The candidate is skipped, or a limit ends the loop. *)
EnterSkip(s) ==
    /\ up /\ main.pc = "entering" /\ s \in main.todo
    /\ Skipped(s)
    /\ main' = [main EXCEPT !.todo = @ \ {s}]
    /\ UNCHANGED <<Tables, mem, lock, mon, Process, severe>>

EnterBreak(s) ==
    /\ up /\ main.pc = "entering" /\ s \in main.todo
    /\ ~Skipped(s)
    /\ LimitReached \/ StreakStops(mem)
    /\ Leave("expiring")
    /\ UNCHANGED <<Tables, mem, mon, Process, severe>>

(* Regime, entry zone, geometry, size, or an earlier trade of the setup    *)
(* rejects it.                                                             *)
EnterReject(s) ==
    /\ up /\ main.pc = "entering" /\ s \in main.todo
    /\ ~Skipped(s) /\ ~LimitReached /\ ~StreakStops(mem)
    /\ mem' = AfterStreak(mem)
    /\ main' = [main EXCEPT !.todo = @ \ {s}]
    /\ UNCHANGED <<Tables, lock, mon, Process, severe>>

(* save_paper_trade: the row and the setup's status in one transaction. *)
Inserted(d, s) ==
    [d EXCEPT !.row[s] = [NoRow EXCEPT !.status = "OPEN", !.entered = clock,
                                       !.before = mem.balance],
              !.setup[s] = "EXECUTED"]

(* Only after the commit is the position added to the engine; when saving  *)
(* raises, the cycle is abandoned.                                         *)
EnterOpen(s, e) ==
    /\ up /\ main.pc = "entering" /\ s \in main.todo
    /\ ~Skipped(s) /\ ~LimitReached /\ ~StreakStops(mem)
    /\ txn.row[s].status = "none"
    /\ Execute(e, Inserted(txn, s))
    /\ LET m == AfterStreak(mem)
       IN IF e = "ok"
          THEN /\ mem' = [m EXCEPT !.balance = @ - (Fee + Slippage),
                                   !.open = Append(@, s)]
               /\ main' = [main EXCEPT !.todo = @ \ {s}] /\ lock' = lock
          ELSE mem' = m /\ Leave("failed")
    /\ UNCHANGED <<mon, Process, severe>>

EnterEnd ==
    /\ up /\ main.pc = "entering" /\ main.todo = {}
    /\ Leave("expiring")
    /\ UNCHANGED <<Tables, mem, mon, Process, severe>>

(* expire_stale_setups, without the lock. *)
ExpireSetups(e) ==
    /\ up /\ main.pc = "expiring"
    /\ \E E \in SUBSET Ready(txn) :
          Execute(e, [txn EXCEPT !.setup = [s \in Setups |-> IF s \in E THEN "EXPIRED" ELSE @[s]]])
    /\ main' = [main EXCEPT !.pc = "stats"]
    /\ UNCHANGED <<mem, lock, mon, Process, severe>>

(* get_paper_trade_stats, without the lock; the snapshot under the lock. A *)
(* failure of either is logged.                                            *)
ReadStats(ok) ==
    /\ up /\ main.pc = "stats"
    /\ IF ok THEN Begin /\ UNCHANGED <<db, txn, mishaps>> ELSE Rollback
    /\ main' = [MainIdle EXCEPT !.pc = IF ok THEN "saving" ELSE "idle"]
    /\ UNCHANGED <<mem, lock, mon, Process, severe>>

Snapshot(e) ==
    /\ up /\ main.pc = "saving" /\ lock = "free"
    /\ Execute(e, [txn EXCEPT !.saved = TRUE, !.balance = mem.balance,
                              !.cooldown = mem.cooldown])
    /\ main' = MainIdle
    /\ UNCHANGED <<mem, lock, mon, Process, severe>>

-----------------------------------------------------------------------------
(* The monitor: _check_positions and check_exits.                          *)

(* The open symbols are copied and priced without the lock. *)
Fetch ==
    /\ up /\ mon.pc = "idle" /\ mem.open # <<>>
    /\ \E P \in (SUBSET {SymOf[s] : s \in Members(mem.open)}) \ {{}} :
          mon' = [MonitorIdle EXCEPT !.pc = "fetched", !.seen = P]
    /\ UNCHANGED <<Tables, mem, lock, main, Process, severe>>

CheckStart ==
    /\ up /\ mon.pc = "fetched" /\ lock = "free"
    /\ lock' = "monitor"
    /\ mon' = [mon EXCEPT !.pc = "checking", !.todo = mem.open]
    /\ UNCHANGED <<Tables, mem, main, Process, severe>>

Checking == up /\ mon.pc = "checking" /\ mon.todo # <<>>
Priced(s) == SymOf[s] \in mon.seen

(* Mutant: the age of a position is not checked.                           *)
ExpiredNever(s) == FALSE

(* _is_expired: the position is closed whatever its price. *)
Expired(s) == clock - txn.row[s].entered > Lifetime

Hold ==
    /\ Checking
    /\ Priced(Head(mon.todo)) => ~Expired(Head(mon.todo))
    /\ mon' = [mon EXCEPT !.todo = Tail(@)]
    /\ UNCHANGED <<Tables, mem, lock, main, Process, severe>>

Net(r) == r - (Fee + Slippage)

(* Mutant: the entry costs, booked at entry, are booked again.             *)
BookedNet(m, r) == [m EXCEPT !.balance = @ + Net(r)]

(* _close_trade's bookkeeping: entry costs were booked at entry. *)
Booked(m, r) ==
    LET b == [m EXCEPT !.balance = @ + r]
    IN IF Net(r) >= 0 THEN [b EXCEPT !.losses = 0]
       ELSE [b EXCEPT !.daily = @ - Net(r), !.losses = @ + 1,
                      !.cooldown = IF m.losses + 1 >= MaxLosses /\ Cooldown > 0 /\ @ = Never
                                   THEN clock + Cooldown ELSE @]

(* close_paper_trade does not look at the row's status; closed_at is now(). *)
WithClosed(d, s, r) ==
    [d EXCEPT !.row[s] = [d.row[s] EXCEPT !.status = "CLOSED", !.pnl = Net(r),
                                          !.day = Now \div DayLength, !.nth = d.closings + 1],
              !.closings = @ + 1]

(* Stop, target, horizon, trailing stop or expiry: the engine is updated,  *)
(* then the UPDATE is executed.                                            *)
Exit(r, gap) ==
    /\ Checking /\ Priced(Head(mon.todo))
    /\ mem' = Booked(mem, r)
    /\ txn' = WithClosed(txn, Head(mon.todo), r) /\ Begin
    /\ mon' = [mon EXCEPT !.pc = "closing", !.gap = gap]
    /\ UNCHANGED <<db, lock, main, mishaps, severe, Process>>

(* The exception leaves check_exits before any closed position is removed. *)
Abort == lock' = "free" /\ mon' = MonitorIdle

ExitFails(r) ==
    /\ Checking /\ Priced(Head(mon.todo))
    /\ mem' = Booked(mem, r)
    /\ Rollback
    /\ Abort
    /\ UNCHANGED <<main, severe, Process>>

(* The COMMIT, of what the connection still holds. *)
CommitClose(e) ==
    /\ up /\ mon.pc = "closing"
    /\ Execute(e, txn)
    /\ IF e # "ok" THEN Abort
       ELSE /\ lock' = lock
            /\ mon' = IF mon.gap # "none" THEN [mon EXCEPT !.pc = "gap"]
                      ELSE [mon EXCEPT !.pc = "checking", !.todo = Tail(@),
                                       !.gone = @ \union {Head(mon.todo)}]
    /\ UNCHANGED <<mem, main, Process, severe>>

(* Mutant: the halt is set only when the gate row could be written.        *)
RecordGapPersisted(ok) ==
    /\ up /\ mon.pc = "gap"
    /\ LET hard == mon.gap = "severe"
       IN /\ mem' = [mem EXCEPT !.halt = @ \/ (hard /\ ok)]
          /\ severe' = (severe \/ hard)
          /\ IF ok THEN txn' = [txn EXCEPT !.gate = @ \/ hard] /\ Begin /\ UNCHANGED <<db, mishaps>>
             ELSE Rollback
    /\ mon' = [mon EXCEPT !.pc = "checking", !.gap = "none", !.todo = Tail(@),
                          !.gone = @ \union {Head(mon.todo)}]
    /\ UNCHANGED <<lock, main, Process>>

(* _record_stop_gap_event: the event is inserted and, when it is severe,   *)
(* _activate_safety_gate sets the halt and then the gate row.  Neither     *)
(* write is committed here; a failure is logged.                           *)
RecordGap(ok) ==
    /\ up /\ mon.pc = "gap"
    /\ LET hard == mon.gap = "severe"
       IN /\ mem' = [mem EXCEPT !.halt = @ \/ hard]
          /\ severe' = (severe \/ hard)
          /\ IF ok THEN txn' = [txn EXCEPT !.gate = @ \/ hard] /\ Begin /\ UNCHANGED <<db, mishaps>>
             ELSE Rollback
    /\ mon' = [mon EXCEPT !.pc = "checking", !.gap = "none", !.todo = Tail(@),
                          !.gone = @ \union {Head(mon.todo)}]
    /\ UNCHANGED <<lock, main, Process>>

(* The positions that stay, in their order. *)
Without(q, gone) ==
    LET left == Members(q) \ gone
    IN {t \in [1 .. Cardinality(left) -> left] :
           \A i, j \in DOMAIN t : i < j =>
              \E k, l \in DOMAIN q : k < l /\ q[k] = t[i] /\ q[l] = t[j]}

CheckEnd ==
    /\ up /\ mon.pc = "checking" /\ mon.todo = <<>>
    /\ \E q \in Without(mem.open, mon.gone) : mem' = [mem EXCEPT !.open = q]
    /\ lock' = "free" /\ mon' = MonitorIdle
    /\ UNCHANGED <<Tables, main, Process, severe>>

-----------------------------------------------------------------------------
(* The process and time.                                                   *)

(* Crash, kill or exit: the connection's open transaction is rolled back. *)
Crash ==
    /\ up /\ Mishap("crash")
    /\ up' = FALSE
    /\ Discard
    /\ lock' = "free" /\ main' = MainIdle /\ mon' = MonitorIdle
    /\ UNCHANGED <<mem, clock, severe>>

Restart ==
    /\ ~up
    /\ up' = TRUE
    /\ \E q \in LoadOpen(db) : mem' = Loaded(db, q)
    /\ Begin
    /\ UNCHANGED <<db, txn, lock, main, mon, clock, mishaps, severe>>

Tick ==
    /\ clock < MaxTime
    /\ clock' = clock + 1
    /\ UNCHANGED <<Tables, up, mem, lock, main, mon, severe>>

Runner ==
    \/ LoadSetups \/ LoadFails \/ EmergencyStop
    \/ EnterStart \/ RolloverFails \/ Reconnect
    \/ \E s \in Setups : EnterSkip(s) \/ EnterBreak(s) \/ EnterReject(s)
    \/ \E s \in Setups, e \in Endings : EnterOpen(s, e)
    \/ EnterEnd
    \/ \E e \in Endings : ExpireSetups(e) \/ Snapshot(e)
    \/ \E ok \in BOOLEAN : ReadStats(ok)

Monitor ==
    \/ Fetch \/ CheckStart \/ Hold
    \/ \E r \in Results : ExitFails(r) \/ \E gap \in Gaps : Exit(r, gap)
    \/ \E e \in Endings : CommitClose(e)
    \/ \E ok \in BOOLEAN : RecordGap(ok)
    \/ CheckEnd

Next == Runner \/ Monitor \/ Crash \/ Restart \/ Tick

Spec == Init /\ [][Next]_vars

(* Fairness: the process is restarted, the clock runs, the runner finishes *)
(* what it has begun, the monitor gets the lock whenever it is free again  *)
(* and again (the runner holds it for a moment per cycle), and every open  *)
(* symbol is priced again and again.                                       *)
InLock == main.pc = "entering" /\ Runner
FetchAll == Fetch /\ mon'.seen = {SymOf[s] : s \in Members(mem.open)}
MonitorSteps == mon.pc \in {"checking", "closing", "gap"} /\ Monitor

FairSpec ==
    /\ Spec
    /\ WF_vars(Restart) /\ WF_vars(Tick) /\ WF_vars(InLock)
    /\ SF_vars(FetchAll) /\ SF_vars(CheckStart) /\ WF_vars(MonitorSteps)

-----------------------------------------------------------------------------
(* Properties.                                                             *)

(* The engine and the table agree: whenever no thread is inside a locked   *)
(* section, the open positions in memory are the OPEN rows, also right     *)
(* after a crash and restart, so no position is forgotten or kept twice.   *)
MirrorsTable == up /\ lock = "free" => Members(mem.open) = Opened(txn)

(* max_open_positions and one position per symbol hold for the rows of the *)
(* table at every moment, across crashes between a commit and the engine's *)
(* own update.                                                             *)
PositionLimits ==
    /\ Cardinality(Opened(db)) <= MaxOpen
    /\ \A s, q \in Opened(db) : SymOf[s] = SymOf[q] => s = q

(* A closed trade stays closed with the result it was closed with: no      *)
(* later check, cycle or restart books it again.                           *)
ClosedOnce == [][\A s \in Closed(db) : db'.row[s] = db.row[s]]_vars

NewRow == \E s \in Setups : txn.row[s].status = "none" /\ txn'.row[s].status = "OPEN"

(* No trade is opened on a day whose realized losses have reached the      *)
(* limit, whatever crashed or closed around midnight.                      *)
DailyLossRespected == [][NewRow => DailyLoss(txn) < LossLimit]_vars

(* "balance delta equals all-in net P&L": until something fails, outside   *)
(* locked sections the balance is the initial one plus the results of the  *)
(* closed trades minus the entry costs of the open ones.                   *)
BooksBalance ==
    up /\ lock = "free" /\ mishaps = 0 =>
        mem.balance = Initial + MapThenSumSet(LAMBDA s : txn.row[s].pnl, Closed(txn))
                      - (Fee + Slippage) * Cardinality(Opened(txn))

(* A severe stop gap blocks fresh entries; "a restart cannot reopen        *)
(* entries".                                                               *)
HaltHolds == [][NewRow => ~severe]_vars

(* A trade whose lifetime ends within the run is closed, whatever crashed  *)
(* while it was open: expiry is the exit of last resort.                   *)
EventuallyClosed ==
    \A s \in Setups :
        (txn.row[s].status = "OPEN" /\ txn.row[s].entered + Lifetime < MaxTime)
            ~> txn.row[s].status = "CLOSED"

(* The engine's lists and the table agree and no limit is passed, over     *)
(* every crash and restart.                                                *)
EngineSafe == TypeOK /\ MirrorsTable /\ PositionLimits

(* No step closes a trade a second time or opens one beyond the day's      *)
(* loss.                                                                   *)
TradeRulesHold == ClosedOnce /\ DailyLossRespected

(* A failing database lifts neither the halt after a severe gap nor the    *)
(* daily limit.                                                            *)
RiskLimitsHold == DailyLossRespected /\ HaltHolds
=============================================================================

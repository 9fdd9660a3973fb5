----------------------------- MODULE RateLimiter -----------------------------
(***************************************************************************)
(* GlobalBybitRateLimiter (app/exchange/global_rate_limiter.py): the       *)
(* cross-process token bucket with priority classes, the shared            *)
(* CLOSED / OPEN / RECOVERY breaker with epoch fencing, and the single     *)
(* recovery probe guarded by an operating-system witness lock.             *)
(*                                                                         *)
(* All processes share one state file, st.  Every public call runs one     *)
(* transaction: file lock, load, _refresh, body, write if dirty.  It is    *)
(* one step here, with an outcome that says where it failed.  Between two  *)
(* transactions of a request everything interleaves: other processes,      *)
(* crashes, a reboot, the clocks and the HTTP exchange.                    *)
(*                                                                         *)
(* A request stands for one acquire / prepare_send / HTTP / record_result  *)
(* sequence, so its grant is named by the request.  Time is in ticks,      *)
(* tokens are whole.  Counters that nothing reads (epoch_grants,           *)
(* unknown_count, anomalies) are left out.                                 *)
(***************************************************************************)
EXTENDS Integers, Sequences, FiniteSets

CONSTANTS
    Procs, Reqs,
    Home,            \* the process of a request
    Prio,            \* its class, 0 (P0) .. 3 (P3)
    Burst, Rate,     \* bucket size, tokens per tick
    Scale, Share, Credit,  \* class curves, in 1/Scale requests: per tick, constant part
    Cooldowns,       \* breaker_cooldowns_s
    Target,          \* recovery_success_target
    Lease,           \* probe_lease_s
    StepCap,         \* clock_step_cap_s
    MaxLifetime, RegistryCapacity, PendingCapacity, DemandTTL, Liveness,
    MaxWait, RecordAttempts,
    MaxTime, MaxMishaps,  \* bounds of the runs
    Mishaps,         \* which of "crash", "fault", "reboot", "jump" may happen
    Jumps,           \* by how much the wall clock may be stepped
    NoReq, Gone, Past

ASSUME LimiterAssumption ==
    /\ Home \in [Reqs -> Procs] /\ Prio \in [Reqs -> 0 .. 3]
    /\ Burst \in Nat \ {0} /\ Rate \in Nat \ {0} /\ Scale \in Nat \ {0}
    /\ Share \in [0 .. 3 -> Nat \ {0}] /\ Credit \in [0 .. 3 -> Nat \ {0}]
    /\ Cooldowns \in Seq(Nat) /\ Len(Cooldowns) \in Nat \ {0}
    /\ Target \in Nat \ {0} /\ Lease \in Nat /\ StepCap \in Nat
    /\ MaxLifetime \in Nat \ {0} /\ RegistryCapacity \in Nat /\ PendingCapacity \in Nat
    /\ DemandTTL \in Nat \ {0} /\ Liveness \in Nat \ {0}
    /\ MaxWait \in Nat \ {0} /\ RecordAttempts \in Nat \ {0}
    /\ MaxTime \in Nat /\ MaxMishaps \in Nat /\ Jumps \subseteq Int
    /\ Mishaps \subseteq {"crash", "fault", "reboot", "jump"}
    /\ NoReq \notin Reqs /\ Gone \notin Procs /\ Past \notin Procs /\ Gone # Past

VARIABLES
    st,        \* the shared state file
    wall, mono,  \* the wall clock and the monotonic clock
    boot,      \* the boot id
    up,        \* running processes
    call,      \* the caller's local state of each request
    held,      \* requests whose witness lock is held by their process
    leaked,    \* requests whose drop failed, known to their process (_leaked)
    mishaps,   \* crashes, failed transactions, reboots and clock steps so far
    openedAt   \* history: monotonic time of the last trip

vars == <<st, wall, mono, boot, up, call, held, leaked, mishaps, openedAt>>

Classes == 0 .. 3
Owners == Procs \union {Gone, Past}
Outcomes == {"OK", "RATE_LIMIT", "ERROR", "NOT_SENT", "REVOKED"}
Terminal == Outcomes \union {"UNKNOWN"}

GrantRecord == [outcome: Terminal \union {"absent", "issued"}, epoch: Nat, probe: BOOLEAN,
                owner: Owners, sent: BOOLEAN, at: Int]
PendingRecord == [on: BOOLEAN, owner: Owners, reg: Int, exp: Int]

(* Where a request is, its deadline, its first registration time           *)
(* (first_reg_wall), the outcome it has to record and the failed attempts  *)
(* of a retried transaction.                                               *)
Call == [pc: {"idle", "new", "waiting", "dropping", "granted", "prepared", "recording", "done"},
         deadline: Nat, anchor: Int, result: Outcomes, tries: Nat]
NoCall == [pc |-> "idle", deadline |-> 0, anchor |-> 0, result |-> "NOT_SENT", tries |-> 0]
Done == [NoCall EXCEPT !.pc = "done"]

State == [tokens: Nat, refill: Nat, total: Nat, epoch: Nat, start: Int,
          usage: [Classes -> Nat],
          mode: {"CLOSED", "OPEN", "RECOVERY"}, level: Nat, until: Int, streak: Nat,
          probe: Reqs \union {NoReq}, marker: BOOLEAN, stalled: BOOLEAN,
          grants: [Reqs -> GrantRecord], pending: [Reqs -> PendingRecord],
          lastWall: Int, lastMono: Int, boot: Nat]

(* The type invariant.                                                     *)
TypeOK ==
    /\ st \in State
    /\ wall \in Int /\ mono \in Nat /\ boot \in Nat
    /\ up \subseteq Procs
    /\ call \in [Reqs -> Call]
    /\ held \subseteq Reqs /\ leaked \subseteq Reqs
    /\ mishaps \in Nat /\ openedAt \in Int

Smaller(a, b) == IF a <= b THEN a ELSE b
Larger(a, b) == IF a >= b THEN a ELSE b

NoGrant == [outcome |-> "absent", epoch |-> 0, probe |-> FALSE, owner |-> Past,
            sent |-> FALSE, at |-> 0]
NoPending == [on |-> FALSE, owner |-> Past, reg |-> 0, exp |-> 0]

(* _default_state. *)
DefaultState ==
    [tokens |-> Burst, refill |-> 0, total |-> 0, epoch |-> 1, start |-> 0,
     usage |-> [c \in Classes |-> 0],
     mode |-> "CLOSED", level |-> 0, until |-> 0, streak |-> 0,
     probe |-> NoReq, marker |-> FALSE, stalled |-> FALSE,
     grants |-> [r \in Reqs |-> NoGrant], pending |-> [r \in Reqs |-> NoPending],
     lastWall |-> 0, lastMono |-> 0, boot |-> 0]

Init ==
    /\ st = DefaultState
    /\ wall = 0 /\ mono = 0 /\ boot = 0
    /\ up = Procs
    /\ call = [r \in Reqs |-> NoCall]
    /\ held = {} /\ leaked = {}
    /\ mishaps = 0 /\ openedAt = 0

-----------------------------------------------------------------------------
(* _refresh, stage by stage.  Each stage maps a state to a state.          *)

CooldownFor(level) ==
    Cooldowns[Smaller(Larger(level - 1, 0), Len(Cooldowns) - 1) + 1]

(* Drop this process's own stale demands whose drop failed earlier.        *)
SelfHeal(s, p) ==
    [s EXCEPT !.pending = [r \in Reqs |-> IF r \in leaked /\ Home[r] = p
                                          THEN NoPending ELSE @[r]]]

(* Mutant: the divergence of the clocks is not looked at.                  *)
ClockStepIgnored(s) == "normal"

(* The wall clock is judged by its divergence from the monotonic clock     *)
(* since the last persisted baseline.                                      *)
ClockStep(s) ==
    LET skew == (wall - s.lastWall) - (mono - s.lastMono)
    IN CASE s.boot # boot     -> "reboot"
         [] s.boot = boot /\ skew > StepCap  -> "forward"
         [] s.boot = boot /\ skew < -StepCap -> "backward"
         [] OTHER             -> "normal"

(* Credit elapsed time up to the burst ceiling; a discontinuity earns      *)
(* nothing and, forward, re-arms an OPEN cooldown.                         *)
ApplyClock(s) ==
    LET step == ClockStep(s)
        gap == wall - s.lastWall
        credit == IF step = "normal" /\ gap > 0
                  THEN Smaller(Rate * gap, Larger(0, Burst - s.tokens)) ELSE 0
    IN [s EXCEPT !.tokens = @ + credit,
                 !.refill = @ + credit,
                 !.boot = boot,
                 !.lastWall = IF step = "normal" /\ gap <= 0 THEN @ ELSE wall,
                 !.lastMono = mono,
                 !.until = IF step = "forward" /\ s.mode = "OPEN"
                           THEN Larger(@, wall + CooldownFor(s.level)) ELSE @]

(* An owner is provably dead when it belongs to another boot, or when its  *)
(* pid is dead and the tri-state probe says so (D: the records for which   *)
(* it does; for the others the answer is UNKNOWN).                         *)
ProvablyDead(owner, r, D) == owner = Past \/ (owner = Gone /\ r \in D)

PrunePending(s, D) ==
    [s EXCEPT !.pending = [r \in Reqs |->
        IF @[r].on /\ (@[r].exp < wall \/ ProvablyDead(@[r].owner, r, D))
        THEN NoPending ELSE @[r]]]

(* _apply_open: trip the breaker and fence every outstanding grant.        *)
ApplyOpen(s, bump) ==
    LET l == IF bump THEN Smaller(s.level + 1, Len(Cooldowns)) ELSE s.level
    IN [s EXCEPT !.level = l, !.mode = "OPEN", !.until = wall + CooldownFor(l),
                 !.epoch = @ + 1, !.start = wall, !.usage = [c \in Classes |-> 0],
                 !.streak = 0, !.probe = NoReq, !.marker = FALSE, !.stalled = FALSE]

FreeProbe(s) == [s EXCEPT !.probe = NoReq, !.marker = FALSE, !.stalled = FALSE]

(* _resolve_dead_probe: the holder is provably gone.  If it may have sent, *)
(* the breaker reopens at the same level.                                  *)
ResolveDeadProbe(s) ==
    LET closed == [s EXCEPT !.grants[s.probe].outcome =
                      IF @ # "issued" THEN @ ELSE IF s.marker THEN "UNKNOWN" ELSE "NOT_SENT"]
    IN IF s.marker THEN ApplyOpen(FreeProbe(closed), FALSE) ELSE FreeProbe(closed)

(* Mutant: a free witness lock is not looked for.                          *)
ResolveProbeByBoot(s, free) ==
    IF s.probe # NoReq /\ s.grants[s.probe].owner = Past THEN ResolveDeadProbe(s) ELSE s

(* Time never frees the slot: only a free witness lock (whose probe may    *)
(* also fail, free = FALSE) or another boot does.                          *)
ResolveProbe(s, free) ==
    IF s.probe = NoReq THEN s
    ELSE IF s.grants[s.probe].owner = Past \/ (s.probe \notin held /\ free)
         THEN ResolveDeadProbe(s)
         ELSE [s EXCEPT !.stalled = @ \/ wall >= s.grants[s.probe].at + Lease]

ToRecovery(s) ==
    IF s.mode = "OPEN" /\ wall >= s.until
    THEN [FreeProbe(s) EXCEPT !.mode = "RECOVERY", !.streak = 0]
    ELSE s

(* Ordinary grants of dead owners get a neutral terminal outcome.          *)
ReconcileGrants(s, D) ==
    [s EXCEPT !.grants = [r \in Reqs |->
        IF @[r].outcome = "issued" /\ ~@[r].probe /\ ProvablyDead(@[r].owner, r, D)
        THEN [@[r] EXCEPT !.outcome = IF s.grants[r].sent THEN "UNKNOWN" ELSE "NOT_SENT"]
        ELSE @[r]]]

(* Only terminal records that are old enough leave the registry.           *)
Evict(s) ==
    [s EXCEPT !.grants = [r \in Reqs |->
        IF @[r].outcome \in Terminal /\ wall - @[r].at >= MaxLifetime THEN NoGrant ELSE @[r]]]

Refresh(s, p, D, free) ==
    Evict(ReconcileGrants(ToRecovery(ResolveProbe(
        PrunePending(ApplyClock(SelfHeal(s, p)), D), free)), D))

-----------------------------------------------------------------------------
(* Selection.                                                              *)

Backlog(s, p, c) ==
    {r \in Reqs : s.pending[r].on /\ Prio[r] = c /\ ~(r \in leaked /\ Home[r] = p)}

(* _head_of: the earliest registration; equal times are ordered by the     *)
(* random request id, so any of them may be first.                         *)
Heads(s, p, c) ==
    {r \in Backlog(s, p, c) : \A q \in Backlog(s, p, c) : s.pending[r].reg <= s.pending[q].reg}

Allowance(s, c) == Share[c] * Larger(0, wall - s.start) + Credit[c]
Eligible(s, c) == s.usage[c] * Scale <= Allowance(s, c)
Backlogged(s, p) == {c \in Classes : Backlog(s, p, c) # {}}

(* _best_eligible: strict priority among eligible backlogged classes.      *)
EligibleClasses(s, p) == {c \in Backlogged(s, p) : Eligible(s, c)}

(* _borrow_candidate: the class closest to its curve among those that      *)
(* leave one token for every other backlogged class.                       *)
Borrowers(s, p) ==
    {c \in Backlogged(s, p) : s.tokens - 1 >= Cardinality(Backlogged(s, p) \ {c})}
Closest(s, C) ==
    {c \in C : \A d \in C :
        \/ s.usage[c] * Allowance(s, d) < s.usage[d] * Allowance(s, c)
        \/ s.usage[c] * Allowance(s, d) = s.usage[d] * Allowance(s, c) /\ c <= d}

ChosenClass(s, p) ==
    LET E == EligibleClasses(s, p)
    IN IF E # {} THEN {c \in E : \A d \in E : c <= d} ELSE Closest(s, Borrowers(s, p))

(* Mutant: the occupied probe slot is not checked.                         *)
MayGrantSecondProbe(s, r) ==
    /\ s.tokens >= 1
    /\ Prio[r] \in ChosenClass(s, Home[r])
    /\ r \in Heads(s, Home[r], Prio[r])

(* _try_grant up to the capacity check; with equal registration times the  *)
(* turn may also belong to another head.                                   *)
MayGrant(s, r) ==
    /\ s.tokens >= 1
    /\ s.mode = "RECOVERY" => s.probe = NoReq
    /\ Prio[r] \in ChosenClass(s, Home[r])
    /\ r \in Heads(s, Home[r], Prio[r])
MayWait(s, r) == ~MayGrant(s, r) \/ Heads(s, Home[r], Prio[r]) # {r}

Registered(s) == {r \in Reqs : s.grants[r].outcome # "absent"}
RegistryFull(s) == Cardinality(Registered(s)) >= RegistryCapacity

Drop(s, r) == [s EXCEPT !.pending[r] = NoPending]

(* The mutations of _try_grant: one token, one usage unit, one record. *)
Granted(s, r) ==
    LET probe == s.mode = "RECOVERY"
        g == [outcome |-> "issued", epoch |-> s.epoch, probe |-> probe,
              owner |-> Home[r], sent |-> FALSE, at |-> wall]
        t == [Drop(s, r) EXCEPT !.tokens = @ - 1, !.total = @ + 1,
                                !.usage[Prio[r]] = @ + 1, !.grants[r] = g]
    IN IF probe THEN [t EXCEPT !.probe = r, !.marker = FALSE, !.stalled = FALSE] ELSE t

-----------------------------------------------------------------------------
(* Transactions.                                                           *)

(* "refused": lock, load or fingerprint failure, the body never ran.       *)
(* "lost": the write failed before os.replace.  "torn": os.replace done,   *)
(* the directory fsync failed, and the caller is told it failed.           *)
Endings == {"ok", "refused", "lost", "torn"}

(* The file is written only when dirty; refill credit alone is not dirty   *)
(* and is derived again later from the persisted baseline.                 *)
Persisted(s) ==
    IF /\ ClockStep(st) = "normal"
       /\ [s EXCEPT !.tokens = st.tokens, !.refill = st.refill,
                    !.lastWall = st.lastWall, !.lastMono = st.lastMono] = st
    THEN st ELSE s

Mishap(k) == k \in Mishaps /\ mishaps < MaxMishaps /\ mishaps' = mishaps + 1

Commit(e, s) ==
    /\ e \in {"lost", "torn"} => Persisted(s) # st
    /\ st' = IF e \in {"ok", "torn"} THEN Persisted(s) ELSE st
    /\ openedAt' = IF st'.epoch # st.epoch THEN mono ELSE openedAt
    /\ IF e = "ok" THEN UNCHANGED mishaps ELSE Mishap("fault")

(* What a refresh by process p may see: records with a dead owner and the *)
(* verdicts of their probes.                                               *)
DeadOwned ==
    {r \in Reqs : \/ st.grants[r].outcome = "issued" /\ st.grants[r].owner = Gone
                  \/ st.pending[r].on /\ st.pending[r].owner = Gone}
FreeVerdicts == IF st.probe = NoReq \/ st.probe \in held THEN {FALSE} ELSE BOOLEAN
Refreshes(p) == {Refresh(st, p, D, free) : D \in SUBSET DeadOwned, free \in FreeVerdicts}

(* The body of a transaction clears this process's leaked demands.         *)
Heal(e, p) == IF e = "refused" THEN leaked ELSE {r \in leaked : Home[r] # p}

Running(r) == Home[r] \in up
Clocks == <<wall, mono, boot>>

(* A failed attempt of a transaction that is tried at most n times.        *)
Retry(r, n) == IF call[r].tries + 1 >= n THEN Done ELSE [call[r] EXCEPT !.tries = @ + 1]

-----------------------------------------------------------------------------
(* acquire.                                                                *)

Arrive(r) ==
    /\ Running(r) /\ call[r].pc = "idle"
    /\ mono + MaxWait <= MaxTime
    /\ call' = [call EXCEPT ![r].pc = "new", ![r].deadline = mono + MaxWait]
    /\ UNCHANGED <<st, Clocks, up, held, leaked, mishaps, openedAt>>

Acquiring(r) == Running(r) /\ call[r].pc \in {"new", "waiting"}
New(r) == call[r].pc = "new"

Missing(s, r) == New(r) \/ ~s.pending[r].on
PendingFull(s) == Cardinality({q \in Reqs : s.pending[q].on}) >= PendingCapacity

(* A demand pruned in mid-wait and older than its hard TTL is not restored. *)
Outlived(s, r) == ~New(r) /\ ~s.pending[r].on /\ wall - call[r].anchor >= DemandTTL

(* Register, re-register at the original position, or renew the entry.     *)
Demand(s, r) ==
    LET reg == IF New(r) THEN wall ELSE call[r].anchor
        old == s.pending[r]
    IN IF Missing(s, r)
       THEN [s EXCEPT !.pending[r] = [on |-> TRUE, owner |-> Home[r], reg |-> reg,
                                      exp |-> Smaller(reg + DemandTTL, wall + Liveness)]]
       ELSE IF 2 * (old.exp - wall) < Liveness
            THEN [s EXCEPT !.pending[r].exp = Smaller(old.reg + DemandTTL, wall + Liveness)]
            ELSE s

(* While OPEN: P3 defers, the others wait unless the cooldown outlasts     *)
(* their deadline.                                                         *)
GivesUp(s, r) ==
    s.mode = "OPEN" /\ (Prio[r] = 3 \/ Larger(0, s.until - wall) >= call[r].deadline - mono)

(* One iteration of the loop after its refresh: the state it leaves and    *)
(* where the caller goes if the transaction commits.  "dropping" is        *)
(* pending_capacity or registry_capacity, whose changes are written too.   *)
Polls(s, r) ==
    LET d == Demand(s, r)
        To(x, l) == [s |-> x, to |-> l]
    IN IF Outlived(s, r) THEN {To(Drop(s, r), "done")}
       ELSE IF Missing(s, r) /\ PendingFull(s) THEN {To(s, "dropping")}
       ELSE IF GivesUp(d, r) THEN {To(Drop(d, r), "done")}
       ELSE IF d.mode = "OPEN" THEN {To(d, "waiting")}
       ELSE (IF MayWait(d, r) THEN {To(d, "waiting")} ELSE {})
            \union (IF MayGrant(d, r)
                    THEN {IF RegistryFull(d) THEN To(d, "dropping")
                          ELSE To(Granted(d, r), "granted")}
                    ELSE {})

Landed(r, l) ==
    IF l = "done" THEN Done
    ELSE IF l = "waiting" /\ New(r) THEN [call[r] EXCEPT !.pc = l, !.anchor = wall]
    ELSE [call[r] EXCEPT !.pc = l]

(* A failed transaction sends the caller to _drop and STATE_UNAVAILABLE;   *)
(* the witness of a probe is kept only once its grant is durable.          *)
Acquire(r, e) ==
    /\ Acquiring(r) /\ mono < call[r].deadline
    /\ \E s1 \in Refreshes(Home[r]) : \E b \in Polls(s1, r) :
          /\ Commit(e, b.s)
          /\ call' = [call EXCEPT ![r] = Landed(r, IF e = "ok" THEN b.to ELSE "dropping")]
          /\ held' = IF e = "ok" /\ b.to = "granted" /\ b.s.probe = r
                     THEN held \union {r} ELSE held
    /\ leaked' = Heal(e, Home[r])
    /\ UNCHANGED <<Clocks, up>>

(* The witness file cannot be opened or locked: nothing of the grant is    *)
(* applied, what the loop changed before it is written.                    *)
WitnessFails(r, e) ==
    /\ Acquiring(r) /\ mono < call[r].deadline
    /\ \E s1 \in Refreshes(Home[r]) : \E b \in Polls(s1, r) :
          b.to = "granted" /\ b.s.probe = r /\ Commit(e, Demand(s1, r))
    /\ call' = [call EXCEPT ![r].pc = "dropping"]
    /\ leaked' = Heal(e, Home[r])
    /\ UNCHANGED <<Clocks, up, held>>

(* Mutant: the deadline is noticed but the loop goes on.                   *)
AcquireOverruns(r, e) ==
    /\ Acquiring(r) /\ mono >= call[r].deadline
    /\ \E s1 \in Refreshes(Home[r]) : Commit(e, s1)
    /\ leaked' = Heal(e, Home[r])
    /\ UNCHANGED <<Clocks, up, call, held>>

(* SKIPPED at the deadline; when this transaction fails the demand stays   *)
(* registered until it lapses.                                             *)
AcquireSkipped(r, e) ==
    /\ Acquiring(r) /\ mono >= call[r].deadline
    /\ \E s1 \in Refreshes(Home[r]) : Commit(e, Drop(s1, r))
    /\ call' = [call EXCEPT ![r] = Done]
    /\ leaked' = Heal(e, Home[r])
    /\ UNCHANGED <<Clocks, up, held>>

(* _drop after a failed acquire: one retry, then the demand is leaked.     *)
DropDemand(r, e) ==
    /\ Running(r) /\ call[r].pc = "dropping"
    /\ \E s1 \in Refreshes(Home[r]) : Commit(e, Drop(s1, r))
    /\ call' = [call EXCEPT ![r] = IF e = "ok" THEN Done ELSE Retry(r, 2)]
    /\ leaked' = Heal(e, Home[r]) \union (IF call'[r] = Done /\ e # "ok" THEN {r} ELSE {})
    /\ UNCHANGED <<Clocks, up, held>>

-----------------------------------------------------------------------------
(* prepare_send and the caller.                                            *)

Revoke(s, r) == [s EXCEPT !.grants[r].outcome = "REVOKED"]

Fenced(s, r) ==
    \/ s.grants[r].epoch # s.epoch
    \/ s.grants[r].probe /\ s.probe # r

Marked(s, r) ==
    LET t == [s EXCEPT !.grants[r].sent = TRUE]
    IN IF s.grants[r].probe THEN [t EXCEPT !.marker = TRUE] ELSE t

(* The request has outcome o to record. *)
ToRecord(r, o) == [call EXCEPT ![r].pc = "recording", ![r].result = o]

PrepareSend(r, e) ==
    /\ Running(r) /\ call[r].pc = "granted"
    /\ \E s1 \in Refreshes(Home[r]) :
          LET issued == s1.grants[r].outcome = "issued"
              pass == issued /\ ~Fenced(s1, r)
          IN /\ Commit(e, IF pass THEN Marked(s1, r) ELSE IF issued THEN Revoke(s1, r) ELSE s1)
             /\ call' = IF pass /\ e = "ok" THEN [call EXCEPT ![r].pc = "prepared"]
                        ELSE ToRecord(r, "REVOKED")
    /\ leaked' = Heal(e, Home[r])
    /\ UNCHANGED <<Clocks, up, held>>

Local == <<st, Clocks, up, held, leaked, mishaps, openedAt>>

(* The caller's own deadline checks, and a duplicate order refused by the  *)
(* order guard, give the grant back unused.                                *)
NotSent(r) ==
    /\ Running(r) /\ call[r].pc \in {"granted", "prepared"}
    /\ call' = ToRecord(r, "NOT_SENT")
    /\ UNCHANGED Local

(* create_order's order guard raises after the grant: the exception leaves *)
(* the function and the grant is never closed.                             *)
Abandon(r) ==
    /\ Running(r) /\ call[r].pc = "granted" /\ Prio[r] = 0
    /\ call' = [call EXCEPT ![r] = Done]
    /\ UNCHANGED Local

(* The HTTP attempt and its classification. *)
HttpAttempt(r, o) ==
    /\ Running(r) /\ call[r].pc = "prepared"
    /\ call' = ToRecord(r, o)
    /\ UNCHANGED Local

-----------------------------------------------------------------------------
(* record_result.                                                          *)

FreeOwnProbe(s, r) == IF s.probe = r THEN FreeProbe(s) ELSE s

CountSuccess(s) ==
    IF s.mode = "RECOVERY" /\ s.streak + 1 >= Target
    THEN [s EXCEPT !.mode = "CLOSED", !.level = 0, !.streak = 0]
    ELSE [s EXCEPT !.streak = @ + 1]

(* Mutant: results are not fenced by the epoch.                            *)
CurrentUnfenced(s, r) == TRUE

(* A current-epoch rate limit trips the breaker, a current-epoch success   *)
(* counts; a stale one is terminal evidence only.                          *)
Current(s, r) == s.grants[r].epoch = s.epoch

ApplyOutcome(s, r, o) ==
    LET t == [s EXCEPT !.grants[r].outcome = o]
    IN CASE o = "RATE_LIMIT" -> IF Current(s, r) THEN ApplyOpen(t, TRUE) ELSE t
         [] o = "OK" -> IF Current(s, r) THEN CountSuccess(FreeOwnProbe(t, r)) ELSE t
         [] OTHER -> FreeOwnProbe(t, r)

(* Anything but an issued record is UNKNOWN_GRANT or DUPLICATE.            *)
ApplyResult(s, r) ==
    IF s.grants[r].outcome = "issued" THEN ApplyOutcome(s, r, call[r].result) ELSE s

(* _release_witness after a durable result; and by _apply_open inside the  *)
(* transaction, before the write, for a probe held by this process.        *)
ReleasedInside(s, r) ==
    IF s.grants[r].outcome = "issued" /\ call[r].result = "RATE_LIMIT" /\ Current(s, r)
    THEN {q \in Reqs : q = s.probe /\ Home[q] = Home[r]} ELSE {}

Released(s, r, e) ==
    (IF e = "refused" THEN {} ELSE ReleasedInside(s, r)) \union (IF e = "ok" THEN {r} ELSE {})

RecordResult(r, e) ==
    /\ Running(r) /\ call[r].pc = "recording"
    /\ \E s1 \in Refreshes(Home[r]) :
          /\ Commit(e, ApplyResult(s1, r))
          /\ held' = held \ Released(s1, r, e)
    /\ call' = [call EXCEPT ![r] = IF e = "ok" THEN Done ELSE Retry(r, RecordAttempts)]
    /\ leaked' = Heal(e, Home[r])
    /\ UNCHANGED <<Clocks, up>>

-----------------------------------------------------------------------------
(* refresh(), processes and clocks.                                        *)

Maintain(p, e) ==
    /\ p \in up
    /\ \E s1 \in Refreshes(p) : Commit(e, s1)
    /\ leaked' = Heal(e, p)
    /\ UNCHANGED <<Clocks, up, call, held>>

(* The records of the processes P now belong to a dead owner.              *)
Orphaned(s, P, mark) ==
    LET orphan(x) == [x EXCEPT !.owner = IF @ \in P THEN mark ELSE @]
    IN [s EXCEPT !.grants = [r \in Reqs |-> orphan(s.grants[r])],
                 !.pending = [r \in Reqs |-> orphan(s.pending[r])]]

Ended(P) == [r \in Reqs |-> IF Home[r] \in P /\ call[r].pc # "idle" THEN Done ELSE call[r]]

(* A process dies: its witness locks are released, its requests are over.  *)
Crash(p) ==
    /\ p \in up /\ Mishap("crash")
    /\ up' = up \ {p}
    /\ st' = Orphaned(st, {p}, Gone)
    /\ call' = Ended({p})
    /\ held' = {r \in held : Home[r] # p}
    /\ leaked' = {r \in leaked : Home[r] # p}
    /\ UNCHANGED <<Clocks, openedAt>>

Restart(p) ==
    /\ p \notin up
    /\ up' = up \union {p}
    /\ UNCHANGED <<st, Clocks, call, held, leaked, mishaps, openedAt>>

(* The machine reboots: every owner belongs to a past boot.                *)
Reboot ==
    /\ Mishap("reboot")
    /\ boot' = boot + 1
    /\ up' = {}
    /\ st' = Orphaned(st, Owners, Past)
    /\ call' = Ended(Procs)
    /\ held' = {} /\ leaked' = {}
    /\ UNCHANGED <<wall, mono, openedAt>>

Tick ==
    /\ mono < MaxTime
    /\ mono' = mono + 1
    /\ wall' = wall + 1
    /\ UNCHANGED <<st, boot, up, call, held, leaked, mishaps, openedAt>>

(* The wall clock is stepped (NTP, operator, virtual machine).             *)
Jump(d) ==
    /\ Mishap("jump")
    /\ wall' = wall + d
    /\ UNCHANGED <<st, mono, boot, up, call, held, leaked, openedAt>>

Step(r) ==
    \/ Arrive(r)
    \/ \E e \in Endings :
          \/ Acquire(r, e) \/ WitnessFails(r, e) \/ AcquireSkipped(r, e) \/ DropDemand(r, e)
          \/ PrepareSend(r, e) \/ RecordResult(r, e)
    \/ NotSent(r)
    \/ Abandon(r)
    \/ \E o \in {"OK", "RATE_LIMIT", "ERROR"} : HttpAttempt(r, o)

Next ==
    \/ \E r \in Reqs : Step(r)
    \/ \E p \in Procs : Crash(p) \/ Restart(p) \/ \E e \in Endings : Maintain(p, e)
    \/ Reboot
    \/ Tick
    \/ \E d \in Jumps : Jump(d)

Spec == Init /\ [][Next]_vars

(* Time passes, crashed services are restarted, a caller inside acquire    *)
(* keeps polling, and a process keeps refreshing: now and then its write   *)
(* succeeds and its probes of witness locks and pids give a verdict.       *)
Sweep(p) ==
    /\ p \in up
    /\ Commit("ok", Refresh(st, p, DeadOwned, TRUE))
    /\ leaked' = Heal("ok", p)
    /\ UNCHANGED <<Clocks, up, call, held>>

Poll(r) == \E e \in Endings : Acquire(r, e) \/ AcquireSkipped(r, e)

Fairness ==
    /\ WF_vars(Tick)
    /\ \A p \in Procs : WF_vars(Restart(p)) /\ WF_vars(Sweep(p))
    /\ \A r \in Reqs : WF_vars(Poll(r))

FairSpec == Spec /\ Fairness

-----------------------------------------------------------------------------
(* Properties.                                                             *)

Issued(r) == st.grants[r].outcome = "issued"

(* The exact accounting the code promises: tokens = B + refill - grants,   *)
(* within the bucket, after any mix of refills, grants, failed writes,     *)
(* reboots and clock steps.                                                *)
Accounting ==
    /\ st.tokens = Burst + st.refill - st.total
    /\ st.tokens \in 0 .. Burst

(* No clock step, reboot, lost write or second process mints a token: the  *)
(* grants ever issued are bounded by the real time that has passed.        *)
RateBound == st.total <= Burst + Rate * mono

(* At most one recovery probe: during RECOVERY every grant of the current  *)
(* epoch that has no result yet is the one in the probe slot, and while    *)
(* OPEN there is none, so nothing can pass prepare_send.                   *)
OneProbe ==
    \A r \in Reqs : Issued(r) /\ st.grants[r].epoch = st.epoch =>
        \/ st.mode = "CLOSED"
        \/ st.mode = "RECOVERY" /\ st.probe = r

(* At most one request is between prepare_send and its result as a probe   *)
(* of the current epoch.                                                   *)
OneProbeInFlight ==
    \A q, r \in Reqs :
        /\ call[q].pc = "prepared" /\ st.grants[q].probe /\ st.grants[q].epoch = st.epoch
        /\ call[r].pc = "prepared" /\ st.grants[r].probe /\ st.grants[r].epoch = st.epoch
        => q = r

(* Time never frees the slot: while the holder keeps its witness lock and  *)
(* does not move, no refresh of any process takes the slot from it.        *)
HeldProbeKeepsSlot ==
    [][\A r \in held : st.probe = r /\ call'[r] = call[r] => st'.probe = r]_vars

(* An OPEN breaker starts to admit probes only after its whole cooldown of *)
(* real time, also when the wall clock is stepped meanwhile.               *)
CooldownHonoured ==
    [][st.mode = "OPEN" /\ st'.mode # "OPEN"
          => st'.mode = "RECOVERY" /\ mono - openedAt >= CooldownFor(st.level)]_vars

(* A fenced epoch's episode counts once: the level rises only on a rate    *)
(* limit of the current epoch, by one step of the ladder, and that step    *)
(* closes the epoch.                                                       *)
EscalatesOnce ==
    [][st'.level > st.level =>
          /\ st'.level = st.level + 1 /\ st'.epoch = st.epoch + 1
          /\ \E r \in Reqs : /\ call[r].pc = "recording" /\ call[r].result = "RATE_LIMIT"
                             /\ st.grants[r].epoch = st.epoch]_vars

(* Requests that succeeded, and those of the current epoch.                *)
Succeeded(s) == {r \in Reqs : s.grants[r].outcome = "OK"}
Successes(s) == {r \in Succeeded(s) : s.grants[r].epoch = s.epoch}

(* The breaker closes only on Target successes of its own epoch.           *)
RecoveryEarned ==
    [][st.mode # "CLOSED" /\ st'.mode = "CLOSED" =>
          st.mode = "RECOVERY" /\ Cardinality(Successes(st')) >= Target]_vars

(* A terminal outcome is written once: retries, replays and owner-death    *)
(* reconciliation never rewrite it.  A record without one leaves the       *)
(* registry only past its lifetime, and only when its owner is dead or its *)
(* witness lock is free (_refresh closes such a record and may evict it in *)
(* the same transaction).                                                  *)
TerminalOnce ==
    [][\A r \in Reqs :
          /\ st.grants[r].outcome \in Terminal
                => st'.grants[r].outcome \in {st.grants[r].outcome, "absent"}
          /\ Issued(r) /\ st'.grants[r].outcome = "absent"
                => /\ wall - st.grants[r].at >= MaxLifetime
                   /\ \/ st.grants[r].owner \in {Gone, Past}
                      \/ st.probe = r /\ r \notin held]_vars

(* The slot of a live probe, the level and a grant's verdict change only   *)
(* for a reason, whatever the order of results, refreshes, crashes and     *)
(* lost writes of several processes.                                       *)
BreakerStepsSafe == HeldProbeKeepsSlot /\ EscalatesOnce /\ TerminalOnce

(* acquire never polls for ever: every caller gets a grant or a refusal.   *)
AcquireReturns == \A r \in Reqs : Acquiring(r) ~> ~Acquiring(r)

(* A probe slot whose holder no longer holds the witness lock (it crashed, *)
(* or its machine rebooted) does not block recovery for ever.              *)
LostProbeIsFreed ==
    \A r \in Reqs : st.probe = r /\ r \notin held ~> st.probe # r

(* Neither a caller of acquire nor a lost probe hangs the limiter: both    *)
(* hold under the polling and refreshing that the services do.             *)
NothingHangs == AcquireReturns /\ LostProbeIsFreed

(* The shared state adds up and lets one recovery probe out at a time, in  *)
(* the registry and on the wire, whatever crashes, reboots or fails to be  *)
(* written.                                                                *)
BreakerSafe == TypeOK /\ Accounting /\ OneProbe /\ OneProbeInFlight
=============================================================================

----------------------------- MODULE BudgetedGet -----------------------------
(***************************************************************************)
(* BybitClient._budgeted_get (app/exchange/bybit_client.py) with the       *)
(* process-wide state of app/exchange/retry_budget.py it shares with the   *)
(* other threads: the local token limiter, the rate-limit breaker and the  *)
(* retry storm guard.  One logical request per thread: entry deadline,     *)
(* gates before each attempt, the grant of the shared limiter (RateLimiter *)
(* models that side; here it answers as it likes), the HTTP attempt, its   *)
(* telemetry record and the retry decision.                                *)
(*                                                                         *)
(* Time passes between any two steps: every gate may be stale when the     *)
(* attempt is sent.                                                        *)
(***************************************************************************)
EXTENDS Integers, FiniteSets

CONSTANTS
    Requests,                              \* logical requests, one thread each
    Priority,                              \* Requests -> {"P0", "P1", "P2", "P3"}
    RetryDeadline,                         \* bybit_retry_deadline_s
    MaxAttemptsSet,                        \* bybit_max_attempts
    RlMaxRetries,                          \* bybit_rate_limit_max_retries
    HttpTimeout,                           \* bybit_timeout
    Cooldown,                              \* bybit_rate_limit_cooldown_s
    GateWait,                              \* bybit_breaker_max_wait_s
    TimeoutBase, RateLimitBase, MaxDelay,  \* backoff
    TokenInterval,                         \* 1 / bybit_rate_limit_rps
    StormWindow, StormMax, StormSample,    \* storm guard; its share is 1/2
    SharedLimiter,                         \* global_bybit_rate_limiter_enabled
    MaxGetTime                             \* bound on time

ASSUME BudgetAssumption ==
    /\ IsFiniteSet(Requests)
    /\ Priority \in [Requests -> {"P0", "P1", "P2", "P3"}]
    /\ {MaxAttemptsSet, HttpTimeout, StormWindow, StormSample} \subseteq Nat \ {0}
    /\ {RetryDeadline, RlMaxRetries, Cooldown, GateWait, TimeoutBase, RateLimitBase,
        MaxDelay, TokenInterval, StormMax, MaxGetTime} \subseteq Nat
    /\ SharedLimiter \in BOOLEAN

VARIABLES
    clock,     \* monotonic time
    cooldown,  \* RateLimitBreaker._cooldown_until
    token,     \* _RateLimiter._last_token_time
    noted,     \* attempts the storm guard remembers
    get        \* each logical request

budgetVars == <<clock, cooldown, token, noted, get>>

LowerOf(a, b) == IF a < b THEN a ELSE b
HigherOf(a, b) == IF a > b THEN a ELSE b

HardMax == 3
Budget == HigherOf(1, LowerOf(MaxAttemptsSet, HardMax))
RlCap(q) ==
    LowerOf(CASE Priority[q] = "P0" -> 3 [] Priority[q] = "P3" -> 1 [] OTHER -> 2, RlMaxRetries)

Retryable == {"TIMEOUT", "RATE_LIMIT"}
Answers == Retryable \union {"OK", "ERROR", "AUTH"}

(* Where a request is:  "check" before an attempt (deadline and storm),    *)
(* "gate", "gated" (it slept in the breaker), "token", "ready", "acquire", *)
(* "granted", "prepared", "http", "decide", "backoff".  class is the last  *)
(* retryable answer; grant the state of the current grant; sent, records   *)
(* and skips count attempts and telemetry records; ownUntil is the end of  *)
(* the cooldown this request opened last.                                  *)
NewGet == [at |-> "new", deadline |-> 0, attempt |-> 0, class |-> "none", rl |-> 0,
            timeouts |-> 0, delay |-> 0, wake |-> 0, cut |-> FALSE, grant |-> "none",
            sent |-> 0, records |-> 0, skips |-> 0, ownUntil |-> 0]

BudgetInit ==
    /\ clock = 0 /\ cooldown = 0 /\ token = -TokenInterval /\ noted = {}
    /\ get = [q \in Requests |-> NewGet]

ClockTick ==
    /\ clock < MaxGetTime /\ clock' = clock + 1
    /\ noted' = {n \in noted : n.time > clock + 1 - StormWindow}
    /\ UNCHANGED <<cooldown, token, get>>

-----------------------------------------------------------------------------
(* Steps of one request.                                                   *)

At(q, where) == get[q].at = where
Becomes(q, r) == get' = [get EXCEPT ![q] = r]
GoesTo(q, where) == Becomes(q, [get[q] EXCEPT !.at = where])
Expired(q) == clock >= get[q].deadline

(* record_result closes a grant with an outcome; a second one for the same *)
(* grant would be "twice".                                                 *)
Close(g, outcome) == IF g = "open" THEN outcome ELSE IF g = "none" THEN "none" ELSE "twice"
(* A BYBIT_API_CALL record of an attempt.                                  *)
Recorded(r) == [r EXCEPT !.records = @ + 1]

(* deny and the other ways out: the request raises.                        *)
GetRaised(r) == [r EXCEPT !.at = "over"]
(* The bug of a skip that leaves the grant open.                           *)
SkippedHoldingGrant(r, outcome) ==
    IF outcome = "REVOKED" THEN GetRaised([r EXCEPT !.skips = @ + 1, !.grant = Close(@, outcome)])
    ELSE GetRaised([r EXCEPT !.skips = @ + 1])
(* A BYBIT_API_SKIP record, the grant given back, and the denial.          *)
Skipped(r, outcome) == GetRaised([r EXCEPT !.skips = @ + 1, !.grant = Close(@, outcome)])

(* The deadline is fixed at entry, before anything that may block.         *)
EnterRequest(q) ==
    /\ At(q, "new")
    /\ Becomes(q, [NewGet EXCEPT !.at = "gate", !.attempt = 1,
                                  !.deadline = clock + RetryDeadline])
    /\ UNCHANGED <<clock, cooldown, token, noted>>

(* RetryStormGuard.allow_retry.                                            *)
RetryNotes == {n \in noted : n.retry}
AllowRetry ==
    LET retries == Cardinality(RetryNotes) attempts == Cardinality(noted)
    IN  /\ retries + 1 <= StormMax
        /\ attempts >= StormSample => 2 * (retries + 1) <= attempts + 1

CheckRetry(q) ==
    /\ At(q, "check")
    /\ IF Expired(q) \/ ~AllowRetry THEN Becomes(q, GetRaised(get[q])) ELSE GoesTo(q, "gate")
    /\ UNCHANGED <<clock, cooldown, token, noted>>

(* RateLimitBreaker.gate, up to its sleep and after it.                    *)
Gate(q) ==
    LET remaining == cooldown - clock
    IN  /\ At(q, "gate")
        /\ \/ remaining <= 0 /\ GoesTo(q, "token")
           \/ remaining > 0 /\ Priority[q] = "P3" /\ Becomes(q, GetRaised(get[q]))
           \/ /\ remaining > 0 /\ Priority[q] # "P3"
              /\ Becomes(q, [get[q] EXCEPT !.at = "gated",
                                           !.wake = clock + LowerOf(remaining, GateWait),
                                           !.cut = GateWait < remaining])
        /\ UNCHANGED <<clock, cooldown, token, noted>>

(* The wait was cut short and the breaker is still open: deferred.  A wait *)
(* that was not cut goes on, whatever other threads did to the breaker.    *)
MayPassGate(q) == ~get[q].cut \/ cooldown <= clock

LeaveGate(q) ==
    /\ At(q, "gated") /\ clock >= get[q].wake
    /\ IF MayPassGate(q) THEN GoesTo(q, "token") ELSE Becomes(q, GetRaised(get[q]))
    /\ UNCHANGED <<clock, cooldown, token, noted>>

(* _RateLimiter.acquire sleeps until a token is due.                       *)
TakeToken(q) ==
    /\ At(q, "token") /\ clock - token >= TokenInterval
    /\ token' = clock /\ GoesTo(q, "ready")
    /\ UNCHANGED <<clock, cooldown, noted>>

(* The deadline is checked after the blocking waits; note_attempt.         *)
NoteAttempt(q) ==
    /\ At(q, "ready")
    /\ IF Expired(q)
       THEN Becomes(q, Skipped(get[q], "NOT_SENT")) /\ UNCHANGED noted
       ELSE /\ GoesTo(q, IF SharedLimiter THEN "acquire" ELSE "prepared")
            /\ noted' = noted \union {[time |-> clock, by |-> q, n |-> get[q].attempt,
                                       retry |-> get[q].attempt > 1]}
    /\ UNCHANGED <<clock, cooldown, token>>

(* The shared limiter: unavailable or denied; or granted, and the deadline *)
(* is checked again before prepare_send.                                   *)
AcquireShared(q) ==
    /\ At(q, "acquire")
    /\ \/ Becomes(q, Skipped(get[q], "NOT_SENT"))
       \/ LET r == [get[q] EXCEPT !.grant = "open"]
          IN  Becomes(q, IF Expired(q) THEN Skipped(r, "NOT_SENT")
                         ELSE [r EXCEPT !.at = "granted"])
    /\ UNCHANGED <<clock, cooldown, token, noted>>

(* prepare_send: the grant may have been revoked meanwhile.                *)
PrepareSend(q) ==
    /\ At(q, "granted")
    /\ GoesTo(q, "prepared") \/ Becomes(q, Skipped(get[q], "REVOKED"))
    /\ UNCHANGED <<clock, cooldown, token, noted>>

(* The last check, and the send with what is left as its timeout.          *)
Send(q) ==
    /\ At(q, "prepared")
    /\ Becomes(q, IF Expired(q) THEN Skipped(get[q], "NOT_SENT")
                  ELSE [get[q] EXCEPT !.at = "http", !.sent = @ + 1,
                                       !.wake = LowerOf(clock + HttpTimeout, get[q].deadline)])
    /\ UNCHANGED <<clock, cooldown, token, noted>>

(* attempt_once: one telemetry record, one record_result.  The transport   *)
(* reports a timeout when its time is over; anything else ends the request *)
(* unless it is a rate limit.                                              *)
Answer(q, a) ==
    /\ At(q, "http") /\ (a = "TIMEOUT" => clock >= get[q].wake)
    /\ LET r == [Recorded(get[q]) EXCEPT !.grant = Close(@, a)]
       IN  Becomes(q, IF a \in Retryable THEN [r EXCEPT !.at = "decide", !.class = a]
                      ELSE GetRaised(r))
    /\ UNCHANGED <<clock, cooldown, token, noted>>

(* BackoffSchedule.next_delay: never shorter than the one before, bounded, *)
(* jitter of up to a half for rate limits.                                 *)
Doubled(n) == IF n = 1 THEN 1 ELSE IF n = 2 THEN 2 ELSE 4
NextDelay(r, d) == LowerOf(HigherOf(d, r.delay), MaxDelay)
RlDelays(n) == LET base == RateLimitBase * Doubled(n) IN base..(base + base \div 2)

SleepFor(r, d) ==
    [r EXCEPT !.at = "backoff", !.delay = NextDelay(r, d), !.wake = clock + NextDelay(r, d),
              !.grant = "none"]

(* The retry decision.  A rate limit opens the breaker whatever follows.   *)
DecideRateLimit(q) ==
    LET r == [get[q] EXCEPT !.ownUntil = clock + Cooldown]
    IN  /\ At(q, "decide") /\ get[q].class = "RATE_LIMIT"
        /\ cooldown' = HigherOf(cooldown, clock + Cooldown)
        /\ \/ /\ r.attempt >= Budget \/ r.rl >= RlCap(q)
              /\ Becomes(q, GetRaised(r))
           \/ /\ r.attempt < Budget /\ r.rl < RlCap(q)
              /\ \E d \in RlDelays(r.rl + 1) :
                   Becomes(q, SleepFor([r EXCEPT !.rl = @ + 1], d))
        /\ UNCHANGED <<clock, token, noted>>

DecideTimeout(q) ==
    LET r == get[q]
    IN  /\ At(q, "decide") /\ r.class = "TIMEOUT"
        /\ Becomes(q, IF r.attempt >= Budget THEN GetRaised(r)
                      ELSE SleepFor([r EXCEPT !.timeouts = @ + 1],
                                    TimeoutBase * Doubled(r.timeouts + 1)))
        /\ UNCHANGED <<clock, cooldown, token, noted>>

WakeUp(q) ==
    /\ At(q, "backoff") /\ clock >= get[q].wake
    /\ Becomes(q, [get[q] EXCEPT !.at = "check", !.attempt = @ + 1])
    /\ UNCHANGED <<clock, cooldown, token, noted>>

BudgetNext ==
    \/ ClockTick
    \/ \E q \in Requests :
         \/ EnterRequest(q) \/ CheckRetry(q) \/ Gate(q) \/ LeaveGate(q) \/ TakeToken(q)
         \/ NoteAttempt(q) \/ AcquireShared(q) \/ PrepareSend(q) \/ Send(q)
         \/ \E a \in Answers : Answer(q, a)
         \/ DecideRateLimit(q) \/ DecideTimeout(q) \/ WakeUp(q)

BudgetSpec == BudgetInit /\ [][BudgetNext]_budgetVars

-----------------------------------------------------------------------------
(* Properties.                                                             *)

BudgetTypeOK ==
    /\ clock \in 0..MaxGetTime /\ cooldown \in 0..(MaxGetTime + Cooldown)
    /\ \A q \in Requests : get[q].attempt \in 0..Budget /\ get[q].rl \in 0..RlCap(q)
    /\ \A n \in noted : n.by \in Requests

(* A logical request issues no more attempts than its budget and never     *)
(* more rate-limit retries than its priority allows, whatever errors it    *)
(* meets and whoever else is running.                                      *)
BudgetKept == \A q \in Requests : get[q].sent <= get[q].attempt /\ get[q].attempt <= Budget

(* A request that has ended left nothing behind: every attempt has exactly *)
(* one telemetry record, and every grant it got was given back exactly     *)
(* once, on every way out, with an outcome that says truly whether the     *)
(* attempt was sent.                                                       *)
NothingLeftBehind ==
    \A q \in Requests :
      /\ get[q].grant # "twice"
      /\ get[q].at = "over" => get[q].grant # "open" /\ get[q].records = get[q].sent
      /\ get[q].grant \in {"NOT_SENT", "REVOKED"} => get[q].sent < get[q].attempt
      /\ get[q].grant \in Answers => get[q].sent = get[q].attempt

(* The check of the storm guard and the note of the attempt are not one    *)
(* step: the cap may be passed, but only by one retry of every other       *)
(* thread.                                                                 *)
StormIsBounded ==
    Cardinality(RetryNotes) <= HigherOf(StormMax + Cardinality(Requests) - 1, 0)

(* No attempt leaves when the deadline of the request has passed, and none *)
(* leaves before the cooldown is over that the request's own rate limit    *)
(* opened.  (The cooldown another thread opens while the request sleeps in *)
(* the gate does not stop it.)                                             *)
SendsInTime ==
    \A q \in Requests : get'[q].sent > get[q].sent =>
        /\ clock < get[q].deadline
        /\ clock >= get[q].ownUntil

BudgetSafe ==
    /\ [](BudgetTypeOK /\ BudgetKept /\ NothingLeftBehind /\ StormIsBounded)
    /\ [][SendsInTime]_budgetVars
=============================================================================

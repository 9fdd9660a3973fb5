----------------------------- MODULE OrderSubmit -----------------------------
(***************************************************************************)
(* The fail-closed double-submit guard of POST /v5/order/create:           *)
(* OrderSubmitGuard (app/exchange/retry_budget.py) with the two clients    *)
(* that drive it, BybitClient.create_order and                             *)
(* BybitClient.reconcile_order_submissions (app/exchange/bybit_client.py). *)
(*                                                                         *)
(* Several processes, each with one guard object and several threads,      *)
(* share one journal file.  A journal transaction runs under the lock      *)
(* file, reloads the journal, recovers orphans, mutates and writes with an *)
(* atomic os.replace, so it is ONE step here, whose outcome says where it  *)
(* failed.  Everything between two transactions interleaves: the POST, the *)
(* exchange's own processing of it, the answer, crashes and restarts, and  *)
(* the two-step reconciliation (query the exchange, then resolve).         *)
(***************************************************************************)
EXTENDS FiniteSets

CONSTANTS
    Procs,       \* processes of the bot that share the journal
    Threads,     \* threads of control that submit or reconcile
    Home,        \* the process each thread runs in
    Tools,       \* processes that only run the reconcile command-line tool
    FPs,         \* fingerprints (symbol, side, qty, type)
    Symbol,      \* the symbol of a fingerprint
    Links,       \* orderLinkIds
    Attempts,    \* submissions that may be tried (bounds the runs)
    ReuseLinks,  \* may a caller pass an orderLinkId that was used before?
    LimiterOn,   \* is the shared rate limiter enabled?
    NoProc, NoAttempt, NoKey

Keys == FPs \X Links
FP(k) == k[1]
Link(k) == k[2]

ASSUME ConstantsAssumption ==
    /\ Home \in [Threads -> Procs]
    /\ Tools \subseteq Procs
    /\ ReuseLinks \in BOOLEAN
    /\ LimiterOn \in BOOLEAN
    /\ NoProc \notin Procs
    /\ NoAttempt \notin Attempts
    /\ NoKey \notin Keys

VARIABLES
    journal,  \* the journal file: one record per <<fingerprint, orderLinkId>>
    guard,    \* per process: "down", "unbound", "ok" or "failed" (load error / write degraded)
    pc,       \* where each thread is in create_order / reconcile_order_submissions
    cur,      \* the attempt a thread is submitting
    todo,     \* keys a reconciling thread read as unknown and has not queried yet
    hit,      \* the key a reconciling thread just saw confirmed
    key,      \* the key under which an attempt was recorded
    fate      \* what became of each attempt, at the exchange

vars == <<journal, guard, pc, cur, todo, hit, key, fate>>

ActiveStates == {"in_flight", "unknown"}
Decided == {"created", "refused"}

(* "absent" stands for "no record under this key".  holder is the process  *)
(* that still holds the record's witness lock: the operating system        *)
(* releases it when the process dies.  att is a history variable.          *)
Record == [state: {"absent", "in_flight", "unknown", "resolved"},
           holder: Procs \union {NoProc},
           att: Attempts \union {NoAttempt}]

Absent == [state |-> "absent", holder |-> NoProc, att |-> NoAttempt]

(* The type invariant.                                                     *)
TypeOK ==
    /\ journal \in [Keys -> Record]
    /\ guard \in [Procs -> {"down", "unbound", "ok", "failed"}]
    /\ pc \in [Threads -> {"idle", "reserved", "sent", "answered", "unclear",
                           "reconciling", "confirmed"}]
    /\ cur \in [Threads -> Attempts \union {NoAttempt}]
    /\ todo \in [Threads -> SUBSET Keys]
    /\ hit \in [Threads -> Keys \union {NoKey}]
    /\ key \in [Attempts -> Keys \union {NoKey}]
    /\ fate \in [Attempts -> {"unused", "unsent", "pending", "created", "refused"}]

Init ==
    /\ journal = [k \in Keys |-> Absent]
    /\ guard = [p \in Procs |-> "down"]
    /\ pc = [t \in Threads |-> "idle"]
    /\ cur = [t \in Threads |-> NoAttempt]
    /\ todo = [t \in Threads |-> {}]
    /\ hit = [t \in Threads |-> NoKey]
    /\ key = [a \in Attempts |-> NoKey]
    /\ fate = [a \in Attempts |-> "unused"]

-----------------------------------------------------------------------------
(* Journal transactions.                                                   *)

Active(j, k) == j[k].state \in ActiveStates

(* Mutant: any in_flight record is taken for an orphan.                    *)
OrphansAnyOwner(j) == {k \in Keys : j[k].state = "in_flight"}

(* Records whose owner is provably gone: the witness lock is free.  A live *)
(* owner is never in this set.                                             *)
Orphans(j) == {k \in Keys : j[k].state = "in_flight" /\ j[k].holder = NoProc}

(* Mutant: the verdict is written in place of the state.                   *)
RecoverToVerdict(j, S) ==
    [k \in Keys |-> IF k \in S THEN [j[k] EXCEPT !.state = "ORPHANED"] ELSE j[k]]

(* Mutant: orphans are left alone.                                         *)
RecoverNothing(j, S) == j

(* _recover_locked: the probe of an orphan's witness may also answer       *)
(* UNVERIFIED (missing or unusable witness file); S is the set of records  *)
(* judged ORPHANED, the others keep blocking.                              *)
Recover(j, S) ==
    [k \in Keys |-> IF k \in S THEN [j[k] EXCEPT !.state = "unknown"] ELSE j[k]]

(* Mutant: only an in_flight record blocks.                                *)
BlockedInFlight(j, k) ==
    \E q \in Keys : j[q].state = "in_flight" /\ (FP(q) = FP(k) \/ Link(q) = Link(k))

(* begin refuses a key while a record of the same fingerprint, or of the   *)
(* same orderLinkId, is active.                                            *)
Blocked(j, k) ==
    \E q \in Keys : Active(j, q) /\ (FP(q) = FP(k) \/ Link(q) = Link(k))

NewRecord(state, p, a) == [state |-> state, holder |-> p, att |-> a]

(* How a transaction can end: "ok"; "lockout" (lock file not obtained);    *)
(* "unreadable" (reload or validation failed); "unwritten" (directory,     *)
(* witness or write failed before os.replace); "replaced" (os.replace done *)
(* but the directory fsync failed, so it is reported as a failure).        *)
Outcomes == {"ok", "lockout", "unreadable", "unwritten", "replaced"}

(* _transaction of process p turning the journal into j.  Nothing is       *)
(* written when nothing changed, so "replaced" needs a change.             *)
Transact(p, o, j) ==
    /\ o = "replaced" => j # journal
    /\ journal' = IF o \in {"ok", "replaced"} THEN j ELSE journal
    /\ guard' = [guard EXCEPT ![p] =
                    IF o \in {"unreadable", "unwritten", "replaced"} THEN "failed" ELSE @]

-----------------------------------------------------------------------------
(* Processes.                                                              *)

Start(p) ==
    /\ guard[p] = "down"
    /\ guard' = [guard EXCEPT ![p] = "unbound"]
    /\ UNCHANGED <<journal, pc, cur, todo, hit, key, fate>>

(* A process ends, by exiting or by crashing at any point: its threads are *)
(* gone and the operating system releases its witness lock.                *)
Stop(p) ==
    /\ guard[p] # "down"
    /\ guard' = [guard EXCEPT ![p] = "down"]
    /\ pc' = [t \in Threads |-> IF Home[t] = p THEN "idle" ELSE pc[t]]
    /\ cur' = [t \in Threads |-> IF Home[t] = p THEN NoAttempt ELSE cur[t]]
    /\ todo' = [t \in Threads |-> IF Home[t] = p THEN {} ELSE todo[t]]
    /\ hit' = [t \in Threads |-> IF Home[t] = p THEN NoKey ELSE hit[t]]
    /\ journal' = [k \in Keys |-> IF journal[k].holder = p
                                  THEN [journal[k] EXCEPT !.holder = NoProc]
                                  ELSE journal[k]]
    /\ UNCHANGED <<key, fate>>

(* configure: bind the journal path and run the durable restart recovery.  *)
(* Any failure sets _load_error; a later call with the same path is a      *)
(* no-op, so only a new process leaves "failed".                           *)
Configure(p, o, S) ==
    /\ guard[p] = "unbound"
    /\ o = "replaced" => S # {}
    /\ journal' = IF o \in {"ok", "replaced"} THEN Recover(journal, S) ELSE journal
    /\ guard' = [guard EXCEPT ![p] = IF o = "ok" THEN "ok" ELSE "failed"]
    /\ UNCHANGED <<pc, cur, todo, hit, key, fate>>

-----------------------------------------------------------------------------
(* create_order.                                                           *)

Idle(t) == pc[t] = "idle" /\ guard[Home[t]] = "ok"

Finish(t) ==
    /\ pc' = [pc EXCEPT ![t] = "idle"]
    /\ cur' = [cur EXCEPT ![t] = NoAttempt]

(* A link generated with uuid4 was never used; a caller-supplied one may   *)
(* have been.                                                              *)
LinkAllowed(l) ==
    ReuseLinks \/ \A b \in Attempts : key[b] # NoKey => Link(key[b]) # l

(* begin returns True: the reservation is durable before anything is sent. *)
Begin(t, a, k, S) ==
    /\ Idle(t) /\ Home[t] \notin Tools
    /\ fate[a] = "unused" /\ LinkAllowed(Link(k))
    /\ ~Blocked(Recover(journal, S), k)
    /\ Transact(Home[t], "ok",
           [Recover(journal, S) EXCEPT ![k] = NewRecord("in_flight", Home[t], a)])
    /\ key' = [key EXCEPT ![a] = k]
    /\ fate' = [fate EXCEPT ![a] = "unsent"]
    /\ pc' = [pc EXCEPT ![t] = "reserved"]
    /\ cur' = [cur EXCEPT ![t] = a]
    /\ UNCHANGED <<todo, hit>>

(* begin fails after os.replace: the record is in the journal, the caller  *)
(* gets an exception and nothing is ever sent for it.                      *)
BeginTorn(t, a, k, S) ==
    /\ Idle(t) /\ Home[t] \notin Tools
    /\ fate[a] = "unused" /\ LinkAllowed(Link(k))
    /\ ~Blocked(Recover(journal, S), k)
    /\ Transact(Home[t], "replaced",
           [Recover(journal, S) EXCEPT ![k] = NewRecord("in_flight", Home[t], a)])
    /\ key' = [key EXCEPT ![a] = k]
    /\ fate' = [fate EXCEPT ![a] = "unsent"]
    /\ UNCHANGED <<pc, cur, todo, hit>>

(* begin returns False (blocked) or raises: no record is added and no POST *)
(* leaves, but the recovery transition of the transaction is kept.         *)
BeginRefused(t, k, o, S) ==
    /\ Idle(t) /\ Home[t] \notin Tools
    /\ IF Blocked(Recover(journal, S), k)
       THEN Transact(Home[t], o, Recover(journal, S))
       ELSE o \in {"lockout", "unreadable", "unwritten"} /\ Transact(Home[t], o, journal)
    /\ UNCHANGED <<pc, cur, todo, hit, key, fate>>

(* prepare_send answered False: create_order raises before the POST and    *)
(* leaves the journal record as it is.                                     *)
GrantRevoked(t) ==
    /\ LimiterOn
    /\ pc[t] = "reserved"
    /\ Finish(t)
    /\ UNCHANGED <<journal, guard, todo, hit, key, fate>>

(* The single POST leaves the process.                                     *)
Post(t) ==
    /\ pc[t] = "reserved"
    /\ fate' = [fate EXCEPT ![cur[t]] = "pending"]
    /\ pc' = [pc EXCEPT ![t] = "sent"]
    /\ UNCHANGED <<journal, guard, cur, todo, hit, key>>

(* The exchange processes a POST at any time, also after the client gave   *)
(* up waiting for it; a lost request stays "pending" for ever.             *)
ExchangeDecides(a) ==
    /\ fate[a] = "pending"
    /\ \E f \in Decided : fate' = [fate EXCEPT ![a] = f]
    /\ UNCHANGED <<journal, guard, pc, cur, todo, hit, key>>

(* Mutant: any HTTP response counts as a definitive answer.                *)
AnyAnswer(t) ==
    /\ pc[t] = "sent"
    /\ pc' = [pc EXCEPT ![t] = "answered"]
    /\ UNCHANGED <<journal, guard, cur, todo, hit, key, fate>>

(* A definitive answer: retCode 0, another valid retCode, or an HTTP 4xx   *)
(* other than 429.                                                         *)
DefinitiveAnswer(t) ==
    /\ pc[t] = "sent"
    /\ fate[cur[t]] \in Decided
    /\ pc' = [pc EXCEPT ![t] = "answered"]
    /\ UNCHANGED <<journal, guard, cur, todo, hit, key, fate>>

(* Timeout, transport failure, HTTP 429 or 5xx, unparseable body, invalid  *)
(* retCode: says nothing about the order.                                  *)
IndefiniteAnswer(t) ==
    /\ pc[t] = "sent"
    /\ pc' = [pc EXCEPT ![t] = "unclear"]
    /\ UNCHANGED <<journal, guard, cur, todo, hit, key, fate>>

(* mark_unknown / mark_resolved: rewrite the caller's own record, whatever *)
(* it holds, creating it when it is missing.                               *)
Marked(j, k, state, p, a) ==
    [j EXCEPT ![k] = IF @.state = "absent" THEN NewRecord(state, p, a)
                     ELSE [@ EXCEPT !.state = state]]

(* The transaction of mark_*: any failure, an already failed guard         *)
(* included, leaves the journal alone, sets _write_degraded and is         *)
(* swallowed.                                                              *)
Mark(t, state, o, S) ==
    LET p == Home[t]
        j == Marked(Recover(journal, S), key[cur[t]], state, p, cur[t])
    IN /\ IF guard[p] = "ok"
          THEN /\ o = "replaced" => j # journal
               /\ journal' = IF o \in {"ok", "replaced"} THEN j ELSE journal
               /\ guard' = [guard EXCEPT ![p] = IF o = "ok" THEN @ ELSE "failed"]
          ELSE o = "unwritten" /\ UNCHANGED <<journal, guard>>
       /\ Finish(t)
       /\ UNCHANGED <<todo, hit, key, fate>>

MarkUnknown(t, o, S) == pc[t] = "unclear" /\ Mark(t, "unknown", o, S)
MarkResolved(t, o, S) == pc[t] = "answered" /\ Mark(t, "resolved", o, S)

-----------------------------------------------------------------------------
(* reconcile_order_submissions.                                            *)

UnknownKeys(j) == {k \in Keys : j[k].state = "unknown"}

(* recover_orphaned_in_flight, then a copy of the unknown records.         *)
ReconcileStart(t, o, S) ==
    /\ Idle(t)
    /\ Transact(Home[t], o, Recover(journal, S))
    /\ IF o = "ok" /\ UnknownKeys(journal') # {}
       THEN /\ pc' = [pc EXCEPT ![t] = "reconciling"]
            /\ todo' = [todo EXCEPT ![t] = UnknownKeys(journal')]
       ELSE UNCHANGED <<pc, todo>>
    /\ UNCHANGED <<cur, hit, key, fate>>

(* Mutant: the orderLinkId of the row is not compared.                     *)
MatchSymbol(a, k) == key[a] # NoKey /\ Symbol[FP(key[a])] = Symbol[FP(k)]

(* _is_strict_order_match on a row of the exchange: exact orderLinkId and  *)
(* the expected symbol.                                                    *)
StrictMatch(a, k) == Link(key[a]) = Link(k) /\ Symbol[FP(key[a])] = Symbol[FP(k)]

(* The queries found a matching row with a confirming status.              *)
QueryConfirms(t, k) ==
    /\ pc[t] = "reconciling" /\ k \in todo[t]
    /\ \E a \in Attempts : fate[a] = "created" /\ StrictMatch(a, k)
    /\ hit' = [hit EXCEPT ![t] = k]
    /\ pc' = [pc EXCEPT ![t] = "confirmed"]
    /\ UNCHANGED <<journal, guard, cur, todo, key, fate>>

(* Leave the loop when the copy is exhausted.                              *)
NextEntry(t, k) ==
    /\ todo' = [todo EXCEPT ![t] = @ \ {k}]
    /\ pc' = [pc EXCEPT ![t] = IF todo[t] \ {k} = {} THEN "idle" ELSE "reconciling"]

(* Query failure, no row, foreign rows, non-confirming status: the record  *)
(* stays an unresolved blocker.                                            *)
QueryInconclusive(t, k) ==
    /\ pc[t] = "reconciling" /\ k \in todo[t]
    /\ NextEntry(t, k)
    /\ UNCHANGED <<journal, guard, cur, hit, key, fate>>

(* The active records resolve_reconciled may pick for this orderLinkId.    *)
ReconcileTargets(j, k) == {q \in Keys : Active(j, q) /\ Link(q) = Link(k)}

(* resolve_reconciled and the rest of the loop; an exception of its        *)
(* transaction ends the whole procedure.                                   *)
ResolveReconciled(t, o, S) ==
    /\ pc[t] = "confirmed"
    /\ guard[Home[t]] = "ok"
    /\ LET j == Recover(journal, S)
           targets == ReconcileTargets(j, hit[t])
       IN \/ /\ targets = {}
             /\ Transact(Home[t], o, j)
          \/ \E q \in targets :
                Transact(Home[t], o, [j EXCEPT ![q].state = "resolved"])
    /\ hit' = [hit EXCEPT ![t] = NoKey]
    /\ IF o = "ok" THEN NextEntry(t, hit[t])
       ELSE /\ pc' = [pc EXCEPT ![t] = "idle"]
            /\ todo' = [todo EXCEPT ![t] = {}]
    /\ UNCHANGED <<cur, key, fate>>

(* The guard failed under another thread meanwhile: the transaction        *)
(* refuses at once and the procedure ends.                                 *)
ResolveRefused(t) ==
    /\ pc[t] = "confirmed"
    /\ guard[Home[t]] = "failed"
    /\ hit' = [hit EXCEPT ![t] = NoKey]
    /\ pc' = [pc EXCEPT ![t] = "idle"]
    /\ todo' = [todo EXCEPT ![t] = {}]
    /\ UNCHANGED <<journal, guard, cur, key, fate>>

-----------------------------------------------------------------------------
Submit(t) ==
    \/ \E a \in Attempts, k \in Keys, S \in SUBSET Orphans(journal) :
          Begin(t, a, k, S) \/ BeginTorn(t, a, k, S)
    \/ \E k \in Keys, o \in Outcomes, S \in SUBSET Orphans(journal) : BeginRefused(t, k, o, S)
    \/ GrantRevoked(t)
    \/ Post(t)
    \/ DefinitiveAnswer(t)
    \/ IndefiniteAnswer(t)
    \/ \E o \in Outcomes, S \in SUBSET Orphans(journal) : MarkUnknown(t, o, S) \/ MarkResolved(t, o, S)

Reconcile(t) ==
    \/ \E o \in Outcomes, S \in SUBSET Orphans(journal) : ReconcileStart(t, o, S)
    \/ \E k \in Keys : QueryConfirms(t, k) \/ QueryInconclusive(t, k)
    \/ \E o \in Outcomes, S \in SUBSET Orphans(journal) : ResolveReconciled(t, o, S)
    \/ ResolveRefused(t)

Next ==
    \/ \E p \in Procs : Start(p) \/ Stop(p)
    \/ \E p \in Procs, o \in Outcomes, S \in SUBSET Orphans(journal) : Configure(p, o, S)
    \/ \E t \in Threads : Submit(t) \/ Reconcile(t)
    \/ \E a \in Attempts : ExchangeDecides(a)

Spec == Init /\ [][Next]_vars

(* The operator keeps running the reconcile tool: it starts, binds the     *)
(* journal, goes through the unknown records and exits.  Storage, witness  *)
(* probes and exchange queries that keep being tried succeed now and then. *)
(* Nothing is assumed of the processes that submit orders.                 *)
ToolDone(p) == guard[p] \in {"ok", "failed"} /\ \A t \in Threads : Home[t] = p => pc[t] = "idle"

ToolFairness ==
    /\ \A p \in Tools :
          /\ WF_vars(Start(p))
          /\ WF_vars(ToolDone(p) /\ Stop(p))
          /\ SF_vars(Configure(p, "ok", Orphans(journal)))
    /\ \A t \in {u \in Threads : Home[u] \in Tools} :
          /\ WF_vars(Reconcile(t))
          /\ SF_vars(ReconcileStart(t, "ok", Orphans(journal)))
          /\ SF_vars(ResolveReconciled(t, "ok", Orphans(journal)))
          /\ \A k \in Keys : SF_vars(QueryConfirms(t, k))

FairSpec == Spec /\ ToolFairness

-----------------------------------------------------------------------------
(* Properties.                                                             *)

(* Two POSTs of the same fingerprint are never undecided at the exchange   *)
(* together: create_order does not send while an earlier identical         *)
(* submission may still create an order, over crashes, restarts, failed    *)
(* writes and concurrent reconciliation.                                   *)
AtMostOneUndecided ==
    \A a, b \in Attempts :
        fate[a] = "pending" /\ fate[b] = "pending" /\ FP(key[a]) = FP(key[b]) => a = b

(* A POST the exchange has not decided is always covered by a blocking     *)
(* record in the journal FILE, so that a process started at this moment    *)
(* refuses the same fingerprint (begin's durable write comes first).       *)
PendingIsBlocked ==
    \A a \in Attempts : fate[a] = "pending" => Active(journal, key[a])

(* The block is lifted only by definitive evidence: a resolved record      *)
(* belongs to a submission the exchange has really decided, whether        *)
(* mark_resolved or resolve_reconciled wrote it.                           *)
ResolvedIsDecided ==
    \A k \in Keys : journal[k].state = "resolved" => fate[journal[k].att] \in Decided

(* While the owner of an in_flight record lives, only the owner's own      *)
(* thread moves it: recovery and reconciliation by other processes never   *)
(* touch a submission that may still be in progress.                       *)
OwnerDecides ==
    [][\A k \in Keys :
          journal[k].state = "in_flight" /\ journal'[k].state # "in_flight"
          /\ journal[k].holder # NoProc
          => \E t \in Threads : /\ Home[t] = journal[k].holder
                                /\ cur[t] = journal[k].att
                                /\ pc[t] \in {"answered", "unclear"}]_vars

(* Evidence is never undone: no late mark_unknown, recovery or second      *)
(* reconciliation reopens a resolved record.                               *)
ResolvedIsFinal ==
    [][\A k \in Keys : journal[k].state = "resolved" => journal'[k].state = "resolved"]_vars

(* An order that exists at the exchange and whose submitter lost track of  *)
(* it (unknown, or in_flight with a dead owner) is eventually resolved, if *)
(* the reconcile tool keeps being run: recovery makes orphans visible and  *)
(* reconciliation finds them.                                              *)
LostOrderIsReconciled ==
    \A k \in Keys :
        (/\ \/ journal[k].state = "unknown"
            \/ journal[k].state = "in_flight" /\ journal[k].holder = NoProc
         /\ fate[journal[k].att] = "created")
        ~> journal[k].state = "resolved"

-----------------------------------------------------------------------------
(* The abstract gate.  A record that blocks is a gate that is taken.       *)
Held == {<<FP(k), journal[k].att>> : k \in {q \in Keys : Active(journal, q)}}

Stage == [a \in Attempts |-> CASE fate[a] = "unused" -> "new"
                               [] fate[a] = "unsent" -> "taken"
                               [] fate[a] = "pending" -> "sent"
                               [] OTHER -> "decided"]

Gate == INSTANCE OrderGate WITH held <- Held, stage <- Stage

(* A record changes hands by its owner's answer, its owner's death or      *)
(* reconciliation, and once resolved it stays so.                          *)
JournalDiscipline == OwnerDecides /\ ResolvedIsFinal

(* The guard implements the abstract gate: whatever crashes, fails, is     *)
(* recovered or reconciled, a fingerprint's gate is taken before a POST    *)
(* leaves, is held by one submission at a time, and is opened by a         *)
(* decision of the exchange and by nothing else.                           *)
GateRefined == Gate!GateSpec
=============================================================================

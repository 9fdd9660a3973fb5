----------------------------- MODULE HtfObserver -----------------------------
(***************************************************************************)
(* The Phase-2 observer of HTF key levels                                  *)
(* (app/research/htf_baseline_short_phase2_observer_runner_v1.py): a cycle *)
(* takes the writer lease, restores the checkpoint, advances the episode   *)
(* machine (..._episode_v1.py) over every closed bar it has not processed, *)
(* writes the confirmed events to the database (..._persistence_v1.py),    *)
(* checks the lease, and replaces the checkpoint (..._state_store_v1.py).  *)
(* "Delivery guarantee: AT-LEAST-ONCE with IDEMPOTENT writes".             *)
(*                                                                         *)
(* One symbol.  Bar n opens at time n and closes at n + 1; what a bar says *)
(* about a level is fixed when it closes: is the level in the universe of  *)
(* that bar, does the bar touch it, and does a reaction to an earlier      *)
(* touch end with it.                                                      *)
(***************************************************************************)
EXTENDS Integers, Sequences, FiniteSets

CONSTANTS
    Levels,
    MaxBars,     \* bounds the history
    WarmupBars,  \* warmup_bars
    HtfFreeze,   \* freeze_ts, as a time
    HtfWindow,   \* CANONICAL_WINDOW: bars in which the first touch is looked for
    Observers,   \* processes
    Takeover     \* allow_stale_takeover

ASSUME HtfConstants ==
    /\ IsFiniteSet(Levels)
    /\ {MaxBars, WarmupBars, HtfWindow} \subseteq Nat /\ HtfFreeze \in Int
    /\ HtfWindow > 0 /\ Takeover \in BOOLEAN
    /\ {"free", "dead"} \cap Observers = {}

VARIABLES
    hist,    \* the closed bars
    ckpt,    \* the checkpoint file, as a set of at most one
    lease,   \* the owner of the lock file: "free", "dead" or a process
    hpc,     \* where each process is
    work,    \* its episode machine, cursor and warm-up count
    upto,    \* the number of bars it has loaded
    outbox,  \* confirmed and eligible events, not written yet
    stored,  \* rows of research.htf_baseline_short_phase2_observation
    burnt    \* history: a bar was counted for the warm-up and not advanced over

htfVars == <<hist, ckpt, lease, hpc, work, upto, outbox, stored, burnt>>

Times == 0..(MaxBars - 1)
NoBar == -1
Bar == [Levels -> [found: BOOLEAN, touch: BOOLEAN, react: BOOLEAN]]

(* An episode is its level and the time of its first touch; so is its      *)
(* event (episode_id_for has no counters in it).                           *)
Episode == Levels \X Times

(* Phase2Episodes with the cursor: the next bar, the levels known so far,  *)
(* the episode each level is in contact with and the one that waits for a  *)
(* reaction (first touches), warm-up episodes and confirmed ones.          *)
Machine == [next: 0..MaxBars, known: SUBSET Levels,
            active: [Levels -> Times \union {NoBar}], pending: [Levels -> Times \union {NoBar}],
            warm: SUBSET Episode, confirmed: SUBSET Episode, warmed: 0..WarmupBars]

NewMachine == [next |-> 0, known |-> {},
               active |-> [l \in Levels |-> NoBar], pending |-> [l \in Levels |-> NoBar],
               warm |-> {}, confirmed |-> {}, warmed |-> 0]

(* The type invariant.                                                     *)
HtfTypeOK ==
    /\ hist \in Seq(Bar) /\ Len(hist) <= MaxBars
    /\ ckpt \subseteq Machine /\ Cardinality(ckpt) <= 1
    /\ lease \in Observers \union {"free", "dead"}
    /\ hpc \in [Observers -> {"off", "stale", "again", "held", "bars", "emitted", "beaten", "saved"}]
    /\ work \in [Observers -> Machine]
    /\ upto \in [Observers -> 0..MaxBars]
    /\ outbox \in [Observers -> SUBSET Episode]
    /\ stored \subseteq Episode
    /\ burnt \in BOOLEAN

HtfInit ==
    /\ hist = <<>> /\ ckpt = {} /\ lease = "free"
    /\ hpc = [p \in Observers |-> "off"]
    /\ work = [p \in Observers |-> NewMachine]
    /\ upto = [p \in Observers |-> 0]
    /\ outbox = [p \in Observers |-> {}]
    /\ stored = {} /\ burnt = FALSE

-----------------------------------------------------------------------------
(* The episode machine.                                                    *)

(* A level is looked at from the bar that finds it, and ever after.        *)
Watched(m, b) == m.known \union {l \in Levels : b[l].found}

(* _advance_mutating, contacts: a touch by a level that is not in contact  *)
(* opens an episode and supersedes the pending one.                        *)
Recontacted(m, b) == {l \in Watched(m, b) : b[l].touch /\ m.active[l] = NoBar}

(* The first touch has left the window.                                    *)
Evicted(m, l) == m.pending[l] < m.next - HtfWindow + 1

(* A pending episode is confirmed by a reaction that ends with this bar,   *)
(* unless the bar opened another one.                                      *)
Confirmed(m, b) ==
    {l \in Watched(m, b) \ Recontacted(m, b) :
        m.pending[l] # NoBar /\ ~Evicted(m, l) /\ b[l].react}

AdvanceEpisodes(m, b, warmup) ==
    LET fresh == Recontacted(m, b)
        done == Confirmed(m, b)
        gone == {l \in Watched(m, b) \ fresh : m.pending[l] # NoBar /\ Evicted(m, l)}
    IN [next |-> m.next + 1,
        known |-> Watched(m, b),
        active |-> [l \in Levels |-> IF l \in fresh THEN m.next
                                     ELSE IF l \in Watched(m, b) /\ b[l].touch /\ l \notin gone
                                     THEN m.active[l] ELSE NoBar],
        pending |-> [l \in Levels |-> IF l \in fresh THEN m.next
                                      ELSE IF l \in done \union gone THEN NoBar ELSE m.pending[l]],
        warm |-> m.warm \union (IF warmup THEN {<<l, m.next>> : l \in fresh} ELSE {}),
        confirmed |-> m.confirmed \union {<<l, m.pending[l]>> : l \in done},
        warmed |-> IF warmup THEN m.warmed + 1 ELSE m.warmed]

(* Phase2FreezeBoundary.check_event: strictly after the freeze, and not    *)
(* from the warm-up.                                                       *)
Eligible(m, e) == e \notin m.warm /\ e[2] > HtfFreeze

(* What one observer that is never interrupted has after n bars.           *)
Ideal[n \in 0..Len(hist)] ==
    IF n = 0 THEN NewMachine ELSE AdvanceEpisodes(Ideal[n - 1], hist[n], n <= WarmupBars)

-----------------------------------------------------------------------------
CloseBar(b) ==
    /\ Len(hist) < MaxBars
    /\ hist' = Append(hist, b)
    /\ UNCHANGED <<ckpt, lease, hpc, work, upto, outbox, stored, burnt>>

ForgetWork(p) ==
    /\ work' = [work EXCEPT ![p] = NewMachine]
    /\ upto' = [upto EXCEPT ![p] = 0]
    /\ outbox' = [outbox EXCEPT ![p] = {}]

(* WriterLease.acquire creates the lock file, or is refused.               *)
AcquireLease(p) ==
    /\ hpc[p] = "off" \/ hpc[p] = "again"
    /\ IF lease = "free" THEN lease' = p /\ hpc' = [hpc EXCEPT ![p] = "held"]
       ELSE lease' = lease /\ hpc[p] = "again" /\ hpc' = [hpc EXCEPT ![p] = "off"]
    /\ UNCHANGED <<hist, ckpt, work, upto, outbox, stored, burnt>>

(* With allow_stale_takeover: the lock of a dead owner is seen, then       *)
(* unlinked, then created anew: three steps, and the second removes        *)
(* whatever lock is there by then.                                         *)
SeeStale(p) ==
    /\ Takeover /\ hpc[p] = "off" /\ lease = "dead"
    /\ hpc' = [hpc EXCEPT ![p] = "stale"]
    /\ UNCHANGED <<hist, ckpt, lease, work, upto, outbox, stored, burnt>>

Unlink(p) ==
    /\ hpc[p] = "stale"
    /\ lease' = "free"
    /\ hpc' = [hpc EXCEPT ![p] = "again"]
    /\ UNCHANGED <<hist, ckpt, work, upto, outbox, stored, burnt>>

(* Without it, an operator deletes the lock file of a dead process.        *)
DeleteLock ==
    /\ ~Takeover /\ lease = "dead"
    /\ lease' = "free"
    /\ UNCHANGED <<hist, ckpt, hpc, work, upto, outbox, stored, burnt>>

(* Mutant: the cursor of the process, not the checkpoint, says where to    *)
(* go on.                                                                  *)
MachineWithout(p) == [NewMachine EXCEPT !.next = IF ckpt = {} THEN 0 ELSE (CHOOSE m \in ckpt : TRUE).next]

(* load_checkpoint; without a file the process goes on with what it has.   *)
RestoredMachine(p) == IF ckpt = {} THEN work[p] ELSE CHOOSE m \in ckpt : TRUE

(* load_checkpoint, _durable_resume_open and the candle source.  The       *)
(* loaded bars may end before the last closed one (a backfill batch); a    *)
(* source that fails blocks the symbol, as if there were no new bar.       *)
LoadBars(p, n) ==
    /\ hpc[p] = "held"
    /\ n \in RestoredMachine(p).next..Len(hist)
    /\ work' = [work EXCEPT ![p] = RestoredMachine(p)]
    /\ upto' = [upto EXCEPT ![p] = n]
    /\ hpc' = [hpc EXCEPT ![p] = "bars"]
    /\ UNCHANGED <<hist, ckpt, lease, outbox, stored, burnt>>

InWarmup(m) == m.warmed < WarmupBars

(* The events of one bar that pass the boundary.                           *)
Outgoing(old, new) == {e \in new.confirmed \ old.confirmed : Eligible(new, e)}

(* One bar of process_symbol_bars.                                         *)
ProcessBar(p) ==
    /\ hpc[p] = "bars" /\ work[p].next < upto[p]
    /\ LET m == work[p]
           new == AdvanceEpisodes(m, hist[m.next + 1], InWarmup(m))
       IN /\ work' = [work EXCEPT ![p] = new]
          /\ outbox' = [outbox EXCEPT ![p] = @ \union Outgoing(m, new)]
    /\ UNCHANGED <<hist, ckpt, lease, hpc, upto, stored, burnt>>

(* The bar is quarantined: the cycle stops before it.  counted: the        *)
(* violation is found after the warm-up was counted for this bar.          *)
Quarantine(p, counted) ==
    /\ hpc[p] = "bars" /\ work[p].next < upto[p]
    /\ counted => InWarmup(work[p])
    /\ upto' = [upto EXCEPT ![p] = work[p].next]
    /\ work' = IF counted THEN [work EXCEPT ![p].warmed = @ + 1] ELSE work
    /\ burnt' = (burnt \/ counted)
    /\ UNCHANGED <<hist, ckpt, lease, hpc, outbox, stored>>

(* Phase2ObservationWriter.emit: one transaction, ON CONFLICT DO NOTHING.  *)
EmitEvents(p) ==
    /\ hpc[p] = "bars" /\ work[p].next = upto[p]
    /\ stored' = stored \union outbox[p]
    /\ outbox' = [outbox EXCEPT ![p] = {}]
    /\ hpc' = [hpc EXCEPT ![p] = "emitted"]
    /\ UNCHANGED <<hist, ckpt, lease, work, upto, burnt>>

(* The lock file is removed if it is this process's own.                   *)
ReleasedLease(p) == IF lease = p THEN "free" ELSE lease

(* The batch failed, or its commit was not confirmed: the process ends.    *)
EmitEventsFails(p, applied) ==
    /\ hpc[p] = "bars" /\ work[p].next = upto[p] /\ outbox[p] # {}
    /\ stored' = IF applied THEN stored \union outbox[p] ELSE stored
    /\ lease' = ReleasedLease(p)
    /\ hpc' = [hpc EXCEPT ![p] = "off"]
    /\ ForgetWork(p)
    /\ UNCHANGED <<hist, ckpt, burnt>>

(* heartbeat: a lease that was taken over ends the process.                *)
HeartbeatLease(p) ==
    /\ hpc[p] = "emitted"
    /\ IF lease = p THEN hpc' = [hpc EXCEPT ![p] = "beaten"] /\ UNCHANGED <<work, upto, outbox>>
       ELSE hpc' = [hpc EXCEPT ![p] = "off"] /\ ForgetWork(p)
    /\ UNCHANGED <<hist, ckpt, lease, stored, burnt>>

(* save_checkpoint replaces the file atomically.                           *)
SaveCheckpoint(p) ==
    /\ hpc[p] = "beaten"
    /\ ckpt' = {work[p]}
    /\ hpc' = [hpc EXCEPT ![p] = "saved"]
    /\ UNCHANGED <<hist, lease, work, upto, outbox, stored, burnt>>

(* release; then the next cycle of run_loop, or the end of the process.    *)
EndObserverCycle(p) ==
    /\ hpc[p] = "saved"
    /\ lease' = ReleasedLease(p)
    /\ hpc' = [hpc EXCEPT ![p] = "off"]
    /\ ForgetWork(p)
    /\ UNCHANGED <<hist, ckpt, stored, burnt>>

(* The process is killed; its lock file stays.                             *)
KillObserver(p) ==
    /\ hpc[p] # "off"
    /\ lease' = IF lease = p THEN "dead" ELSE lease
    /\ hpc' = [hpc EXCEPT ![p] = "off"]
    /\ ForgetWork(p)
    /\ UNCHANGED <<hist, ckpt, stored, burnt>>

(* The runbook's remedy for a broken checkpoint: it is moved away while    *)
(* the observer is stopped, and the source is replayed from its beginning. *)
DiscardCheckpoint ==
    /\ ckpt # {} /\ \A p \in Observers : hpc[p] = "off"
    /\ ckpt' = {}
    /\ UNCHANGED <<hist, lease, hpc, work, upto, outbox, stored, burnt>>

HtfStep(p) ==
    \/ AcquireLease(p) \/ SeeStale(p) \/ Unlink(p) \/ (\E n \in 0..MaxBars : LoadBars(p, n))
    \/ ProcessBar(p) \/ EmitEvents(p) \/ HeartbeatLease(p) \/ SaveCheckpoint(p) \/ EndObserverCycle(p)

HtfFault ==
    \/ DiscardCheckpoint
    \/ \E p \in Observers :
         \/ KillObserver(p)
         \/ \E c \in BOOLEAN : Quarantine(p, c) \/ EmitEventsFails(p, c)

HtfNext ==
    \/ \E b \in Bar : CloseBar(b)
    \/ \E p \in Observers : HtfStep(p)
    \/ DeleteLock \/ HtfFault

HtfSpec == HtfInit /\ [][HtfNext]_htfVars

-----------------------------------------------------------------------------
(* Resuming is invisible: whatever was killed, replayed or quarantined,    *)
(* the checkpoint is what an uninterrupted observer has after the same     *)
(* bars (the warm-up count aside).                                         *)
ResumeIsInvisible ==
    \A m \in ckpt :
        LET ideal == Ideal[m.next]
        IN /\ m.known = ideal.known /\ m.active = ideal.active
           /\ m.pending = ideal.pending /\ m.confirmed = ideal.confirmed

(* At least once: an event that the checkpoint holds as confirmed, and     *)
(* that will therefore never be emitted again, is in the table.            *)
NoEventLost == \A m \in ckpt : \A e \in m.confirmed : Eligible(m, e) => e \in stored

(* And nothing else: every row is an event the candles confirm, of an      *)
(* episode first touched after the freeze; after a replay from the         *)
(* beginning too.  Outside the warm-up as well, unless a quarantined bar   *)
(* has used up warm-up budget.                                             *)
OnlyTrueEvents ==
    \A e \in stored :
        /\ e \in Ideal[Len(hist)].confirmed
        /\ e[2] > HtfFreeze
        /\ ~burnt => Eligible(Ideal[Len(hist)], e)

(* One process at a time works on the checkpoint, whoever was killed.      *)
SingleWriter ==
    \A p, q \in Observers :
        hpc[p] \in {"held", "bars", "emitted", "beaten"} /\ hpc[q] \in {"held", "bars", "emitted", "beaten"}
            => p = q

(* Every event that the candles confirm is eventually stored, if processes *)
(* are killed, batches refused, bars quarantined and the checkpoint        *)
(* discarded finitely often and no quarantined bar used up the warm-up.    *)
EventuallyStored ==
    <>[][~HtfFault]_htfVars =>
        \A e \in Episode :
            (Len(hist) > 0 /\ e \in Ideal[Len(hist)].confirmed /\ Eligible(Ideal[Len(hist)], e))
                ~> (burnt \/ e \in stored)

(* Exactly the confirmed events are stored and a restart is invisible.     *)
HtfSafe ==
    HtfTypeOK /\ ResumeIsInvisible /\ NoEventLost /\ OnlyTrueEvents /\ SingleWriter
=============================================================================

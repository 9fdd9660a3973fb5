-------------------------- MODULE RateLimiterProofs --------------------------
(***************************************************************************)
(* Proofs about RateLimiter, for any processes, requests, bucket, ladder,  *)
(* clocks and bounds.                                                      *)
(***************************************************************************)
EXTENDS RateLimiter, FiniteSetTheorems, TLAPS

(***************************************************************************)
(* What holds of every state a transaction goes through: of the one it     *)
(* loads, of the results of the stages of _refresh and of what its body    *)
(* makes of it.                                                            *)
(***************************************************************************)

(* The accounting, of a state s.                                           *)
Balanced(s) ==
    /\ s.tokens = Burst + s.refill - s.total
    /\ s.tokens <= Burst

(* Outside CLOSED only the probe's grant is open and of the current epoch, *)
(* and no grant is of a later epoch.                                       *)
Fencing(s) ==
    \A r \in Reqs : s.grants[r].outcome = "issued" =>
        /\ s.grants[r].epoch <= s.epoch
        /\ s.grants[r].epoch = s.epoch /\ s.mode # "CLOSED" => s.probe = r

(* The slot is taken only during RECOVERY, by an open grant of that epoch. *)
SlotSound(s) ==
    s.probe # NoReq =>
        /\ s.mode = "RECOVERY"
        /\ s.grants[s.probe].outcome = "issued" /\ s.grants[s.probe].probe
        /\ s.grants[s.probe].epoch = s.epoch

Sound(s) == s \in State /\ Balanced(s) /\ Fencing(s) /\ SlotSound(s)

(***************************************************************************)
(* The inductive invariant relates the shared state to the callers.        *)
(***************************************************************************)

(* A caller that has a probe grant has the slot and its witness lock.      *)
HolderHasSlot ==
    \A r \in Reqs :
        call[r].pc \in {"granted", "prepared"} /\ st.grants[r].probe
        => st.probe = r /\ r \in held

(* A witness lock does not outlive the boot of its holder.                 *)
HeldIsOfThisBoot ==
    st.probe \in held => st.grants[st.probe].owner # Past

(* A request that has not been granted has no record. *)
FreshIsAbsent ==
    \A r \in Reqs : call[r].pc \in {"idle", "new", "waiting"} => st.grants[r].outcome = "absent"

IInv == TypeOK /\ Sound(st) /\ HolderHasSlot /\ HeldIsOfThisBoot /\ FreshIsAbsent

-----------------------------------------------------------------------------
(* The shape of the state file, without what its fields are made of: this  *)
(* is all that an update of some of its fields needs.                      *)

Count == Nat
Moment == Int
Usages == [Classes -> Nat]
Modes == {"CLOSED", "OPEN", "RECOVERY"}
Slots == Reqs \union {NoReq}
Registry == [Reqs -> GrantRecord]
Demands == [Reqs -> PendingRecord]

LEMMA StateShape ==
    State = [tokens: Count, refill: Count, total: Count, epoch: Count, start: Moment,
             usage: Usages, mode: Modes, level: Count, until: Moment, streak: Count,
             probe: Slots, marker: BOOLEAN, stalled: BOOLEAN,
             grants: Registry, pending: Demands,
             lastWall: Moment, lastMono: Moment, boot: Count]
BY DEF State, Count, Moment, Usages, Modes, Slots, Registry, Demands

LEMMA StateFields ==
    ASSUME NEW s \in State
    PROVE  /\ s.tokens \in Count /\ s.refill \in Count /\ s.total \in Count /\ s.epoch \in Count
           /\ s.start \in Moment /\ s.usage \in Usages /\ s.mode \in Modes /\ s.level \in Count
           /\ s.until \in Moment /\ s.streak \in Count /\ s.probe \in Slots
           /\ s.marker \in BOOLEAN /\ s.stalled \in BOOLEAN
           /\ s.grants \in Registry /\ s.pending \in Demands
           /\ s.lastWall \in Moment /\ s.lastMono \in Moment /\ s.boot \in Count
BY StateShape

LEMMA Constants ==
    /\ Burst \in Count \ {0} /\ Rate \in Count \ {0}
    /\ "OPEN" \in Modes /\ "CLOSED" \in Modes /\ "RECOVERY" \in Modes
    /\ NoReq \in Slots /\ NoReq \notin Reqs
    /\ NoGrant \in GrantRecord /\ NoPending \in PendingRecord
    /\ Home \in [Reqs -> Procs] /\ Prio \in [Reqs -> Classes]
    /\ Gone \notin Procs /\ Past \notin Procs /\ Gone # Past
<1>1. Burst \in Nat \ {0} /\ Rate \in Nat \ {0} /\ NoReq \notin Reqs
      /\ Gone \notin Procs /\ Past \notin Procs /\ Gone # Past
      /\ Home \in [Reqs -> Procs] /\ Prio \in [Reqs -> 0 .. 3]
  BY LimiterAssumption
<1>2. NoGrant \in GrantRecord
  BY DEF NoGrant, GrantRecord, Owners
<1>3. NoPending \in PendingRecord
  BY DEF NoPending, PendingRecord, Owners
<1>4. QED BY <1>1, <1>2, <1>3 DEF Count, Modes, Slots, Classes

(* Arithmetic and the ladder.                                              *)
LEMMA CreditIsCount ==
    ASSUME NEW n \in Int, n > 0
    PROVE  Rate * n \in Nat
BY LimiterAssumption

LEMMA CooldownIsCount ==
    ASSUME NEW level \in Nat
    PROVE  CooldownFor(level) \in Nat
<1> DEFINE i == Smaller(Larger(level - 1, 0), Len(Cooldowns) - 1) + 1
<1>1. Cooldowns \in Seq(Nat) /\ Len(Cooldowns) \in Nat \ {0}
  BY LimiterAssumption
<1>2. i \in 1 .. Len(Cooldowns)
  BY <1>1 DEF Smaller, Larger
<1> HIDE DEF i
<1>3. Cooldowns[i] \in Nat
  BY <1>1, <1>2
<1>4. QED BY <1>3 DEF CooldownFor, i

-----------------------------------------------------------------------------
(* The stages of _refresh.                                                 *)

(* Stages that leave the breaker, its probe and the registry alone.        *)
SameBreaker(s, t) ==
    /\ t.total = s.total /\ t.epoch = s.epoch /\ t.mode = s.mode /\ t.level = s.level
    /\ t.probe = s.probe /\ t.grants = s.grants

LEMMA SameBreakerSound ==
    ASSUME NEW s, Sound(s), NEW t \in State, SameBreaker(s, t),
           t.tokens = s.tokens, t.refill = s.refill
    PROVE  Sound(t)
BY DEF Sound, Balanced, Fencing, SlotSound, SameBreaker

LEMMA PendingOnly ==
    ASSUME NEW s, Sound(s), NEW f \in Demands
    PROVE  Sound([s EXCEPT !.pending = f]) /\ SameBreaker(s, [s EXCEPT !.pending = f])
<1> DEFINE t == [s EXCEPT !.pending = f]
<1>1. s \in State
  BY DEF Sound
<1>2. t \in State /\ t.tokens = s.tokens /\ t.refill = s.refill /\ SameBreaker(s, t)
  BY <1>1, StateShape DEF SameBreaker
<1> HIDE DEF t
<1>3. Sound(t) /\ SameBreaker(s, t)
  BY <1>2, SameBreakerSound
<1>4. QED BY <1>3 DEF t

LEMMA SelfHealSound ==
    ASSUME NEW s, Sound(s), NEW p
    PROVE  Sound(SelfHeal(s, p)) /\ SameBreaker(s, SelfHeal(s, p))
<1> DEFINE f == [r \in Reqs |-> IF r \in leaked /\ Home[r] = p THEN NoPending ELSE s.pending[r]]
<1>1. s.pending \in [Reqs -> PendingRecord]
  BY StateFields DEF Sound, Demands
<1>2. f \in Demands
  BY <1>1, Constants DEF Demands
<1>3. SelfHeal(s, p) = [s EXCEPT !.pending = f]
  BY DEF SelfHeal
<1> HIDE DEF f
<1>4. QED BY <1>2, <1>3, PendingOnly

LEMMA PrunePendingSound ==
    ASSUME NEW s, Sound(s), NEW D
    PROVE  Sound(PrunePending(s, D)) /\ SameBreaker(s, PrunePending(s, D))
<1> DEFINE f == [r \in Reqs |->
                    IF s.pending[r].on /\ (s.pending[r].exp < wall \/ ProvablyDead(s.pending[r].owner, r, D))
                    THEN NoPending ELSE s.pending[r]]
<1>1. s.pending \in [Reqs -> PendingRecord]
  BY StateFields DEF Sound, Demands
<1>2. f \in Demands
  BY <1>1, Constants DEF Demands
<1>3. PrunePending(s, D) = [s EXCEPT !.pending = f]
  BY DEF PrunePending
<1> HIDE DEF f
<1>4. QED BY <1>2, <1>3, PendingOnly

LEMMA ApplyClockSound ==
    ASSUME TypeOK, NEW s, Sound(s)
    PROVE  Sound(ApplyClock(s)) /\ SameBreaker(s, ApplyClock(s))
<1> DEFINE step == ClockStep(s)
           gap == wall - s.lastWall
           credit == IF step = "normal" /\ gap > 0
                     THEN Smaller(Rate * gap, Larger(0, Burst - s.tokens)) ELSE 0
           last == IF step = "normal" /\ gap <= 0 THEN s.lastWall ELSE wall
           till == IF step = "forward" /\ s.mode = "OPEN"
                   THEN Larger(s.until, wall + CooldownFor(s.level)) ELSE s.until
           t == [s EXCEPT !.tokens = s.tokens + credit, !.refill = s.refill + credit,
                          !.boot = boot, !.lastWall = last, !.lastMono = mono, !.until = till]
<1>1. ApplyClock(s) = t
  BY DEF ApplyClock
<1>2. Burst \in Nat /\ wall \in Int /\ mono \in Nat /\ boot \in Nat
  BY Constants DEF TypeOK, Count
<1>3. /\ s \in State
      /\ s.tokens \in Nat /\ s.refill \in Nat /\ s.total \in Nat /\ s.level \in Nat
      /\ s.until \in Int /\ s.lastWall \in Int /\ s.tokens <= Burst
  BY StateFields DEF Sound, Balanced, Count, Moment
<1>4. credit \in Nat /\ s.tokens + credit <= Burst
  BY <1>2, <1>3, CreditIsCount DEF Smaller, Larger
<1>5. last \in Int /\ till \in Int
  BY <1>2, <1>3, CooldownIsCount DEF Larger
<1> HIDE DEF step, gap, credit, last, till
<1>6. /\ s.tokens + credit \in Count /\ s.refill + credit \in Count
      /\ boot \in Count /\ mono \in Moment /\ last \in Moment /\ till \in Moment
  BY <1>2, <1>3, <1>4, <1>5 DEF Count, Moment
<1>7. t \in State
  BY <1>3, <1>6, StateShape
<1>8. t.tokens = s.tokens + credit /\ t.refill = s.refill + credit /\ SameBreaker(s, t)
  BY <1>3, StateShape DEF SameBreaker
<1> HIDE DEF t
<1>9. Balanced(t)
  BY <1>2, <1>3, <1>4, <1>8 DEF Sound, Balanced, SameBreaker
<1>10. QED BY <1>1, <1>7, <1>8, <1>9 DEF Sound, Fencing, SlotSound, SameBreaker

-----------------------------------------------------------------------------
(* Tripping the breaker and freeing the slot.                              *)

LEMMA ApplyOpenSound ==
    ASSUME TypeOK, NEW s \in State, Balanced(s), NEW bump \in BOOLEAN,
           \A r \in Reqs : s.grants[r].outcome = "issued" => s.grants[r].epoch <= s.epoch,
           NEW t, t = ApplyOpen(s, bump)
    PROVE  /\ Sound(t) /\ t.total = s.total /\ t.epoch = s.epoch + 1 /\ t.mode = "OPEN"
           /\ t.probe = NoReq /\ t.grants = s.grants
           /\ t.level = IF bump THEN Smaller(s.level + 1, Len(Cooldowns)) ELSE s.level
<1> DEFINE l == IF bump THEN Smaller(s.level + 1, Len(Cooldowns)) ELSE s.level
           till == wall + CooldownFor(l)
           zero == [c \in Classes |-> 0]
           nought == 0
           u == [s EXCEPT !.level = l, !.mode = "OPEN", !.until = till,
                          !.epoch = s.epoch + 1, !.start = wall, !.usage = zero,
                          !.streak = nought, !.probe = NoReq, !.marker = FALSE, !.stalled = FALSE]
<1>1. t = u
  BY DEF ApplyOpen
<1>2. s.level \in Nat /\ s.epoch \in Nat /\ wall \in Int
  BY StateFields DEF Count, TypeOK
<1>3. Len(Cooldowns) \in Nat
  BY LimiterAssumption
<1>4. l \in Nat
  BY <1>2, <1>3 DEF Smaller
<1> HIDE DEF l
<1>5. till \in Int
  BY <1>2, <1>4, CooldownIsCount
<1> HIDE DEF till
<1>6. /\ l \in Count /\ till \in Moment /\ s.epoch + 1 \in Count /\ wall \in Moment
      /\ zero \in Usages /\ nought \in Count
  BY <1>2, <1>4, <1>5 DEF Count, Moment, Usages
<1> HIDE DEF zero, nought
<1>7. u \in State
  BY <1>6, Constants, StateShape
<1>8. /\ u.total = s.total /\ u.epoch = s.epoch + 1 /\ u.mode = "OPEN"
      /\ u.probe = NoReq /\ u.grants = s.grants /\ u.level = l
      /\ u.tokens = s.tokens /\ u.refill = s.refill
  BY StateShape
<1> HIDE DEF u
<1>9. s.grants \in [Reqs -> GrantRecord]
  BY StateFields DEF Registry
<1>10. \A r \in Reqs : u.grants[r].outcome = "issued" =>
           u.grants[r].epoch <= u.epoch /\ u.grants[r].epoch # u.epoch
  <2> SUFFICES ASSUME NEW r \in Reqs, u.grants[r].outcome = "issued"
               PROVE  u.grants[r].epoch <= u.epoch /\ u.grants[r].epoch # u.epoch
    OBVIOUS
  <2>1. s.grants[r].epoch \in Nat /\ s.grants[r].epoch <= s.epoch
    BY <1>8, <1>9 DEF GrantRecord
  <2>2. QED BY <1>2, <1>8, <2>1
<1>11. Sound(u)
  BY <1>7, <1>8, <1>10 DEF Sound, Balanced, Fencing, SlotSound
<1>12. QED BY <1>1, <1>8, <1>11 DEF l

LEMMA FreeProbeFields ==
    ASSUME NEW s \in State
    PROVE  /\ FreeProbe(s) \in State /\ FreeProbe(s).probe = NoReq
           /\ FreeProbe(s).tokens = s.tokens /\ FreeProbe(s).refill = s.refill
           /\ FreeProbe(s).total = s.total /\ FreeProbe(s).epoch = s.epoch
           /\ FreeProbe(s).mode = s.mode /\ FreeProbe(s).level = s.level
           /\ FreeProbe(s).grants = s.grants
BY Constants, StateShape DEF FreeProbe

LEMMA FreeProbeSound ==
    ASSUME NEW s \in State, Balanced(s),
           \A r \in Reqs : s.grants[r].outcome = "issued" =>
               s.grants[r].epoch <= s.epoch
               /\ (s.grants[r].epoch = s.epoch => s.mode = "CLOSED")
    PROVE  Sound(FreeProbe(s))
<1> DEFINE t == FreeProbe(s)
<1>1. t \in State /\ t.probe = NoReq /\ t.tokens = s.tokens /\ t.refill = s.refill
      /\ t.total = s.total /\ t.epoch = s.epoch /\ t.mode = s.mode /\ t.grants = s.grants
  BY FreeProbeFields
<1> HIDE DEF t
<1>2. Sound(t)
  BY <1>1 DEF Sound, Balanced, Fencing, SlotSound
<1>3. QED BY <1>2 DEF t

(* Replacing one record of the registry, or its verdict only.              *)
WithGrant(s, q, g) == [s EXCEPT !.grants = [s.grants EXCEPT ![q] = g]]
WithVerdict(s, q, o) == [s EXCEPT !.grants[q].outcome = o]

LEMMA GrantUpdate ==
    ASSUME NEW s \in State, NEW q \in Reqs, NEW g \in GrantRecord,
           NEW t, t = WithGrant(s, q, g)
    PROVE  /\ t \in State /\ t.tokens = s.tokens /\ t.refill = s.refill
           /\ t.total = s.total /\ t.epoch = s.epoch /\ t.mode = s.mode /\ t.level = s.level
           /\ t.probe = s.probe /\ t.marker = s.marker
           /\ t.grants[q] = g /\ \A r \in Reqs \ {q} : t.grants[r] = s.grants[r]
<1>1. s.grants \in Registry
  BY StateFields
<1>2. [s.grants EXCEPT ![q] = g] \in Registry
  BY <1>1 DEF Registry
<1>3. /\ t \in State /\ t.tokens = s.tokens /\ t.refill = s.refill
      /\ t.total = s.total /\ t.epoch = s.epoch /\ t.mode = s.mode /\ t.level = s.level
      /\ t.probe = s.probe /\ t.marker = s.marker /\ t.grants = [s.grants EXCEPT ![q] = g]
  BY <1>2, StateShape DEF WithGrant
<1>4. QED BY <1>1, <1>3 DEF Registry
-----------------------------------------------------------------------------
(* What a refresh may do to the registry and the slot it loads.            *)

(* The holder of grant r is gone: its owner is dead, or it is the probe and *)
(* its witness lock is free.                                               *)
Lost(s, r) == s.grants[r].owner \in {Gone, Past} \/ (s.probe = r /\ r \notin held)

(* An open grant of a holder that is gone is closed. *)
ClosedFor(s, t, r) ==
    /\ s.grants[r].outcome = "issued" /\ Lost(s, r)
    /\ \E o \in {"UNKNOWN", "NOT_SENT"} : t.grants[r] = [s.grants[r] EXCEPT !.outcome = o]

(* A record past its lifetime leaves the registry once it has a verdict,   *)
(* or gets one by the same refresh.                                        *)
EvictedFrom(s, t, r) ==
    /\ \/ s.grants[r].outcome \in Terminal
       \/ s.grants[r].outcome = "issued" /\ Lost(s, r)
    /\ wall - s.grants[r].at >= MaxLifetime
    /\ t.grants[r] = NoGrant

Carried(s, t, r) == t.grants[r] = s.grants[r] \/ ClosedFor(s, t, r) \/ EvictedFrom(s, t, r)

Carries(s, t) ==
    /\ t.total = s.total /\ t.level = s.level
    /\ t.epoch = s.epoch \/ (t.epoch = s.epoch + 1 /\ t.probe = NoReq)
    /\ t.probe \in {s.probe, NoReq}
    /\ s.probe \in held => t.probe = s.probe
    /\ \A r \in Reqs : Carried(s, t, r)

LEMMA ProbeRecord ==
    ASSUME NEW s, Sound(s), s.probe # NoReq
    PROVE  /\ s.probe \in Reqs /\ s.mode = "RECOVERY"
           /\ s.grants[s.probe] \in GrantRecord
           /\ s.grants[s.probe].outcome = "issued" /\ s.grants[s.probe].probe
           /\ s.grants[s.probe].epoch = s.epoch
BY StateFields DEF Sound, SlotSound, Slots, Registry

LEMMA VerdictRecord ==
    ASSUME NEW g \in GrantRecord, NEW o \in Terminal
    PROVE  /\ [g EXCEPT !.outcome = o] \in GrantRecord
           /\ [g EXCEPT !.outcome = o].outcome = o
           /\ [g EXCEPT !.outcome = o].epoch = g.epoch
           /\ [g EXCEPT !.outcome = o].probe = g.probe
           /\ [g EXCEPT !.outcome = o].owner = g.owner
           /\ [g EXCEPT !.outcome = o].at = g.at
BY DEF GrantRecord

(* Closing the probe's grant and giving the slot up, with or without a new *)
(* epoch.                                                                  *)
LEMMA ResolveDeadProbeSound ==
    ASSUME TypeOK, NEW s, Sound(s), s.probe # NoReq, NEW t, t = ResolveDeadProbe(s)
    PROVE  /\ Sound(t) /\ t.total = s.total /\ t.level = s.level
           /\ t.probe = NoReq /\ t.epoch \in {s.epoch, s.epoch + 1}
           /\ \E o \in {"UNKNOWN", "NOT_SENT"} :
                 t.grants[s.probe] = [s.grants[s.probe] EXCEPT !.outcome = o]
           /\ \A r \in Reqs \ {s.probe} : t.grants[r] = s.grants[r]
<1> DEFINE q == s.probe
           o == IF s.marker THEN "UNKNOWN" ELSE "NOT_SENT"
           g == [s.grants[q] EXCEPT !.outcome = o]
           c == WithGrant(s, q, g)
<1>1. /\ q \in Reqs /\ s.mode = "RECOVERY" /\ s.grants[q] \in GrantRecord
      /\ s.grants[q].outcome = "issued" /\ s.grants[q].epoch = s.epoch
  BY ProbeRecord
<1>2. o \in {"UNKNOWN", "NOT_SENT"} /\ o \in Terminal /\ o # "issued"
  BY DEF Terminal, Outcomes
<1>3. [s EXCEPT !.grants[s.probe].outcome =
          IF @ # "issued" THEN @ ELSE IF s.marker THEN "UNKNOWN" ELSE "NOT_SENT"] = c
  BY <1>1 DEF WithGrant
<1>4. t = IF s.marker THEN ApplyOpen(FreeProbe(c), FALSE) ELSE FreeProbe(c)
  BY <1>3 DEF ResolveDeadProbe
<1> HIDE DEF o
<1>5. g \in GrantRecord /\ g.outcome = o
  BY <1>1, <1>2, VerdictRecord
<1> HIDE DEF q
<1>6. s \in State /\ Balanced(s)
  BY DEF Sound
<1> HIDE DEF g
<1>7. /\ c \in State /\ c.tokens = s.tokens /\ c.refill = s.refill
      /\ c.total = s.total /\ c.epoch = s.epoch /\ c.mode = s.mode /\ c.level = s.level
      /\ c.grants[q] = g /\ \A r \in Reqs \ {q} : c.grants[r] = s.grants[r]
  BY <1>1, <1>5, <1>6, GrantUpdate
<1> HIDE DEF c
<1>8. Balanced(c)
  BY <1>6, <1>7 DEF Balanced
<1>9. \A r \in Reqs : c.grants[r].outcome = "issued" =>
          c.grants[r].epoch <= c.epoch /\ (c.grants[r].epoch = c.epoch => c.mode = "CLOSED")
  BY <1>2, <1>5, <1>7 DEF Sound, Fencing, q
<1>10. Sound(FreeProbe(c))
  BY <1>7, <1>8, <1>9, FreeProbeSound
<1> DEFINE h == FreeProbe(c)
<1>11. /\ h \in State /\ h.probe = NoReq /\ h.total = c.total /\ h.epoch = c.epoch
       /\ h.level = c.level /\ h.grants = c.grants
  BY <1>7, FreeProbeFields
<1>12. Sound(h)
  BY <1>10
<1>13. t = IF s.marker THEN ApplyOpen(h, FALSE) ELSE h
  BY <1>4
<1> HIDE DEF h
<1>14. /\ Sound(t) /\ t.total = h.total /\ t.level = h.level /\ t.probe = NoReq
       /\ t.epoch \in {h.epoch, h.epoch + 1} /\ t.grants = h.grants
  <2>1. CASE s.marker
    <3>1. t = ApplyOpen(h, FALSE)
      BY <1>13, <2>1
    <3>2. h \in State /\ Balanced(h)
          /\ \A r \in Reqs : h.grants[r].outcome = "issued" => h.grants[r].epoch <= h.epoch
      BY <1>12 DEF Sound, Fencing
    <3>3. QED BY <3>1, <3>2, ApplyOpenSound
  <2>2. CASE ~s.marker
    BY <1>11, <1>12, <1>13, <2>2
  <2>3. QED BY <2>1, <2>2
<1>15. t.grants[q] = [s.grants[q] EXCEPT !.outcome = o]
  BY <1>7, <1>11, <1>14 DEF g
<1>16. QED BY <1>2, <1>7, <1>11, <1>14, <1>15 DEF q

LEMMA ResolveProbeSound ==
    ASSUME TypeOK, NEW s, Sound(s), NEW free, NEW t, t = ResolveProbe(s, free)
    PROVE  /\ Sound(t) /\ t.total = s.total /\ t.level = s.level
           /\ \/ t.epoch = s.epoch /\ t.probe = s.probe /\ t.grants = s.grants
              \/ /\ s.probe \in Reqs
                 /\ s.grants[s.probe].owner = Past \/ (s.probe \notin held /\ free)
                 /\ t.probe = NoReq /\ t.epoch \in {s.epoch, s.epoch + 1}
                 /\ \E o \in {"UNKNOWN", "NOT_SENT"} :
                       t.grants[s.probe] = [s.grants[s.probe] EXCEPT !.outcome = o]
                 /\ \A r \in Reqs \ {s.probe} : t.grants[r] = s.grants[r]
<1>1. CASE s.probe = NoReq
  BY <1>1 DEF ResolveProbe
<1>2. CASE /\ s.probe # NoReq
           /\ s.grants[s.probe].owner = Past \/ (s.probe \notin held /\ free)
  <2>1. t = ResolveDeadProbe(s)
    BY <1>2 DEF ResolveProbe
  <2>2. QED BY <1>2, <2>1, ResolveDeadProbeSound, ProbeRecord
<1>3. CASE /\ s.probe # NoReq
           /\ ~(s.grants[s.probe].owner = Past \/ (s.probe \notin held /\ free))
  <2> DEFINE x == s.stalled \/ wall >= s.grants[s.probe].at + Lease
             u == [s EXCEPT !.stalled = x]
  <2>1. t = u
    BY <1>3 DEF ResolveProbe
  <2>2. x \in BOOLEAN /\ s \in State
    BY DEF Sound
  <2> HIDE DEF x
  <2>3. u \in State /\ u.tokens = s.tokens /\ u.refill = s.refill /\ SameBreaker(s, u)
    BY <2>2, StateShape DEF SameBreaker
  <2> HIDE DEF u
  <2>4. Sound(u)
    BY <2>3, SameBreakerSound
  <2>5. QED BY <2>1, <2>3, <2>4 DEF SameBreaker
<1>4. QED BY <1>1, <1>2, <1>3

LEMMA ToRecoverySound ==
    ASSUME NEW s, Sound(s), NEW t, t = ToRecovery(s)
    PROVE  /\ Sound(t) /\ t.total = s.total /\ t.level = s.level /\ t.epoch = s.epoch
           /\ t.probe = s.probe /\ t.grants = s.grants
<1>1. CASE ~(s.mode = "OPEN" /\ wall >= s.until)
  BY <1>1 DEF ToRecovery
<1>2. CASE s.mode = "OPEN" /\ wall >= s.until
  <2> DEFINE h == FreeProbe(s)
             nought == 0
             recovery == "RECOVERY"
             u == [h EXCEPT !.mode = recovery, !.streak = nought]
  <2>1. t = u
    BY <1>2 DEF ToRecovery
  <2>2. s \in State /\ s.probe = NoReq
    BY <1>2, StateFields DEF Sound, SlotSound
  <2>3. /\ h \in State /\ h.probe = NoReq
        /\ h.tokens = s.tokens /\ h.refill = s.refill /\ h.total = s.total /\ h.epoch = s.epoch
        /\ h.mode = s.mode /\ h.level = s.level /\ h.grants = s.grants
    BY <2>2, FreeProbeFields
  <2>4. nought \in Count /\ recovery \in Modes
    BY DEF Count, Modes
  <2>5. recovery # "CLOSED"
    OBVIOUS
  <2> HIDE DEF nought, recovery, h
  <2>6. /\ u \in State /\ u.probe = NoReq /\ u.mode = recovery
        /\ u.tokens = h.tokens /\ u.refill = h.refill /\ u.total = h.total /\ u.epoch = h.epoch
        /\ u.level = h.level /\ u.grants = h.grants
    BY <2>3, <2>4, StateShape
  <2> HIDE DEF u
  <2>7. \A r \in Reqs : s.grants[r].outcome = "issued" =>
            s.grants[r].epoch <= s.epoch /\ s.grants[r].epoch # s.epoch
    BY <1>2, <2>2, Constants DEF Sound, Fencing
  <2>8. Sound(u)
    BY <2>3, <2>6, <2>7 DEF Sound, Balanced, Fencing, SlotSound
  <2>9. QED BY <2>1, <2>2, <2>3, <2>6, <2>8
<1>3. QED BY <1>1, <1>2

(* Stages that only close or drop records.                                 *)
LEMMA RegistryOnly ==
    ASSUME NEW s, Sound(s), NEW f \in Registry,
           \A r \in Reqs : f[r].outcome = "issued" => f[r] = s.grants[r],
           s.probe # NoReq => f[s.probe] = s.grants[s.probe],
           NEW t, t = [s EXCEPT !.grants = f]
    PROVE  /\ Sound(t) /\ t.total = s.total /\ t.level = s.level /\ t.epoch = s.epoch
           /\ t.probe = s.probe /\ t.grants = f
<1>1. s \in State
  BY DEF Sound
<1>2. /\ t \in State /\ t.tokens = s.tokens /\ t.refill = s.refill /\ t.total = s.total
      /\ t.level = s.level /\ t.epoch = s.epoch /\ t.mode = s.mode
      /\ t.probe = s.probe /\ t.grants = f
  BY <1>1, StateShape
<1>3. QED BY <1>2 DEF Sound, Balanced, Fencing, SlotSound

LEMMA ReconcileGrantsSound ==
    ASSUME NEW s, Sound(s), NEW D, NEW t, t = ReconcileGrants(s, D)
    PROVE  /\ Sound(t) /\ t.total = s.total /\ t.level = s.level /\ t.epoch = s.epoch
           /\ t.probe = s.probe
           /\ \A r \in Reqs :
                 \/ t.grants[r] = s.grants[r]
                 \/ /\ s.grants[r].outcome = "issued" /\ s.grants[r].owner \in {Gone, Past}
                    /\ \E o \in {"UNKNOWN", "NOT_SENT"} :
                          t.grants[r] = [s.grants[r] EXCEPT !.outcome = o]
<1> DEFINE dead(r) == /\ s.grants[r].outcome = "issued" /\ ~s.grants[r].probe
                      /\ ProvablyDead(s.grants[r].owner, r, D)
           o(r) == IF s.grants[r].sent THEN "UNKNOWN" ELSE "NOT_SENT"
           f == [r \in Reqs |-> IF dead(r) THEN [s.grants[r] EXCEPT !.outcome = o(r)]
                                ELSE s.grants[r]]
<1>1. t = [s EXCEPT !.grants = f]
  BY DEF ReconcileGrants
<1>2. s.grants \in [Reqs -> GrantRecord]
  BY StateFields DEF Sound, Registry
<1>3. \A r \in Reqs : /\ o(r) \in {"UNKNOWN", "NOT_SENT"}
                      /\ o(r) \in Terminal /\ o(r) # "issued"
  BY DEF Terminal, Outcomes
<1>4. \A r \in Reqs : dead(r) => /\ s.grants[r].outcome = "issued"
                                 /\ s.grants[r].owner \in {Gone, Past} /\ ~s.grants[r].probe
  BY DEF ProvablyDead
<1> HIDE DEF dead, o
<1>5. \A r \in Reqs : /\ [s.grants[r] EXCEPT !.outcome = o(r)] \in GrantRecord
                      /\ [s.grants[r] EXCEPT !.outcome = o(r)].outcome = o(r)
  BY <1>2, <1>3, VerdictRecord
<1>6. f \in Registry
  BY <1>2, <1>5 DEF Registry
<1>7. \A r \in Reqs : f[r].outcome = "issued" => f[r] = s.grants[r]
  BY <1>3, <1>5
<1>8. s.probe # NoReq => f[s.probe] = s.grants[s.probe]
  BY <1>4, ProbeRecord
<1>9. \A r \in Reqs : \/ f[r] = s.grants[r]
                      \/ dead(r) /\ f[r] = [s.grants[r] EXCEPT !.outcome = o(r)]
  OBVIOUS
<1> HIDE DEF f
<1>10. /\ Sound(t) /\ t.total = s.total /\ t.level = s.level /\ t.epoch = s.epoch
       /\ t.probe = s.probe /\ t.grants = f
  BY <1>1, <1>6, <1>7, <1>8, RegistryOnly
<1>11. QED BY <1>3, <1>4, <1>9, <1>10

LEMMA EvictSound ==
    ASSUME NEW s, Sound(s), NEW t, t = Evict(s)
    PROVE  /\ Sound(t) /\ t.total = s.total /\ t.level = s.level /\ t.epoch = s.epoch
           /\ t.probe = s.probe
           /\ \A r \in Reqs :
                 \/ t.grants[r] = s.grants[r]
                 \/ /\ s.grants[r].outcome \in Terminal /\ wall - s.grants[r].at >= MaxLifetime
                    /\ t.grants[r] = NoGrant
<1> DEFINE old(r) == s.grants[r].outcome \in Terminal /\ wall - s.grants[r].at >= MaxLifetime
           f == [r \in Reqs |-> IF old(r) THEN NoGrant ELSE s.grants[r]]
<1>1. t = [s EXCEPT !.grants = f]
  BY DEF Evict
<1>2. s.grants \in [Reqs -> GrantRecord]
  BY StateFields DEF Sound, Registry
<1>3. f \in Registry
  BY <1>2, Constants DEF Registry
<1>4. \A r \in Reqs : f[r].outcome = "issued" => f[r] = s.grants[r]
  BY DEF NoGrant
<1>5. "issued" \notin Terminal
  BY DEF Terminal, Outcomes
<1>6. s.probe # NoReq => f[s.probe] = s.grants[s.probe]
  BY <1>5, ProbeRecord
<1>7. \A r \in Reqs : f[r] = s.grants[r] \/ (old(r) /\ f[r] = NoGrant)
  OBVIOUS
<1> HIDE DEF f
<1>8. /\ Sound(t) /\ t.total = s.total /\ t.level = s.level /\ t.epoch = s.epoch
      /\ t.probe = s.probe /\ t.grants = f
  BY <1>1, <1>3, <1>4, <1>6, RegistryOnly
<1>9. QED BY <1>7, <1>8

(* A refresh keeps what holds of the state, and changes the registry and   *)
(* the slot only as Carries says.                                          *)
LEMMA RefreshSound ==
    ASSUME TypeOK, Sound(st), HeldIsOfThisBoot, NEW p, NEW s1 \in Refreshes(p)
    PROVE  Sound(s1) /\ Carries(st, s1)
<1>1. PICK D \in SUBSET DeadOwned, free \in FreeVerdicts : s1 = Refresh(st, p, D, free)
  BY DEF Refreshes
<1> DEFINE a == PrunePending(ApplyClock(SelfHeal(st, p)), D)
           b == ResolveProbe(a, free)
           c == ToRecovery(b)
           d == ReconcileGrants(c, D)
<1>2. s1 = Evict(d)
  BY <1>1 DEF Refresh
<1>3. Sound(a) /\ SameBreaker(st, a)
  <2> DEFINE h == SelfHeal(st, p)
             k == ApplyClock(h)
  <2>1. Sound(h) /\ SameBreaker(st, h)
    BY SelfHealSound
  <2> HIDE DEF h
  <2>2. Sound(k) /\ SameBreaker(h, k)
    BY <2>1, ApplyClockSound
  <2>3. a = PrunePending(k, D)
    BY DEF h
  <2> HIDE DEF k
  <2>4. Sound(PrunePending(k, D)) /\ SameBreaker(k, PrunePending(k, D))
    BY <2>2, PrunePendingSound
  <2>5. Sound(a) /\ SameBreaker(k, a)
    BY <2>3, <2>4
  <2>6. QED BY <2>1, <2>2, <2>5 DEF SameBreaker
<1> HIDE DEF a
<1>4. /\ Sound(b) /\ b.total = a.total /\ b.level = a.level
      /\ \/ b.epoch = a.epoch /\ b.probe = a.probe /\ b.grants = a.grants
         \/ /\ a.probe \in Reqs
            /\ a.grants[a.probe].owner = Past \/ (a.probe \notin held /\ free)
            /\ b.probe = NoReq /\ b.epoch \in {a.epoch, a.epoch + 1}
            /\ \E o \in {"UNKNOWN", "NOT_SENT"} :
                  b.grants[a.probe] = [a.grants[a.probe] EXCEPT !.outcome = o]
            /\ \A r \in Reqs \ {a.probe} : b.grants[r] = a.grants[r]
  BY <1>3, ResolveProbeSound
<1> HIDE DEF b
<1>5. /\ Sound(c) /\ c.total = b.total /\ c.level = b.level /\ c.epoch = b.epoch
      /\ c.probe = b.probe /\ c.grants = b.grants
  BY <1>4, ToRecoverySound
<1> HIDE DEF c
<1>6. /\ Sound(d) /\ d.total = c.total /\ d.level = c.level /\ d.epoch = c.epoch
      /\ d.probe = c.probe
      /\ \A r \in Reqs :
            \/ d.grants[r] = c.grants[r]
            \/ /\ c.grants[r].outcome = "issued" /\ c.grants[r].owner \in {Gone, Past}
               /\ \E o \in {"UNKNOWN", "NOT_SENT"} :
                     d.grants[r] = [c.grants[r] EXCEPT !.outcome = o]
  BY <1>5, ReconcileGrantsSound
<1> HIDE DEF d
<1>7. /\ Sound(s1) /\ s1.total = d.total /\ s1.level = d.level /\ s1.epoch = d.epoch
      /\ s1.probe = d.probe
      /\ \A r \in Reqs :
            \/ s1.grants[r] = d.grants[r]
            \/ /\ d.grants[r].outcome \in Terminal /\ wall - d.grants[r].at >= MaxLifetime
               /\ s1.grants[r] = NoGrant
  BY <1>2, <1>6, EvictSound
<1>8. st.grants \in [Reqs -> GrantRecord]
  BY StateFields DEF Sound, Registry
<1>9. st.probe # NoReq => st.probe \in Reqs /\ st.grants[st.probe].outcome = "issued"
  BY ProbeRecord
<1>10. b.probe # a.probe \/ b.grants # a.grants \/ b.epoch # a.epoch =>
           /\ a.probe = st.probe /\ st.probe \in Reqs /\ st.probe \notin held
           /\ b.probe = NoReq /\ b.epoch \in {st.epoch, st.epoch + 1}
  BY <1>3, <1>4, Constants DEF SameBreaker, HeldIsOfThisBoot, FreeVerdicts
<1>11. ASSUME NEW r \in Reqs
       PROVE  d.grants[r] = st.grants[r] \/ ClosedFor(st, d, r)
  <2>1. CASE b.grants[r] = a.grants[r]
    BY <1>3, <1>5, <1>6, <2>1 DEF SameBreaker, ClosedFor, Lost
  <2>2. CASE b.grants[r] # a.grants[r]
    <3>1. r = st.probe /\ st.probe \notin held
      BY <1>3, <1>4, <1>10, <2>2 DEF SameBreaker
    <3>2. PICK o \in {"UNKNOWN", "NOT_SENT"} :
              b.grants[r] = [st.grants[r] EXCEPT !.outcome = o]
      BY <1>3, <1>4, <2>2 DEF SameBreaker
    <3>3. b.grants[r].outcome # "issued"
      BY <1>8, <3>2 DEF GrantRecord
    <3>4. d.grants[r] = b.grants[r]
      BY <1>5, <1>6, <3>3
    <3>5. st.grants[r].outcome = "issued"
      BY <1>9, <3>1, Constants
    <3>6. QED BY <3>1, <3>2, <3>4, <3>5 DEF ClosedFor, Lost
  <2>3. QED BY <2>1, <2>2
<1>12. \A r \in Reqs : Carried(st, s1, r)
  <2> SUFFICES ASSUME NEW r \in Reqs PROVE Carried(st, s1, r)
    OBVIOUS
  <2>1. CASE d.grants[r] = st.grants[r]
    BY <1>7, <2>1 DEF Carried, EvictedFrom
  <2>2. CASE ClosedFor(st, d, r)
    <3>1. PICK o \in {"UNKNOWN", "NOT_SENT"} :
              d.grants[r] = [st.grants[r] EXCEPT !.outcome = o]
      BY <2>2 DEF ClosedFor
    <3>2. d.grants[r].at = st.grants[r].at
      BY <1>8, <3>1 DEF GrantRecord
    <3>3. QED BY <1>7, <2>2, <3>2 DEF Carried, EvictedFrom, ClosedFor
  <2>3. QED BY <1>11, <2>1, <2>2
<1>13. s1.total = st.total /\ s1.level = st.level
  BY <1>3, <1>4, <1>5, <1>6, <1>7 DEF SameBreaker
<1>14. /\ s1.epoch = st.epoch \/ (s1.epoch = st.epoch + 1 /\ s1.probe = NoReq)
       /\ s1.probe \in {st.probe, NoReq}
       /\ st.probe \in held => s1.probe = st.probe
  BY <1>3, <1>5, <1>6, <1>7, <1>10 DEF SameBreaker
<1>15. QED BY <1>7, <1>12, <1>13, <1>14 DEF Carries

-----------------------------------------------------------------------------
(* The bodies of the transactions.                                         *)

LEMMA DropSound ==
    ASSUME NEW s, Sound(s), NEW r \in Reqs
    PROVE  Sound(Drop(s, r)) /\ SameBreaker(s, Drop(s, r))
<1> DEFINE f == [s.pending EXCEPT ![r] = NoPending]
<1>1. s.pending \in [Reqs -> PendingRecord]
  BY StateFields DEF Sound, Demands
<1>2. f \in Demands
  BY <1>1, Constants DEF Demands
<1>3. Drop(s, r) = [s EXCEPT !.pending = f]
  BY DEF Drop
<1> HIDE DEF f
<1>4. QED BY <1>2, <1>3, PendingOnly

LEMMA DemandSound ==
    ASSUME TypeOK, NEW s, Sound(s), NEW r \in Reqs
    PROVE  Sound(Demand(s, r)) /\ SameBreaker(s, Demand(s, r))
<1> DEFINE reg == IF New(r) THEN wall ELSE call[r].anchor
           old == s.pending[r]
           fresh == Smaller(reg + DemandTTL, wall + Liveness)
           renewed == Smaller(old.reg + DemandTTL, wall + Liveness)
           new == [on |-> TRUE, owner |-> Home[r], reg |-> reg, exp |-> fresh]
           ren == [old EXCEPT !.exp = renewed]
<1>1. s.pending \in [Reqs -> PendingRecord]
  BY StateFields DEF Sound, Demands
<1>2. old \in PendingRecord
  BY <1>1
<1>3. DemandTTL \in Nat /\ Liveness \in Nat /\ wall \in Int /\ call[r] \in Call
  BY LimiterAssumption DEF TypeOK
<1>4. reg \in Int /\ old.reg \in Int
  BY <1>2, <1>3 DEF PendingRecord, Call
<1> HIDE DEF reg, old
<1>5. fresh \in Int /\ renewed \in Int
  BY <1>3, <1>4 DEF Smaller
<1> HIDE DEF fresh, renewed
<1>6. Home[r] \in Owners
  BY Constants DEF Owners
<1>7. new \in PendingRecord
  BY <1>4, <1>5, <1>6 DEF PendingRecord
<1>8. ren \in PendingRecord
  BY <1>2, <1>5 DEF PendingRecord
<1>9. \/ Demand(s, r) = [s EXCEPT !.pending = [s.pending EXCEPT ![r] = new]]
      \/ Demand(s, r) = [s EXCEPT !.pending = [s.pending EXCEPT ![r] = ren]]
      \/ Demand(s, r) = s
  BY DEF Demand, old, reg, fresh, renewed
<1> HIDE DEF new, ren
<1>10. [s.pending EXCEPT ![r] = new] \in Demands /\ [s.pending EXCEPT ![r] = ren] \in Demands
  BY <1>1, <1>7, <1>8 DEF Demands
<1>11. SameBreaker(s, s)
  BY DEF SameBreaker
<1>12. CASE Demand(s, r) = [s EXCEPT !.pending = [s.pending EXCEPT ![r] = new]]
  BY <1>10, <1>12, PendingOnly
<1>13. CASE Demand(s, r) = [s EXCEPT !.pending = [s.pending EXCEPT ![r] = ren]]
  BY <1>10, <1>13, PendingOnly
<1>14. CASE Demand(s, r) = s
  BY <1>11, <1>14
<1>15. QED BY <1>9, <1>12, <1>13, <1>14

(* A grant takes one token; a probe's grant also takes the slot.           *)
LEMMA GrantedSound ==
    ASSUME TypeOK, NEW s, Sound(s), NEW r \in Reqs, MayGrant(s, r), s.mode # "OPEN",
           NEW t, t = Granted(s, r)
    PROVE  /\ Sound(t) /\ t.total = s.total + 1 /\ t.epoch = s.epoch /\ t.level = s.level
           /\ s.probe = NoReq /\ t.probe \in {r, NoReq}
           /\ t.grants[r].outcome = "issued" /\ (t.grants[r].probe => t.probe = r)
           /\ t.grants[r].owner = Home[r]
           /\ \A q \in Reqs \ {r} : t.grants[q] = s.grants[q]
<1> DEFINE probe == s.mode = "RECOVERY"
           g == [outcome |-> "issued", epoch |-> s.epoch, probe |-> probe,
                 owner |-> Home[r], sent |-> FALSE, at |-> wall]
           d == Drop(s, r)
           use == [d.usage EXCEPT ![Prio[r]] = d.usage[Prio[r]] + 1]
           f == [d.grants EXCEPT ![r] = g]
           t0 == [d EXCEPT !.tokens = d.tokens - 1, !.total = d.total + 1,
                           !.usage = use, !.grants = f]
           t1 == [t0 EXCEPT !.probe = r, !.marker = FALSE, !.stalled = FALSE]
<1>1. t = IF probe THEN t1 ELSE t0
  BY DEF Granted
<1>2. Sound(d) /\ SameBreaker(s, d) /\ d \in State /\ d.tokens = s.tokens /\ d.refill = s.refill
  <2>1. Sound(d) /\ SameBreaker(s, d)
    BY DropSound
  <2>2. s \in State /\ d \in State
    BY <2>1 DEF Sound
  <2>3. d.tokens = s.tokens /\ d.refill = s.refill
    BY <2>2, StateShape DEF Drop
  <2>4. QED BY <2>1, <2>2, <2>3
<1>3. s.probe = NoReq /\ s.mode \in {"CLOSED", "RECOVERY"} /\ s.tokens >= 1
  BY StateFields DEF MayGrant, Sound, SlotSound, Modes
<1>4. /\ s.tokens \in Nat /\ s.refill \in Nat /\ s.total \in Nat /\ s.epoch \in Nat
      /\ s.tokens = Burst + s.refill - s.total /\ s.tokens <= Burst /\ Burst \in Nat
  BY StateFields, Constants DEF Sound, Balanced, Count
<1>5. g \in GrantRecord
  <2>1. probe \in BOOLEAN /\ Home[r] \in Owners /\ wall \in Int
    BY Constants DEF Owners, TypeOK
  <2> HIDE DEF probe
  <2>2. QED BY <1>4, <2>1 DEF GrantRecord
<1>6. g.outcome = "issued" /\ g.epoch = s.epoch /\ g.probe = probe /\ g.owner = Home[r]
  OBVIOUS
<1> HIDE DEF g
<1>7. d.grants \in Registry /\ d.usage \in Usages
  BY <1>2, StateFields
<1>8. f \in Registry /\ f[r] = g /\ \A q \in Reqs \ {r} : f[q] = s.grants[q]
  BY <1>2, <1>5, <1>7 DEF Registry, SameBreaker
<1>9. use \in Usages
  BY <1>7, Constants DEF Usages
<1>10. d.tokens - 1 \in Count /\ d.total + 1 \in Count
  BY <1>2, <1>3, <1>4 DEF Count, SameBreaker
<1>11. r \in Slots
  BY DEF Slots
<1> HIDE DEF f, use, d
<1>12. /\ t0 \in State /\ t0.tokens = d.tokens - 1 /\ t0.total = d.total + 1 /\ t0.refill = d.refill
       /\ t0.epoch = d.epoch /\ t0.mode = d.mode /\ t0.level = d.level /\ t0.probe = d.probe
       /\ t0.grants = f
  BY <1>2, <1>8, <1>9, <1>10, StateShape
<1> HIDE DEF t0
<1>13. /\ t1 \in State /\ t1.tokens = t0.tokens /\ t1.total = t0.total /\ t1.refill = t0.refill
       /\ t1.epoch = t0.epoch /\ t1.mode = t0.mode /\ t1.level = t0.level /\ t1.probe = r
       /\ t1.grants = t0.grants
  BY <1>11, <1>12, StateShape
<1> HIDE DEF t1
<1>14. /\ t \in State /\ t.tokens = s.tokens - 1 /\ t.total = s.total + 1 /\ t.refill = s.refill
       /\ t.epoch = s.epoch /\ t.mode = s.mode /\ t.level = s.level
       /\ t.probe = IF probe THEN r ELSE NoReq
       /\ t.grants = f
  BY <1>1, <1>2, <1>3, <1>12, <1>13 DEF SameBreaker
<1>15. Balanced(t)
  BY <1>3, <1>4, <1>14 DEF Balanced
<1>16. \A q \in Reqs \ {r} : s.grants[q].outcome = "issued" =>
           /\ s.grants[q].epoch <= s.epoch
           /\ s.grants[q].epoch = s.epoch => s.mode = "CLOSED"
  BY <1>3, Constants DEF Sound, Fencing
<1>17. Fencing(t)
  BY <1>3, <1>4, <1>6, <1>8, <1>14, <1>16 DEF Fencing
<1>18. SlotSound(t)
  BY <1>6, <1>8, <1>14 DEF SlotSound
<1>19. QED BY <1>3, <1>6, <1>8, <1>14, <1>15, <1>17, <1>18 DEF Sound

LEMMA VerdictUpdate ==
    ASSUME NEW s \in State, NEW r \in Reqs, NEW o \in Terminal, NEW t, t = WithVerdict(s, r, o)
    PROVE  /\ t \in State /\ t.tokens = s.tokens /\ t.refill = s.refill
           /\ t.total = s.total /\ t.epoch = s.epoch /\ t.mode = s.mode /\ t.level = s.level
           /\ t.probe = s.probe
           /\ t.grants[r].outcome = o
           /\ \A q \in Reqs \ {r} : t.grants[q] = s.grants[q]
<1> DEFINE g == [s.grants[r] EXCEPT !.outcome = o]
<1>1. s.grants[r] \in GrantRecord
  BY StateFields DEF Registry
<1>2. g \in GrantRecord /\ g.outcome = o
  BY <1>1, VerdictRecord
<1>3. t = WithGrant(s, r, g)
  BY DEF WithVerdict, WithGrant
<1> HIDE DEF g
<1>4. QED BY <1>2, <1>3, GrantUpdate

(* A verdict keeps what holds of the state, up to the slot of its own      *)
(* request.                                                                *)
LEMMA OutcomeWritten ==
    ASSUME NEW s, Sound(s), NEW r \in Reqs, NEW o \in Terminal, NEW t, t = WithVerdict(s, r, o)
    PROVE  /\ t \in State /\ Balanced(t) /\ Fencing(t)
           /\ s.probe # r => Sound(t)
           /\ t.total = s.total /\ t.epoch = s.epoch /\ t.mode = s.mode /\ t.level = s.level
           /\ t.probe = s.probe
           /\ t.grants[r].outcome = o
           /\ \A q \in Reqs \ {r} : t.grants[q] = s.grants[q]
<1>1. s \in State
  BY DEF Sound
<1>2. /\ t \in State /\ t.tokens = s.tokens /\ t.refill = s.refill
      /\ t.total = s.total /\ t.epoch = s.epoch /\ t.mode = s.mode /\ t.level = s.level
      /\ t.probe = s.probe
      /\ t.grants[r].outcome = o
      /\ \A q \in Reqs \ {r} : t.grants[q] = s.grants[q]
  BY <1>1, VerdictUpdate
<1>3. o # "issued"
  BY DEF Terminal, Outcomes
<1>4. Balanced(t)
  BY <1>2 DEF Sound, Balanced
<1>5. Fencing(t)
  BY <1>2, <1>3 DEF Sound, Fencing
<1>6. ASSUME s.probe # r PROVE SlotSound(t)
  BY <1>2, <1>6, ProbeRecord DEF SlotSound
<1>7. QED BY <1>2, <1>4, <1>5, <1>6 DEF Sound

(* A grant that is no longer current is revoked.                           *)
LEMMA RevokeSound ==
    ASSUME NEW s, Sound(s), NEW r \in Reqs, Fenced(s, r), NEW t, t = Revoke(s, r)
    PROVE  /\ Sound(t) /\ t.total = s.total /\ t.epoch = s.epoch /\ t.level = s.level
           /\ t.probe = s.probe /\ s.probe # r
           /\ t.grants[r].outcome = "REVOKED"
           /\ \A q \in Reqs \ {r} : t.grants[q] = s.grants[q]
<1> DEFINE o == "REVOKED"
<1>1. s.probe # r
  BY Constants DEF Fenced, Sound, SlotSound
<1>2. t = WithVerdict(s, r, o) /\ o \in Terminal
  BY DEF Revoke, WithVerdict, Terminal, Outcomes
<1> HIDE DEF o
<1>3. /\ Sound(t) /\ t.total = s.total /\ t.epoch = s.epoch /\ t.level = s.level
      /\ t.probe = s.probe /\ t.grants[r].outcome = o
      /\ \A q \in Reqs \ {r} : t.grants[q] = s.grants[q]
  BY <1>1, <1>2, OutcomeWritten
<1>4. QED BY <1>1, <1>3 DEF o

(* The may-have-been-sent marks of a grant that passes the fence.          *)
LEMMA MarkedSound ==
    ASSUME NEW s, Sound(s), NEW r \in Reqs, NEW t, t = Marked(s, r)
    PROVE  /\ Sound(t) /\ t.total = s.total /\ t.epoch = s.epoch /\ t.level = s.level
           /\ t.probe = s.probe
           /\ t.grants[r].outcome = s.grants[r].outcome /\ t.grants[r].probe = s.grants[r].probe
           /\ t.grants[r].owner = s.grants[r].owner /\ t.grants[r].epoch = s.grants[r].epoch
           /\ \A q \in Reqs \ {r} : t.grants[q] = s.grants[q]
<1> DEFINE g == [s.grants[r] EXCEPT !.sent = TRUE]
           c == WithGrant(s, r, g)
           m == [c EXCEPT !.marker = TRUE]
<1>1. s \in State /\ s.grants[r] \in GrantRecord
  BY StateFields DEF Sound, Registry
<1>2. /\ g \in GrantRecord /\ g.outcome = s.grants[r].outcome /\ g.epoch = s.grants[r].epoch
      /\ g.probe = s.grants[r].probe /\ g.owner = s.grants[r].owner
  BY <1>1 DEF GrantRecord
<1>3. t = IF s.grants[r].probe THEN m ELSE c
  BY DEF Marked, WithGrant
<1> HIDE DEF g
<1>4. /\ c \in State /\ c.tokens = s.tokens /\ c.refill = s.refill
      /\ c.total = s.total /\ c.epoch = s.epoch /\ c.mode = s.mode /\ c.level = s.level
      /\ c.probe = s.probe
      /\ c.grants[r] = g /\ \A q \in Reqs \ {r} : c.grants[q] = s.grants[q]
  BY <1>1, <1>2, GrantUpdate
<1> HIDE DEF c
<1>5. /\ m \in State /\ m.tokens = c.tokens /\ m.refill = c.refill /\ m.total = c.total
      /\ m.epoch = c.epoch /\ m.mode = c.mode /\ m.level = c.level /\ m.probe = c.probe
      /\ m.grants = c.grants
  BY <1>4, StateShape
<1> HIDE DEF m
<1>6. /\ t \in State /\ t.tokens = s.tokens /\ t.refill = s.refill
      /\ t.total = s.total /\ t.epoch = s.epoch /\ t.mode = s.mode /\ t.level = s.level
      /\ t.probe = s.probe
      /\ t.grants[r] = g /\ \A q \in Reqs \ {r} : t.grants[q] = s.grants[q]
  BY <1>3, <1>4, <1>5
<1>7. Balanced(t)
  BY <1>6 DEF Sound, Balanced
<1>8. Fencing(t)
  BY <1>2, <1>6 DEF Sound, Fencing
<1>9. SlotSound(t)
  BY <1>2, <1>6, ProbeRecord DEF SlotSound
<1>10. QED BY <1>2, <1>6, <1>7, <1>8, <1>9 DEF Sound

(* A verdict on the holder of the slot gives the slot up.                  *)
LEMMA FreeOwnProbeSound ==
    ASSUME NEW s \in State, Balanced(s), Fencing(s), NEW r \in Reqs,
           s.grants[r].outcome # "issued", s.probe # r => SlotSound(s),
           NEW t, t = FreeOwnProbe(s, r)
    PROVE  /\ Sound(t) /\ t.total = s.total /\ t.epoch = s.epoch /\ t.mode = s.mode
           /\ t.level = s.level /\ t.grants = s.grants
           /\ t.probe = IF s.probe = r THEN NoReq ELSE s.probe
<1>1. CASE s.probe # r
  BY <1>1 DEF FreeOwnProbe, Sound
<1>2. CASE s.probe = r
  <2>1. t = FreeProbe(s)
    BY <1>2 DEF FreeOwnProbe
  <2>2. \A q \in Reqs : s.grants[q].outcome = "issued" =>
            s.grants[q].epoch <= s.epoch /\ (s.grants[q].epoch = s.epoch => s.mode = "CLOSED")
    BY <1>2 DEF Fencing
  <2>3. QED BY <1>2, <2>1, <2>2, FreeProbeSound, FreeProbeFields
<1>3. QED BY <1>1, <1>2

LEMMA CountSuccessSound ==
    ASSUME NEW s, Sound(s), s.mode = "RECOVERY" => s.probe = NoReq,
           NEW t, t = CountSuccess(s)
    PROVE  /\ Sound(t) /\ t.total = s.total /\ t.epoch = s.epoch
           /\ t.level \in {s.level, 0} /\ t.grants = s.grants /\ t.probe = s.probe
<1> DEFINE closed == "CLOSED"
           nought == 0
           more == s.streak + 1
           u == [s EXCEPT !.mode = closed, !.level = nought, !.streak = nought]
           v == [s EXCEPT !.streak = more]
<1>1. s \in State /\ s.streak \in Nat
  BY StateFields DEF Sound, Count
<1>2. nought \in Count /\ more \in Count /\ closed \in Modes
  BY <1>1, Constants DEF Count
<1>3. t = IF s.mode = "RECOVERY" /\ s.streak + 1 >= Target THEN u ELSE v
  BY DEF CountSuccess
<1> HIDE DEF closed, nought, more
<1>4. /\ u \in State /\ u.tokens = s.tokens /\ u.refill = s.refill /\ u.total = s.total
      /\ u.epoch = s.epoch /\ u.mode = closed /\ u.level = nought /\ u.probe = s.probe
      /\ u.grants = s.grants
  BY <1>1, <1>2, StateShape
<1>5. v \in State /\ v.tokens = s.tokens /\ v.refill = s.refill /\ SameBreaker(s, v)
  BY <1>1, <1>2, StateShape DEF SameBreaker
<1> HIDE DEF u, v
<1>6. CASE s.mode = "RECOVERY" /\ s.streak + 1 >= Target
  <2>1. t = u /\ s.probe = NoReq
    BY <1>3, <1>6
  <2>2. u.mode = "CLOSED" /\ u.level = 0
    BY <1>4 DEF closed, nought
  <2>3. Sound(u)
    BY <1>4, <2>1, <2>2 DEF Sound, Balanced, Fencing, SlotSound
  <2>4. QED BY <1>4, <2>1, <2>2, <2>3
<1>7. CASE ~(s.mode = "RECOVERY" /\ s.streak + 1 >= Target)
  BY <1>3, <1>5, <1>7, SameBreakerSound DEF SameBreaker
<1>8. QED BY <1>6, <1>7

(* A result closes its own record only; only a rate limit of the current   *)
(* epoch trips the breaker, and then no other request has the slot.        *)
LEMMA ApplyResultSound ==
    ASSUME TypeOK, NEW s, Sound(s), NEW r \in Reqs, NEW t, t = ApplyResult(s, r)
    PROVE  /\ Sound(t) /\ t.total = s.total
           /\ \A q \in Reqs \ {r} : t.grants[q] = s.grants[q]
           /\ s.grants[r].outcome # "issued" => t.grants[r] = s.grants[r]
           /\ s.grants[r].outcome = "issued" => t.grants[r].outcome \in Terminal
           /\ \/ /\ t.epoch = s.epoch /\ t.level \in {s.level, 0}
                 /\ t.probe = s.probe \/ (s.probe = r /\ t.probe = NoReq)
              \/ /\ t.epoch = s.epoch + 1 /\ t.level <= s.level + 1
                 /\ t.probe = NoReq /\ s.probe \in {r, NoReq}
                 /\ s.grants[r].outcome = "issued" /\ s.grants[r].epoch = s.epoch
                 /\ call[r].result = "RATE_LIMIT"
<1>1. CASE s.grants[r].outcome # "issued"
  BY <1>1 DEF ApplyResult
<1>2. CASE s.grants[r].outcome = "issued"
  <2> DEFINE o == call[r].result
             w == WithVerdict(s, r, o)
  <2>1. o \in Terminal
    BY DEF TypeOK, Call, Terminal
  <2>2. t = CASE o = "RATE_LIMIT" -> IF Current(s, r) THEN ApplyOpen(w, TRUE) ELSE w
              [] o = "OK" -> IF Current(s, r) THEN CountSuccess(FreeOwnProbe(w, r)) ELSE w
              [] OTHER -> FreeOwnProbe(w, r)
    BY <1>2 DEF ApplyResult, ApplyOutcome, WithVerdict
  <2> HIDE DEF o
  <2>3. /\ w \in State /\ Balanced(w) /\ Fencing(w)
        /\ s.probe # r => Sound(w)
        /\ w.total = s.total /\ w.epoch = s.epoch /\ w.mode = s.mode /\ w.level = s.level
        /\ w.probe = s.probe /\ w.grants[r].outcome = o
        /\ \A q \in Reqs \ {r} : w.grants[q] = s.grants[q]
    BY <2>1, OutcomeWritten
  <2> HIDE DEF w
  <2>4. o # "issued"
    BY <2>1 DEF Terminal, Outcomes
  <2>5. s.probe = r => Current(s, r)
    BY Constants DEF Current, Sound, SlotSound
  <2>6. Current(s, r) /\ s.mode # "CLOSED" => s.probe = r
    BY <1>2 DEF Current, Sound, Fencing
  <2>7. s.mode = "CLOSED" => s.probe = NoReq
    BY DEF Sound, SlotSound
  <2> DEFINE h == FreeOwnProbe(w, r)
  <2>8. /\ Sound(h) /\ h.total = w.total /\ h.epoch = w.epoch /\ h.mode = w.mode
        /\ h.level = w.level /\ h.grants = w.grants
        /\ h.probe = IF w.probe = r THEN NoReq ELSE w.probe
    <3>1. w.probe # r => SlotSound(w)
      BY <2>3 DEF Sound
    <3>2. QED BY <2>3, <2>4, <3>1, FreeOwnProbeSound
  <2>9. t = CASE o = "RATE_LIMIT" -> IF Current(s, r) THEN ApplyOpen(w, TRUE) ELSE w
              [] o = "OK" -> IF Current(s, r) THEN CountSuccess(h) ELSE w
              [] OTHER -> h
    BY <2>2
  <2> HIDE DEF h
  <2>10. CASE o = "RATE_LIMIT" /\ Current(s, r)
    <3>1. t = ApplyOpen(w, TRUE)
      BY <2>9, <2>10
    <3>2. \A q \in Reqs : w.grants[q].outcome = "issued" => w.grants[q].epoch <= w.epoch
      BY <2>3 DEF Fencing
    <3>3. /\ Sound(t) /\ t.total = w.total /\ t.epoch = w.epoch + 1 /\ t.probe = NoReq
          /\ t.grants = w.grants /\ t.level = Smaller(w.level + 1, Len(Cooldowns))
      BY <2>3, <3>1, <3>2, ApplyOpenSound
    <3>4. w.level \in Nat /\ Len(Cooldowns) \in Nat
      BY <2>3, StateFields, LimiterAssumption DEF Count
    <3>5. t.level <= w.level + 1
      BY <3>3, <3>4 DEF Smaller
    <3>6. s.probe \in {r, NoReq}
      BY <2>6, <2>7, <2>10
    <3>7. QED BY <1>2, <2>1, <2>3, <2>10, <3>3, <3>5, <3>6 DEF Current, o
  <2>11. CASE o \in {"RATE_LIMIT", "OK"} /\ ~Current(s, r)
    <3>1. t = w
      BY <2>9, <2>11
    <3>2. QED BY <1>2, <2>1, <2>3, <2>5, <2>11, <3>1
  <2>12. CASE o = "OK" /\ Current(s, r)
    <3>1. t = CountSuccess(h)
      BY <2>9, <2>12
    <3>2. h.mode = "RECOVERY" => h.probe = NoReq
      BY <2>3, <2>6, <2>8, <2>12
    <3>3. /\ Sound(t) /\ t.total = h.total /\ t.epoch = h.epoch
          /\ t.level \in {h.level, 0} /\ t.grants = h.grants /\ t.probe = h.probe
      BY <2>8, <3>1, <3>2, CountSuccessSound
    <3>4. QED BY <1>2, <2>1, <2>3, <2>8, <3>3
  <2>13. CASE o \notin {"RATE_LIMIT", "OK"}
    <3>1. t = h
      BY <2>9, <2>13
    <3>2. QED BY <1>2, <2>1, <2>3, <2>8, <3>1
  <2>14. QED BY <2>10, <2>11, <2>12, <2>13
<1>3. QED BY <1>1, <1>2

(* A poll changes no more than the pending demands, or grants.             *)
LEMMA PollsSound ==
    ASSUME TypeOK, NEW s, Sound(s), NEW r \in Reqs, NEW b \in Polls(s, r)
    PROVE  /\ Sound(b.s)
           /\ \/ b.to \in {"done", "dropping", "waiting"} /\ SameBreaker(s, b.s)
              \/ /\ b.to = "granted"
                 /\ b.s.total = s.total + 1 /\ b.s.epoch = s.epoch /\ b.s.level = s.level
                 /\ s.probe = NoReq /\ b.s.probe \in {r, NoReq}
                 /\ b.s.grants[r].outcome = "issued"
                 /\ b.s.grants[r].probe => b.s.probe = r
                 /\ b.s.grants[r].owner = Home[r]
                 /\ \A q \in Reqs \ {r} : b.s.grants[q] = s.grants[q]
<1> DEFINE d == Demand(s, r)
           To(x, l) == [s |-> x, to |-> l]
<1>1. Sound(d) /\ SameBreaker(s, d)
  BY DemandSound
<1>2. \/ b \in {To(Drop(s, r), "done"), To(s, "dropping"), To(Drop(d, r), "done"),
                To(d, "waiting"), To(d, "dropping")}
      \/ b = To(Granted(d, r), "granted") /\ MayGrant(d, r) /\ d.mode # "OPEN"
  BY DEF Polls
<1> HIDE DEF d
<1>3. Sound(Drop(s, r)) /\ SameBreaker(s, Drop(s, r))
  BY DropSound
<1>4. Sound(Drop(d, r)) /\ SameBreaker(d, Drop(d, r))
  BY <1>1, DropSound
<1>5. CASE b \in {To(Drop(s, r), "done"), To(s, "dropping"), To(Drop(d, r), "done"),
                  To(d, "waiting"), To(d, "dropping")}
  <2>1. b.s \in {Drop(s, r), s, Drop(d, r), d} /\ b.to \in {"done", "dropping", "waiting"}
    BY <1>5
  <2>2. SameBreaker(s, s) /\ SameBreaker(s, Drop(d, r))
    BY <1>1, <1>4 DEF SameBreaker
  <2>3. Sound(b.s) /\ SameBreaker(s, b.s)
    BY <1>1, <1>3, <1>4, <2>1, <2>2
  <2>4. QED BY <2>1, <2>3
<1>6. CASE b = To(Granted(d, r), "granted") /\ MayGrant(d, r) /\ d.mode # "OPEN"
  <2>1. b.s = Granted(d, r) /\ b.to = "granted"
    BY <1>6
  <2> DEFINE t == b.s
  <2>2. /\ Sound(t) /\ t.total = d.total + 1 /\ t.epoch = d.epoch /\ t.level = d.level
        /\ d.probe = NoReq /\ t.probe \in {r, NoReq}
        /\ t.grants[r].outcome = "issued" /\ (t.grants[r].probe => t.probe = r)
        /\ t.grants[r].owner = Home[r]
        /\ \A q \in Reqs \ {r} : t.grants[q] = d.grants[q]
    BY <1>1, <1>6, <2>1, GrantedSound
  <2> HIDE DEF t
  <2>3. /\ Sound(t) /\ t.total = s.total + 1 /\ t.epoch = s.epoch /\ t.level = s.level
        /\ s.probe = NoReq /\ t.probe \in {r, NoReq}
        /\ t.grants[r].outcome = "issued" /\ (t.grants[r].probe => t.probe = r)
        /\ t.grants[r].owner = Home[r]
        /\ \A q \in Reqs \ {r} : t.grants[q] = s.grants[q]
    BY <1>1, <2>2 DEF SameBreaker
  <2>4. QED BY <2>1, <2>3 DEF t
<1>7. QED BY <1>2, <1>5, <1>6

-----------------------------------------------------------------------------
(* One transaction: what it loads, refreshes, changes and writes.          *)

LEMMA PersistedIs ==
    ASSUME NEW s \in State
    PROVE  /\ Persisted(s) \in {st, s}
           /\ s.total # st.total => Persisted(s) = s
<1> DEFINE u == [s EXCEPT !.tokens = st.tokens, !.refill = st.refill,
                          !.lastWall = st.lastWall, !.lastMono = st.lastMono]
<1>1. u.total = s.total
  BY StateShape
<1> HIDE DEF u
<1>2. Persisted(s) = IF ClockStep(st) = "normal" /\ u = st THEN st ELSE s
  BY DEF Persisted, u
<1>3. QED BY <1>1, <1>2

LEMMA CommitWrites ==
    ASSUME TypeOK, NEW e, NEW b \in State, Commit(e, b)
    PROVE  /\ st' \in {st, b} /\ st' \in State
           /\ e = "ok" /\ b.total # st.total => st' = b
           /\ mishaps' \in Nat /\ openedAt' \in Int
           /\ openedAt' = IF st'.epoch # st.epoch THEN mono ELSE openedAt
<1>1. /\ st' = IF e \in {"ok", "torn"} THEN Persisted(b) ELSE st
      /\ openedAt' = IF st'.epoch # st.epoch THEN mono ELSE openedAt
      /\ mishaps' = mishaps \/ mishaps' = mishaps + 1
  BY DEF Commit, Mishap
<1>2. /\ st \in State /\ mono \in Nat /\ mishaps \in Nat /\ openedAt \in Int
  BY DEF TypeOK
<1>3. Persisted(b) \in {st, b} /\ (b.total # st.total => Persisted(b) = b)
  BY PersistedIs
<1>4. QED BY <1>1, <1>2, <1>3

(* A transaction of request r (or of none) that refreshes the state to s1  *)
(* and turns it into b: only r's own record and call change, the slot of   *)
(* another request and its witness lock stay, and the level rises only on  *)
(* a rate limit of the current epoch.                                      *)
Transaction(r, e, s1, b) ==
    /\ Sound(s1) /\ Carries(st, s1) /\ Sound(b) /\ Commit(e, b)
    /\ \A q \in Reqs \ {r} : b.grants[q] = s1.grants[q] /\ call'[q] = call[q]
    /\ b.probe = s1.probe \/ (s1.probe \in {r, NoReq} /\ b.probe \in {r, NoReq})
    /\ \A q \in Reqs \ {r} : q \in held' => q \in held
    /\ \A q \in Reqs \ {r} : q \in held /\ s1.probe = q => q \in held'
    /\ \/ b.epoch = s1.epoch /\ b.level \in {s1.level, 0}
       \/ /\ r \in Reqs
          /\ b.epoch = s1.epoch + 1 /\ b.level <= s1.level + 1
          /\ s1.grants[r].outcome = "issued" /\ s1.grants[r].epoch = s1.epoch
          /\ call[r].pc = "recording" /\ call[r].result = "RATE_LIMIT"
    /\ UNCHANGED <<wall, mono, boot>>

(* What the transaction of a request leaves of the request itself.         *)
OwnCall(r, s1, b) ==
    /\ call'[r].pc \in {"granted", "prepared"} /\ st'.grants[r].probe => st'.probe = r /\ r \in held'
    /\ st'.probe = r /\ r \in held' => st'.grants[r].owner # Past
    /\ call'[r].pc \in {"idle", "new", "waiting"} => st'.grants[r].outcome = "absent"
    /\ st.probe = r => call'[r] # call[r]
    /\ \/ st.grants[r].outcome = "absent"
       \/ b.grants[r].outcome = s1.grants[r].outcome
       \/ s1.grants[r].outcome = "issued" /\ b.grants[r].outcome \in Terminal

(* Records with an owner in flight are carried unchanged.                  *)
LEMMA CarriedIssued ==
    ASSUME TypeOK, NEW s1, NEW r \in Reqs, Carried(st, s1, r)
    PROVE  /\ s1.grants[r].outcome = "issued" => s1.grants[r] = st.grants[r]
           /\ st.grants[r].outcome = "absent" => s1.grants[r] = st.grants[r]
           /\ s1.grants[r].probe => st.grants[r].probe
           /\ st.grants[r].outcome \in Terminal
                 => s1.grants[r].outcome \in {st.grants[r].outcome, "absent"}
           /\ s1.grants[r].outcome = "absent" =>
                 \/ st.grants[r].outcome = "absent"
                 \/ /\ wall - st.grants[r].at >= MaxLifetime
                    /\ st.grants[r].outcome = "issued" => Lost(st, r)
<1>1. st.grants[r] \in GrantRecord
  BY StateFields DEF TypeOK, Registry
<1>2. \A o \in {"UNKNOWN", "NOT_SENT"} :
          /\ [st.grants[r] EXCEPT !.outcome = o].outcome = o
          /\ [st.grants[r] EXCEPT !.outcome = o].probe = st.grants[r].probe
  BY <1>1 DEF GrantRecord
<1>3. NoGrant.outcome = "absent" /\ ~NoGrant.probe
  BY DEF NoGrant
<1>4. "absent" \notin Terminal /\ "issued" \notin Terminal
  BY DEF Terminal, Outcomes
<1>5. CASE s1.grants[r] = st.grants[r]
  BY <1>4, <1>5
<1>6. CASE ClosedFor(st, s1, r)
  BY <1>2, <1>4, <1>6 DEF ClosedFor
<1>7. CASE EvictedFrom(st, s1, r)
  BY <1>3, <1>4, <1>7 DEF EvictedFrom
<1>8. QED BY <1>5, <1>6, <1>7 DEF Carried

(* The three properties of a step that the theorems claim of every step.   *)
KeepsSlot == \A r \in held : st.probe = r /\ call'[r] = call[r] => st'.probe = r

Escalation ==
    st'.level > st.level =>
        /\ st'.level = st.level + 1 /\ st'.epoch = st.epoch + 1
        /\ \E r \in Reqs : /\ call[r].pc = "recording" /\ call[r].result = "RATE_LIMIT"
                           /\ st.grants[r].epoch = st.epoch

VerdictStays ==
    \A r \in Reqs :
        /\ st.grants[r].outcome \in Terminal
              => st'.grants[r].outcome \in {st.grants[r].outcome, "absent"}
        /\ Issued(r) /\ st'.grants[r].outcome = "absent"
              => /\ wall - st.grants[r].at >= MaxLifetime
                 /\ \/ st.grants[r].owner \in {Gone, Past}
                    \/ st.probe = r /\ r \notin held

StepSafe == KeepsSlot /\ Escalation /\ VerdictStays

LEMMA TransactionKeeps ==
    ASSUME IInv, TypeOK', NEW r \in Reqs \union {NoReq}, NEW e, NEW s1, NEW b,
           Transaction(r, e, s1, b), r \in Reqs => OwnCall(r, s1, b)
    PROVE  IInv'
<1>1. /\ Sound(st) /\ TypeOK
      /\ \A q \in Reqs : call[q].pc \in {"granted", "prepared"} /\ st.grants[q].probe
                         => st.probe = q /\ q \in held
      /\ st.probe \in held => st.grants[st.probe].owner # Past
      /\ \A q \in Reqs : call[q].pc \in {"idle", "new", "waiting"}
                         => st.grants[q].outcome = "absent"
  BY DEF IInv, HolderHasSlot, HeldIsOfThisBoot, FreshIsAbsent
<1>2. /\ Sound(s1) /\ Carries(st, s1) /\ Sound(b) /\ Commit(e, b)
      /\ \A q \in Reqs \ {r} : b.grants[q] = s1.grants[q] /\ call'[q] = call[q]
      /\ b.probe = s1.probe \/ (s1.probe \in {r, NoReq} /\ b.probe \in {r, NoReq})
      /\ \A q \in Reqs \ {r} : q \in held' => q \in held
      /\ \A q \in Reqs \ {r} : q \in held /\ s1.probe = q => q \in held'
  BY DEF Transaction
<1>3. st' \in {st, b}
  <2>1. b \in State
    BY <1>2 DEF Sound
  <2>2. QED BY <1>1, <1>2, <2>1, CommitWrites
<1>4. Sound(st')
  BY <1>1, <1>2, <1>3
<1>5. /\ s1.probe \in {st.probe, NoReq} /\ (st.probe \in held => s1.probe = st.probe)
      /\ \A q \in Reqs : Carried(st, s1, q)
  BY <1>2 DEF Carries
<1>6. ASSUME NEW q \in Reqs \ {r}
      PROVE  /\ st'.grants[q].probe => st.grants[q].probe
             /\ st.grants[q].outcome = "absent" => st'.grants[q].outcome = "absent"
             /\ st'.grants[q].outcome = "issued" => st'.grants[q] = st.grants[q]
  BY <1>1, <1>2, <1>3, <1>5, CarriedIssued
<1>7. HolderHasSlot'
  <2> SUFFICES ASSUME NEW q \in Reqs, call'[q].pc \in {"granted", "prepared"},
                      st'.grants[q].probe
               PROVE  st'.probe = q /\ q \in held'
    BY DEF HolderHasSlot
  <2>1. CASE q = r
    BY <2>1 DEF OwnCall
  <2>2. CASE q # r
    <3>1. st.probe = q /\ q \in held
      BY <1>1, <1>2, <1>6, <2>2
    <3>2. s1.probe = q /\ q # NoReq
      BY <1>5, <3>1, Constants
    <3>3. b.probe = q /\ q \in held'
      BY <1>2, <2>2, <3>1, <3>2
    <3>4. QED BY <1>3, <3>1, <3>3
  <2>3. QED BY <2>1, <2>2
<1>8. HeldIsOfThisBoot'
  <2> SUFFICES ASSUME st'.probe \in held' PROVE st'.grants[st'.probe].owner # Past
    BY DEF HeldIsOfThisBoot
  <2> DEFINE q == st'.probe
  <2>1. q \in Reqs
    BY DEF TypeOK
  <2>2. st'.grants[q].outcome = "issued"
    BY <1>4, <2>1, ProbeRecord, Constants
  <2>3. CASE q = r
    BY <2>1, <2>3 DEF OwnCall
  <2>4. CASE q # r
    <3>1. q \in held
      BY <1>2, <2>1, <2>4
    <3>2. st.probe = q
      BY <1>2, <1>3, <1>5, <2>1, <2>4, Constants
    <3>3. st'.grants[q] = st.grants[q]
      BY <1>6, <2>1, <2>2, <2>4
    <3>4. QED BY <1>1, <3>1, <3>2, <3>3
  <2>5. QED BY <2>3, <2>4
<1>9. FreshIsAbsent'
  <2> SUFFICES ASSUME NEW q \in Reqs, call'[q].pc \in {"idle", "new", "waiting"}
               PROVE  st'.grants[q].outcome = "absent"
    BY DEF FreshIsAbsent
  <2>1. CASE q = r
    BY <2>1 DEF OwnCall
  <2>2. CASE q # r
    BY <1>1, <1>2, <1>6, <2>2
  <2>3. QED BY <2>1, <2>2
<1>10. QED BY <1>4, <1>7, <1>8, <1>9 DEF IInv

LEMMA TransactionSafe ==
    ASSUME IInv, NEW r \in Reqs \union {NoReq}, NEW e, NEW s1, NEW b,
           Transaction(r, e, s1, b), r \in Reqs => OwnCall(r, s1, b)
    PROVE  StepSafe
<1>1. Sound(st) /\ TypeOK
  BY DEF IInv
<1>2. /\ Sound(s1) /\ Carries(st, s1) /\ Sound(b) /\ Commit(e, b)
      /\ \A q \in Reqs \ {r} : b.grants[q] = s1.grants[q] /\ call'[q] = call[q]
      /\ b.probe = s1.probe \/ (s1.probe \in {r, NoReq} /\ b.probe \in {r, NoReq})
      /\ \/ b.epoch = s1.epoch /\ b.level \in {s1.level, 0}
         \/ /\ r \in Reqs
            /\ b.epoch = s1.epoch + 1 /\ b.level <= s1.level + 1
            /\ s1.grants[r].outcome = "issued" /\ s1.grants[r].epoch = s1.epoch
            /\ call[r].pc = "recording" /\ call[r].result = "RATE_LIMIT"
  BY DEF Transaction
<1>3. st' \in {st, b}
  <2>1. b \in State
    BY <1>2 DEF Sound
  <2>2. QED BY <1>1, <1>2, <2>1, CommitWrites
<1>4. /\ s1.probe \in {st.probe, NoReq} /\ (st.probe \in held => s1.probe = st.probe)
      /\ s1.level = st.level /\ s1.epoch \in {st.epoch, st.epoch + 1}
      /\ \A q \in Reqs : Carried(st, s1, q)
  BY <1>2 DEF Carries
<1>5. \A q \in Reqs :
          /\ s1.grants[q].outcome = "issued" => s1.grants[q] = st.grants[q]
          /\ st.grants[q].outcome \in Terminal
                => s1.grants[q].outcome \in {st.grants[q].outcome, "absent"}
          /\ s1.grants[q].outcome = "absent" =>
                \/ st.grants[q].outcome = "absent"
                \/ /\ wall - st.grants[q].at >= MaxLifetime
                   /\ st.grants[q].outcome = "issued" => Lost(st, q)
  BY <1>1, <1>4, CarriedIssued
<1>6. KeepsSlot
  <2> SUFFICES ASSUME NEW q \in held, st.probe = q, call'[q] = call[q]
               PROVE  st'.probe = q
    BY DEF KeepsSlot
  <2>1. q \in Reqs /\ q # NoReq
    BY <1>1, Constants DEF TypeOK
  <2>2. q # r
    BY <2>1 DEF OwnCall
  <2>3. s1.probe = q
    BY <1>4
  <2>4. b.probe = q
    BY <1>2, <2>1, <2>2, <2>3
  <2>5. QED BY <1>3, <2>4
<1>7. Escalation
  <2> SUFFICES ASSUME st'.level > st.level
               PROVE  /\ st'.level = st.level + 1 /\ st'.epoch = st.epoch + 1
                      /\ \E q \in Reqs : /\ call[q].pc = "recording"
                                         /\ call[q].result = "RATE_LIMIT"
                                         /\ st.grants[q].epoch = st.epoch
    BY DEF Escalation
  <2>1. st.level \in Nat /\ st.epoch \in Nat /\ b.level \in Nat
    BY <1>1, <1>2, StateFields DEF Sound, Count
  <2>2. st' = b /\ b.level > st.level
    BY <1>3, <2>1
  <2>3. /\ r \in Reqs /\ b.epoch = s1.epoch + 1 /\ b.level <= s1.level + 1
        /\ s1.grants[r].outcome = "issued" /\ s1.grants[r].epoch = s1.epoch
        /\ call[r].pc = "recording" /\ call[r].result = "RATE_LIMIT"
    BY <1>2, <1>4, <2>1, <2>2
  <2>4. s1.grants[r] = st.grants[r]
    BY <1>5, <2>3
  <2>5. st.grants[r].epoch <= st.epoch /\ st.grants[r].epoch = s1.epoch
    BY <1>1, <2>3, <2>4 DEF Sound, Fencing
  <2>6. s1.epoch = st.epoch
    BY <1>4, <2>1, <2>5
  <2>7. QED BY <1>4, <2>1, <2>2, <2>3, <2>5, <2>6
<1>8. VerdictStays
  <2> SUFFICES ASSUME NEW q \in Reqs
               PROVE  /\ st.grants[q].outcome \in Terminal
                            => st'.grants[q].outcome \in {st.grants[q].outcome, "absent"}
                      /\ st.grants[q].outcome = "issued" /\ st'.grants[q].outcome = "absent"
                            => wall - st.grants[q].at >= MaxLifetime /\ Lost(st, q)
    BY DEF VerdictStays, Issued, Lost
  <2>1. "absent" \notin Terminal /\ "issued" \notin Terminal
    BY DEF Terminal, Outcomes
  <2>2. CASE st' = st
    BY <2>1, <2>2
  <2>3. CASE st' = b /\ q # r
    BY <1>2, <1>5, <2>1, <2>3
  <2>4. CASE st' = b /\ q = r
    <3>1. \/ st.grants[q].outcome = "absent"
          \/ b.grants[q].outcome = s1.grants[q].outcome
          \/ s1.grants[q].outcome = "issued" /\ b.grants[q].outcome \in Terminal
      BY <2>4 DEF OwnCall
    <3>2. QED BY <1>5, <2>1, <2>4, <3>1
  <2>5. QED BY <1>3, <2>2, <2>3, <2>4
<1>9. QED BY <1>6, <1>7, <1>8 DEF StepSafe

-----------------------------------------------------------------------------
(* The actions that are transactions.                                      *)

LEMMA TransactionTypes ==
    ASSUME TypeOK, NEW e, NEW b, Sound(b), Commit(e, b),
           call' \in [Reqs -> Call], held' \subseteq Reqs, leaked' \subseteq Reqs,
           UNCHANGED <<wall, mono, boot, up>>
    PROVE  TypeOK'
<1>1. b \in State
  BY DEF Sound
<1>2. st' \in State /\ mishaps' \in Nat /\ openedAt' \in Int
  BY <1>1, CommitWrites
<1>3. QED BY <1>2 DEF TypeOK

LEMMA HealTypes ==
    ASSUME TypeOK, NEW e, NEW p
    PROVE  Heal(e, p) \subseteq Reqs
BY DEF TypeOK, Heal

LEMMA CallTypes ==
    ASSUME TypeOK, NEW r \in Reqs
    PROVE  /\ call[r] \in Call /\ NoCall \in Call /\ Done \in Call /\ Done.pc = "done"
           /\ \A n \in Nat : /\ Retry(r, n) \in Call /\ Retry(r, n).pc \in {call[r].pc, "done"}
                             /\ Retry(r, n) # call[r] \/ Retry(r, n) = Done
<1>1. call[r] \in Call /\ NoCall \in Call
  BY DEF TypeOK, Call, NoCall, Outcomes
<1>2. Done \in Call /\ Done.pc = "done"
  BY <1>1 DEF Done, Call, NoCall
<1> DEFINE c == [call[r] EXCEPT !.tries = call[r].tries + 1]
<1>3. c \in Call /\ c.pc = call[r].pc /\ c.tries = call[r].tries + 1 /\ call[r].tries \in Nat
  BY <1>1 DEF Call
<1>4. \A n \in Nat : Retry(r, n) = Done \/ Retry(r, n) = c
  BY DEF Retry
<1> HIDE DEF c
<1>5. c # call[r]
  BY <1>3
<1>6. QED BY <1>1, <1>2, <1>3, <1>4, <1>5

(* A slot that is held has its open record unchanged by the refresh.       *)
LEMMA SlotCarried ==
    ASSUME IInv, NEW s1, Sound(s1), Carries(st, s1), NEW q \in Reqs, s1.probe = q
    PROVE  /\ st.probe = q /\ s1.grants[q] = st.grants[q]
           /\ q \in held => s1.grants[q].owner # Past
<1>1. st.probe = q /\ Carried(st, s1, q)
  BY Constants DEF Carries
<1>2. s1.grants[q].outcome = "issued"
  BY ProbeRecord, Constants
<1>3. s1.grants[q] = st.grants[q]
  BY <1>1, <1>2, CarriedIssued DEF IInv
<1>4. QED BY <1>1, <1>3 DEF IInv, HeldIsOfThisBoot

LEMMA FreshHasNoSlot ==
    ASSUME IInv, NEW q \in Reqs, call[q].pc \in {"idle", "new", "waiting"}
    PROVE  st.grants[q].outcome = "absent" /\ st.probe # q
<1>1. st.grants[q].outcome = "absent"
  BY DEF IInv, FreshIsAbsent
<1>2. QED BY <1>1, ProbeRecord, Constants DEF IInv

(* A transaction that leaves the breaker alone and after which r has no    *)
(* grant to use.                                                           *)
LEMMA QuietTransaction ==
    ASSUME IInv, NEW r \in Reqs, NEW s1, Sound(s1), Carries(st, s1),
           NEW b, Sound(b), SameBreaker(s1, b), NEW e, Commit(e, b),
           NEW c \in Call, call' = [call EXCEPT ![r] = c], held' = held,
           UNCHANGED <<wall, mono, boot>>,
           c.pc \notin {"granted", "prepared"},
           c.pc \in {"idle", "new", "waiting"} => call[r].pc \in {"idle", "new", "waiting"},
           c # call[r] \/ call[r].pc \in {"idle", "new", "waiting"}
    PROVE  Transaction(r, e, s1, b) /\ OwnCall(r, s1, b)
<1>1. call \in [Reqs -> Call] /\ TypeOK /\ b \in State
  BY DEF IInv, TypeOK, Sound
<1>2. call'[r] = c /\ \A q \in Reqs \ {r} : call'[q] = call[q]
  BY <1>1
<1>3. /\ b.probe = s1.probe /\ b.grants = s1.grants /\ b.epoch = s1.epoch /\ b.level = s1.level
  BY DEF SameBreaker
<1>4. Transaction(r, e, s1, b)
  BY <1>2, <1>3 DEF Transaction
<1>5. st' \in {st, b}
  BY <1>1, CommitWrites
<1>6. ASSUME st'.probe = r, r \in held' PROVE st'.grants[r].owner # Past
  <2>1. CASE st' = st
    BY <1>6, <2>1 DEF IInv, HeldIsOfThisBoot
  <2>2. CASE st' = b
    BY <1>3, <1>6, <2>2, SlotCarried
  <2>3. QED BY <1>5, <2>1, <2>2
<1>7. ASSUME c.pc \in {"idle", "new", "waiting"} PROVE st'.grants[r].outcome = "absent"
  <2>1. st.grants[r].outcome = "absent"
    BY <1>7, FreshHasNoSlot
  <2>2. s1.grants[r] = st.grants[r]
    BY <1>1, <2>1, CarriedIssued DEF Carries
  <2>3. QED BY <1>3, <1>5, <2>1, <2>2
<1>8. st.probe = r => call'[r] # call[r]
  BY <1>2, FreshHasNoSlot
<1>9. QED BY <1>2, <1>3, <1>4, <1>6, <1>7, <1>8 DEF OwnCall

(* What a transaction of an action establishes. *)
Kept == IInv' /\ StepSafe

LEMMA TransactionKept ==
    ASSUME IInv, NEW r \in Reqs \union {NoReq}, NEW e, NEW s1, NEW b,
           Transaction(r, e, s1, b), r \in Reqs => OwnCall(r, s1, b),
           call' \in [Reqs -> Call], held' \subseteq Reqs, leaked' \subseteq Reqs,
           UNCHANGED <<wall, mono, boot, up>>
    PROVE  Kept
<1>1. TypeOK /\ Sound(b) /\ Commit(e, b)
  BY DEF IInv, Transaction
<1>2. TypeOK'
  BY <1>1, TransactionTypes
<1>3. IInv'
  BY <1>2, TransactionKeeps
<1>4. StepSafe
  BY TransactionSafe
<1>5. QED BY <1>3, <1>4 DEF Kept

LEMMA LandedTypes ==
    ASSUME TypeOK, NEW r \in Reqs, NEW l \in {"done", "dropping", "waiting", "granted"}
    PROVE  Landed(r, l) \in Call /\ Landed(r, l).pc = l
<1>1. call[r] \in Call /\ wall \in Int /\ Done \in Call /\ Done.pc = "done"
  BY CallTypes DEF TypeOK
<1>2. CASE l = "done"
  BY <1>1, <1>2 DEF Landed
<1>3. CASE l # "done"
  <2>1. /\ [call[r] EXCEPT !.pc = l, !.anchor = wall] \in Call
        /\ [call[r] EXCEPT !.pc = l, !.anchor = wall].pc = l
        /\ [call[r] EXCEPT !.pc = l] \in Call /\ [call[r] EXCEPT !.pc = l].pc = l
    BY <1>1 DEF Call
  <2>2. \/ Landed(r, l) = [call[r] EXCEPT !.pc = l, !.anchor = wall]
        \/ Landed(r, l) = [call[r] EXCEPT !.pc = l]
    BY <1>3 DEF Landed
  <2>3. QED BY <2>1, <2>2
<1>4. QED BY <1>2, <1>3

LEMMA AcquireKept ==
    ASSUME IInv, NEW r \in Reqs, NEW e, Acquire(r, e)
    PROVE  Kept
<1>1. PICK s1 \in Refreshes(Home[r]) : \E x \in Polls(s1, r) :
          /\ Commit(e, x.s)
          /\ call' = [call EXCEPT ![r] = Landed(r, IF e = "ok" THEN x.to ELSE "dropping")]
          /\ held' = IF e = "ok" /\ x.to = "granted" /\ x.s.probe = r THEN held \union {r} ELSE held
  BY DEF Acquire
<1>2. PICK x \in Polls(s1, r) :
          /\ Commit(e, x.s)
          /\ call' = [call EXCEPT ![r] = Landed(r, IF e = "ok" THEN x.to ELSE "dropping")]
          /\ held' = IF e = "ok" /\ x.to = "granted" /\ x.s.probe = r THEN held \union {r} ELSE held
  BY <1>1
<1>3. /\ TypeOK /\ Sound(st) /\ call \in [Reqs -> Call] /\ held \subseteq Reqs
      /\ call[r].pc \in {"idle", "new", "waiting"}
      /\ UNCHANGED <<wall, mono, boot, up>> /\ leaked' \subseteq Reqs
  BY HealTypes DEF IInv, Acquire, Acquiring, Clocks, TypeOK
<1>4. Sound(s1) /\ Carries(st, s1)
  BY <1>3, RefreshSound DEF IInv
<1> DEFINE b == x.s
           l == IF e = "ok" THEN x.to ELSE "dropping"
           c == Landed(r, l)
<1>5. /\ Sound(b)
      /\ \/ x.to \in {"done", "dropping", "waiting"} /\ SameBreaker(s1, b)
         \/ /\ x.to = "granted"
            /\ b.total = s1.total + 1 /\ b.epoch = s1.epoch /\ b.level = s1.level
            /\ s1.probe = NoReq /\ b.probe \in {r, NoReq}
            /\ b.grants[r].outcome = "issued"
            /\ b.grants[r].probe => b.probe = r
            /\ b.grants[r].owner = Home[r]
            /\ \A q \in Reqs \ {r} : b.grants[q] = s1.grants[q]
  BY <1>3, <1>4, PollsSound
<1>6. c \in Call /\ c.pc = l
  BY <1>3, <1>5, LandedTypes
<1>7. /\ Commit(e, b) /\ call' = [call EXCEPT ![r] = c]
      /\ held' = IF e = "ok" /\ x.to = "granted" /\ b.probe = r THEN held \union {r} ELSE held
  BY <1>2
<1>8. l = IF e = "ok" THEN x.to ELSE "dropping"
  OBVIOUS
<1>9. st.grants[r].outcome = "absent" /\ st.probe # r
  BY <1>3, FreshHasNoSlot
<1> HIDE DEF b, c, l
<1>10. Transaction(r, e, s1, b) /\ OwnCall(r, s1, b)
  <2>1. CASE x.to # "granted"
    BY <1>3, <1>4, <1>5, <1>6, <1>7, <1>8, <2>1, QuietTransaction
  <2>2. CASE x.to = "granted"
    <3>1. call'[r] = c /\ \A q \in Reqs \ {r} : call'[q] = call[q]
      BY <1>3, <1>7
    <3>2. Transaction(r, e, s1, b)
      BY <1>3, <1>4, <1>5, <1>7, <2>2, <3>1 DEF Transaction
    <3>3. b \in State /\ s1 \in State /\ st \in State
      BY <1>3, <1>4, <1>5 DEF Sound
    <3>4. b.total # st.total
      BY <1>4, <1>5, <2>2, <3>3, StateFields DEF Carries, Count
    <3>5. st' \in {st, b} /\ (e = "ok" => st' = b)
      BY <1>3, <1>7, <3>3, <3>4, CommitWrites
    <3>6. ASSUME c.pc \in {"granted", "prepared"}, st'.grants[r].probe
          PROVE  st'.probe = r /\ r \in held'
      <4>1. e = "ok"
        BY <1>6, <1>8, <3>6
      <4>2. QED BY <1>5, <1>7, <2>2, <3>5, <3>6, <4>1
    <3>7. ASSUME st'.probe = r PROVE st'.grants[r].owner # Past
      BY <1>5, <1>9, <2>2, <3>5, <3>7, Constants
    <3>8. c.pc \notin {"idle", "new", "waiting"}
      BY <1>6, <1>8, <2>2
    <3>9. OwnCall(r, s1, b)
      BY <1>9, <3>1, <3>6, <3>7, <3>8 DEF OwnCall
    <3>10. QED BY <3>2, <3>9
  <2>3. QED BY <2>1, <2>2
<1>11. call' \in [Reqs -> Call] /\ held' \subseteq Reqs
  BY <1>3, <1>6, <1>7
<1>12. QED BY <1>3, <1>10, <1>11, TransactionKept

LEMMA WitnessFailsKept ==
    ASSUME IInv, NEW r \in Reqs, NEW e, WitnessFails(r, e)
    PROVE  Kept
<1> DEFINE c == [call[r] EXCEPT !.pc = "dropping"]
<1>1. PICK s1 \in Refreshes(Home[r]) : Commit(e, Demand(s1, r))
  BY DEF WitnessFails
<1>2. /\ TypeOK /\ Sound(st) /\ call \in [Reqs -> Call] /\ held \subseteq Reqs
      /\ call[r].pc \in {"idle", "new", "waiting"}
      /\ UNCHANGED <<wall, mono, boot, up>> /\ held' = held /\ leaked' \subseteq Reqs
  BY HealTypes DEF IInv, WitnessFails, Acquiring, Clocks, TypeOK
<1>3. Sound(s1) /\ Carries(st, s1)
  BY <1>2, RefreshSound DEF IInv
<1>4. Sound(Demand(s1, r)) /\ SameBreaker(s1, Demand(s1, r))
  BY <1>2, <1>3, DemandSound
<1>5. call' = [call EXCEPT ![r] = c]
  BY DEF WitnessFails
<1>6. c \in Call /\ c.pc = "dropping"
  BY <1>2 DEF Call
<1> HIDE DEF c
<1>7. Transaction(r, e, s1, Demand(s1, r)) /\ OwnCall(r, s1, Demand(s1, r))
  BY <1>1, <1>2, <1>3, <1>4, <1>5, <1>6, QuietTransaction
<1>8. call' \in [Reqs -> Call] /\ held' \subseteq Reqs
  BY <1>2, <1>5, <1>6
<1>9. QED BY <1>2, <1>7, <1>8, TransactionKept

(* Dropping the demand at the deadline, or after a failed acquire.         *)
LEMMA DropKept ==
    ASSUME IInv, NEW r \in Reqs, NEW e, AcquireSkipped(r, e) \/ DropDemand(r, e)
    PROVE  Kept
<1>1. PICK s1 \in Refreshes(Home[r]) : Commit(e, Drop(s1, r))
  BY DEF AcquireSkipped, DropDemand
<1>2. /\ TypeOK /\ Sound(st) /\ call \in [Reqs -> Call] /\ held \subseteq Reqs
      /\ call[r].pc \in {"new", "waiting", "dropping"}
      /\ UNCHANGED <<wall, mono, boot, up>> /\ held' = held /\ leaked' \subseteq Reqs
  BY HealTypes DEF IInv, AcquireSkipped, DropDemand, Acquiring, Clocks, TypeOK
<1>3. Sound(s1) /\ Carries(st, s1)
  BY <1>2, RefreshSound DEF IInv
<1>4. Sound(Drop(s1, r)) /\ SameBreaker(s1, Drop(s1, r))
  BY <1>3, DropSound
<1>5. PICK c \in {Done, Retry(r, 2)} : call' = [call EXCEPT ![r] = c]
  BY DEF AcquireSkipped, DropDemand
<1>6. c \in Call /\ c.pc \in {call[r].pc, "done"} /\ c # call[r]
  BY <1>2, CallTypes
<1>7. c.pc \notin {"granted", "prepared"}
  BY <1>2, <1>6
<1>8. Transaction(r, e, s1, Drop(s1, r)) /\ OwnCall(r, s1, Drop(s1, r))
  BY <1>1, <1>2, <1>3, <1>4, <1>5, <1>6, <1>7, QuietTransaction
<1>9. call' \in [Reqs -> Call] /\ held' \subseteq Reqs
  BY <1>2, <1>5, <1>6
<1>10. QED BY <1>2, <1>8, <1>9, TransactionKept

LEMMA PrepareSendKept ==
    ASSUME IInv, NEW r \in Reqs, NEW e, PrepareSend(r, e)
    PROVE  Kept
<1> DEFINE issued(s) == s.grants[r].outcome = "issued"
           body(s) == IF issued(s) /\ ~Fenced(s, r) THEN Marked(s, r)
                      ELSE IF issued(s) THEN Revoke(s, r) ELSE s
           p == [call[r] EXCEPT !.pc = "prepared"]
           n == [call[r] EXCEPT !.pc = "recording", !.result = "REVOKED"]
<1>1. PICK s1 \in Refreshes(Home[r]) :
          /\ Commit(e, body(s1))
          /\ call' = IF (issued(s1) /\ ~Fenced(s1, r)) /\ e = "ok"
                     THEN [call EXCEPT ![r].pc = "prepared"] ELSE ToRecord(r, "REVOKED")
  BY DEF PrepareSend
<1>2. /\ TypeOK /\ Sound(st) /\ call \in [Reqs -> Call] /\ held \subseteq Reqs
      /\ call[r].pc = "granted"
      /\ UNCHANGED <<wall, mono, boot, up>> /\ held' = held /\ leaked' \subseteq Reqs
  BY HealTypes DEF IInv, PrepareSend, Clocks, TypeOK
<1>3. Sound(s1) /\ Carries(st, s1) /\ Carried(st, s1, r)
  BY <1>2, RefreshSound DEF IInv, Carries
<1>4. /\ p \in Call /\ p.pc = "prepared" /\ n \in Call /\ n.pc = "recording"
  BY <1>2 DEF Call, Outcomes
<1>5. call' = IF (issued(s1) /\ ~Fenced(s1, r)) /\ e = "ok"
              THEN [call EXCEPT ![r] = p] ELSE [call EXCEPT ![r] = n]
  BY <1>1, <1>2 DEF ToRecord
<1> DEFINE b == body(s1)
           c == IF (issued(s1) /\ ~Fenced(s1, r)) /\ e = "ok" THEN p ELSE n
<1>6. c \in {p, n} /\ (c.pc = "prepared" => issued(s1) /\ ~Fenced(s1, r))
  BY <1>4
<1>7. Commit(e, b) /\ call' = [call EXCEPT ![r] = c]
  BY <1>1, <1>5
<1>8. /\ issued(s1) /\ ~Fenced(s1, r) => b = Marked(s1, r)
      /\ issued(s1) /\ Fenced(s1, r) => b = Revoke(s1, r)
      /\ ~issued(s1) => b = s1
  OBVIOUS
<1>9. c \in Call /\ c.pc \in {"prepared", "recording"} /\ c # call[r]
  BY <1>2, <1>4, <1>6
<1> HIDE DEF b, c, p, n, body
<1>10. call'[r] = c /\ \A q \in Reqs \ {r} : call'[q] = call[q]
  BY <1>2, <1>7
<1>11. ASSUME st.grants[r].probe PROVE st.probe = r /\ r \in held
  BY <1>2, <1>11 DEF IInv, HolderHasSlot
<1>12. ASSUME st.probe = r, r \in held PROVE st.grants[r].owner # Past
  BY <1>12 DEF IInv, HeldIsOfThisBoot
<1>13. Transaction(r, e, s1, b) /\ OwnCall(r, s1, b)
  <2>1. CASE issued(s1) /\ ~Fenced(s1, r)
    <3>1. /\ Sound(b) /\ b.total = s1.total /\ b.epoch = s1.epoch /\ b.level = s1.level
          /\ b.probe = s1.probe
          /\ b.grants[r].outcome = s1.grants[r].outcome /\ b.grants[r].probe = s1.grants[r].probe
          /\ b.grants[r].owner = s1.grants[r].owner
          /\ \A q \in Reqs \ {r} : b.grants[q] = s1.grants[q]
      BY <1>3, <1>8, <2>1, MarkedSound
    <3>2. Transaction(r, e, s1, b)
      BY <1>2, <1>3, <1>7, <1>10, <3>1 DEF Transaction
    <3>3. st' \in {st, b}
      BY <1>2, <1>7, <3>1, CommitWrites DEF Sound
    <3>4. s1.grants[r] = st.grants[r]
      BY <1>2, <1>3, <2>1, CarriedIssued
    <3>5. ASSUME st'.grants[r].probe PROVE st'.probe = r /\ r \in held'
      <4>1. st.probe = r /\ r \in held
        BY <1>11, <3>1, <3>3, <3>4, <3>5
      <4>2. s1.probe = r
        BY <1>3, <4>1 DEF Carries
      <4>3. QED BY <1>2, <3>1, <3>3, <4>1, <4>2
    <3>6. ASSUME st'.probe = r, r \in held' PROVE st'.grants[r].owner # Past
      <4>1. CASE st' = st
        BY <1>2, <1>12, <3>6, <4>1
      <4>2. CASE st' = b
        BY <1>2, <1>3, <3>1, <3>6, <4>2, SlotCarried
      <4>3. QED BY <3>3, <4>1, <4>2
    <3>7. OwnCall(r, s1, b)
      BY <1>9, <1>10, <3>1, <3>5, <3>6 DEF OwnCall
    <3>8. QED BY <3>2, <3>7
  <2>2. CASE issued(s1) /\ Fenced(s1, r)
    <3>1. /\ Sound(b) /\ b.total = s1.total /\ b.epoch = s1.epoch /\ b.level = s1.level
          /\ b.probe = s1.probe /\ s1.probe # r
          /\ b.grants[r].outcome = "REVOKED"
          /\ \A q \in Reqs \ {r} : b.grants[q] = s1.grants[q]
      BY <1>3, <1>8, <2>2, RevokeSound
    <3>2. Transaction(r, e, s1, b)
      BY <1>2, <1>3, <1>7, <1>10, <3>1 DEF Transaction
    <3>3. st' \in {st, b}
      BY <1>2, <1>7, <3>1, CommitWrites DEF Sound
    <3>4. c.pc = "recording" /\ "REVOKED" \in Terminal
      BY <1>6, <1>9, <2>2 DEF Terminal, Outcomes
    <3>5. ASSUME st'.probe = r, r \in held' PROVE st'.grants[r].owner # Past
      BY <1>2, <1>12, <3>1, <3>3, <3>5
    <3>6. OwnCall(r, s1, b)
      BY <1>9, <1>10, <2>2, <3>1, <3>4, <3>5 DEF OwnCall
    <3>7. QED BY <3>2, <3>6
  <2>3. CASE ~issued(s1)
    <3>1. b = s1 /\ SameBreaker(s1, b) /\ Sound(b)
      BY <1>3, <1>8, <2>3 DEF SameBreaker
    <3>2. c.pc = "recording"
      BY <1>6, <1>9, <2>3
    <3>3. QED BY <1>2, <1>3, <1>7, <1>9, <3>1, <3>2, QuietTransaction
  <2>4. QED BY <2>1, <2>2, <2>3
<1>14. call' \in [Reqs -> Call] /\ held' \subseteq Reqs
  BY <1>2, <1>7, <1>9
<1>15. QED BY <1>2, <1>13, <1>14, TransactionKept

LEMMA RecordResultKept ==
    ASSUME IInv, NEW r \in Reqs, NEW e, RecordResult(r, e)
    PROVE  Kept
<1> DEFINE c == IF e = "ok" THEN Done ELSE Retry(r, RecordAttempts)
<1>1. PICK s1 \in Refreshes(Home[r]) :
          Commit(e, ApplyResult(s1, r)) /\ held' = held \ Released(s1, r, e)
  BY DEF RecordResult
<1>2. /\ TypeOK /\ Sound(st) /\ call \in [Reqs -> Call] /\ held \subseteq Reqs
      /\ call[r].pc = "recording" /\ call' = [call EXCEPT ![r] = c]
      /\ UNCHANGED <<wall, mono, boot, up>> /\ leaked' \subseteq Reqs
  BY HealTypes DEF IInv, RecordResult, Clocks, TypeOK
<1>3. Sound(s1) /\ Carries(st, s1)
  BY <1>2, RefreshSound DEF IInv
<1>4. c \in Call /\ c.pc \in {"recording", "done"} /\ c # call[r]
  BY <1>2, CallTypes, LimiterAssumption
<1> DEFINE b == ApplyResult(s1, r)
<1>5. /\ Sound(b) /\ b.total = s1.total
      /\ \A q \in Reqs \ {r} : b.grants[q] = s1.grants[q]
      /\ s1.grants[r].outcome # "issued" => b.grants[r] = s1.grants[r]
      /\ s1.grants[r].outcome = "issued" => b.grants[r].outcome \in Terminal
      /\ \/ /\ b.epoch = s1.epoch /\ b.level \in {s1.level, 0}
            /\ b.probe = s1.probe \/ (s1.probe = r /\ b.probe = NoReq)
         \/ /\ b.epoch = s1.epoch + 1 /\ b.level <= s1.level + 1
            /\ b.probe = NoReq /\ s1.probe \in {r, NoReq}
            /\ s1.grants[r].outcome = "issued" /\ s1.grants[r].epoch = s1.epoch
            /\ call[r].result = "RATE_LIMIT"
  BY <1>2, <1>3, ApplyResultSound
<1>6. Commit(e, b)
  BY <1>1
<1> HIDE DEF b, c
<1>7. call'[r] = c /\ \A q \in Reqs \ {r} : call'[q] = call[q]
  BY <1>2
<1>8. ASSUME NEW q \in Reqs \ {r}, q \in held, s1.probe = q
      PROVE  q \in held'
  <2>1. s1.grants[r].outcome = "issued" /\ Current(s1, r) => s1.probe = r
    <3>1. s1.mode # "CLOSED"
      BY <1>3, <1>8, ProbeRecord, Constants
    <3>2. QED BY <1>3, <3>1 DEF Current, Sound, Fencing
  <2>2. q \notin Released(s1, r, e)
    BY <1>8, <2>1 DEF Released, ReleasedInside
  <2>3. QED BY <1>1, <1>8, <2>2
<1>9. Transaction(r, e, s1, b)
  BY <1>1, <1>2, <1>3, <1>5, <1>6, <1>7, <1>8 DEF Transaction
<1>10. st' \in {st, b}
  BY <1>2, <1>5, <1>6, CommitWrites DEF Sound
<1>11. ASSUME st'.probe = r, r \in held' PROVE st'.grants[r].owner # Past
  <2>1. r \in held
    BY <1>1, <1>11
  <2>2. CASE st' = st
    BY <1>11, <2>1, <2>2 DEF IInv, HeldIsOfThisBoot
  <2>3. CASE st' = b
    <3>1. s1.probe = r /\ b.probe = r
      BY <1>5, <1>11, <2>3, Constants
    <3>2. s1.grants[r].outcome = "issued" /\ b.grants[r].outcome = "issued"
      BY <1>3, <1>5, <3>1, ProbeRecord, Constants
    <3>3. QED BY <1>5, <3>2 DEF Terminal, Outcomes
  <2>4. QED BY <1>10, <2>2, <2>3
<1>12. OwnCall(r, s1, b)
  BY <1>4, <1>5, <1>7, <1>11 DEF OwnCall
<1>13. call' \in [Reqs -> Call] /\ held' \subseteq Reqs
  BY <1>1, <1>2, <1>4
<1>14. QED BY <1>2, <1>9, <1>12, <1>13, TransactionKept

LEMMA MaintainKept ==
    ASSUME IInv, NEW p, NEW e, Maintain(p, e)
    PROVE  Kept
<1>1. PICK s1 \in Refreshes(p) : Commit(e, s1)
  BY DEF Maintain
<1>2. /\ TypeOK /\ Sound(st) /\ call' \in [Reqs -> Call] /\ held' \subseteq Reqs
      /\ UNCHANGED <<wall, mono, boot, up, call, held>> /\ leaked' \subseteq Reqs
  BY HealTypes DEF IInv, Maintain, Clocks, TypeOK
<1>3. Sound(s1) /\ Carries(st, s1)
  BY <1>2, RefreshSound DEF IInv
<1>4. Transaction(NoReq, e, s1, s1)
  BY <1>1, <1>2, <1>3 DEF Transaction
<1>5. QED BY <1>2, <1>4, TransactionKept, Constants

-----------------------------------------------------------------------------
(* Crashes, reboots, and the steps that do not touch the file.             *)

LEMMA OrphanedSound ==
    ASSUME NEW s, Sound(s), NEW P, NEW mark \in Owners, NEW t, t = Orphaned(s, P, mark)
    PROVE  /\ Sound(t) /\ t.epoch = s.epoch /\ t.level = s.level /\ t.probe = s.probe
           /\ t.total = s.total /\ t.mode = s.mode /\ t.refill = s.refill
           /\ t.until = s.until /\ t.lastWall = s.lastWall /\ t.lastMono = s.lastMono
           /\ t.boot = s.boot /\ t.streak = s.streak
           /\ \A r \in Reqs : /\ t.grants[r].outcome = s.grants[r].outcome
                              /\ t.grants[r].epoch = s.grants[r].epoch
                              /\ t.grants[r].probe = s.grants[r].probe
                              /\ t.grants[r].owner \in {s.grants[r].owner, mark}
<1> DEFINE f == [r \in Reqs |-> [s.grants[r] EXCEPT !.owner = IF s.grants[r].owner \in P THEN mark
                                                              ELSE s.grants[r].owner]]
           h == [r \in Reqs |-> [s.pending[r] EXCEPT !.owner = IF s.pending[r].owner \in P THEN mark
                                                               ELSE s.pending[r].owner]]
           u == [s EXCEPT !.grants = f, !.pending = h]
<1>1. t = u
  BY DEF Orphaned
<1>2. s \in State /\ s.grants \in [Reqs -> GrantRecord] /\ s.pending \in [Reqs -> PendingRecord]
  BY StateFields DEF Sound, Registry, Demands
<1>3. \A r \in Reqs :
          /\ f[r] \in GrantRecord
          /\ f[r].outcome = s.grants[r].outcome /\ f[r].epoch = s.grants[r].epoch
          /\ f[r].probe = s.grants[r].probe /\ f[r].owner \in {s.grants[r].owner, mark}
  <2> SUFFICES ASSUME NEW r \in Reqs
               PROVE  /\ f[r] \in GrantRecord
                      /\ f[r].outcome = s.grants[r].outcome /\ f[r].epoch = s.grants[r].epoch
                      /\ f[r].probe = s.grants[r].probe /\ f[r].owner \in {s.grants[r].owner, mark}
    OBVIOUS
  <2> DEFINE o == IF s.grants[r].owner \in P THEN mark ELSE s.grants[r].owner
  <2>1. s.grants[r] \in GrantRecord /\ f[r] = [s.grants[r] EXCEPT !.owner = o]
    BY <1>2
  <2>2. o \in Owners /\ o \in {s.grants[r].owner, mark}
    BY <2>1 DEF GrantRecord
  <2> HIDE DEF o, f
  <2>3. QED BY <2>1, <2>2 DEF GrantRecord
<1>4. \A r \in Reqs : h[r] \in PendingRecord
  <2> SUFFICES ASSUME NEW r \in Reqs PROVE h[r] \in PendingRecord
    OBVIOUS
  <2> DEFINE o == IF s.pending[r].owner \in P THEN mark ELSE s.pending[r].owner
  <2>1. s.pending[r] \in PendingRecord /\ h[r] = [s.pending[r] EXCEPT !.owner = o]
    BY <1>2
  <2>2. o \in Owners
    BY <2>1 DEF PendingRecord
  <2> HIDE DEF o, h
  <2>3. QED BY <2>1, <2>2 DEF PendingRecord
<1>5. f \in Registry /\ h \in Demands
  BY <1>3, <1>4 DEF Registry, Demands
<1> HIDE DEF f, h
<1>6. /\ u \in State /\ u.tokens = s.tokens /\ u.refill = s.refill /\ u.total = s.total
      /\ u.epoch = s.epoch /\ u.mode = s.mode /\ u.level = s.level /\ u.probe = s.probe
      /\ u.until = s.until /\ u.lastWall = s.lastWall /\ u.lastMono = s.lastMono
      /\ u.boot = s.boot /\ u.streak = s.streak /\ u.grants = f
  BY <1>2, <1>5, StateShape
<1> HIDE DEF u
<1>7. Balanced(u) /\ Fencing(u)
  BY <1>3, <1>6 DEF Sound, Balanced, Fencing
<1>8. SlotSound(u)
  <2>1. s.probe # NoReq => s.probe \in Reqs
    BY ProbeRecord
  <2>2. QED BY <1>3, <1>6, <2>1 DEF Sound, SlotSound
<1>9. QED BY <1>1, <1>3, <1>6, <1>7, <1>8 DEF Sound

LEMMA EndedTypes ==
    ASSUME TypeOK, NEW P
    PROVE  /\ Ended(P) \in [Reqs -> Call]
           /\ \A r \in Reqs : \/ Ended(P)[r] = call[r] /\ (Home[r] \in P => call[r].pc = "idle")
                              \/ Ended(P)[r] = Done
BY CallTypes DEF Ended, TypeOK

(* A crash or a reboot changes the owners and ends the requests.           *)
LEMMA EndingKept ==
    ASSUME IInv, NEW P, NEW mark \in {Gone, Past}, NEW Q,
           st' = Orphaned(st, Q, mark), call' = Ended(P),
           held' = {r \in held : Home[r] \notin P},
           mark = Past => held' = {},
           up' \subseteq Procs, leaked' \subseteq Reqs, mishaps' \in Nat, boot' \in Nat,
           UNCHANGED <<wall, mono, openedAt>>
    PROVE  Kept
<1>1. TypeOK /\ Sound(st)
  BY DEF IInv
<1>2. mark \in Owners
  BY DEF Owners
<1>3. /\ Sound(st') /\ st'.epoch = st.epoch /\ st'.level = st.level /\ st'.probe = st.probe
      /\ \A r \in Reqs : /\ st'.grants[r].outcome = st.grants[r].outcome
                         /\ st'.grants[r].probe = st.grants[r].probe
                         /\ st'.grants[r].owner \in {st.grants[r].owner, mark}
  BY <1>1, <1>2, OrphanedSound
<1>4. /\ call' \in [Reqs -> Call]
      /\ \A r \in Reqs : \/ call'[r] = call[r] /\ (Home[r] \in P => call[r].pc = "idle")
                         \/ call'[r].pc = "done"
  BY <1>1, EndedTypes, CallTypes
<1>5. TypeOK'
  BY <1>1, <1>3, <1>4 DEF TypeOK, Sound
<1>6. HolderHasSlot'
  BY <1>3, <1>4 DEF IInv, HolderHasSlot
<1>7. HeldIsOfThisBoot'
  <2> SUFFICES ASSUME st'.probe \in held' PROVE st'.grants[st'.probe].owner # Past
    BY DEF HeldIsOfThisBoot
  <2>1. st.probe \in held /\ st.probe \in Reqs /\ mark = Gone
    BY <1>1, <1>3 DEF TypeOK
  <2>2. st.grants[st.probe].owner # Past
    BY <2>1 DEF IInv, HeldIsOfThisBoot
  <2>3. QED BY <1>3, <2>1, <2>2, Constants
<1>8. FreshIsAbsent'
  BY <1>3, <1>4 DEF IInv, FreshIsAbsent
<1>9. st.level \in Nat
  BY <1>1, StateFields DEF Sound, Count
<1>10. StepSafe
  <2>1. "absent" \notin Terminal
    BY DEF Terminal, Outcomes
  <2>2. QED BY <1>3, <1>9, <2>1 DEF StepSafe, KeepsSlot, Escalation, VerdictStays, Issued
<1>11. QED BY <1>3, <1>5, <1>6, <1>7, <1>8, <1>10 DEF Kept, IInv

LEMMA CrashKept ==
    ASSUME IInv, NEW p \in Procs, Crash(p)
    PROVE  Kept
<1>1. TypeOK
  BY DEF IInv
<1>2. /\ st' = Orphaned(st, {p}, Gone) /\ call' = Ended({p})
      /\ held' = {r \in held : Home[r] \notin {p}}
      /\ up' \subseteq Procs /\ leaked' \subseteq Reqs /\ mishaps' \in Nat /\ boot' \in Nat
      /\ UNCHANGED <<wall, mono, openedAt>>
  BY <1>1 DEF Crash, Mishap, Clocks, TypeOK
<1>3. QED BY <1>2, EndingKept, Constants

LEMMA RebootKept ==
    ASSUME IInv, Reboot
    PROVE  Kept
<1>1. TypeOK
  BY DEF IInv
<1>2. /\ st' = Orphaned(st, Owners, Past) /\ call' = Ended(Procs)
      /\ held' = {}
      /\ up' \subseteq Procs /\ leaked' \subseteq Reqs /\ mishaps' \in Nat /\ boot' \in Nat
      /\ UNCHANGED <<wall, mono, openedAt>>
  BY <1>1 DEF Reboot, Mishap, TypeOK
<1>3. {r \in held : Home[r] \notin Procs} = {}
  BY <1>1, Constants DEF TypeOK
<1>4. QED BY <1>2, <1>3, EndingKept

(* A step of the caller alone: its request has no grant to use afterwards, *)
(* or had one before.                                                      *)
LEMMA CallerKept ==
    ASSUME IInv, NEW r \in Reqs, NEW c \in Call, call' = [call EXCEPT ![r] = c],
           c.pc \in {"idle", "new", "waiting"} => call[r].pc \in {"idle", "new", "waiting"},
           c.pc \notin {"granted", "prepared"},
           UNCHANGED <<st, wall, mono, boot, up, held, leaked, mishaps, openedAt>>
    PROVE  Kept
<1>1. TypeOK /\ call \in [Reqs -> Call]
  BY DEF IInv, TypeOK
<1>2. TypeOK'
  BY <1>1 DEF TypeOK
<1>3. call'[r] = c /\ \A q \in Reqs \ {r} : call'[q] = call[q]
  BY <1>1
<1>4. Sound(st)'
  BY DEF IInv
<1>5. HolderHasSlot' /\ HeldIsOfThisBoot' /\ FreshIsAbsent'
  BY <1>3 DEF IInv, HolderHasSlot, HeldIsOfThisBoot, FreshIsAbsent
<1>6. st.level \in Nat
  BY StateFields DEF IInv, Sound, Count
<1>7. StepSafe
  <2>1. "absent" \notin Terminal
    BY DEF Terminal, Outcomes
  <2>2. QED BY <1>6, <2>1 DEF StepSafe, KeepsSlot, Escalation, VerdictStays, Issued
<1>8. QED BY <1>2, <1>4, <1>5, <1>7 DEF Kept, IInv

LEMMA LocalKept ==
    ASSUME IInv, NEW r \in Reqs,
           \/ Arrive(r) \/ NotSent(r) \/ Abandon(r)
           \/ \E o \in {"OK", "RATE_LIMIT", "ERROR"} : HttpAttempt(r, o)
    PROVE  Kept
<1>1. call \in [Reqs -> Call] /\ call[r] \in Call /\ mono \in Nat
  BY DEF IInv, TypeOK
<1>2. CASE Arrive(r)
  <2> DEFINE c == [call[r] EXCEPT !.pc = "new", !.deadline = mono + MaxWait]
           until == mono + MaxWait
  <2>1. until \in Nat /\ call[r].pc = "idle"
    <3>1. MaxWait \in Nat
      BY LimiterAssumption
    <3>2. QED BY <1>1, <1>2, <3>1 DEF Arrive
  <2>2. call' = [call EXCEPT ![r] = c]
    BY <1>1, <1>2 DEF Arrive
  <2>3. c \in Call /\ c.pc = "new"
    <3>1. c = [call[r] EXCEPT !.pc = "new", !.deadline = until]
      OBVIOUS
    <3> HIDE DEF until, c
    <3>2. QED BY <1>1, <2>1, <3>1 DEF Call
  <2>4. UNCHANGED <<st, wall, mono, boot, up, held, leaked, mishaps, openedAt>>
    BY <1>2 DEF Arrive, Clocks
  <2> HIDE DEF c
  <2>5. QED BY <2>1, <2>2, <2>3, <2>4, CallerKept
<1>3. CASE NotSent(r) \/ \E o \in {"OK", "RATE_LIMIT", "ERROR"} : HttpAttempt(r, o)
  <2>1. PICK o \in Outcomes : call' = ToRecord(r, o)
    BY <1>3 DEF NotSent, HttpAttempt, Outcomes
  <2> DEFINE c == [call[r] EXCEPT !.pc = "recording", !.result = o]
  <2>2. c \in Call /\ c.pc = "recording"
    BY <1>1 DEF Call
  <2>3. call' = [call EXCEPT ![r] = c]
    BY <1>1, <2>1 DEF ToRecord
  <2>4. UNCHANGED <<st, wall, mono, boot, up, held, leaked, mishaps, openedAt>>
    BY <1>3 DEF NotSent, HttpAttempt, Local, Clocks
  <2> HIDE DEF c
  <2>5. QED BY <2>2, <2>3, <2>4, CallerKept
<1>4. CASE Abandon(r)
  <2>1. Done \in Call /\ Done.pc = "done"
    BY CallTypes DEF IInv
  <2>2. /\ call' = [call EXCEPT ![r] = Done]
        /\ UNCHANGED <<st, wall, mono, boot, up, held, leaked, mishaps, openedAt>>
    BY <1>4 DEF Abandon, Local, Clocks
  <2>3. QED BY <2>1, <2>2, CallerKept
<1>5. QED BY <1>2, <1>3, <1>4

(* Clocks and restarts.                                                    *)
LEMMA IdleKept ==
    ASSUME IInv, st' = st, call' = call, held' = held, leaked' = leaked, boot' = boot,
           openedAt' = openedAt, wall' \in Int, mono' \in Nat, up' \subseteq Procs, mishaps' \in Nat
    PROVE  Kept
<1>1. TypeOK'
  BY DEF IInv, TypeOK
<1>2. IInv'
  BY <1>1 DEF IInv, HolderHasSlot, HeldIsOfThisBoot, FreshIsAbsent
<1>3. st.level \in Nat
  BY StateFields DEF IInv, Sound, Count
<1>4. StepSafe
  <2>1. "absent" \notin Terminal
    BY DEF Terminal, Outcomes
  <2>2. QED BY <1>3, <2>1 DEF StepSafe, KeepsSlot, Escalation, VerdictStays, Issued
<1>5. QED BY <1>2, <1>4 DEF Kept

LEMMA StepKept ==
    ASSUME IInv, [Next]_vars
    PROVE  Kept
<1>1. TypeOK
  BY DEF IInv
<1>2. ASSUME NEW r \in Reqs, Step(r) PROVE Kept
  BY <1>2, AcquireKept, WitnessFailsKept, DropKept, PrepareSendKept, RecordResultKept, LocalKept
     DEF Step
<1>3. ASSUME NEW p \in Procs, Crash(p) PROVE Kept
  BY <1>3, CrashKept
<1>4. ASSUME NEW p \in Procs, NEW e, Maintain(p, e) PROVE Kept
  BY <1>4, MaintainKept
<1>5. CASE \/ \E p \in Procs : Restart(p)
           \/ \E d \in Jumps : Jump(d)
           \/ Tick \/ UNCHANGED vars
  <2>1. /\ st' = st /\ call' = call /\ held' = held /\ leaked' = leaked /\ boot' = boot
        /\ openedAt' = openedAt
    BY <1>5 DEF Restart, Tick, Jump, Clocks, vars
  <2> DEFINE typed == wall' \in Int /\ mono' \in Nat /\ up' \subseteq Procs /\ mishaps' \in Nat
  <2>2. typed
    <3>1. wall \in Int /\ mono \in Nat /\ up \subseteq Procs /\ mishaps \in Nat
      BY <1>1 DEF TypeOK
    <3>2. CASE Tick \/ UNCHANGED vars
      BY <3>1, <3>2 DEF Tick, vars
    <3>3. CASE \E p \in Procs : Restart(p)
      BY <3>1, <3>3 DEF Restart, Clocks
    <3>4. CASE \E d \in Jumps : Jump(d)
      BY <3>1, <3>4, LimiterAssumption DEF Jump, Mishap
    <3>5. QED BY <1>5, <3>2, <3>3, <3>4
  <2>3. QED BY <2>1, <2>2, IdleKept
<1>6. CASE Reboot
  BY <1>6, RebootKept
<1>7. CASE Next
  BY <1>2, <1>3, <1>4, <1>5, <1>6, <1>7 DEF Next
<1>8. QED BY <1>5, <1>7

-----------------------------------------------------------------------------
(* The theorems.                                                           *)

LEMMA InitHolds == Init => IInv
<1> SUFFICES ASSUME Init PROVE IInv
  OBVIOUS
<1>1. NoGrant \in GrantRecord /\ NoPending \in PendingRecord /\ Burst \in Nat
  BY Constants DEF Count
<1>2. st \in State /\ st.grants = [r \in Reqs |-> NoGrant] /\ st.probe = NoReq
      /\ st.tokens = Burst /\ st.refill = 0 /\ st.total = 0
  BY <1>1 DEF Init, DefaultState, State
<1>3. NoGrant.outcome = "absent" /\ NoCall \in Call /\ NoCall.pc = "idle"
  BY DEF NoGrant, NoCall, Call, Outcomes
<1>4. Sound(st)
  BY <1>1, <1>2, <1>3 DEF Sound, Balanced, Fencing, SlotSound
<1>5. TypeOK
  BY <1>2, <1>3 DEF Init, TypeOK
<1>6. HolderHasSlot /\ HeldIsOfThisBoot /\ FreshIsAbsent
  BY <1>2, <1>3 DEF Init, HolderHasSlot, HeldIsOfThisBoot, FreshIsAbsent
<1>7. QED BY <1>4, <1>5, <1>6 DEF IInv

LEMMA NextHolds == IInv /\ [Next]_vars => IInv'
BY StepKept DEF Kept

(* The invariant, in every reachable state: whatever order the processes'  *)
(* transactions, crashes, reboots, lost writes and clock steps come in.    *)
THEOREM Invariance == Spec => []IInv
BY InitHolds, NextHolds, PTL DEF Spec

LEMMA InvariantIsSafe == IInv => BreakerSafe
<1> SUFFICES ASSUME IInv PROVE BreakerSafe
  OBVIOUS
<1>1. TypeOK /\ Sound(st)
  BY DEF IInv
<1>2. Accounting
  BY <1>1, StateFields, Constants DEF Sound, Balanced, Accounting, Count
<1>3. OneProbe
  <2> SUFFICES ASSUME NEW r \in Reqs, st.grants[r].outcome = "issued",
                      st.grants[r].epoch = st.epoch, st.mode # "CLOSED"
               PROVE  st.mode = "RECOVERY" /\ st.probe = r
    BY DEF OneProbe, Issued
  <2>1. st.probe = r
    BY <1>1 DEF Sound, Fencing
  <2>2. QED BY <1>1, <2>1, ProbeRecord, Constants
<1>4. OneProbeInFlight
  BY DEF IInv, HolderHasSlot, OneProbeInFlight
<1>5. QED BY <1>1, <1>2, <1>3, <1>4 DEF BreakerSafe

(* The buckets and grants always add up, and at most one recovery probe is *)
(* out, in the registry and between prepare_send and its result.           *)
THEOREM BreakerSafety == Spec => []BreakerSafe
BY Invariance, InvariantIsSafe, PTL

(* Every step keeps a live probe's slot, raises the ladder only on a rate  *)
(* limit of the current epoch, once, and never rewrites a verdict.         *)
THEOREM StepSafety == Spec => BreakerStepsSafe
<1>1. IInv /\ [Next]_vars => [KeepsSlot]_vars
  BY StepKept DEF Kept, StepSafe
<1>2. IInv /\ [Next]_vars => [Escalation]_vars
  BY StepKept DEF Kept, StepSafe
<1>3. IInv /\ [Next]_vars => [VerdictStays]_vars
  BY StepKept DEF Kept, StepSafe
<1>4. Spec => []IInv
  BY Invariance
<1>5. Spec => [][KeepsSlot]_vars /\ [][Escalation]_vars /\ [][VerdictStays]_vars
  BY <1>1, <1>2, <1>3, <1>4, PTL DEF Spec
<1>6. [][KeepsSlot]_vars => HeldProbeKeepsSlot
  BY PTL DEF HeldProbeKeepsSlot, KeepsSlot
<1>7. [][Escalation]_vars => EscalatesOnce
  BY PTL DEF EscalatesOnce, Escalation
<1>8. [][VerdictStays]_vars => TerminalOnce
  BY PTL DEF TerminalOnce, VerdictStays
<1>9. QED BY <1>5, <1>6, <1>7, <1>8 DEF BreakerStepsSafe

-----------------------------------------------------------------------------
(***************************************************************************)
(* Real time.  A step of the wall clock smaller than clock_step_cap_s      *)
(* cannot be told from elapsed time, so what follows is about clocks whose *)
(* steps are detectable: K holds the skews that a sum of steps may leave,  *)
(* and none but 0 is within the tolerance.                                 *)
(***************************************************************************)
Detectable(K) ==
    /\ K \subseteq Int /\ 0 \in K
    /\ \A k \in K : k = 0 \/ k > StepCap \/ k < -StepCap
    /\ \A k \in K, d \in Jumps : k + d \in K

(* The baseline of the clocks and what has been credited so far.           *)
ClockFrame(s, t) ==
    t.refill = s.refill /\ t.lastWall = s.lastWall /\ t.lastMono = s.lastMono /\ t.boot = s.boot

(* Also the cooldown.                                                      *)
OpenFrame(s, t) ==
    /\ ClockFrame(s, t)
    /\ t.mode = s.mode /\ t.level = s.level /\ t.until = s.until /\ t.epoch = s.epoch

LEMMA UpdateFrames ==
    ASSUME NEW s \in State, NEW f
    PROVE  /\ OpenFrame(s, s)
           /\ OpenFrame(s, [s EXCEPT !.pending = f])
           /\ OpenFrame(s, [s EXCEPT !.grants = f])
           /\ OpenFrame(s, [s EXCEPT !.stalled = f])
           /\ OpenFrame(s, [s EXCEPT !.marker = f])
           /\ OpenFrame(s, FreeProbe(s))
BY StateShape DEF OpenFrame, ClockFrame, FreeProbe

LEMMA FrameTransitive ==
    ASSUME NEW s, NEW t, NEW u
    PROVE  /\ OpenFrame(s, t) /\ OpenFrame(t, u) => OpenFrame(s, u)
           /\ ClockFrame(s, t) /\ ClockFrame(t, u) => ClockFrame(s, u)
           /\ OpenFrame(s, t) => ClockFrame(s, t)
BY DEF OpenFrame, ClockFrame

LEMMA StageFrames ==
    ASSUME NEW s \in State
    PROVE  /\ \A p : OpenFrame(s, SelfHeal(s, p))
           /\ \A D : OpenFrame(s, PrunePending(s, D))
           /\ \A D : OpenFrame(s, ReconcileGrants(s, D))
           /\ OpenFrame(s, Evict(s))
           /\ \A r : OpenFrame(s, Drop(s, r))
           /\ \A r, o : OpenFrame(s, WithVerdict(s, r, o))
<1>1. \A p : OpenFrame(s, SelfHeal(s, p))
  BY UpdateFrames DEF SelfHeal
<1>2. \A D : OpenFrame(s, PrunePending(s, D))
  BY UpdateFrames DEF PrunePending
<1>3. \A D : OpenFrame(s, ReconcileGrants(s, D))
  BY UpdateFrames DEF ReconcileGrants
<1>4. OpenFrame(s, Evict(s))
  BY UpdateFrames DEF Evict
<1>5. \A r : OpenFrame(s, Drop(s, r))
  BY UpdateFrames DEF Drop
<1>6. \A r, o : OpenFrame(s, WithVerdict(s, r, o))
  BY UpdateFrames DEF WithVerdict
<1>7. QED BY <1>1, <1>2, <1>3, <1>4, <1>5, <1>6

LEMMA BodyFrames ==
    ASSUME TypeOK, NEW s, Sound(s), NEW r \in Reqs
    PROVE  /\ OpenFrame(s, Demand(s, r)) /\ OpenFrame(s, Marked(s, r))
           /\ OpenFrame(s, Revoke(s, r)) /\ OpenFrame(s, Granted(s, r))
<1>1. s \in State
  BY DEF Sound
<1>2. OpenFrame(s, Demand(s, r))
  BY <1>1, UpdateFrames DEF Demand
<1>3. OpenFrame(s, Revoke(s, r))
  BY <1>1, UpdateFrames DEF Revoke
<1>4. OpenFrame(s, Marked(s, r))
  <2> DEFINE g == [s.grants[r] EXCEPT !.sent = TRUE]
             t == WithGrant(s, r, g)
             u == [t EXCEPT !.marker = TRUE]
  <2>1. s.grants[r] \in GrantRecord
    BY <1>1, StateFields DEF Registry
  <2>2. g \in GrantRecord
    BY <2>1 DEF GrantRecord
  <2>3. Marked(s, r) = IF s.grants[r].probe THEN u ELSE t
    BY DEF Marked, WithGrant
  <2> HIDE DEF g
  <2>4. t \in State
    BY <1>1, <2>2, GrantUpdate
  <2>5. OpenFrame(s, t)
    BY <1>1, UpdateFrames DEF WithGrant
  <2> HIDE DEF t
  <2>6. OpenFrame(t, u)
    BY <2>4, UpdateFrames
  <2> HIDE DEF u
  <2>7. QED BY <2>3, <2>5, <2>6, FrameTransitive
<1>5. OpenFrame(s, Granted(s, r))
  <2> DEFINE d == Drop(s, r)
             g == [outcome |-> "issued", epoch |-> s.epoch, probe |-> s.mode = "RECOVERY",
                   owner |-> Home[r], sent |-> FALSE, at |-> wall]
             use == [d.usage EXCEPT ![Prio[r]] = d.usage[Prio[r]] + 1]
             f == [d.grants EXCEPT ![r] = g]
             t == [d EXCEPT !.tokens = d.tokens - 1, !.total = d.total + 1,
                            !.usage = use, !.grants = f]
             u == [t EXCEPT !.probe = r, !.marker = FALSE, !.stalled = FALSE]
  <2>1. Granted(s, r) = IF s.mode = "RECOVERY" THEN u ELSE t
    BY DEF Granted
  <2>2. d \in State /\ OpenFrame(s, d)
    BY <1>1, DropSound, StageFrames DEF Sound
  <2> HIDE DEF d, f, use
  <2>3. OpenFrame(d, t)
    BY <2>2, StateShape DEF OpenFrame, ClockFrame
  <2>4. OpenFrame(d, u)
    BY <2>2, StateShape DEF OpenFrame, ClockFrame
  <2> HIDE DEF t, u
  <2>5. QED BY <2>1, <2>2, <2>3, <2>4, FrameTransitive
<1>6. QED BY <1>2, <1>3, <1>4, <1>5

(* A trip of the breaker.                                                  *)
TripFrame(s, t) ==
    /\ ClockFrame(s, t)
    /\ t.mode = "OPEN" /\ t.epoch = s.epoch + 1 /\ t.until = wall + CooldownFor(t.level)

LEMMA ApplyOpenFrame ==
    ASSUME NEW s \in State, NEW bump
    PROVE  TripFrame(s, ApplyOpen(s, bump))
<1> DEFINE l == IF bump THEN Smaller(s.level + 1, Len(Cooldowns)) ELSE s.level
           till == wall + CooldownFor(l)
           zero == [c \in Classes |-> 0]
           u == [s EXCEPT !.level = l, !.mode = "OPEN", !.until = till,
                          !.epoch = s.epoch + 1, !.start = wall, !.usage = zero,
                          !.streak = 0, !.probe = NoReq, !.marker = FALSE, !.stalled = FALSE]
<1>1. ApplyOpen(s, bump) = u
  BY DEF ApplyOpen
<1>2. till = wall + CooldownFor(l)
  OBVIOUS
<1> HIDE DEF l, till, zero
<1>3. /\ u.refill = s.refill /\ u.lastWall = s.lastWall /\ u.lastMono = s.lastMono
      /\ u.boot = s.boot /\ u.mode = "OPEN" /\ u.epoch = s.epoch + 1 /\ u.until = till
      /\ u.level = l
  BY StateShape
<1> HIDE DEF u
<1>4. QED BY <1>1, <1>2, <1>3 DEF TripFrame, ClockFrame

LEMMA ResolveProbeFrame ==
    ASSUME TypeOK, NEW s, Sound(s), NEW free
    PROVE  LET t == ResolveProbe(s, free)
           IN OpenFrame(s, t) \/ (TripFrame(s, t) /\ s.probe # NoReq)
<1> DEFINE t == ResolveProbe(s, free)
           q == s.probe
           g == [s.grants[q] EXCEPT !.outcome = IF s.marker THEN "UNKNOWN" ELSE "NOT_SENT"]
           c == WithGrant(s, q, g)
           h == FreeProbe(c)
<1>1. s \in State
  BY DEF Sound
<1>2. CASE s.probe = NoReq
  BY <1>1, <1>2, UpdateFrames DEF ResolveProbe
<1>3. CASE s.probe # NoReq /\ t # ResolveDeadProbe(s)
  BY <1>1, <1>3, UpdateFrames DEF ResolveProbe
<1>4. CASE s.probe # NoReq /\ t = ResolveDeadProbe(s)
  <2>1. q \in Reqs /\ s.grants[q] \in GrantRecord /\ s.grants[q].outcome = "issued"
    BY <1>4, ProbeRecord
  <2>2. [s EXCEPT !.grants[s.probe].outcome =
            IF @ # "issued" THEN @ ELSE IF s.marker THEN "UNKNOWN" ELSE "NOT_SENT"] = c
    BY <2>1 DEF WithGrant
  <2>3. t = IF s.marker THEN ApplyOpen(h, FALSE) ELSE h
    BY <1>4, <2>2 DEF ResolveDeadProbe
  <2>4. g \in GrantRecord
    <3>1. (IF s.marker THEN "UNKNOWN" ELSE "NOT_SENT") \in Terminal
      BY DEF Terminal, Outcomes
    <3>2. QED BY <2>1, <3>1, VerdictRecord
  <2>5. OpenFrame(s, c)
    BY <1>1, UpdateFrames DEF WithGrant
  <2> HIDE DEF g
  <2>6. c \in State
    BY <1>1, <2>1, <2>4, GrantUpdate
  <2> HIDE DEF c
  <2>7. h \in State /\ OpenFrame(c, h)
    BY <2>6, FreeProbeFields, UpdateFrames
  <2> HIDE DEF h, t
  <2>8. OpenFrame(s, h)
    BY <2>5, <2>7, FrameTransitive
  <2>9. TripFrame(h, ApplyOpen(h, FALSE))
    BY <2>7, ApplyOpenFrame
  <2>10. TripFrame(s, ApplyOpen(h, FALSE))
    BY <2>8, <2>9 DEF TripFrame, OpenFrame, ClockFrame
  <2>11. OpenFrame(s, t) \/ TripFrame(s, t)
    BY <2>3, <2>8, <2>10
  <2>12. QED BY <1>4, <2>11 DEF t
<1>5. QED BY <1>2, <1>3, <1>4

LEMMA ToRecoveryFrame ==
    ASSUME NEW s \in State
    PROVE  LET t == ToRecovery(s)
           IN \/ OpenFrame(s, t) /\ t = s
              \/ /\ ClockFrame(s, t) /\ s.mode = "OPEN" /\ wall >= s.until
                 /\ t.mode = "RECOVERY" /\ t.epoch = s.epoch /\ t.level = s.level
<1> DEFINE h == FreeProbe(s)
           u == [h EXCEPT !.mode = "RECOVERY", !.streak = 0]
<1>1. CASE ~(s.mode = "OPEN" /\ wall >= s.until)
  BY <1>1, UpdateFrames DEF ToRecovery
<1>2. CASE s.mode = "OPEN" /\ wall >= s.until
  <2>1. ToRecovery(s) = u
    BY <1>2 DEF ToRecovery
  <2>2. h \in State /\ OpenFrame(s, h)
    BY FreeProbeFields, UpdateFrames
  <2> HIDE DEF h
  <2>3. /\ u.refill = h.refill /\ u.lastWall = h.lastWall /\ u.lastMono = h.lastMono
        /\ u.boot = h.boot /\ u.mode = "RECOVERY" /\ u.epoch = h.epoch /\ u.level = h.level
    BY <2>2, StateShape
  <2> HIDE DEF u
  <2>4. QED BY <1>2, <2>1, <2>2, <2>3 DEF OpenFrame, ClockFrame
<1>3. QED BY <1>1, <1>2

(* A result changes the mode only as the slot's holder or while CLOSED.    *)
LEMMA ApplyResultFrame ==
    ASSUME TypeOK, NEW s, Sound(s), NEW r \in Reqs
    PROVE  LET t == ApplyResult(s, r)
           IN \/ OpenFrame(s, t)
              \/ TripFrame(s, t) /\ (s.mode = "CLOSED" \/ s.probe = r)
              \/ /\ ClockFrame(s, t) /\ s.mode = "RECOVERY" /\ s.probe = r
                 /\ t.mode = "CLOSED" /\ t.epoch = s.epoch
<1> DEFINE t == ApplyResult(s, r)
           o == call[r].result
           w == WithVerdict(s, r, o)
           h == FreeOwnProbe(w, r)
<1>1. s \in State
  BY DEF Sound
<1>2. CASE s.grants[r].outcome # "issued"
  BY <1>1, <1>2, UpdateFrames DEF ApplyResult
<1>3. CASE s.grants[r].outcome = "issued"
  <2>1. o \in Terminal
    BY DEF TypeOK, Call, Terminal
  <2>2. t = CASE o = "RATE_LIMIT" -> IF Current(s, r) THEN ApplyOpen(w, TRUE) ELSE w
              [] o = "OK" -> IF Current(s, r) THEN CountSuccess(h) ELSE w
              [] OTHER -> h
    BY <1>3 DEF ApplyResult, ApplyOutcome, WithVerdict
  <2> HIDE DEF o
  <2>3. w \in State /\ OpenFrame(s, w)
    BY <1>1, <2>1, OutcomeWritten, StageFrames
  <2> HIDE DEF w
  <2>4. h \in State /\ OpenFrame(w, h)
    BY <2>3, FreeProbeFields, UpdateFrames DEF FreeOwnProbe
  <2> HIDE DEF h, t
  <2>5. OpenFrame(s, h)
    BY <2>3, <2>4, FrameTransitive
  <2>6. Current(s, r) => s.mode = "CLOSED" \/ s.probe = r
    BY <1>3 DEF Current, Sound, Fencing
  <2>7. TripFrame(s, ApplyOpen(w, TRUE))
    BY <2>3, ApplyOpenFrame DEF TripFrame, OpenFrame, ClockFrame
  <2>8. \/ OpenFrame(h, CountSuccess(h))
        \/ /\ ClockFrame(h, CountSuccess(h)) /\ h.mode = "RECOVERY"
           /\ CountSuccess(h).mode = "CLOSED" /\ CountSuccess(h).epoch = h.epoch
    <3> DEFINE more == h.streak + 1
               u == [h EXCEPT !.mode = "CLOSED", !.level = 0, !.streak = 0]
               v == [h EXCEPT !.streak = more]
    <3>1. CountSuccess(h) = IF h.mode = "RECOVERY" /\ h.streak + 1 >= Target THEN u ELSE v
      BY DEF CountSuccess
    <3> HIDE DEF more
    <3>2. /\ ClockFrame(h, u) /\ u.mode = "CLOSED" /\ u.epoch = h.epoch
          /\ OpenFrame(h, v)
      BY <2>4, StateShape DEF OpenFrame, ClockFrame
    <3> HIDE DEF u, v
    <3>3. QED BY <3>1, <3>2
  <2>9. CASE o = "OK" /\ Current(s, r)
    <3>1. t = CountSuccess(h)
      BY <2>2, <2>9
    <3>2. CASE OpenFrame(h, t)
      BY <2>5, <3>2, FrameTransitive DEF t
    <3>3. CASE ClockFrame(h, t) /\ h.mode = "RECOVERY" /\ t.mode = "CLOSED" /\ t.epoch = h.epoch
      BY <2>5, <2>6, <2>9, <3>3 DEF t, OpenFrame, ClockFrame
    <3>4. QED BY <2>8, <3>1, <3>2, <3>3
  <2>10. CASE o = "RATE_LIMIT" /\ Current(s, r)
    <3>1. t = ApplyOpen(w, TRUE)
      BY <2>2, <2>10
    <3>2. QED BY <2>6, <2>7, <2>10, <3>1 DEF t
  <2>11. CASE ~(o \in {"OK", "RATE_LIMIT"} /\ Current(s, r))
    <3>1. t = w \/ t = h
      BY <2>2, <2>11
    <3>2. QED BY <2>3, <2>5, <3>1 DEF t
  <2>12. QED BY <2>9, <2>10, <2>11
<1>4. QED BY <1>2, <1>3

(* The credit of the file does not outrun the monotonic clock, and the     *)
(* baseline's skew is one a sum of clock steps leaves.                     *)
ClockInv(K) ==
    /\ st.refill <= Rate * st.lastMono
    /\ 0 <= st.lastMono /\ st.lastMono <= mono
    /\ st.boot <= boot
    /\ st.boot = boot => (wall - st.lastWall) - (mono - st.lastMono) \in K
    /\ openedAt <= mono

(* The cooldown of an OPEN breaker, counted from its trip at time trip.    *)
Cooling(s, trip) ==
    s.mode = "OPEN" => s.until + s.lastMono - s.lastWall >= CooldownFor(s.level) + trip

CoolInv == st.boot = boot /\ Cooling(st, openedAt)

(* When the state that a transaction makes of the file was tripped last.   *)
TrippedAt(s) == IF s.epoch # st.epoch THEN mono ELSE openedAt

(* A state refreshed now.                                                  *)
Fresh(s) ==
    /\ s.refill <= Rate * mono
    /\ s.lastMono = mono /\ s.lastWall = wall /\ s.boot = boot

LEMMA RateLaw ==
    ASSUME NEW m \in Nat, NEW n \in Nat, m <= n
    PROVE  /\ Rate * m \in Nat /\ Rate * n \in Nat /\ Rate * m <= Rate * n
           /\ Rate * m + Rate * (n - m) = Rate * n
<1>1. Rate \in Nat
  BY LimiterAssumption
<1>2. PICK k \in Nat : n = m + k
  <2>1. n - m \in Nat /\ n = m + (n - m)
    OBVIOUS
  <2>2. QED BY <2>1
<1>3. Rate * (m + k) = Rate * m + Rate * k /\ Rate * m \in Nat /\ Rate * k \in Nat
  BY <1>1
<1>4. n - m = k
  BY <1>2
<1>5. QED BY <1>2, <1>3, <1>4

LEMMA ApplyClockFresh ==
    ASSUME TypeOK, NEW K, Detectable(K), ClockInv(K), NEW s \in State, ClockFrame(st, s),
           NEW t, t = ApplyClock(s)
    PROVE  /\ Fresh(t) /\ t.mode = s.mode /\ t.level = s.level /\ t.epoch = s.epoch
           /\ \A trip \in Int : s.boot = boot /\ trip <= mono /\ Cooling(s, trip) => Cooling(t, trip)
<1> DEFINE step == ClockStep(s)
           gap == wall - s.lastWall
           skew == gap - (mono - s.lastMono)
           credit == IF step = "normal" /\ gap > 0
                     THEN Smaller(Rate * gap, Larger(0, Burst - s.tokens)) ELSE 0
           last == IF step = "normal" /\ gap <= 0 THEN s.lastWall ELSE wall
           till == IF step = "forward" /\ s.mode = "OPEN"
                   THEN Larger(s.until, wall + CooldownFor(s.level)) ELSE s.until
           u == [s EXCEPT !.tokens = s.tokens + credit, !.refill = s.refill + credit,
                          !.boot = boot, !.lastWall = last, !.lastMono = mono, !.until = till]
<1>1. t = u
  BY DEF ApplyClock
<1>2. Burst \in Nat /\ wall \in Int /\ mono \in Nat /\ boot \in Nat /\ StepCap \in Nat
  BY Constants, LimiterAssumption DEF TypeOK, Count
<1>3. /\ s.tokens \in Nat /\ s.refill \in Nat /\ s.level \in Nat /\ s.until \in Int
      /\ s.lastWall \in Int /\ s.lastMono \in Int /\ s.boot \in Nat
  BY StateFields DEF Count, Moment
<1>4. /\ s.refill <= Rate * s.lastMono /\ 0 <= s.lastMono /\ s.lastMono <= mono
      /\ s.boot = boot => skew \in K
  BY DEF ClockInv, ClockFrame
<1>5. /\ step = "reboot" <=> s.boot # boot
      /\ step = "forward" <=> s.boot = boot /\ skew > StepCap
      /\ step = "normal" <=> s.boot = boot /\ ~(skew > StepCap) /\ ~(skew < -StepCap)
  BY <1>2, <1>3 DEF ClockStep
<1>6. step = "normal" => skew = 0 /\ gap = mono - s.lastMono
  BY <1>2, <1>3, <1>4, <1>5 DEF Detectable
<1>7. s.lastMono \in Nat /\ Rate * s.lastMono \in Nat /\ Rate * mono \in Nat
      /\ Rate * s.lastMono <= Rate * mono
      /\ Rate * s.lastMono + Rate * (mono - s.lastMono) = Rate * mono
  BY <1>2, <1>3, <1>4, RateLaw
<1>8. credit \in Nat /\ s.refill + credit <= Rate * mono
  <2>1. CASE step = "normal" /\ gap > 0
    <3>1. Rate * gap \in Nat /\ Rate * gap = Rate * (mono - s.lastMono)
      BY <1>2, <1>3, <1>6, <2>1, CreditIsCount
    <3> DEFINE x == Rate * gap
               y == Larger(0, Burst - s.tokens)
    <3>2. x \in Nat /\ y \in Nat
      BY <1>2, <1>3, <3>1 DEF Larger
    <3>3. credit = Smaller(x, y)
      BY <2>1
    <3> HIDE DEF y
    <3>4. Rate * s.lastMono + x = Rate * mono
      BY <1>7, <3>1
    <3> HIDE DEF x, credit
    <3>5. credit \in Nat /\ credit <= x
      BY <3>2, <3>3 DEF Smaller
    <3>6. QED BY <1>3, <1>4, <1>7, <3>2, <3>4, <3>5
  <2>2. CASE ~(step = "normal" /\ gap > 0)
    <3>1. credit = 0
      BY <2>2
    <3> HIDE DEF credit
    <3>2. QED BY <1>3, <1>4, <1>7, <3>1
  <2>3. QED BY <2>1, <2>2
<1>9. last = wall
  <2>1. CASE step = "normal" /\ gap <= 0
    <3>1. s.lastMono <= mono /\ gap = mono - s.lastMono
      BY <1>4, <1>6, <2>1
    <3>2. gap = 0
      BY <1>2, <1>3, <2>1, <3>1
    <3>3. QED BY <1>2, <1>3, <2>1, <3>2
  <2>2. CASE ~(step = "normal" /\ gap <= 0)
    BY <2>2
  <2>3. QED BY <2>1, <2>2
<1>10. /\ step = "forward" /\ s.mode = "OPEN" => till >= wall + CooldownFor(s.level)
       /\ till >= s.until /\ till \in Int
  BY <1>2, <1>3, CooldownIsCount DEF Larger
<1> HIDE DEF step, gap, credit, last, till
<1>11. /\ u.refill = s.refill + credit /\ u.lastWall = last /\ u.lastMono = mono
       /\ u.boot = boot /\ u.until = till /\ u.mode = s.mode /\ u.level = s.level
       /\ u.epoch = s.epoch
  BY StateShape
<1> HIDE DEF u
<1>12. Fresh(t)
  BY <1>1, <1>8, <1>9, <1>11 DEF Fresh
<1>13. ASSUME s.boot = boot, NEW trip \in Int, trip <= mono, Cooling(s, trip)
       PROVE  Cooling(t, trip)
  <2> SUFFICES ASSUME s.mode = "OPEN"
               PROVE  till + mono - wall >= CooldownFor(s.level) + trip
    BY <1>1, <1>9, <1>11 DEF Cooling
  <2>1. s.until + s.lastMono - s.lastWall >= CooldownFor(s.level) + trip
    BY <1>13 DEF Cooling
  <2>2. CooldownFor(s.level) \in Nat
    BY <1>3, CooldownIsCount
  <2>3. CASE step = "forward"
    BY <1>2, <1>10, <1>13, <2>2, <2>3
  <2>4. CASE step # "forward"
    <3>1. skew <= 0
      BY <1>2, <1>3, <1>4, <1>5, <1>13, <2>4 DEF Detectable, gap
    <3>2. QED BY <1>2, <1>3, <1>10, <1>13, <2>1, <2>2, <3>1 DEF gap
  <2>5. QED BY <2>3, <2>4
<1>14. QED BY <1>1, <1>11, <1>12, <1>13

LEMMA CoolingFrame ==
    ASSUME NEW s, NEW t, OpenFrame(s, t)
    PROVE  /\ \A x : Cooling(s, x) => Cooling(t, x)
           /\ Fresh(s) => Fresh(t)
           /\ TrippedAt(t) = TrippedAt(s)
BY DEF OpenFrame, ClockFrame, Cooling, Fresh, TrippedAt

LEMMA TripCools ==
    ASSUME TypeOK, NEW s, Fresh(s), NEW t \in State, TripFrame(s, t)
    PROVE  Fresh(t) /\ Cooling(t, mono)
<1>1. t.lastMono = mono /\ t.lastWall = wall /\ Fresh(t)
  BY DEF Fresh, TripFrame, ClockFrame
<1>2. mono \in Nat /\ wall \in Int /\ CooldownFor(t.level) \in Nat
  BY StateFields, CooldownIsCount DEF TypeOK, Count
<1>3. t.until = wall + CooldownFor(t.level)
  BY DEF TripFrame
<1>4. QED BY <1>1, <1>2, <1>3 DEF Cooling

(* A refresh leaves the state fresh and its cooldown running; it lets an   *)
(* OPEN breaker into RECOVERY only when the cooldown is over.              *)
LEMMA RefreshClock ==
    ASSUME IInv, NEW K, Detectable(K), ClockInv(K), NEW p, NEW s1 \in Refreshes(p)
    PROVE  /\ Fresh(s1)
           /\ CoolInv => Cooling(s1, TrippedAt(s1))
           /\ CoolInv /\ st.mode = "OPEN" =>
                 /\ s1.probe = NoReq /\ s1.epoch = st.epoch
                 /\ \/ s1.mode = "OPEN"
                    \/ s1.mode = "RECOVERY" /\ mono - openedAt >= CooldownFor(st.level)
<1>1. PICK D \in SUBSET DeadOwned, free \in FreeVerdicts : s1 = Refresh(st, p, D, free)
  BY DEF Refreshes
<1>2. TypeOK /\ Sound(st) /\ st \in State /\ mono \in Nat /\ wall \in Int /\ openedAt \in Int
      /\ st.epoch \in Nat
  BY StateFields DEF IInv, TypeOK, Count
<1>3. openedAt <= mono
  BY DEF ClockInv
<1> DEFINE h == SelfHeal(st, p)
           k == ApplyClock(h)
           a == PrunePending(k, D)
           b == ResolveProbe(a, free)
           c == ToRecovery(b)
           d == ReconcileGrants(c, D)
<1>4. s1 = Evict(d)
  BY <1>1 DEF Refresh
<1>5. h \in State /\ Sound(h) /\ OpenFrame(st, h) /\ h.probe = st.probe
  BY <1>2, SelfHealSound, StageFrames DEF Sound, SameBreaker
<1> HIDE DEF h
<1>6. /\ k \in State /\ Sound(k) /\ k.probe = st.probe
      /\ Fresh(k) /\ k.mode = st.mode /\ k.level = st.level /\ k.epoch = st.epoch
      /\ CoolInv => Cooling(k, openedAt)
  <2>1. k \in State /\ Sound(k) /\ k.probe = h.probe
    BY <1>2, <1>5, ApplyClockSound DEF Sound, SameBreaker
  <2>2. /\ Fresh(k) /\ k.mode = h.mode /\ k.level = h.level /\ k.epoch = h.epoch
        /\ h.boot = boot /\ Cooling(h, openedAt) => Cooling(k, openedAt)
    BY <1>2, <1>3, <1>5, FrameTransitive, ApplyClockFresh
  <2>3. /\ h.mode = st.mode /\ h.level = st.level /\ h.epoch = st.epoch /\ h.boot = st.boot
        /\ Cooling(st, openedAt) => Cooling(h, openedAt)
    BY <1>5, CoolingFrame DEF OpenFrame, ClockFrame
  <2>4. QED BY <1>5, <2>1, <2>2, <2>3 DEF CoolInv
<1> HIDE DEF k
<1>7. /\ a \in State /\ Sound(a) /\ a.probe = st.probe
      /\ Fresh(a) /\ a.mode = st.mode /\ a.level = st.level /\ a.epoch = st.epoch
      /\ CoolInv => Cooling(a, openedAt)
  <2>1. a \in State /\ Sound(a) /\ a.probe = k.probe /\ OpenFrame(k, a)
    BY <1>6, PrunePendingSound, StageFrames DEF Sound, SameBreaker
  <2>2. QED BY <1>6, <2>1, CoolingFrame DEF OpenFrame
<1> HIDE DEF a
<1>8. /\ b \in State /\ Sound(b) /\ Fresh(b)
      /\ CoolInv => Cooling(b, TrippedAt(b))
      /\ st.mode = "OPEN" => /\ b.mode = "OPEN" /\ b.level = st.level /\ b.epoch = st.epoch
  <2>1. b \in State /\ Sound(b)
    BY <1>2, <1>7, ResolveProbeSound DEF Sound
  <2>2. OpenFrame(a, b) \/ (TripFrame(a, b) /\ a.probe # NoReq)
    BY <1>2, <1>7, ResolveProbeFrame
  <2>3. CASE OpenFrame(a, b)
    <3>1. Fresh(b) /\ (CoolInv => Cooling(b, openedAt))
      BY <1>7, <2>3, CoolingFrame
    <3>2. b.epoch = st.epoch /\ b.mode = st.mode /\ b.level = st.level
      BY <1>7, <2>3 DEF OpenFrame
    <3>3. QED BY <2>1, <3>1, <3>2 DEF TrippedAt
  <2>4. CASE TripFrame(a, b) /\ a.probe # NoReq
    <3>1. Fresh(b) /\ Cooling(b, mono)
      BY <1>2, <1>7, <2>1, <2>4, TripCools
    <3>2. b.epoch # st.epoch
      BY <1>2, <1>7, <2>4 DEF TripFrame
    <3>3. st.mode # "OPEN"
      BY <1>2, <1>7, <2>4 DEF Sound, SlotSound
    <3>4. QED BY <2>1, <3>1, <3>2, <3>3 DEF TrippedAt
  <2>5. QED BY <2>2, <2>3, <2>4
<1> HIDE DEF b
<1>9. /\ c \in State /\ Sound(c) /\ Fresh(c)
      /\ CoolInv => Cooling(c, TrippedAt(c))
      /\ CoolInv /\ st.mode = "OPEN" =>
            /\ c.epoch = st.epoch
            /\ \/ c.mode = "OPEN"
               \/ c.mode = "RECOVERY" /\ mono - openedAt >= CooldownFor(st.level)
  <2>1. c \in State /\ Sound(c)
    BY <1>8, ToRecoverySound DEF Sound
  <2>2. \/ OpenFrame(b, c) /\ c = b
        \/ /\ ClockFrame(b, c) /\ b.mode = "OPEN" /\ wall >= b.until
           /\ c.mode = "RECOVERY" /\ c.epoch = b.epoch /\ c.level = b.level
    BY <1>8, ToRecoveryFrame
  <2>3. CASE c = b
    BY <1>8, <2>3
  <2>4. CASE /\ ClockFrame(b, c) /\ b.mode = "OPEN" /\ wall >= b.until
             /\ c.mode = "RECOVERY" /\ c.epoch = b.epoch /\ c.level = b.level
    <3>1. Fresh(c) /\ Cooling(c, TrippedAt(c))
      BY <1>8, <2>4 DEF ClockFrame, Fresh, Cooling
    <3>2. ASSUME CoolInv, st.mode = "OPEN" PROVE mono - openedAt >= CooldownFor(st.level)
      <4>1. b.until + mono - wall >= CooldownFor(st.level) + openedAt
        BY <1>8, <2>4, <3>2 DEF Cooling, Fresh, TrippedAt
      <4>2. CooldownFor(st.level) \in Nat /\ b.until \in Int
        BY <1>2, <1>8, StateFields, CooldownIsCount DEF Count, Moment
      <4>3. QED BY <1>2, <2>4, <4>1, <4>2
    <3>3. QED BY <1>8, <2>1, <2>4, <3>1, <3>2
  <2>5. QED BY <2>2, <2>3, <2>4
<1> HIDE DEF c
<1>10. d \in State /\ OpenFrame(c, d)
  BY <1>9, ReconcileGrantsSound, StageFrames DEF Sound
<1> HIDE DEF d
<1>11. OpenFrame(c, s1)
  BY <1>4, <1>10, StageFrames, FrameTransitive
<1>12. Carries(st, s1)
  BY <1>2, RefreshSound DEF IInv
<1>13. Fresh(s1) /\ (CoolInv => Cooling(s1, TrippedAt(s1)))
  BY <1>9, <1>11, CoolingFrame
<1>14. ASSUME CoolInv, st.mode = "OPEN" PROVE s1.probe = NoReq
  BY <1>2, <1>12, <1>14 DEF Carries, Sound, SlotSound
<1>15. s1.mode = c.mode /\ s1.epoch = c.epoch
  BY <1>11 DEF OpenFrame
<1>16. QED BY <1>9, <1>13, <1>14, <1>15

(* What a body does to the clocks and the cooldown.                        *)
Body(s, b) ==
    \/ OpenFrame(s, b)
    \/ TripFrame(s, b) /\ (s.mode = "CLOSED" \/ s.probe # NoReq)
    \/ /\ ClockFrame(s, b) /\ s.mode = "RECOVERY" /\ s.probe # NoReq
       /\ b.mode = "CLOSED" /\ b.epoch = s.epoch

Writes ==
    /\ \E p : \E s1 \in Refreshes(p) : \E b \in State : \E e : Commit(e, b) /\ Body(s1, b)
    /\ wall' = wall /\ mono' = mono /\ boot' = boot

LEMMA PollsBody ==
    ASSUME TypeOK, NEW s, Sound(s), NEW r \in Reqs, NEW x \in Polls(s, r)
    PROVE  x.s \in State /\ Body(s, x.s)
<1> DEFINE d == Demand(s, r)
           To(y, l) == [s |-> y, to |-> l]
<1>1. x.s \in State /\ s \in State
  BY PollsSound DEF Sound
<1>2. d \in State /\ Sound(d) /\ OpenFrame(s, d)
  BY DemandSound, BodyFrames DEF Sound
<1>3. x \in {To(Drop(s, r), "done"), To(s, "dropping"), To(Drop(d, r), "done"),
             To(d, "waiting"), To(d, "dropping"), To(Granted(d, r), "granted")}
  BY DEF Polls
<1> HIDE DEF d
<1>4. x.s \in {Drop(s, r), s, Drop(d, r), d, Granted(d, r)}
  BY <1>3
<1>5. OpenFrame(s, Drop(s, r)) /\ OpenFrame(s, s)
  BY <1>1, StageFrames, UpdateFrames
<1>6. OpenFrame(d, Drop(d, r)) /\ OpenFrame(d, Granted(d, r))
  BY <1>2, StageFrames, BodyFrames
<1>7. OpenFrame(s, Drop(d, r)) /\ OpenFrame(s, Granted(d, r))
  BY <1>2, <1>6, FrameTransitive
<1>8. OpenFrame(s, x.s)
  BY <1>2, <1>4, <1>5, <1>7
<1>9. QED BY <1>1, <1>8 DEF Body

LEMMA StepWrites ==
    ASSUME IInv, NEW r \in Reqs, NEW e,
           \/ Acquire(r, e) \/ WitnessFails(r, e) \/ AcquireSkipped(r, e) \/ DropDemand(r, e)
           \/ PrepareSend(r, e) \/ RecordResult(r, e)
    PROVE  Writes
<1>1. TypeOK /\ Sound(st) /\ HeldIsOfThisBoot
  BY DEF IInv
<1>2. wall' = wall /\ mono' = mono /\ boot' = boot
  BY DEF Acquire, WitnessFails, AcquireSkipped, DropDemand, PrepareSend, RecordResult, Clocks
<1>3. ASSUME NEW p, NEW s1 \in Refreshes(p), NEW b \in State, Commit(e, b), Body(s1, b)
      PROVE  Writes
  BY <1>2, <1>3 DEF Writes
<1>4. ASSUME NEW s1 \in Refreshes(Home[r])
      PROVE  s1 \in State /\ Sound(s1)
  BY <1>1, <1>4, RefreshSound DEF Sound
<1>5. CASE Acquire(r, e)
  <2>1. PICK s1 \in Refreshes(Home[r]) : \E x \in Polls(s1, r) : Commit(e, x.s)
    BY <1>5 DEF Acquire
  <2>1a. PICK x \in Polls(s1, r) : Commit(e, x.s)
    BY <2>1
  <2>2. QED BY <1>1, <1>3, <1>4, <2>1a, PollsBody
<1>6. CASE WitnessFails(r, e)
  <2>1. PICK s1 \in Refreshes(Home[r]) : Commit(e, Demand(s1, r))
    BY <1>6 DEF WitnessFails
  <2>2. Demand(s1, r) \in State /\ OpenFrame(s1, Demand(s1, r))
    BY <1>1, <1>4, DemandSound, BodyFrames DEF Sound
  <2>3. QED BY <1>3, <2>1, <2>2 DEF Body
<1>7. CASE AcquireSkipped(r, e) \/ DropDemand(r, e)
  <2>1. PICK s1 \in Refreshes(Home[r]) : Commit(e, Drop(s1, r))
    BY <1>7 DEF AcquireSkipped, DropDemand
  <2>2. Drop(s1, r) \in State /\ OpenFrame(s1, Drop(s1, r))
    BY <1>4, DropSound, StageFrames DEF Sound
  <2>3. QED BY <1>3, <2>1, <2>2 DEF Body
<1>8. CASE PrepareSend(r, e)
  <2>1. PICK s1 \in Refreshes(Home[r]) :
            Commit(e, IF s1.grants[r].outcome = "issued" /\ ~Fenced(s1, r) THEN Marked(s1, r)
                      ELSE IF s1.grants[r].outcome = "issued" THEN Revoke(s1, r) ELSE s1)
    BY <1>8 DEF PrepareSend
  <2>2. /\ Marked(s1, r) \in State /\ OpenFrame(s1, Marked(s1, r))
        /\ OpenFrame(s1, Revoke(s1, r)) /\ OpenFrame(s1, s1)
    BY <1>1, <1>4, MarkedSound, BodyFrames, UpdateFrames DEF Sound
  <2>3. Fenced(s1, r) => Revoke(s1, r) \in State
    BY <1>4, RevokeSound DEF Sound
  <2> DEFINE b == IF s1.grants[r].outcome = "issued" /\ ~Fenced(s1, r) THEN Marked(s1, r)
                  ELSE IF s1.grants[r].outcome = "issued" THEN Revoke(s1, r) ELSE s1
  <2>4. b \in State /\ OpenFrame(s1, b) /\ Commit(e, b)
    BY <1>4, <2>1, <2>2, <2>3
  <2> HIDE DEF b
  <2>5. QED BY <1>3, <2>4 DEF Body
<1>9. CASE RecordResult(r, e)
  <2>1. PICK s1 \in Refreshes(Home[r]) : Commit(e, ApplyResult(s1, r))
    BY <1>9 DEF RecordResult
  <2> DEFINE b == ApplyResult(s1, r)
  <2>2. b \in State /\ Commit(e, b)
    BY <1>1, <1>4, <2>1, ApplyResultSound DEF Sound
  <2>3. \/ OpenFrame(s1, b)
        \/ TripFrame(s1, b) /\ (s1.mode = "CLOSED" \/ s1.probe = r)
        \/ /\ ClockFrame(s1, b) /\ s1.mode = "RECOVERY" /\ s1.probe = r
           /\ b.mode = "CLOSED" /\ b.epoch = s1.epoch
    BY <1>1, <1>4, ApplyResultFrame
  <2> HIDE DEF b
  <2>4. Body(s1, b)
    BY <2>3, Constants DEF Body
  <2>5. QED BY <1>3, <2>2, <2>4
<1>10. QED BY <1>5, <1>6, <1>7, <1>8, <1>9

LEMMA MaintainWrites ==
    ASSUME IInv, NEW p, NEW e, Maintain(p, e)
    PROVE  Writes
<1>1. PICK s1 \in Refreshes(p) : Commit(e, s1)
  BY DEF Maintain
<1>2. s1 \in State /\ OpenFrame(s1, s1)
  BY RefreshSound, UpdateFrames DEF IInv, Sound
<1>3. QED BY <1>1, <1>2 DEF Writes, Body, Maintain, Clocks

(* No step ends the cooldown early. *)
CooldownStep ==
    st.mode = "OPEN" /\ st'.mode # "OPEN"
        => st'.mode = "RECOVERY" /\ mono - openedAt >= CooldownFor(st.level)

LEMMA WritesTimely ==
    ASSUME IInv, NEW K, Detectable(K), ClockInv(K), Writes
    PROVE  ClockInv(K)' /\ (CoolInv => CoolInv' /\ CooldownStep)
<1>0. PICK p : \E s1 \in Refreshes(p) : \E b \in State : \E e : Commit(e, b) /\ Body(s1, b)
  BY DEF Writes
<1>1a. PICK s1 \in Refreshes(p) : \E b \in State : \E e : Commit(e, b) /\ Body(s1, b)
  BY <1>0
<1>1. PICK b \in State : \E e : Commit(e, b) /\ Body(s1, b)
  BY <1>1a
<1>2. wall' = wall /\ mono' = mono /\ boot' = boot
  BY DEF Writes
<1>3. /\ TypeOK /\ Sound(st) /\ mono \in Nat /\ wall \in Int /\ boot \in Nat /\ openedAt \in Int
      /\ st.epoch \in Nat /\ Rate \in Nat
  BY StateFields, LimiterAssumption DEF IInv, TypeOK, Count
<1>4. /\ Fresh(s1)
      /\ CoolInv => Cooling(s1, TrippedAt(s1))
      /\ CoolInv /\ st.mode = "OPEN" =>
            /\ s1.probe = NoReq /\ s1.epoch = st.epoch
            /\ \/ s1.mode = "OPEN"
               \/ s1.mode = "RECOVERY" /\ mono - openedAt >= CooldownFor(st.level)
  BY RefreshClock
<1>5. s1.epoch \in Nat /\ s1.epoch >= st.epoch
  <2>1. Carries(st, s1) /\ Sound(s1)
    BY RefreshSound DEF IInv
  <2>2. QED BY <1>3, <2>1, StateFields DEF Carries, Sound, Count
<1>6. /\ st' \in {st, b}
      /\ openedAt' = IF st'.epoch # st.epoch THEN mono ELSE openedAt
  BY <1>1, <1>3, CommitWrites
<1>7. ClockFrame(s1, b)
  BY <1>1 DEF Body, OpenFrame, TripFrame
<1>8. Fresh(b)
  BY <1>4, <1>7 DEF ClockFrame, Fresh
<1>9. ClockInv(K)'
  <2>1. CASE st' = st
    BY <1>2, <1>3, <1>6, <2>1 DEF ClockInv
  <2>2. CASE st' = b
    <3>1. openedAt' <= mono
      BY <1>3, <1>6 DEF ClockInv
    <3>2. (wall - wall) - (mono - mono) = 0
      BY <1>3
    <3>3. QED BY <1>2, <1>3, <1>8, <2>2, <3>1, <3>2 DEF ClockInv, Fresh, Detectable
  <2>3. QED BY <1>6, <2>1, <2>2
<1>10. ASSUME CoolInv PROVE Cooling(b, TrippedAt(b))
  <2>1. CASE OpenFrame(s1, b)
    BY <1>4, <1>10, <2>1, CoolingFrame
  <2>2. CASE TripFrame(s1, b)
    <3>1. Cooling(b, mono)
      BY <1>3, <1>4, <2>2, TripCools
    <3>2. b.epoch # st.epoch
      BY <1>3, <1>5, <2>2 DEF TripFrame
    <3>3. QED BY <3>1, <3>2 DEF TrippedAt
  <2>3. CASE b.mode = "CLOSED"
    BY <2>3 DEF Cooling
  <2>4. QED BY <1>1, <2>1, <2>2, <2>3 DEF Body
<1>11. ASSUME CoolInv PROVE CoolInv'
  <2>1. CASE st' = st
    BY <1>2, <1>6, <1>11, <2>1 DEF CoolInv, Cooling
  <2>2. CASE st' = b
    <3>1. openedAt' = TrippedAt(b)
      BY <1>6, <2>2 DEF TrippedAt
    <3>2. Cooling(b, openedAt')
      BY <1>10, <1>11, <3>1
    <3>3. QED BY <1>2, <1>8, <2>2, <3>2 DEF CoolInv, Cooling, Fresh
  <2>3. QED BY <1>6, <2>1, <2>2
<1>12. ASSUME CoolInv PROVE CooldownStep
  <2> SUFFICES ASSUME st.mode = "OPEN", st'.mode # "OPEN"
               PROVE  st'.mode = "RECOVERY" /\ mono - openedAt >= CooldownFor(st.level)
    BY DEF CooldownStep
  <2>1. st' = b
    BY <1>6
  <2>2. OpenFrame(s1, b)
    BY <1>1, <1>4, <1>12 DEF Body
  <2>3. QED BY <1>4, <1>12, <2>1, <2>2 DEF OpenFrame
<1>13. QED BY <1>9, <1>11, <1>12

(* The steps that commit no transaction: the file keeps its clocks, its    *)
(* mode and its cooldown.                                                  *)
Keeps == ClockFrame(st, st') /\ st'.mode = st.mode /\ st'.level = st.level
         /\ st'.until = st.until /\ openedAt' = openedAt

LEMMA KeepsTimely ==
    ASSUME TypeOK, NEW K, Detectable(K), ClockInv(K), Keeps,
           \/ wall' = wall /\ mono' = mono /\ boot' = boot
           \/ wall' = wall + 1 /\ mono' = mono + 1 /\ boot' = boot
           \/ mono' = mono /\ boot' = boot /\ \E d \in Jumps : wall' = wall + d
           \/ wall' = wall /\ mono' = mono /\ boot' = boot + 1 /\ "reboot" \in Mishaps
    PROVE  /\ ClockInv(K)'
           /\ CoolInv /\ "reboot" \notin Mishaps => CoolInv' /\ CooldownStep
<1>1. /\ wall \in Int /\ mono \in Nat /\ boot \in Nat /\ openedAt \in Int
      /\ st.lastWall \in Int /\ st.lastMono \in Int /\ st.boot \in Nat
      /\ Jumps \subseteq Int
  BY StateFields, LimiterAssumption DEF TypeOK, Count, Moment
<1>2. /\ st'.refill = st.refill /\ st'.lastWall = st.lastWall /\ st'.lastMono = st.lastMono
      /\ st'.boot = st.boot /\ openedAt' = openedAt
  BY DEF Keeps, ClockFrame
<1>3. /\ st.refill <= Rate * st.lastMono /\ 0 <= st.lastMono /\ st.lastMono <= mono
      /\ st.boot <= boot /\ openedAt <= mono
      /\ st.boot = boot => (wall - st.lastWall) - (mono - st.lastMono) \in K
  BY DEF ClockInv
<1>4. mono' \in Nat /\ mono <= mono' /\ boot' \in Nat /\ boot <= boot'
  BY <1>1
<1>5. ASSUME st.boot = boot'
      PROVE  (wall' - st.lastWall) - (mono' - st.lastMono) \in K
  <2>1. boot' = boot
    BY <1>1, <1>3, <1>5
  <2> DEFINE k == (wall - st.lastWall) - (mono - st.lastMono)
             x == (wall' - st.lastWall) - (mono' - st.lastMono)
  <2>2. k \in K
    BY <1>3, <1>5, <2>1
  <2>3. CASE wall' = wall /\ mono' = mono
    BY <2>2, <2>3
  <2>4. CASE wall' = wall + 1 /\ mono' = mono + 1
    <3>1. x = k
      BY <1>1, <2>4
    <3>2. QED BY <2>2, <3>1
  <2>5. CASE mono' = mono /\ \E d \in Jumps : wall' = wall + d
    <3>1. PICK d \in Jumps : wall' = wall + d
      BY <2>5
    <3>2. x = k + d
      BY <1>1, <2>5, <3>1
    <3>3. k + d \in K
      BY <2>2 DEF Detectable
    <3>4. QED BY <3>2, <3>3
  <2>6. CASE boot' = boot + 1
    BY <1>1, <2>1, <2>6
  <2>7. QED BY <2>3, <2>4, <2>5, <2>6
<1>6. ClockInv(K)'
  BY <1>1, <1>2, <1>3, <1>4, <1>5 DEF ClockInv
<1>7. ASSUME CoolInv, "reboot" \notin Mishaps PROVE CoolInv' /\ CooldownStep
  BY <1>2, <1>7 DEF CoolInv, Cooling, CooldownStep, Keeps
<1>8. QED BY <1>6, <1>7

Timely(K) ==
    /\ ClockInv(K)'
    /\ CoolInv /\ "reboot" \notin Mishaps => CoolInv' /\ CooldownStep

LEMMA NextTimely ==
    ASSUME IInv, [Next]_vars, NEW K, Detectable(K), ClockInv(K)
    PROVE  Timely(K)
<1>1. TypeOK
  BY DEF IInv
<1>2. CASE Writes
  BY <1>2, WritesTimely DEF Timely
<1>3. CASE Keeps /\ wall' = wall /\ mono' = mono /\ boot' = boot
  BY <1>1, <1>3, KeepsTimely DEF Timely
<1>4. CASE Keeps /\ wall' = wall + 1 /\ mono' = mono + 1 /\ boot' = boot
  BY <1>1, <1>4, KeepsTimely DEF Timely
<1>5. CASE Keeps /\ mono' = mono /\ boot' = boot /\ \E d \in Jumps : wall' = wall + d
  BY <1>1, <1>5, KeepsTimely DEF Timely
<1>6. CASE Keeps /\ wall' = wall /\ mono' = mono /\ boot' = boot + 1 /\ "reboot" \in Mishaps
  BY <1>1, <1>6, KeepsTimely DEF Timely
<1>7. ASSUME st' = st, openedAt' = openedAt PROVE Keeps
  BY <1>7 DEF Keeps, ClockFrame
<1>8. ASSUME NEW P, NEW mark \in Owners, st' = Orphaned(st, P, mark), openedAt' = openedAt
      PROVE  Keeps
  <2>1. Sound(st)
    BY DEF IInv
  <2> DEFINE t == Orphaned(st, P, mark)
  <2>2. /\ t.refill = st.refill /\ t.lastWall = st.lastWall /\ t.lastMono = st.lastMono
        /\ t.boot = st.boot /\ t.mode = st.mode /\ t.level = st.level /\ t.until = st.until
    BY <2>1, OrphanedSound
  <2> HIDE DEF t
  <2>3. st' = t
    BY <1>8 DEF t
  <2>4. QED BY <1>8, <2>2, <2>3 DEF Keeps, ClockFrame
<1>9. ASSUME NEW r \in Reqs, Step(r) PROVE Timely(K)
  <2>1. CASE \E e \in Endings :
                \/ Acquire(r, e) \/ WitnessFails(r, e) \/ AcquireSkipped(r, e) \/ DropDemand(r, e)
                \/ PrepareSend(r, e) \/ RecordResult(r, e)
    BY <1>2, <2>1, StepWrites DEF Timely
  <2>2. CASE Arrive(r) \/ NotSent(r) \/ Abandon(r)
             \/ \E o \in {"OK", "RATE_LIMIT", "ERROR"} : HttpAttempt(r, o)
    <3>1. st' = st /\ openedAt' = openedAt /\ wall' = wall /\ mono' = mono /\ boot' = boot
      BY <2>2 DEF Arrive, NotSent, Abandon, HttpAttempt, Local, Clocks
    <3>2. QED BY <1>3, <1>7, <3>1 DEF Timely
  <2>3. QED BY <1>9, <2>1, <2>2 DEF Step
<1>10. ASSUME NEW p \in Procs, Crash(p) PROVE Timely(K)
  <2>1. /\ st' = Orphaned(st, {p}, Gone) /\ openedAt' = openedAt
        /\ wall' = wall /\ mono' = mono /\ boot' = boot
    BY <1>10 DEF Crash, Clocks
  <2>2. Keeps
    BY <1>8, <2>1 DEF Owners
  <2>3. QED BY <1>3, <2>1, <2>2 DEF Timely
<1>11. ASSUME NEW p \in Procs, Restart(p) PROVE Timely(K)
  <2>1. st' = st /\ openedAt' = openedAt /\ wall' = wall /\ mono' = mono /\ boot' = boot
    BY <1>11 DEF Restart, Clocks
  <2>2. QED BY <1>3, <1>7, <2>1 DEF Timely
<1>12. ASSUME NEW p \in Procs, NEW e \in Endings, Maintain(p, e) PROVE Timely(K)
  BY <1>2, <1>12, MaintainWrites DEF Timely
<1>13. CASE Reboot
  <2>1. /\ st' = Orphaned(st, Owners, Past) /\ openedAt' = openedAt
        /\ wall' = wall /\ mono' = mono /\ boot' = boot + 1 /\ "reboot" \in Mishaps
    BY <1>13 DEF Reboot, Mishap
  <2>2. Keeps
    BY <1>8, <2>1 DEF Owners
  <2>3. QED BY <1>6, <2>1, <2>2 DEF Timely
<1>14. CASE Tick
  <2>1. st' = st /\ openedAt' = openedAt /\ wall' = wall + 1 /\ mono' = mono + 1 /\ boot' = boot
    BY <1>14 DEF Tick
  <2>2. QED BY <1>4, <1>7, <2>1 DEF Timely
<1>15. ASSUME NEW d \in Jumps, Jump(d) PROVE Timely(K)
  <2>1. st' = st /\ openedAt' = openedAt /\ wall' = wall + d /\ mono' = mono /\ boot' = boot
    BY <1>15 DEF Jump
  <2>2. QED BY <1>5, <1>7, <2>1 DEF Timely
<1>16. CASE UNCHANGED vars
  <2>1. st' = st /\ openedAt' = openedAt /\ wall' = wall /\ mono' = mono /\ boot' = boot
    BY <1>16 DEF vars
  <2>2. QED BY <1>3, <1>7, <2>1 DEF Timely
<1>17. CASE Next
  BY <1>9, <1>10, <1>11, <1>12, <1>13, <1>14, <1>15, <1>17 DEF Next
<1>18. QED BY <1>16, <1>17

LEMMA InitTimely ==
    ASSUME Init, NEW K, Detectable(K)
    PROVE  ClockInv(K) /\ CoolInv
<1>1. Burst \in Nat /\ Rate \in Nat
  BY LimiterAssumption
<1>2. /\ st.refill = 0 /\ st.lastMono = 0 /\ st.lastWall = 0 /\ st.boot = 0 /\ st.mode = "CLOSED"
      /\ wall = 0 /\ mono = 0 /\ boot = 0 /\ openedAt = 0
  BY DEF Init, DefaultState
<1>3. QED BY <1>1, <1>2 DEF ClockInv, CoolInv, Cooling, Detectable

LEMMA ClockInvBoundsRate ==
    ASSUME IInv, NEW K, ClockInv(K)
    PROVE  RateBound
<1>1. /\ st.tokens \in Nat /\ st.refill \in Nat /\ st.total \in Nat /\ st.lastMono \in Nat
      /\ mono \in Nat /\ Burst \in Nat
  BY StateFields, Constants DEF IInv, TypeOK, ClockInv, Count, Moment
<1>2. st.tokens = Burst + st.refill - st.total
  BY DEF IInv, Sound, Balanced
<1>3. /\ Rate * st.lastMono \in Nat /\ Rate * mono \in Nat /\ Rate * st.lastMono <= Rate * mono
  BY <1>1, RateLaw DEF ClockInv
<1>4. st.refill <= Rate * mono
  BY <1>1, <1>3 DEF ClockInv
<1>5. QED BY <1>1, <1>2, <1>3, <1>4 DEF RateBound

(* No crash, reboot, lost write or detectable clock step mints a token:    *)
(* the grants ever issued are at most the burst and what the real time     *)
(* that has passed refills.                                                *)
THEOREM RateBounded ==
    ASSUME NEW K, Detectable(K)
    PROVE  Spec => []RateBound
<1>1. Init => ClockInv(K)
  BY InitTimely
<1>2. IInv /\ ClockInv(K) /\ [Next]_vars => ClockInv(K)'
  BY NextTimely DEF Timely
<1>3. IInv /\ ClockInv(K) => RateBound
  BY ClockInvBoundsRate
<1> HIDE DEF ClockInv
<1>4. QED BY Invariance, <1>1, <1>2, <1>3, PTL DEF Spec

(* While the machine stays up, an OPEN breaker admits a probe only after   *)
(* its whole cooldown of monotonic time, also when detectable clock steps  *)
(* and lost writes fall inside it.                                         *)
THEOREM CooldownRespected ==
    ASSUME NEW K, Detectable(K), "reboot" \notin Mishaps
    PROVE  Spec => CooldownHonoured
<1>1. Init => ClockInv(K) /\ CoolInv
  BY InitTimely
<1>2. IInv /\ ClockInv(K) /\ CoolInv /\ [Next]_vars => ClockInv(K)' /\ CoolInv' /\ CooldownStep
  BY NextTimely DEF Timely
<1>3. IInv /\ ClockInv(K) /\ CoolInv /\ [Next]_vars => [CooldownStep]_vars
  BY <1>2
<1> HIDE DEF ClockInv, CoolInv
<1>4. Spec => [][CooldownStep]_vars
  BY Invariance, <1>1, <1>2, <1>3, PTL DEF Spec
<1>5. [][CooldownStep]_vars => CooldownHonoured
  BY PTL DEF CooldownHonoured, CooldownStep
<1>6. QED BY <1>4, <1>5
-----------------------------------------------------------------------------
(***************************************************************************)
(* Recovery.  The streak that closes the breaker is a counter of the file; *)
(* RecoveryEarned is about the records it stands for.  A refresh drops     *)
(* records past MaxLifetime without counting down, so what follows is      *)
(* about recoveries that do not outlast their records.                     *)
(***************************************************************************)

(* No success of the current recovery is past its lifetime.                *)
Young ==
    st.mode = "RECOVERY" =>
        \A r \in Reqs : st.grants[r].outcome = "OK" /\ st.grants[r].epoch = st.epoch
                           => ~(wall - st.grants[r].at >= MaxLifetime)

(* The records count what the streak says.                                 *)
Backed(s) == s.mode = "RECOVERY" => s.streak <= Cardinality(Successes(s))
TallyOf(s) == IsFiniteSet(Succeeded(s)) /\ Backed(s)

SameStreak(s, t) == t.mode = s.mode /\ t.epoch = s.epoch /\ t.streak = s.streak

(* A streak of a recovery is the one before, or begins; and only a success *)
(* closes the breaker.                                                     *)
Continues(s, t) ==
    /\ t.mode = "CLOSED" => s.mode = "CLOSED"
    /\ t.mode = "RECOVERY" =>
          t.streak = 0 \/ (s.mode = "RECOVERY" /\ t.epoch = s.epoch /\ t.streak = s.streak)

LEMMA StreakLaws ==
    ASSUME NEW s, NEW t, NEW u
    PROVE  /\ SameStreak(s, t) => Continues(s, t)
           /\ SameStreak(s, t) /\ SameStreak(t, u) => SameStreak(s, u)
           /\ Continues(s, t) /\ Continues(t, u) => Continues(s, u)
BY DEF SameStreak, Continues

LEMMA UpdateStreak ==
    ASSUME NEW s \in State, NEW f
    PROVE  /\ SameStreak(s, s)
           /\ SameStreak(s, [s EXCEPT !.pending = f])
           /\ SameStreak(s, [s EXCEPT !.grants = f])
           /\ SameStreak(s, [s EXCEPT !.stalled = f])
           /\ SameStreak(s, [s EXCEPT !.marker = f])
           /\ SameStreak(s, FreeProbe(s))
BY StateShape DEF SameStreak, FreeProbe

LEMMA StageStreak ==
    ASSUME NEW s \in State
    PROVE  /\ \A p : SameStreak(s, SelfHeal(s, p))
           /\ \A D : SameStreak(s, PrunePending(s, D))
           /\ \A D : SameStreak(s, ReconcileGrants(s, D))
           /\ SameStreak(s, Evict(s))
           /\ \A r : SameStreak(s, Drop(s, r))
           /\ \A r, o : SameStreak(s, WithVerdict(s, r, o))
           /\ SameStreak(s, ApplyClock(s))
<1>1. \A p : SameStreak(s, SelfHeal(s, p))
  BY UpdateStreak DEF SelfHeal
<1>2. \A D : SameStreak(s, PrunePending(s, D))
  BY UpdateStreak DEF PrunePending
<1>3. \A D : SameStreak(s, ReconcileGrants(s, D))
  BY UpdateStreak DEF ReconcileGrants
<1>4. SameStreak(s, Evict(s))
  BY UpdateStreak DEF Evict
<1>5. \A r : SameStreak(s, Drop(s, r))
  BY UpdateStreak DEF Drop
<1>6. \A r, o : SameStreak(s, WithVerdict(s, r, o))
  BY UpdateStreak DEF WithVerdict
<1>7. SameStreak(s, ApplyClock(s))
  <2>1. ASSUME NEW a, NEW b, NEW c, NEW d
        PROVE  SameStreak(s, [s EXCEPT !.tokens = a, !.refill = b, !.boot = boot,
                                       !.lastWall = c, !.lastMono = mono, !.until = d])
    BY StateShape DEF SameStreak
  <2>2. QED BY <2>1 DEF ApplyClock
<1>8. QED BY <1>1, <1>2, <1>3, <1>4, <1>5, <1>6, <1>7

(* A refresh may trip the breaker, or begin a recovery with no success.    *)
LEMMA ResolveProbeStreak ==
    ASSUME TypeOK, NEW s, Sound(s), NEW free
    PROVE  Continues(s, ResolveProbe(s, free))
<1> DEFINE t == ResolveProbe(s, free)
           q == s.probe
           g == [s.grants[q] EXCEPT !.outcome = IF s.marker THEN "UNKNOWN" ELSE "NOT_SENT"]
           c == WithGrant(s, q, g)
           h == FreeProbe(c)
<1>1. s \in State
  BY DEF Sound
<1>2. CASE s.probe = NoReq
  BY <1>1, <1>2, UpdateStreak, StreakLaws DEF ResolveProbe
<1>3. CASE s.probe # NoReq /\ t # ResolveDeadProbe(s)
  BY <1>1, <1>3, UpdateStreak, StreakLaws DEF ResolveProbe
<1>4. CASE s.probe # NoReq /\ t = ResolveDeadProbe(s)
  <2>1. q \in Reqs /\ s.grants[q] \in GrantRecord /\ s.grants[q].outcome = "issued"
    BY <1>4, ProbeRecord
  <2>2. [s EXCEPT !.grants[s.probe].outcome =
            IF @ # "issued" THEN @ ELSE IF s.marker THEN "UNKNOWN" ELSE "NOT_SENT"] = c
    BY <2>1 DEF WithGrant
  <2>3. t = IF s.marker THEN ApplyOpen(h, FALSE) ELSE h
    BY <1>4, <2>2 DEF ResolveDeadProbe
  <2>4. g \in GrantRecord
    <3>1. (IF s.marker THEN "UNKNOWN" ELSE "NOT_SENT") \in Terminal
      BY DEF Terminal, Outcomes
    <3>2. QED BY <2>1, <3>1, VerdictRecord
  <2>5. SameStreak(s, c)
    BY <1>1, UpdateStreak DEF WithGrant
  <2> HIDE DEF g
  <2>6. c \in State
    BY <1>1, <2>1, <2>4, GrantUpdate
  <2> HIDE DEF c
  <2>7. h \in State /\ SameStreak(c, h)
    BY <2>6, FreeProbeFields, UpdateStreak
  <2> HIDE DEF h, t
  <2>8. Continues(s, h)
    BY <2>5, <2>7, StreakLaws
  <2>9. ApplyOpen(h, FALSE).mode = "OPEN"
    BY <2>7, ApplyOpenFrame DEF TripFrame
  <2>10. Continues(s, ApplyOpen(h, FALSE))
    BY <2>9 DEF Continues
  <2>11. QED BY <2>3, <2>8, <2>10 DEF t
<1>5. QED BY <1>2, <1>3, <1>4

LEMMA ToRecoveryStreak ==
    ASSUME NEW s \in State
    PROVE  Continues(s, ToRecovery(s))
<1> DEFINE h == FreeProbe(s)
           u == [h EXCEPT !.mode = "RECOVERY", !.streak = 0]
<1>1. ToRecovery(s) \in {s, u}
  BY DEF ToRecovery
<1>2. h \in State
  BY FreeProbeFields
<1> HIDE DEF h
<1>3. u.mode = "RECOVERY" /\ u.streak = 0
  BY <1>2, StateShape
<1> HIDE DEF u
<1>4. Continues(s, u) /\ Continues(s, s)
  BY <1>3 DEF Continues
<1>5. QED BY <1>1, <1>4

LEMMA RefreshStreak ==
    ASSUME IInv, NEW p, NEW s1 \in Refreshes(p)
    PROVE  Continues(st, s1)
<1>1. PICK D \in SUBSET DeadOwned, free \in FreeVerdicts : s1 = Refresh(st, p, D, free)
  BY DEF Refreshes
<1>2. TypeOK /\ Sound(st) /\ st \in State
  BY DEF IInv, TypeOK
<1> DEFINE h == SelfHeal(st, p)
           k == ApplyClock(h)
           a == PrunePending(k, D)
           b == ResolveProbe(a, free)
           c == ToRecovery(b)
           d == ReconcileGrants(c, D)
<1>3. s1 = Evict(d)
  BY <1>1 DEF Refresh
<1>4. h \in State /\ Sound(h) /\ Continues(st, h)
  BY <1>2, SelfHealSound, StageStreak, StreakLaws DEF Sound
<1> HIDE DEF h
<1>5. k \in State /\ Sound(k) /\ Continues(h, k)
  BY <1>2, <1>4, ApplyClockSound, StageStreak, StreakLaws DEF Sound
<1> HIDE DEF k
<1>6. a \in State /\ Sound(a) /\ Continues(k, a)
  BY <1>5, PrunePendingSound, StageStreak, StreakLaws DEF Sound
<1> HIDE DEF a
<1>7. b \in State /\ Sound(b) /\ Continues(a, b)
  BY <1>2, <1>6, ResolveProbeSound, ResolveProbeStreak DEF Sound
<1> HIDE DEF b
<1>8. c \in State /\ Sound(c) /\ Continues(b, c)
  BY <1>7, ToRecoverySound, ToRecoveryStreak DEF Sound
<1> HIDE DEF c
<1>9. d \in State /\ Continues(c, d)
  BY <1>8, ReconcileGrantsSound, StageStreak, StreakLaws DEF Sound
<1> HIDE DEF d
<1>10. Continues(d, s1)
  BY <1>3, <1>9, StageStreak, StreakLaws
<1>11. Continues(st, a)
  BY <1>4, <1>5, <1>6, StreakLaws
<1>12. Continues(st, c)
  BY <1>7, <1>8, <1>11, StreakLaws
<1>13. QED BY <1>9, <1>10, <1>12, StreakLaws
(* What a body does to the successes: it keeps them, it may add that of r, *)
(* and if it counts one in the streak, it is there and of this epoch.      *)
Keeping(s, b, r) ==
    /\ \A q \in Succeeded(s) : q \in Succeeded(b) /\ b.grants[q].epoch = s.grants[q].epoch
    /\ \A q \in Succeeded(b) : q = r \/ q \in Succeeded(s)

Counts(s, b, r) ==
    /\ r \in Succeeded(b) \ Succeeded(s) /\ b.grants[r].epoch = s.epoch /\ b.epoch = s.epoch
    /\ s.mode # "CLOSED" => s.probe = r
    /\ b.mode = "RECOVERY" => s.mode = "RECOVERY" /\ b.streak = s.streak + 1
    /\ b.mode = "CLOSED" /\ s.mode # "CLOSED" => s.mode = "RECOVERY" /\ s.streak + 1 >= Target

Tallies(s, b) == \E r : Keeping(s, b, r) /\ (Continues(s, b) \/ Counts(s, b, r))

LEMMA SuccessesAreFinite ==
    ASSUME NEW s, IsFiniteSet(Succeeded(s))
    PROVE  IsFiniteSet(Successes(s)) /\ Cardinality(Successes(s)) \in Nat
<1>1. Successes(s) \in SUBSET Succeeded(s)
  BY DEF Successes
<1>2. IsFiniteSet(Successes(s))
  BY <1>1, FS_Subset
<1>3. QED BY <1>2, FS_CardinalityType

LEMMA TallyContinues ==
    ASSUME NEW s \in State, NEW t \in State, TallyOf(s), Continues(s, t),
           IsFiniteSet(Succeeded(t)),
           s.mode = "RECOVERY" /\ t.epoch = s.epoch => Successes(s) \subseteq Successes(t)
    PROVE  TallyOf(t)
<1>1. /\ IsFiniteSet(Successes(t)) /\ Cardinality(Successes(t)) \in Nat
      /\ Cardinality(Successes(s)) \in Nat
  BY SuccessesAreFinite DEF TallyOf
<1>2. s.streak \in Nat /\ t.streak \in Nat
  BY StateFields DEF Count
<1>3. SUFFICES ASSUME t.mode = "RECOVERY" PROVE t.streak <= Cardinality(Successes(t))
  BY DEF TallyOf, Backed
<1>4. CASE t.streak = 0
  BY <1>1, <1>4
<1>5. CASE s.mode = "RECOVERY" /\ t.epoch = s.epoch /\ t.streak = s.streak
  <2>1. Cardinality(Successes(s)) <= Cardinality(Successes(t))
    BY <1>1, <1>5, FS_Subset
  <2>2. s.streak <= Cardinality(Successes(s))
    BY <1>5 DEF TallyOf, Backed
  <2>3. QED BY <1>1, <1>2, <1>5, <2>1, <2>2
<1>6. QED BY <1>3, <1>4, <1>5 DEF Continues

LEMMA KeepingFinite ==
    ASSUME NEW s, NEW b, NEW r, Keeping(s, b, r), IsFiniteSet(Succeeded(s))
    PROVE  IsFiniteSet(Succeeded(b))
<1>1. IsFiniteSet(Succeeded(s) \cup {r})
  BY FS_AddElement
<1>2. Succeeded(b) \in SUBSET (Succeeded(s) \cup {r})
  BY DEF Keeping
<1>3. QED BY <1>1, <1>2, FS_Subset

LEMMA OneMore ==
    ASSUME NEW s, NEW b, NEW r, Keeping(s, b, r), Counts(s, b, r), IsFiniteSet(Succeeded(s))
    PROVE  Cardinality(Successes(b)) >= Cardinality(Successes(s)) + 1
<1>1. IsFiniteSet(Successes(b)) /\ Cardinality(Successes(b)) \in Nat
      /\ IsFiniteSet(Successes(s)) /\ Cardinality(Successes(s)) \in Nat
  BY KeepingFinite, SuccessesAreFinite
<1>2. r \notin Successes(s)
  BY DEF Counts, Successes
<1>3. Cardinality(Successes(s) \cup {r}) = Cardinality(Successes(s)) + 1
  BY <1>1, <1>2, FS_AddElement
<1>4. Successes(s) \cup {r} \in SUBSET Successes(b)
  BY DEF Keeping, Counts, Successes
<1>5. Cardinality(Successes(s) \cup {r}) <= Cardinality(Successes(b))
  BY <1>1, <1>4, FS_Subset
<1>6. QED BY <1>1, <1>3, <1>5

(* A refresh writes no success, and drops none of a recovery whose records *)
(* are young.                                                              *)
LEMMA RefreshTallies ==
    ASSUME IInv, Young, TallyOf(st), NEW p, NEW s1 \in Refreshes(p)
    PROVE  TallyOf(s1)
<1>1. TypeOK /\ Sound(st) /\ st \in State /\ st.grants \in [Reqs -> GrantRecord]
  BY StateFields DEF IInv, TypeOK, Registry
<1>2. s1 \in State /\ Carries(st, s1) /\ Continues(st, s1)
  BY <1>1, RefreshSound, RefreshStreak DEF IInv, Sound
<1>3. ASSUME NEW r \in Reqs
      PROVE  \/ s1.grants[r] = st.grants[r]
             \/ st.grants[r].outcome = "issued" /\ s1.grants[r].outcome # "OK"
             \/ wall - st.grants[r].at >= MaxLifetime /\ s1.grants[r].outcome # "OK"
  <2>1. \A o \in {"UNKNOWN", "NOT_SENT"} : [st.grants[r] EXCEPT !.outcome = o].outcome # "OK"
    BY <1>1 DEF GrantRecord
  <2>2. NoGrant.outcome # "OK"
    BY DEF NoGrant
  <2>3. Carried(st, s1, r)
    BY <1>2, <1>3 DEF Carries
  <2>4. QED BY <2>1, <2>2, <2>3 DEF Carried, ClosedFor, EvictedFrom
<1>4. Succeeded(s1) \in SUBSET Succeeded(st)
  BY <1>3 DEF Succeeded
<1>5. IsFiniteSet(Succeeded(s1))
  BY <1>4, FS_Subset DEF TallyOf
<1>6. ASSUME st.mode = "RECOVERY", s1.epoch = st.epoch
      PROVE  Successes(st) \subseteq Successes(s1)
  <2> SUFFICES ASSUME NEW r \in Successes(st) PROVE r \in Successes(s1)
    OBVIOUS
  <2>1. r \in Reqs /\ st.grants[r].outcome = "OK" /\ st.grants[r].epoch = st.epoch
    BY DEF Successes, Succeeded
  <2>2. ~(wall - st.grants[r].at >= MaxLifetime)
    BY <1>6, <2>1 DEF Young
  <2>3. s1.grants[r] = st.grants[r]
    BY <1>3, <2>1, <2>2
  <2>4. QED BY <1>6, <2>1, <2>3 DEF Successes, Succeeded
<1>7. QED BY <1>1, <1>2, <1>5, <1>6, TallyContinues

(* The bodies. *)
LEMMA SameStreakTallies ==
    ASSUME NEW s, NEW b, NEW r, SameStreak(s, b),
           \A q \in Reqs \ {r} : b.grants[q] = s.grants[q],
           r \in Reqs => \/ s.grants[r].outcome # "OK"
                         \/ b.grants[r].outcome = "OK" /\ b.grants[r].epoch = s.grants[r].epoch
    PROVE  Tallies(s, b)
<1>1. Keeping(s, b, r)
  BY DEF Keeping, Succeeded
<1>2. Continues(s, b)
  BY StreakLaws
<1>3. QED BY <1>1, <1>2 DEF Tallies

LEMMA BodyStreak ==
    ASSUME TypeOK, NEW s, Sound(s), NEW r \in Reqs
    PROVE  /\ SameStreak(s, Demand(s, r)) /\ SameStreak(s, Marked(s, r))
           /\ SameStreak(s, Revoke(s, r)) /\ SameStreak(s, Granted(s, r))
<1>1. s \in State
  BY DEF Sound
<1>2. SameStreak(s, Demand(s, r))
  BY <1>1, UpdateStreak DEF Demand
<1>3. SameStreak(s, Revoke(s, r))
  BY <1>1, UpdateStreak DEF Revoke
<1>4. SameStreak(s, Marked(s, r))
  <2> DEFINE g == [s.grants[r] EXCEPT !.sent = TRUE]
             t == WithGrant(s, r, g)
             u == [t EXCEPT !.marker = TRUE]
  <2>1. s.grants[r] \in GrantRecord
    BY <1>1, StateFields DEF Registry
  <2>2. g \in GrantRecord
    BY <2>1 DEF GrantRecord
  <2>3. Marked(s, r) = IF s.grants[r].probe THEN u ELSE t
    BY DEF Marked, WithGrant
  <2> HIDE DEF g
  <2>4. t \in State
    BY <1>1, <2>2, GrantUpdate
  <2>5. SameStreak(s, t)
    BY <1>1, UpdateStreak DEF WithGrant
  <2> HIDE DEF t
  <2>6. SameStreak(t, u)
    BY <2>4, UpdateStreak
  <2> HIDE DEF u
  <2>7. QED BY <2>3, <2>5, <2>6, StreakLaws
<1>5. SameStreak(s, Granted(s, r))
  <2> DEFINE d == Drop(s, r)
             g == [outcome |-> "issued", epoch |-> s.epoch, probe |-> s.mode = "RECOVERY",
                   owner |-> Home[r], sent |-> FALSE, at |-> wall]
             use == [d.usage EXCEPT ![Prio[r]] = d.usage[Prio[r]] + 1]
             f == [d.grants EXCEPT ![r] = g]
             t == [d EXCEPT !.tokens = d.tokens - 1, !.total = d.total + 1,
                            !.usage = use, !.grants = f]
             u == [t EXCEPT !.probe = r, !.marker = FALSE, !.stalled = FALSE]
  <2>1. Granted(s, r) = IF s.mode = "RECOVERY" THEN u ELSE t
    BY DEF Granted
  <2>2. d \in State /\ SameStreak(s, d)
    BY <1>1, DropSound, StageStreak DEF Sound
  <2> HIDE DEF d, f, use
  <2>3. SameStreak(d, t)
    BY <2>2, StateShape DEF SameStreak
  <2>4. SameStreak(d, u)
    BY <2>2, StateShape DEF SameStreak
  <2> HIDE DEF t, u
  <2>5. QED BY <2>1, <2>2, <2>3, <2>4, StreakLaws
<1>6. QED BY <1>2, <1>3, <1>4, <1>5

LEMMA PollsTally ==
    ASSUME TypeOK, NEW s, Sound(s), NEW r \in Reqs, s.grants[r].outcome = "absent",
           NEW x \in Polls(s, r)
    PROVE  Tallies(s, x.s)
<1> DEFINE d == Demand(s, r)
           To(y, l) == [s |-> y, to |-> l]
<1>1. s \in State
  BY DEF Sound
<1>2. d \in State /\ Sound(d) /\ SameStreak(s, d)
  BY DemandSound, BodyStreak DEF Sound
<1>3. x \in {To(Drop(s, r), "done"), To(s, "dropping"), To(Drop(d, r), "done"),
             To(d, "waiting"), To(d, "dropping"), To(Granted(d, r), "granted")}
  BY DEF Polls
<1> HIDE DEF d
<1>4. x.s \in {Drop(s, r), s, Drop(d, r), d, Granted(d, r)}
  BY <1>3
<1>5. SameStreak(s, Drop(s, r)) /\ SameStreak(s, s)
  BY <1>1, StageStreak, UpdateStreak
<1>6. SameStreak(d, Drop(d, r)) /\ SameStreak(d, Granted(d, r))
  BY <1>2, StageStreak, BodyStreak
<1>7. SameStreak(s, Drop(d, r)) /\ SameStreak(s, Granted(d, r))
  BY <1>2, <1>6, StreakLaws
<1>8. SameStreak(s, x.s)
  BY <1>2, <1>4, <1>5, <1>7
<1>9. \A q \in Reqs \ {r} : x.s.grants[q] = s.grants[q]
  BY PollsSound DEF SameBreaker
<1>10. QED BY <1>8, <1>9, SameStreakTallies
(* A success of the current epoch is counted, and closes the breaker when  *)
(* it completes the streak of the probes.                                  *)
LEMMA CountSuccessStreak ==
    ASSUME NEW s \in State
    PROVE  LET t == CountSuccess(s)
           IN /\ t.epoch = s.epoch /\ t.grants = s.grants
              /\ t.mode = "RECOVERY" => s.mode = "RECOVERY" /\ t.streak = s.streak + 1
              /\ t.mode = "CLOSED" /\ s.mode # "CLOSED" =>
                    s.mode = "RECOVERY" /\ s.streak + 1 >= Target
<1> DEFINE more == s.streak + 1
           u == [s EXCEPT !.mode = "CLOSED", !.level = 0, !.streak = 0]
           v == [s EXCEPT !.streak = more]
           t == CountSuccess(s)
<1>1. \/ s.mode = "RECOVERY" /\ s.streak + 1 >= Target /\ t = u
      \/ t = v
  BY DEF CountSuccess
<1> HIDE DEF more, t
<1>2. u.mode = "CLOSED" /\ u.epoch = s.epoch /\ u.grants = s.grants
  BY StateShape
<1>3. v.mode = s.mode /\ v.streak = more /\ v.epoch = s.epoch /\ v.grants = s.grants
  BY StateShape
<1> HIDE DEF u, v
<1>4. CASE s.mode = "RECOVERY" /\ s.streak + 1 >= Target /\ t = u
  BY <1>2, <1>4 DEF t
<1>5. CASE t = v
  BY <1>3, <1>5 DEF t, more
<1>6. QED BY <1>1, <1>4, <1>5

LEMMA ApplyResultTally ==
    ASSUME TypeOK, NEW s, Sound(s), NEW r \in Reqs
    PROVE  Tallies(s, ApplyResult(s, r))
<1> DEFINE t == ApplyResult(s, r)
           o == call[r].result
           w == WithVerdict(s, r, o)
           h == FreeOwnProbe(w, r)
<1>1. s \in State
  BY DEF Sound
<1>2. CASE s.grants[r].outcome # "issued"
  <2>1. t = s
    BY <1>2 DEF ApplyResult
  <2>2. SameStreak(s, s)
    BY <1>1, UpdateStreak
  <2>3. QED BY <2>1, <2>2, SameStreakTallies
<1>3. CASE s.grants[r].outcome = "issued"
  <2>1. o \in Terminal
    BY DEF TypeOK, Call, Terminal
  <2>2. t = CASE o = "RATE_LIMIT" -> IF Current(s, r) THEN ApplyOpen(w, TRUE) ELSE w
              [] o = "OK" -> IF Current(s, r) THEN CountSuccess(h) ELSE w
              [] OTHER -> h
    BY <1>3 DEF ApplyResult, ApplyOutcome, WithVerdict
  <2>3. \A q \in Reqs \ {r} : t.grants[q] = s.grants[q]
    BY ApplyResultSound
  <2>4. Keeping(s, t, r)
    BY <1>3, <2>3 DEF Keeping, Succeeded
  <2> HIDE DEF o, t
  <2>5. w \in State /\ w.grants[r].outcome = o /\ SameStreak(s, w) /\ w.probe = s.probe
    BY <1>1, <2>1, OutcomeWritten, StageStreak
  <2>6. w.grants[r].epoch = s.grants[r].epoch
    <3>1. s.grants \in [Reqs -> GrantRecord]
      BY <1>1, StateFields DEF Registry
    <3>2. w.grants = [s.grants EXCEPT ![r] = [s.grants[r] EXCEPT !.outcome = o]]
      BY <1>1, <3>1, StateShape DEF WithVerdict
    <3>3. w.grants[r] = [s.grants[r] EXCEPT !.outcome = o] /\ s.grants[r] \in GrantRecord
      BY <3>1, <3>2
    <3>4. QED BY <2>1, <3>3, VerdictRecord
  <2> HIDE DEF w
  <2>7. h \in State /\ SameStreak(w, h) /\ h.grants = w.grants
    BY <2>5, FreeProbeFields, UpdateStreak DEF FreeOwnProbe
  <2> HIDE DEF h
  <2>8. SameStreak(s, h)
    BY <2>5, <2>7, StreakLaws
  <2>9. CASE o = "RATE_LIMIT" /\ Current(s, r)
    <3>1. t = ApplyOpen(w, TRUE)
      BY <2>2, <2>9
    <3>2. t.mode = "OPEN"
      BY <2>5, <3>1, ApplyOpenFrame DEF TripFrame
    <3>3. Continues(s, t)
      BY <3>2 DEF Continues
    <3>4. QED BY <2>4, <3>3 DEF Tallies, t
  <2>10. CASE o = "OK" /\ Current(s, r)
    <3>1. t = CountSuccess(h)
      BY <2>2, <2>10
    <3>2. /\ t.epoch = h.epoch /\ t.grants = h.grants
          /\ t.mode = "RECOVERY" => h.mode = "RECOVERY" /\ t.streak = h.streak + 1
          /\ t.mode = "CLOSED" /\ h.mode # "CLOSED" =>
                h.mode = "RECOVERY" /\ h.streak + 1 >= Target
      BY <2>7, <3>1, CountSuccessStreak
    <3>3. r \in Succeeded(t) \ Succeeded(s) /\ t.grants[r].epoch = s.epoch
      BY <1>3, <2>5, <2>6, <2>7, <2>10, <3>2 DEF Succeeded, Current
    <3>4. s.mode # "CLOSED" => s.probe = r
      BY <1>3, <2>10 DEF Current, Sound, Fencing
    <3>5. Counts(s, t, r)
      BY <2>8, <3>2, <3>3, <3>4 DEF Counts, SameStreak
    <3>6. QED BY <2>4, <3>5 DEF Tallies, t
  <2>11. CASE ~(o \in {"OK", "RATE_LIMIT"} /\ Current(s, r))
    <3>1. t = w \/ t = h
      BY <2>2, <2>11
    <3>2. Continues(s, t)
      BY <2>5, <2>8, <3>1, StreakLaws
    <3>3. QED BY <2>4, <3>2 DEF Tallies, t
  <2>12. QED BY <2>9, <2>10, <2>11
<1>4. QED BY <1>2, <1>3

(* A breaker that closes has come from RECOVERY, with its successes on     *)
(* record.                                                                 *)
EarnedStep ==
    st.mode # "CLOSED" /\ st'.mode = "CLOSED" =>
        st.mode = "RECOVERY" /\ Cardinality(Successes(st')) >= Target

TallyWrites ==
    \E p : \E s1 \in Refreshes(p) : \E b \in State : \E e : Commit(e, b) /\ Tallies(s1, b)

LEMMA WritesEarned ==
    ASSUME IInv, Young, TallyOf(st), TallyWrites
    PROVE  TallyOf(st') /\ EarnedStep
<1>0. PICK p : \E s1 \in Refreshes(p) : \E b \in State : \E e : Commit(e, b) /\ Tallies(s1, b)
  BY DEF TallyWrites
<1>1. PICK s1 \in Refreshes(p) : \E b \in State : \E e : Commit(e, b) /\ Tallies(s1, b)
  BY <1>0
<1>2. PICK b \in State : \E e : Commit(e, b) /\ Tallies(s1, b)
  BY <1>1
<1>3. PICK r : Keeping(s1, b, r) /\ (Continues(s1, b) \/ Counts(s1, b, r))
  BY <1>2 DEF Tallies
<1>4. TypeOK /\ Sound(st) /\ st \in State /\ st' \in {st, b}
  BY <1>2, CommitWrites DEF IInv, TypeOK
<1>5. s1 \in State /\ Sound(s1) /\ Carries(st, s1) /\ Continues(st, s1) /\ TallyOf(s1)
  BY <1>4, RefreshSound, RefreshStreak, RefreshTallies DEF IInv, Sound
<1>6. IsFiniteSet(Succeeded(b))
  BY <1>3, <1>5, KeepingFinite DEF TallyOf
<1>7. s1.streak \in Nat /\ b.streak \in Nat /\ Target \in Nat
  BY <1>2, <1>5, StateFields, LimiterAssumption DEF Count
<1>8. /\ Cardinality(Successes(s1)) \in Nat /\ Cardinality(Successes(b)) \in Nat
  BY <1>5, <1>6, SuccessesAreFinite DEF TallyOf
<1>9. TallyOf(b)
  <2>1. CASE Continues(s1, b)
    <3>1. b.epoch = s1.epoch => Successes(s1) \subseteq Successes(b)
      BY <1>3 DEF Keeping, Successes
    <3>2. QED BY <1>2, <1>5, <1>6, <2>1, <3>1, TallyContinues
  <2>2. CASE Counts(s1, b, r)
    <3>1. Cardinality(Successes(b)) >= Cardinality(Successes(s1)) + 1
      BY <1>3, <1>5, <2>2, OneMore DEF TallyOf
    <3>2. b.mode = "RECOVERY" => b.streak = s1.streak + 1 /\ s1.streak <= Cardinality(Successes(s1))
      BY <1>5, <2>2 DEF Counts, TallyOf, Backed
    <3>3. Backed(b)
      BY <1>7, <1>8, <3>1, <3>2 DEF Backed
    <3>4. QED BY <1>6, <3>3 DEF TallyOf
  <2>3. QED BY <1>3, <2>1, <2>2
<1>10. EarnedStep
  <2> SUFFICES ASSUME st.mode # "CLOSED", st'.mode = "CLOSED"
               PROVE  st.mode = "RECOVERY" /\ Cardinality(Successes(st')) >= Target
    BY DEF EarnedStep
  <2>1. st' = b /\ b.mode = "CLOSED" /\ s1.mode # "CLOSED"
    BY <1>4, <1>5 DEF Continues
  <2>2. Counts(s1, b, r)
    BY <1>3, <2>1 DEF Continues
  <2>3. r \in Reqs /\ s1.probe = r /\ s1.mode = "RECOVERY" /\ s1.streak + 1 >= Target
    BY <2>1, <2>2 DEF Counts, Succeeded
  <2>4. st.mode = "RECOVERY"
    <3>1. st.probe # NoReq
      BY <1>5, <2>3, Constants DEF Carries
    <3>2. QED BY <1>4, <3>1 DEF Sound, SlotSound
  <2>5. Cardinality(Successes(b)) >= Cardinality(Successes(s1)) + 1
    BY <1>3, <1>5, <2>2, OneMore DEF TallyOf
  <2>6. s1.streak <= Cardinality(Successes(s1))
    BY <1>5, <2>3 DEF TallyOf, Backed
  <2>7. QED BY <1>7, <1>8, <2>1, <2>3, <2>4, <2>5, <2>6
<1>11. QED BY <1>4, <1>9, <1>10
LEMMA StepTallies ==
    ASSUME IInv, NEW r \in Reqs, NEW e,
           \/ Acquire(r, e) \/ WitnessFails(r, e) \/ AcquireSkipped(r, e) \/ DropDemand(r, e)
           \/ PrepareSend(r, e) \/ RecordResult(r, e)
    PROVE  TallyWrites
<1>1. TypeOK /\ Sound(st) /\ HeldIsOfThisBoot
  BY DEF IInv
<1>2. ASSUME NEW p, NEW s1 \in Refreshes(p), NEW b \in State, Commit(e, b), Tallies(s1, b)
      PROVE  TallyWrites
  BY <1>2 DEF TallyWrites
<1>3. ASSUME NEW s1 \in Refreshes(Home[r])
      PROVE  s1 \in State /\ Sound(s1) /\ Carries(st, s1)
  BY <1>1, <1>3, RefreshSound DEF Sound
<1>4. ASSUME NEW s1 \in Refreshes(Home[r]), Acquiring(r)
      PROVE  s1.grants[r].outcome = "absent"
  <2>1. st.grants[r].outcome = "absent"
    BY <1>4 DEF IInv, FreshIsAbsent, Acquiring
  <2>2. Carried(st, s1, r)
    BY <1>3, <1>4 DEF Carries
  <2>3. QED BY <1>1, <2>1, <2>2, CarriedIssued
<1>5. CASE Acquire(r, e)
  <2>1. PICK s1 \in Refreshes(Home[r]) : \E x \in Polls(s1, r) : Commit(e, x.s)
    BY <1>5 DEF Acquire
  <2>2. PICK x \in Polls(s1, r) : Commit(e, x.s)
    BY <2>1
  <2>3. Sound(s1) /\ s1.grants[r].outcome = "absent"
    BY <1>3, <1>4, <1>5 DEF Acquire
  <2>4. x.s \in State /\ Tallies(s1, x.s)
    BY <1>1, <2>3, PollsBody, PollsTally
  <2>5. QED BY <1>2, <2>2, <2>4
<1>6. CASE WitnessFails(r, e)
  <2>1. PICK s1 \in Refreshes(Home[r]) : Commit(e, Demand(s1, r))
    BY <1>6 DEF WitnessFails
  <2> DEFINE b == Demand(s1, r)
  <2>2. b \in State /\ SameStreak(s1, b) /\ b.grants = s1.grants
    BY <1>1, <1>3, DemandSound, BodyStreak DEF Sound, SameBreaker
  <2>3. Tallies(s1, b)
    BY <2>2, SameStreakTallies
  <2>4. QED BY <1>2, <2>1, <2>2, <2>3
<1>7. CASE AcquireSkipped(r, e) \/ DropDemand(r, e)
  <2>1. PICK s1 \in Refreshes(Home[r]) : Commit(e, Drop(s1, r))
    BY <1>7 DEF AcquireSkipped, DropDemand
  <2> DEFINE b == Drop(s1, r)
  <2>2. b \in State /\ SameStreak(s1, b) /\ b.grants = s1.grants
    BY <1>3, DropSound, StageStreak DEF Sound, SameBreaker
  <2>3. Tallies(s1, b)
    BY <2>2, SameStreakTallies
  <2>4. QED BY <1>2, <2>1, <2>2, <2>3
<1>8. CASE PrepareSend(r, e)
  <2>1. PICK s1 \in Refreshes(Home[r]) :
            Commit(e, IF s1.grants[r].outcome = "issued" /\ ~Fenced(s1, r) THEN Marked(s1, r)
                      ELSE IF s1.grants[r].outcome = "issued" THEN Revoke(s1, r) ELSE s1)
    BY <1>8 DEF PrepareSend
  <2>2. s1 \in State /\ Sound(s1)
    BY <1>3
  <2>3. CASE s1.grants[r].outcome = "issued" /\ ~Fenced(s1, r)
    <3> DEFINE b == Marked(s1, r)
    <3>1. b \in State /\ SameStreak(s1, b)
      BY <1>1, <2>2, MarkedSound, BodyStreak DEF Sound
    <3>2. /\ b.grants[r].outcome = s1.grants[r].outcome
          /\ \A q \in Reqs \ {r} : b.grants[q] = s1.grants[q]
      BY <2>2, MarkedSound
    <3>3. Tallies(s1, b)
      BY <2>3, <3>1, <3>2, SameStreakTallies
    <3>4. QED BY <1>2, <2>1, <2>3, <3>1, <3>3
  <2>4. CASE s1.grants[r].outcome = "issued" /\ Fenced(s1, r)
    <3> DEFINE b == Revoke(s1, r)
    <3>1. b \in State /\ SameStreak(s1, b) /\ \A q \in Reqs \ {r} : b.grants[q] = s1.grants[q]
      BY <1>1, <2>2, <2>4, RevokeSound, BodyStreak DEF Sound
    <3>2. Tallies(s1, b)
      BY <2>4, <3>1, SameStreakTallies
    <3>3. QED BY <1>2, <2>1, <2>4, <3>1, <3>2
  <2>5. CASE s1.grants[r].outcome # "issued"
    <3>1. SameStreak(s1, s1)
      BY DEF SameStreak
    <3>2. Tallies(s1, s1)
      BY <3>1, SameStreakTallies
    <3>3. QED BY <1>2, <2>1, <2>2, <2>5, <3>2
  <2>6. QED BY <2>3, <2>4, <2>5
<1>9. CASE RecordResult(r, e)
  <2>1. PICK s1 \in Refreshes(Home[r]) : Commit(e, ApplyResult(s1, r))
    BY <1>9 DEF RecordResult
  <2>2. ApplyResult(s1, r) \in State /\ Tallies(s1, ApplyResult(s1, r))
    BY <1>1, <1>3, ApplyResultSound, ApplyResultTally DEF Sound
  <2>3. QED BY <1>2, <2>1, <2>2
<1>10. QED BY <1>5, <1>6, <1>7, <1>8, <1>9

LEMMA MaintainTallies ==
    ASSUME IInv, NEW p, NEW e, Maintain(p, e)
    PROVE  TallyWrites
<1>1. PICK s1 \in Refreshes(p) : Commit(e, s1)
  BY DEF Maintain
<1>2. s1 \in State
  BY RefreshSound DEF IInv, Sound
<1>3. SameStreak(s1, s1)
  BY DEF SameStreak
<1>4. Tallies(s1, s1)
  BY <1>3, SameStreakTallies
<1>5. QED BY <1>1, <1>2, <1>4 DEF TallyWrites

(* Steps that commit no transaction change owners at most. *)
LEMMA OwnersTally ==
    ASSUME IInv, TallyOf(st), NEW t \in State, SameStreak(st, t),
           \A r \in Reqs : /\ t.grants[r].outcome = st.grants[r].outcome
                           /\ t.grants[r].epoch = st.grants[r].epoch
    PROVE  TallyOf(t)
<1>1. st \in State
  BY DEF IInv, TypeOK
<1>2. Succeeded(t) = Succeeded(st)
  BY DEF Succeeded
<1>3. t.epoch = st.epoch => Successes(st) \subseteq Successes(t)
  BY <1>2 DEF Successes, Succeeded
<1>4. Continues(st, t)
  BY StreakLaws
<1>5. QED BY <1>1, <1>2, <1>3, <1>4, TallyContinues DEF TallyOf

LEMMA NextEarned ==
    ASSUME IInv, Young, TallyOf(st), [Next]_vars
    PROVE  TallyOf(st') /\ EarnedStep
<1>1. CASE TallyWrites
  BY <1>1, WritesEarned
<1>2. CASE st' = st
  BY <1>2 DEF EarnedStep
<1>3. ASSUME NEW P, NEW mark \in Owners, st' = Orphaned(st, P, mark)
      PROVE  TallyOf(st') /\ EarnedStep
  <2>1. Sound(st)
    BY DEF IInv
  <2> DEFINE t == Orphaned(st, P, mark)
  <2>2. /\ Sound(t) /\ t.mode = st.mode /\ t.epoch = st.epoch /\ t.streak = st.streak
        /\ \A r \in Reqs : /\ t.grants[r].outcome = st.grants[r].outcome
                           /\ t.grants[r].epoch = st.grants[r].epoch
    BY <2>1, OrphanedSound
  <2> HIDE DEF t
  <2>3. TallyOf(t)
    BY <2>2, OwnersTally DEF Sound, SameStreak
  <2>4. st' = t
    BY <1>3 DEF t
  <2>5. QED BY <2>2, <2>3, <2>4 DEF EarnedStep
<1>4. ASSUME NEW r \in Reqs, Step(r) PROVE TallyOf(st') /\ EarnedStep
  <2>1. CASE \E e \in Endings :
                \/ Acquire(r, e) \/ WitnessFails(r, e) \/ AcquireSkipped(r, e) \/ DropDemand(r, e)
                \/ PrepareSend(r, e) \/ RecordResult(r, e)
    BY <1>1, <2>1, StepTallies
  <2>2. CASE Arrive(r) \/ NotSent(r) \/ Abandon(r)
             \/ \E o \in {"OK", "RATE_LIMIT", "ERROR"} : HttpAttempt(r, o)
    <3>1. st' = st
      BY <2>2 DEF Arrive, NotSent, Abandon, HttpAttempt, Local
    <3>2. QED BY <1>2, <3>1
  <2>3. QED BY <1>4, <2>1, <2>2 DEF Step
<1>5. ASSUME NEW p \in Procs, Crash(p) PROVE TallyOf(st') /\ EarnedStep
  BY <1>3, <1>5 DEF Crash, Owners
<1>6. ASSUME NEW p \in Procs, NEW e \in Endings, Maintain(p, e) PROVE TallyOf(st') /\ EarnedStep
  BY <1>1, <1>6, MaintainTallies
<1>7. CASE Reboot
  BY <1>3, <1>7 DEF Reboot, Owners
<1>8. CASE \/ \E p \in Procs : Restart(p)
           \/ Tick
           \/ \E d \in Jumps : Jump(d)
           \/ UNCHANGED vars
  <2>1. st' = st
    BY <1>8 DEF Restart, Tick, Jump, vars
  <2>2. QED BY <1>2, <2>1
<1>9. CASE Next
  BY <1>4, <1>5, <1>6, <1>7, <1>8, <1>9 DEF Next
<1>10. QED BY <1>8, <1>9

LEMMA InitTally == Init => TallyOf(st)
<1> SUFFICES ASSUME Init PROVE TallyOf(st)
  OBVIOUS
<1>1. st.mode = "CLOSED" /\ \A r \in Reqs : st.grants[r].outcome = "absent"
  BY DEF Init, DefaultState, NoGrant
<1>2. Succeeded(st) = {}
  BY <1>1 DEF Succeeded
<1>3. QED BY <1>1, <1>2, FS_EmptySet DEF TallyOf, Backed

(* While no recovery outlasts the lifetime of its records, the breaker     *)
(* closes only from RECOVERY and on Target recorded successes of that      *)
(* epoch, whatever crashes, reboots, late results or lost writes come      *)
(* between the probes.                                                     *)
THEOREM RecoveryIsEarned == Spec /\ []Young => RecoveryEarned
<1> DEFINE T == TallyOf(st)
<1>1. Init => T
  BY InitTally
<1>2. IInv /\ Young /\ T /\ [Next]_vars => T' /\ EarnedStep
  BY NextEarned
<1>3. IInv /\ Young /\ T /\ [Next]_vars => [EarnedStep]_vars
  BY <1>2
<1> HIDE DEF T
<1>4. Spec /\ []Young => [][EarnedStep]_vars
  BY Invariance, <1>1, <1>2, <1>3, PTL DEF Spec
<1>5. [][EarnedStep]_vars => RecoveryEarned
  BY PTL DEF RecoveryEarned, EarnedStep
<1>6. QED BY <1>4, <1>5
=============================================================================

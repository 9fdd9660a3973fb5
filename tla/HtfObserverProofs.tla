-------------------------- MODULE HtfObserverProofs --------------------------
(***************************************************************************)
(* Proofs about the HTF baseline SHORT services.                           *)
(*                                                                         *)
(* HtfObserver: a resumed observer is an uninterrupted one, no confirmed   *)
(* event is lost and no other event is stored.                             *)
(*                                                                         *)
(* HtfCandleSource: what load returns is a whole window, a backfill skips  *)
(* no bar, and the page budget is never exceeded.                          *)
(***************************************************************************)
EXTENDS HtfObserver, HtfCandleSource,
        FiniteSetTheorems, SequenceTheorems, WellFoundedInduction, TLAPS

-----------------------------------------------------------------------------
(* The inductive invariant, in parts.                                      *)

(* The episodes of two machines are the same; the warm-up is not looked at.*)
SameEpisodes(m, k) ==
    /\ m.next = k.next /\ m.known = k.known /\ m.active = k.active
    /\ m.pending = k.pending /\ m.confirmed = k.confirmed

(* A machine is where an uninterrupted observer is after the same bars,    *)
(* and wholly so if no quarantined bar was counted for the warm-up.        *)
Faithful(m) ==
    /\ m.next \in 0..Len(hist)
    /\ SameEpisodes(m, Ideal[m.next])
    /\ ~burnt => m = Ideal[m.next]
AllFaithful == (\A p \in Observers : Faithful(work[p])) /\ (\A m \in ckpt : Faithful(m))

(* No process has loaded a bar that is not there.                          *)
Loaded == \A p \in Observers : upto[p] <= Len(hist)

(* What a process has confirmed is stored or waits in its outbox, which is *)
(* empty when the process goes on to save.                                 *)
Emitted ==
    \A p \in Observers :
        /\ \A e \in work[p].confirmed : Eligible(work[p], e) => e \in stored \union outbox[p]
        /\ hpc[p] \in {"emitted", "beaten"} => outbox[p] = {}

(* What waits or is stored is an event of the candles.                     *)
IsTrueEvent(e) ==
    /\ e \in Ideal[Len(hist)].confirmed
    /\ e[2] > HtfFreeze
    /\ ~burnt => e \notin Ideal[Len(hist)].warm
TrueEvents ==
    /\ \A e \in stored : IsTrueEvent(e)
    /\ \A p \in Observers : \A e \in outbox[p] : IsTrueEvent(e)

IInv == HtfTypeOK /\ Loaded /\ AllFaithful /\ Emitted /\ NoEventLost /\ TrueEvents

(* Without takeover the lock file is the lock.                             *)
HoldsLock ==
    \A p \in Observers :
        /\ hpc[p] \notin {"stale", "again"}
        /\ hpc[p] # "off" => lease = p

-----------------------------------------------------------------------------
(* The uninterrupted observer.                                             *)

LEMMA NatMin ==
    ASSUME NEW T, T \subseteq Nat, T # {}
    PROVE  \E m \in T : \A k \in T : m <= k
<1> DEFINE R == OpToRel(<, Nat)
<1>1. R = {ss \in Nat \X Nat : ss[1] < ss[2]}
  BY DEF OpToRel
<1>2. IsWellFoundedOn(R, Nat)
  BY NatLessThanWellFounded
<1> HIDE DEF R
<1>3. PICK m \in T : \A y \in T : ~(<<y, m>> \in R)
  BY <1>2, WFMin
<1>4. \A y \in T : ~(y < m)
  BY <1>1, <1>3
<1>5. QED BY <1>3, <1>4

LEMMA Constants ==
    /\ MaxBars \in Nat /\ WarmupBars \in Nat /\ HtfWindow \in Nat /\ HtfFreeze \in Int
    /\ HtfWindow > 0 /\ "free" \notin Observers /\ "dead" \notin Observers
BY HtfConstants

(* One bar: what the machine has afterwards.                               *)
LEMMA Advances ==
    ASSUME NEW m \in Machine, m.next \in Times, NEW b \in Bar, NEW w \in BOOLEAN,
           w => m.warmed < WarmupBars
    PROVE  LET new == AdvanceEpisodes(m, b, w)
           IN  /\ new \in Machine
               /\ new.next = m.next + 1
               /\ new.warmed = IF w THEN m.warmed + 1 ELSE m.warmed
               /\ m.confirmed \subseteq new.confirmed
               /\ \A e \in new.confirmed \ m.confirmed :
                     \E l \in Levels : e = <<l, m.pending[l]>> /\ m.pending[l] # NoBar
               /\ \A l \in Levels : new.pending[l] \in {m.next, NoBar, m.pending[l]}
               /\ m.warm \subseteq new.warm
               /\ \A e \in new.warm \ m.warm : e[2] = m.next
<1> DEFINE fresh == Recontacted(m, b)
           seen == Watched(m, b)
           done == Confirmed(m, b)
           gone == {l \in seen \ fresh : m.pending[l] # NoBar /\ Evicted(m, l)}
           active == [l \in Levels |-> IF l \in fresh THEN m.next
                                     ELSE IF l \in seen /\ b[l].touch /\ l \notin gone
                                     THEN m.active[l] ELSE NoBar]
           pending == [l \in Levels |-> IF l \in fresh THEN m.next
                                      ELSE IF l \in done \union gone THEN NoBar ELSE m.pending[l]]
           more == IF w THEN {<<l, m.next>> : l \in fresh} ELSE {}
           warm == m.warm \union more
           confirmed == m.confirmed \union {<<l, m.pending[l]>> : l \in done}
           warmed == IF w THEN m.warmed + 1 ELSE m.warmed
           new == [next |-> m.next + 1, known |-> seen, active |-> active, pending |-> pending,
                   warm |-> warm, confirmed |-> confirmed, warmed |-> warmed]
<1>1. new = AdvanceEpisodes(m, b, w)
  BY DEF AdvanceEpisodes
<1>2. /\ m.next \in 0..(MaxBars - 1) /\ m.known \subseteq Levels
      /\ m.active \in [Levels -> Times \union {NoBar}] /\ m.pending \in [Levels -> Times \union {NoBar}]
      /\ m.warm \subseteq Episode /\ m.confirmed \subseteq Episode /\ m.warmed \in 0..WarmupBars
  BY DEF Machine, Times
<1>3. seen \subseteq Levels /\ fresh \subseteq seen /\ done \subseteq seen
  BY <1>2 DEF Watched, Recontacted, Confirmed
<1>4. \A l \in done : m.pending[l] # NoBar
  BY DEF Confirmed
<1> HIDE DEF fresh, seen, done
<1>5. active \in [Levels -> Times \union {NoBar}]
  BY <1>2
<1>6. pending \in [Levels -> Times \union {NoBar}]
      /\ \A l \in Levels : pending[l] \in {m.next, NoBar, m.pending[l]}
  BY <1>2
<1>7. more \subseteq Episode /\ \A e \in more : e[2] = m.next
  BY <1>2, <1>3 DEF Episode
<1>8. confirmed \subseteq Episode
      /\ \A e \in confirmed \ m.confirmed :
            \E l \in Levels : e = <<l, m.pending[l]>> /\ m.pending[l] # NoBar
  BY <1>2, <1>3, <1>4 DEF Episode
<1>9. warmed \in 0..WarmupBars /\ m.next + 1 \in 0..MaxBars
  BY <1>2, Constants
<1> HIDE DEF active, pending, more, confirmed, warmed
<1>10. new \in Machine
  BY <1>2, <1>3, <1>5, <1>6, <1>7, <1>8, <1>9 DEF Machine
<1>11. m.confirmed \subseteq confirmed
  BY DEF confirmed
<1>12. /\ new.next = m.next + 1 /\ new.warmed = warmed /\ new.confirmed = confirmed
       /\ new.pending = pending /\ new.warm = warm
  OBVIOUS
<1>13. m.warm \subseteq warm /\ \A e \in warm \ m.warm : e[2] = m.next
  BY <1>7
<1>14. warmed = IF w THEN m.warmed + 1 ELSE m.warmed
  BY DEF warmed
<1> HIDE DEF new, warm
<1>15. QED BY <1>1, <1>6, <1>8, <1>10, <1>11, <1>12, <1>13, <1>14

(* What the episodes become does not depend on the warm-up.                *)
LEMMA AdvancesAlike ==
    ASSUME NEW m \in Machine, NEW k \in Machine, SameEpisodes(m, k), NEW b \in Bar,
           NEW w \in BOOLEAN, NEW x \in BOOLEAN
    PROVE  SameEpisodes(AdvanceEpisodes(m, b, w), AdvanceEpisodes(k, b, x))
<1>1. /\ Watched(m, b) = Watched(k, b) /\ Recontacted(m, b) = Recontacted(k, b)
      /\ Confirmed(m, b) = Confirmed(k, b) /\ \A l \in Levels : Evicted(m, l) = Evicted(k, l)
  BY DEF SameEpisodes, Watched, Recontacted, Confirmed, Evicted
<1>2. Watched(m, b) \subseteq Levels
  BY DEF Watched, Machine
<1>3. {l \in Watched(m, b) \ Recontacted(m, b) : m.pending[l] # NoBar /\ Evicted(m, l)}
      = {l \in Watched(k, b) \ Recontacted(k, b) : k.pending[l] # NoBar /\ Evicted(k, l)}
  BY <1>1, <1>2 DEF SameEpisodes
<1>4. QED BY <1>1, <1>3 DEF AdvanceEpisodes, SameEpisodes

(* The recursive definition of Ideal, for a history h.                     *)
IdealStep(f, h) ==
    [n \in 0..Len(h) |-> IF n = 0 THEN NewMachine
                         ELSE AdvanceEpisodes(f[n - 1], h[n], n <= WarmupBars)]
IdealOf(h) == CHOOSE f : f = IdealStep(f, h)

LEMMA IdealIs == Ideal = IdealOf(hist)
BY DEF Ideal, IdealOf, IdealStep

(* Histories, and those that are long enough for the model's bounds.       *)
Histories == {h \in Seq(Bar) : Len(h) <= MaxBars}

(* A function that obeys the definition up to n.                           *)
Obeys(g, h, n) ==
    \A i \in 0..n : g[i] = IF i = 0 THEN NewMachine
                           ELSE AdvanceEpisodes(g[i - 1], h[i], i <= WarmupBars)

LEMMA PrefixExists ==
    ASSUME NEW h \in Histories, NEW n \in 0..Len(h)
    PROVE  \E g : g = [i \in 0..n |-> g[i]] /\ Obeys(g, h, n)
<1> DEFINE Has(k) == \E g : g = [i \in 0..k |-> g[i]] /\ Obeys(g, h, k)
           T == {k \in Nat : k <= Len(h) /\ ~Has(k)}
<1> SUFFICES ASSUME T # {} PROVE FALSE
  OBVIOUS
<1>1. Len(h) \in Nat
  BY DEF Histories
<1>2. PICK k \in T : \A j \in T : k <= j
  BY <1>1, NatMin
<1>3. CASE k = 0
  <2> DEFINE g == [i \in 0..0 |-> NewMachine]
  <2>1. g = [i \in 0..0 |-> g[i]] /\ Obeys(g, h, 0)
    BY DEF Obeys
  <2>2. QED BY <1>2, <1>3, <2>1
<1>4. CASE k # 0
  <2>1. k - 1 \in 0..Len(h) /\ k - 1 \notin T /\ k \in 1..Len(h)
    BY <1>1, <1>2, <1>4
  <2>2. PICK g : g = [i \in 0..(k - 1) |-> g[i]] /\ Obeys(g, h, k - 1)
    BY <2>1
  <2> DEFINE new == AdvanceEpisodes(g[k - 1], h[k], k <= WarmupBars)
             f == [i \in 0..k |-> IF i = k THEN new ELSE g[i]]
  <2>3. f = [i \in 0..k |-> f[i]] /\ f[k] = new /\ \A i \in 0..(k - 1) : f[i] = g[i]
    BY <2>1
  <2>4. new = AdvanceEpisodes(f[k - 1], h[k], k <= WarmupBars)
    BY <2>1, <2>3
  <2> HIDE DEF f, new
  <2>5. ASSUME NEW i \in 0..k
        PROVE  f[i] = IF i = 0 THEN NewMachine ELSE AdvanceEpisodes(f[i - 1], h[i], i <= WarmupBars)
    <3>1. CASE i = k
      BY <1>4, <2>3, <2>4, <3>1
    <3>2. CASE i # k
      <4>a. i \in 0..(k - 1) /\ (i # 0 => i - 1 \in 0..(k - 1))
        BY <2>1, <3>2
      <4>1. i \in 0..(k - 1) /\ f[i] = g[i] /\ (i # 0 => f[i - 1] = g[i - 1])
        BY <2>3, <4>a
      <4>2. g[i] = IF i = 0 THEN NewMachine ELSE AdvanceEpisodes(g[i - 1], h[i], i <= WarmupBars)
        BY <2>2, <4>1 DEF Obeys
      <4>3. QED BY <4>1, <4>2
    <3>3. QED BY <3>1, <3>2
  <2>6. Obeys(f, h, k)
    BY <2>5 DEF Obeys
  <2>7. Has(k)
    BY <2>3, <2>6
  <2>8. QED BY <1>2, <2>7
<1>5. QED BY <1>3, <1>4

LEMMA IdealRec ==
    ASSUME NEW h \in Histories
    PROVE  Obeys(IdealOf(h), h, Len(h))
<1>1. Len(h) \in 0..Len(h)
  BY DEF Histories
<1>2. PICK g : g = [i \in 0..Len(h) |-> g[i]] /\ Obeys(g, h, Len(h))
  BY <1>1, PrefixExists
<1>3. g = IdealStep(g, h)
  BY <1>2 DEF IdealStep, Obeys
<1>4. IdealOf(h) = IdealStep(IdealOf(h), h)
  BY <1>3 DEF IdealOf
<1> DEFINE f == IdealOf(h)
<1> HIDE DEF f
<1>5. f = IdealStep(f, h)
  BY <1>4 DEF f
<1>6. ASSUME NEW i \in 0..Len(h)
      PROVE  f[i] = IF i = 0 THEN NewMachine ELSE AdvanceEpisodes(f[i - 1], h[i], i <= WarmupBars)
  <2>1. IdealStep(f, h)[i] = IF i = 0 THEN NewMachine
                             ELSE AdvanceEpisodes(f[i - 1], h[i], i <= WarmupBars)
    BY DEF IdealStep
  <2>2. QED BY <1>5, <2>1
<1>7. QED BY <1>6 DEF Obeys, f

(* A machine after n bars: a type, its place, and nothing in it from later.*)
Sound(m, n) ==
    /\ m \in Machine /\ m.next = n
    /\ m.warmed = IF n <= WarmupBars THEN n ELSE WarmupBars
    /\ \A e \in m.confirmed : e[2] < n
    /\ \A l \in Levels : m.pending[l] # NoBar => m.pending[l] < n

LEMMA IdealSound ==
    ASSUME NEW h \in Histories, NEW n \in 0..Len(h)
    PROVE  Sound(IdealOf(h)[n], n)
<1> DEFINE f == IdealOf(h)
           T == {k \in Nat : k <= Len(h) /\ ~Sound(f[k], k)}
<1>1. Obeys(f, h, Len(h)) /\ Len(h) \in Nat /\ Len(h) <= MaxBars
  BY IdealRec DEF Histories
<1> HIDE DEF f
<1> SUFFICES ASSUME T # {} PROVE FALSE
  BY DEF f
<1>2. PICK k \in T : \A j \in T : k <= j
  BY <1>1, NatMin
<1>3. CASE k = 0
  <2>1. f[k] = NewMachine
    BY <1>1, <1>3 DEF Obeys
  <2>2. Sound(NewMachine, 0)
    BY Constants DEF Sound, NewMachine, Machine, NoBar
  <2>3. QED BY <1>2, <1>3, <2>1, <2>2
<1>4. CASE k # 0
  <2>1. k - 1 \in 0..Len(h) /\ k - 1 \notin T /\ k \in 1..Len(h)
    BY <1>1, <1>2, <1>4
  <2> DEFINE m == f[k - 1]
             w == k <= WarmupBars
             new == AdvanceEpisodes(m, h[k], w)
  <2>2. f[k] = new
    BY <1>1, <1>4, <2>1 DEF Obeys
  <2>3. Sound(m, k - 1)
    BY <2>1
  <2>4. m \in Machine /\ m.next \in Times /\ (w => m.warmed < WarmupBars) /\ m.next = k - 1
    BY <1>1, <2>1, <2>3, Constants DEF Sound, Times
  <2>5. h[k] \in Bar /\ w \in BOOLEAN
    BY <2>1 DEF Histories
  <2> HIDE DEF m, w, new
  <2>6. /\ new \in Machine
        /\ new.next = m.next + 1
        /\ new.warmed = IF w THEN m.warmed + 1 ELSE m.warmed
        /\ \A e \in new.confirmed \ m.confirmed :
              \E l \in Levels : e = <<l, m.pending[l]>> /\ m.pending[l] # NoBar
        /\ \A l \in Levels : new.pending[l] \in {m.next, NoBar, m.pending[l]}
    BY <2>4, <2>5, Advances DEF new
  <2>7. new.warmed = IF k <= WarmupBars THEN k ELSE WarmupBars
    BY <2>1, <2>3, <2>6, Constants DEF Sound, w
  <2>8. /\ \A e \in m.confirmed : e[2] < k - 1
        /\ \A l \in Levels : m.pending[l] # NoBar => m.pending[l] < k - 1
        /\ \A l \in Levels : m.pending[l] \in Int
        /\ \A e \in m.confirmed : e[2] \in Int
    BY <2>3 DEF Sound, Machine, Times, NoBar, Episode
  <2>9. \A e \in new.confirmed : e[2] < k
    <3> SUFFICES ASSUME NEW e \in new.confirmed PROVE e[2] < k
      OBVIOUS
    <3>1. CASE e \in m.confirmed
      BY <2>1, <2>8, <3>1
    <3>2. CASE e \notin m.confirmed
      <4>1. PICK l \in Levels : e = <<l, m.pending[l]>> /\ m.pending[l] # NoBar
        BY <2>6, <3>2
      <4>2. e[2] = m.pending[l] /\ m.pending[l] < k - 1 /\ m.pending[l] \in Int
        BY <2>8, <4>1
      <4>3. QED BY <2>1, <4>2
    <3>3. QED BY <3>1, <3>2
  <2>10. \A l \in Levels : new.pending[l] # NoBar => new.pending[l] < k
    BY <2>1, <2>4, <2>6, <2>8
  <2>11. Sound(new, k)
    BY <2>1, <2>4, <2>6, <2>7, <2>9, <2>10 DEF Sound
  <2>12. QED BY <1>2, <2>2, <2>11
<1>5. QED BY <1>3, <1>4

(* One more bar.                                                           *)
LEMMA IdealNext ==
    ASSUME NEW h \in Histories, NEW k \in 1..Len(h)
    PROVE  /\ IdealOf(h)[k] = AdvanceEpisodes(IdealOf(h)[k - 1], h[k], k <= WarmupBars)
           /\ h[k] \in Bar
           /\ Sound(IdealOf(h)[k - 1], k - 1)
           /\ IdealOf(h)[k - 1].next \in Times
           /\ k <= WarmupBars => IdealOf(h)[k - 1].warmed < WarmupBars
<1>1. Len(h) \in Nat /\ Len(h) <= MaxBars /\ h[k] \in Bar
  BY DEF Histories
<1>2. k - 1 \in 0..Len(h) /\ k \in 0..Len(h) /\ k # 0
  BY <1>1
<1>3. Obeys(IdealOf(h), h, Len(h))
  BY IdealRec
<1>4. IdealOf(h)[k] = AdvanceEpisodes(IdealOf(h)[k - 1], h[k], k <= WarmupBars)
  BY <1>2, <1>3 DEF Obeys
<1>5. Sound(IdealOf(h)[k - 1], k - 1)
  BY <1>2, IdealSound
<1>6. QED BY <1>1, <1>2, <1>4, <1>5, Constants DEF Sound, Times

(* Confirmed events stay, and what the warm-up adds is touched later.      *)
LEMMA IdealGrows ==
    ASSUME NEW h \in Histories, NEW k \in 0..Len(h), NEW n \in 0..k
    PROVE  /\ IdealOf(h)[n].confirmed \subseteq IdealOf(h)[k].confirmed
           /\ \A e \in IdealOf(h)[k].warm \ IdealOf(h)[n].warm : e[2] >= n
<1> DEFINE f == IdealOf(h)
           Grown(i) == /\ f[n].confirmed \subseteq f[i].confirmed
                       /\ \A e \in f[i].warm \ f[n].warm : e[2] >= n
           T == {i \in Nat : n <= i /\ i <= Len(h) /\ ~Grown(i)}
<1>1. Len(h) \in Nat
  BY DEF Histories
<1> SUFFICES ASSUME T # {} PROVE FALSE
  BY <1>1
<1>2. PICK i \in T : \A j \in T : i <= j
  BY NatMin
<1>3. CASE i = n
  BY <1>2, <1>3
<1>4. CASE i # n
  <2>1. i \in 1..Len(h) /\ i - 1 \in Nat /\ i - 1 >= n /\ i - 1 <= Len(h) /\ i - 1 \notin T
    BY <1>1, <1>2, <1>4
  <2>2. Grown(i - 1)
    BY <2>1
  <2> DEFINE m == f[i - 1]
             w == i <= WarmupBars
             b == h[i]
             new == AdvanceEpisodes(m, b, w)
  <2>3. f[i] = new /\ b \in Bar /\ Sound(m, i - 1) /\ m.next \in Times /\ (w => m.warmed < WarmupBars)
    BY <2>1, IdealNext
  <2>4. m \in Machine /\ m.next = i - 1 /\ w \in BOOLEAN
    BY <2>3 DEF Sound
  <2> HIDE DEF m, w, b, new
  <2>5. m.confirmed \subseteq new.confirmed /\ \A e \in new.warm \ m.warm : e[2] = m.next
    BY <2>3, <2>4, Advances DEF new
  <2>6. f[n].confirmed \subseteq m.confirmed /\ \A e \in m.warm \ f[n].warm : e[2] >= n
    BY <2>2 DEF m
  <2>7. f[n].confirmed \subseteq new.confirmed
    BY <2>5, <2>6
  <2>8. \A e \in new.warm \ f[n].warm : e[2] >= n
    BY <2>1, <2>4, <2>5, <2>6
  <2>9. Grown(i)
    BY <2>3, <2>7, <2>8
  <2>10. QED BY <1>2, <2>9
<1>5. QED BY <1>3, <1>4

(* A bar that closes later changes nothing for those before it.            *)
LEMMA IdealAppend ==
    ASSUME NEW h \in Histories, NEW b \in Bar, Append(h, b) \in Histories, NEW n \in 0..Len(h)
    PROVE  IdealOf(Append(h, b))[n] = IdealOf(h)[n]
<1> DEFINE h2 == Append(h, b)
           f == IdealOf(h)
           g == IdealOf(h2)
           T == {i \in Nat : i <= Len(h) /\ g[i] # f[i]}
<1>1. Len(h) \in Nat /\ Len(h2) = Len(h) + 1 /\ \A i \in 1..Len(h) : h2[i] = h[i]
  BY AppendProperties DEF Histories
<1>2. h2 \in Histories
  OBVIOUS
<1> HIDE DEF h2
<1>3. Obeys(f, h, Len(h)) /\ Obeys(g, h2, Len(h2))
  BY <1>2, IdealRec
<1> HIDE DEF f, g
<1> SUFFICES ASSUME T # {} PROVE FALSE
  BY <1>1 DEF f, g, h2
<1>4. PICK i \in T : \A j \in T : i <= j
  BY NatMin
<1>5. i \in 0..Len(h) /\ i \in 0..Len(h2)
  BY <1>1, <1>4
<1>6. f[i] = IF i = 0 THEN NewMachine ELSE AdvanceEpisodes(f[i - 1], h[i], i <= WarmupBars)
  BY <1>3, <1>5 DEF Obeys
<1>7. g[i] = IF i = 0 THEN NewMachine ELSE AdvanceEpisodes(g[i - 1], h2[i], i <= WarmupBars)
  BY <1>3, <1>5 DEF Obeys
<1>8. CASE i = 0
  BY <1>4, <1>6, <1>7, <1>8
<1>9. CASE i # 0
  <2>1. i - 1 \in Nat /\ i - 1 <= Len(h) /\ i - 1 \notin T /\ h2[i] = h[i]
    BY <1>1, <1>4, <1>5, <1>9
  <2>2. g[i - 1] = f[i - 1]
    BY <2>1
  <2>3. QED BY <1>4, <1>6, <1>7, <1>9, <2>1, <2>2
<1>10. QED BY <1>8, <1>9

-----------------------------------------------------------------------------
(* What a step may do, in kinds.                                           *)

OthersKeep(p) ==
    \A q \in Observers \ {p} :
        work'[q] = work[q] /\ upto'[q] = upto[q] /\ outbox'[q] = outbox[q] /\ hpc'[q] = hpc[q]

Bars == \E b \in Bar : CloseBar(b)

(* Only where processes are, the lock, or a checkpoint that is discarded.  *)
Quiet ==
    /\ hist' = hist /\ work' = work /\ upto' = upto /\ outbox' = outbox /\ stored' = stored
    /\ burnt' = burnt /\ ckpt' \subseteq ckpt
    /\ \A p \in Observers : hpc'[p] \in {"emitted", "beaten"} => hpc[p] \in {"emitted", "beaten"}

(* A process is over; what it was writing is stored or not.                *)
Forgets(p) ==
    /\ hist' = hist /\ ckpt' = ckpt /\ burnt' = burnt /\ OthersKeep(p)
    /\ work'[p] = NewMachine /\ upto'[p] = 0 /\ outbox'[p] = {} /\ hpc'[p] = "off"
    /\ stored' = stored \/ stored' = stored \union outbox[p]

Loads(p) ==
    /\ hist' = hist /\ ckpt' = ckpt /\ burnt' = burnt /\ stored' = stored /\ OthersKeep(p)
    /\ work'[p] = work[p] \/ work'[p] \in ckpt
    /\ upto'[p] <= Len(hist) /\ outbox'[p] = outbox[p] /\ hpc'[p] = "bars"
    /\ hpc[p] = "held"

Takes(p) ==
    LET m == work[p]
        new == AdvanceEpisodes(m, hist[m.next + 1], InWarmup(m))
    IN  /\ hist' = hist /\ ckpt' = ckpt /\ burnt' = burnt /\ stored' = stored /\ OthersKeep(p)
        /\ hpc[p] = "bars" /\ m.next < upto[p]
        /\ work'[p] = new /\ upto'[p] = upto[p] /\ hpc'[p] = hpc[p]
        /\ outbox'[p] = outbox[p] \union Outgoing(m, new)

Skips(p) ==
    /\ hist' = hist /\ ckpt' = ckpt /\ stored' = stored /\ OthersKeep(p)
    /\ hpc[p] = "bars" /\ hpc'[p] = hpc[p] /\ outbox'[p] = outbox[p]
    /\ upto'[p] = work[p].next /\ work[p].next < upto[p]
    /\ \/ work'[p] = work[p] /\ burnt' = burnt
       \/ work'[p] = [work[p] EXCEPT !.warmed = @ + 1] /\ burnt'

Emits(p) ==
    /\ hist' = hist /\ ckpt' = ckpt /\ burnt' = burnt /\ OthersKeep(p)
    /\ work'[p] = work[p] /\ upto'[p] = upto[p] /\ hpc'[p] = "emitted"
    /\ stored' = stored \union outbox[p] /\ outbox'[p] = {}

Saves(p) ==
    /\ hist' = hist /\ work' = work /\ upto' = upto /\ outbox' = outbox /\ stored' = stored
    /\ burnt' = burnt /\ hpc[p] = "beaten" /\ ckpt' = {work[p]}
    /\ hpc' = [hpc EXCEPT ![p] = "saved"]

Kinds ==
    \/ Bars \/ Quiet
    \/ \E p \in Observers :
          Forgets(p) \/ Loads(p) \/ Takes(p) \/ Skips(p) \/ Emits(p) \/ Saves(p)

-----------------------------------------------------------------------------
(* Every step is of one of these kinds and keeps the types.                *)

LEMMA NewIsMachine == NewMachine \in Machine
BY Constants DEF NewMachine, Machine, NoBar

(* What is left when a process is over.                                    *)
LEMMA Forgotten ==
    ASSUME HtfTypeOK, NEW p \in Observers, ForgetWork(p), hpc' = [hpc EXCEPT ![p] = "off"],
           hist' = hist, ckpt' = ckpt, burnt' = burnt,
           stored' = stored \/ stored' = stored \union outbox[p],
           lease' \in Observers \union {"free", "dead"}
    PROVE  HtfTypeOK' /\ Forgets(p)
<1>1. /\ work' = [work EXCEPT ![p] = NewMachine] /\ upto' = [upto EXCEPT ![p] = 0]
      /\ outbox' = [outbox EXCEPT ![p] = {}]
  BY DEF ForgetWork
<1>2. stored' \subseteq Episode
  BY DEF HtfTypeOK
<1> DEFINE new == NewMachine
<1>3. new \in Machine
  BY NewIsMachine
<1>4. work' = [work EXCEPT ![p] = new]
  BY <1>1
<1> HIDE DEF new
<1>5. work' \in [Observers -> Machine] /\ work'[p] = new /\ \A q \in Observers \ {p} : work'[q] = work[q]
  BY <1>3, <1>4 DEF HtfTypeOK
<1>6. /\ upto' \in [Observers -> 0..MaxBars] /\ upto'[p] = 0
      /\ \A q \in Observers \ {p} : upto'[q] = upto[q]
  BY <1>1, Constants DEF HtfTypeOK
<1>7. /\ outbox' \in [Observers -> SUBSET Episode] /\ outbox'[p] = {}
      /\ \A q \in Observers \ {p} : outbox'[q] = outbox[q]
  BY <1>1 DEF HtfTypeOK
<1>8. /\ hpc' \in [Observers -> {"off", "stale", "again", "held", "bars", "emitted", "beaten", "saved"}]
      /\ hpc'[p] = "off" /\ \A q \in Observers \ {p} : hpc'[q] = hpc[q]
  BY DEF HtfTypeOK
<1>9. HtfTypeOK'
  BY <1>2, <1>5, <1>6, <1>7, <1>8 DEF HtfTypeOK
<1>10. QED BY <1>5, <1>6, <1>7, <1>8, <1>9 DEF Forgets, OthersKeep, new

LEMMA DoCloseBar ==
    ASSUME HtfTypeOK, NEW b \in Bar, CloseBar(b)
    PROVE  HtfTypeOK'
<1>1. hist' = Append(hist, b) /\ hist \in Seq(Bar) /\ Len(hist) < MaxBars
  BY DEF CloseBar, HtfTypeOK
<1>2. hist' \in Seq(Bar) /\ Len(hist') = Len(hist) + 1
  BY <1>1, AppendProperties
<1>3. Len(hist) \in Nat
  BY <1>1, LenProperties
<1>4. Len(hist') <= MaxBars
  BY <1>1, <1>2, <1>3, Constants
<1>5. QED BY <1>2, <1>4 DEF HtfTypeOK, CloseBar

LEMMA DoQuiet ==
    ASSUME HtfTypeOK, NEW p \in Observers,
           AcquireLease(p) \/ SeeStale(p) \/ Unlink(p) \/ DeleteLock \/ DiscardCheckpoint
    PROVE  HtfTypeOK' /\ Quiet
<1>1. /\ hist' = hist /\ work' = work /\ upto' = upto /\ outbox' = outbox /\ stored' = stored
      /\ burnt' = burnt
  BY DEF AcquireLease, SeeStale, Unlink, DeleteLock, DiscardCheckpoint
<1>2. ckpt' \subseteq ckpt /\ ckpt' \in {ckpt, {}}
  BY DEF AcquireLease, SeeStale, Unlink, DeleteLock, DiscardCheckpoint
<1>3. ckpt' \subseteq Machine /\ Cardinality(ckpt') <= 1
  <2>1. Cardinality({}) <= 1 /\ {} \subseteq Machine
    BY FS_EmptySet
  <2>2. Cardinality(ckpt) <= 1 /\ ckpt \subseteq Machine
    BY DEF HtfTypeOK
  <2>3. QED BY <1>2, <2>1, <2>2
<1>4. lease' \in Observers \union {"free", "dead"}
  BY DEF HtfTypeOK, AcquireLease, SeeStale, Unlink, DeleteLock, DiscardCheckpoint
<1>5. hpc' = hpc \/ \E s \in {"off", "again", "held", "stale"} : hpc' = [hpc EXCEPT ![p] = s]
  BY DEF AcquireLease, SeeStale, Unlink, DeleteLock, DiscardCheckpoint
<1>6. /\ hpc' \in [Observers -> {"off", "stale", "again", "held", "bars", "emitted", "beaten", "saved"}]
      /\ \A q \in Observers : hpc'[q] = hpc[q] \/ hpc'[q] \in {"off", "again", "held", "stale"}
  BY <1>5 DEF HtfTypeOK
<1>7. QED BY <1>1, <1>2, <1>3, <1>4, <1>6 DEF HtfTypeOK, Quiet

LEMMA DoHeartbeat ==
    ASSUME HtfTypeOK, NEW p \in Observers, HeartbeatLease(p)
    PROVE  HtfTypeOK' /\ (Quiet \/ Forgets(p))
<1>1. /\ hist' = hist /\ ckpt' = ckpt /\ lease' = lease /\ stored' = stored /\ burnt' = burnt
      /\ hpc[p] = "emitted"
  BY DEF HeartbeatLease
<1>2. CASE lease = p
  <2>1. hpc' = [hpc EXCEPT ![p] = "beaten"] /\ work' = work /\ upto' = upto /\ outbox' = outbox
    BY <1>2 DEF HeartbeatLease
  <2>2. HtfTypeOK'
    BY <1>1, <2>1 DEF HtfTypeOK
  <2>3. \A q \in Observers : hpc'[q] = hpc[q] \/ q = p
    BY <2>1 DEF HtfTypeOK
  <2>4. QED BY <1>1, <2>1, <2>2, <2>3 DEF Quiet
<1>3. CASE lease # p
  <2>1. hpc' = [hpc EXCEPT ![p] = "off"] /\ ForgetWork(p)
    BY <1>3 DEF HeartbeatLease
  <2>2. QED BY <1>1, <2>1, Forgotten DEF HtfTypeOK
<1>4. QED BY <1>2, <1>3

LEMMA DoForget ==
    ASSUME HtfTypeOK, NEW p \in Observers,
           (\E c \in BOOLEAN : EmitEventsFails(p, c)) \/ EndObserverCycle(p) \/ KillObserver(p)
    PROVE  HtfTypeOK' /\ Forgets(p)
<1>1. /\ hist' = hist /\ ckpt' = ckpt /\ burnt' = burnt
      /\ hpc' = [hpc EXCEPT ![p] = "off"] /\ ForgetWork(p)
      /\ stored' = stored \/ stored' = stored \union outbox[p]
  BY DEF EmitEventsFails, EndObserverCycle, KillObserver
<1>2. lease' \in Observers \union {"free", "dead"}
  BY DEF HtfTypeOK, EmitEventsFails, EndObserverCycle, KillObserver, ReleasedLease
<1>3. QED BY <1>1, <1>2, Forgotten

LEMMA DoLoadBars ==
    ASSUME HtfTypeOK, NEW p \in Observers, NEW n \in 0..MaxBars, LoadBars(p, n)
    PROVE  HtfTypeOK' /\ Loads(p)
<1> DEFINE m == RestoredMachine(p)
<1>1. m = work[p] \/ m \in ckpt
  BY DEF RestoredMachine
<1>2. m \in Machine
  BY <1>1 DEF HtfTypeOK
<1>3. /\ hist' = hist /\ ckpt' = ckpt /\ lease' = lease /\ outbox' = outbox /\ stored' = stored
      /\ burnt' = burnt /\ hpc[p] = "held"
      /\ work' = [work EXCEPT ![p] = m] /\ upto' = [upto EXCEPT ![p] = n]
      /\ hpc' = [hpc EXCEPT ![p] = "bars"]
  BY DEF LoadBars
<1>4. n <= Len(hist)
  <2>1. n \in m.next..Len(hist)
    BY DEF LoadBars
  <2>2. m.next \in Int /\ Len(hist) \in Int
    BY <1>2, LenProperties DEF Machine, HtfTypeOK
  <2>3. QED BY <2>1, <2>2
<1> HIDE DEF m
<1>5. HtfTypeOK'
  BY <1>2, <1>3 DEF HtfTypeOK
<1>6. OthersKeep(p)
  BY <1>3 DEF OthersKeep, HtfTypeOK
<1>7. work'[p] = m /\ upto'[p] = n /\ outbox'[p] = outbox[p] /\ hpc'[p] = "bars"
  BY <1>3 DEF HtfTypeOK
<1>8. QED BY <1>1, <1>3, <1>4, <1>5, <1>6, <1>7 DEF Loads

(* The bar that is taken, and what the machine makes of it.                *)
LEMMA TakenBar ==
    ASSUME HtfTypeOK, Loaded, NEW p \in Observers, work[p].next < upto[p]
    PROVE  /\ work[p] \in Machine /\ work[p].next \in Times
           /\ hist[work[p].next + 1] \in Bar
           /\ InWarmup(work[p]) \in BOOLEAN
           /\ InWarmup(work[p]) => work[p].warmed < WarmupBars
           /\ work[p].next + 1 \in 1..Len(hist)
<1>1. work[p] \in Machine /\ upto[p] \in 0..MaxBars /\ upto[p] <= Len(hist)
      /\ hist \in Seq(Bar)
  BY DEF HtfTypeOK, Loaded
<1>2. work[p].next \in 0..MaxBars /\ Len(hist) \in Nat
  BY <1>1, LenProperties DEF Machine
<1>3. work[p].next + 1 \in 1..Len(hist)
  BY <1>1, <1>2, Constants
<1>4. hist[work[p].next + 1] \in Bar
  BY <1>1, <1>3, ElementOfSeq
<1>5. QED BY <1>1, <1>2, <1>3, <1>4, Constants DEF Times, InWarmup

LEMMA DoProcessBar ==
    ASSUME HtfTypeOK, Loaded, NEW p \in Observers, ProcessBar(p)
    PROVE  HtfTypeOK' /\ Takes(p)
<1> DEFINE m == work[p]
           new == AdvanceEpisodes(m, hist[m.next + 1], InWarmup(m))
           out == outbox[p] \union Outgoing(m, new)
<1>1. m \in Machine /\ new \in Machine
  <2>1. m.next < upto[p]
    BY DEF ProcessBar
  <2>2. /\ m \in Machine /\ m.next \in Times /\ hist[m.next + 1] \in Bar
        /\ InWarmup(m) \in BOOLEAN /\ (InWarmup(m) => m.warmed < WarmupBars)
    BY <2>1, TakenBar
  <2> HIDE DEF m
  <2>3. QED BY <2>2, Advances
<1>2. out \subseteq Episode
  <2>1. Outgoing(m, new) \subseteq new.confirmed
    BY DEF Outgoing
  <2>2. new.confirmed \subseteq Episode
    BY <1>1 DEF Machine
  <2>3. outbox[p] \subseteq Episode
    BY DEF HtfTypeOK
  <2>4. QED BY <2>1, <2>2, <2>3
<1>3. /\ hist' = hist /\ ckpt' = ckpt /\ lease' = lease /\ hpc' = hpc /\ upto' = upto
      /\ stored' = stored /\ burnt' = burnt
      /\ hpc[p] = "bars" /\ m.next < upto[p]
      /\ work' = [work EXCEPT ![p] = new]
  BY DEF ProcessBar
<1>4. outbox' = [outbox EXCEPT ![p] = out]
  BY DEF ProcessBar
<1> HIDE DEF new, out
<1>5. HtfTypeOK'
  BY <1>1, <1>2, <1>3, <1>4 DEF HtfTypeOK
<1>6. OthersKeep(p)
  BY <1>3, <1>4 DEF OthersKeep, HtfTypeOK
<1>7. work'[p] = new /\ outbox'[p] = out
  BY <1>3, <1>4 DEF HtfTypeOK
<1>8. QED BY <1>3, <1>5, <1>6, <1>7 DEF Takes, new, out

LEMMA DoQuarantine ==
    ASSUME HtfTypeOK, NEW p \in Observers, NEW c \in BOOLEAN, Quarantine(p, c)
    PROVE  HtfTypeOK' /\ Skips(p)
<1> DEFINE m == work[p]
           new == [m EXCEPT !.warmed = @ + 1]
           at == m.next
<1>1. m \in Machine
  BY DEF HtfTypeOK
<1>2. at \in 0..MaxBars
  BY <1>1 DEF Machine
<1>3. /\ hist' = hist /\ ckpt' = ckpt /\ lease' = lease /\ hpc' = hpc /\ outbox' = outbox
      /\ stored' = stored /\ hpc[p] = "bars" /\ at < upto[p]
      /\ upto' = [upto EXCEPT ![p] = at] /\ burnt' = (burnt \/ c)
  BY DEF Quarantine
<1>4. \/ ~c /\ work' = work
      \/ c /\ InWarmup(m) /\ work' = [work EXCEPT ![p] = new]
  <2>1. CASE c
    <3>1. work' = [work EXCEPT ![p].warmed = @ + 1]
      BY <2>1 DEF Quarantine
    <3>2. QED BY <2>1, <3>1 DEF Quarantine
  <2>2. CASE ~c
    BY <2>2 DEF Quarantine
  <2>3. QED BY <2>1, <2>2
<1>5. InWarmup(m) => new \in Machine
  <2> HIDE DEF m
  <2>1. QED BY <1>1, Constants DEF Machine, InWarmup
<1>6. burnt' \in BOOLEAN
  BY <1>3 DEF HtfTypeOK
<1> HIDE DEF new, at
<1>7. work' \in [Observers -> Machine] /\ \A q \in Observers \ {p} : work'[q] = work[q]
  BY <1>4, <1>5 DEF HtfTypeOK
<1>8. HtfTypeOK'
  BY <1>2, <1>3, <1>6, <1>7 DEF HtfTypeOK
<1>9. OthersKeep(p)
  BY <1>3, <1>7 DEF OthersKeep, HtfTypeOK
<1>10. upto'[p] = at
  BY <1>3 DEF HtfTypeOK
<1>11. \/ work'[p] = work[p] /\ burnt' = burnt
       \/ work'[p] = new /\ burnt'
  <2>1. CASE ~c /\ work' = work
    BY <1>3, <2>1 DEF HtfTypeOK
  <2>2. CASE c /\ work' = [work EXCEPT ![p] = new]
    BY <1>3, <2>2 DEF HtfTypeOK
  <2>3. QED BY <1>4, <2>1, <2>2
<1>12. QED BY <1>3, <1>8, <1>9, <1>10, <1>11 DEF Skips, new, at

LEMMA DoEmitEvents ==
    ASSUME HtfTypeOK, NEW p \in Observers, EmitEvents(p)
    PROVE  HtfTypeOK' /\ Emits(p)
<1>1. /\ hist' = hist /\ ckpt' = ckpt /\ lease' = lease /\ work' = work /\ upto' = upto
      /\ burnt' = burnt /\ stored' = stored \union outbox[p]
      /\ outbox' = [outbox EXCEPT ![p] = {}] /\ hpc' = [hpc EXCEPT ![p] = "emitted"]
  BY DEF EmitEvents
<1>2. HtfTypeOK'
  BY <1>1 DEF HtfTypeOK
<1>3. OthersKeep(p) /\ outbox'[p] = {} /\ hpc'[p] = "emitted"
  BY <1>1 DEF OthersKeep, HtfTypeOK
<1>4. QED BY <1>1, <1>2, <1>3 DEF Emits

LEMMA DoSaveCheckpoint ==
    ASSUME HtfTypeOK, NEW p \in Observers, SaveCheckpoint(p)
    PROVE  HtfTypeOK' /\ Saves(p)
<1> DEFINE m == work[p]
<1>1. /\ hist' = hist /\ lease' = lease /\ work' = work /\ upto' = upto /\ outbox' = outbox
      /\ stored' = stored /\ burnt' = burnt /\ hpc[p] = "beaten" /\ ckpt' = {m}
      /\ hpc' = [hpc EXCEPT ![p] = "saved"]
  BY DEF SaveCheckpoint
<1>2. m \in Machine
  BY DEF HtfTypeOK
<1> HIDE DEF m
<1>3. Cardinality({m}) = 1
  BY FS_Singleton
<1>4. ckpt' \subseteq Machine /\ Cardinality(ckpt') <= 1
  BY <1>1, <1>2, <1>3
<1>5. HtfTypeOK'
  BY <1>1, <1>4 DEF HtfTypeOK
<1>6. QED BY <1>1, <1>5 DEF Saves, m

LEMMA StepKinds ==
    ASSUME HtfTypeOK, Loaded, HtfNext
    PROVE  HtfTypeOK' /\ Kinds
<1>1. CASE \E b \in Bar : CloseBar(b)
  BY <1>1, DoCloseBar DEF Kinds, Bars
<1>2. CASE DeleteLock \/ DiscardCheckpoint
  <2>1. CASE Observers = {}
    <3>1. /\ hist' = hist /\ work' = work /\ upto' = upto /\ outbox' = outbox /\ stored' = stored
          /\ burnt' = burnt /\ hpc' = hpc /\ ckpt' \in {ckpt, {}}
          /\ lease' \in {lease, "free"}
      BY <1>2 DEF DeleteLock, DiscardCheckpoint
    <3>2. Cardinality({}) <= 1
      BY FS_EmptySet
    <3>3. Cardinality(ckpt') <= 1 /\ ckpt' \subseteq Machine /\ ckpt' \subseteq ckpt
      <4>1. Cardinality(ckpt) <= 1 /\ ckpt \subseteq Machine
        BY DEF HtfTypeOK
      <4>2. QED BY <3>1, <3>2, <4>1
    <3>4. HtfTypeOK'
      BY <3>1, <3>3 DEF HtfTypeOK
    <3>5. QED BY <2>1, <3>1, <3>3, <3>4 DEF Kinds, Quiet
  <2>2. CASE Observers # {}
    BY <1>2, <2>2, DoQuiet DEF Kinds
  <2>3. QED BY <2>1, <2>2
<1>3. ASSUME NEW p \in Observers, HtfStep(p) PROVE HtfTypeOK' /\ Kinds
  <2>1. CASE AcquireLease(p) \/ SeeStale(p) \/ Unlink(p)
    BY <2>1, DoQuiet DEF Kinds
  <2>2. CASE \E n \in 0..MaxBars : LoadBars(p, n)
    BY <2>2, DoLoadBars DEF Kinds
  <2>3. CASE ProcessBar(p)
    BY <2>3, DoProcessBar DEF Kinds
  <2>4. CASE EmitEvents(p)
    BY <2>4, DoEmitEvents DEF Kinds
  <2>5. CASE HeartbeatLease(p)
    BY <2>5, DoHeartbeat DEF Kinds
  <2>6. CASE SaveCheckpoint(p)
    BY <2>6, DoSaveCheckpoint DEF Kinds
  <2>7. CASE EndObserverCycle(p)
    BY <2>7, DoForget DEF Kinds
  <2>8. QED BY <1>3, <2>1, <2>2, <2>3, <2>4, <2>5, <2>6, <2>7 DEF HtfStep
<1>4. ASSUME NEW p \in Observers,
             KillObserver(p) \/ \E c \in BOOLEAN : Quarantine(p, c) \/ EmitEventsFails(p, c)
      PROVE  HtfTypeOK' /\ Kinds
  <2>1. CASE KillObserver(p) \/ \E c \in BOOLEAN : EmitEventsFails(p, c)
    BY <2>1, DoForget DEF Kinds
  <2>2. CASE \E c \in BOOLEAN : Quarantine(p, c)
    BY <2>2, DoQuarantine DEF Kinds
  <2>3. QED BY <1>4, <2>1, <2>2
<1>5. QED BY <1>1, <1>2, <1>3, <1>4 DEF HtfNext, HtfFault

-----------------------------------------------------------------------------
(* The parts of the invariant, for a history h.                            *)

FaithfulTo(m, h, b) ==
    /\ m.next \in 0..Len(h)
    /\ SameEpisodes(m, IdealOf(h)[m.next])
    /\ ~b => m = IdealOf(h)[m.next]
IsTrueTo(e, h, b) ==
    /\ e \in IdealOf(h)[Len(h)].confirmed
    /\ e[2] > HtfFreeze
    /\ ~b => e \notin IdealOf(h)[Len(h)].warm

LEMMA FaithfulNow ==
    /\ AllFaithful <=> /\ \A p \in Observers : FaithfulTo(work[p], hist, burnt)
                       /\ \A m \in ckpt : FaithfulTo(m, hist, burnt)
    /\ AllFaithful' <=> /\ \A p \in Observers : FaithfulTo(work'[p], hist', burnt')
                        /\ \A m \in ckpt' : FaithfulTo(m, hist', burnt')
<1>1. Ideal = IdealOf(hist)
  BY IdealIs
<1>2. Ideal' = IdealOf(hist')
  BY DEF Ideal, IdealOf, IdealStep
<1>3. QED BY <1>1, <1>2 DEF AllFaithful, Faithful, FaithfulTo

LEMMA TrueNow ==
    /\ TrueEvents <=> /\ \A e \in stored : IsTrueTo(e, hist, burnt)
                      /\ \A p \in Observers : \A e \in outbox[p] : IsTrueTo(e, hist, burnt)
    /\ TrueEvents' <=> /\ \A e \in stored' : IsTrueTo(e, hist', burnt')
                       /\ \A p \in Observers : \A e \in outbox'[p] : IsTrueTo(e, hist', burnt')
<1>1. Ideal = IdealOf(hist)
  BY IdealIs
<1>2. Ideal' = IdealOf(hist')
  BY DEF Ideal, IdealOf, IdealStep
<1>3. QED BY <1>1, <1>2 DEF TrueEvents, IsTrueEvent, IsTrueTo

LEMMA HistoryIs == ASSUME HtfTypeOK PROVE hist \in Histories
BY DEF HtfTypeOK, Histories

(* A machine at its beginning is an uninterrupted one.                     *)
LEMMA NewIsFaithful ==
    ASSUME NEW h \in Histories, NEW b \in BOOLEAN
    PROVE  FaithfulTo(NewMachine, h, b)
<1>1. Len(h) \in Nat
  BY DEF Histories
<1>2. Obeys(IdealOf(h), h, Len(h))
  BY IdealRec
<1>3. IdealOf(h)[0] = NewMachine
  BY <1>1, <1>2 DEF Obeys
<1>4. NewMachine.next = 0
  BY DEF NewMachine
<1>5. QED BY <1>1, <1>3, <1>4 DEF FaithfulTo, SameEpisodes

(* A machine that takes the bar an uninterrupted one takes stays with it:  *)
(* while no quarantined bar was counted, their warm-ups end together.      *)
LEMMA FaithfulAdvances ==
    ASSUME NEW h \in Histories, NEW b \in BOOLEAN, NEW m \in Machine, FaithfulTo(m, h, b),
           m.next + 1 \in 1..Len(h)
    PROVE  FaithfulTo(AdvanceEpisodes(m, h[m.next + 1], InWarmup(m)), h, b)
<1> DEFINE k == m.next + 1
           f == IdealOf(h)
           i == f[k - 1]
           bar == h[k]
           w == k <= WarmupBars
           x == InWarmup(m)
           new == AdvanceEpisodes(m, bar, x)
<1>1. k \in 1..Len(h) /\ k - 1 = m.next /\ m.next \in Int
  BY DEF Machine
<1>2. f[k] = AdvanceEpisodes(i, bar, w) /\ bar \in Bar /\ Sound(i, k - 1)
  BY <1>1, IdealNext
<1>3. SameEpisodes(m, i) /\ (~b => m = i)
  BY <1>1 DEF FaithfulTo
<1>4. i \in Machine /\ i.warmed = IF k - 1 <= WarmupBars THEN k - 1 ELSE WarmupBars
  BY <1>2 DEF Sound
<1>5. w \in BOOLEAN /\ x \in BOOLEAN
  BY DEF InWarmup
<1>6. m = i => (x = w)
  BY <1>1, <1>4, Constants DEF InWarmup
<1> HIDE DEF i, bar, w, x, f
<1>7. SameEpisodes(new, f[k])
  BY <1>2, <1>3, <1>4, <1>5, AdvancesAlike
<1>8. ~b => new = f[k]
  BY <1>2, <1>3, <1>6
<1>9. new.next = k
  BY <1>1 DEF AdvanceEpisodes
<1> HIDE DEF new
<1>10. FaithfulTo(new, h, b)
  <2>1. Len(h) \in Nat
    BY DEF Histories
  <2>2. new.next \in 0..Len(h)
    BY <1>1, <1>9, <2>1
  <2>3. SameEpisodes(new, f[new.next]) /\ (~b => new = f[new.next])
    BY <1>7, <1>8, <1>9
  <2>4. QED BY <2>2, <2>3 DEF FaithfulTo, f
<1>11. QED BY <1>10 DEF new, bar, x

(* The events a faithful machine sends out are events of the candles.      *)
LEMMA OutgoingIsTrue ==
    ASSUME NEW h \in Histories, NEW b \in BOOLEAN, NEW m \in Machine, FaithfulTo(m, h, b),
           NEW e \in m.confirmed, Eligible(m, e)
    PROVE  IsTrueTo(e, h, b)
<1> DEFINE n == m.next
           f == IdealOf(h)
           z == Len(h)
<1>1. n \in 0..z /\ z \in 0..z /\ z \in Nat /\ n \in 0..z
  BY DEF FaithfulTo, Histories
<1>2. f[n].confirmed \subseteq f[z].confirmed /\ \A d \in f[z].warm \ f[n].warm : d[2] >= n
  BY <1>1, IdealGrows
<1>3. e \in f[n].confirmed /\ (~b => m = f[n])
  BY DEF FaithfulTo, SameEpisodes
<1>4. Sound(f[n], n)
  BY <1>1, IdealSound
<1>5. e[2] < n /\ e[2] \in Int
  BY <1>3, <1>4 DEF Sound, Machine, Episode, Times
<1>6. e \notin m.warm /\ e[2] > HtfFreeze
  BY DEF Eligible
<1>7. ~b => e \notin f[z].warm
  BY <1>1, <1>2, <1>3, <1>5, <1>6
<1>8. QED BY <1>2, <1>3, <1>6, <1>7 DEF IsTrueTo

(* One more bar leaves machines and events what they were.                 *)
LEMMA FaithfulAfterBar ==
    ASSUME NEW h \in Histories, NEW bar \in Bar, Append(h, bar) \in Histories, NEW b \in BOOLEAN,
           NEW m, FaithfulTo(m, h, b)
    PROVE  FaithfulTo(m, Append(h, bar), b)
<1>1. Len(h) \in Nat /\ Len(Append(h, bar)) = Len(h) + 1
  BY AppendProperties DEF Histories
<1>2. m.next \in 0..Len(h)
  BY DEF FaithfulTo
<1>3. IdealOf(Append(h, bar))[m.next] = IdealOf(h)[m.next]
  BY <1>2, IdealAppend
<1> DEFINE h2 == Append(h, bar)
<1> HIDE DEF h2
<1>4. m.next \in 0..Len(h2)
  BY <1>1, <1>2 DEF h2
<1>5. QED BY <1>3, <1>4 DEF FaithfulTo, h2

LEMMA TrueAfterBar ==
    ASSUME NEW h \in Histories, NEW bar \in Bar, Append(h, bar) \in Histories, NEW b \in BOOLEAN,
           NEW e, IsTrueTo(e, h, b)
    PROVE  IsTrueTo(e, Append(h, bar), b)
<1> DEFINE h2 == Append(h, bar)
           n == Len(h)
           f == IdealOf(h2)
<1>1. n \in Nat /\ Len(h2) = n + 1 /\ n \in 0..n
  BY AppendProperties DEF Histories
<1>2. f[n] = IdealOf(h)[n]
  BY <1>1, IdealAppend
<1>3. h2 \in Histories /\ n + 1 \in 0..Len(h2) /\ n \in 0..(n + 1)
  BY <1>1
<1> HIDE DEF h2
<1>4. f[n].confirmed \subseteq f[n + 1].confirmed /\ \A d \in f[n + 1].warm \ f[n].warm : d[2] >= n
  BY <1>3, IdealGrows
<1>5. Sound(IdealOf(h)[n], n)
  BY <1>1, IdealSound
<1>6. e \in f[n].confirmed /\ e[2] > HtfFreeze /\ (~b => e \notin f[n].warm)
  BY <1>2 DEF IsTrueTo
<1>7. e[2] < n /\ e[2] \in Int
  BY <1>2, <1>5, <1>6 DEF Sound, Machine, Episode, Times
<1>8. ~b => e \notin f[n + 1].warm
  BY <1>1, <1>4, <1>6, <1>7
<1>9. IsTrueTo(e, h2, b)
  BY <1>1, <1>4, <1>6, <1>8 DEF IsTrueTo
<1>10. QED BY <1>9 DEF h2

-----------------------------------------------------------------------------
(* Every step keeps the invariant.                                         *)

LEMMA StillLoaded ==
    ASSUME HtfTypeOK, Loaded, HtfTypeOK', Kinds
    PROVE  Loaded'
<1>1. Len(hist) \in Nat /\ \A q \in Observers : upto[q] \in Nat /\ upto[q] <= Len(hist)
  BY LenProperties, Constants DEF HtfTypeOK, Loaded
<1>2. CASE Bars
  <2>1. PICK b \in Bar : CloseBar(b)
    BY <1>2 DEF Bars
  <2>2. Len(hist') = Len(hist) + 1 /\ upto' = upto
    BY <2>1, AppendProperties DEF CloseBar, HtfTypeOK
  <2>3. QED BY <1>1, <2>2 DEF Loaded
<1>3. CASE Quiet
  BY <1>1, <1>3 DEF Quiet, Loaded
<1>4. ASSUME NEW p \in Observers,
             Forgets(p) \/ Loads(p) \/ Takes(p) \/ Skips(p) \/ Emits(p) \/ Saves(p)
      PROVE  Loaded'
  <2>1. hist' = hist
    BY <1>4 DEF Forgets, Loads, Takes, Skips, Emits, Saves
  <2>2. \A q \in Observers \ {p} : upto'[q] = upto[q]
    BY <1>4 DEF Forgets, Loads, Takes, Skips, Emits, Saves, OthersKeep
  <2>3. work[p].next \in Int
    BY DEF HtfTypeOK, Machine
  <2>4. upto'[p] <= Len(hist)
    BY <1>1, <1>4, <2>3 DEF Forgets, Loads, Takes, Skips, Emits, Saves
  <2>5. QED BY <1>1, <2>1, <2>2, <2>4 DEF Loaded
<1>5. QED BY <1>2, <1>3, <1>4 DEF Kinds

LEMMA StillFaithful ==
    ASSUME HtfTypeOK, Loaded, AllFaithful, HtfTypeOK', Kinds
    PROVE  AllFaithful'
<1>1. hist \in Histories /\ burnt \in BOOLEAN /\ \A q \in Observers : work[q] \in Machine
  BY HistoryIs DEF HtfTypeOK
<1>2. /\ \A q \in Observers : FaithfulTo(work[q], hist, burnt)
      /\ \A m \in ckpt : FaithfulTo(m, hist, burnt)
  BY FaithfulNow
<1>3. CASE Bars
  <2>1. PICK b \in Bar : CloseBar(b)
    BY <1>3 DEF Bars
  <2>2. hist' = Append(hist, b) /\ work' = work /\ ckpt' = ckpt /\ burnt' = burnt
    BY <2>1 DEF CloseBar
  <2>3. Append(hist, b) \in Histories
    BY <2>2 DEF HtfTypeOK, Histories
  <2>4. \A m : FaithfulTo(m, hist, burnt) => FaithfulTo(m, Append(hist, b), burnt)
    BY <1>1, <2>3, FaithfulAfterBar
  <2>5. QED BY <1>2, <2>2, <2>4, FaithfulNow
<1>4. CASE Quiet
  BY <1>2, <1>4, FaithfulNow DEF Quiet
<1>5. ASSUME NEW p \in Observers, Forgets(p) PROVE AllFaithful'
  <2>1. FaithfulTo(NewMachine, hist, burnt)
    BY <1>1, NewIsFaithful
  <2>2. \A q \in Observers : work'[q] = work[q] \/ work'[q] = NewMachine
    BY <1>5 DEF Forgets, OthersKeep
  <2>3. hist' = hist /\ ckpt' = ckpt /\ burnt' = burnt
    BY <1>5 DEF Forgets
  <2>4. QED BY <1>2, <2>1, <2>2, <2>3, FaithfulNow
<1>6. ASSUME NEW p \in Observers, Loads(p) \/ Emits(p) \/ Saves(p) PROVE AllFaithful'
  <2>1. \A q \in Observers : work'[q] = work[q] \/ work'[q] \in ckpt
    BY <1>6 DEF Loads, Emits, Saves, OthersKeep
  <2>2. hist' = hist /\ burnt' = burnt /\ (ckpt' = ckpt \/ ckpt' = {work[p]})
    BY <1>6 DEF Loads, Emits, Saves
  <2>3. QED BY <1>2, <2>1, <2>2, FaithfulNow
<1>7. ASSUME NEW p \in Observers, Takes(p) PROVE AllFaithful'
  <2> DEFINE new == AdvanceEpisodes(work[p], hist[work[p].next + 1], InWarmup(work[p]))
  <2>1. hist' = hist /\ ckpt' = ckpt /\ burnt' = burnt /\ work'[p] = new
        /\ work[p].next < upto[p] /\ \A q \in Observers \ {p} : work'[q] = work[q]
    BY <1>7 DEF Takes, OthersKeep
  <2>2. work[p].next + 1 \in 1..Len(hist)
    BY <2>1, TakenBar
  <2>3. FaithfulTo(new, hist, burnt)
    BY <1>1, <1>2, <2>2, FaithfulAdvances
  <2> HIDE DEF new
  <2>4. \A q \in Observers : work'[q] = work[q] \/ work'[q] = new
    BY <2>1
  <2>5. QED BY <1>2, <2>1, <2>3, <2>4, FaithfulNow
<1>8. ASSUME NEW p \in Observers, Skips(p) PROVE AllFaithful'
  <2> DEFINE m == work[p]
             new == [m EXCEPT !.warmed = @ + 1]
  <2>1. hist' = hist /\ ckpt' = ckpt /\ \A q \in Observers \ {p} : work'[q] = work[q]
    BY <1>8 DEF Skips, OthersKeep
  <2>2. CASE work'[p] = work[p] /\ burnt' = burnt
    <3>1. \A q \in Observers : work'[q] = work[q]
      BY <2>1, <2>2
    <3>2. QED BY <1>2, <2>1, <2>2, <3>1, FaithfulNow
  <2>3. CASE work'[p] = new /\ burnt'
    <3>1. m \in Machine /\ FaithfulTo(m, hist, burnt)
      BY <1>1, <1>2
    <3> HIDE DEF m
    <3>2. new.next = m.next /\ SameEpisodes(new, m)
      BY <3>1 DEF Machine, SameEpisodes
    <3> HIDE DEF new
    <3>3. FaithfulTo(new, hist, TRUE)
      BY <3>1, <3>2 DEF FaithfulTo, SameEpisodes
    <3>4. \A k : FaithfulTo(k, hist, burnt) => FaithfulTo(k, hist, TRUE)
      BY DEF FaithfulTo
    <3>5. \A q \in Observers : work'[q] = work[q] \/ work'[q] = new
      BY <2>1, <2>3
    <3>6. burnt' = TRUE
      BY <2>3 DEF HtfTypeOK
    <3>7. QED BY <1>2, <2>1, <3>3, <3>4, <3>5, <3>6, FaithfulNow
  <2>4. QED BY <1>8, <2>2, <2>3 DEF Skips
<1>9. QED BY <1>3, <1>4, <1>5, <1>6, <1>7, <1>8 DEF Kinds

LEMMA StillEmitted ==
    ASSUME HtfTypeOK, Loaded, Emitted, NoEventLost, HtfTypeOK', Kinds
    PROVE  Emitted' /\ NoEventLost'
<1> DEFINE Done(m, s) == \A e \in m.confirmed : Eligible(m, e) => e \in s
<1>1. /\ \A q \in Observers : Done(work[q], stored \union outbox[q])
                              /\ (hpc[q] \in {"emitted", "beaten"} => outbox[q] = {})
      /\ \A m \in ckpt : Done(m, stored)
  BY DEF Emitted, NoEventLost
<1>2. /\ Emitted' <=> \A q \in Observers : Done(work'[q], stored' \union outbox'[q])
                              /\ (hpc'[q] \in {"emitted", "beaten"} => outbox'[q] = {})
      /\ NoEventLost' <=> \A m \in ckpt' : Done(m, stored')
  BY DEF Emitted, NoEventLost, Eligible
<1>3. \A m : \A s, t : s \subseteq t /\ Done(m, s) => Done(m, t)
  OBVIOUS
<1>4. \A s : Done(NewMachine, s)
  BY DEF NewMachine
<1> HIDE DEF Done
<1>5. CASE Bars
  BY <1>1, <1>2, <1>5 DEF Bars, CloseBar
<1>6. CASE Quiet
  BY <1>1, <1>2, <1>6 DEF Quiet
<1>7. ASSUME NEW p \in Observers, Forgets(p) PROVE Emitted' /\ NoEventLost'
  <2>1. stored \subseteq stored' /\ ckpt' = ckpt
    BY <1>7 DEF Forgets
  <2>2. \A q \in Observers \ {p} : work'[q] = work[q] /\ outbox'[q] = outbox[q] /\ hpc'[q] = hpc[q]
    BY <1>7 DEF Forgets, OthersKeep
  <2>3. work'[p] = NewMachine /\ outbox'[p] = {}
    BY <1>7 DEF Forgets
  <2>4. NoEventLost'
    BY <1>1, <1>2, <1>3, <2>1
  <2>5. ASSUME NEW q \in Observers
        PROVE  Done(work'[q], stored' \union outbox'[q])
               /\ (hpc'[q] \in {"emitted", "beaten"} => outbox'[q] = {})
    <3>1. CASE q = p
      BY <1>4, <2>3, <3>1
    <3>2. CASE q # p
      <4>1. stored \union outbox[q] \subseteq stored' \union outbox'[q]
        BY <2>1, <2>2, <3>2
      <4>2. QED BY <1>1, <1>3, <2>2, <3>2, <4>1
    <3>3. QED BY <3>1, <3>2
  <2>6. QED BY <1>2, <2>4, <2>5
<1>8. ASSUME NEW p \in Observers, Loads(p) PROVE Emitted' /\ NoEventLost'
  <2>1. stored' = stored /\ ckpt' = ckpt /\ outbox'[p] = outbox[p] /\ hpc'[p] = "bars"
        /\ (work'[p] = work[p] \/ work'[p] \in ckpt)
    BY <1>8 DEF Loads
  <2>2. \A q \in Observers \ {p} : work'[q] = work[q] /\ outbox'[q] = outbox[q] /\ hpc'[q] = hpc[q]
    BY <1>8 DEF Loads, OthersKeep
  <2>3. Done(work'[p], stored' \union outbox'[p])
    BY <1>1, <1>3, <2>1
  <2>4. QED BY <1>1, <1>2, <2>1, <2>2, <2>3
<1>9. ASSUME NEW p \in Observers, Takes(p) PROVE Emitted' /\ NoEventLost'
  <2> DEFINE m == work[p]
             new == AdvanceEpisodes(m, hist[m.next + 1], InWarmup(m))
  <2>1. stored' = stored /\ ckpt' = ckpt /\ hpc[p] = "bars" /\ hpc'[p] = "bars" /\ m.next < upto[p]
        /\ work'[p] = new /\ outbox'[p] = outbox[p] \union Outgoing(m, new)
    BY <1>9 DEF Takes
  <2>2. \A q \in Observers \ {p} : work'[q] = work[q] /\ outbox'[q] = outbox[q] /\ hpc'[q] = hpc[q]
    BY <1>9 DEF Takes, OthersKeep
  <2>3. m.warm \subseteq new.warm
    <3>1. /\ m \in Machine /\ m.next \in Times /\ hist[m.next + 1] \in Bar
          /\ InWarmup(m) \in BOOLEAN /\ (InWarmup(m) => m.warmed < WarmupBars)
      BY <2>1, TakenBar
    <3> HIDE DEF m
    <3>2. QED BY <3>1, Advances
  <2>4. Done(m, stored \union outbox[p])
    BY <1>1
  <2> HIDE DEF m, new
  <2>5. Done(new, stored \union (outbox[p] \union Outgoing(m, new)))
    BY <2>3, <2>4 DEF Done, Outgoing, Eligible
  <2>6. QED BY <1>1, <1>2, <2>1, <2>2, <2>5
<1>10. ASSUME NEW p \in Observers, Skips(p) PROVE Emitted' /\ NoEventLost'
  <2> DEFINE m == work[p]
  <2>1. stored' = stored /\ ckpt' = ckpt /\ outbox'[p] = outbox[p] /\ hpc'[p] = hpc[p]
        /\ hpc[p] = "bars"
    BY <1>10 DEF Skips
  <2>2. \A q \in Observers \ {p} : work'[q] = work[q] /\ outbox'[q] = outbox[q] /\ hpc'[q] = hpc[q]
    BY <1>10 DEF Skips, OthersKeep
  <2>3. m \in Machine /\ (work'[p] = m \/ work'[p] = [m EXCEPT !.warmed = @ + 1])
    BY <1>10 DEF Skips, HtfTypeOK
  <2>a. Done(m, stored \union outbox[p])
    BY <1>1
  <2> HIDE DEF m
  <2>4. work'[p].confirmed = m.confirmed /\ work'[p].warm = m.warm
    BY <2>3 DEF Machine
  <2>5. Done(work'[p], stored \union outbox[p])
    BY <2>a, <2>4 DEF Done, Eligible
  <2>6. QED BY <1>1, <1>2, <2>1, <2>2, <2>5
<1>11. ASSUME NEW p \in Observers, Emits(p) PROVE Emitted' /\ NoEventLost'
  <2>1. stored' = stored \union outbox[p] /\ ckpt' = ckpt /\ work'[p] = work[p] /\ outbox'[p] = {}
    BY <1>11 DEF Emits
  <2>2. \A q \in Observers \ {p} : work'[q] = work[q] /\ outbox'[q] = outbox[q] /\ hpc'[q] = hpc[q]
    BY <1>11 DEF Emits, OthersKeep
  <2>3. NoEventLost'
    BY <1>1, <1>2, <1>3, <2>1
  <2>4. ASSUME NEW q \in Observers
        PROVE  Done(work'[q], stored' \union outbox'[q])
               /\ (hpc'[q] \in {"emitted", "beaten"} => outbox'[q] = {})
    <3>1. CASE q = p
      <4>1. stored' \union outbox'[q] = stored \union outbox[q]
        BY <2>1, <3>1
      <4>2. QED BY <1>1, <2>1, <3>1, <4>1
    <3>2. CASE q # p
      <4>1. stored \union outbox[q] \subseteq stored' \union outbox'[q]
        BY <2>1, <2>2, <3>2
      <4>2. QED BY <1>1, <1>3, <2>2, <3>2, <4>1
    <3>3. QED BY <3>1, <3>2
  <2>5. QED BY <1>2, <2>3, <2>4
<1>12. ASSUME NEW p \in Observers, Saves(p) PROVE Emitted' /\ NoEventLost'
  <2>1. stored' = stored /\ work' = work /\ outbox' = outbox /\ ckpt' = {work[p]} /\ hpc[p] = "beaten"
        /\ hpc' = [hpc EXCEPT ![p] = "saved"]
    BY <1>12 DEF Saves
  <2>2. \A q \in Observers : hpc'[q] = hpc[q] \/ hpc'[q] = "saved"
    BY <2>1 DEF HtfTypeOK
  <2>3. outbox[p] = {} /\ stored \union outbox[p] = stored
    BY <1>1, <2>1
  <2>4. Done(work[p], stored)
    BY <1>1, <2>3
  <2>5. QED BY <1>1, <1>2, <2>1, <2>2, <2>4
<1>13. QED BY <1>5, <1>6, <1>7, <1>8, <1>9, <1>10, <1>11, <1>12 DEF Kinds

LEMMA StillTrue ==
    ASSUME HtfTypeOK, Loaded, AllFaithful, AllFaithful', TrueEvents, HtfTypeOK', Kinds
    PROVE  TrueEvents'
<1>1. hist \in Histories /\ burnt \in BOOLEAN
  BY HistoryIs DEF HtfTypeOK
<1>2. /\ \A e \in stored : IsTrueTo(e, hist, burnt)
      /\ \A q \in Observers : \A e \in outbox[q] : IsTrueTo(e, hist, burnt)
  BY TrueNow
<1>3. CASE Bars
  <2>1. PICK b \in Bar : CloseBar(b)
    BY <1>3 DEF Bars
  <2>2. hist' = Append(hist, b) /\ stored' = stored /\ outbox' = outbox /\ burnt' = burnt
    BY <2>1 DEF CloseBar
  <2>3. Append(hist, b) \in Histories
    BY <2>2 DEF HtfTypeOK, Histories
  <2>4. \A e : IsTrueTo(e, hist, burnt) => IsTrueTo(e, Append(hist, b), burnt)
    BY <1>1, <2>3, TrueAfterBar
  <2>5. QED BY <1>2, <2>2, <2>4, TrueNow
<1>4. CASE Quiet
  BY <1>2, <1>4, TrueNow DEF Quiet
<1>5. ASSUME NEW p \in Observers, Forgets(p) \/ Loads(p) \/ Emits(p) \/ Saves(p) PROVE TrueEvents'
  <2>1. hist' = hist /\ burnt' = burnt
    BY <1>5 DEF Forgets, Loads, Emits, Saves
  <2>2. stored' = stored \/ stored' = stored \union outbox[p]
    BY <1>5 DEF Forgets, Loads, Emits, Saves
  <2>3. \A q \in Observers : outbox'[q] = outbox[q] \/ outbox'[q] = {}
    BY <1>5 DEF Forgets, Loads, Emits, Saves, OthersKeep
  <2>4. QED BY <1>2, <2>1, <2>2, <2>3, TrueNow
<1>6. ASSUME NEW p \in Observers, Skips(p) PROVE TrueEvents'
  <2>1. hist' = hist /\ stored' = stored /\ \A q \in Observers : outbox'[q] = outbox[q]
    BY <1>6 DEF Skips, OthersKeep
  <2>2. \A e : IsTrueTo(e, hist, burnt) => IsTrueTo(e, hist, burnt')
    BY <1>6 DEF Skips, IsTrueTo
  <2>3. QED BY <1>2, <2>1, <2>2, TrueNow
<1>7. ASSUME NEW p \in Observers, Takes(p) PROVE TrueEvents'
  <2> DEFINE m == work[p]
             new == AdvanceEpisodes(m, hist[m.next + 1], InWarmup(m))
  <2>1. hist' = hist /\ burnt' = burnt /\ stored' = stored /\ work'[p] = new
        /\ outbox'[p] = outbox[p] \union Outgoing(m, new)
        /\ \A q \in Observers \ {p} : outbox'[q] = outbox[q]
    BY <1>7 DEF Takes, OthersKeep
  <2> HIDE DEF new, m
  <2>2. FaithfulTo(new, hist, burnt) /\ new \in Machine
    BY <2>1, FaithfulNow DEF HtfTypeOK
  <2>3. \A e \in Outgoing(m, new) : IsTrueTo(e, hist, burnt)
    BY <1>1, <2>2, OutgoingIsTrue DEF Outgoing
  <2>4. \A q \in Observers : \A e \in outbox'[q] : IsTrueTo(e, hist, burnt)
    BY <1>2, <2>1, <2>3
  <2>5. QED BY <1>2, <2>1, <2>4, TrueNow
<1>8. QED BY <1>3, <1>4, <1>5, <1>6, <1>7 DEF Kinds

LEMMA StillHoldsLock ==
    ASSUME ~Takeover, HtfTypeOK, HoldsLock, HtfNext
    PROVE  HoldsLock'
<1>1. \A p \in Observers : p # "free" /\ p # "dead"
  BY Constants
<1>2. CASE (\E b \in Bar : CloseBar(b)) \/ DeleteLock \/ DiscardCheckpoint
  BY <1>1, <1>2 DEF CloseBar, DeleteLock, DiscardCheckpoint, HoldsLock
<1>3. ASSUME NEW p \in Observers,
             HtfStep(p) \/ KillObserver(p) \/ \E c \in BOOLEAN : Quarantine(p, c) \/ EmitEventsFails(p, c)
      PROVE  HoldsLock'
  <2>1. CASE AcquireLease(p)
    <3>1. CASE lease = "free"
      <4>1. lease' = p /\ hpc' = [hpc EXCEPT ![p] = "held"]
        BY <2>1, <3>1 DEF AcquireLease
      <4>2. \A q \in Observers \ {p} : hpc'[q] = hpc[q]
        BY <4>1 DEF HtfTypeOK
      <4>3. \A q \in Observers : hpc[q] = "off"
        BY <1>1, <3>1 DEF HoldsLock
      <4>4. hpc'[p] = "held"
        BY <4>1 DEF HtfTypeOK
      <4>5. QED BY <4>1, <4>2, <4>3, <4>4 DEF HoldsLock
    <3>2. CASE lease # "free"
      BY <2>1, <3>2 DEF AcquireLease, HoldsLock
    <3>3. QED BY <3>1, <3>2
  <2>2. CASE SeeStale(p) \/ Unlink(p)
    BY <2>2 DEF SeeStale, Unlink, HoldsLock
  <2>3. CASE \/ \E n \in 0..MaxBars : LoadBars(p, n)
             \/ ProcessBar(p) \/ EmitEvents(p) \/ SaveCheckpoint(p)
             \/ \E c \in BOOLEAN : Quarantine(p, c)
    <3>1. lease' = lease /\ hpc[p] # "off"
          /\ (hpc' = hpc \/ \E s \in {"bars", "emitted", "saved"} : hpc' = [hpc EXCEPT ![p] = s])
      BY <2>3 DEF LoadBars, ProcessBar, EmitEvents, SaveCheckpoint, Quarantine
    <3>2. \A q \in Observers : hpc'[q] = hpc[q] \/ (q = p /\ hpc'[q] \in {"bars", "emitted", "saved"})
      BY <3>1 DEF HtfTypeOK
    <3>3. QED BY <3>1, <3>2 DEF HoldsLock
  <2>4. CASE HeartbeatLease(p)
    <3>1. lease' = lease /\ lease = p /\ hpc' = [hpc EXCEPT ![p] = "beaten"] /\ hpc[p] = "emitted"
      BY <2>4 DEF HeartbeatLease, HoldsLock
    <3>2. \A q \in Observers : hpc'[q] = hpc[q] \/ (q = p /\ hpc'[q] = "beaten")
      BY <3>1 DEF HtfTypeOK
    <3>3. QED BY <3>1, <3>2 DEF HoldsLock
  <2>5. CASE (\E c \in BOOLEAN : EmitEventsFails(p, c)) \/ EndObserverCycle(p) \/ KillObserver(p)
    <3>1. hpc[p] # "off" /\ hpc' = [hpc EXCEPT ![p] = "off"]
      BY <2>5 DEF EmitEventsFails, EndObserverCycle, KillObserver
    <3>2. lease = p
      BY <3>1 DEF HoldsLock
    <3>3. \A q \in Observers \ {p} : hpc[q] = "off"
      BY <3>2 DEF HoldsLock
    <3>4. \A q \in Observers : hpc'[q] = "off"
      BY <3>1, <3>3 DEF HtfTypeOK
    <3>5. QED BY <3>4 DEF HoldsLock
  <2>6. QED BY <1>3, <2>1, <2>2, <2>3, <2>4, <2>5 DEF HtfStep
<1>4. QED BY <1>2, <1>3 DEF HtfNext, HtfFault

-----------------------------------------------------------------------------
(* The theorems.                                                           *)

(* The inductive invariant holds in every reachable state, for any number  *)
(* of observers, levels and bars, with or without takeover.                *)
THEOREM Invariance == HtfSpec => []IInv
<1>1. HtfInit => IInv
  <2> SUFFICES ASSUME HtfInit PROVE IInv
    OBVIOUS
  <2>1. /\ hist = <<>> /\ ckpt = {} /\ lease = "free" /\ stored = {} /\ burnt = FALSE
        /\ hpc = [p \in Observers |-> "off"] /\ work = [p \in Observers |-> NewMachine]
        /\ upto = [p \in Observers |-> 0] /\ outbox = [p \in Observers |-> {}]
    BY DEF HtfInit
  <2>2. hist \in Seq(Bar) /\ Len(hist) = 0
    BY <2>1
  <2>3. HtfTypeOK
    <3>1. Cardinality(ckpt) <= 1
      BY <2>1, FS_EmptySet
    <3>2. work \in [Observers -> Machine]
      BY <2>1, NewIsMachine
    <3>3. /\ hpc \in [Observers -> {"off", "stale", "again", "held", "bars", "emitted", "beaten",
                                  "saved"}]
          /\ upto \in [Observers -> 0..MaxBars] /\ outbox \in [Observers -> SUBSET Episode]
      BY <2>1, Constants
    <3>4. stored \subseteq Episode /\ ckpt \subseteq Machine /\ burnt \in BOOLEAN
          /\ lease \in Observers \union {"free", "dead"}
      BY <2>1
    <3>5. Len(hist) <= MaxBars
      BY <2>2, Constants
    <3>6. QED BY <2>2, <3>1, <3>2, <3>3, <3>4, <3>5 DEF HtfTypeOK
  <2>4. Loaded
    BY <2>1, <2>2 DEF Loaded
  <2>5. AllFaithful
    <3>1. hist \in Histories /\ burnt \in BOOLEAN
      BY <2>3, HistoryIs DEF HtfTypeOK
    <3>2. FaithfulTo(NewMachine, hist, burnt)
      BY <3>1, NewIsFaithful
    <3>3. (\A p \in Observers : work[p] = NewMachine) /\ ckpt = {}
      BY <2>1
    <3>4. QED BY <3>2, <3>3, FaithfulNow
  <2>6. Emitted /\ NoEventLost /\ TrueEvents
    BY <2>1 DEF Emitted, NoEventLost, TrueEvents, NewMachine
  <2>7. QED BY <2>3, <2>4, <2>5, <2>6 DEF IInv
<1>2. IInv /\ [HtfNext]_htfVars => IInv'
  <2>1. ASSUME IInv, HtfNext PROVE IInv'
    <3>1. HtfTypeOK /\ Loaded /\ AllFaithful /\ Emitted /\ NoEventLost /\ TrueEvents
      BY <2>1 DEF IInv
    <3>2. HtfTypeOK' /\ Kinds
      BY <2>1, <3>1, StepKinds
    <3>3. Loaded' /\ AllFaithful'
      BY <3>1, <3>2, StillLoaded, StillFaithful
    <3>4. Emitted' /\ NoEventLost' /\ TrueEvents'
      BY <3>1, <3>2, <3>3, StillEmitted, StillTrue
    <3>5. QED BY <3>2, <3>3, <3>4 DEF IInv
  <2>2. ASSUME IInv, UNCHANGED htfVars PROVE IInv'
    <3>1. /\ hist' = hist /\ ckpt' = ckpt /\ lease' = lease /\ hpc' = hpc /\ work' = work
          /\ upto' = upto /\ outbox' = outbox /\ stored' = stored /\ burnt' = burnt
      BY <2>2 DEF htfVars
    <3>2. HtfTypeOK' /\ Loaded' /\ Emitted' /\ NoEventLost'
      BY <2>2, <3>1 DEF IInv, HtfTypeOK, Loaded, Emitted, NoEventLost, Eligible
    <3>3. AllFaithful' /\ TrueEvents'
      <4>1. AllFaithful /\ TrueEvents
        BY <2>2 DEF IInv
      <4>2. QED BY <3>1, <4>1, FaithfulNow, TrueNow
    <3>4. QED BY <3>2, <3>3 DEF IInv
  <2>3. QED BY <2>1, <2>2
<1>3. QED BY <1>1, <1>2, PTL DEF HtfSpec

(* Whatever is killed, replayed, quarantined or taken over: the checkpoint *)
(* is what an uninterrupted observer has, no confirmed event is lost, and  *)
(* every row is an event of the candles.  These three need no lock: two    *)
(* writers at work on one checkpoint do no harm to them.                   *)
THEOREM ExactlyTheEvents == HtfSpec => [](ResumeIsInvisible /\ NoEventLost /\ OnlyTrueEvents)
<1>1. IInv => ResumeIsInvisible /\ NoEventLost /\ OnlyTrueEvents
  <2> SUFFICES ASSUME IInv PROVE ResumeIsInvisible /\ NoEventLost /\ OnlyTrueEvents
    OBVIOUS
  <2>1. ResumeIsInvisible
    BY DEF IInv, AllFaithful, Faithful, SameEpisodes, ResumeIsInvisible
  <2>2. OnlyTrueEvents
    BY DEF IInv, TrueEvents, IsTrueEvent, OnlyTrueEvents, Eligible
  <2>3. QED BY <2>1, <2>2 DEF IInv
<1>2. QED BY <1>1, Invariance, PTL

(* With the default, allow_stale_takeover off, one process at a time works *)
(* on the checkpoint as well.                                              *)
THEOREM HtfSafety ==
    ASSUME Takeover = FALSE
    PROVE  HtfSpec => []HtfSafe
<1>1. HtfInit => HoldsLock
  BY DEF HtfInit, HoldsLock
<1>2. IInv /\ HoldsLock /\ [HtfNext]_htfVars => HoldsLock'
  <2>1. ASSUME IInv, HoldsLock, HtfNext PROVE HoldsLock'
    BY <2>1, StillHoldsLock DEF IInv
  <2>2. ASSUME HoldsLock, UNCHANGED htfVars PROVE HoldsLock'
    BY <2>2 DEF HoldsLock, htfVars
  <2>3. QED BY <2>1, <2>2
<1>3. HtfSpec => []HoldsLock
  BY <1>1, <1>2, Invariance, PTL DEF HtfSpec
<1>4. HoldsLock => SingleWriter
  BY DEF HoldsLock, SingleWriter
<1>5. IInv => HtfTypeOK
  BY DEF IInv
<1>6. HtfTypeOK /\ (ResumeIsInvisible /\ NoEventLost /\ OnlyTrueEvents) /\ SingleWriter => HtfSafe
  BY DEF HtfSafe
<1>7. QED BY <1>3, <1>4, <1>5, <1>6, Invariance, ExactlyTheEvents, PTL

-----------------------------------------------------------------------------
(* HtfCandleSource: the inductive invariant, in parts.                     *)

Window == WindowStart..WindowEnd

(* The first checkpoint is made at a bar of the exchange's time.           *)
ResumeSane == resume = NoResume \/ resume >= 0

(* While pages are asked for the cursor is a whole number of pages into    *)
(* the window, and no page beyond the budget has been asked for.           *)
OnThePage ==
    spc = "paging" =>
        /\ pages <= MaxPages
        /\ cursor >= WindowStart
        /\ cursor <= WindowEnd => cursor = WindowStart + pages * PageLimit

(* The bars at hand are bars of the window, and none is in both sets of    *)
(* bars for good: the strictest clock calls the unclosed ones open.        *)
Merged ==
    spc \in {"paging", "recover", "check", "returned"} =>
        /\ byOpen \subseteq Window /\ unclosed \subseteq Window
        /\ spc = "paging" => \A o \in unclosed : ~Closed(o, strict)

(* After the last page only closed bars are kept, every closed bar of the  *)
(* window is expected, and recovery looks for expected bars only.          *)
Settled ==
    spc \in {"recover", "check", "returned"} =>
        /\ \A o \in byOpen : Closed(o, strict)
        /\ \A o \in Window : Closed(o, strict) => o \in expected
        /\ gapTodo \subseteq Window

(* What is returned has passed the coverage check.                         *)
Covered == spc = "returned" => Complete

SourceInv ==
    /\ SourceTypeOK
    /\ ResumeSane
    /\ OnThePage
    /\ Merged
    /\ Settled
    /\ Covered
    /\ PlanFitsPages

-----------------------------------------------------------------------------
(* Integers.                                                               *)

LEMMA SourceNumbers ==
    /\ MinHistory \in Nat /\ MinHistory > 0 /\ PageLimit \in Nat /\ PageLimit > 0
    /\ MaxPages \in Nat /\ MaxPages > 0 /\ MaxBackfill \in Nat /\ MaxBackfill > 0
    /\ MaxGapWindows \in Nat /\ GapAttempts \in Nat /\ GapAttempts > 0
    /\ MaxLag \in Nat /\ StartClock \in Nat /\ MaxClock \in Nat
    /\ MaxLag <= StartClock /\ StartClock <= MaxClock
    /\ NoResume \in Int /\ NoResume < 0 /\ NoResume = 0 - MaxClock - MinHistory
BY SourceConstants DEF NoResume

LEMMA Products ==
    /\ MaxPages * PageLimit \in Nat /\ MinHistory <= MaxPages * PageLimit
    /\ MaxGapWindows * GapAttempts \in Nat
    /\ \A n \in Nat : n * PageLimit \in Nat /\ (n + 1) * PageLimit = n * PageLimit + PageLimit
<1>1. \A a, b \in Nat : a * b \in Nat
  OBVIOUS
<1>2. \A n \in Nat : (n + 1) * PageLimit = n * PageLimit + PageLimit
  BY SourceNumbers
<1>3. MinHistory <= MaxPages * PageLimit
  BY SourceConstants
<1>4. QED BY <1>1, <1>2, <1>3, SourceNumbers

LEMMA BatchFacts ==
    /\ BatchBars \in Int /\ BatchBars + MinHistory <= MaxPages * PageLimit
<1>1. DEFINE W == MaxPages * PageLimit
<1>2. W \in Nat /\ MinHistory <= W /\ BatchBars = Lesser(MaxBackfill, W - MinHistory)
  BY Products DEF BatchBars
<1>3. HIDE DEF W
<1>4. BatchBars \in Int /\ BatchBars + MinHistory <= W
  BY <1>2, SourceNumbers DEF Lesser
<1>5. QED BY <1>4 DEF W

(* A nonempty set of integers between two bounds has its extremes.         *)
LEMMA Extremes ==
    ASSUME NEW a \in Int, NEW b \in Int, NEW S, S \subseteq a..b, S # {}
    PROVE  /\ Min(S) \in S /\ \A k \in S : Min(S) <= k
           /\ Max(S) \in S /\ \A k \in S : k <= Max(S)
<1> DEFINE R == OpToRel(<, Nat)
<1>1. R = {ss \in Nat \X Nat : ss[1] < ss[2]} /\ IsWellFoundedOn(R, Nat)
  BY NatLessThanWellFounded DEF OpToRel
<1> HIDE DEF R
<1>2. ASSUME NEW T, T \subseteq Nat, T # {}
      PROVE  \E m \in T : \A k \in T : m <= k
  <2>1. PICK m \in T : \A y \in T : ~(<<y, m>> \in R)
    BY <1>1, <1>2, WFMin
  <2>2. \A y \in T : ~(y < m)
    BY <1>1, <1>2, <2>1
  <2>3. QED BY <1>2, <2>1, <2>2
<1>3. \E m \in S : \A k \in S : m <= k
  <2> DEFINE T == {n \in Nat : a + n \in S}
  <2>1. T \subseteq Nat /\ T # {}
    <3>1. PICK s \in S : TRUE
      OBVIOUS
    <3>2. s - a \in Nat /\ a + (s - a) = s
      BY <3>1
    <3>3. QED BY <3>1, <3>2
  <2>2. PICK m \in T : \A k \in T : m <= k
    BY <1>2, <2>1
  <2>3. ASSUME NEW k \in S
        PROVE  a + m <= k
    <3>1. k - a \in Nat /\ a + (k - a) = k
      BY <2>3
    <3>2. k - a \in T
      BY <3>1
    <3>3. QED BY <2>2, <3>1, <3>2
  <2>4. QED BY <2>2, <2>3
<1>4. \E m \in S : \A k \in S : m >= k
  <2> DEFINE T == {n \in Nat : b - n \in S}
  <2>1. T \subseteq Nat /\ T # {}
    <3>1. PICK s \in S : TRUE
      OBVIOUS
    <3>2. b - s \in Nat /\ b - (b - s) = s
      BY <3>1
    <3>3. QED BY <3>1, <3>2
  <2>2. PICK m \in T : \A k \in T : m <= k
    BY <1>2, <2>1
  <2>3. ASSUME NEW k \in S
        PROVE  b - m >= k
    <3>1. b - k \in Nat /\ b - (b - k) = k
      BY <2>3
    <3>2. b - k \in T
      BY <3>1
    <3>3. m <= b - k
      BY <2>2, <3>2
    <3>4. m \in Int /\ k \in Int
      BY <2>1, <2>2, <2>3
    <3>5. QED BY <3>3, <3>4
  <2>4. QED BY <2>2, <2>3
<1>5. Min(S) \in S /\ \A k \in S : Min(S) <= k
  BY <1>3 DEF Min
<1>6. Max(S) \in S /\ \A k \in S : Max(S) >= k
  BY <1>4 DEF Max
<1>7. \A k \in S : k \in Int
  OBVIOUS
<1>8. QED BY <1>5, <1>6, <1>7

(* Where a window can be: within the bounds of time, no longer than the    *)
(* page budget, and with the history before the bar to resume at.          *)
LEMMA WindowFacts ==
    ASSUME resume \in Opens, asOfOpen \in 0..MaxClock, ResumeSane
    PROVE  /\ WindowStart \in Opens /\ WindowEnd \in Int
           /\ WindowEnd <= asOfOpen - 1 /\ WindowEnd <= MaxClock
           /\ WindowEnd < WindowStart + MaxPages * PageLimit
           /\ resume = NoResume => WindowStart = asOfOpen - MinHistory
           /\ resume # NoResume => WindowStart <= resume - MinHistory + 1
<1> DEFINE W == MaxPages * PageLimit
<1>1. /\ W \in Nat /\ MinHistory <= W
      /\ BatchBars \in Int /\ BatchBars + MinHistory <= W
  BY Products, BatchFacts
<1>2. resume \in Int /\ asOfOpen \in Int /\ asOfOpen >= 0 /\ asOfOpen <= MaxClock /\ resume <= MaxClock
  BY SourceNumbers DEF Opens
<1> HIDE DEF W
<1>3. EndOpen = asOfOpen - 1 /\ SteadyStart = asOfOpen - MinHistory
  BY <1>2, SourceNumbers DEF EndOpen, SteadyStart
<1>4. CASE resume = NoResume
  <2>1. WindowStart = asOfOpen - MinHistory /\ WindowEnd = asOfOpen - 1
    BY <1>3, <1>4 DEF WindowStart, WindowEnd
  <2>2. WindowStart \in Opens /\ WindowEnd < WindowStart + W
    BY <1>1, <1>2, <2>1, SourceNumbers DEF Opens
  <2>3. QED BY <1>2, <1>4, <2>1, <2>2, SourceNumbers DEF W
<1>5. CASE resume # NoResume
  <2>1. resume >= 0
    BY <1>5 DEF ResumeSane
  <2>2. /\ WindowStart = Lesser(resume - (MinHistory - 1), asOfOpen - MinHistory)
        /\ WindowEnd = Lesser(asOfOpen - 1, resume + BatchBars - 1)
    BY <1>3, <1>5 DEF WindowStart, WindowEnd
  <2>3. WindowStart \in Opens /\ WindowStart <= resume - MinHistory + 1
    BY <1>2, <2>1, <2>2, SourceNumbers DEF Opens, Lesser
  <2>4. WindowEnd \in Int /\ WindowEnd <= asOfOpen - 1 /\ WindowEnd <= MaxClock
    BY <1>1, <1>2, <2>2, SourceNumbers DEF Lesser
  <2>5. WindowEnd < WindowStart + W
    BY <1>1, <1>2, <2>2, SourceNumbers DEF Lesser
  <2>6. QED BY <1>5, <2>3, <2>4, <2>5 DEF W
<1>6. QED BY <1>4, <1>5

-----------------------------------------------------------------------------
(* Initial states and steps.                                               *)

LEMMA InitHolds == SourceInit => SourceInv
<1> SUFFICES ASSUME SourceInit
             PROVE  SourceInv
  OBVIOUS
<1>1. SourceTypeOK
  <2>1. 0 \in 0..(MaxGapWindows * GapAttempts)
    BY Products
  <2>2. QED BY <2>1, SourceNumbers DEF SourceInit, SourceTypeOK, Opens
<1>2. QED BY <1>1 DEF SourceInv, SourceInit, ResumeSane, OnThePage, Merged, Settled, Covered, PlanFitsPages

(* In a loading state the window is where WindowFacts says.                *)
LEMMA Here ==
    ASSUME SourceInv
    PROVE  /\ WindowStart \in Opens /\ WindowStart \in Int /\ WindowEnd \in Int
           /\ WindowEnd <= asOfOpen - 1 /\ WindowEnd <= MaxClock
           /\ WindowEnd < WindowStart + MaxPages * PageLimit
           /\ resume = NoResume => WindowStart = asOfOpen - MinHistory
           /\ resume # NoResume => WindowStart <= resume - MinHistory + 1
           /\ Window \subseteq Opens
<1>1. resume \in Opens /\ asOfOpen \in 0..MaxClock /\ ResumeSane
  BY DEF SourceInv, SourceTypeOK
<1>2. QED BY <1>1, WindowFacts, SourceNumbers DEF Opens, Window

LEMMA SameWindow ==
    ASSUME UNCHANGED <<resume, asOfOpen>>
    PROVE  WindowStart' = WindowStart /\ WindowEnd' = WindowEnd /\ Window' = Window
BY DEF WindowStart, WindowEnd, Window, SteadyStart, EndOpen

(* A load starts with an empty merge at the start of its window.           *)
LEMMA StartLoadKeeps ==
    ASSUME SourceInv, NEW t \in PageAnswers, StartLoad(t)
    PROVE  SourceInv'
<1>1. SourceTypeOK /\ ResumeSane
  BY DEF SourceInv
<1>2. t \in Int /\ t >= 0 /\ t <= sourceClock /\ sourceClock \in StartClock..MaxClock
  BY <1>1, SourceNumbers DEF SourceTypeOK, PageAnswers
<1>3. /\ asOfOpen' = t /\ strict' = t /\ sourceClock' = sourceClock /\ resume' = resume
      /\ pages' = 0 /\ byOpen' = {} /\ unclosed' = {} /\ expected' = {} /\ gapTodo' = {}
      /\ gapAttempt' = 1 /\ requests' = 0
  BY DEF StartLoad
<1>a. (spc' = "failed" /\ cursor' = cursor) \/ (spc' = "paging" /\ cursor' = WindowStart')
  BY DEF StartLoad
<1>4. WindowStart' \in Opens /\ WindowStart' \in Int
  <2>1. /\ resume \in Int /\ resume <= MaxClock /\ (resume = NoResume \/ resume >= 0)
        /\ t \in Int /\ t >= 0 /\ t <= MaxClock
    BY <1>1, <1>2, SourceNumbers DEF SourceTypeOK, ResumeSane, Opens
  <2>2. SteadyStart' = t - MinHistory
    BY <1>3, <2>1, SourceNumbers DEF SteadyStart, EndOpen
  <2>3. \/ WindowStart' = t - MinHistory
        \/ resume >= 0 /\ WindowStart' = Lesser(resume - (MinHistory - 1), t - MinHistory)
    BY <1>3, <2>1, <2>2 DEF WindowStart
  <2>4. t - MinHistory \in Int /\ t - MinHistory <= MaxClock /\ NoResume <= t - MinHistory
    BY <2>1, SourceNumbers
  <2>5. resume >= 0 => /\ resume - (MinHistory - 1) \in Int
                       /\ resume - (MinHistory - 1) <= MaxClock
                       /\ NoResume <= resume - (MinHistory - 1)
    BY <2>1, SourceNumbers
  <2>6. QED BY <2>3, <2>4, <2>5, SourceNumbers DEF Opens, Lesser
<1>5. SourceTypeOK'
  <2>1. 0 \in 0..(MaxGapWindows * GapAttempts)
    BY Products
  <2>2. cursor' \in Opens
    BY <1>1, <1>a, <1>4 DEF SourceTypeOK
  <2>3. asOfOpen' \in 0..MaxClock /\ strict' \in (0 - MaxLag)..MaxClock /\ resume' \in Opens
    BY <1>1, <1>2, <1>3, SourceNumbers DEF SourceTypeOK
  <2>4. spc' \in {"paging", "failed"} /\ 0 \in 0..(MaxPages + 1) /\ 1 \in 1..GapAttempts
    BY <1>a, SourceNumbers
  <2>5. QED BY <1>2, <1>3, <2>1, <2>2, <2>3, <2>4 DEF SourceTypeOK
<1>6. ResumeSane' /\ PlanFitsPages'
  BY <1>1, <1>3, <1>a DEF ResumeSane, PlanFitsPages
<1>7. OnThePage'
  <2>1. 0 * PageLimit = 0
    BY SourceNumbers
  <2>2. spc' = "paging" => cursor' = WindowStart' /\ pages' = 0
    BY <1>3, <1>a
  <2>3. spc' = "paging" => cursor' = WindowStart' + pages' * PageLimit
    BY <1>4, <2>1, <2>2
  <2>4. spc' = "paging" => pages' <= MaxPages /\ cursor' >= WindowStart'
    BY <1>4, <2>2, SourceNumbers
  <2>5. QED BY <2>3, <2>4 DEF OnThePage
<1>8. Merged' /\ Settled' /\ Covered'
  BY <1>3, <1>a DEF Merged, Settled, Covered
<1>9. QED BY <1>5, <1>6, <1>7, <1>8 DEF SourceInv

(* A page is a part of the window, one page further on; a strictest clock  *)
(* that falls leaves every unclosed bar unclosed.  The budget is not       *)
(* exceeded, since MaxPages pages are longer than any window.              *)
LEMMA FetchPageKeeps ==
    ASSUME SourceInv, NEW t \in PageAnswers, NEW rows \in SUBSET (cursor..PageEnd), FetchPage(rows, t)
    PROVE  SourceInv'
<1>1. /\ SourceTypeOK /\ ResumeSane /\ OnThePage /\ Merged
      /\ spc = "paging" /\ cursor <= WindowEnd
  BY DEF SourceInv, FetchPage
<1>2. /\ cursor \in Int /\ pages \in Nat /\ pages <= MaxPages /\ cursor >= WindowStart
      /\ cursor = WindowStart + pages * PageLimit
  BY <1>1, SourceNumbers DEF SourceTypeOK, OnThePage, Opens
<1>3. pages < MaxPages
  <2>1. SUFFICES ASSUME pages = MaxPages
                 PROVE  FALSE
    BY <1>2, SourceNumbers
  <2>2. cursor = WindowStart + MaxPages * PageLimit
    BY <1>2, <2>1
  <2>3. QED BY <1>1, <2>2, Here, Products
<1>4. /\ pages' = pages + 1 /\ strict' = Lesser(strict, t)
      /\ byOpen' = byOpen \union {o \in rows : Closed(o, strict')}
      /\ unclosed' = unclosed \union {o \in rows : ~Closed(o, strict')}
      /\ cursor' = PageEnd + 1 /\ spc' = "paging"
      /\ sourceClock' = sourceClock /\ resume' = resume /\ asOfOpen' = asOfOpen
      /\ expected' = expected /\ gapTodo' = gapTodo /\ gapAttempt' = gapAttempt
      /\ requests' = requests
  BY <1>1, <1>2, <1>3, SourceNumbers DEF FetchPage, Stricter
<1>5. WindowStart' = WindowStart /\ WindowEnd' = WindowEnd /\ Window' = Window
  BY <1>4, SameWindow
<1>6. /\ PageEnd \in Int /\ PageEnd <= WindowEnd /\ PageEnd >= cursor
      /\ PageEnd < WindowEnd => PageEnd = cursor + PageLimit - 1
  BY <1>1, <1>2, Here, SourceNumbers DEF PageEnd, Lesser
<1>7. rows \subseteq Window
  BY <1>2, <1>6, Here DEF Window
<1>8. /\ strict' \in Int /\ strict' <= strict /\ strict \in Int
      /\ strict' \in (0 - MaxLag)..MaxClock
  BY <1>1, <1>4, SourceNumbers DEF SourceTypeOK, PageAnswers, Lesser
<1>9. SourceTypeOK'
  <2>1. cursor' \in Opens /\ pages' \in 0..(MaxPages + 1)
    <3>1. WindowStart >= NoResume /\ WindowStart \in Int /\ asOfOpen \in Int /\ asOfOpen <= MaxClock
      BY <1>1, Here, SourceNumbers DEF Opens, SourceTypeOK
    <3>2. cursor' \in Int /\ cursor' >= NoResume /\ cursor' <= MaxClock
      BY <1>2, <1>4, <1>6, <3>1, Here, SourceNumbers
    <3>3. QED BY <1>2, <1>3, <1>4, <3>2, SourceNumbers DEF Opens
  <2>2. byOpen' \subseteq Opens /\ unclosed' \subseteq Opens
    BY <1>1, <1>4, <1>7, Here DEF SourceTypeOK
  <2>3. QED BY <1>1, <1>4, <1>8, <2>1, <2>2 DEF SourceTypeOK
<1>10. ResumeSane' /\ PlanFitsPages'
  BY <1>1, <1>4 DEF ResumeSane, PlanFitsPages
<1>11. OnThePage'
  <2>1. pages' * PageLimit = pages * PageLimit + PageLimit /\ pages * PageLimit \in Int
    BY <1>2, <1>4, Products
  <2>2. cursor' <= WindowEnd' => cursor' = cursor + PageLimit
    BY <1>2, <1>4, <1>5, <1>6, Here, SourceNumbers
  <2>3. cursor + PageLimit = WindowStart + (pages * PageLimit + PageLimit)
    BY <1>2, <2>1, Here, SourceNumbers
  <2>4. pages' <= MaxPages /\ cursor' >= WindowStart'
    BY <1>2, <1>3, <1>4, <1>5, <1>6, Here, SourceNumbers
  <2>5. QED BY <1>5, <2>1, <2>2, <2>3, <2>4 DEF OnThePage
<1>12. Merged'
  <2>1. byOpen' \subseteq Window' /\ unclosed' \subseteq Window'
    BY <1>1, <1>4, <1>5, <1>7 DEF Merged
  <2>2. ASSUME NEW o \in unclosed'
        PROVE  ~Closed(o, strict')
    <3>1. CASE o \in rows /\ ~Closed(o, strict')
      BY <3>1
    <3>2. CASE o \in unclosed
      <4>1. ~Closed(o, strict) /\ o \in Int
        BY <1>1, <3>2, Here, SourceNumbers DEF Merged, SourceTypeOK, Opens
      <4>2. QED BY <1>8, <4>1 DEF Closed
    <3>3. QED BY <1>4, <2>2, <3>1, <3>2
  <2>3. QED BY <2>1, <2>2 DEF Merged
<1>13. Settled' /\ Covered'
  BY <1>4 DEF Settled, Covered
<1>14. QED BY <1>9, <1>10, <1>11, <1>12, <1>13 DEF SourceInv

(* After the last page what the strictest clock calls open is dropped, and *)
(* a closed bar is neither dropped nor among the unclosed ones.            *)
LEMMA SettlePagesKeeps ==
    ASSUME SourceInv, SettlePages
    PROVE  SourceInv'
<1> DEFINE open == {o \in byOpen : ~Closed(o, strict)}
           want == (WindowStart..WindowEnd) \ (unclosed \union open)
           missing == want \ byOpen
<1>1. /\ SourceTypeOK /\ ResumeSane /\ Merged /\ spc = "paging"
      /\ byOpen \subseteq Window /\ unclosed \subseteq Window
      /\ \A o \in unclosed : ~Closed(o, strict)
  BY DEF SourceInv, SettlePages, Merged
<1>2. /\ byOpen' = byOpen \ open /\ unclosed' = unclosed \union open
      /\ expected' = want /\ gapTodo' = missing
      /\ sourceClock' = sourceClock /\ resume' = resume /\ asOfOpen' = asOfOpen
      /\ strict' = strict /\ cursor' = cursor /\ pages' = pages
      /\ gapAttempt' = gapAttempt /\ requests' = requests
  BY DEF SettlePages
<1>3. spc' \in {"failed", "check", "recover"}
  BY DEF SettlePages
<1>4. /\ open \subseteq byOpen /\ (\A o \in open : ~Closed(o, strict))
      /\ (\A o \in byOpen \ open : Closed(o, strict))
      /\ want \subseteq Window /\ missing \subseteq Window
      /\ (\A o \in Window : o \in want \/ o \in unclosed \/ o \in open)
  BY DEF Window
<1>5. WindowStart' = WindowStart /\ WindowEnd' = WindowEnd /\ Window' = Window
  BY <1>2, SameWindow
<1> HIDE DEF open, want, missing
<1>6. SourceTypeOK'
  <2>1. byOpen' \union unclosed' \union expected' \union gapTodo' \subseteq Opens
    BY <1>1, <1>2, <1>4, Here
  <2>2. QED BY <1>1, <1>2, <1>3, <2>1 DEF SourceTypeOK
<1>7. ResumeSane' /\ PlanFitsPages' /\ OnThePage' /\ Covered'
  BY <1>1, <1>2, <1>3 DEF ResumeSane, PlanFitsPages, OnThePage, Covered
<1>8. Merged'
  BY <1>1, <1>2, <1>3, <1>4, <1>5 DEF Merged
<1>9. Settled'
  <2>1. \A o \in byOpen' : Closed(o, strict')
    BY <1>2, <1>4
  <2>2. \A o \in Window' : Closed(o, strict') => o \in expected'
    BY <1>1, <1>2, <1>4, <1>5
  <2>3. QED BY <1>2, <1>4, <1>5, <2>1, <2>2 DEF Settled
<1>10. QED BY <1>6, <1>7, <1>8, <1>9 DEF SourceInv

(* The bars recovery asks for are bars of the window.                      *)
LEMMA GapPageInWindow ==
    ASSUME SourceInv, spc = "recover", gapTodo # {}
    PROVE  GapPage \subseteq Window
<1>1. gapTodo \subseteq Window
  BY DEF SourceInv, Settled
<1>2. gapTodo \subseteq WindowStart..WindowEnd
  BY <1>1 DEF Window
<1>3. WindowStart \in Int /\ WindowEnd \in Int
  BY Here
<1>a. \A k \in gapTodo : k \in Int /\ WindowStart <= k /\ k <= WindowEnd
  BY <1>2, <1>3
<1>4. Min(gapTodo) \in gapTodo /\ Min(gapTodo) \in Int
  <2>1. Min(gapTodo) \in gapTodo
    BY <1>2, <1>3, Extremes
  <2>2. QED BY <1>a, <2>1
<1>5. FirstRun(gapTodo) \subseteq gapTodo /\ Min(gapTodo) \in FirstRun(gapTodo)
  <2> DEFINE m == Min(gapTodo)
  <2>1. m \in gapTodo /\ m \in Int
    BY <1>4
  <2>2. FirstRun(gapTodo) = {o \in gapTodo : \A k \in m..o : k \in gapTodo}
    BY DEF FirstRun
  <2> HIDE DEF m
  <2>3. \A k \in m..m : k = m
    BY <2>1
  <2>4. m \in FirstRun(gapTodo)
    BY <2>1, <2>2, <2>3
  <2>5. QED BY <2>2, <2>4 DEF m
<1>6. Max(FirstRun(gapTodo)) \in gapTodo
  BY <1>2, <1>3, <1>5, Extremes
<1> DEFINE m == Min(gapTodo)
           n == Max(FirstRun(gapTodo))
<1>7. /\ m \in Int /\ n \in Int /\ WindowStart <= m /\ n <= WindowEnd
      /\ GapPage = m..Lesser(n, m + PageLimit - 1)
  BY <1>a, <1>4, <1>6 DEF GapPage
<1> HIDE DEF m, n
<1>8. Lesser(n, m + PageLimit - 1) \in Int /\ Lesser(n, m + PageLimit - 1) <= WindowEnd
  BY <1>3, <1>7, SourceNumbers DEF Lesser
<1>9. QED BY <1>3, <1>7, <1>8 DEF Window

(* A gap request adds closed bars of the window, and only drops bars from  *)
(* the list of those to look for.                                          *)
LEMMA FetchGapKeeps ==
    ASSUME SourceInv, NEW t \in PageAnswers, NEW rows \in SUBSET GapPage, FetchGap(rows, t)
    PROVE  SourceInv'
<1> DEFINE limit == Lesser(strict, t)
<1>1. /\ SourceTypeOK /\ ResumeSane /\ spc = "recover" /\ gapTodo # {}
      /\ byOpen \subseteq Window /\ unclosed \subseteq Window /\ gapTodo \subseteq Window
      /\ \A o \in byOpen : Closed(o, strict)
      /\ \A o \in Window : Closed(o, strict) => o \in expected
  BY DEF SourceInv, FetchGap, Merged, Settled
<1>2. /\ byOpen' = byOpen \union {o \in rows : Closed(o, limit)}
      /\ unclosed' = unclosed \union {o \in rows : ~Closed(o, limit)}
      /\ requests < MaxGapWindows * GapAttempts /\ requests' = requests + 1
      /\ sourceClock' = sourceClock /\ resume' = resume /\ asOfOpen' = asOfOpen
      /\ strict' = strict /\ cursor' = cursor /\ pages' = pages /\ expected' = expected
      /\ spc' = spc
  BY DEF FetchGap
<1>3. /\ gapTodo' \subseteq gapTodo
      /\ gapAttempt' = 1 \/ (gapAttempt < GapAttempts /\ gapAttempt' = gapAttempt + 1)
  <2>1. IF GapPage \subseteq byOpen'
        THEN gapTodo' = gapTodo \ GapPage /\ gapAttempt' = 1
        ELSE IF gapAttempt < GapAttempts THEN gapTodo' = gapTodo /\ gapAttempt' = gapAttempt + 1
        ELSE gapTodo' = gapTodo \ FirstRun(gapTodo) /\ gapAttempt' = 1
    BY DEF FetchGap
  <2>2. \A X : gapTodo \ X \subseteq gapTodo
    OBVIOUS
  <2>3. QED BY <2>1, <2>2
<1>4. limit \in Int /\ limit <= strict /\ strict \in Int
  BY <1>1, SourceNumbers DEF SourceTypeOK, PageAnswers, Lesser
<1> HIDE DEF limit
<1>5. rows \subseteq Window /\ Window \subseteq Opens
  BY <1>1, GapPageInWindow, Here
<1>6. \A o \in byOpen' : Closed(o, strict)
  <2>1. ASSUME NEW o \in rows, Closed(o, limit)
        PROVE  Closed(o, strict)
    <3>1. o \in Int
      BY <1>5, SourceNumbers DEF Opens
    <3>2. QED BY <1>4, <2>1, <3>1 DEF Closed
  <2>2. QED BY <1>1, <1>2, <2>1
<1>7. WindowStart' = WindowStart /\ WindowEnd' = WindowEnd /\ Window' = Window
  BY <1>2, SameWindow
<1>8. SourceTypeOK'
  <2>1. byOpen' \union unclosed' \union expected' \union gapTodo' \subseteq Opens
    BY <1>1, <1>2, <1>3, <1>5 DEF SourceTypeOK
  <2>2. gapAttempt' \in 1..GapAttempts
    BY <1>1, <1>3, SourceNumbers DEF SourceTypeOK
  <2>3. requests' \in 0..(MaxGapWindows * GapAttempts)
    <3>1. requests \in 0..(MaxGapWindows * GapAttempts)
      BY <1>1 DEF SourceTypeOK
    <3>2. QED BY <1>2, <3>1, Products
  <2>4. QED BY <1>1, <1>2, <2>1, <2>2, <2>3 DEF SourceTypeOK
<1>9. ResumeSane' /\ PlanFitsPages' /\ OnThePage' /\ Covered'
  BY <1>1, <1>2 DEF ResumeSane, PlanFitsPages, OnThePage, Covered
<1>10. Merged'
  BY <1>1, <1>2, <1>5, <1>7 DEF Merged
<1>11. Settled'
  <2>1. gapTodo' \subseteq Window' /\ \A o \in Window' : Closed(o, strict') => o \in expected'
    BY <1>1, <1>2, <1>3, <1>7
  <2>2. QED BY <1>2, <1>6, <2>1 DEF Settled
<1>12. QED BY <1>8, <1>9, <1>10, <1>11 DEF SourceInv

(* The steps that only move on, give up, or let a bar close.               *)
LEMMA ControlKeeps ==
    ASSUME SourceInv, SourceTick \/ RequestFails \/ GapBudgetSpent \/ RecoveryOver \/ ReturnBars
    PROVE  SourceInv'
<1>1. /\ resume' = resume /\ asOfOpen' = asOfOpen /\ strict' = strict /\ cursor' = cursor
      /\ pages' = pages /\ byOpen' = byOpen /\ unclosed' = unclosed /\ expected' = expected
      /\ gapTodo' = gapTodo /\ gapAttempt' = gapAttempt /\ requests' = requests
  BY DEF SourceTick, RequestFails, GapBudgetSpent, RecoveryOver, ReturnBars
<1>2. /\ spc' = spc \/ spc' = "failed"
         \/ (spc = "recover" /\ spc' = "check")
         \/ (spc = "check" /\ spc' = "returned" /\ Complete)
      /\ spc' = spc => spc \in {"idle", "failed"}
      /\ sourceClock' = sourceClock \/ (sourceClock < MaxClock /\ sourceClock' = sourceClock + 1)
  BY DEF SourceTick, RequestFails, GapBudgetSpent, RecoveryOver, ReturnBars
<1>3. WindowStart' = WindowStart /\ WindowEnd' = WindowEnd /\ Window' = Window
  BY <1>1, SameWindow
<1>4. SourceTypeOK'
  <2>1. SourceTypeOK /\ spc' \in {"idle", "failed", "check", "returned"}
    BY <1>2 DEF SourceInv
  <2>2. sourceClock' \in StartClock..MaxClock
    BY <1>2, <2>1, SourceNumbers DEF SourceTypeOK
  <2>3. QED BY <1>1, <2>1, <2>2 DEF SourceTypeOK
<1>5. ResumeSane' /\ PlanFitsPages' /\ OnThePage'
  BY <1>1, <1>2 DEF SourceInv, ResumeSane, PlanFitsPages, OnThePage
<1>6. Merged'
  BY <1>1, <1>2, <1>3 DEF SourceInv, Merged
<1>7. Settled'
  BY <1>1, <1>2, <1>3 DEF SourceInv, Settled
<1>8. Covered'
  BY <1>1, <1>2 DEF Covered, Complete
<1>9. QED BY <1>4, <1>5, <1>6, <1>7, <1>8 DEF SourceInv

-----------------------------------------------------------------------------
(* What is returned is the window up to its last closed bar, and it is as  *)
(* long as the history a level needs.                                      *)
LEMMA Whole ==
    ASSUME SourceInv, spc = "returned"
    PROVE  /\ byOpen = WindowStart..LastBar
           /\ \A o \in WindowStart..WindowEnd : o \in byOpen <=> Closed(o, strict)
           /\ LastBar \in Int /\ LastBar <= WindowEnd
           /\ LastBar - WindowStart + 1 >= MinHistory
<1>1. /\ byOpen \subseteq Window /\ expected \subseteq byOpen /\ Cardinality(byOpen) >= MinHistory
      /\ \A o \in byOpen : Closed(o, strict)
      /\ \A o \in Window : Closed(o, strict) => o \in expected
      /\ strict \in Int
  BY SourceNumbers DEF SourceInv, Merged, Settled, Covered, Complete, SourceTypeOK
<1>2. WindowStart \in Int /\ WindowEnd \in Int /\ Window = WindowStart..WindowEnd
  BY Here DEF Window
<1>3. \A o \in Window : o \in byOpen <=> Closed(o, strict)
  BY <1>1
<1>4. byOpen # {}
  BY <1>1, FS_EmptySet, SourceNumbers
<1>5. LastBar \in byOpen /\ \A k \in byOpen : k <= LastBar
  BY <1>1, <1>2, <1>4, Extremes DEF LastBar
<1>6. LastBar \in Int /\ LastBar <= WindowEnd /\ LastBar >= WindowStart
  BY <1>1, <1>2, <1>5
<1>7. ASSUME NEW o \in WindowStart..LastBar
      PROVE  o \in byOpen
  <2>1. o \in Window /\ o \in Int /\ o <= LastBar
    BY <1>2, <1>6
  <2>2. Closed(o, strict)
    BY <1>1, <1>5, <1>6, <2>1 DEF Closed
  <2>3. QED BY <1>3, <2>1, <2>2
<1>8. byOpen = WindowStart..LastBar
  <2>1. ASSUME NEW o \in byOpen
        PROVE  o \in WindowStart..LastBar
    BY <1>1, <1>2, <1>5, <1>6
  <2>2. QED BY <1>7, <2>1
<1>9. Cardinality(byOpen) = LastBar - WindowStart + 1
  BY <1>2, <1>6, <1>8, FS_Interval
<1>10. QED BY <1>1, <1>2, <1>3, <1>6, <1>8, <1>9

(* The next load resumes in the exchange's time.                           *)
LEMMA ConsumeKeeps ==
    ASSUME SourceInv, Consume
    PROVE  SourceInv'
<1>1. /\ SourceTypeOK /\ ResumeSane /\ spc = "returned" /\ spc' = "idle"
      /\ sourceClock' = sourceClock /\ asOfOpen' = asOfOpen /\ strict' = strict
      /\ cursor' = cursor /\ pages' = pages /\ byOpen' = byOpen /\ unclosed' = unclosed
      /\ expected' = expected /\ gapTodo' = gapTodo /\ gapAttempt' = gapAttempt
      /\ requests' = requests
      /\ resume' = IF LastBar + 1 > resume THEN LastBar + 1 ELSE resume
  BY DEF SourceInv, Consume
<1>2. /\ resume \in Int /\ resume <= MaxClock /\ resume >= NoResume
      /\ asOfOpen \in Int /\ asOfOpen >= 0 /\ asOfOpen <= MaxClock
  BY <1>1, SourceNumbers DEF SourceTypeOK, Opens
<1>3. /\ LastBar \in Int /\ LastBar + 1 <= asOfOpen
      /\ resume = NoResume => LastBar + 1 >= asOfOpen
  BY <1>1, <1>2, Whole, Here, SourceNumbers
<1>4. resume' \in Int /\ resume' >= 0 /\ resume' <= MaxClock
  <2>1. CASE resume = NoResume
    BY <1>1, <1>2, <1>3, <2>1, SourceNumbers
  <2>2. CASE resume # NoResume
    <3>1. resume >= 0
      BY <1>1, <2>2 DEF ResumeSane
    <3>2. LastBar + 1 \in Int /\ LastBar + 1 <= MaxClock
      BY <1>2, <1>3, SourceNumbers
    <3>3. QED BY <1>1, <1>2, <3>1, <3>2, SourceNumbers
  <2>3. QED BY <2>1, <2>2
<1>5. SourceTypeOK'
  <2>1. resume' \in Opens
    BY <1>4, SourceNumbers DEF Opens
  <2>2. QED BY <1>1, <2>1 DEF SourceTypeOK
<1>6. QED BY <1>1, <1>4, <1>5 DEF SourceInv, ResumeSane, OnThePage, Merged, Settled, Covered, PlanFitsPages

LEMMA StepKeeps == SourceInv /\ [SourceNext]_sourceVars => SourceInv'
<1> SUFFICES ASSUME SourceInv, [SourceNext]_sourceVars
             PROVE  SourceInv'
  OBVIOUS
<1>1. CASE UNCHANGED sourceVars
  BY <1>1 DEF sourceVars, SourceInv, SourceTypeOK, ResumeSane, OnThePage, Merged, Settled, Covered,
              Complete, PlanFitsPages, Window, WindowStart, WindowEnd, SteadyStart, EndOpen
<1>2. CASE SourceNext
  <2>1. sourceClock \in PageAnswers
    BY SourceNumbers DEF SourceInv, SourceTypeOK, PageAnswers
  <2>2. CASE \E t \in PageAnswers : StartLoad(t)
    BY <2>2, StartLoadKeeps
  <2>3. CASE \E t \in PageAnswers : \E rows \in SUBSET (cursor..PageEnd) : FetchPage(rows, t)
    BY <2>3, FetchPageKeeps
  <2>4. CASE \E t \in PageAnswers : \E rows \in SUBSET GapPage : FetchGap(rows, t)
    BY <2>4, FetchGapKeeps
  <2>5. CASE SourceTick \/ RequestFails \/ GapBudgetSpent \/ RecoveryOver \/ ReturnBars
    BY <2>5, ControlKeeps
  <2>6. CASE SettlePages
    BY <2>6, SettlePagesKeeps
  <2>7. CASE Consume
    BY <2>7, ConsumeKeeps
  <2>8. cursor..PageEnd \in SUBSET (cursor..PageEnd) /\ GapPage \in SUBSET GapPage
    OBVIOUS
  <2>9. QED BY <1>2, <2>1, <2>2, <2>3, <2>4, <2>5, <2>6, <2>7, <2>8 DEF SourceNext, LoadProgress
<1>3. QED BY <1>1, <1>2

-----------------------------------------------------------------------------
(* The inductive invariant holds in every reachable state of the candle    *)
(* source, whatever the exchange answers.                                  *)
THEOREM SourceInvariance == SourceSpec => []SourceInv
<1>1. QED BY InitHolds, StepKeeps, PTL DEF SourceSpec

(* load returns the window without a hole up to its last closed bar, a     *)
(* backfill skips nothing however long the observer was down, and the plan *)
(* of _plan_window always fits the page budget.                            *)
THEOREM SourceSafety == SourceSpec => []SourceSafe
<1>1. SourceInv => SourceSafe
  <2> SUFFICES ASSUME SourceInv
               PROVE  SourceSafe
    OBVIOUS
  <2>1. SourceTypeOK /\ PlanFitsPages
    BY DEF SourceInv
  <2>2. ReturnedIsWhole
    BY Whole DEF ReturnedIsWhole
  <2>3. BackfillIsGapless
    <3>1. SUFFICES ASSUME spc = "returned", resume # NoResume
                   PROVE  (resume - MinHistory + 1)..LastBar \subseteq byOpen
      BY DEF BackfillIsGapless
    <3>2. byOpen = WindowStart..LastBar /\ LastBar \in Int
      BY <3>1, Whole
    <3>3. WindowStart \in Int /\ WindowStart <= resume - MinHistory + 1
      BY <3>1, Here
    <3>4. resume \in Int
      BY <2>1, SourceNumbers DEF SourceTypeOK, Opens
    <3>5. QED BY <3>2, <3>3, <3>4, SourceNumbers
  <2>4. QED BY <2>1, <2>2, <2>3 DEF SourceSafe
<1>2. QED BY <1>1, SourceInvariance, PTL
=============================================================================

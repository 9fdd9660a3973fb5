----------------------------- MODULE OutcomeProofs -----------------------------
(***************************************************************************)
(* Proofs about the runtimes that follow signals to their outcomes.        *)
(*                                                                         *)
(* MeShortForward: a candidate the cursor has passed has its lineage, the  *)
(* chain from signal to outcome has no dangling end, and nothing is        *)
(* written without an activation.                                          *)
(*                                                                         *)
(* OutcomeEvaluator: a final row is complete and stays final, and nothing  *)
(* that was evaluated is lost, for any number of overlapping evaluations.  *)
(*                                                                         *)
(* SrrShortOutcome: a final class is what the price did, tick by tick, for *)
(* every path of the price and every answer of the exchange.               *)
(***************************************************************************)
EXTENDS MeShortForward, OutcomeEvaluator, SrrShortOutcome,
        FiniteSetTheorems, WellFoundedInduction, TLAPS

-----------------------------------------------------------------------------
(* MeShortForward: the inductive invariant, in parts.                      *)

OnPage == {"handle", "lookup", "record"}

(* There is a page only while it is handled; its rows are behind nothing:  *)
(* post-freeze and not yet passed by the cursor.                           *)
PageIsAhead ==
    /\ mpc \notin OnPage => mePage = {} /\ meLeft = {}
    /\ \A r \in mePage : r[2] > MeFreeze /\ r[2] > keyset[r[1]]
    /\ \A e \in meLeft : e > MeFreeze

(* The page is all there was up to its last row of each source, but for    *)
(* what was committed after it was read.                                   *)
PageIsPrefix ==
    \A s \in Sources, e \in Events :
        <<s, e>> \in candRows /\ e > MeFreeze /\ e > keyset[s] /\ e <= KeysetAfter(s)
            => <<s, e>> \in mePage \union lateRows

(* A row of the page is still to be handled or has its lineage.            *)
PageIsHandled ==
    /\ \A r \in mePage : r[2] \in meLeft \/ meLineage[r[2]] # "none"
    /\ \A e \in remembered \union openNow : meLineage[e] # "none"

(* The event between the steps of _handle_candidate has its signal row,    *)
(* and a link that was found is to a row of phase 1.                       *)
CurrentIsStored ==
    /\ mpc \in {"lookup", "record"} => current \in meLeft /\ current \in meSignals
    /\ mpc = "lookup" => tries < Phase1Attempts
    /\ mpc = "record" /\ linkFound => current \in phase1

MeInv ==
    /\ MeTypeOK
    /\ PageIsAhead
    /\ PageIsPrefix
    /\ PageIsHandled
    /\ CurrentIsStored
    /\ CursorPassesWritten
    /\ ChainIsWhole

-----------------------------------------------------------------------------
(* Cursors and pages.                                                      *)

LEMMA MeNumbers ==
    /\ MaxEvent \in Nat /\ MaxEvent > 0 /\ MeHorizon \in Nat /\ MeHorizon > 0
    /\ MePageSize \in Nat /\ MePageSize > 0 /\ Phase1Attempts \in Nat /\ Phase1Attempts > 0
    /\ MeFreeze \in Nat /\ MaxTime \in Nat /\ SendStop \in BOOLEAN
BY MeConstants

(* The prefix the cursor will have passed, over a given page and cursor.   *)
AfterOf(page, ks, s) ==
    LET S == {e \in Events : <<s, e>> \in page}
    IN IF S = {} THEN ks[s] ELSE CHOOSE e \in S : \A d \in S : d <= e

PrefixIn(rows, page, late, ks) ==
    \A s \in Sources, e \in Events :
        <<s, e>> \in rows /\ e > MeFreeze /\ e > ks[s] /\ e <= AfterOf(page, ks, s)
            => <<s, e>> \in page \union late

LEMMA LargestEvent ==
    ASSUME NEW S, S \subseteq Events, S # {}
    PROVE  \E e \in S : \A d \in S : d <= e
<1> DEFINE R == OpToRel(<, Nat)
           T == {n \in Nat : MaxEvent - n \in S}
<1>1. R = {ss \in Nat \X Nat : ss[1] < ss[2]} /\ IsWellFoundedOn(R, Nat)
  BY NatLessThanWellFounded DEF OpToRel
<1> HIDE DEF R
<1>2. \A e \in S : e \in Int /\ e <= MaxEvent
  BY MeNumbers DEF Events
<1>3. T \subseteq Nat /\ T # {}
  <2>1. PICK e \in S : TRUE
    OBVIOUS
  <2>2. MaxEvent - e \in Nat /\ MaxEvent - (MaxEvent - e) = e
    BY <1>2, <2>1, MeNumbers
  <2>3. QED BY <2>1, <2>2
<1>4. PICK m \in T : \A y \in T : ~(<<y, m>> \in R)
  BY <1>1, <1>3, WFMin
<1>5. \A y \in T : ~(y < m)
  BY <1>1, <1>3, <1>4
<1>6. ASSUME NEW d \in S
      PROVE  d <= MaxEvent - m
  <2>1. MaxEvent - d \in Nat /\ MaxEvent - (MaxEvent - d) = d
    BY <1>2, MeNumbers
  <2>2. MaxEvent - d \in T
    BY <2>1
  <2>3. ~(MaxEvent - d < m) /\ m \in Nat
    BY <1>3, <1>4, <1>5, <2>2
  <2>4. QED BY <1>2, <2>1, <2>3, MeNumbers
<1>7. MaxEvent - m \in S
  BY <1>4
<1>8. QED BY <1>6, <1>7

(* The cursor goes to the last row of the page, or stays.                  *)
LEMMA AfterFacts ==
    ASSUME NEW page, NEW ks \in [Sources -> 0..MaxEvent], NEW s \in Sources
    PROVE  /\ AfterOf(page, ks, s) \in 0..MaxEvent
           /\ \A e \in Events : <<s, e>> \in page => e <= AfterOf(page, ks, s)
           /\ \/ AfterOf(page, ks, s) = ks[s]
              \/ AfterOf(page, ks, s) \in Events /\ <<s, AfterOf(page, ks, s)>> \in page
<1> DEFINE S == {e \in Events : <<s, e>> \in page}
           A == AfterOf(page, ks, s)
<1>1. CASE S = {}
  <2>1. A = ks[s]
    BY <1>1 DEF AfterOf
  <2>2. QED BY <1>1, <2>1
<1>2. CASE S # {}
  <2>1. A = CHOOSE e \in S : \A d \in S : d <= e
    BY <1>2 DEF AfterOf
  <2>2. A \in S /\ \A d \in S : d <= A
    BY <1>2, <2>1, LargestEvent
  <2> HIDE DEF A
  <2>3. A \in Events /\ <<s, A>> \in page /\ \A e \in Events : <<s, e>> \in page => e <= A
    BY <2>2
  <2>4. A \in 0..MaxEvent
    BY <2>3, MeNumbers DEF Events
  <2>5. QED BY <2>3, <2>4 DEF A
<1>3. QED BY <1>1, <1>2

(* The first n of a set: with an event all earlier ones.                   *)
LEMMA FirstAreFirst ==
    ASSUME NEW S, S \subseteq Events, NEW n \in Int
    PROVE  /\ FirstOf(S, n) \subseteq S /\ IsFiniteSet(FirstOf(S, n))
           /\ Cardinality(FirstOf(S, n)) \in Nat
           /\ \A e \in FirstOf(S, n), d \in S : d <= e => d \in FirstOf(S, n)
<1>1. IsFiniteSet(Events)
  BY FS_Interval, MeNumbers DEF Events
<1>2. FirstOf(S, n) \subseteq S
  BY DEF FirstOf
<1>3. IsFiniteSet(FirstOf(S, n)) /\ Cardinality(FirstOf(S, n)) \in Nat
  <2>1. IsFiniteSet(FirstOf(S, n))
    BY <1>1, <1>2, FS_Subset
  <2>2. QED BY <2>1, FS_CardinalityType
<1>4. ASSUME NEW e \in FirstOf(S, n), NEW d \in S, d <= e
      PROVE  d \in FirstOf(S, n)
  <2> DEFINE D == {k \in S : k <= d}
             E == {k \in S : k <= e}
  <2>1. D \subseteq E
    <3>1. \A k \in S : k \in Int
      BY DEF Events
    <3>2. e \in S /\ d \in S
      BY <1>2
    <3>3. e \in Int /\ d \in Int
      BY <3>1, <3>2
    <3>4. SUFFICES ASSUME NEW k \in S, k <= d
                   PROVE  k <= e
      OBVIOUS
    <3>5. k \in Int
      BY <3>1
    <3>6. QED BY <1>4, <3>3, <3>4, <3>5
  <2>2. IsFiniteSet(E)
    <3>1. E \subseteq Events
      OBVIOUS
    <3>2. QED BY <1>1, <3>1, FS_Subset
  <2>3. IsFiniteSet(D) /\ Cardinality(D) <= Cardinality(E)
    BY <2>1, <2>2, FS_Subset
  <2>4. Cardinality(D) \in Nat /\ Cardinality(E) \in Nat
    BY <2>2, <2>3, FS_CardinalityType
  <2>5. Cardinality(E) <= n
    BY DEF FirstOf
  <2> HIDE DEF E
  <2>6. Cardinality(D) <= n
    BY <2>3, <2>4, <2>5
  <2>7. QED BY <2>6 DEF FirstOf
<1>5. QED BY <1>2, <1>3, <1>4

(* Two shares of one source are again the first of it.                     *)
LEMMA SharesAreFirst ==
    ASSUME NEW S, S \subseteq Events, NEW n \in Int, NEW k \in Int
    PROVE  LET U == FirstOf(S, n) \union FirstOf(S \ FirstOf(S, n), k)
           IN  U \subseteq S /\ \A e \in U, d \in S : d <= e => d \in U
<1> DEFINE A == FirstOf(S, n)
           B == FirstOf(S \ A, k)
           U == A \union B
<1>1. A \subseteq S /\ \A e \in A, d \in S : d <= e => d \in A
  BY FirstAreFirst
<1>2. S \ A \subseteq Events
  OBVIOUS
<1>3. B \subseteq S \ A /\ \A e \in B, d \in S \ A : d <= e => d \in B
  BY <1>2, FirstAreFirst
<1> HIDE DEF A, B
<1>4. U \subseteq S /\ \A e \in U, d \in S : d <= e => d \in U
  BY <1>1, <1>3
<1>5. QED BY <1>4 DEF A, B

(* A composite page has of each source rows behind its cursor, and with a  *)
(* row every earlier one behind the cursor.                                *)
LEMMA CompositeIsPrefix ==
    ASSUME MeTypeOK, NEW readable, NEW r \in Composite(readable)
    PROVE  /\ r = <<r[1], r[2]>> /\ r[1] \in Sources /\ r[2] \in Behind(r[1])
           /\ \A d \in Behind(r[1]) : d <= r[2] => <<r[1], d>> \in Composite(readable)
<1> DEFINE V(s) == IF s \in readable THEN Behind(s) ELSE {}
           other == OtherSource(turn)
           share == IF MePageSize > 1 THEN MePageSize \div 2 ELSE 1
           a1 == FirstOf(V(turn), share)
           n2 == IF share < MePageSize - Cardinality(a1) THEN share ELSE MePageSize - Cardinality(a1)
           a2 == FirstOf(V(other), n2)
           n3 == MePageSize - Cardinality(a1) - Cardinality(a2)
           b1 == FirstOf(V(turn) \ a1, n3)
           n4 == MePageSize - Cardinality(a1) - Cardinality(a2) - Cardinality(b1)
           b2 == FirstOf(V(other) \ a2, n4)
           U == a1 \union b1
           W == a2 \union b2
<1>1. Composite(readable) = ({turn} \X U) \union ({other} \X W)
  BY DEF Composite
<1>2. turn \in Sources /\ other \in Sources
  BY DEF MeTypeOK, OtherSource, Sources
<1>3. \A s \in Sources : Behind(s) \subseteq Events /\ V(s) \subseteq Events /\ V(s) \subseteq Behind(s)
  BY DEF Behind
<1>4. \A s : V(s) # {} => V(s) = Behind(s)
  OBVIOUS
<1> HIDE DEF V, other
<1>5. share \in Int
  BY MeNumbers
<1> HIDE DEF share
<1>6. V(turn) \subseteq Events /\ V(other) \subseteq Events
  BY <1>2, <1>3
<1>7. Cardinality(a1) \in Nat
  BY <1>5, <1>6, FirstAreFirst
<1>8. n2 \in Int
  BY <1>5, <1>7, MeNumbers
<1>9. Cardinality(a2) \in Nat
  BY <1>6, <1>8, FirstAreFirst
<1>10. n3 \in Int
  BY <1>7, <1>9, MeNumbers
<1>11. Cardinality(b1) \in Nat
  <2>1. V(turn) \ a1 \subseteq Events
    BY <1>6
  <2>2. QED BY <1>10, <2>1, FirstAreFirst
<1>12. n4 \in Int
  BY <1>7, <1>9, <1>11, MeNumbers
<1> HIDE DEF n2, n3, n4
<1>13. U \subseteq V(turn) /\ \A e \in U, d \in V(turn) : d <= e => d \in U
  <2> DEFINE S == V(turn)
  <2>1. S \subseteq Events
    BY <1>6
  <2> HIDE DEF S
  <2>2. LET X == FirstOf(S, share) \union FirstOf(S \ FirstOf(S, share), n3)
        IN  X \subseteq S /\ \A e \in X, d \in S : d <= e => d \in X
    BY <1>5, <1>10, <2>1, SharesAreFirst
  <2>3. QED BY <2>2 DEF S
<1>14. W \subseteq V(other) /\ \A e \in W, d \in V(other) : d <= e => d \in W
  <2> DEFINE S == V(other)
  <2>1. S \subseteq Events
    BY <1>6
  <2> HIDE DEF S
  <2>2. LET X == FirstOf(S, n2) \union FirstOf(S \ FirstOf(S, n2), n4)
        IN  X \subseteq S /\ \A e \in X, d \in S : d <= e => d \in X
    BY <1>8, <1>12, <2>1, SharesAreFirst
  <2>3. QED BY <2>2 DEF S
<1> HIDE DEF U, W
<1>15. CASE r \in {turn} \X U
  <2>1. r = <<turn, r[2]>> /\ r[1] = turn /\ r[2] \in U
    BY <1>15
  <2>2. r[2] \in V(turn) /\ V(turn) = Behind(turn)
    BY <1>4, <1>13, <2>1
  <2>3. \A d \in Behind(turn) : d <= r[2] => d \in U
    BY <1>13, <2>1, <2>2
  <2>4. QED BY <1>1, <1>2, <2>1, <2>2, <2>3
<1>16. CASE r \in {other} \X W
  <2>1. r = <<other, r[2]>> /\ r[1] = other /\ r[2] \in W
    BY <1>16
  <2>2. r[2] \in V(other) /\ V(other) = Behind(other)
    BY <1>4, <1>14, <2>1
  <2>3. \A d \in Behind(other) : d <= r[2] => d \in W
    BY <1>14, <2>1, <2>2
  <2>4. QED BY <1>1, <1>2, <2>1, <2>2, <2>3
<1>17. QED BY <1>1, <1>15, <1>16

-----------------------------------------------------------------------------
(* Steps.                                                                  *)

(* Lineage is written once.                                                *)
LineageKept == \A e \in Events : meLineage[e] # "none" => meLineage'[e] # "none"

LEMMA MeSplit ==
    ASSUME MeInv
    PROVE  /\ MeTypeOK /\ PageIsAhead /\ PageIsHandled /\ CurrentIsStored
           /\ CursorPassesWritten /\ ChainIsWhole
           /\ PrefixIn(candRows, mePage, lateRows, keyset)
<1>1. \A s : KeysetAfter(s) = AfterOf(mePage, keyset, s)
  BY DEF KeysetAfter, AfterOf
<1>2. PrefixIn(candRows, mePage, lateRows, keyset)
  BY <1>1 DEF MeInv, PageIsPrefix, PrefixIn
<1>3. QED BY <1>2 DEF MeInv

LEMMA MeJoin ==
    ASSUME MeTypeOK', PageIsAhead', PageIsHandled', CurrentIsStored', CursorPassesWritten',
           ChainIsWhole', PrefixIn(candRows', mePage', lateRows', keyset')
    PROVE  MeInv'
<1>1. PageIsPrefix'
  BY DEF PageIsPrefix, PrefixIn, KeysetAfter, AfterOf
<1>2. QED BY <1>1 DEF MeInv

LEMMA EmptyIsPrefix ==
    ASSUME NEW rows, NEW late, NEW ks \in [Sources -> 0..MaxEvent]
    PROVE  PrefixIn(rows, {}, late, ks)
<1>1. \A s \in Sources : AfterOf({}, ks, s) = ks[s] /\ ks[s] \in 0..MaxEvent
  BY DEF AfterOf
<1>2. \A s \in Sources, e \in Events : ~(e > ks[s] /\ e <= AfterOf({}, ks, s))
  BY <1>1, MeNumbers DEF Events
<1>3. QED BY <1>2 DEF PrefixIn

LEMMA MeInitHolds == MeInit => MeInv
<1> SUFFICES ASSUME MeInit
             PROVE  MeInv
  OBVIOUS
<1>1. MeTypeOK
  <2>1. /\ 0 \in 0..Phase1Attempts /\ 0 \in 0..MaxEvent /\ 0 \in 0..MaxTime /\ "dds" \in Sources
        /\ [s \in Sources |-> 0] \in [Sources -> 0..MaxEvent]
        /\ [e \in Events |-> {}] \in [Events -> SUBSET (1..MeHorizon)]
    BY MeNumbers DEF Sources
  <2>2. QED BY <2>1 DEF MeInit, MeTypeOK
<1>2. PageIsPrefix
  BY DEF MeInit, PageIsPrefix
<1>3. PageIsAhead /\ PageIsHandled /\ CurrentIsStored
  BY DEF MeInit, PageIsAhead, PageIsHandled, CurrentIsStored, OnPage
<1>4. CursorPassesWritten /\ ChainIsWhole
  BY DEF MeInit, CursorPassesWritten, ChainIsWhole
<1>5. QED BY <1>1, <1>2, <1>3, <1>4 DEF MeInv

(* The surroundings and the steps between the phases of a cycle: the work  *)
(* and the tables are as they were.                                        *)
LEMMA ControlKeeps ==
    ASSUME MeInv, UNCHANGED <<meWork, meTables, candRows, lateRows>>,
           meTime' \in 0..MaxTime, meTime <= meTime', phase1 \subseteq phase1', phase1' \subseteq Events,
           meStatus' \in {"NOT_ACTIVATED", "RUNNING", "STOPPED"},
           rstate' \in {"IDLE", "RUNNING", "STOPPING", "FAILED"}, stopAsked' \in BOOLEAN,
           mpc' \in {"down", "top", "pages", "handle", "lookup", "record", "advance", "events",
                     "beat", "check", "sleep"},
           mpc' = mpc \/ (mpc \notin OnPage /\ mpc' \notin OnPage)
    PROVE  MeInv'
<1>1. /\ turn' = turn /\ keyset' = keyset /\ mePage' = mePage /\ meLeft' = meLeft
      /\ current' = current /\ tries' = tries /\ linkFound' = linkFound
      /\ remembered' = remembered /\ openNow' = openNow
      /\ meSignals' = meSignals /\ meLineage' = meLineage /\ meCandles' = meCandles
      /\ meOutcome' = meOutcome /\ candRows' = candRows /\ lateRows' = lateRows
  BY DEF meWork, meTables
<1>2. MeTypeOK'
  BY <1>1, MeSplit DEF MeTypeOK
<1>3. PageIsAhead' /\ PageIsHandled' /\ CursorPassesWritten'
  BY <1>1, MeSplit DEF PageIsAhead, PageIsHandled, CursorPassesWritten
<1>4. CurrentIsStored'
  BY <1>1, MeSplit DEF CurrentIsStored, OnPage
<1>5. ChainIsWhole'
  <2>1. \A e \in Events : e + MeHorizon <= meTime => e + MeHorizon <= meTime'
    <3>1. meTime \in Int /\ meTime' \in Int
      BY MeSplit, MeNumbers DEF MeTypeOK
    <3>2. QED BY <3>1, MeNumbers DEF Events
  <2>2. QED BY <1>1, <2>1, MeSplit DEF ChainIsWhole
<1>6. QED BY <1>1, <1>2, <1>3, <1>4, <1>5, MeSplit, MeJoin

(* The process has forgotten everything but the tables.                    *)
LEMMA ResetKeeps ==
    ASSUME MeInv, StartRuntime \/ KillRuntime \/ (CheckState /\ mpc' = "down")
    PROVE  MeInv'
<1>1. /\ mpc' \in {"down", "top"} /\ rstate' \in {"IDLE", "RUNNING"} /\ stopAsked' = FALSE
      /\ keyset' = [s \in Sources |-> 0] /\ lateRows' = {} /\ mePage' = {} /\ meLeft' = {}
      /\ turn' = "dds" /\ current' = 0 /\ tries' = 0 /\ linkFound' = FALSE
      /\ remembered' = {} /\ openNow' = {}
      /\ meTime' = meTime /\ candRows' = candRows /\ phase1' = phase1 /\ meStatus' = meStatus
      /\ meSignals' = meSignals /\ meLineage' = meLineage /\ meCandles' = meCandles
      /\ meOutcome' = meOutcome
  BY DEF StartRuntime, KillRuntime, CheckState, ResetRuntime, meTables
<1>2. keyset' \in [Sources -> 0..MaxEvent]
  BY <1>1, MeNumbers
<1>3. MeTypeOK'
  <2>1. 0 \in 0..Phase1Attempts /\ 0 \in 0..MaxEvent /\ "dds" \in Sources
    BY MeNumbers DEF Sources
  <2>2. QED BY <1>1, <1>2, <2>1, MeSplit DEF MeTypeOK
<1>4. PageIsAhead' /\ PageIsHandled' /\ CurrentIsStored'
  BY <1>1 DEF PageIsAhead, PageIsHandled, CurrentIsStored, OnPage
<1>5. CursorPassesWritten'
  <2>1. \A r \in candRows : keyset'[r[1]] = 0 /\ r[2] \in Events
    BY <1>1, MeSplit DEF MeTypeOK
  <2>2. \A r \in candRows : ~(r[2] <= keyset'[r[1]])
    BY <2>1, MeNumbers DEF Events
  <2>3. QED BY <1>1, <2>2 DEF CursorPassesWritten
<1>6. ChainIsWhole'
  BY <1>1, MeSplit DEF ChainIsWhole
<1>7. PrefixIn(candRows', mePage', lateRows', keyset')
  BY <1>1, <1>2, EmptyIsPrefix
<1>8. QED BY <1>3, <1>4, <1>5, <1>6, <1>7, MeJoin

(* A row that is committed behind where the cursor is, or will be after    *)
(* the page, is a late one.                                                *)
LEMMA CommitKeeps ==
    ASSUME MeInv, NEW s \in Sources, NEW e \in Events, CommitCandidate(s, e)
    PROVE  MeInv'
<1>1. /\ candRows' = candRows \union {<<s, e>>}
      /\ lateRows' = IF e <= KeysetAfter(s) THEN lateRows \union {<<s, e>>} ELSE lateRows
      /\ turn' = turn /\ keyset' = keyset /\ mePage' = mePage /\ meLeft' = meLeft
      /\ current' = current /\ tries' = tries /\ linkFound' = linkFound
      /\ remembered' = remembered /\ openNow' = openNow
      /\ meSignals' = meSignals /\ meLineage' = meLineage /\ meCandles' = meCandles
      /\ meOutcome' = meOutcome /\ meTime' = meTime /\ phase1' = phase1 /\ meStatus' = meStatus
      /\ mpc' = mpc /\ rstate' = rstate /\ stopAsked' = stopAsked
  BY DEF CommitCandidate, meWork, meTables
<1>2. KeysetAfter(s) = AfterOf(mePage, keyset, s)
  BY DEF KeysetAfter, AfterOf
<1>3. lateRows \subseteq lateRows' /\ (e <= AfterOf(mePage, keyset, s) => <<s, e>> \in lateRows')
  BY <1>1, <1>2
<1>4. MeTypeOK'
  <2>1. lateRows' \subseteq candRows' /\ candRows' \subseteq Sources \X Events /\ mePage' \subseteq candRows'
    BY <1>1, MeSplit DEF MeTypeOK
  <2>2. QED BY <1>1, <2>1, MeSplit DEF MeTypeOK
<1>5. PageIsAhead' /\ PageIsHandled'
  BY <1>1, MeSplit DEF PageIsAhead, PageIsHandled
<1>6. CurrentIsStored' /\ ChainIsWhole'
  BY <1>1, MeSplit DEF CurrentIsStored, ChainIsWhole
<1>7. PrefixIn(candRows', mePage', lateRows', keyset')
  <2>1. PrefixIn(candRows, mePage, lateRows, keyset)
    BY MeSplit
  <2>2. ASSUME NEW s2 \in Sources, NEW e2 \in Events, <<s2, e2>> \in candRows', e2 > MeFreeze,
               e2 > keyset[s2], e2 <= AfterOf(mePage, keyset, s2)
        PROVE  <<s2, e2>> \in mePage \union lateRows'
    <3>1. CASE <<s2, e2>> \in candRows
      BY <1>3, <2>1, <2>2, <3>1 DEF PrefixIn
    <3>2. CASE <<s2, e2>> = <<s, e>>
      BY <1>3, <2>2, <3>2
    <3>3. QED BY <1>1, <2>2, <3>1, <3>2
  <2>3. QED BY <1>1, <2>2 DEF PrefixIn
<1>8. CursorPassesWritten'
  <2>1. keyset \in [Sources -> 0..MaxEvent] /\ mePage \subseteq Sources \X Events
    BY MeSplit DEF MeTypeOK
  <2>2. keyset[s] <= AfterOf(mePage, keyset, s)
    <3>1. AfterOf(mePage, keyset, s) \in 0..MaxEvent /\ keyset[s] \in 0..MaxEvent
      BY <2>1, AfterFacts
    <3>2. CASE AfterOf(mePage, keyset, s) = keyset[s]
      BY <3>1, <3>2, MeNumbers
    <3>3. CASE <<s, AfterOf(mePage, keyset, s)>> \in mePage
      <4>1. AfterOf(mePage, keyset, s) > keyset[s]
        BY <3>3, MeSplit DEF PageIsAhead
      <4>2. QED BY <3>1, <4>1, MeNumbers
    <3>4. QED BY <2>1, <3>2, <3>3, AfterFacts
  <2>3. e <= keyset[s] => <<s, e>> \in lateRows'
    <3> DEFINE A == AfterOf(mePage, keyset, s)
    <3>1. A \in 0..MaxEvent /\ keyset[s] \in 0..MaxEvent
      BY <2>1, AfterFacts
    <3>2. (e <= A => <<s, e>> \in lateRows') /\ keyset[s] <= A
      BY <1>3, <2>2
    <3> HIDE DEF A
    <3>3. A \in Int /\ keyset[s] \in Int /\ e \in Int
      BY <3>1, MeNumbers DEF Events
    <3>4. QED BY <3>2, <3>3
  <2>4. ASSUME NEW r \in candRows', r[2] > MeFreeze, r[2] <= keyset[r[1]]
        PROVE  r \in lateRows' \/ meLineage[r[2]] # "none"
    <3>1. CASE r \in candRows
      BY <1>3, <2>4, <3>1, MeSplit DEF CursorPassesWritten
    <3>2. CASE r = <<s, e>>
      BY <2>3, <2>4, <3>2
    <3>3. QED BY <1>1, <2>4, <3>1, <3>2
  <2>5. QED BY <1>1, <2>4 DEF CursorPassesWritten
<1>9. QED BY <1>4, <1>5, <1>6, <1>7, <1>8, MeJoin

(* A page is read.                                                         *)
LEMMA FetchKeeps ==
    ASSUME MeInv, NEW readable, FetchCandidates(readable)
    PROVE  MeInv'
<1> DEFINE P == Composite(readable)
<1>1. /\ mpc = "pages" /\ mePage' = P /\ meLeft' = {r[2] : r \in P}
      /\ mpc' = (IF P = {} THEN "advance" ELSE "handle")
      /\ turn' = turn /\ keyset' = keyset /\ current' = current /\ tries' = tries
      /\ linkFound' = linkFound /\ remembered' = remembered /\ openNow' = openNow
      /\ meSignals' = meSignals /\ meLineage' = meLineage /\ meCandles' = meCandles
      /\ meOutcome' = meOutcome /\ meTime' = meTime /\ phase1' = phase1 /\ meStatus' = meStatus
      /\ candRows' = candRows /\ lateRows' = lateRows /\ rstate' = rstate /\ stopAsked' = stopAsked
  BY DEF FetchCandidates, meTables, meInput
<1>2. \A r \in P : /\ r = <<r[1], r[2]>> /\ r[1] \in Sources /\ r[2] \in Behind(r[1])
                   /\ \A d \in Behind(r[1]) : d <= r[2] => <<r[1], d>> \in P
  BY CompositeIsPrefix, MeSplit
<1> HIDE DEF P
<1>3. \A r \in P : /\ r \in candRows /\ r[2] \in Events /\ r[1] \in Sources
                   /\ r[2] > MeFreeze /\ r[2] > keyset[r[1]]
  BY <1>2 DEF Behind
<1>4. MeTypeOK'
  BY <1>1, <1>3, MeSplit DEF MeTypeOK
<1>5. PageIsAhead'
  BY <1>1, <1>3 DEF PageIsAhead, OnPage
<1>6. PageIsHandled' /\ CurrentIsStored'
  BY <1>1, MeSplit DEF PageIsHandled, CurrentIsStored
<1>7. CursorPassesWritten' /\ ChainIsWhole'
  BY <1>1, MeSplit DEF CursorPassesWritten, ChainIsWhole
<1>8. PrefixIn(candRows, P, lateRows, keyset)
  <2>1. keyset \in [Sources -> 0..MaxEvent]
    BY MeSplit DEF MeTypeOK
  <2>2. ASSUME NEW s \in Sources, NEW e \in Events, <<s, e>> \in candRows, e > MeFreeze,
               e > keyset[s], e <= AfterOf(P, keyset, s)
        PROVE  <<s, e>> \in P
    <3>1. e \in Behind(s)
      BY <2>2 DEF Behind
    <3>2. AfterOf(P, keyset, s) # keyset[s]
      <4>1. e \in Int /\ keyset[s] \in Int
        BY <2>1, MeNumbers DEF Events
      <4>2. QED BY <2>2, <4>1
    <3>3. <<s, AfterOf(P, keyset, s)>> \in P
      BY <2>1, <3>2, AfterFacts
    <3> DEFINE r == <<s, AfterOf(P, keyset, s)>>
    <3>4. r \in P /\ r[1] = s /\ r[2] = AfterOf(P, keyset, s)
      BY <3>3
    <3> HIDE DEF r
    <3>5. QED BY <1>2, <2>2, <3>1, <3>4
  <2>3. QED BY <2>2 DEF PrefixIn
<1>9. QED BY <1>1, <1>4, <1>5, <1>6, <1>7, <1>8, MeJoin

(* record_event_lineage: a row is new or stays, and a link is to a phase 1 *)
(* row that was found.                                                     *)
LEMMA LineageFacts ==
    ASSUME MeTypeOK, NEW e \in Events, NEW ok
    PROVE  LET L == LineageStored(e, ok)
           IN  /\ L \in [Events -> {"none", "LINKED", "PHASE1_PENDING"}]
               /\ \A d \in Events : meLineage[d] # "none" => L[d] = meLineage[d]
               /\ \A d \in Events : d # e => L[d] = meLineage[d]
               /\ L = meLineage \/ L[e] # "none"
               /\ L[e] = "LINKED" => meLineage[e] = "LINKED" \/ linkFound
               /\ L # meLineage => meStatus = "RUNNING"
<1> DEFINE w == IF linkFound THEN "LINKED" ELSE "PHASE1_PENDING"
           f == [meLineage EXCEPT ![e] = w]
<1>1. w \in {"LINKED", "PHASE1_PENDING"} /\ (w = "LINKED" => linkFound)
  OBVIOUS
<1>2. meLineage \in [Events -> {"none", "LINKED", "PHASE1_PENDING"}]
  BY DEF MeTypeOK
<1> HIDE DEF w
<1>3. /\ f \in [Events -> {"none", "LINKED", "PHASE1_PENDING"}] /\ f[e] = w
      /\ \A d \in Events : d # e => f[d] = meLineage[d]
  BY <1>1, <1>2
<1>4. \/ LineageStored(e, ok) = meLineage
      \/ LineageStored(e, ok) = f /\ meLineage[e] = "none" /\ meStatus = "RUNNING"
  BY DEF LineageStored, ActivationGate, w
<1> HIDE DEF f
<1>5. CASE LineageStored(e, ok) = meLineage
  BY <1>2, <1>5
<1>6. CASE LineageStored(e, ok) = f /\ meLineage[e] = "none" /\ meStatus = "RUNNING"
  BY <1>1, <1>2, <1>3, <1>6
<1>7. QED BY <1>4, <1>5, <1>6

(* HANDLER_RETRY: the page is given up, the cursor stays before it.        *)
LEMMA StallKeeps ==
    ASSUME MeInv, mpc \in OnPage, StallPage, UNCHANGED <<meInput, rstate, stopAsked>>,
           meLineage' = meLineage, meCandles' = meCandles, meOutcome' = meOutcome,
           NEW e \in Events, e > MeFreeze,
           meSignals' = meSignals \/ meSignals' = meSignals \union {e}
    PROVE  MeInv'
<1>1. /\ mpc' = "advance" /\ meLeft' = {} /\ mePage' = {} /\ current' = 0 /\ tries' = 0
      /\ linkFound' = FALSE /\ turn' = turn /\ keyset' = keyset /\ remembered' = remembered
      /\ openNow' = openNow /\ meTime' = meTime /\ candRows' = candRows /\ lateRows' = lateRows
      /\ phase1' = phase1 /\ meStatus' = meStatus /\ rstate' = rstate /\ stopAsked' = stopAsked
      /\ meLineage' = meLineage /\ meCandles' = meCandles /\ meOutcome' = meOutcome
  BY DEF StallPage, meInput
<1>2. MeTypeOK'
  <2>1. 0 \in 0..Phase1Attempts /\ 0 \in 0..MaxEvent
    BY MeNumbers
  <2>2. meSignals' \subseteq Events
    BY MeSplit DEF MeTypeOK
  <2>3. QED BY <1>1, <2>1, <2>2, MeSplit DEF MeTypeOK
<1>3. PageIsAhead' /\ PageIsHandled' /\ CurrentIsStored'
  BY <1>1, MeSplit DEF PageIsAhead, PageIsHandled, CurrentIsStored, OnPage
<1>4. CursorPassesWritten'
  BY <1>1, MeSplit DEF CursorPassesWritten
<1>5. ChainIsWhole'
  BY <1>1, MeSplit DEF ChainIsWhole
<1>6. PrefixIn(candRows', mePage', lateRows', keyset')
  BY <1>1, EmptyIsPrefix, MeSplit DEF MeTypeOK
<1>7. QED BY <1>2, <1>3, <1>4, <1>5, <1>6, MeJoin

(* A step of _handle_candidate that does not give the page up.             *)
LEMMA HandleKeeps ==
    ASSUME MeInv, mpc \in OnPage, mpc' \in OnPage,
           UNCHANGED <<meInput, rstate, stopAsked, turn, keyset, mePage, openNow, meCandles, meOutcome>>,
           MeTypeOK', CurrentIsStored', ChainIsWhole', LineageKept,
           meLeft' \subseteq meLeft, \A e \in meLeft \ meLeft' : meLineage'[e] # "none",
           \A e \in remembered' \ remembered : meLineage'[e] # "none"
    PROVE  MeInv'
<1>1. /\ turn' = turn /\ keyset' = keyset /\ mePage' = mePage /\ openNow' = openNow
      /\ candRows' = candRows /\ lateRows' = lateRows
  BY DEF meInput
<1>2. PageIsAhead'
  BY <1>1, MeSplit DEF PageIsAhead
<1>3. mePage \subseteq Sources \X Events /\ remembered \union openNow \subseteq Events /\ candRows \subseteq Sources \X Events
  BY MeSplit DEF MeTypeOK
<1>4. \A r \in Sources \X Events : r[2] \in Events
  OBVIOUS
<1>5. PageIsHandled'
  <2>1. \A r \in mePage : r[2] \in meLeft' \/ meLineage'[r[2]] # "none"
    BY <1>3, <1>4, MeSplit DEF PageIsHandled, LineageKept
  <2>2. \A e \in remembered' \union openNow : meLineage'[e] # "none"
    BY <1>3, MeSplit DEF PageIsHandled, LineageKept
  <2>3. QED BY <1>1, <2>1, <2>2 DEF PageIsHandled
<1>6. CursorPassesWritten'
  BY <1>1, <1>3, <1>4, MeSplit DEF CursorPassesWritten, LineageKept
<1>7. QED BY <1>1, <1>2, <1>5, <1>6, MeSplit, MeJoin

LEMMA CaptureKeeps ==
    ASSUME MeInv, NEW e \in meLeft, NEW ok \in BOOLEAN, CaptureSignal(e, ok)
    PROVE  MeInv'
<1>1. /\ mpc = "handle" /\ e \in Events /\ e > MeFreeze
      /\ meTime' = meTime /\ candRows' = candRows /\ lateRows' = lateRows
      /\ phase1' = phase1 /\ meStatus' = meStatus /\ rstate' = rstate /\ stopAsked' = stopAsked
      /\ meLineage' = meLineage /\ meCandles' = meCandles /\ meOutcome' = meOutcome
  BY MeSplit DEF CaptureSignal, meInput, PageIsAhead, MeTypeOK
<1>2. UNCHANGED <<meInput, rstate, stopAsked>> /\ LineageKept /\ mpc \in OnPage
  BY <1>1 DEF meInput, LineageKept, OnPage
<1>3. CASE /\ e \in remembered /\ meLeft' = meLeft \ {e} /\ mpc' = mpc
           /\ turn' = turn /\ keyset' = keyset /\ mePage' = mePage /\ current' = current
           /\ tries' = tries /\ linkFound' = linkFound /\ remembered' = remembered
           /\ openNow' = openNow /\ meSignals' = meSignals
  <2>1. MeTypeOK'
    BY <1>1, <1>3, MeSplit DEF MeTypeOK
  <2>2. CurrentIsStored' /\ ChainIsWhole'
    BY <1>1, <1>3, MeSplit DEF CurrentIsStored, ChainIsWhole
  <2>3. meLineage'[e] # "none"
    BY <1>1, <1>3, MeSplit DEF PageIsHandled
  <2>4. QED BY <1>1, <1>2, <1>3, <2>1, <2>2, <2>3, HandleKeeps
<1>4. CASE meSignals' = SignalStored(e, ok) /\ StallPage
  <2>1. meSignals' = meSignals \/ meSignals' = meSignals \union {e}
    BY <1>4 DEF SignalStored
  <2>2. QED BY <1>1, <1>2, <1>4, <2>1, StallKeeps
<1>5. CASE /\ meSignals' = SignalStored(e, ok) /\ e \in meSignals'
           /\ mpc' = "lookup" /\ current' = e /\ tries' = 0
           /\ turn' = turn /\ keyset' = keyset /\ mePage' = mePage /\ meLeft' = meLeft
           /\ linkFound' = linkFound /\ remembered' = remembered /\ openNow' = openNow
  <2>1. (meSignals' = meSignals \/ meSignals' = meSignals \union {e})
    BY <1>5 DEF SignalStored
  <2>2. MeTypeOK'
    <3>1. 0 \in 0..Phase1Attempts /\ e \in 0..MaxEvent
      BY <1>1, MeNumbers DEF Events
    <3>2. meSignals' \subseteq Events
      BY <1>1, <2>1, MeSplit DEF MeTypeOK
    <3>3. QED BY <1>1, <1>5, <3>1, <3>2, MeSplit DEF MeTypeOK
  <2>3. CurrentIsStored'
    BY <1>1, <1>5, MeNumbers DEF CurrentIsStored
  <2>4. ChainIsWhole'
    BY <1>1, <2>1, MeSplit DEF ChainIsWhole
  <2>5. mpc' \in OnPage
    BY <1>5 DEF OnPage
  <2>6. QED BY <1>1, <1>2, <1>5, <2>2, <2>3, <2>4, <2>5, HandleKeeps
<1>6. QED BY <1>3, <1>4, <1>5 DEF CaptureSignal

LEMMA LookUpKeeps ==
    ASSUME MeInv, NEW ok \in BOOLEAN, LookUpPhase1(ok)
    PROVE  MeInv'
<1>1. /\ mpc = "lookup" /\ current \in Events /\ current > MeFreeze /\ current \in meLeft /\ current \in meSignals
      /\ tries < Phase1Attempts
      /\ meTime' = meTime /\ candRows' = candRows /\ lateRows' = lateRows
      /\ phase1' = phase1 /\ meStatus' = meStatus /\ rstate' = rstate /\ stopAsked' = stopAsked
      /\ meSignals' = meSignals /\ meLineage' = meLineage /\ meCandles' = meCandles
      /\ meOutcome' = meOutcome
  BY MeSplit DEF LookUpPhase1, meInput, meTables, PageIsAhead, MeTypeOK, CurrentIsStored
<1>2. UNCHANGED <<meInput, rstate, stopAsked>> /\ LineageKept /\ mpc \in OnPage
  BY <1>1 DEF meInput, LineageKept, OnPage
<1>3. CASE StallPage
  BY <1>1, <1>2, <1>3, StallKeeps
<1>4. CASE /\ tries' = tries + 1 /\ linkFound' = (current \in phase1)
           /\ mpc' = (IF linkFound' \/ tries' >= Phase1Attempts THEN "record" ELSE "lookup")
           /\ turn' = turn /\ keyset' = keyset /\ mePage' = mePage /\ meLeft' = meLeft
           /\ current' = current /\ remembered' = remembered /\ openNow' = openNow
  <2>1. mpc' \in {"lookup", "record"} /\ mpc' \in OnPage /\ linkFound' \in BOOLEAN
    BY <1>4 DEF OnPage
  <2>2. tries' \in 0..Phase1Attempts
    BY <1>1, <1>4, MeSplit, MeNumbers DEF MeTypeOK
  <2>3. MeTypeOK'
    BY <1>1, <1>4, <2>1, <2>2, MeSplit DEF MeTypeOK
  <2>4. CurrentIsStored'
    <3>1. mpc' = "lookup" => tries' < Phase1Attempts
      <4>1. mpc' = "lookup" => ~(tries' >= Phase1Attempts)
        BY <1>4
      <4>2. QED BY <2>2, <4>1, MeNumbers
    <3>2. linkFound' => current' \in phase1'
      BY <1>1, <1>4
    <3>3. QED BY <1>1, <1>4, <3>1, <3>2 DEF CurrentIsStored
  <2>5. ChainIsWhole'
    BY <1>1, MeSplit DEF ChainIsWhole
  <2>6. QED BY <1>1, <1>2, <1>4, <2>1, <2>3, <2>4, <2>5, HandleKeeps
<1>5. QED BY <1>3, <1>4 DEF LookUpPhase1

LEMMA RecordKeeps ==
    ASSUME MeInv, NEW ok \in BOOLEAN, RecordLineage(ok)
    PROVE  MeInv'
<1>1. /\ mpc = "record" /\ current \in Events /\ current > MeFreeze /\ current \in meLeft /\ current \in meSignals
      /\ (linkFound => current \in phase1)
      /\ meTime' = meTime /\ candRows' = candRows /\ lateRows' = lateRows
      /\ phase1' = phase1 /\ meStatus' = meStatus /\ rstate' = rstate /\ stopAsked' = stopAsked
      /\ meSignals' = meSignals /\ meCandles' = meCandles /\ meOutcome' = meOutcome
      /\ meLineage' = LineageStored(current, ok)
  BY MeSplit DEF RecordLineage, meInput, PageIsAhead, MeTypeOK, CurrentIsStored
<1>2. UNCHANGED <<meInput, rstate, stopAsked>> /\ mpc \in OnPage
  BY <1>1 DEF meInput, OnPage
<1>3. /\ meLineage' \in [Events -> {"none", "LINKED", "PHASE1_PENDING"}]
      /\ \A d \in Events : meLineage[d] # "none" => meLineage'[d] = meLineage[d]
      /\ \A d \in Events : d # current => meLineage'[d] = meLineage[d]
      /\ meLineage' = meLineage \/ meLineage'[current] # "none"
      /\ meLineage'[current] = "LINKED" => meLineage[current] = "LINKED" \/ linkFound
  BY <1>1, LineageFacts, MeSplit
<1>4. LineageKept
  BY <1>3 DEF LineageKept
<1>5. CASE StallPage /\ meLineage'[current] = "none"
  <2>1. meLineage' = meLineage
    BY <1>3, <1>5
  <2>2. QED BY <1>1, <1>2, <1>5, <2>1, StallKeeps
<1>6. CASE /\ meLineage'[current] # "none"
           /\ remembered' = remembered \union {current} /\ meLeft' = meLeft \ {current}
           /\ current' = 0 /\ tries' = 0 /\ linkFound' = FALSE /\ mpc' = "handle"
           /\ turn' = turn /\ keyset' = keyset /\ mePage' = mePage /\ openNow' = openNow
  <2>1. MeTypeOK'
    <3>1. 0 \in 0..Phase1Attempts /\ 0 \in 0..MaxEvent
      BY MeNumbers
    <3>2. meLeft' \union remembered' \subseteq Events
      BY <1>1, <1>6, MeSplit DEF MeTypeOK
    <3>3. QED BY <1>1, <1>3, <1>6, <3>1, <3>2, MeSplit DEF MeTypeOK
  <2>2. CurrentIsStored'
    BY <1>6 DEF CurrentIsStored
  <2>3. ChainIsWhole'
    <3>1. ASSUME NEW d \in Events
          PROVE  /\ meOutcome'[d] # "none" => meLineage'[d] # "none" /\ d + MeHorizon <= meTime'
                 /\ meLineage'[d] # "none" => d \in meSignals'
                 /\ meLineage'[d] = "LINKED" => d \in phase1'
                 /\ d \in meSignals' => d > MeFreeze
      <4>1. /\ meOutcome[d] # "none" => meLineage[d] # "none" /\ d + MeHorizon <= meTime
            /\ meLineage[d] # "none" => d \in meSignals
            /\ meLineage[d] = "LINKED" => d \in phase1
            /\ d \in meSignals => d > MeFreeze
        BY MeSplit DEF ChainIsWhole
      <4>2. CASE d = current
        BY <1>1, <1>3, <4>1, <4>2
      <4>3. CASE d # current
        BY <1>1, <1>3, <4>1, <4>3
      <4>4. QED BY <4>2, <4>3
    <3>2. QED BY <3>1 DEF ChainIsWhole
  <2>4. mpc' \in OnPage
    BY <1>6 DEF OnPage
  <2>5. meLeft' \subseteq meLeft /\ \A e \in meLeft \ meLeft' : meLineage'[e] # "none"
    BY <1>6
  <2>6. \A e \in remembered' \ remembered : meLineage'[e] # "none"
    BY <1>6
  <2>7. QED BY <1>1, <1>2, <1>4, <1>6, <2>1, <2>2, <2>3, <2>4, <2>5, <2>6, HandleKeeps
<1>7. QED BY <1>1, <1>5, <1>6 DEF RecordLineage

(* The cursor passes a page whose events all have their lineage, and what  *)
(* it jumps over besides came late.                                        *)
LEMMA PageHandledKeeps ==
    ASSUME MeInv, PageHandled
    PROVE  MeInv'
<1>1. /\ mpc = "handle" /\ meLeft = {} /\ mePage' = {} /\ meLeft' = meLeft
      /\ keyset' = [s \in Sources |-> AfterOf(mePage, keyset, s)]
      /\ turn' = OtherSource(turn) /\ mpc' \in {"advance", "pages"}
      /\ current' = current /\ tries' = tries /\ linkFound' = linkFound
      /\ remembered' = remembered /\ openNow' = openNow
      /\ meTime' = meTime /\ candRows' = candRows /\ lateRows' = lateRows
      /\ phase1' = phase1 /\ meStatus' = meStatus /\ rstate' = rstate /\ stopAsked' = stopAsked
      /\ meSignals' = meSignals /\ meLineage' = meLineage /\ meCandles' = meCandles
      /\ meOutcome' = meOutcome
  BY DEF PageHandled, meInput, meTables, KeysetAfter, AfterOf
<1>2. keyset \in [Sources -> 0..MaxEvent] /\ candRows \subseteq Sources \X Events
  BY MeSplit DEF MeTypeOK
<1>3. keyset' \in [Sources -> 0..MaxEvent]
  <2>1. \A s \in Sources : AfterOf(mePage, keyset, s) \in 0..MaxEvent
    BY <1>2, AfterFacts
  <2>2. QED BY <1>1, <2>1
<1>4. MeTypeOK'
  <2>1. turn' \in Sources
    BY <1>1 DEF OtherSource, Sources
  <2>2. QED BY <1>1, <1>3, <2>1, MeSplit DEF MeTypeOK
<1>5. PageIsAhead' /\ CurrentIsStored'
  BY <1>1 DEF PageIsAhead, CurrentIsStored
<1>6. PageIsHandled' /\ ChainIsWhole'
  BY <1>1, MeSplit DEF PageIsHandled, ChainIsWhole
<1>7. CursorPassesWritten'
  <2>1. ASSUME NEW s \in Sources, NEW e \in Events, <<s, e>> \in candRows, e > MeFreeze,
               e <= keyset'[s]
        PROVE  <<s, e>> \in lateRows \/ meLineage[e] # "none"
    <3>1. e <= AfterOf(mePage, keyset, s)
      BY <1>1, <2>1
    <3>2. CASE e <= keyset[s]
      <4> DEFINE r == <<s, e>>
      <4>1. r \in candRows /\ r[1] = s /\ r[2] = e
        BY <2>1
      <4> HIDE DEF r
      <4>2. r \in lateRows \/ meLineage[r[2]] # "none"
        BY <2>1, <3>2, <4>1, MeSplit DEF CursorPassesWritten
      <4>3. QED BY <4>1, <4>2 DEF r
    <3>3. CASE e > keyset[s]
      <4>1. <<s, e>> \in mePage \union lateRows
        BY <2>1, <3>1, <3>3, MeSplit DEF PrefixIn
      <4>2. CASE <<s, e>> \in mePage
        <5> DEFINE r == <<s, e>>
        <5>1. r \in mePage /\ r[2] = e
          BY <4>2
        <5> HIDE DEF r
        <5>2. r[2] \in meLeft \/ meLineage[r[2]] # "none"
          BY <5>1, MeSplit DEF PageIsHandled
        <5>3. QED BY <1>1, <5>1, <5>2
      <4>3. QED BY <4>1, <4>2
    <3>4. e \in Int /\ keyset[s] \in Int
      BY <1>2, MeNumbers DEF Events
    <3>5. QED BY <3>2, <3>3, <3>4
  <2>2. ASSUME NEW r \in candRows, r[2] > MeFreeze, r[2] <= keyset'[r[1]]
        PROVE  r \in lateRows \/ meLineage[r[2]] # "none"
    <3>1. r = <<r[1], r[2]>> /\ r[1] \in Sources /\ r[2] \in Events
      BY <1>2
    <3>2. QED BY <2>1, <2>2, <3>1
  <2>3. QED BY <1>1, <2>2 DEF CursorPassesWritten
<1>8. PrefixIn(candRows', mePage', lateRows', keyset')
  BY <1>1, <1>3, EmptyIsPrefix
<1>9. QED BY <1>4, <1>5, <1>6, <1>7, <1>8, MeJoin

LEMMA ReadOpenKeeps ==
    ASSUME MeInv, ReadOpenEvents
    PROVE  MeInv'
<1>1. /\ mpc = "advance" /\ mpc' = "events"
      /\ openNow' = {e \in Events : meLineage[e] # "none" /\ meOutcome[e] = "none"}
      /\ turn' = turn /\ keyset' = keyset /\ mePage' = mePage /\ meLeft' = meLeft
      /\ current' = current /\ tries' = tries /\ linkFound' = linkFound /\ remembered' = remembered
      /\ meTime' = meTime /\ candRows' = candRows /\ lateRows' = lateRows
      /\ phase1' = phase1 /\ meStatus' = meStatus /\ rstate' = rstate /\ stopAsked' = stopAsked
      /\ meSignals' = meSignals /\ meLineage' = meLineage /\ meCandles' = meCandles
      /\ meOutcome' = meOutcome
  BY DEF ReadOpenEvents, meInput, meTables
<1>2. MeTypeOK'
  BY <1>1, MeSplit DEF MeTypeOK
<1>3. PageIsAhead' /\ PageIsHandled' /\ CurrentIsStored'
  BY <1>1, MeSplit DEF PageIsAhead, PageIsHandled, CurrentIsStored, OnPage
<1>4. CursorPassesWritten' /\ ChainIsWhole'
  BY <1>1, MeSplit DEF CursorPassesWritten, ChainIsWhole
<1>5. QED BY <1>1, <1>2, <1>3, <1>4, MeSplit, MeJoin

(* An outcome is of an event with lineage whose window has closed.         *)
LEMMA AdvanceKeeps ==
    ASSUME MeInv, NEW e \in openNow, NEW got \in SUBSET ClosedCandles(e),
           NEW kept \in SUBSET ClosedCandles(e), NEW ok \in BOOLEAN, AdvanceEvent(e, got, kept, ok)
    PROVE  MeInv'
<1>1. /\ mpc = "events" /\ openNow' = openNow \ {e} /\ mpc' = mpc
      /\ turn' = turn /\ keyset' = keyset /\ mePage' = mePage /\ meLeft' = meLeft
      /\ current' = current /\ tries' = tries /\ linkFound' = linkFound /\ remembered' = remembered
      /\ meTime' = meTime /\ candRows' = candRows /\ lateRows' = lateRows
      /\ phase1' = phase1 /\ meStatus' = meStatus /\ rstate' = rstate /\ stopAsked' = stopAsked
      /\ meSignals' = meSignals /\ meLineage' = meLineage
      /\ meCandles' = CandlesStored(e, kept) /\ meOutcome' = OutcomeStored(e, got, ok)
  BY DEF AdvanceEvent, meInput
<1>2. e \in Events /\ meLineage[e] # "none" /\ meTime \in Nat
  BY MeSplit, MeNumbers DEF MeTypeOK, PageIsHandled
<1>3. got \subseteq 1..MeHorizon /\ kept \subseteq 1..MeHorizon /\ \A k \in got : e + k <= meTime
  BY DEF ClosedCandles
<1>4. meCandles' \in [Events -> SUBSET (1..MeHorizon)]
  <2>1. meCandles \in [Events -> SUBSET (1..MeHorizon)]
    BY MeSplit DEF MeTypeOK
  <2>2. meCandles[e] \union kept \in SUBSET (1..MeHorizon)
    BY <1>2, <1>3, <2>1
  <2>3. meCandles' = meCandles \/ meCandles' = [meCandles EXCEPT ![e] = meCandles[e] \union kept]
    BY <1>1 DEF CandlesStored
  <2>4. QED BY <2>1, <2>2, <2>3
<1>5. /\ meOutcome' \in [Events -> {"none", "MATCHED_FINALIZED", "SOURCE_INCOMPLETE"}]
      /\ \A d \in Events : meOutcome'[d] = meOutcome[d] \/ (d = e /\ e + MeHorizon <= meTime)
  <2> DEFINE w == OutcomeStatus(got)
             f == [meOutcome EXCEPT ![e] = w]
  <2>1. w \in {"MATCHED_FINALIZED", "SOURCE_INCOMPLETE"}
    BY DEF OutcomeStatus
  <2>2. meOutcome \in [Events -> {"none", "MATCHED_FINALIZED", "SOURCE_INCOMPLETE"}]
    BY MeSplit DEF MeTypeOK
  <2>3. meOutcome' = meOutcome \/ (meOutcome' = f /\ MeHorizon \in got)
    BY <1>1 DEF OutcomeStored, WindowClosed
  <2> HIDE DEF w
  <2>4. /\ f \in [Events -> {"none", "MATCHED_FINALIZED", "SOURCE_INCOMPLETE"}]
        /\ \A d \in Events : d # e => f[d] = meOutcome[d]
    BY <2>1, <2>2
  <2> HIDE DEF f
  <2>5. QED BY <1>3, <2>2, <2>3, <2>4
<1>6. MeTypeOK'
  <2>1. openNow' \subseteq Events
    BY <1>1, MeSplit DEF MeTypeOK
  <2>2. QED BY <1>1, <1>4, <1>5, <2>1, MeSplit DEF MeTypeOK
<1>7. PageIsAhead' /\ PageIsHandled' /\ CurrentIsStored'
  BY <1>1, MeSplit DEF PageIsAhead, PageIsHandled, CurrentIsStored
<1>8. CursorPassesWritten'
  BY <1>1, MeSplit DEF CursorPassesWritten
<1>9. ChainIsWhole'
  BY <1>1, <1>2, <1>5, MeSplit DEF ChainIsWhole
<1>10. QED BY <1>1, <1>6, <1>7, <1>8, <1>9, MeSplit, MeJoin

LEMMA MeControlSteps ==
    ASSUME MeInv,
           \/ MeTick \/ ToggleActivation \/ RequestStop \/ BeginCycleMe \/ CycleBreaks
           \/ EventsAdvanced \/ WriteHeartbeat \/ WakeUp \/ FetchFails \/ UNCHANGED meVars
           \/ (CheckState /\ mpc' # "down") \/ (\E e \in Events : CommitPhase1(e))
    PROVE  MeInv'
<1>1. MeTypeOK /\ meTime \in Nat /\ phase1 \subseteq Events
  BY MeSplit, MeNumbers DEF MeTypeOK
<1>2. UNCHANGED <<meWork, meTables, candRows, lateRows>>
  BY DEF MeTick, ToggleActivation, RequestStop, BeginCycleMe, CycleBreaks, EventsAdvanced,
         WriteHeartbeat, WakeUp, FetchFails, meVars, CheckState, CommitPhase1, meInput
<1>3. meTime' \in 0..MaxTime /\ meTime <= meTime'
  <2>1. meTime' = meTime \/ (meTime < MaxTime /\ meTime' = meTime + 1)
    BY DEF MeTick, ToggleActivation, RequestStop, BeginCycleMe, CycleBreaks, EventsAdvanced,
           WriteHeartbeat, WakeUp, FetchFails, meVars, CheckState, CommitPhase1, meInput
  <2>2. QED BY <1>1, <2>1, MeNumbers DEF MeTypeOK
<1>4. phase1 \subseteq phase1' /\ phase1' \subseteq Events
  <2>1. phase1' = phase1 \/ (\E e \in Events : phase1' = phase1 \union {e})
    BY DEF MeTick, ToggleActivation, RequestStop, BeginCycleMe, CycleBreaks, EventsAdvanced,
           WriteHeartbeat, WakeUp, FetchFails, meVars, CheckState, CommitPhase1, meInput
  <2>2. QED BY <1>1, <2>1
<1>5. meStatus' = meStatus \/ meStatus' \in {"RUNNING", "STOPPED"}
  BY DEF MeTick, ToggleActivation, RequestStop, BeginCycleMe, CycleBreaks, EventsAdvanced,
         WriteHeartbeat, WakeUp, FetchFails, meVars, CheckState, CommitPhase1, meInput
<1>6. /\ rstate' = rstate \/ rstate' \in {"RUNNING", "STOPPING", "FAILED"}
      /\ stopAsked' = stopAsked \/ stopAsked' = TRUE
  BY DEF MeTick, ToggleActivation, RequestStop, BeginCycleMe, CycleBreaks, EventsAdvanced,
         WriteHeartbeat, WakeUp, FetchFails, meVars, CheckState, CommitPhase1, EnterRunning
<1>7. \/ mpc' = mpc
      \/ /\ mpc \in {"top", "advance", "events", "beat", "sleep", "pages", "check"}
         /\ mpc' \in {"pages", "beat", "check", "sleep", "top", "advance"}
  BY DEF MeTick, ToggleActivation, RequestStop, BeginCycleMe, CycleBreaks, EventsAdvanced,
         WriteHeartbeat, WakeUp, FetchFails, meVars, CheckState, CommitPhase1
<1>8. /\ meStatus' \in {"NOT_ACTIVATED", "RUNNING", "STOPPED"}
      /\ rstate' \in {"IDLE", "RUNNING", "STOPPING", "FAILED"} /\ stopAsked' \in BOOLEAN
  BY <1>1, <1>5, <1>6 DEF MeTypeOK
<1>9. /\ mpc' \in {"down", "top", "pages", "handle", "lookup", "record", "advance", "events",
                   "beat", "check", "sleep"}
      /\ mpc' = mpc \/ (mpc \notin OnPage /\ mpc' \notin OnPage)
  BY <1>1, <1>7 DEF MeTypeOK, OnPage
<1>10. QED BY <1>2, <1>3, <1>4, <1>8, <1>9, ControlKeeps

LEMMA MeStepKeeps == MeInv /\ [MeNext]_meVars => MeInv'
<1> SUFFICES ASSUME MeInv, [MeNext]_meVars
             PROVE  MeInv'
  OBVIOUS
<1>1. CASE \/ MeTick \/ ToggleActivation \/ RequestStop \/ BeginCycleMe \/ CycleBreaks
           \/ EventsAdvanced \/ WriteHeartbeat \/ WakeUp \/ FetchFails \/ UNCHANGED meVars
           \/ \E e \in Events : CommitPhase1(e)
  BY <1>1, MeControlSteps
<1>2. CASE StartRuntime \/ KillRuntime
  BY <1>2, ResetKeeps
<1>3. CASE CheckState
  BY <1>3, ResetKeeps, MeControlSteps
<1>4. CASE \E e \in Events : \E s \in Sources : CommitCandidate(s, e)
  BY <1>4, CommitKeeps
<1>5. CASE \E readable \in {Sources, {"dds"}} : FetchCandidates(readable)
  BY <1>5, FetchKeeps
<1>6. CASE \E e \in meLeft, ok \in BOOLEAN : CaptureSignal(e, ok)
  BY <1>6, CaptureKeeps
<1>7. CASE \E ok \in BOOLEAN : LookUpPhase1(ok) \/ RecordLineage(ok)
  BY <1>7, LookUpKeeps, RecordKeeps
<1>8. CASE PageHandled \/ ReadOpenEvents
  BY <1>8, PageHandledKeeps, ReadOpenKeeps
<1>9. CASE \E e \in openNow : \E got \in SUBSET ClosedCandles(e), kept \in SUBSET ClosedCandles(e),
                                 ok \in BOOLEAN : AdvanceEvent(e, got, kept, ok)
  BY <1>9, AdvanceKeeps
<1>10. ASSUME MeProgress
       PROVE  MeInv'
  <2>1. \A e \in openNow : ClosedCandles(e) \in SUBSET ClosedCandles(e)
    OBVIOUS
  <2>2. QED BY <1>2, <1>3, <1>1, <1>5, <1>6, <1>7, <1>8, <1>9, <1>10, <2>1 DEF MeProgress
<1>11. ASSUME MeFails
       PROVE  MeInv'
  <2>1. \A e : {} \in SUBSET ClosedCandles(e)
    OBVIOUS
  <2>2. QED BY <1>1, <1>2, <1>5, <1>6, <1>7, <1>9, <1>11, <2>1 DEF MeFails
<1>12. QED BY <1>1, <1>4, <1>10, <1>11 DEF MeNext

-----------------------------------------------------------------------------
(* MeShortForward: no table changes while the activation is not RUNNING.   *)
LEMMA GatedStep ==
    ASSUME MeInv, [MeNext]_meVars
    PROVE  meStatus = "RUNNING" \/ UNCHANGED meTables
<1>1. \A e, ok : SignalStored(e, ok) = meSignals \/ meStatus = "RUNNING"
  BY DEF SignalStored, ActivationGate
<1>2. \A e, ok : LineageStored(e, ok) = meLineage \/ meStatus = "RUNNING"
  BY DEF LineageStored, ActivationGate
<1>3. \A e, got : CandlesStored(e, got) = meCandles \/ meStatus = "RUNNING"
  BY DEF CandlesStored, ActivationGate
<1>4. \A e, got, ok : OutcomeStored(e, got, ok) = meOutcome \/ meStatus = "RUNNING"
  BY DEF OutcomeStored, ActivationGate
<1>5. CASE \/ MeTick \/ ToggleActivation \/ RequestStop \/ StartRuntime \/ KillRuntime
           \/ BeginCycleMe \/ CycleBreaks \/ FetchFails \/ PageHandled \/ ReadOpenEvents
           \/ EventsAdvanced \/ WriteHeartbeat \/ CheckState \/ WakeUp \/ UNCHANGED meVars
  BY <1>5 DEF MeTick, ToggleActivation, RequestStop, StartRuntime, KillRuntime, BeginCycleMe,
              CycleBreaks, FetchFails, PageHandled, ReadOpenEvents, EventsAdvanced, WriteHeartbeat,
              CheckState, WakeUp, meVars
<1>6. CASE \/ \E e \in Events : CommitPhase1(e) \/ \E s \in Sources : CommitCandidate(s, e)
           \/ FetchCandidates(Sources) \/ FetchCandidates({"dds"})
           \/ LookUpPhase1(TRUE) \/ LookUpPhase1(FALSE)
  BY <1>6 DEF CommitPhase1, CommitCandidate, FetchCandidates, LookUpPhase1
<1>7. CASE \E e \in meLeft, ok \in BOOLEAN : CaptureSignal(e, ok)
  BY <1>1, <1>7 DEF CaptureSignal, meTables
<1>8. CASE RecordLineage(TRUE) \/ RecordLineage(FALSE)
  BY <1>2, <1>8 DEF RecordLineage, meTables
<1>9. CASE \E e, got, kept, ok : AdvanceEvent(e, got, kept, ok)
  BY <1>3, <1>4, <1>9 DEF AdvanceEvent, meTables
<1>10. MeProgress => meStatus = "RUNNING" \/ UNCHANGED meTables
  BY <1>5, <1>6, <1>7, <1>8, <1>9 DEF MeProgress
<1>11. MeFails => meStatus = "RUNNING" \/ UNCHANGED meTables
  BY <1>5, <1>6, <1>7, <1>8, <1>9 DEF MeFails
<1>12. QED BY <1>5, <1>6, <1>10, <1>11 DEF MeNext

(* The inductive invariant of the forward outcome runtime.                 *)
THEOREM MeInvariance == MeSpec => []MeInv
<1>1. QED BY MeInitHolds, MeStepKeeps, PTL DEF MeSpec

(* Every candidate the keyset cursor has passed was late or has its        *)
(* lineage, the chain from source signal to outcome is whole, and nothing  *)
(* is written without a RUNNING activation                                 *)
(* (me_short_a_forward_outcome_runtime_v1.py).                             *)
THEOREM MeSafety == MeSpec => MeSafe
<1>1. MeInv => MeTypeOK /\ CursorPassesWritten /\ ChainIsWhole
  BY DEF MeInv
<1>2. MeInv /\ [MeNext]_meVars => [meStatus = "RUNNING" \/ UNCHANGED meTables]_meVars
  BY GatedStep
<1>3. QED BY <1>1, <1>2, MeInvariance, PTL DEF MeSpec, MeSafe, WritesOnlyWhenRunning
-----------------------------------------------------------------------------
(* OutcomeEvaluator: what a process remembers is in the table, and was     *)
(* read at a time that is past.                                            *)
ReadingIsPast ==
    \A e \in Evaluators :
        /\ asOf[e] <= evalNow
        /\ \A r \in SignalRows : known[e][r] \subseteq Done(r)

EvInv == OutcomeTypeOK /\ FinalIsComplete /\ ReadingIsPast

LEMMA EvNumbers ==
    /\ LastHorizon \in Nat /\ LastHorizon > 0 /\ MaxNow \in Nat
    /\ Horizons \subseteq Nat \ {0} /\ Hold \in [SignalRows -> Nat \ {0}]
BY EvaluatorConstants DEF Horizons

LEMMA EvInitHolds == OutcomeInit => EvInv
<1> SUFFICES ASSUME OutcomeInit PROVE EvInv
  OBVIOUS
<1>1. OutcomeTypeOK
  BY EvNumbers, EvaluatorConstants DEF OutcomeInit, OutcomeTypeOK, NothingKnown
<1>2. FinalIsComplete /\ ReadingIsPast
  BY EvNumbers DEF OutcomeInit, FinalIsComplete, ReadingIsPast, NothingKnown
<1>3. QED BY <1>1, <1>2 DEF EvInv

(* What an evaluation writes: horizons that were mature when the process   *)
(* read, marked with that time; nothing that was marked is lost.           *)
LEMMA WrittenFacts ==
    ASSUME EvInv, NEW e \in Evaluators, NEW r \in SignalRows, NEW cover \in 0..MaxNow,
           Evaluate(e, r, cover)
    PROVE  /\ rowAt' \in [SignalRows -> [Horizons -> 0..MaxNow]]
           /\ \A q \in SignalRows, h \in Horizons :
                /\ rowAt'[q][h] # 0 => rowAt'[q][h] >= h
                /\ rowAt[q][h] # 0 => rowAt'[q][h] # 0
                /\ rowAt[q][h] # 0 /\ RowKind[q] = "oos" => rowAt'[q][h] = rowAt[q][h]
           /\ \A h \in Covered(e, r, cover) : rowAt'[r][h] # 0
<1> DEFINE new == Covered(e, r, cover)
<1>1. rowAt' = [rowAt EXCEPT ![r] = Written(e, r, new)]
  BY DEF Evaluate
<1>2. asOf[e] \in 0..MaxNow /\ rowAt \in [SignalRows -> [Horizons -> 0..MaxNow]]
  BY DEF EvInv, OutcomeTypeOK
<1>3. new \subseteq Horizons /\ \A h \in new : h <= asOf[e] /\ asOf[e] # 0
  <2>1. new \subseteq Open(e, r)
    BY DEF Covered
  <2>2. \A h \in Open(e, r) : h \in Horizons /\ h <= asOf[e]
    BY DEF Open
  <2>3. \A h \in Horizons : h \in Nat /\ h > 0
    BY EvNumbers
  <2>4. QED BY <1>2, <2>1, <2>2, <2>3
<1> HIDE DEF new
<1>4. Written(e, r, new) \in [Horizons -> 0..MaxNow]
  BY <1>2, <1>3 DEF Written, Overwritten
<1>5. \A h \in Horizons :
        \/ /\ Written(e, r, new)[h] = asOf[e] /\ h <= asOf[e] /\ asOf[e] # 0
           /\ RowKind[r] = "oos" => rowAt[r][h] = 0
        \/ Written(e, r, new)[h] = rowAt[r][h] /\ (h \in new => rowAt[r][h] # 0)
  <2> TAKE h \in Horizons
  <2>1. Written(e, r, new)[h] =
          IF h \in new /\ (RowKind[r] # "oos" \/ rowAt[r][h] = 0) THEN asOf[e] ELSE rowAt[r][h]
    BY DEF Written, Overwritten, Done
  <2>2. CASE h \in new /\ (RowKind[r] # "oos" \/ rowAt[r][h] = 0)
    BY <1>3, <2>1, <2>2
  <2>3. CASE ~(h \in new /\ (RowKind[r] # "oos" \/ rowAt[r][h] = 0))
    BY <2>1, <2>3
  <2>4. QED BY <2>2, <2>3
<1>6. \A q \in SignalRows, h \in Horizons : rowAt[q][h] # 0 => rowAt[q][h] >= h
  BY DEF EvInv, FinalIsComplete
<1>7. rowAt' \in [SignalRows -> [Horizons -> 0..MaxNow]]
  BY <1>1, <1>2, <1>4
<1>8. rowAt'[r] = Written(e, r, new) /\ \A q \in SignalRows \ {r} : rowAt'[q] = rowAt[q]
  BY <1>1, <1>2
<1>9. \A q \in SignalRows, h \in Horizons :
        /\ rowAt'[q][h] # 0 => rowAt'[q][h] >= h
        /\ rowAt[q][h] # 0 => rowAt'[q][h] # 0
        /\ rowAt[q][h] # 0 /\ RowKind[q] = "oos" => rowAt'[q][h] = rowAt[q][h]
  <2> TAKE q \in SignalRows, h \in Horizons
  <2>1. CASE q = r
    BY <2>1, <1>5, <1>6, <1>8, <1>2, EvNumbers
  <2>2. CASE q # r
    BY <2>2, <1>6, <1>8
  <2>3. QED BY <2>1, <2>2
<1>10. \A h \in new : rowAt'[r][h] # 0
  BY <1>3, <1>5, <1>8
<1>11. QED BY <1>7, <1>9, <1>10 DEF new

(* Steps that leave the table and the final rows alone.                    *)
LEMMA EvTableKept ==
    ASSUME EvInv, OutcomeTypeOK', rowAt' = rowAt, final' = final, evalNow' >= evalNow,
           ReadingIsPast'
    PROVE  EvInv'
<1>1. \A r \in final : Hold[r] <= evalNow'
  BY EvNumbers DEF EvInv, FinalIsComplete, OutcomeTypeOK
<1>2. QED BY <1>1 DEF EvInv, FinalIsComplete, Done

LEMMA EvTypeKept ==
    ASSUME EvInv, [OutcomeNext]_evaluatorVars
    PROVE  OutcomeTypeOK'
<1> USE DEF EvInv, OutcomeTypeOK, OutcomeTable
<1>1. CASE EvalTick
  BY <1>1, EvNumbers DEF EvalTick
<1>2. CASE \E r \in SignalRows : CloseDirection(r)
  BY <1>2 DEF CloseDirection
<1>3. ASSUME NEW e \in Evaluators, ReadRows(e) PROVE OutcomeTypeOK'
  <2>1. [r \in SignalRows |-> Done(r)] \in [SignalRows -> SUBSET Horizons]
    BY DEF Done
  <2>2. QED BY <1>3, <2>1 DEF ReadRows
<1>4. ASSUME NEW e \in Evaluators, ReadFails(e) PROVE OutcomeTypeOK'
  BY <1>4 DEF ReadFails
<1>5. ASSUME NEW e \in Evaluators, RestartEvaluator(e) PROVE OutcomeTypeOK'
  BY <1>5, EvNumbers DEF RestartEvaluator, NothingKnown
<1>6. ASSUME NEW e \in Evaluators, EndEvaluation(e) PROVE OutcomeTypeOK'
  BY <1>6, EvNumbers DEF EndEvaluation, NothingKnown
<1>7. ASSUME NEW e \in Evaluators, NEW r \in SignalRows, EvaluateFails(e, r) PROVE OutcomeTypeOK'
  BY <1>7 DEF EvaluateFails
<1>8. ASSUME NEW e \in Evaluators, NEW r \in SignalRows, NEW cover \in 0..MaxNow,
             Evaluate(e, r, cover)
      PROVE  OutcomeTypeOK'
  <2>1. rowAt' \in [SignalRows -> [Horizons -> 0..MaxNow]]
    BY <1>8, WrittenFacts
  <2>2. final' \subseteq SignalRows
    BY <1>8 DEF Evaluate
  <2>3. rowsLeft' \in [Evaluators -> SUBSET SignalRows]
    BY <1>8 DEF Evaluate
  <2>4. QED BY <1>8, <2>1, <2>2, <2>3 DEF Evaluate
<1>9. CASE UNCHANGED evaluatorVars
  BY <1>9 DEF evaluatorVars
<1>10. QED BY <1>1, <1>2, <1>3, <1>4, <1>5, <1>6, <1>7, <1>8, <1>9 DEF OutcomeNext

LEMMA EvStepKeeps ==
    ASSUME EvInv, [OutcomeNext]_evaluatorVars
    PROVE  EvInv'
<1>0. OutcomeTypeOK' /\ OutcomeTypeOK /\ ReadingIsPast /\ FinalIsComplete
  BY EvTypeKept DEF EvInv
<1>1. CASE EvalTick
  <2>1. evalNow' >= evalNow /\ ReadingIsPast'
    BY <1>0, <1>1, EvNumbers DEF EvalTick, OutcomeTable, ReadingIsPast, OutcomeTypeOK, Done
  <2>2. QED BY <1>0, <1>1, <2>1, EvTableKept DEF EvalTick, OutcomeTable
<1>2. ASSUME UNCHANGED <<evalNow, rowAt, final, asOf, known>> PROVE EvInv'
  BY <1>0, <1>2 DEF EvInv, FinalIsComplete, ReadingIsPast, Done
<1>3. ASSUME NEW e \in Evaluators, UNCHANGED <<evalNow, rowAt, final>>,
             \/ /\ asOf' = [asOf EXCEPT ![e] = evalNow]
                /\ known' = [known EXCEPT ![e] = [r \in SignalRows |-> Done(r)]]
             \/ /\ asOf' = [asOf EXCEPT ![e] = 0]
                /\ known' = [known EXCEPT ![e] = NothingKnown]
      PROVE  EvInv'
  <2>1. evalNow' >= evalNow
    BY <1>0, <1>3 DEF OutcomeTypeOK
  <2>2. ReadingIsPast'
    <3>1. \A r \in SignalRows : Done(r)' = Done(r)
      BY <1>3 DEF Done
    <3> SUFFICES ASSUME NEW d \in Evaluators
                 PROVE  /\ asOf'[d] <= evalNow'
                        /\ \A r \in SignalRows : known'[d][r] \subseteq Done(r)
      BY <3>1 DEF ReadingIsPast
    <3>2. evalNow \in Nat /\ 0 <= evalNow /\ evalNow' = evalNow
      BY <1>0, <1>3 DEF OutcomeTypeOK
    <3>3. asOf[d] <= evalNow /\ \A r \in SignalRows : known[d][r] \subseteq Done(r)
      BY <1>0 DEF ReadingIsPast
    <3>4. CASE d # e
      BY <1>0, <1>3, <3>2, <3>3, <3>4 DEF OutcomeTypeOK
    <3>5. CASE d = e
      <4>1. asOf'[d] <= evalNow'
        BY <1>0, <1>3, <3>2, <3>5 DEF OutcomeTypeOK
      <4>2. \A r \in SignalRows : known'[d][r] \in {{}, Done(r)}
        BY <1>0, <1>3, <3>5 DEF OutcomeTypeOK, NothingKnown
      <4>3. QED BY <4>1, <4>2
    <3>6. QED BY <3>4, <3>5
  <2>3. QED BY <1>0, <1>3, <2>1, <2>2, EvTableKept
<1>4. ASSUME NEW e \in Evaluators, NEW r \in SignalRows, NEW cover \in 0..MaxNow,
             Evaluate(e, r, cover)
      PROVE  EvInv'
  <2>1. /\ \A q \in SignalRows, h \in Horizons :
             /\ rowAt'[q][h] # 0 => rowAt'[q][h] >= h
             /\ rowAt[q][h] # 0 => rowAt'[q][h] # 0
        /\ \A h \in Covered(e, r, cover) : rowAt'[r][h] # 0
    BY <1>4, WrittenFacts
  <2>2. \A q \in SignalRows : Done(q) \subseteq Done(q)'
    BY <2>1 DEF Done
  <2>3. evalNow' = evalNow /\ asOf' = asOf /\ known' = known /\ cover <= asOf[e]
    BY <1>4 DEF Evaluate
  <2>4. ReadingIsPast'
    BY <1>0, <2>2, <2>3 DEF ReadingIsPast
  <2>5. r \in final' /\ r \notin final => Done(r)' = Horizons /\ Hold[r] <= evalNow
    <3> SUFFICES ASSUME r \in final', r \notin final
                 PROVE  Done(r)' = Horizons /\ Hold[r] <= evalNow
      OBVIOUS
    <3>1. known[e][r] \union Covered(e, r, cover) = Horizons /\ Hold[r] <= cover
      BY <1>4 DEF Evaluate, Finishes
    <3>2. known[e][r] \subseteq Done(r)' /\ Covered(e, r, cover) \subseteq Done(r)'
      BY <1>0, <2>1, <2>2, <3>1 DEF ReadingIsPast, Done
    <3>3. Hold[r] <= evalNow
      BY <1>0, <2>3, <3>1, EvNumbers DEF ReadingIsPast, OutcomeTypeOK
    <3>4. QED BY <3>1, <3>2, <3>3 DEF Done
  <2>6. \A q \in final' : q \in final \/ q = r
    BY <1>4 DEF Evaluate
  <2>7. \A q \in final : Done(q)' = Horizons /\ Hold[q] <= evalNow
    BY <1>0, <2>2 DEF FinalIsComplete, OutcomeTypeOK, Done
  <2>8. FinalIsComplete'
    BY <2>1, <2>3, <2>5, <2>6, <2>7 DEF FinalIsComplete
  <2>9. QED BY <1>0, <2>4, <2>8 DEF EvInv
<1>5. QED BY <1>1, <1>2, <1>3, <1>4 DEF OutcomeNext, CloseDirection, ReadRows, ReadFails,
          RestartEvaluator, EndEvaluation, EvaluateFails, OutcomeTable, evaluatorVars

(* Two processes with old readings: nothing evaluated becomes open again.  *)
LEMMA EvKeptStep ==
    ASSUME EvInv, [OutcomeNext]_evaluatorVars
    PROVE  \A r \in SignalRows :
             /\ r \in final => r \in final'
             /\ \A h \in Done(r) :
                  rowAt'[r][h] # 0 /\ (RowKind[r] = "oos" => rowAt'[r][h] = rowAt[r][h])
<1>1. ASSUME rowAt' = rowAt, final' = final, NEW r \in SignalRows
      PROVE  /\ r \in final => r \in final'
             /\ \A h \in Done(r) :
                  rowAt'[r][h] # 0 /\ (RowKind[r] = "oos" => rowAt'[r][h] = rowAt[r][h])
  BY <1>1 DEF Done
<1>2. ASSUME NEW e \in Evaluators, NEW q \in SignalRows, NEW cover \in 0..MaxNow,
             Evaluate(e, q, cover), NEW r \in SignalRows
      PROVE  /\ r \in final => r \in final'
             /\ \A h \in Done(r) :
                  rowAt'[r][h] # 0 /\ (RowKind[r] = "oos" => rowAt'[r][h] = rowAt[r][h])
  <2>1. r \in final => r \in final'
    BY <1>2 DEF Evaluate
  <2>2. QED BY <1>2, <2>1, WrittenFacts DEF Done
<1>3. QED BY <1>1, <1>2 DEF OutcomeNext, EvalTick, CloseDirection, ReadRows, ReadFails,
          RestartEvaluator, EndEvaluation, EvaluateFails, OutcomeTable, evaluatorVars

(* The inductive invariant of the evaluators.                              *)
THEOREM EvInvariance == EvaluatorSpec => []EvInv
<1>1. QED BY EvInitHolds, EvStepKeeps, PTL DEF EvaluatorSpec

(* However many processes evaluate the same rows from readings of          *)
(* different times: a final row is complete and of the past, nothing       *)
(* evaluated is lost, and the "oos" table keeps its first values           *)
(* (evaluator.py, prospective_evaluator.py, the oos repository).           *)
THEOREM EvaluatorSafety == EvaluatorSpec => EvaluatorSafe
<1>1. EvInv => OutcomeTypeOK /\ FinalIsComplete
  BY DEF EvInv
<1>2. EvInv /\ [OutcomeNext]_evaluatorVars =>
        [\A r \in SignalRows :
          /\ r \in final => r \in final'
          /\ \A h \in Done(r) :
               rowAt'[r][h] # 0 /\ (RowKind[r] = "oos" => rowAt'[r][h] = rowAt[r][h])]_evaluatorVars
  BY EvKeptStep
<1>3. QED BY <1>1, <1>2, EvInvariance, PTL DEF EvaluatorSpec, EvaluatorSafe, EvaluationKept

-----------------------------------------------------------------------------
(* SrrShortOutcome: what the price did, and what a class says of it.       *)

Quiet(t) == prices[t] = "quiet"

(* t is the first tick of the holding time in which a level is reached.    *)
FirstTouch(t) ==
    /\ t \in signalAt..(Cutoff - 1) /\ t < tick /\ ~Quiet(t)
    /\ \A q \in signalAt..(t - 1) : Quiet(q)

TrueTarget == \E t \in 0..(tick - 1) : FirstTouch(t) /\ prices[t] = "target"
TrueStop ==
    \E t \in 0..(tick - 1) :
        /\ FirstTouch(t)
        /\ \E s \in FloorBar(t)..(FloorBar(t) + Bar - 1) : s >= 0 /\ s < tick /\ prices[s] = "stop"
TrueTimeout == tick >= Cutoff /\ \A t \in signalAt..(FloorBar(Cutoff) - 1) : Quiet(t)

(* What a class says is true, whatever the price does from now on.         *)
TrueClass(c) ==
    /\ c = "TP_FIRST" => TrueTarget
    /\ c = "SL_FIRST" => TrueStop
    /\ c = "TIMEOUT" => TrueTimeout

ResultsAreTrue == \A e \in SrrWriters : TrueClass(srrResult[e].class)
LockedIsActive == \A e \in SrrWriters : srrAt[e] = "locked" => RecordVerified /\ SignalEligible

SrrInv == SrrOutcomeTypeOK /\ TrueClass(srrRow.class) /\ ResultsAreTrue /\ LockedIsActive

-----------------------------------------------------------------------------
(* Candles.                                                                *)

LEMMA SrrNumbers == Bar \in Nat /\ Bar > 0 /\ HoldTicks \in Nat /\ HoldTicks >= Bar
<1>1. Bar \in Nat /\ Bar > 0 /\ HoldTicks \in Nat /\ HoldTicks > 0 /\ HoldTicks % Bar = 0
  BY SrrOutcomeAssumption
<1>2. HoldTicks < Bar => HoldTicks % Bar = HoldTicks
  BY <1>1
<1>3. QED BY <1>1, <1>2

LEMMA DivMod ==
    ASSUME NEW a \in Int, NEW b \in Nat \ {0}
    PROVE  /\ a \div b \in Int /\ a % b \in 0..(b - 1)
           /\ a = (a \div b) * b + (a % b)
OBVIOUS

(* The candle of a tick: FloorBar(t) is its open time.                     *)
LEMMA FloorFacts ==
    ASSUME NEW t \in Int
    PROVE  /\ FloorBar(t) \in Int /\ FloorBar(t) % Bar = 0
           /\ FloorBar(t) <= t /\ t < FloorBar(t) + Bar
<1> DEFINE k == t \div Bar
           m == t % Bar
<1>0. Bar \in Nat \ {0}
  BY SrrNumbers
<1>1. k \in Int /\ t = k * Bar + m /\ m >= 0 /\ m < Bar /\ m \in Int
  BY <1>0, DivMod
<1>2. k * Bar \in Int /\ (k * Bar) % Bar = 0
  BY <1>1, SrrNumbers
<1>3. FloorBar(t) = k * Bar
  BY DEF FloorBar
<1> HIDE DEF k, m
<1>4. FloorBar(t) \in Int /\ t = FloorBar(t) + m
  BY <1>1, <1>2, <1>3
<1>5. FloorBar(t) <= t /\ t < FloorBar(t) + Bar
  BY <1>1, <1>4, SrrNumbers
<1>6. FloorBar(t) % Bar = 0
  BY <1>2, <1>3
<1>7. QED BY <1>4, <1>5, <1>6

(* Two different open times are a candle apart.                            *)
LEMMA OpensApart ==
    ASSUME NEW a \in Int, NEW b \in Int, a % Bar = 0, b % Bar = 0, a < b
    PROVE  a + Bar <= b
<1> DEFINE i == a \div Bar
           j == b \div Bar
<1>1. i \in Int /\ j \in Int /\ a = i * Bar /\ b = j * Bar
  BY SrrNumbers
<1> HIDE DEF i, j
<1>2. i < j
  <2>1. CASE i >= j
    <3>1. (i - j) * Bar >= 0
      BY <1>1, <2>1, SrrNumbers
    <3>2. (i - j) * Bar = i * Bar - j * Bar
      BY <1>1, SrrNumbers
    <3>3. i * Bar \in Int /\ j * Bar \in Int
      BY <1>1
    <3>4. QED BY <1>1, <3>1, <3>2, <3>3
  <2>2. QED BY <1>1, <2>1
<1>3. (j - (i + 1)) * Bar >= 0
  BY <1>1, <1>2, SrrNumbers
<1>4. (j - (i + 1)) * Bar = j * Bar - i * Bar - Bar
  BY <1>1, SrrNumbers
<1>5. QED BY <1>1, <1>3, <1>4, SrrNumbers

LEMMA FloorIsLargest ==
    ASSUME NEW a \in Int, NEW t \in Int, a % Bar = 0, a <= t
    PROVE  a <= FloorBar(t)
<1>1. FloorBar(t) \in Int /\ FloorBar(t) % Bar = 0 /\ t < FloorBar(t) + Bar
  BY FloorFacts
<1>2. FloorBar(t) < a => FloorBar(t) + Bar <= a
  BY <1>1, OpensApart
<1>3. QED BY <1>1, <1>2, SrrNumbers

LEMMA FloorIsTheCandle ==
    ASSUME NEW a \in Int, NEW t \in a..(a + Bar - 1), a % Bar = 0
    PROVE  FloorBar(t) = a
<1>1. t \in Int /\ a <= t /\ t < a + Bar
  BY SrrNumbers
<1>2. a <= FloorBar(t)
  BY <1>1, FloorIsLargest
<1>3. CASE a < FloorBar(t)
  <2>1. a + Bar <= FloorBar(t)
    BY <1>1, <1>3, FloorFacts, OpensApart
  <2>2. QED BY <1>1, <2>1, FloorFacts, SrrNumbers
<1>4. QED BY <1>1, <1>2, <1>3, FloorFacts

LEMMA LeastNat ==
    ASSUME NEW T, T \subseteq Nat, T # {}
    PROVE  LeastOf(T) \in T /\ \A k \in T : LeastOf(T) <= k
<1> DEFINE R == OpToRel(<, Nat)
<1>1. R = {ss \in Nat \X Nat : ss[1] < ss[2]}
  BY DEF OpToRel
<1>2. IsWellFoundedOn(R, Nat)
  BY NatLessThanWellFounded
<1> HIDE DEF R
<1>3. PICK m \in T : \A y \in T : ~(<<y, m>> \in R)
  BY <1>2, WFMin
<1>4. \A y \in T : ~(y < m)
  BY <1>1, <1>3
<1>5. \A y \in T : m <= y
  BY <1>3, <1>4
<1>6. QED BY <1>3, <1>5 DEF LeastOf

(* LeastOf picks the least element once there is one.                      *)
LEMMA LeastIsUnique ==
    ASSUME NEW T, T \subseteq Nat, NEW m \in T, \A k \in T : m <= k
    PROVE  LeastOf(T) = m
<1>1. LeastOf(T) \in T /\ \A k \in T : LeastOf(T) <= k
  BY LeastNat
<1>2. LeastOf(T) <= m /\ m <= LeastOf(T) /\ LeastOf(T) \in Nat /\ m \in Nat
  BY <1>1
<1>3. QED BY <1>2

-----------------------------------------------------------------------------
(* The whole answer of the source, and what the policy concludes from it.  *)

(* An expected candle is over, and within the holding time but for the     *)
(* candle in which the signal fell.                                        *)
LEMMA ExpectedFacts ==
    ASSUME SrrOutcomeTypeOK, NEW o \in Int
    PROVE  /\ o \in ExpectedOpens(tick) <=>
                 /\ o % Bar = 0 /\ FloorBar(signalAt) <= o
                 /\ o <= FloorBar(tick) - Bar /\ o <= FloorBar(Cutoff - Bar)
           /\ o \in ExpectedOpens(tick) =>
                 o >= 0 /\ o + Bar <= tick /\ o + Bar <= Cutoff /\ o + Bar > signalAt
<1>1. signalAt \in Nat /\ tick \in Nat /\ Cutoff \in Int /\ Cutoff - Bar \in Int
  BY SrrNumbers, SrrOutcomeAssumption DEF SrrOutcomeTypeOK, Cutoff
<1>2. /\ FloorBar(tick) \in Int /\ FloorBar(tick) <= tick
      /\ FloorBar(Cutoff - Bar) \in Int /\ FloorBar(Cutoff - Bar) <= Cutoff - Bar
      /\ FloorBar(signalAt) \in Int /\ signalAt < FloorBar(signalAt) + Bar
  BY <1>1, FloorFacts
<1>3. FloorBar(signalAt) >= 0
  <2>1. 0 % Bar = 0
    BY SrrNumbers
  <2>2. QED BY <1>1, <2>1, FloorIsLargest
<1> DEFINE last == IF FloorBar(tick) - Bar < RequestedEnd THEN FloorBar(tick) - Bar ELSE RequestedEnd
<1>4. /\ last \in Int /\ last <= FloorBar(tick) - Bar /\ last <= FloorBar(Cutoff - Bar)
      /\ \A x \in Int : x <= FloorBar(tick) - Bar /\ x <= FloorBar(Cutoff - Bar) => x <= last
  BY <1>2, SrrNumbers DEF RequestedEnd
<1>5. ExpectedOpens(tick) = BarOpens(FloorBar(signalAt), last)
  BY DEF ExpectedOpens, RequestedStart
<1> HIDE DEF last
<1>6. o \in ExpectedOpens(tick) <=> o % Bar = 0 /\ FloorBar(signalAt) <= o /\ o <= last
  BY <1>2, <1>4, <1>5 DEF BarOpens
<1>7. o <= last <=> o <= FloorBar(tick) - Bar /\ o <= FloorBar(Cutoff - Bar)
  BY <1>2, <1>4, SrrNumbers
<1>8. QED BY <1>1, <1>2, <1>3, <1>6, <1>7, SrrNumbers

LEMMA EligibleFacts ==
    ASSUME SrrOutcomeTypeOK
    PROVE  /\ ExpectedOpens(tick) \subseteq Nat
           /\ PathWindow(ExpectedOpens(tick)) = ExpectedOpens(tick)
           /\ EligibleOpens(ExpectedOpens(tick)) = {o \in ExpectedOpens(tick) : o >= signalAt}
<1>1. \A o \in ExpectedOpens(tick) : o \in Int
  <2>1. signalAt \in Int /\ tick \in Int /\ Cutoff - Bar \in Int
    BY SrrNumbers, SrrOutcomeAssumption DEF SrrOutcomeTypeOK, Cutoff
  <2>2. FloorBar(signalAt) \in Int /\ FloorBar(tick) \in Int /\ FloorBar(Cutoff - Bar) \in Int
    BY <2>1, FloorFacts
  <2>3. QED BY <2>2, SrrNumbers DEF ExpectedOpens, BarOpens, RequestedStart, RequestedEnd
<1>2. signalAt \in Int /\ Cutoff \in Int
  BY SrrNumbers, SrrOutcomeAssumption DEF SrrOutcomeTypeOK, Cutoff
<1>3. ASSUME NEW o \in ExpectedOpens(tick)
      PROVE  o \in Nat /\ o + Bar <= Cutoff /\ o + Bar > signalAt /\ o < Cutoff
  <2>1. o \in Int
    BY <1>1
  <2>2. o >= 0 /\ o + Bar <= Cutoff /\ o + Bar > signalAt
    BY <2>1, ExpectedFacts
  <2>3. QED BY <1>2, <2>1, <2>2, SrrNumbers
<1>4. ExpectedOpens(tick) \subseteq Nat
  BY <1>3
<1>5. PathWindow(ExpectedOpens(tick)) = ExpectedOpens(tick)
  BY <1>3 DEF PathWindow
<1>6. QED BY <1>3, <1>4, <1>5 DEF EligibleOpens

(* A tick after the signal is quiet when its candle was answered, did not  *)
(* touch a level, and is not the candle in which the signal fell.          *)
LEMMA QuietTick ==
    ASSUME SrrOutcomeTypeOK, ~SignalBoundaryUncertain(ExpectedOpens(tick)),
           NEW q \in Int, q >= signalAt,
           FloorBar(q) \in ExpectedOpens(tick),
           FloorBar(q) \notin TouchedOpens(ExpectedOpens(tick))
    PROVE  Quiet(q)
<1> DEFINE b == FloorBar(q)
           E == ExpectedOpens(tick)
<1>1. b \in Int /\ b % Bar = 0 /\ b <= q /\ q < b + Bar
  BY FloorFacts
<1>2. signalAt \in Nat /\ tick \in Nat
  BY SrrNumbers, SrrOutcomeAssumption DEF SrrOutcomeTypeOK
<1>3. b >= 0 /\ b + Bar <= tick
  BY <1>1, ExpectedFacts
<1>4. ~Touches(b)
  <2>1. CASE b >= signalAt
    BY <2>1, EligibleFacts DEF TouchedOpens
  <2>2. CASE b < signalAt
    <3>1. \A o \in E : b <= o
      <4>1. b <= FloorBar(signalAt)
        BY <1>1, <1>2, <2>2, FloorIsLargest
      <4>2. FloorBar(signalAt) \in Int
        BY <1>2, FloorFacts
      <4>3. \A o \in E : o \in Int /\ FloorBar(signalAt) <= o
        BY EligibleFacts, ExpectedFacts
      <4>4. QED BY <1>1, <4>1, <4>2, <4>3
    <3>2. LeastOf(E) = b
      BY <3>1, EligibleFacts, LeastIsUnique
    <3>3. signalAt < b + Bar
      BY <1>1, <1>2, SrrNumbers
    <3>4. PathWindow(E) = E /\ E # {}
      BY EligibleFacts
    <3>5. QED BY <2>2, <3>2, <3>3, <3>4 DEF SignalBoundaryUncertain
  <2>3. QED BY <1>1, <1>2, <2>1, <2>2
<1>5. q \in b..(b + Bar - 1) /\ q \in 0..(tick - 1)
  BY <1>1, <1>2, <1>3, SrrNumbers
<1>6. prices[q] \in Moves
  BY <1>5 DEF SrrOutcomeTypeOK
<1>7. QED BY <1>4, <1>5, <1>6 DEF Touches, TouchesTarget, TouchesStop, Quiet, Moves

(* The candle the policy finds touched first is the one in which the price *)
(* first reached a level.                                                  *)
LEMMA FirstTouchFacts ==
    ASSUME SrrOutcomeTypeOK, ~SignalBoundaryUncertain(ExpectedOpens(tick)),
           TouchedOpens(ExpectedOpens(tick)) # {},
           NEW o, o = LeastOf(TouchedOpens(ExpectedOpens(tick)))
    PROVE  /\ TouchesStop(o) => TrueStop
           /\ ~TouchesStop(o) => TrueTarget
<1> DEFINE E == ExpectedOpens(tick)
           T == {t \in o..(o + Bar - 1) : ~Quiet(t)}
<1>1. o \in E /\ o \in Nat /\ o >= signalAt /\ Touches(o)
  BY EligibleFacts, LeastNat DEF TouchedOpens
<1>2. \A p \in TouchedOpens(E) : o <= p /\ p \in Nat
  BY EligibleFacts, LeastNat DEF TouchedOpens
<1>3. signalAt \in Nat /\ tick \in Nat /\ Cutoff \in Int
  BY SrrNumbers, SrrOutcomeAssumption DEF SrrOutcomeTypeOK, Cutoff
<1>4. o % Bar = 0 /\ o + Bar <= tick /\ o + Bar <= Cutoff
  BY <1>1, ExpectedFacts
<1>5. o <= FloorBar(tick) - Bar /\ o <= FloorBar(Cutoff - Bar)
  BY <1>1, ExpectedFacts
<1>6. T # {} /\ T \subseteq Nat
  BY <1>1, SrrNumbers DEF Touches, TouchesTarget, TouchesStop, Quiet
<1> DEFINE t == LeastOf(T)
<1>7. t \in T /\ \A k \in T : t <= k
  BY <1>6, LeastNat
<1> HIDE DEF t
<1>8. t \in Nat /\ o <= t /\ t < o + Bar /\ ~Quiet(t)
  BY <1>1, <1>7, SrrNumbers
<1>9. ASSUME NEW q \in signalAt..(t - 1) PROVE Quiet(q)
  <2>1. q \in Int /\ q >= signalAt /\ q < t
    BY <1>3, <1>8
  <2>2. CASE q >= o
    <3>1. q \in o..(o + Bar - 1)
      BY <1>1, <1>8, <2>1, <2>2, SrrNumbers
    <3>2. QED BY <1>7, <1>8, <2>1, <3>1
  <2>3. CASE q < o
    <3> DEFINE b == FloorBar(q)
    <3>1. b \in Int /\ b % Bar = 0 /\ b <= q
      BY <2>1, FloorFacts
    <3>2. FloorBar(signalAt) <= b
      <4>1. FloorBar(signalAt) \in Int /\ FloorBar(signalAt) % Bar = 0
            /\ FloorBar(signalAt) <= signalAt
        BY <1>3, FloorFacts
      <4>2. QED BY <1>3, <2>1, <4>1, FloorIsLargest
    <3>3. b <= FloorBar(tick) - Bar /\ b <= FloorBar(Cutoff - Bar)
      <4>1. FloorBar(tick) \in Int /\ FloorBar(Cutoff - Bar) \in Int
        BY <1>3, FloorFacts, SrrNumbers
      <4>2. QED BY <1>1, <1>5, <2>1, <2>3, <3>1, <4>1, SrrNumbers
    <3>4. b \in E
      BY <3>1, <3>2, <3>3, ExpectedFacts
    <3>5. b \notin TouchedOpens(E)
      BY <1>1, <1>2, <2>1, <2>3, <3>1
    <3>6. QED BY <2>1, <3>4, <3>5, QuietTick
  <2>4. QED BY <1>1, <2>1, <2>2, <2>3
<1>10. t \in 0..(tick - 1) /\ FirstTouch(t)
  BY <1>1, <1>3, <1>4, <1>8, <1>9, SrrNumbers DEF FirstTouch
<1>11. TouchesStop(o) => TrueStop
  <2>1. FloorBar(t) = o
    BY <1>1, <1>4, <1>7, FloorIsTheCandle
  <2>2. \A s \in o..(o + Bar - 1) : s >= 0 /\ s < tick
    BY <1>1, <1>3, <1>4, SrrNumbers
  <2>3. QED BY <1>10, <2>1, <2>2 DEF TouchesStop, TrueStop
<1>12. ~TouchesStop(o) => TrueTarget
  <2>1. prices[t] \in Moves
    BY <1>10 DEF SrrOutcomeTypeOK
  <2>2. QED BY <1>7, <1>8, <1>10, <2>1 DEF TouchesStop, TrueTarget, Quiet, Moves
<1>13. QED BY <1>11, <1>12

(* A timeout that is persisted is one: every whole candle of the holding   *)
(* time was answered.                                                      *)
LEMMA TimeoutFacts ==
    ASSUME SrrOutcomeTypeOK, ~SignalBoundaryUncertain(ExpectedOpens(tick)),
           TouchedOpens(ExpectedOpens(tick)) = {}, tick >= Cutoff
    PROVE  TrueTimeout
<1>1. signalAt \in Nat /\ tick \in Nat /\ Cutoff \in Int /\ FloorBar(Cutoff) \in Int
      /\ FloorBar(Cutoff) % Bar = 0 /\ FloorBar(Cutoff) <= Cutoff
  <2>1. signalAt \in Nat /\ tick \in Nat /\ Cutoff \in Int
    BY SrrNumbers, SrrOutcomeAssumption DEF SrrOutcomeTypeOK, Cutoff
  <2>2. QED BY <2>1, FloorFacts
<1>2. ASSUME NEW q \in signalAt..(FloorBar(Cutoff) - 1) PROVE Quiet(q)
  <2> DEFINE b == FloorBar(q)
  <2>1. q \in Int /\ q >= signalAt /\ q < FloorBar(Cutoff)
    BY <1>1
  <2>2. b \in Int /\ b % Bar = 0 /\ b <= q
    BY <2>1, FloorFacts
  <2>3. FloorBar(signalAt) <= b
    <3>1. FloorBar(signalAt) \in Int /\ FloorBar(signalAt) % Bar = 0
          /\ FloorBar(signalAt) <= signalAt
      BY <1>1, FloorFacts
    <3>2. QED BY <1>1, <2>1, <3>1, FloorIsLargest
  <2>4. b + Bar <= FloorBar(Cutoff)
    BY <1>1, <2>1, <2>2, OpensApart
  <2>5. FloorBar(Cutoff) <= FloorBar(tick) /\ FloorBar(tick) \in Int
    BY <1>1, FloorIsLargest, FloorFacts
  <2>6. b <= FloorBar(Cutoff - Bar) /\ FloorBar(Cutoff - Bar) \in Int
    <3>1. b <= Cutoff - Bar /\ Cutoff - Bar \in Int
      BY <1>1, <2>2, <2>4, SrrNumbers
    <3>2. QED BY <2>2, <3>1, FloorIsLargest, FloorFacts
  <2>7. b <= FloorBar(tick) - Bar
    BY <1>1, <2>2, <2>4, <2>5, SrrNumbers
  <2>8. b \in ExpectedOpens(tick)
    BY <2>2, <2>3, <2>6, <2>7, ExpectedFacts
  <2>9. QED BY <2>1, <2>8, QuietTick
<1>3. QED BY <1>2 DEF TrueTimeout

(* What the policy says of a whole answer is true.                         *)
LEMMA RouteIsTrue ==
    ASSUME SrrOutcomeTypeOK, NEW got \in SourceAnswers(tick)
    PROVE  LET c == Persisted(RouteClass(got, tick), tick)
           IN c \in Classes /\ TrueClass(c)
<1> DEFINE E == ExpectedOpens(tick)
           c == Persisted(RouteClass(got, tick), tick)
<1>1. CASE got # E \/ SignalBoundaryUncertain(E)
  <2>1. c \in {"INCOMPLETE", "UNCERTAIN"}
    BY <1>1 DEF RouteClass, PolicyClass, Persisted
  <2>2. QED BY <2>1 DEF TrueClass, Classes
<1>2. CASE got = E /\ ~SignalBoundaryUncertain(E) /\ TouchedOpens(E) # {}
  <2>1. c = Persisted(FirstTouchClass(E), tick)
    BY <1>2 DEF RouteClass, PolicyClass
  <2>2. \/ FirstTouchClass(E) = "INCOMPLETE"
        \/ FirstTouchClass(E) = "SL_FIRST" /\ TouchesStop(LeastOf(TouchedOpens(E)))
        \/ FirstTouchClass(E) = "TP_FIRST" /\ ~TouchesStop(LeastOf(TouchedOpens(E)))
    BY DEF FirstTouchClass
  <2>3. QED BY <1>2, <2>1, <2>2, FirstTouchFacts DEF TrueClass, Classes, Persisted
<1>3. CASE got = E /\ ~SignalBoundaryUncertain(E) /\ TouchedOpens(E) = {}
  <2>1. c = Persisted(TimeoutClass(E), tick)
    BY <1>3 DEF RouteClass, PolicyClass
  <2>2. c \in {"INCOMPLETE", "UNCERTAIN", "TIMEOUT"}
    BY <2>1 DEF TimeoutClass, Persisted
  <2>3. c = "TIMEOUT" => ~(tick < Cutoff)
    BY <2>1 DEF Persisted
  <2>4. tick \in Int /\ Cutoff \in Int
    BY SrrNumbers, SrrOutcomeAssumption DEF SrrOutcomeTypeOK, Cutoff
  <2>5. c = "TIMEOUT" => TrueTimeout
    BY <1>3, <2>3, <2>4, TimeoutFacts
  <2>6. QED BY <2>2, <2>5 DEF TrueClass, Classes
<1>4. QED BY <1>1, <1>2, <1>3

-----------------------------------------------------------------------------
(* The invariant of the evaluation.                                        *)

LEMMA OutcomeFacts ==
    /\ \A c \in Classes : /\ Outcome(c).class = c
                          /\ Outcome(c).final <=> c \in {"TP_FIRST", "SL_FIRST", "TIMEOUT"}
    /\ NoOutcome.class = "none" /\ NoOutcome.final = FALSE
BY DEF Outcome, NoOutcome, Classes

(* Time does not undo what happened.                                       *)
LEMMA TruthLasts ==
    ASSUME SrrOutcomeTypeOK, SrrTick, NEW c, TrueClass(c)
    PROVE  TrueClass(c)'
<1>1. tick \in Nat /\ tick' = tick + 1 /\ signalAt' = signalAt /\ signalAt \in Nat
  BY SrrNumbers, SrrOutcomeAssumption DEF SrrOutcomeTypeOK, SrrTick
<1>2. \A t \in 0..(tick - 1) : prices'[t] = prices[t]
  <2>1. PICK m : prices' = [t \in 0..tick |-> IF t = tick THEN m ELSE prices[t]]
    BY DEF SrrTick
  <2>2. QED BY <1>1, <2>1
<1>3. Cutoff' = Cutoff /\ Cutoff \in Int
  BY <1>1, SrrNumbers DEF Cutoff
<1>4. \A t \in Int : FloorBar(t)' = FloorBar(t)
  BY DEF FloorBar
<1>5. ASSUME NEW t \in 0..(tick - 1), FirstTouch(t) PROVE FirstTouch(t)'
  BY <1>1, <1>2, <1>3, <1>5 DEF FirstTouch, Quiet
<1>6. TrueTarget => TrueTarget'
  BY <1>1, <1>2, <1>5 DEF TrueTarget
<1>7. TrueStop => TrueStop'
  <2> SUFFICES ASSUME NEW t \in 0..(tick - 1), FirstTouch(t),
                      NEW s \in FloorBar(t)..(FloorBar(t) + Bar - 1),
                      s >= 0, s < tick, prices[s] = "stop"
               PROVE  TrueStop'
    BY DEF TrueStop
  <2>1. t \in Int /\ FloorBar(t) \in Int /\ s \in Int
    BY <1>1, FloorFacts, SrrNumbers
  <2>2. s \in 0..(tick - 1) /\ s < tick' /\ prices'[s] = "stop"
    BY <1>1, <1>2, <2>1
  <2>3. FirstTouch(t)' /\ t \in 0..(tick' - 1)
    BY <1>1, <1>5
  <2>4. s \in FloorBar(t)'..(FloorBar(t)' + Bar - 1)
    BY <1>4, <2>1
  <2>5. QED BY <2>2, <2>3, <2>4 DEF TrueStop
<1>8. TrueTimeout => TrueTimeout'
  <2>1. FloorBar(Cutoff) \in Int /\ FloorBar(Cutoff) <= Cutoff
    BY <1>3, FloorFacts
  <2>2. FloorBar(Cutoff)' = FloorBar(Cutoff)
    BY <1>3 DEF FloorBar
  <2>3. QED BY <1>1, <1>2, <1>3, <2>1, <2>2 DEF TrueTimeout, Quiet
<1>9. QED BY <1>6, <1>7, <1>8 DEF TrueClass

(* As long as signal, time and prices stay, so does the truth of a class.  *)
LEMMA TruthStays ==
    ASSUME UNCHANGED <<tick, prices, signalAt>>, NEW c, TrueClass(c)
    PROVE  TrueClass(c)'
BY DEF TrueClass, TrueTarget, TrueStop, TrueTimeout, FirstTouch, Quiet, Cutoff, FloorBar

LEMMA SrrInitHolds == SrrOutcomeInit => SrrInv
<1> SUFFICES ASSUME SrrOutcomeInit PROVE SrrInv
  OBVIOUS
<1>1. prices \in [0..(tick - 1) -> Moves]
  <2>1. 0..(tick - 1) = {}
    BY DEF SrrOutcomeInit
  <2>2. prices = [t \in {} |-> "quiet"]
    BY DEF SrrOutcomeInit
  <2>3. QED BY <2>1, <2>2
<1>2. SrrOutcomeTypeOK
  BY <1>1, SrrNumbers, SrrOutcomeAssumption DEF SrrOutcomeInit, SrrOutcomeTypeOK
<1>3. TrueClass("none")
  BY DEF TrueClass
<1>4. QED BY <1>2, <1>3, OutcomeFacts DEF SrrOutcomeInit, SrrInv, ResultsAreTrue, LockedIsActive

(* The environment: time, and the operator's record.                       *)
LEMMA SurroundingKeeps ==
    ASSUME SrrInv,
           SrrTick \/ StopDirection \/ RecordActivation
               \/ \E to \in {"ACTIVE", "REVOKED"} : ChangeStatus(to)
    PROVE  SrrInv'
<1>1. CASE SrrTick
  <2>1. tick' \in 0..MaxTick /\ tick' - 1 = tick
    BY <1>1, SrrOutcomeAssumption DEF SrrInv, SrrOutcomeTypeOK, SrrTick
  <2>2. PICK m \in Moves : prices' = [t \in 0..tick |-> IF t = tick THEN m ELSE prices[t]]
    BY <1>1 DEF SrrTick
  <2>3. prices' \in [0..(tick' - 1) -> Moves]
    <3>1. tick \in Nat /\ prices \in [0..(tick - 1) -> Moves]
      BY SrrOutcomeAssumption DEF SrrInv, SrrOutcomeTypeOK
    <3>2. ASSUME NEW t \in 0..tick, t # tick PROVE prices[t] \in Moves
      BY <3>1, <3>2
    <3>3. prices' \in [0..tick -> Moves]
      BY <2>2, <3>2
    <3>4. QED BY <2>1, <3>3
  <2>4. SrrOutcomeTypeOK'
    BY <1>1, <2>1, <2>3 DEF SrrInv, SrrOutcomeTypeOK, SrrTick
  <2>5. TrueClass(srrRow.class)' /\ ResultsAreTrue'
    <3>1. srrRow' = srrRow /\ srrResult' = srrResult
      BY <1>1 DEF SrrTick
    <3>2. \A c : TrueClass(c) => TrueClass(c)'
      BY <1>1, TruthLasts DEF SrrInv
    <3>3. TrueClass(srrRow.class)'
      BY <3>1, <3>2 DEF SrrInv, TrueClass
    <3>4. QED BY <3>1, <3>2, <3>3 DEF SrrInv, ResultsAreTrue, TrueClass
  <2>6. LockedIsActive'
    BY <1>1 DEF SrrInv, LockedIsActive, SrrTick, RecordVerified, SignalEligible
  <2>7. QED BY <2>4, <2>5, <2>6 DEF SrrInv
<1>2. CASE StopDirection \/ RecordActivation \/ \E to \in {"ACTIVE", "REVOKED"} : ChangeStatus(to)
  <2>1. UNCHANGED <<tick, prices, signalAt, srrRow, srrAt, srrResult>>
    BY <1>2 DEF StopDirection, RecordActivation, ChangeStatus
  <2>2. SrrOutcomeTypeOK'
    <3>1. directed' \in BOOLEAN
      BY <1>2 DEF StopDirection, RecordActivation, ChangeStatus, SrrInv, SrrOutcomeTypeOK
    <3>2. record' \in [status : {"absent", "PENDING", "ACTIVE", "REVOKED"}, ts : 0..(Boundary + 1)]
      BY <1>2, SrrOutcomeAssumption
         DEF StopDirection, RecordActivation, ChangeStatus, SrrInv, SrrOutcomeTypeOK
    <3>3. QED BY <2>1, <3>1, <3>2 DEF SrrInv, SrrOutcomeTypeOK
  <2>3. TrueClass(srrRow.class)' /\ ResultsAreTrue'
    BY <2>1, TruthStays DEF SrrInv, ResultsAreTrue, TrueClass, TrueTarget, TrueStop, TrueTimeout,
       FirstTouch, Quiet, Cutoff, FloorBar
  <2>4. LockedIsActive'
    <3>1. record' = record \/ \A e \in SrrWriters : srrAt[e] # "locked"
      BY <1>2 DEF StopDirection, RecordActivation, ChangeStatus, SrrInv, LockedIsActive, RecordVerified
    <3>2. QED BY <2>1, <3>1 DEF SrrInv, LockedIsActive, RecordVerified, SignalEligible
  <2>5. QED BY <2>2, <2>3, <2>4 DEF SrrInv
<1>3. QED BY <1>1, <1>2

(* The processes.                                                          *)
LEMMA EvaluationKeeps ==
    ASSUME SrrInv, NEW e \in SrrWriters,
           \/ ReadObservation(e) \/ RouteObservation(e) \/ SourceFails(e)
           \/ EnforceBoundary(e) \/ LeaveObservation(e) \/ WriteOutcome(e)
    PROVE  SrrInv'
<1>1. UNCHANGED <<tick, prices, signalAt, directed, record>>
  BY DEF ReadObservation, RouteObservation, SourceFails, Routed, EnforceBoundary,
     LeaveObservation, WriteOutcome
<1>2. \A c : TrueClass(c) => TrueClass(c)'
  BY <1>1, TruthStays
<1>3. SrrOutcomeTypeOK
  BY DEF SrrInv
<1>4. ASSUME NEW class \in Classes, Routed(e, class), TrueClass(class) PROVE SrrInv'
  <2>1. SrrOutcomeTypeOK'
    BY <1>1, <1>4, <1>3 DEF Routed, SrrOutcomeTypeOK
  <2>2. ASSUME NEW f \in SrrWriters PROVE TrueClass(srrResult'[f].class)
    <3>1. CASE f = e
      <4>1. srrResult'[f] = Outcome(class)
        BY <1>4, <1>3, <3>1 DEF Routed, SrrOutcomeTypeOK
      <4>2. QED BY <1>4, <4>1, OutcomeFacts
    <3>2. CASE f # e
      <4>1. srrResult'[f] = srrResult[f]
        BY <1>4, <1>3, <3>2 DEF Routed, SrrOutcomeTypeOK
      <4>2. QED BY <4>1 DEF SrrInv, ResultsAreTrue
    <3>3. QED BY <3>1, <3>2
  <2>3. ResultsAreTrue' /\ TrueClass(srrRow.class)'
    <3>1. srrRow' = srrRow
      BY <1>4 DEF Routed
    <3>2. QED BY <1>1, <2>2, <3>1 DEF SrrInv, ResultsAreTrue, TrueClass, TrueTarget, TrueStop,
             TrueTimeout, FirstTouch, Quiet, Cutoff, FloorBar
  <2>4. LockedIsActive'
    BY <1>4, <1>3, <1>1 DEF SrrInv, LockedIsActive, Routed, SrrOutcomeTypeOK, RecordVerified, SignalEligible
  <2>5. QED BY <2>1, <2>3, <2>4 DEF SrrInv
<1>5. CASE RouteObservation(e)
  <2>1. PICK got \in SourceAnswers(tick) : Routed(e, Persisted(RouteClass(got, tick), tick))
    BY <1>5 DEF RouteObservation
  <2> DEFINE c == Persisted(RouteClass(got, tick), tick)
  <2>2. c \in Classes /\ TrueClass(c)
    BY <1>3, RouteIsTrue
  <2> HIDE DEF c
  <2>3. QED BY <1>4, <2>1, <2>2 DEF c
<1>6. CASE SourceFails(e)
  <2>1. TrueClass("UNVERIFIABLE") /\ "UNVERIFIABLE" \in Classes
    BY DEF TrueClass, Classes
  <2>2. QED BY <1>4, <1>6, <2>1 DEF SourceFails
<1>7. CASE ReadObservation(e) \/ EnforceBoundary(e)
  <2>1. UNCHANGED <<srrRow, srrResult>>
    BY <1>7 DEF ReadObservation, EnforceBoundary
  <2>2. SrrOutcomeTypeOK'
    BY <1>1, <1>3, <1>7, <2>1 DEF SrrOutcomeTypeOK, ReadObservation, EnforceBoundary
  <2>3. LockedIsActive'
    BY <1>1, <1>3, <1>7 DEF SrrInv, LockedIsActive, SrrOutcomeTypeOK, ReadObservation,
       EnforceBoundary, RecordVerified, SignalEligible
  <2>4. ResultsAreTrue' /\ TrueClass(srrRow.class)'
    BY <1>1, <2>1 DEF SrrInv, ResultsAreTrue, TrueClass, TrueTarget, TrueStop,
       TrueTimeout, FirstTouch, Quiet, Cutoff, FloorBar
  <2>5. QED BY <2>2, <2>3, <2>4 DEF SrrInv
<1>8. CASE LeaveObservation(e) \/ WriteOutcome(e)
  <2>1. /\ srrAt' = [srrAt EXCEPT ![e] = "idle"] /\ srrResult' = [srrResult EXCEPT ![e] = NoOutcome]
        /\ srrRow' \in {srrRow, srrResult[e]}
    BY <1>8 DEF LeaveObservation, WriteOutcome, UpdatedRow
  <2>2. SrrOutcomeTypeOK'
    BY <1>1, <1>3, <2>1 DEF SrrOutcomeTypeOK
  <2>3. LockedIsActive'
    BY <1>1, <1>3, <2>1 DEF SrrInv, LockedIsActive, SrrOutcomeTypeOK, RecordVerified, SignalEligible
  <2>4. TrueClass(srrRow'.class)
    BY <2>1 DEF SrrInv, ResultsAreTrue
  <2>5. TrueClass("none")
    BY DEF TrueClass
  <2>6. ASSUME NEW f \in SrrWriters PROVE TrueClass(srrResult'[f].class)
    <3>1. srrResult'[f] = NoOutcome \/ srrResult'[f] = srrResult[f]
      BY <1>3, <2>1 DEF SrrOutcomeTypeOK
    <3>2. QED BY <2>5, <3>1, OutcomeFacts DEF SrrInv, ResultsAreTrue
  <2>7. ResultsAreTrue' /\ TrueClass(srrRow.class)'
    BY <1>1, <2>4, <2>6 DEF ResultsAreTrue, TrueClass, TrueTarget, TrueStop,
       TrueTimeout, FirstTouch, Quiet, Cutoff, FloorBar
  <2>8. QED BY <2>2, <2>3, <2>7 DEF SrrInv
<1>9. QED BY <1>5, <1>6, <1>7, <1>8

LEMMA SrrStepKeeps == SrrInv /\ [SrrOutcomeNext]_srrVars => SrrInv'
<1>1. ASSUME SrrInv, UNCHANGED srrVars PROVE SrrInv'
  BY <1>1 DEF SrrInv, srrVars, SrrOutcomeTypeOK, ResultsAreTrue, LockedIsActive, RecordVerified,
     SignalEligible, TrueClass, TrueTarget, TrueStop, TrueTimeout, FirstTouch, Quiet, Cutoff, FloorBar
<1>2. ASSUME SrrInv, SrrOutcomeNext PROVE SrrInv'
  BY <1>2, SurroundingKeeps, EvaluationKeeps DEF SrrOutcomeNext
<1>3. QED BY <1>1, <1>2

(* What the row says of the price, read off the class.                     *)
LEMMA TruthIsFinal ==
    ASSUME SrrInv
    PROVE  FinalIsTrue
<1> DEFINE touched == TouchTicks(signalAt, Cutoff - 1)
           first == LeastOf(touched)
<1>1. signalAt \in Nat /\ tick \in Nat /\ Cutoff \in Int
  BY SrrNumbers, SrrOutcomeAssumption DEF SrrInv, SrrOutcomeTypeOK, Cutoff
<1>2. ASSUME NEW t \in 0..(tick - 1), FirstTouch(t) PROVE touched # {} /\ first = t
  <2>1. t \in touched /\ touched \subseteq Nat
    BY <1>1, <1>2 DEF FirstTouch, TouchTicks, Quiet
  <2>2. \A k \in touched : t <= k
    BY <1>1, <1>2 DEF FirstTouch, TouchTicks, Quiet
  <2>3. QED BY <2>1, <2>2, LeastIsUnique
<1>3. srrRow.class = "TP_FIRST" => touched # {} /\ prices[first] = "target"
  BY <1>2 DEF SrrInv, TrueClass, TrueTarget
<1>4. srrRow.class = "SL_FIRST" => touched # {} /\ TouchesStop(FloorBar(first))
  BY <1>2 DEF SrrInv, TrueClass, TrueStop, TouchesStop
<1>5. srrRow.class = "TIMEOUT" => tick >= Cutoff /\ TouchTicks(signalAt, FloorBar(Cutoff) - 1) = {}
  BY DEF SrrInv, TrueClass, TrueTimeout, TouchTicks, Quiet
<1>6. QED BY <1>3, <1>4, <1>5 DEF FinalIsTrue

(* A step leaves a final row alone, and writes only under an active record *)
(* for a signal after the boundary.                                        *)
LEMMA SrrWriteStep ==
    ASSUME SrrInv, [SrrOutcomeNext]_srrVars
    PROVE  /\ srrRow.final => srrRow' = srrRow
           /\ srrRow' # srrRow => RecordVerified /\ SignalEligible
<1>1. srrRow' = srrRow \/ \E e \in SrrWriters : WriteOutcome(e)
  BY DEF SrrOutcomeNext, srrVars, SrrTick, StopDirection, RecordActivation, ChangeStatus,
     ReadObservation, RouteObservation, SourceFails, Routed, EnforceBoundary, LeaveObservation
<1>2. QED BY <1>1 DEF WriteOutcome, UpdatedRow, SrrInv, LockedIsActive

(* The inductive invariant of the SRR SHORT evaluation.                    *)
THEOREM SrrInvariance == SrrSpec => []SrrInv
<1>1. QED BY SrrInitHolds, SrrStepKeeps, PTL DEF SrrSpec

(* For every length of candle and holding time and every path of the       *)
(* price: a final SRR SHORT outcome is the level that was reached first    *)
(* tick by tick, it is never replaced, and it is written only while the    *)
(* activation record is ACTIVE with the configured boundary                *)
(* (srr_short_timeout_candle_policy_v1.py, the writer's boundary guard).   *)
THEOREM SrrOutcomeSafety == SrrSpec => SrrOutcomeSafe
<1>1. SrrInv => SrrOutcomeTypeOK /\ FinalIsTrue
  BY TruthIsFinal DEF SrrInv
<1>2. SrrInv /\ [SrrOutcomeNext]_srrVars =>
        /\ [srrRow.final => srrRow' = srrRow]_srrVars
        /\ [srrRow' # srrRow => RecordVerified /\ SignalEligible]_srrVars
  BY SrrWriteStep
<1>3. QED
  BY <1>1, <1>2, SrrInvariance, PTL
     DEF SrrSpec, SrrOutcomeSafe, FinalOutcomeStays, WrittenWhileActive
=============================================================================

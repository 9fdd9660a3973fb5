--------------------------- MODULE PaperEngineProofs ---------------------------
(***************************************************************************)
(* Proofs about PaperEngine: the engine's lists and limits, its balance,   *)
(* the daily loss limit and the halt.                                      *)
(*                                                                         *)
(* The sums of the books are folds over sets of setups.  The first section *)
(* shows what the later ones need of them: a sum does not depend on the    *)
(* order of its elements, so it can be taken apart at any of them.         *)
(***************************************************************************)
EXTENDS PaperEngine, FiniteSetTheorems, WellFoundedInduction, TLAPS

-----------------------------------------------------------------------------
(* Sums.                                                                   *)

LEMMA NatMin ==
    ASSUME NEW T, T \subseteq Nat, T # {}
    PROVE  \E m \in T : \A k \in T : m <= k
<1> DEFINE R == OpToRel(<, Nat)
<1>1. R = {ss \in Nat \X Nat : ss[1] < ss[2]}
  BY DEF OpToRel
<1>2. IsWellFoundedOn(R, Nat)
  BY NatLessThanWellFounded
<1> HIDE DEF R
<1>3. PICK m \in T : \A y \in T : ~(<<y, m>> \in R)
  BY <1>2, WFMin
<1>4. \A y \in T : ~(y < m)
  BY <1>1, <1>3
<1>5. QED BY <1>3, <1>4

(* Induction over the subsets of Setups by their size. *)
LEMMA SubsetMin ==
    ASSUME NEW Bad, Bad \subseteq SUBSET Setups, Bad # {}
    PROVE  \E s \in Bad : \A t \in Bad : Cardinality(s) <= Cardinality(t)
<1> DEFINE T == {Cardinality(s) : s \in Bad}
<1>1. T \subseteq Nat
  BY PaperAssumption, FS_Subset, FS_CardinalityType
<1>2. T # {}
  OBVIOUS
<1> HIDE DEF T
<1>3. PICK m \in T : \A k \in T : m <= k
  BY <1>1, <1>2, NatMin
<1>4. QED BY <1>3 DEF T

Pick(s) == CHOOSE x \in s : TRUE
IsSum(F, D, it) ==
    it = [s \in D |-> IF s = {} THEN 0 ELSE F[Pick(s)] + it[s \ {Pick(s)}]]

LEMMA OneLess ==
    ASSUME NEW s \in SUBSET Setups, NEW x \in s
    PROVE  /\ s \ {x} \in SUBSET Setups
           /\ Cardinality(s) \in Nat /\ Cardinality(s \ {x}) = Cardinality(s) - 1
           /\ Cardinality(s) > 0
<1>1. IsFiniteSet(s)
  BY PaperAssumption, FS_Subset
<1>2. Cardinality(s) \in Nat
  BY <1>1, FS_CardinalityType
<1>3. Cardinality(s \ {x}) = Cardinality(s) - 1
  BY <1>1, FS_RemoveElement
<1>4. Cardinality(s) # 0
  BY <1>1, FS_EmptySet
<1>5. QED BY <1>2, <1>3, <1>4

UpTo(n) == {s \in SUBSET Setups : Cardinality(s) <= n}
Partial(F, n) ==
    \E g \in [UpTo(n) -> Int] :
       \A s \in UpTo(n) : g[s] = IF s = {} THEN 0 ELSE F[Pick(s)] + g[s \ {Pick(s)}]

LEMMA PartialExists ==
    ASSUME NEW F \in [Setups -> Int], NEW n \in Nat
    PROVE  Partial(F, n)
<1> DEFINE T == {k \in Nat : ~Partial(F, k)}
<1> SUFFICES ASSUME T # {} PROVE FALSE
  OBVIOUS
<1>1. PICK m \in T : \A k \in T : m <= k
  BY NatMin
<1>2. CASE m = 0
  <2>1. UpTo(0) = {{}}
    <3>1. \A s \in SUBSET Setups : Cardinality(s) \in Nat /\ (Cardinality(s) = 0 <=> s = {})
      BY PaperAssumption, FS_Subset, FS_CardinalityType, FS_EmptySet
    <3>2. QED BY <3>1 DEF UpTo
  <2> DEFINE g == [s \in {{}} |-> 0]
  <2>2. g \in [UpTo(0) -> Int] /\ \A s \in UpTo(0) : s = {} /\ g[s] = 0
    BY <2>1
  <2>3. Partial(F, 0)
    BY <2>2 DEF Partial
  <2>4. QED BY <1>1, <1>2, <2>3
<1>3. CASE m # 0
  <2>1. m \in Nat /\ m - 1 \in Nat /\ Partial(F, m - 1)
    BY <1>1, <1>3
  <2>2. PICK g \in [UpTo(m - 1) -> Int] :
            \A s \in UpTo(m - 1) : g[s] = IF s = {} THEN 0 ELSE F[Pick(s)] + g[s \ {Pick(s)}]
    BY <2>1 DEF Partial
  <2> DEFINE h == [s \in UpTo(m) |-> IF s = {} THEN 0 ELSE F[Pick(s)] + g[s \ {Pick(s)}]]
  <2>3. \A s \in UpTo(m) : s # {} => Pick(s) \in s /\ Pick(s) \in Setups /\ s \ {Pick(s)} \in UpTo(m - 1)
    <3> SUFFICES ASSUME NEW s \in UpTo(m), s # {}
                 PROVE  Pick(s) \in s /\ Pick(s) \in Setups /\ s \ {Pick(s)} \in UpTo(m - 1)
      OBVIOUS
    <3>1. Pick(s) \in s /\ s \in SUBSET Setups /\ Cardinality(s) <= m
      BY DEF Pick, UpTo
    <3> HIDE DEF h
    <3>2. s \ {Pick(s)} \in SUBSET Setups /\ Cardinality(s \ {Pick(s)}) <= m - 1
      BY <2>1, <3>1, OneLess
    <3>3. QED BY <3>1, <3>2 DEF UpTo
  <2>4. h \in [UpTo(m) -> Int]
    BY <2>3
  <2>5. \A s \in UpTo(m - 1) : s \in UpTo(m) /\ h[s] = g[s]
    <3>1. \A s \in SUBSET Setups : Cardinality(s) \in Nat
      BY PaperAssumption, FS_Subset, FS_CardinalityType
    <3>2. \A s \in UpTo(m - 1) : s \in UpTo(m)
      BY <2>1, <3>1 DEF UpTo
    <3>3. QED BY <2>2, <3>2
  <2>6. \A s \in UpTo(m) : h[s] = IF s = {} THEN 0 ELSE F[Pick(s)] + h[s \ {Pick(s)}]
    BY <2>3, <2>5
  <2> HIDE DEF h
  <2>7. Partial(F, m)
    BY <2>4, <2>6 DEF Partial
  <2>8. QED BY <1>1, <2>7
<1>4. QED BY <1>2, <1>3

(* The sum of F over every subset of Setups. *)
Sum(F) == CHOOSE g \in [SUBSET Setups -> Int] :
    \A s \in SUBSET Setups : g[s] = IF s = {} THEN 0 ELSE F[Pick(s)] + g[s \ {Pick(s)}]

LEMMA SumRec ==
    ASSUME NEW F \in [Setups -> Int]
    PROVE  /\ Sum(F) \in [SUBSET Setups -> Int]
           /\ \A s \in SUBSET Setups :
                 Sum(F)[s] = IF s = {} THEN 0 ELSE F[Pick(s)] + Sum(F)[s \ {Pick(s)}]
<1>1. Cardinality(Setups) \in Nat /\ UpTo(Cardinality(Setups)) = SUBSET Setups
  BY PaperAssumption, FS_Subset, FS_CardinalityType DEF UpTo
<1>2. Partial(F, Cardinality(Setups))
  BY <1>1, PartialExists
<1>3. \E g \in [SUBSET Setups -> Int] :
    \A s \in SUBSET Setups : g[s] = IF s = {} THEN 0 ELSE F[Pick(s)] + g[s \ {Pick(s)}]
  BY <1>1, <1>2 DEF Partial
<1>4. QED BY <1>3 DEF Sum

(* Any order of the elements gives the same sum. *)
LEMMA SumRemove ==
    ASSUME NEW F \in [Setups -> Int], NEW s \in SUBSET Setups, NEW x \in s
    PROVE  Sum(F)[s] = F[x] + Sum(F)[s \ {x}]
<1> DEFINE g == Sum(F)
           Bad == {t \in SUBSET Setups : \E y \in t : g[t] # F[y] + g[t \ {y}]}
<1>1. g \in [SUBSET Setups -> Int]
      /\ \A t \in SUBSET Setups : g[t] = IF t = {} THEN 0 ELSE F[Pick(t)] + g[t \ {Pick(t)}]
  BY SumRec
<1> HIDE DEF g
<1> SUFFICES ASSUME Bad # {} PROVE FALSE
  BY DEF g
<1>2. PICK t \in Bad : \A u \in Bad : Cardinality(t) <= Cardinality(u)
  BY SubsetMin
<1>3. PICK y \in t : g[t] # F[y] + g[t \ {y}]
  OBVIOUS
<1> DEFINE p == Pick(t)
<1>4. t \in SUBSET Setups /\ p \in t /\ p \in Setups /\ y \in Setups /\ g[t] = F[p] + g[t \ {p}]
  BY <1>1 DEF Pick
<1>5. p # y
  BY <1>3, <1>4
<1> HIDE DEF p
<1>6. /\ t \ {p} \in SUBSET Setups /\ t \ {p} \notin Bad /\ y \in t \ {p}
      /\ t \ {y} \in SUBSET Setups /\ t \ {y} \notin Bad /\ p \in t \ {y}
  <2>1. ASSUME NEW z \in t PROVE t \ {z} \in SUBSET Setups /\ t \ {z} \notin Bad
    <3>1. /\ t \ {z} \in SUBSET Setups /\ Cardinality(t) \in Nat
          /\ Cardinality(t \ {z}) = Cardinality(t) - 1
      BY <1>4, OneLess
    <3> HIDE DEF Bad
    <3>2. QED BY <1>2, <3>1
  <2>2. QED BY <1>4, <1>5, <2>1
<1>7. g[t \ {p}] = F[y] + g[(t \ {p}) \ {y}] /\ g[t \ {y}] = F[p] + g[(t \ {y}) \ {p}]
  BY <1>6
<1>8. (t \ {p}) \ {y} = (t \ {y}) \ {p} /\ (t \ {p}) \ {y} \in SUBSET Setups
  BY <1>4
<1>9. F[p] \in Int /\ F[y] \in Int /\ g[(t \ {p}) \ {y}] \in Int
  BY <1>1, <1>4, <1>8
<1> HIDE DEF Bad
<1>10. g[t \ {y}] = F[p] + g[(t \ {p}) \ {y}]
  BY <1>7, <1>8
<1>11. g[t] = F[p] + (F[y] + g[(t \ {p}) \ {y}])
  BY <1>4, <1>7
<1>12. QED BY <1>3, <1>9, <1>10, <1>11

LEMMA SumEqual ==
    ASSUME NEW F \in [Setups -> Int], NEW G \in [Setups -> Int], NEW s \in SUBSET Setups,
           \A x \in s : F[x] = G[x]
    PROVE  Sum(F)[s] = Sum(G)[s]
<1> DEFINE Bad == {t \in SUBSET s : Sum(F)[t] # Sum(G)[t]}
<1> SUFFICES ASSUME Bad # {} PROVE FALSE
  OBVIOUS
<1>1. Bad \subseteq SUBSET Setups
  OBVIOUS
<1> HIDE DEF Bad
<1>2. PICK t \in Bad : \A u \in Bad : Cardinality(t) <= Cardinality(u)
  BY <1>1, SubsetMin
<1>3. t \in SUBSET s /\ t \in SUBSET Setups /\ Sum(F)[t] # Sum(G)[t]
  BY <1>2 DEF Bad
<1>4. CASE t = {}
  BY <1>3, <1>4, SumRec
<1>5. CASE t # {}
  <2> DEFINE p == Pick(t)
  <2>1. p \in t /\ p \in s
    BY <1>3, <1>5 DEF Pick
  <2>2. /\ t \ {p} \in SUBSET Setups /\ Cardinality(t) \in Nat
        /\ Cardinality(t \ {p}) = Cardinality(t) - 1
    BY <1>3, <2>1, OneLess
  <2>3. t \ {p} \notin Bad
    BY <1>2, <2>2
  <2>4. Sum(F)[t \ {p}] = Sum(G)[t \ {p}]
    BY <1>3, <2>3 DEF Bad
  <2>5. Sum(F)[t] = F[p] + Sum(F)[t \ {p}] /\ Sum(G)[t] = G[p] + Sum(G)[t \ {p}]
    BY <1>3, <2>1, SumRemove
  <2>6. QED BY <1>3, <2>1, <2>4, <2>5
<1>6. QED BY <1>4, <1>5

LEMMA SumCompare ==
    ASSUME NEW F \in [Setups -> Int], NEW G \in [Setups -> Int], NEW U \in SUBSET Setups,
           NEW T \in SUBSET U,
           \A x \in T : F[x] <= G[x], \A x \in U : 0 <= G[x]
    PROVE  Sum(F)[T] <= Sum(G)[U]
<1> DEFINE Bad == {u \in SUBSET U : ~(Sum(F)[u \cap T] <= Sum(G)[u])}
<1> SUFFICES ASSUME Bad # {} PROVE FALSE
  <2>1. U \notin Bad /\ U \cap T = T
    OBVIOUS
  <2>2. QED BY <2>1
<1>1. Bad \subseteq SUBSET Setups
  OBVIOUS
<1> HIDE DEF Bad
<1>2. PICK u \in Bad : \A v \in Bad : Cardinality(u) <= Cardinality(v)
  BY <1>1, SubsetMin
<1>3. /\ u \in SUBSET U /\ u \in SUBSET Setups /\ u \cap T \in SUBSET Setups
      /\ ~(Sum(F)[u \cap T] <= Sum(G)[u])
  BY <1>2 DEF Bad
<1>4. CASE u = {}
  <2>1. u \cap T = {}
    BY <1>4
  <2>2. Sum(F)[{}] = 0 /\ Sum(G)[{}] = 0
    BY SumRec
  <2>3. QED BY <1>3, <1>4, <2>1, <2>2
<1>5. CASE u # {}
  <2> DEFINE p == Pick(u)
  <2>1. p \in u /\ p \in U /\ p \in Setups
    BY <1>3, <1>5 DEF Pick
  <2> HIDE DEF p
  <2>2. /\ u \ {p} \in SUBSET Setups /\ Cardinality(u) \in Nat
        /\ Cardinality(u \ {p}) = Cardinality(u) - 1
    BY <1>3, <2>1, OneLess
  <2>3. u \ {p} \notin Bad /\ u \ {p} \in SUBSET U
    BY <1>2, <1>3, <2>2
  <2>4. Sum(F)[(u \ {p}) \cap T] <= Sum(G)[u \ {p}]
    BY <2>3 DEF Bad
  <2>5. Sum(G)[u] = G[p] + Sum(G)[u \ {p}]
    BY <1>3, <2>1, SumRemove
  <2> DEFINE v == u \cap T
  <2>6. /\ Sum(F) \in [SUBSET Setups -> Int] /\ Sum(G) \in [SUBSET Setups -> Int]
        /\ v \ {p} \in SUBSET Setups /\ (u \ {p}) \cap T = v \ {p}
    BY <1>3, SumRec
  <2>6a. ~(Sum(F)[v] <= Sum(G)[u]) /\ v \in SUBSET Setups
    BY <1>3
  <2>7. Sum(F)[v \ {p}] \in Int /\ Sum(G)[u \ {p}] \in Int /\ F[p] \in Int /\ G[p] \in Int
    BY <2>1, <2>2, <2>6
  <2>7a. Sum(F)[v \ {p}] <= Sum(G)[u \ {p}]
    BY <2>4, <2>6
  <2>8. CASE p \in T
    <3>1. p \in v /\ F[p] <= G[p]
      BY <2>1, <2>8
    <3>2. Sum(F)[v] = F[p] + Sum(F)[v \ {p}]
      BY <1>3, <3>1, SumRemove
    <3> HIDE DEF v
    <3>3. QED BY <2>5, <2>6a, <2>7, <2>7a, <3>1, <3>2
  <2>9. CASE p \notin T
    <3>1. v \ {p} = v /\ 0 <= G[p]
      BY <2>1, <2>9
    <3> HIDE DEF v
    <3>2. Sum(F)[v \ {p}] = Sum(F)[v]
      BY <3>1
    <3>3. 0 <= G[p]
      BY <3>1
    <3>4. QED BY <2>5, <2>6a, <2>7, <2>7a, <3>2, <3>3
  <2>10. QED BY <2>8, <2>9
<1>6. QED BY <1>4, <1>5

(* A function that satisfies the recursion on the subsets of T is the sum. *)
Recurses(F, T, f) ==
    f = [s \in SUBSET T |-> IF s = {} THEN 0 ELSE F[Pick(s)] + f[s \ {Pick(s)}]]

LEMMA SumUnique ==
    ASSUME NEW F \in [Setups -> Int], NEW T \in SUBSET Setups, NEW f, Recurses(F, T, f)
    PROVE  f[T] = Sum(F)[T]
<1> DEFINE Bad == {t \in SUBSET T : f[t] # Sum(F)[t]}
<1> SUFFICES ASSUME Bad # {} PROVE FALSE
  OBVIOUS
<1>1. Bad \subseteq SUBSET Setups
  OBVIOUS
<1> HIDE DEF Bad
<1>2. PICK t \in Bad : \A u \in Bad : Cardinality(t) <= Cardinality(u)
  BY <1>1, SubsetMin
<1>3. t \in SUBSET T /\ t \in SUBSET Setups /\ f[t] # Sum(F)[t]
  BY <1>2 DEF Bad
<1>4. f[t] = IF t = {} THEN 0 ELSE F[Pick(t)] + f[t \ {Pick(t)}]
  BY <1>3 DEF Recurses
<1>5. Sum(F)[t] = IF t = {} THEN 0 ELSE F[Pick(t)] + Sum(F)[t \ {Pick(t)}]
  BY <1>3, SumRec
<1>6. t # {}
  BY <1>3, <1>4, <1>5
<1>7. Pick(t) \in t
  BY <1>6 DEF Pick
<1>8. /\ t \ {Pick(t)} \in SUBSET Setups /\ Cardinality(t) \in Nat
      /\ Cardinality(t \ {Pick(t)}) = Cardinality(t) - 1
  BY <1>3, <1>7, OneLess
<1>9. t \ {Pick(t)} \notin Bad
  BY <1>2, <1>8
<1>10. f[t \ {Pick(t)}] = Sum(F)[t \ {Pick(t)}]
  BY <1>3, <1>9 DEF Bad
<1>11. QED BY <1>3, <1>4, <1>5, <1>6, <1>10

LEMMA SumRecurses ==
    ASSUME NEW F \in [Setups -> Int], NEW T \in SUBSET Setups
    PROVE  \E g : Recurses(F, T, g)
<1> DEFINE g == [s \in SUBSET T |-> Sum(F)[s]]
<1>1. \A s \in SUBSET T : /\ s \in SUBSET Setups
                           /\ s # {} => s \ {Pick(s)} \in SUBSET T
  BY DEF Pick
<1>2. \A s \in SUBSET T : g[s] = IF s = {} THEN 0 ELSE F[Pick(s)] + g[s \ {Pick(s)}]
  BY <1>1, SumRec
<1>3. g = [s \in SUBSET T |-> g[s]]
  OBVIOUS
<1> HIDE DEF g
<1>4. Recurses(F, T, g)
  BY <1>2, <1>3 DEF Recurses
<1>5. QED BY <1>4

Gain(f) == [s \in Setups |-> f[s].pnl]
LossOf(f) == [s \in Setups |-> Larger(0, -f[s].pnl)]

(* The fold of the community modules computes the sum, for the gains that  *)
(* the books add up and for the losses that the daily limit adds up.       *)
LEMMA FoldOfGain ==
    ASSUME NEW d, NEW T \in SUBSET Setups, Gain(d.row) \in [Setups -> Int]
    PROVE  MapThenSumSet(LAMBDA s : d.row[s].pnl, T) = Sum(Gain(d.row))[T]
<1> DEFINE F == Gain(d.row)
           Body(it) == [s \in SUBSET T |->
              IF s = {} THEN 0
              ELSE d.row[CHOOSE x \in s : TRUE].pnl + it[s \ {CHOOSE x \in s : TRUE}]]
           f == CHOOSE it : it = Body(it)
<1>1. MapThenSumSet(LAMBDA s : d.row[s].pnl, T) = f[T]
  BY DEF MapThenSumSet, MapThenFoldSet
<1>2. ASSUME NEW it
      PROVE  Body(it) = [s \in SUBSET T |-> IF s = {} THEN 0 ELSE F[Pick(s)] + it[s \ {Pick(s)}]]
  BY DEF Pick, Gain
<1>3. \E it : it = Body(it)
  <2>1. PICK g : Recurses(F, T, g)
    BY SumRecurses
  <2>2. g = Body(g)
    BY <1>2, <2>1 DEF Recurses
  <2>3. QED BY <2>2
<1>4. f = Body(f)
  BY <1>3
<1> HIDE DEF f
<1>5. Recurses(F, T, f)
  BY <1>2, <1>4 DEF Recurses
<1>6. QED BY <1>1, <1>5, SumUnique

LEMMA FoldOfLoss ==
    ASSUME NEW d, NEW T \in SUBSET Setups, LossOf(d.row) \in [Setups -> Int]
    PROVE  MapThenSumSet(LAMBDA s : Larger(0, -d.row[s].pnl), T) = Sum(LossOf(d.row))[T]
<1> DEFINE F == LossOf(d.row)
           Body(it) == [s \in SUBSET T |->
              IF s = {} THEN 0
              ELSE Larger(0, -d.row[CHOOSE x \in s : TRUE].pnl) + it[s \ {CHOOSE x \in s : TRUE}]]
           f == CHOOSE it : it = Body(it)
<1>1. MapThenSumSet(LAMBDA s : Larger(0, -d.row[s].pnl), T) = f[T]
  BY DEF MapThenSumSet, MapThenFoldSet
<1>2. ASSUME NEW it
      PROVE  Body(it) = [s \in SUBSET T |-> IF s = {} THEN 0 ELSE F[Pick(s)] + it[s \ {Pick(s)}]]
  BY DEF Pick, LossOf
<1>3. \E it : it = Body(it)
  <2>1. PICK g : Recurses(F, T, g)
    BY SumRecurses
  <2>2. g = Body(g)
    BY <1>2, <2>1 DEF Recurses
  <2>3. QED BY <2>2
<1>4. f = Body(f)
  BY <1>3
<1> HIDE DEF f
<1>5. Recurses(F, T, f)
  BY <1>2, <1>4 DEF Recurses
<1>6. QED BY <1>1, <1>5, SumUnique

-----------------------------------------------------------------------------
(* The day's losses.                                                       *)

RowsType == [Setups -> Row]

(* What the rows f closed on or after a day have lost. *)
Late(f, day) == {s \in Setups : f[s].status = "CLOSED" /\ f[s].day >= day}
LossSince(f, day) == Sum(LossOf(f))[Late(f, day)]

LEMMA LossTypes ==
    ASSUME NEW f \in RowsType
    PROVE  /\ LossOf(f) \in [Setups -> Int] /\ \A s \in Setups : 0 <= LossOf(f)[s]
           /\ Gain(f) \in [Setups -> Int]
<1>1. \A s \in Setups : f[s].pnl \in Int
  BY DEF RowsType, Row
<1>2. QED BY <1>1 DEF LossOf, Gain, Larger

LEMMA LossIsNat ==
    ASSUME NEW f \in RowsType, NEW day
    PROVE  LossSince(f, day) \in Nat
<1>1. Late(f, day) \in SUBSET Setups /\ {} \in SUBSET Late(f, day)
  BY DEF Late
<1>2. Sum(LossOf(f))[{}] = 0 /\ Sum(LossOf(f)) \in [SUBSET Setups -> Int]
  BY LossTypes, SumRec
<1>3. Sum(LossOf(f))[{}] <= Sum(LossOf(f))[Late(f, day)]
  BY <1>1, LossTypes, SumCompare
<1>4. QED BY <1>1, <1>2, <1>3 DEF LossSince

LEMMA DailyLossIs ==
    ASSUME NEW d, d.row \in RowsType
    PROVE  DailyLoss(d) = LossSince(d.row, Now \div DayLength)
<1>1. ClosedToday(d) = Late(d.row, Now \div DayLength)
  BY DEF ClosedToday, Closed, Late
<1>2. Late(d.row, Now \div DayLength) \in SUBSET Setups
  BY DEF Late
<1>3. MapThenSumSet(LAMBDA s : Larger(0, -d.row[s].pnl), Late(d.row, Now \div DayLength))
        = Sum(LossOf(d.row))[Late(d.row, Now \div DayLength)]
  BY <1>2, LossTypes, FoldOfLoss
<1>4. QED BY <1>1, <1>3 DEF DailyLoss, LossSince

(* Losses of earlier days drop out. *)
LEMMA LossShrinks ==
    ASSUME NEW f \in RowsType, NEW day \in Int, NEW later \in Int, day <= later
    PROVE  LossSince(f, later) <= LossSince(f, day)
<1>1. \A s \in Setups : f[s].day \in Int
  BY DEF RowsType, Row
<1>2. Late(f, later) \in SUBSET Late(f, day) /\ Late(f, day) \in SUBSET Setups
  BY <1>1 DEF Late
<1>3. \A s \in Setups : LossOf(f)[s] \in Int /\ LossOf(f)[s] <= LossOf(f)[s]
  BY LossTypes
<1>4. QED BY <1>2, <1>3, LossTypes, SumCompare DEF LossSince

(* Changing the row of s adds at most the loss of its new row. *)
LEMMA LossOfChange ==
    ASSUME NEW f \in RowsType, NEW g \in RowsType, NEW s \in Setups, NEW day,
           \A q \in Setups \ {s} : g[q] = f[q]
    PROVE  /\ LossSince(g, day) <= LossSince(f, day) + Larger(0, -g[s].pnl)
           /\ g[s].status # "CLOSED" => LossSince(g, day) <= LossSince(f, day)
<1> DEFINE F == LossOf(f)
           G == LossOf(g)
           S == Late(f, day)
           T == Late(g, day)
<1>1. /\ F \in [Setups -> Int] /\ G \in [Setups -> Int]
      /\ \A q \in Setups : 0 <= F[q]
      /\ \A q \in Setups \ {s} : G[q] = F[q]
      /\ G[s] = Larger(0, -g[s].pnl)
  <2>1. \A q \in Setups \ {s} : G[q] = F[q]
    BY DEF LossOf
  <2>2. QED BY <2>1, LossTypes DEF LossOf
<1>2. T \ {s} \in SUBSET S /\ S \in SUBSET Setups /\ T \in SUBSET Setups
  BY DEF Late
<1> HIDE DEF F, G, T, S
<1>3. Sum(G)[T \ {s}] <= Sum(F)[S]
  <2>1. T \ {s} \in SUBSET Setups /\ \A q \in T \ {s} : G[q] = F[q]
    BY <1>1, <1>2
  <2>2. Sum(G)[T \ {s}] = Sum(F)[T \ {s}]
    BY <1>1, <2>1, SumEqual
  <2>3. \A q \in T \ {s} : F[q] <= F[q]
    BY <1>1, <2>1
  <2>4. Sum(F)[T \ {s}] <= Sum(F)[S]
    BY <1>1, <1>2, <2>3, SumCompare
  <2>5. QED BY <2>2, <2>4
<1>4. /\ Sum(G)[T] \in Int /\ Sum(G)[T \ {s}] \in Int /\ Sum(F)[S] \in Int /\ G[s] \in Int
      /\ G[s] >= 0
  <2>1. Sum(G) \in [SUBSET Setups -> Int] /\ Sum(F) \in [SUBSET Setups -> Int]
    BY <1>1, SumRec
  <2>2. T \ {s} \in SUBSET Setups
    BY <1>2
  <2>3. G[s] >= 0
    BY LossTypes DEF G
  <2>4. QED BY <1>1, <1>2, <2>1, <2>2, <2>3
<1>5. CASE s \in T
  <2>1. Sum(G)[T] = G[s] + Sum(G)[T \ {s}]
    BY <1>1, <1>2, <1>5, SumRemove
  <2>2. g[s].status = "CLOSED"
    BY <1>5 DEF T, Late
  <2>3. Sum(G)[T] <= Sum(F)[S] + G[s]
    BY <1>3, <1>4, <2>1
  <2>4. QED BY <1>1, <2>2, <2>3 DEF LossSince, F, G, S, T
<1>6. CASE s \notin T
  <2>1. T \ {s} = T
    BY <1>6
  <2>2. Sum(G)[T] <= Sum(F)[S]
    BY <1>3, <2>1
  <2>3. Sum(G)[T] <= Sum(F)[S] + G[s]
    BY <1>4, <2>2
  <2>4. QED BY <1>1, <2>2, <2>3 DEF LossSince, F, G, S, T
<1>7. QED BY <1>5, <1>6

-----------------------------------------------------------------------------
(* Types and time.                                                         *)

LEMMA Constants ==
    /\ IsFiniteSet(Setups) /\ Initial \in Int /\ Fee \in Nat /\ Slippage \in Nat
    /\ Results \subseteq Int /\ MaxOpen \in Nat /\ LossLimit \in Nat /\ Cooldown \in Nat
    /\ DayLength \in Nat /\ DayLength > 0
BY PaperAssumption

LEMMA DayLaw ==
    ASSUME NEW m \in Nat, NEW n \in Nat, m <= n
    PROVE  /\ m \div DayLength \in Nat /\ n \div DayLength \in Nat
           /\ m \div DayLength <= n \div DayLength
<1> DEFINE k == DayLength
<1>1. k \in Nat /\ k > 0
  BY Constants
<1> HIDE DEF k
<1>2. m \div k \in Nat /\ n \div k \in Nat
  BY <1>1
<1>3. m \div k <= n \div k
  BY <1>1
<1>4. QED BY <1>2, <1>3 DEF k

TimeInv == began = Never \/ (began \in Nat /\ began <= clock)
Day == Now \div DayLength

LEMMA NowIsNat ==
    ASSUME TypeOK, TimeInv
    PROVE  Now \in Nat /\ Now <= clock /\ Day \in Nat /\ Today \in Nat /\ Day <= Today
<1>1. clock \in Nat
  BY DEF TypeOK
<1>2. Now \in Nat /\ Now <= clock
  BY <1>1 DEF TimeInv, Now, Never
<1>3. QED BY <1>1, <1>2, DayLaw DEF Day, Today

LEMMA DatabaseFields ==
    ASSUME NEW d \in Database
    PROVE  /\ d.row \in RowsType /\ d.closings \in Nat /\ d.saved \in BOOLEAN
           /\ d.balance \in Int /\ d.cooldown \in Int /\ d.gate \in BOOLEAN
           /\ d.setup \in [Setups -> {"READY_TO_TRADE", "EXECUTED", "EXPIRED"}]
BY DEF Database, RowsType

LEMMA InsertedType ==
    ASSUME TypeOK, NEW s \in Setups
    PROVE  /\ Inserted(txn, s) \in Database
           /\ \A q \in Setups \ {s} : Inserted(txn, s).row[q] = txn.row[q]
           /\ Inserted(txn, s).row[s].status = "OPEN"
<1> DEFINE o == "OPEN"
           n == clock
           b == mem.balance
           x == [NoRow EXCEPT !.status = o, !.entered = n, !.before = b]
           f == [txn.row EXCEPT ![s] = x]
           g == [txn.setup EXCEPT ![s] = "EXECUTED"]
<1>0. mem.balance \in Int /\ clock \in Nat
  BY DEF TypeOK, Engine
<1>1. x \in Row /\ x.status = "OPEN"
  <2>1. NoRow \in Row
    BY DEF NoRow, Row
  <2>2. b \in Int /\ n \in Nat /\ o \in {"none", "OPEN", "CLOSED"} /\ o = "OPEN"
    BY <1>0
  <2> HIDE DEF b, n, o
  <2>3. QED BY <2>1, <2>2 DEF Row
<1>2. Inserted(txn, s) = [txn EXCEPT !.row = f, !.setup = g]
  BY DEF Inserted
<1> HIDE DEF x
<1>3. f \in RowsType /\ f[s] = x /\ \A q \in Setups \ {s} : f[q] = txn.row[q]
  BY <1>1, DatabaseFields DEF TypeOK, RowsType
<1>4. g \in [Setups -> {"READY_TO_TRADE", "EXECUTED", "EXPIRED"}]
  BY DatabaseFields DEF TypeOK
<1> HIDE DEF f, g
<1>5. /\ [txn EXCEPT !.row = f, !.setup = g] \in Database
      /\ [txn EXCEPT !.row = f, !.setup = g].row = f
  BY <1>3, <1>4 DEF TypeOK, Database, RowsType
<1>6. QED BY <1>1, <1>2, <1>3, <1>5

LEMMA ClosedType ==
    ASSUME TypeOK, TimeInv, NEW s \in Setups, NEW r \in Int
    PROVE  /\ WithClosed(txn, s, r) \in Database
           /\ \A q \in Setups \ {s} : WithClosed(txn, s, r).row[q] = txn.row[q]
           /\ WithClosed(txn, s, r).row[s].status = "CLOSED"
           /\ WithClosed(txn, s, r).row[s].pnl = Net(r)
<1> DEFINE n == txn.closings + 1
           x == [txn.row[s] EXCEPT !.status = "CLOSED", !.pnl = Net(r), !.day = Day, !.nth = n]
           f == [txn.row EXCEPT ![s] = x]
<1>1. txn.row[s] \in Row /\ n \in Nat /\ Net(r) \in Int /\ Day \in Nat
  BY DatabaseFields, NowIsNat, Constants DEF TypeOK, RowsType, Net
<1>2. WithClosed(txn, s, r) = [txn EXCEPT !.row = f, !.closings = n]
  BY DEF WithClosed, Day
<1> HIDE DEF n
<1>3. x \in Row /\ x.status = "CLOSED" /\ x.pnl = Net(r)
  BY <1>1 DEF Row
<1> HIDE DEF x
<1>4. f \in RowsType /\ f[s] = x /\ \A q \in Setups \ {s} : f[q] = txn.row[q]
  BY <1>3, DatabaseFields DEF TypeOK, RowsType
<1> HIDE DEF f
<1>5. /\ [txn EXCEPT !.row = f, !.closings = n] \in Database
      /\ [txn EXCEPT !.row = f, !.closings = n].row = f
  BY <1>1, <1>4 DEF TypeOK, Database, RowsType
<1>6. QED BY <1>2, <1>3, <1>4, <1>5

LEMMA StreakIsNat ==
    ASSUME NEW d
    PROVE  LossStreak(d) \in Nat
<1> DEFINE T == {s \in ClosedToday(d) :
                    \A q \in ClosedToday(d) : d.row[q].nth >= d.row[s].nth => d.row[q].pnl < 0}
<1>1. T \in SUBSET Setups
  BY DEF ClosedToday, Closed
<1>2. LossStreak(d) = Cardinality(T)
  BY DEF LossStreak
<1> HIDE DEF T
<1>3. QED BY <1>1, <1>2, Constants, FS_Subset, FS_CardinalityType

(* What the engine's own operations do to its fields. *)
LEMMA LoadRiskType ==
    ASSUME TypeOK, TimeInv, NEW m \in Engine, NEW d \in Database
    PROVE  /\ LoadRisk(m, d) \in Engine
           /\ LoadRisk(m, d).daily = LossSince(d.row, Day)
           /\ LoadRisk(m, d).open = m.open /\ LoadRisk(m, d).balance = m.balance
           /\ LoadRisk(m, d).halt = m.halt
<1> DEFINE a == DailyLoss(d)
           b == IF d.cooldown # Never /\ d.cooldown <= clock THEN 0 ELSE LossStreak(d)
           c == IF d.cooldown = Never THEN m.cooldown
                ELSE IF d.cooldown > clock THEN d.cooldown ELSE Never
<1>1. LoadRisk(m, d) = [m EXCEPT !.daily = a, !.losses = b, !.cooldown = c]
  BY DEF LoadRisk
<1>2. d.row \in RowsType
  BY DatabaseFields
<1>3. a = LossSince(d.row, Day) /\ a \in Nat
  BY <1>2, DailyLossIs, LossIsNat DEF Day
<1>4. b \in Nat
  BY StreakIsNat
<1>5. c \in Int
  BY DatabaseFields DEF Never, Engine
<1> HIDE DEF a, b, c
<1>6. QED BY <1>1, <1>3, <1>4, <1>5 DEF Engine

LEMMA RolloverType ==
    ASSUME TypeOK, TimeInv
    PROVE  /\ Rollover(mem, txn) \in Engine
           /\ Rollover(mem, txn).open = mem.open /\ Rollover(mem, txn).balance = mem.balance
           /\ Rollover(mem, txn).halt = mem.halt
           /\ \/ Rollover(mem, txn).daily = mem.daily
              \/ Rollover(mem, txn).daily = LossSince(txn.row, Day)
<1>1. CASE mem.day = Today
  BY <1>1 DEF Rollover, TypeOK
<1>2. CASE mem.day # Today
  <2> DEFINE m == LoadRisk(mem, txn)
  <2>1. /\ m \in Engine /\ m.open = mem.open /\ m.balance = mem.balance /\ m.halt = mem.halt
        /\ m.daily = LossSince(txn.row, Day)
    BY LoadRiskType DEF TypeOK
  <2>2. Rollover(mem, txn) = [m EXCEPT !.day = Today] /\ Today \in Nat
    BY <1>2, NowIsNat DEF Rollover
  <2> HIDE DEF m
  <2>3. QED BY <2>1, <2>2 DEF Engine
<1>3. QED BY <1>1, <1>2

LEMMA AfterStreakType ==
    ASSUME TypeOK
    PROVE  /\ AfterStreak(mem) \in Engine
           /\ AfterStreak(mem).open = mem.open /\ AfterStreak(mem).balance = mem.balance
           /\ AfterStreak(mem).daily = mem.daily /\ AfterStreak(mem).halt = mem.halt
<1>1. mem \in Engine /\ clock + Cooldown \in Int
  BY Constants DEF TypeOK
<1>2. CASE AfterStreak(mem) = mem
  BY <1>1, <1>2
<1>3. CASE AfterStreak(mem) = [mem EXCEPT !.cooldown = clock + Cooldown]
  BY <1>1, <1>3 DEF Engine
<1>4. CASE AfterStreak(mem) = [mem EXCEPT !.losses = 0, !.cooldown = Never]
  <2> DEFINE n == 0
             c == Never
  <2>1. n \in Nat /\ c \in Int
    BY DEF Never
  <2>2. AfterStreak(mem) = [mem EXCEPT !.losses = n, !.cooldown = c]
    BY <1>4
  <2> HIDE DEF n, c
  <2>3. QED BY <1>1, <2>1, <2>2 DEF Engine
<1>5. QED BY <1>2, <1>3, <1>4 DEF AfterStreak

LEMMA BookedType ==
    ASSUME TypeOK, NEW r \in Int
    PROVE  /\ Booked(mem, r) \in Engine
           /\ Booked(mem, r).open = mem.open /\ Booked(mem, r).balance = mem.balance + r
           /\ Booked(mem, r).daily = mem.daily + Larger(0, -Net(r))
           /\ Booked(mem, r).halt = mem.halt
<1> DEFINE b == [mem EXCEPT !.balance = mem.balance + r]
           c == IF mem.losses + 1 >= MaxLosses /\ Cooldown > 0 /\ mem.cooldown = Never
                THEN clock + Cooldown ELSE mem.cooldown
           n == Net(r)
<1>1. mem \in Engine /\ clock \in Nat
  BY DEF TypeOK
<1>2. b \in Engine /\ b.open = mem.open /\ b.halt = mem.halt /\ b.balance = mem.balance + r
      /\ b.daily = mem.daily /\ b.losses = mem.losses /\ b.cooldown = mem.cooldown
  BY <1>1 DEF Engine
<1>3. Booked(mem, r) = IF n >= 0 THEN [b EXCEPT !.losses = 0]
                       ELSE [b EXCEPT !.daily = b.daily - n, !.losses = b.losses + 1, !.cooldown = c]
  BY <1>2 DEF Booked
<1>4. n \in Int /\ c \in Int /\ mem.daily \in Nat /\ mem.losses \in Nat
  BY <1>1, Constants DEF Net, Engine
<1> HIDE DEF b, c, n
<1>5. CASE n >= 0
  BY <1>2, <1>3, <1>4, <1>5 DEF Engine, Larger, n
<1>6. CASE ~(n >= 0)
  <2>1. mem.daily - n \in Nat /\ Larger(0, -n) = -n
    BY <1>4, <1>6 DEF Larger
  <2>2. Booked(mem, r) = [b EXCEPT !.daily = mem.daily - n, !.losses = mem.losses + 1,
                                   !.cooldown = c]
    BY <1>2, <1>3, <1>6
  <2> DEFINE x == mem.daily - n
             y == mem.losses + 1
  <2>3. [b EXCEPT !.daily = x, !.losses = y, !.cooldown = c] \in Engine
    <3>1. x \in Nat /\ y \in Nat
      BY <1>4, <2>1
    <3> HIDE DEF x, y
    <3>2. QED BY <1>2, <1>4, <3>1 DEF Engine
  <2>4. mem.daily - n = mem.daily + Larger(0, -Net(r))
    BY <1>4, <2>1 DEF n
  <2>5. QED BY <1>2, <2>2, <2>3, <2>4 DEF Engine
<1>7. QED BY <1>4, <1>5, <1>6

-----------------------------------------------------------------------------
(* What the statements do to the connection.                               *)

LEMMA ExecuteDoes ==
    ASSUME TypeOK, NEW e \in Endings, NEW new, Execute(e, new)
    PROVE  /\ db' = txn' /\ began' = Never
           /\ txn' = new \/ txn' = db
           /\ e = "ok" => txn' = new /\ mishaps' = mishaps
           /\ e # "ok" => mishaps' = mishaps + 1 /\ e \in Mishaps
           /\ e = "fault" => txn' = db
           /\ mishaps' \in Nat
BY DEF Execute, Endings, Mishap, TypeOK

LEMMA DiscardDoes ==
    ASSUME Discard
    PROVE  db' = db /\ txn' = db /\ began' = Never
BY DEF Discard

LEMMA RollbackDoes ==
    ASSUME TypeOK, Rollback
    PROVE  /\ db' = db /\ txn' = db /\ began' = Never
           /\ mishaps' = mishaps + 1 /\ mishaps' \in Nat /\ "fault" \in Mishaps
BY DEF Discard, Rollback, Mishap, TypeOK

LEMMA BeginDoes ==
    ASSUME TypeOK, TimeInv, Begin
    PROVE  began' = Now /\ began' \in Nat /\ began' <= clock
BY NowIsNat DEF Begin

(* The thread states. *)
LEMMA MainUpdates ==
    ASSUME NEW m \in MainState
    PROVE  /\ \A p \in {"idle", "loaded", "entering", "expiring", "stats", "saving", "failed"} :
                 /\ [m EXCEPT !.pc = p] \in MainState
                 /\ [m EXCEPT !.pc = p].pc = p
           /\ \A t \in SUBSET Setups : [m EXCEPT !.todo = t] \in MainState
                                       /\ [m EXCEPT !.todo = t].pc = m.pc
BY DEF MainState

LEMMA MainAt ==
    ASSUME NEW m \in MainState, NEW p \in {"idle", "expiring", "entering", "stats", "saving", "failed"}
    PROVE  [m EXCEPT !.pc = p] \in MainState /\ [m EXCEPT !.pc = p].pc = p
BY DEF MainState

LEMMA Idle ==
    /\ MainIdle \in MainState /\ MainIdle.pc = "idle"
    /\ MonitorIdle \in MonitorState /\ MonitorIdle.pc = "idle"
    /\ MonitorIdle.todo = <<>> /\ MonitorIdle.gone = {}
<1>1. MainIdle \in MainState /\ MainIdle.pc = "idle"
  BY DEF MainIdle, MainState
<1>2. MonitorIdle \in MonitorState /\ MonitorIdle.pc = "idle"
      /\ MonitorIdle.todo = <<>> /\ MonitorIdle.gone = {}
  <2>1. {} \in SUBSET Symbols /\ {} \in SUBSET Setups /\ <<>> \in Seq(Setups) /\ "none" \in Gaps
    BY DEF Gaps
  <2>2. QED BY <2>1 DEF MonitorIdle, MonitorState
<1>3. QED BY <1>1, <1>2

(* The head of the monitor's list is dealt with. *)
LEMMA HeadDone ==
    ASSUME mon \in MonitorState, mon.todo # <<>>
    PROVE  /\ Head(mon.todo) \in Setups /\ Tail(mon.todo) \in Seq(Setups)
           /\ mon.gone \union {Head(mon.todo)} \in SUBSET Setups
           /\ Head(mon.todo) \in Members(mon.todo)
           /\ Members(Tail(mon.todo)) \subseteq Members(mon.todo)
<1>1. mon.todo \in Seq(Setups) /\ mon.gone \in SUBSET Setups
  BY DEF MonitorState
<1>2. Head(mon.todo) \in Setups /\ Tail(mon.todo) \in Seq(Setups)
  BY <1>1
<1>3. 1 \in DOMAIN mon.todo /\ mon.todo[1] = Head(mon.todo)
  BY <1>1
<1>4. \A i \in DOMAIN Tail(mon.todo) : i + 1 \in DOMAIN mon.todo /\ Tail(mon.todo)[i] = mon.todo[i + 1]
  BY <1>1
<1>5. QED BY <1>1, <1>2, <1>3, <1>4 DEF Members

LEMMA MonitorUpdates ==
    ASSUME NEW m \in MonitorState
    PROVE  /\ \A t \in Seq(Setups) : [m EXCEPT !.todo = t] \in MonitorState
           /\ \A p \in {"idle", "fetched", "checking", "closing", "gap"} : \A t \in Seq(Setups) :
                 [m EXCEPT !.pc = p, !.todo = t] \in MonitorState
           /\ \A p \in {"idle", "fetched", "checking", "closing", "gap"} : \A t \in SUBSET Symbols :
                 [m EXCEPT !.pc = p, !.seen = t] \in MonitorState
           /\ \A p \in {"idle", "fetched", "checking", "closing", "gap"} :
                 [m EXCEPT !.pc = p] \in MonitorState
           /\ \A p \in {"idle", "fetched", "checking", "closing", "gap"} : \A g \in Gaps :
                 [m EXCEPT !.pc = p, !.gap = g] \in MonitorState
           /\ \A p \in {"idle", "fetched", "checking", "closing", "gap"}, t \in Seq(Setups) :
              \A g \in SUBSET Setups :
                 [m EXCEPT !.pc = p, !.todo = t, !.gone = g] \in MonitorState
           /\ \A p \in {"idle", "fetched", "checking", "closing", "gap"}, h \in Gaps, t \in Seq(Setups) :
              \A g \in SUBSET Setups :
                 [m EXCEPT !.pc = p, !.gap = h, !.todo = t, !.gone = g] \in MonitorState
BY DEF MonitorState
-----------------------------------------------------------------------------
(* The inductive invariant.                                                *)

(* Who holds trading_lock is where it should be, and only the monitor's    *)
(* locked section has anything to do.                                      *)
InSection == mon.pc \in {"checking", "closing", "gap"}
Locks ==
    /\ lock = "main" <=> main.pc = "entering"
    /\ lock = "monitor" <=> InSection
    /\ ~InSection => mon.todo = <<>> /\ mon.gone = {}
    /\ mon.pc \in {"closing", "gap"} => mon.todo # <<>>
    /\ ~up => lock = "free" /\ txn = db /\ main.pc = "idle" /\ mon.pc = "idle"

(* What is pending on the connection, and what the engine knows of, is of  *)
(* setups that have a committed row.                                       *)
HasRow(d, s) == d.row[s].status # "none"
Rows ==
    /\ \A s \in Setups : HasRow(txn, s) <=> HasRow(db, s)
    /\ mon.pc # "closing" => txn.row = db.row
    /\ up => \A s \in Members(mem.open) : HasRow(db, s)
    /\ \A s \in Members(mon.todo) : HasRow(db, s)

(* The engine never has a smaller daily loss in mind than the tables show. *)
LossKnown ==
    up => LossSince(db.row, Day) <= mem.daily /\ LossSince(txn.row, Day) <= mem.daily

HaltKnown ==
    /\ lock = "main" => ~mem.halt
    /\ "crash" \notin Mishaps => up /\ (severe => mem.halt)

OneEach(q) == \A i, j \in DOMAIN q : i # j => SymOf[q[i]] # SymOf[q[j]]
Distinct(q) == \A i, j \in DOMAIN q : i # j => q[i] # q[j]

(* No statement or commit has failed. *)
Calm == mishaps = 0 \/ Mishaps \subseteq {"crash"}

(* The rows differ only in the position that is being closed, which the    *)
(* monitor has already taken out of the engine or is about to.             *)
OnlyClosing ==
    \A s \in Setups :
       \/ txn.row[s] = db.row[s]
       \/ /\ mon.pc = "closing" /\ s = Head(mon.todo)
          /\ db.row[s].status = "OPEN" /\ txn.row[s].status = "CLOSED"
Leaving(s) == s \in mon.gone \/ (mon.pc \in {"closing", "gap"} /\ s = Head(mon.todo))
EngineAhead ==
    /\ Len(mem.open) <= MaxOpen
    /\ Opened(db) \subseteq Members(mem.open)
    /\ up => \A s \in Members(mem.open) : s \in Opened(txn) \/ Leaving(s)
    /\ \A s \in Setups : Leaving(s) => s \notin Opened(txn)
Worklist ==
    /\ Distinct(mon.todo)
    /\ Members(mon.todo) \subseteq Members(mem.open)
    /\ Members(mon.todo) \cap mon.gone = {}

(* Only a failure sends the runner into its recovery. *)
Recovering == main.pc = "failed" => ~Calm

Cost == Fee + Slippage
Books ==
    /\ up
    /\ mem.balance = Initial + Sum(Gain(txn.row))[Closed(txn)] - Cost * Cardinality(Opened(txn))

-----------------------------------------------------------------------------
(* What the actions do to the parts of the state that the invariant is     *)
(* about.                                                                  *)

Same == up' = up /\ clock' = clock
Quiet == db' = db /\ txn' = txn /\ mishaps' = mishaps

(* The runner outside its locked section: a read, a lost transaction, or a *)
(* write that leaves the trades alone and commits what is pending.         *)
Outside ==
    /\ Same /\ mem' = mem /\ lock' = lock /\ mon' = mon /\ severe' = severe
    /\ up /\ main.pc # "entering" /\ main'.pc # "entering"
    /\ mishaps' >= mishaps
    /\ \/ db' = db /\ txn' = txn /\ began' = Now
       \/ /\ db' = txn' /\ began' = Never
          /\ txn'.row = txn.row \/ (txn'.row = db.row /\ ~Calm')
    /\ main'.pc = "failed" => ~Calm'

(* check_entries takes the lock, or gives up under a halt. *)
Starts ==
    /\ Same /\ Quiet /\ mon' = mon /\ severe' = severe
    /\ up /\ lock = "free"
    /\ began' = Now \/ began' = began
    /\ mem'.open = mem.open /\ mem'.balance = mem.balance /\ mem'.halt = mem.halt
    /\ mem'.daily = mem.daily \/ mem'.daily = LossSince(txn.row, Day)
    /\ \/ mem.halt /\ lock' = "free" /\ main'.pc = "expiring"
       \/ ~mem.halt /\ lock' = "main" /\ main'.pc = "entering"

(* The loop of check_entries goes on or ends, without an entry. *)
Passes ==
    /\ Same /\ Quiet /\ began' = began /\ mon' = mon /\ severe' = severe
    /\ up /\ lock = "main"
    /\ mem'.open = mem.open /\ mem'.balance = mem.balance /\ mem'.halt = mem.halt
    /\ mem'.daily = mem.daily
    /\ \/ lock' = "free" /\ main'.pc = "expiring"
       \/ lock' = "main" /\ main'.pc = "entering"

Allowed(s) ==
    /\ up /\ lock = "main" /\ main.pc = "entering" /\ s \in Setups
    /\ ~Skipped(s) /\ ~LimitReached
    /\ txn.row[s].status = "none"
Adds(s) ==
    /\ txn'.row[s].status = "OPEN"
    /\ \A q \in Setups \ {s} : txn'.row[q] = txn.row[q]
Opens(s) ==
    /\ Same /\ mon' = mon /\ severe' = severe
    /\ Allowed(s) /\ Adds(s)
    /\ db' = txn' /\ began' = Never /\ mishaps' = mishaps
    /\ mem'.open = Append(mem.open, s) /\ mem'.balance = mem.balance - Cost
    /\ mem'.daily = mem.daily /\ mem'.halt = mem.halt
    /\ lock' = "main" /\ main'.pc = "entering"
OpenFails(s) ==
    /\ Same /\ mon' = mon /\ severe' = severe
    /\ Allowed(s) /\ (Adds(s) \/ txn' = db)
    /\ db' = txn' /\ began' = Never
    /\ ~Calm' /\ mishaps' # 0
    /\ mem'.open = mem.open /\ mem'.daily = mem.daily /\ mem'.halt = mem.halt
    /\ lock' = "free" /\ main'.pc = "failed"

(* The monitor outside its locked section, and entering it. *)
Looks ==
    /\ Same /\ Quiet /\ began' = began /\ mem' = mem /\ severe' = severe
    /\ main' = main /\ up
    /\ mon.pc \in {"idle", "fetched"}
    /\ \/ lock' = lock /\ mon'.pc = "fetched" /\ mon'.todo = <<>> /\ mon'.gone = {}
       \/ /\ lock = "free" /\ lock' = "monitor"
          /\ mon'.pc = "checking" /\ mon'.todo = mem.open /\ mon'.gone = {}

Busy == up /\ lock = "monitor" /\ main' = main /\ Same
Holds ==
    /\ Busy /\ Quiet /\ began' = began /\ mem' = mem /\ severe' = severe /\ lock' = lock
    /\ mon.pc = "checking" /\ mon.todo # <<>>
    /\ mon'.pc = "checking" /\ mon'.todo = Tail(mon.todo) /\ mon'.gone = mon.gone
Accounts(r) ==
    /\ mem'.open = mem.open /\ mem'.balance = mem.balance + r /\ mem'.halt = mem.halt
    /\ mem'.daily = mem.daily + Larger(0, -Net(r))
Closes(r) ==
    /\ Busy /\ r \in Int /\ severe' = severe /\ lock' = lock
    /\ mon.pc = "checking" /\ mon.todo # <<>>
    /\ Accounts(r)
    /\ db' = db /\ began' = Now /\ mishaps' = mishaps
    /\ txn'.row[Head(mon.todo)].status = "CLOSED"
    /\ txn'.row[Head(mon.todo)].pnl = Net(r)
    /\ \A q \in Setups \ {Head(mon.todo)} : txn'.row[q] = txn.row[q]
    /\ mon'.pc = "closing" /\ mon'.todo = mon.todo /\ mon'.gone = mon.gone
CloseFails(r) ==
    /\ Busy /\ r \in Int /\ severe' = severe
    /\ Accounts(r)
    /\ db' = db /\ txn' = db /\ began' = Never
    /\ ~Calm' /\ mishaps' # 0
    /\ lock' = "free" /\ mon'.pc = "idle" /\ mon'.todo = <<>> /\ mon'.gone = {}
Strikes ==
    /\ mon'.pc = "checking" /\ mon'.todo = Tail(mon.todo)
    /\ mon'.gone = mon.gone \union {Head(mon.todo)}
Commits ==
    /\ Busy /\ mem' = mem /\ severe' = severe
    /\ mon.pc = "closing"
    /\ db' = txn' /\ began' = Never
    /\ \/ /\ txn' = txn /\ lock' = lock /\ mishaps' = mishaps
          /\ \/ mon'.pc = "gap" /\ mon'.todo = mon.todo /\ mon'.gone = mon.gone
             \/ Strikes
       \/ /\ txn' = txn \/ txn' = db
          /\ ~Calm' /\ mishaps' # 0
          /\ lock' = "free" /\ mon'.pc = "idle" /\ mon'.todo = <<>> /\ mon'.gone = {}
Records ==
    /\ Busy /\ lock' = lock
    /\ mon.pc = "gap" /\ Strikes
    /\ mem'.open = mem.open /\ mem'.balance = mem.balance /\ mem'.daily = mem.daily
    /\ severe' => severe \/ mem'.halt
    /\ mem.halt => mem'.halt
    /\ \/ db' = db /\ txn'.row = txn.row /\ began' = Now /\ mishaps' = mishaps
       \/ db' = db /\ txn' = db /\ began' = Never /\ ~Calm' /\ mishaps' # 0
Removes ==
    /\ Busy /\ Quiet /\ began' = began /\ severe' = severe
    /\ mon.pc = "checking" /\ mon.todo = <<>>
    /\ mem'.open \in Without(mem.open, mon.gone)
    /\ mem'.balance = mem.balance /\ mem'.daily = mem.daily /\ mem'.halt = mem.halt
    /\ lock' = "free" /\ mon'.pc = "idle" /\ mon'.todo = <<>> /\ mon'.gone = {}

Dies ==
    /\ up /\ ~up' /\ clock' = clock /\ mem' = mem /\ severe' = severe
    /\ db' = db /\ txn' = db /\ began' = Never
    /\ "crash" \in Mishaps /\ mishaps' # 0
    /\ lock' = "free" /\ main'.pc = "idle"
    /\ mon'.pc = "idle" /\ mon'.todo = <<>> /\ mon'.gone = {}
Starting ==
    /\ ~up /\ up' /\ clock' = clock /\ Quiet /\ severe' = severe
    /\ began' = Now
    /\ lock' = lock /\ main' = main /\ mon' = mon
    /\ mem'.open \in LoadOpen(db)
    /\ mem'.daily = LossSince(db.row, Day)
Ticks ==
    /\ clock' = clock + 1 /\ up' = up /\ Quiet /\ began' = began
    /\ mem' = mem /\ lock' = lock /\ main' = main /\ mon' = mon /\ severe' = severe

Kinds ==
    \/ Outside \/ Starts \/ Passes
    \/ \E s \in Setups : Opens(s) \/ OpenFails(s)
    \/ Looks \/ Holds \/ \E r \in Int : Closes(r) \/ CloseFails(r)
    \/ Commits \/ Records \/ Removes
    \/ Dies \/ Starting \/ Ticks
    \/ UNCHANGED vars

LEMMA Failed ==
    ASSUME TypeOK, NEW e \in {"fault", "torn"}, e \in Mishaps, mishaps' = mishaps + 1
    PROVE  ~Calm' /\ mishaps' # 0
BY DEF TypeOK, Calm

(* The runner's actions. *)
LEMMA OutsideTypes ==
    ASSUME TypeOK, TimeInv, mem' = mem, lock' = lock, mon' = mon, severe' = severe,
           up' = up, clock' = clock, main' \in MainState, mishaps' \in Nat, began' \in Int,
           db' \in Database, txn' \in Database
    PROVE  TypeOK'
BY DEF TypeOK

LEMMA LoadSetupsKind ==
    ASSUME TypeOK, TimeInv, LoadSetups \/ EmergencyStop
    PROVE  TypeOK' /\ Outside
<1>1. main \in MainState /\ main.pc = "idle"
  BY DEF TypeOK, LoadSetups, EmergencyStop
<1>2. main' \in MainState /\ main'.pc \in {"loaded", "expiring"}
  <2>1. ASSUME LoadSetups PROVE main' \in MainState /\ main'.pc \in {"loaded", "expiring"}
    <3>1. PICK C \in SUBSET Ready(txn) :
             main' = [pc |-> IF Ready(txn) = {} THEN "expiring" ELSE "loaded", todo |-> C]
      BY <2>1 DEF LoadSetups
    <3>2. C \in SUBSET Setups
      BY DEF Ready
    <3>3. QED BY <3>1, <3>2 DEF MainState
  <2>2. ASSUME EmergencyStop PROVE main' \in MainState /\ main'.pc \in {"loaded", "expiring"}
    BY <2>2, Idle, MainUpdates DEF EmergencyStop
  <2>3. QED BY <2>1, <2>2
<1>3. Begin
  BY DEF LoadSetups, EmergencyStop
<1>4. /\ db' = db /\ txn' = txn /\ mem' = mem /\ lock' = lock /\ mon' = mon
      /\ mishaps' = mishaps /\ Same /\ severe' = severe /\ up
  BY DEF LoadSetups, EmergencyStop, Process, Same
<1>5. began' = Now /\ began' \in Int
  BY <1>3, BeginDoes
<1>6. TypeOK'
  BY <1>2, <1>4, <1>5, OutsideTypes DEF TypeOK, Same
<1>7. QED BY <1>1, <1>2, <1>4, <1>5, <1>6 DEF Outside, TypeOK

LEMMA LoadFailsKind ==
    ASSUME TypeOK, TimeInv, LoadFails \/ RolloverFails
    PROVE  TypeOK' /\ Outside
<1>1. main \in MainState /\ main.pc \in {"idle", "loaded"}
  BY DEF TypeOK, LoadFails, RolloverFails
<1>2. main' \in MainState /\ main'.pc # "entering"
  <2>1. ASSUME LoadFails PROVE main' \in MainState /\ main'.pc # "entering"
    <3>1. PICK pc \in {"idle", "expiring"} : main' = [MainIdle EXCEPT !.pc = pc]
      BY <2>1 DEF LoadFails
    <3>2. QED BY <3>1, Idle, MainUpdates
  <2>2. ASSUME RolloverFails PROVE main' \in MainState /\ main'.pc # "entering"
    BY <2>2, Idle, MainUpdates DEF RolloverFails
  <2>3. QED BY <2>1, <2>2
<1>3. Rollback
  BY DEF LoadFails, RolloverFails
<1>4. mem' = mem /\ lock' = lock /\ mon' = mon /\ Same /\ severe' = severe /\ up
  BY DEF LoadFails, RolloverFails, Process, Same
<1>5. /\ db' = db /\ txn' = db /\ began' = Never /\ mishaps' = mishaps + 1 /\ mishaps' \in Nat
      /\ ~Calm' /\ mishaps' >= mishaps
  BY <1>3, RollbackDoes, Failed DEF TypeOK
<1>6. TypeOK'
  BY <1>2, <1>4, <1>5, OutsideTypes DEF TypeOK, Same, Never
<1>7. QED BY <1>1, <1>2, <1>4, <1>5, <1>6 DEF Outside, TypeOK

LEMMA ReconnectKind ==
    ASSUME TypeOK, TimeInv, Recovering, Reconnect
    PROVE  TypeOK' /\ Outside
<1>1. main.pc = "failed" /\ ~Calm /\ mishaps' = mishaps
  BY DEF Reconnect, Recovering
<1>2. main' \in MainState /\ main'.pc = "idle"
  BY Idle DEF Reconnect
<1>3. mem' = mem /\ lock' = lock /\ mon' = mon /\ Same /\ severe' = severe /\ up
  BY DEF Reconnect, Process, Same
<1>4. db' = db /\ txn' = db /\ began' = Never /\ mishaps' \in Nat /\ ~Calm' /\ mishaps' >= mishaps
  BY <1>1, DiscardDoes DEF Reconnect, TypeOK, Calm
<1>5. TypeOK'
  BY <1>2, <1>3, <1>4, OutsideTypes DEF TypeOK, Same, Never
<1>6. QED BY <1>1, <1>2, <1>3, <1>4, <1>5 DEF Outside, TypeOK

(* A statement that leaves the trades alone. *)
LEMMA WriteOutside ==
    ASSUME TypeOK, TimeInv, NEW e \in Endings, NEW new \in Database, new.row = txn.row,
           Execute(e, new), up, main.pc # "entering", main' \in MainState,
           main'.pc \notin {"entering", "failed"},
           mem' = mem, lock' = lock, mon' = mon, Same, severe' = severe
    PROVE  TypeOK' /\ Outside
<1>1. /\ db' = txn' /\ began' = Never /\ mishaps' \in Nat
      /\ txn' = new \/ txn' = db
      /\ e = "ok" => txn' = new /\ mishaps' = mishaps
      /\ e # "ok" => mishaps' = mishaps + 1 /\ e \in Mishaps
  BY ExecuteDoes
<1>2. e # "ok" => ~Calm'
  BY <1>1, Failed DEF Endings
<1>3. txn'.row = txn.row \/ (txn'.row = db.row /\ ~Calm')
  BY <1>1, <1>2
<1>4. mishaps' >= mishaps
  BY <1>1 DEF TypeOK
<1>5. TypeOK'
  BY <1>1, OutsideTypes DEF TypeOK, Same, Never
<1>6. QED BY <1>1, <1>3, <1>4, <1>5 DEF Outside

LEMMA ExpireKind ==
    ASSUME TypeOK, TimeInv, NEW e \in Endings, ExpireSetups(e)
    PROVE  TypeOK' /\ Outside
<1>1. PICK E \in SUBSET Ready(txn) :
         Execute(e, [txn EXCEPT !.setup = [s \in Setups |-> IF s \in E THEN "EXPIRED" ELSE @[s]]])
  BY DEF ExpireSetups
<1> DEFINE f == [s \in Setups |-> IF s \in E THEN "EXPIRED" ELSE txn.setup[s]]
           new == [txn EXCEPT !.setup = f]
<1>2. f \in [Setups -> {"READY_TO_TRADE", "EXECUTED", "EXPIRED"}]
  BY DatabaseFields DEF TypeOK
<1>3. Execute(e, new)
  BY <1>1
<1> HIDE DEF f
<1>4. new \in Database /\ new.row = txn.row
  BY <1>2 DEF TypeOK, Database
<1>5. main.pc = "expiring" /\ main' \in MainState /\ main'.pc = "stats"
  BY MainUpdates DEF ExpireSetups, TypeOK
<1>6. up /\ mem' = mem /\ lock' = lock /\ mon' = mon /\ Same /\ severe' = severe
  BY DEF ExpireSetups, Process, Same
<1> HIDE DEF new
<1>7. QED BY <1>3, <1>4, <1>5, <1>6, WriteOutside

LEMMA SnapshotKind ==
    ASSUME TypeOK, TimeInv, NEW e \in Endings, Snapshot(e)
    PROVE  TypeOK' /\ Outside
<1> DEFINE b == mem.balance
           c == mem.cooldown
           t == TRUE
           new == [txn EXCEPT !.saved = t, !.balance = b, !.cooldown = c]
<1>1. b \in Int /\ c \in Int /\ t \in BOOLEAN
  BY DEF TypeOK, Engine
<1>2. Execute(e, new)
  BY DEF Snapshot
<1> HIDE DEF b, c, t
<1>3. new \in Database /\ new.row = txn.row
  BY <1>1 DEF TypeOK, Database
<1>4. main.pc = "saving" /\ main' \in MainState /\ main'.pc = "idle"
  BY Idle DEF Snapshot
<1>5. up /\ mem' = mem /\ lock' = lock /\ mon' = mon /\ Same /\ severe' = severe
  BY DEF Snapshot, Process, Same
<1> HIDE DEF new
<1>6. QED BY <1>2, <1>3, <1>4, <1>5, WriteOutside

LEMMA ReadStatsKind ==
    ASSUME TypeOK, TimeInv, NEW ok \in BOOLEAN, ReadStats(ok)
    PROVE  TypeOK' /\ Outside
<1>1. main.pc = "stats" /\ main' \in MainState /\ main'.pc \in {"saving", "idle"}
  <2>0. main.pc = "stats"
    BY DEF ReadStats
  <2>1. main' = [MainIdle EXCEPT !.pc = IF ok THEN "saving" ELSE "idle"]
    BY DEF ReadStats
  <2>2. CASE ok
    <3>1. main' = [MainIdle EXCEPT !.pc = "saving"]
      BY <2>1, <2>2
    <3>2. main' \in MainState /\ main'.pc = "saving"
      BY <3>1, Idle, MainAt
    <3>3. QED BY <2>0, <3>2
  <2>3. CASE ~ok
    <3>1. main' = [MainIdle EXCEPT !.pc = "idle"]
      BY <2>1, <2>3
    <3>2. main' \in MainState /\ main'.pc = "idle"
      BY <3>1, Idle, MainAt
    <3>3. QED BY <2>0, <3>2
  <2>4. QED BY <2>2, <2>3
<1>2. up /\ mem' = mem /\ lock' = lock /\ mon' = mon /\ Same /\ severe' = severe
  BY DEF ReadStats, Process, Same
<1>3. CASE ok
  <2>1. Begin /\ db' = db /\ txn' = txn /\ mishaps' = mishaps
    BY <1>3 DEF ReadStats
  <2>2. began' = Now /\ began' \in Int
    BY <2>1, BeginDoes
  <2>3. TypeOK'
    BY <1>1, <1>2, <2>1, <2>2, OutsideTypes DEF TypeOK, Same
  <2>4. QED BY <1>1, <1>2, <2>1, <2>2, <2>3 DEF Outside, TypeOK
<1>4. CASE ~ok
  <2>1. Rollback
    BY <1>4 DEF ReadStats
  <2>2. /\ db' = db /\ txn' = db /\ began' = Never /\ mishaps' = mishaps + 1 /\ mishaps' \in Nat
        /\ ~Calm' /\ mishaps' >= mishaps
    BY <2>1, RollbackDoes, Failed DEF TypeOK
  <2>3. TypeOK'
    BY <1>1, <1>2, <2>2, OutsideTypes DEF TypeOK, Same, Never
  <2>4. QED BY <1>1, <1>2, <2>2, <2>3 DEF Outside, TypeOK
<1>5. QED BY <1>3, <1>4

(* The runner's locked section. *)
LEMMA EnterStartKind ==
    ASSUME TypeOK, TimeInv, EnterStart
    PROVE  TypeOK' /\ Starts
<1>1. up /\ lock = "free" /\ main \in MainState /\ mem' = Rollover(mem, txn)
  BY DEF EnterStart, TypeOK
<1>2. Same /\ Quiet /\ mon' = mon /\ severe' = severe
  BY DEF EnterStart, Same, Quiet, Process
<1>3. began' \in Int /\ (began' = Now \/ began' = began)
  <2>1. CASE mem.day = Today
    BY <2>1 DEF EnterStart, TypeOK
  <2>2. CASE mem.day # Today
    BY <2>2, BeginDoes DEF EnterStart
  <2>3. QED BY <2>1, <2>2
<1>4. /\ mem' \in Engine
      /\ mem'.open = mem.open /\ mem'.balance = mem.balance /\ mem'.halt = mem.halt
      /\ mem'.daily = mem.daily \/ mem'.daily = LossSince(txn.row, Day)
  BY <1>1, RolloverType
<1>5. /\ main' \in MainState
      /\ \/ mem.halt /\ lock' = "free" /\ main'.pc = "expiring"
         \/ ~mem.halt /\ lock' = "main" /\ main'.pc = "entering"
  <2>1. CASE mem.halt
    <3>1. lock' = lock /\ main' = [MainIdle EXCEPT !.pc = "expiring"]
      BY <2>1 DEF EnterStart
    <3>2. QED BY <1>1, <2>1, <3>1, Idle, MainAt
  <2>2. CASE ~mem.halt
    <3>1. lock' = "main" /\ main' = [main EXCEPT !.pc = "entering"]
      BY <2>2 DEF EnterStart
    <3>2. QED BY <1>1, <2>2, <3>1, MainAt
  <2>3. QED BY <2>1, <2>2
<1>6. TypeOK'
  BY <1>2, <1>3, <1>4, <1>5 DEF TypeOK, Same, Quiet
<1>7. QED BY <1>1, <1>2, <1>3, <1>4, <1>5, <1>6 DEF Starts

LEMMA PassesKind ==
    ASSUME TypeOK, Locks, NEW s \in Setups,
           EnterSkip(s) \/ EnterBreak(s) \/ EnterReject(s)
    PROVE  TypeOK' /\ Passes
<1>1. up /\ main.pc = "entering" /\ lock = "main" /\ main \in MainState /\ mem \in Engine
  BY DEF EnterSkip, EnterBreak, EnterReject, Locks, TypeOK
<1>2. Same /\ Quiet /\ began' = began /\ mon' = mon /\ severe' = severe
  BY DEF EnterSkip, EnterBreak, EnterReject, Same, Quiet, Process, Tables
<1>3. mem' = mem \/ mem' = AfterStreak(mem)
  BY DEF EnterSkip, EnterBreak, EnterReject
<1>4. /\ mem' \in Engine /\ mem'.open = mem.open /\ mem'.balance = mem.balance
      /\ mem'.halt = mem.halt /\ mem'.daily = mem.daily
  BY <1>1, <1>3, AfterStreakType
<1>5. /\ main' \in MainState
      /\ \/ lock' = "free" /\ main'.pc = "expiring"
         \/ lock' = "main" /\ main'.pc = "entering"
  <2>1. ASSUME EnterSkip(s) \/ EnterReject(s)
        PROVE  main' \in MainState /\ lock' = "main" /\ main'.pc = "entering"
    <3>1. main' = [main EXCEPT !.todo = main.todo \ {s}] /\ lock' = lock
      BY <2>1 DEF EnterSkip, EnterReject
    <3>2. main.todo \ {s} \in SUBSET Setups
      BY <1>1 DEF MainState
    <3> DEFINE t == main.todo \ {s}
    <3>3. [main EXCEPT !.todo = t] \in MainState /\ [main EXCEPT !.todo = t].pc = main.pc
      <4> HIDE DEF t
      <4>1. t \in SUBSET Setups
        BY <3>2 DEF t
      <4>2. QED BY <1>1, <4>1 DEF MainState
    <3>4. QED BY <1>1, <3>1, <3>3
  <2>2. ASSUME EnterBreak(s) 
        PROVE  main' \in MainState /\ lock' = "free" /\ main'.pc = "expiring"
    <3>1. lock' = "free" /\ main' = [MainIdle EXCEPT !.pc = "expiring"]
      BY <2>2 DEF EnterBreak, Leave
    <3>2. QED BY <3>1, Idle, MainAt
  <2>3. QED BY <2>1, <2>2
<1>6. TypeOK'
  BY <1>2, <1>4, <1>5 DEF TypeOK, Same, Quiet
<1>7. QED BY <1>1, <1>2, <1>4, <1>5, <1>6 DEF Passes

LEMMA EndKind ==
    ASSUME TypeOK, Locks, EnterEnd
    PROVE  TypeOK' /\ Passes
<1>1. /\ up /\ main.pc = "entering" /\ lock = "main"
      /\ Same /\ Quiet /\ began' = began /\ mem' = mem /\ mon' = mon /\ severe' = severe
  BY DEF EnterEnd, Locks, Same, Quiet, Process, Tables
<1>2. lock' = "free" /\ main' = [MainIdle EXCEPT !.pc = "expiring"]
  BY DEF EnterEnd, Leave
<1>3. main' \in MainState /\ main'.pc = "expiring"
  BY <1>2, Idle, MainAt
<1>4. TypeOK'
  BY <1>1, <1>2, <1>3 DEF TypeOK, Same, Quiet
<1>5. QED BY <1>1, <1>2, <1>3, <1>4 DEF Passes

LEMMA OpenKind ==
    ASSUME TypeOK, TimeInv, Locks, NEW s \in Setups, NEW e \in Endings, EnterOpen(s, e)
    PROVE  TypeOK' /\ (Opens(s) \/ OpenFails(s))
<1>1. Allowed(s)
  BY DEF EnterOpen, Allowed, Locks
<1>2. Same /\ mon' = mon /\ severe' = severe /\ main \in MainState
  BY DEF EnterOpen, Same, Process, TypeOK
<1> DEFINE new == Inserted(txn, s)
           m == AfterStreak(mem)
<1>3. new \in Database /\ new.row[s].status = "OPEN"
      /\ \A q \in Setups \ {s} : new.row[q] = txn.row[q]
  BY InsertedType
<1>4. /\ m \in Engine /\ m.open = mem.open /\ m.balance = mem.balance /\ m.daily = mem.daily
      /\ m.halt = mem.halt
  BY AfterStreakType
<1>5. Execute(e, new)
  BY DEF EnterOpen
<1> HIDE DEF new
<1>6. /\ db' = txn' /\ began' = Never /\ mishaps' \in Nat
      /\ txn' = new \/ txn' = db
      /\ e = "ok" => txn' = new /\ mishaps' = mishaps
      /\ e # "ok" => mishaps' = mishaps + 1 /\ e \in Mishaps
  BY <1>5, ExecuteDoes
<1>7. /\ txn' \in Database /\ db' \in Database /\ began' \in Int
      /\ txn' = new => Adds(s)
  BY <1>3, <1>6 DEF TypeOK, Never, Adds
<1>8. CASE e = "ok"
  <2>1. /\ mem' = [m EXCEPT !.balance = m.balance - Cost, !.open = Append(m.open, s)]
        /\ main' = [main EXCEPT !.todo = main.todo \ {s}] /\ lock' = lock
    BY <1>8 DEF EnterOpen, Cost
  <2> DEFINE b == m.balance - Cost
             o == Append(m.open, s)
  <2>2. b \in Int /\ o \in Seq(Setups)
    BY <1>4, Constants DEF Engine, Cost
  <2>3. b = mem.balance - Cost /\ o = Append(mem.open, s)
    BY <1>4
  <2>4. mem' = [m EXCEPT !.balance = b, !.open = o]
    BY <2>1
  <2> HIDE DEF b, o, m
  <2>5. /\ mem' \in Engine /\ mem'.balance = b /\ mem'.open = o
        /\ mem'.daily = m.daily /\ mem'.halt = m.halt
    BY <1>4, <2>2, <2>4 DEF Engine
  <2>6. main.todo \ {s} \in SUBSET Setups
    BY <1>2 DEF MainState
  <2>7. main' \in MainState /\ main'.pc = "entering" /\ lock' = "main"
    BY <1>1, <1>2, <2>1, <2>6, MainUpdates DEF Allowed
  <2>8. TypeOK'
    BY <1>2, <1>6, <1>7, <2>5, <2>7 DEF TypeOK, Same
  <2>9. Opens(s)
    BY <1>1, <1>2, <1>4, <1>6, <1>7, <1>8, <2>3, <2>5, <2>7 DEF Opens
  <2>10. QED BY <2>8, <2>9
<1>9. CASE e # "ok"
  <2>1. mem' = m /\ lock' = "free" /\ main' = [MainIdle EXCEPT !.pc = "failed"]
    BY <1>9 DEF EnterOpen, Leave
  <2>2. main' \in MainState /\ main'.pc = "failed"
    BY <2>1, Idle, MainUpdates
  <2>3. ~Calm' /\ mishaps' # 0
    BY <1>6, <1>9, Failed DEF Endings
  <2> HIDE DEF m
  <2>4. TypeOK'
    BY <1>2, <1>4, <1>6, <1>7, <2>1, <2>2 DEF TypeOK, Same
  <2>5. OpenFails(s)
    BY <1>1, <1>2, <1>4, <1>6, <1>7, <2>1, <2>2, <2>3 DEF OpenFails
  <2>6. QED BY <2>4, <2>5
<1>10. QED BY <1>8, <1>9

(* The monitor's actions. *)
LEMMA LooksKind ==
    ASSUME TypeOK, Locks, Fetch \/ CheckStart
    PROVE  TypeOK' /\ Looks
<1>1. /\ up /\ mem \in Engine /\ mon \in MonitorState /\ mem.open \in Seq(Setups)
      /\ mon.pc \in {"idle", "fetched"} /\ mon.todo = <<>> /\ mon.gone = {}
  BY DEF Fetch, CheckStart, Locks, InSection, TypeOK, Engine
<1>2. /\ Same /\ Quiet /\ began' = began /\ mem' = mem /\ severe' = severe /\ main' = main
  BY DEF Fetch, CheckStart, Same, Quiet, Process, Tables
<1>3. CASE Fetch
  <2>1. PICK P \in (SUBSET {SymOf[s] : s \in Members(mem.open)}) \ {{}} :
           mon' = [MonitorIdle EXCEPT !.pc = "fetched", !.seen = P]
    BY <1>3 DEF Fetch
  <2>2. P \in SUBSET Symbols
    BY <1>1 DEF Members, Symbols
  <2> DEFINE p == "fetched"
  <2>3. p \in {"idle", "fetched", "checking", "closing", "gap"}
        /\ mon' = [MonitorIdle EXCEPT !.pc = p, !.seen = P]
    BY <2>1
  <2> HIDE DEF p
  <2>4. mon' \in MonitorState /\ mon'.pc = p /\ mon'.todo = <<>> /\ mon'.gone = {}
    BY <2>2, <2>3, Idle DEF MonitorState
  <2>5. lock' = lock
    BY <1>3 DEF Fetch
  <2>6. TypeOK'
    BY <1>2, <2>4, <2>5 DEF TypeOK, Same, Quiet
  <2>7. QED BY <1>1, <1>2, <2>4, <2>5, <2>6 DEF Looks, p
<1>4. CASE CheckStart
  <2> DEFINE p == "checking"
             q == mem.open
  <2>1. p \in {"idle", "fetched", "checking", "closing", "gap"} /\ q \in Seq(Setups)
        /\ mon' = [mon EXCEPT !.pc = p, !.todo = q]
    BY <1>1, <1>4 DEF CheckStart
  <2> HIDE DEF p, q
  <2>2. mon' \in MonitorState /\ mon'.pc = p /\ mon'.todo = q /\ mon'.gone = {}
    BY <1>1, <2>1 DEF MonitorState
  <2>3. lock = "free" /\ lock' = "monitor"
    BY <1>4 DEF CheckStart
  <2>4. TypeOK'
    BY <1>2, <2>2, <2>3 DEF TypeOK, Same, Quiet
  <2>5. QED BY <1>1, <1>2, <2>2, <2>3, <2>4 DEF Looks, p, q
<1>5. QED BY <1>3, <1>4

LEMMA HoldsKind ==
    ASSUME TypeOK, Locks, Hold
    PROVE  TypeOK' /\ Holds
<1>1. /\ up /\ mon.pc = "checking" /\ mon.todo # <<>> /\ lock = "monitor" /\ mon \in MonitorState
  BY DEF Hold, Checking, Locks, InSection, TypeOK
<1>2. /\ Same /\ Quiet /\ began' = began /\ mem' = mem /\ severe' = severe /\ main' = main
      /\ lock' = lock
  BY DEF Hold, Same, Quiet, Process, Tables
<1> DEFINE t == Tail(mon.todo)
<1>3. t \in Seq(Setups)
  BY <1>1, HeadDone
<1>4. mon' = [mon EXCEPT !.todo = t]
  BY DEF Hold
<1> HIDE DEF t
<1>5. mon' \in MonitorState /\ mon'.pc = mon.pc /\ mon'.todo = t /\ mon'.gone = mon.gone
  BY <1>1, <1>3, <1>4 DEF MonitorState
<1>6. TypeOK'
  BY <1>2, <1>5 DEF TypeOK, Same, Quiet
<1>7. QED BY <1>1, <1>2, <1>5, <1>6 DEF Holds, Busy, t

LEMMA AbortType ==
    ASSUME Abort
    PROVE  /\ lock' = "free" /\ mon' \in MonitorState
           /\ mon'.pc = "idle" /\ mon'.todo = <<>> /\ mon'.gone = {}
BY Idle DEF Abort

LEMMA ClosesKind ==
    ASSUME TypeOK, TimeInv, Locks, NEW r \in Results, NEW gap \in Gaps, Exit(r, gap)
    PROVE  TypeOK' /\ Closes(r)
<1>1. /\ up /\ mon.pc = "checking" /\ mon.todo # <<>> /\ lock = "monitor" /\ mon \in MonitorState
      /\ r \in Int
  BY Constants DEF Exit, Checking, Locks, InSection, TypeOK
<1>2. /\ Same /\ db' = db /\ severe' = severe /\ main' = main /\ lock' = lock /\ mishaps' = mishaps
  BY DEF Exit, Same, Process
<1>3. mem' \in Engine /\ Accounts(r)
  BY <1>1, BookedType DEF Exit, Accounts
<1>4. began' = Now /\ began' \in Int
  BY BeginDoes DEF Exit
<1>5. Head(mon.todo) \in Setups
  BY <1>1, HeadDone
<1>6. /\ txn' \in Database
      /\ \A q \in Setups \ {Head(mon.todo)} : txn'.row[q] = txn.row[q]
      /\ txn'.row[Head(mon.todo)].status = "CLOSED" /\ txn'.row[Head(mon.todo)].pnl = Net(r)
  <2>1. txn' = WithClosed(txn, Head(mon.todo), r)
    BY DEF Exit
  <2>2. QED BY <1>1, <1>5, <2>1, ClosedType
<1> DEFINE p == "closing"
<1>7. mon' = [mon EXCEPT !.pc = p, !.gap = gap] /\ p \in {"idle", "fetched", "checking", "closing", "gap"}
  BY DEF Exit
<1> HIDE DEF p
<1>8. mon' \in MonitorState /\ mon'.pc = p /\ mon'.todo = mon.todo /\ mon'.gone = mon.gone
  BY <1>1, <1>7 DEF MonitorState
<1>9. TypeOK'
  BY <1>2, <1>3, <1>4, <1>6, <1>8 DEF TypeOK, Same
<1>10. QED BY <1>1, <1>2, <1>3, <1>4, <1>6, <1>8, <1>9 DEF Closes, Busy, p

LEMMA CloseFailsKind ==
    ASSUME TypeOK, TimeInv, Locks, NEW r \in Results, ExitFails(r)
    PROVE  TypeOK' /\ CloseFails(r)
<1>1. up /\ lock = "monitor" /\ r \in Int
  BY Constants DEF ExitFails, Checking, Locks, InSection, TypeOK
<1>2. Same /\ severe' = severe /\ main' = main
  BY DEF ExitFails, Same, Process
<1>3. mem' \in Engine /\ Accounts(r)
  BY <1>1, BookedType DEF ExitFails, Accounts
<1>4. /\ db' = db /\ txn' = db /\ began' = Never /\ mishaps' = mishaps + 1 /\ mishaps' \in Nat
      /\ "fault" \in Mishaps
  BY RollbackDoes DEF ExitFails
<1>5. ~Calm' /\ mishaps' # 0
  BY <1>4, Failed
<1>6. /\ lock' = "free" /\ mon' \in MonitorState
      /\ mon'.pc = "idle" /\ mon'.todo = <<>> /\ mon'.gone = {}
  BY AbortType DEF ExitFails
<1>7. TypeOK'
  BY <1>2, <1>3, <1>4, <1>6 DEF TypeOK, Same, Never
<1>8. QED BY <1>1, <1>2, <1>3, <1>4, <1>5, <1>6, <1>7 DEF CloseFails, Busy

(* The position at the head of the list is struck off. *)
LEMMA StrikesType ==
    ASSUME mon \in MonitorState, mon.todo # <<>>, NEW h \in Gaps,
           \/ mon' = [mon EXCEPT !.pc = "checking", !.gap = h, !.todo = Tail(mon.todo),
                                 !.gone = mon.gone \union {Head(mon.todo)}]
           \/ mon' = [mon EXCEPT !.pc = "checking", !.todo = Tail(mon.todo),
                                 !.gone = mon.gone \union {Head(mon.todo)}]
    PROVE  mon' \in MonitorState /\ Strikes
<1> DEFINE p == "checking"
           t == Tail(mon.todo)
           g == mon.gone \union {Head(mon.todo)}
<1>1. p \in {"idle", "fetched", "checking", "closing", "gap"} /\ t \in Seq(Setups)
      /\ g \in SUBSET Setups
  BY HeadDone
<1>2. \/ mon' = [mon EXCEPT !.pc = p, !.gap = h, !.todo = t, !.gone = g]
      \/ mon' = [mon EXCEPT !.pc = p, !.todo = t, !.gone = g]
  OBVIOUS
<1> HIDE DEF p, t, g
<1>3. mon' \in MonitorState /\ mon'.pc = p /\ mon'.todo = t /\ mon'.gone = g
  BY <1>1, <1>2 DEF MonitorState
<1>4. QED BY <1>3 DEF Strikes, p, t, g

LEMMA CommitsKind ==
    ASSUME TypeOK, TimeInv, Locks, NEW e \in Endings, CommitClose(e)
    PROVE  TypeOK' /\ Commits
<1>1. /\ up /\ mon.pc = "closing" /\ mon.todo # <<>> /\ lock = "monitor" /\ mon \in MonitorState
      /\ mon.gap \in Gaps
  BY DEF CommitClose, Locks, InSection, TypeOK, MonitorState
<1>2. Same /\ severe' = severe /\ main' = main /\ mem' = mem
  BY DEF CommitClose, Same, Process
<1>3. Execute(e, txn)
  BY DEF CommitClose
<1>4. /\ db' = txn' /\ began' = Never /\ mishaps' \in Nat
      /\ txn' = txn \/ txn' = db
      /\ e = "ok" => txn' = txn /\ mishaps' = mishaps
      /\ e # "ok" => mishaps' = mishaps + 1 /\ e \in Mishaps
  BY <1>3, ExecuteDoes
<1>5. txn' \in Database /\ db' \in Database /\ began' \in Int
  BY <1>4 DEF TypeOK, Never
<1>6. CASE e # "ok"
  <2>1. ~Calm' /\ mishaps' # 0
    BY <1>4, <1>6, Failed DEF Endings
  <2>2. /\ lock' = "free" /\ mon' \in MonitorState
        /\ mon'.pc = "idle" /\ mon'.todo = <<>> /\ mon'.gone = {}
    BY <1>6, AbortType DEF CommitClose
  <2>3. TypeOK'
    BY <1>2, <1>4, <1>5, <2>2 DEF TypeOK, Same
  <2>4. QED BY <1>1, <1>2, <1>4, <2>1, <2>2, <2>3 DEF Commits, Busy
<1>7. CASE e = "ok"
  <2>1. /\ lock' = lock
        /\ mon' = IF mon.gap # "none" THEN [mon EXCEPT !.pc = "gap"]
                  ELSE [mon EXCEPT !.pc = "checking", !.todo = Tail(mon.todo),
                                   !.gone = mon.gone \union {Head(mon.todo)}]
    BY <1>7 DEF CommitClose
  <2>2. /\ mon' \in MonitorState
        /\ \/ mon'.pc = "gap" /\ mon'.todo = mon.todo /\ mon'.gone = mon.gone
           \/ Strikes
    <3>1. CASE mon.gap # "none"
      <4> DEFINE p == "gap"
      <4>1. mon' = [mon EXCEPT !.pc = p] /\ p \in {"idle", "fetched", "checking", "closing", "gap"}
        BY <2>1, <3>1
      <4> HIDE DEF p
      <4>2. mon' \in MonitorState /\ mon'.pc = p /\ mon'.todo = mon.todo /\ mon'.gone = mon.gone
        BY <1>1, <4>1 DEF MonitorState
      <4>3. QED BY <4>2 DEF p
    <3>2. CASE mon.gap = "none"
      BY <1>1, <2>1, <3>2, StrikesType
    <3>3. QED BY <3>1, <3>2
  <2>3. TypeOK'
    BY <1>1, <1>2, <1>4, <1>5, <2>1, <2>2 DEF TypeOK, Same
  <2>4. QED BY <1>1, <1>2, <1>4, <1>7, <2>1, <2>2, <2>3 DEF Commits, Busy
<1>8. QED BY <1>6, <1>7

LEMMA RecordsKind ==
    ASSUME TypeOK, TimeInv, Locks, NEW ok \in BOOLEAN, RecordGap(ok)
    PROVE  TypeOK' /\ Records
<1>1. /\ up /\ mon.pc = "gap" /\ mon.todo # <<>> /\ lock = "monitor" /\ mon \in MonitorState
      /\ mem \in Engine /\ txn \in Database /\ severe \in BOOLEAN
  BY DEF RecordGap, Locks, InSection, TypeOK
<1>2. Same /\ main' = main /\ lock' = lock
  BY DEF RecordGap, Same, Process
<1> DEFINE hard == mon.gap = "severe"
           halt == mem.halt \/ hard
           gate == txn.gate \/ hard
<1>3. /\ mem' = [mem EXCEPT !.halt = halt] /\ severe' = (severe \/ hard)
      /\ mon' = [mon EXCEPT !.pc = "checking", !.gap = "none", !.todo = Tail(mon.todo),
                            !.gone = mon.gone \union {Head(mon.todo)}]
  BY DEF RecordGap
<1>4. ok => txn' = [txn EXCEPT !.gate = gate] /\ Begin /\ db' = db /\ mishaps' = mishaps
  BY DEF RecordGap
<1>5. ~ok => Rollback
  BY DEF RecordGap
<1>6. halt \in BOOLEAN /\ gate \in BOOLEAN /\ severe' \in BOOLEAN /\ (severe' => severe \/ halt)
      /\ (mem.halt => halt)
  BY <1>3
<1> HIDE DEF hard, halt, gate
<1>7. /\ mem' \in Engine /\ mem'.open = mem.open /\ mem'.balance = mem.balance
      /\ mem'.daily = mem.daily /\ mem'.halt = halt
  BY <1>1, <1>3, <1>6 DEF Engine
<1>8. mon' \in MonitorState /\ Strikes
  BY <1>1, <1>3, StrikesType DEF Gaps
<1>9. CASE ok
  <2>1. txn' \in Database /\ txn'.row = txn.row
    BY <1>1, <1>4, <1>6, <1>9 DEF Database
  <2>2. began' = Now /\ began' \in Int /\ db' = db /\ mishaps' = mishaps
    BY <1>4, <1>9, BeginDoes
  <2>3. TypeOK'
    BY <1>2, <1>6, <1>7, <1>8, <2>1, <2>2 DEF TypeOK, Same
  <2>4. QED BY <1>1, <1>2, <1>6, <1>7, <1>8, <2>1, <2>2, <2>3 DEF Records, Busy
<1>10. CASE ~ok
  <2>1. /\ db' = db /\ txn' = db /\ began' = Never /\ mishaps' = mishaps + 1 /\ mishaps' \in Nat
        /\ "fault" \in Mishaps
    BY <1>5, <1>10, RollbackDoes
  <2>2. ~Calm' /\ mishaps' # 0
    BY <2>1, Failed
  <2>3. TypeOK'
    BY <1>2, <1>6, <1>7, <1>8, <2>1 DEF TypeOK, Same, Never
  <2>4. QED BY <1>1, <1>2, <1>6, <1>7, <1>8, <2>1, <2>2, <2>3 DEF Records, Busy
<1>11. QED BY <1>9, <1>10

LEMMA SeqOfFunction ==
    ASSUME NEW n \in Nat, NEW T \in SUBSET Setups, NEW q \in [1 .. n -> T]
    PROVE  q \in Seq(Setups) /\ Len(q) = n /\ DOMAIN q = 1 .. n
<1>1. q \in [1 .. n -> Setups]
  OBVIOUS
<1>2. q \in Seq(Setups)
  BY <1>1
<1>3. DOMAIN q = 1 .. Len(q) /\ Len(q) \in Nat /\ DOMAIN q = 1 .. n
  BY <1>2
<1>4. Len(q) = n
  BY <1>3
<1>5. QED BY <1>2, <1>3, <1>4

LEMMA MembersType ==
    ASSUME NEW q \in Seq(Setups)
    PROVE  Members(q) \in SUBSET Setups
BY DEF Members

LEMMA WithoutType ==
    ASSUME NEW q \in Seq(Setups), NEW gone, NEW t \in Without(q, gone)
    PROVE  /\ t \in Seq(Setups) /\ Len(t) = Cardinality(Members(q) \ gone)
           /\ Len(t) \in Nat
           /\ t \in [1 .. Len(t) -> Members(q) \ gone]
<1> DEFINE left == Members(q) \ gone
           n == Cardinality(left)
<1>1. left \in SUBSET Setups
  BY MembersType
<1>2. n \in Nat
  BY <1>1, Constants, FS_Subset, FS_CardinalityType
<1>3. t \in [1 .. n -> left]
  BY DEF Without
<1> HIDE DEF left, n
<1>4. t \in Seq(Setups) /\ Len(t) = n
  BY <1>1, <1>2, <1>3, SeqOfFunction
<1>5. QED BY <1>2, <1>3, <1>4 DEF left, n

LEMMA LoadOpenType ==
    ASSUME NEW d \in Database, NEW q \in LoadOpen(d)
    PROVE  /\ q \in Seq(Setups) /\ Len(q) = Cardinality({SymOf[s] : s \in Opened(d)})
           /\ Len(q) \in Nat
           /\ q \in [1 .. Len(q) -> Opened(d)]
           /\ Opened(d) \in SUBSET Setups
           /\ IsFiniteSet({SymOf[s] : s \in Opened(d)})
           /\ Len(q) <= Cardinality(Opened(d))
<1> DEFINE syms == {SymOf[s] : s \in Opened(d)}
           n == Cardinality(syms)
           f == [s \in Opened(d) |-> SymOf[s]]
<1>1. Opened(d) \in SUBSET Setups
  BY DEF Opened
<1>2. IsFiniteSet(Opened(d))
  BY <1>1, Constants, FS_Subset
<1>3. f \in Surjection(Opened(d), syms)
  BY DEF Surjection
<1>4. IsFiniteSet(syms) /\ n <= Cardinality(Opened(d)) /\ n \in Nat
  <2> HIDE DEF f, syms
  <2>1. IsFiniteSet(syms) /\ Cardinality(syms) <= Cardinality(Opened(d))
    BY <1>2, <1>3, FS_Surjection
  <2>2. QED BY <2>1, FS_CardinalityType
<1>5. q \in [1 .. n -> Opened(d)]
  BY DEF LoadOpen
<1> HIDE DEF syms, n, f
<1>6. q \in Seq(Setups) /\ Len(q) = n
  BY <1>1, <1>4, <1>5, SeqOfFunction
<1>7. QED BY <1>1, <1>4, <1>5, <1>6 DEF syms, n

LEMMA ProductIsInt ==
    ASSUME NEW m \in Int, NEW n \in Int
    PROVE  m * n \in Int
OBVIOUS

LEMMA LoadBalanceType ==
    ASSUME NEW d \in Database
    PROVE  LoadBalance(d) \in Int
<1>1. d.balance \in Int /\ d.row \in RowsType
  BY DatabaseFields
<1>2. ASSUME Opened(d) # {}
      PROVE  \E s \in Opened(d) : \A q \in Opened(d) : d.row[s].entered <= d.row[q].entered
  <2> DEFINE T == {d.row[s].entered : s \in Opened(d)}
  <2>0. \A s \in Opened(d) : d.row[s].entered \in Nat
    BY <1>1 DEF Opened, RowsType, Row
  <2>1. T \subseteq Nat /\ T # {}
    BY <1>2, <2>0
  <2> HIDE DEF T
  <2>2. PICK m \in T : \A k \in T : m <= k
    BY <2>1, NatMin
  <2>3. QED BY <2>2 DEF T
<1> DEFINE first == CHOOSE s \in Opened(d) : \A q \in Opened(d) : d.row[s].entered <= d.row[q].entered
<1>3. Opened(d) # {} => first \in Opened(d)
  BY <1>2
<1>4. Opened(d) # {} => d.row[first].before \in Int
  <2> HIDE DEF first
  <2>1. QED BY <1>1, <1>3 DEF Opened, RowsType, Row
<1>5. Cardinality(Opened(d)) \in Int
  <2>1. Opened(d) \in SUBSET Setups
    BY DEF Opened
  <2>2. QED BY <2>1, Constants, FS_Subset, FS_CardinalityType
<1> DEFINE a == d.row[first].before
           b == Fee * Cardinality(Opened(d))
<1>6. b \in Int
  <2>1. Fee \in Int
    BY Constants
  <2>2. QED BY <1>5, <2>1, ProductIsInt
<1>7. LoadBalance(d) = IF d.saved THEN d.balance
                       ELSE IF Opened(d) = {} THEN Initial ELSE a - b
  BY DEF LoadBalance
<1> HIDE DEF a, b
<1>8. Opened(d) # {} => a \in Int
  BY <1>4 DEF a
<1>9. QED BY <1>1, <1>6, <1>7, <1>8, Constants

LEMMA LoadedType ==
    ASSUME TypeOK, TimeInv, NEW d \in Database, NEW q \in Seq(Setups)
    PROVE  /\ Loaded(d, q) \in Engine /\ Loaded(d, q).open = q
           /\ Loaded(d, q).daily = LossSince(d.row, Day)
<1> DEFINE b == LoadBalance(d)
           h == d.gate
           m == [Fresh EXCEPT !.balance = b, !.open = q, !.halt = h]
<1>1. b \in Int /\ h \in BOOLEAN
  BY LoadBalanceType, DatabaseFields
<1>2. Fresh \in Engine
  <2>1. Today \in Nat /\ <<>> \in Seq(Setups)
    BY NowIsNat
  <2>2. QED BY <2>1, Constants DEF Fresh, Engine, Never
<1>3. Loaded(d, q) = LoadRisk(m, d)
  BY DEF Loaded
<1> HIDE DEF b, h
<1>4. m \in Engine /\ m.open = q
  BY <1>1, <1>2 DEF Engine
<1> HIDE DEF m
<1>5. QED BY <1>3, <1>4, LoadRiskType

LEMMA RemovesKind ==
    ASSUME TypeOK, Locks, CheckEnd
    PROVE  TypeOK' /\ Removes
<1>1. /\ up /\ mon.pc = "checking" /\ mon.todo = <<>> /\ lock = "monitor" /\ mem \in Engine
      /\ mem.open \in Seq(Setups)
  BY DEF CheckEnd, Locks, InSection, TypeOK, Engine
<1>2. Same /\ Quiet /\ began' = began /\ severe' = severe /\ main' = main
  BY DEF CheckEnd, Same, Quiet, Process, Tables
<1>3. PICK q \in Without(mem.open, mon.gone) : mem' = [mem EXCEPT !.open = q]
  BY DEF CheckEnd
<1>4. q \in Seq(Setups)
  BY <1>1, WithoutType
<1>5. /\ mem' \in Engine /\ mem'.open = q /\ mem'.balance = mem.balance
      /\ mem'.daily = mem.daily /\ mem'.halt = mem.halt
  BY <1>1, <1>3, <1>4 DEF Engine
<1>6. /\ lock' = "free" /\ mon' \in MonitorState
      /\ mon'.pc = "idle" /\ mon'.todo = <<>> /\ mon'.gone = {}
  BY Idle DEF CheckEnd
<1>7. TypeOK'
  BY <1>2, <1>5, <1>6 DEF TypeOK, Same, Quiet
<1>8. QED BY <1>1, <1>2, <1>3, <1>5, <1>6, <1>7 DEF Removes, Busy

LEMMA DiesKind ==
    ASSUME TypeOK, Crash
    PROVE  TypeOK' /\ Dies
<1>0. lock' = "free" /\ lock' \in {"free", "main", "monitor"}
  BY DEF Crash
<1>1. /\ up /\ ~up' /\ up' \in BOOLEAN /\ clock' = clock /\ mem' = mem /\ severe' = severe
      /\ main' = MainIdle /\ mon' = MonitorIdle
  BY DEF Crash
<1>2. /\ "crash" \in Mishaps /\ mishaps' = mishaps + 1 /\ mishaps' \in Nat /\ mishaps' # 0
  BY DEF Crash, Mishap, TypeOK
<1>3. db' = db /\ txn' = db /\ began' = Never
  BY DiscardDoes DEF Crash
<1>4. TypeOK'
  BY <1>0, <1>1, <1>2, <1>3, Idle DEF TypeOK, Never
<1>5. QED BY <1>0, <1>1, <1>2, <1>3, <1>4, Idle DEF Dies

LEMMA StartingKind ==
    ASSUME TypeOK, TimeInv, Restart
    PROVE  TypeOK' /\ Starting
<1>1. /\ ~up /\ up' = TRUE /\ clock' = clock /\ Quiet /\ severe' = severe
      /\ lock' = lock /\ main' = main /\ mon' = mon
  BY DEF Restart, Quiet
<1>2. PICK q \in LoadOpen(db) : mem' = Loaded(db, q)
  BY DEF Restart
<1>3. q \in Seq(Setups)
  BY <1>2, LoadOpenType DEF TypeOK
<1>4. mem' \in Engine /\ mem'.open = q /\ mem'.daily = LossSince(db.row, Day)
  BY <1>2, <1>3, LoadedType DEF TypeOK
<1>5. began' = Now /\ began' \in Int
  BY BeginDoes DEF Restart
<1>6. TypeOK'
  BY <1>1, <1>4, <1>5 DEF TypeOK, Quiet
<1>7. QED BY <1>1, <1>2, <1>4, <1>5, <1>6 DEF Starting

LEMMA TicksKind ==
    ASSUME TypeOK, Tick
    PROVE  TypeOK' /\ Ticks
BY DEF TypeOK, Tick, Ticks, Tables, Quiet

(* Every step is of one of these kinds, and keeps the types. *)
LEMMA StepKinds ==
    ASSUME TypeOK, TimeInv, Locks, Recovering, [Next]_vars
    PROVE  TypeOK' /\ Kinds
<1>1. CASE UNCHANGED vars
  BY <1>1 DEF vars, TypeOK, Kinds
<1>2. CASE Runner
  <2>1. ASSUME LoadSetups \/ LoadFails \/ EmergencyStop \/ RolloverFails \/ Reconnect
        PROVE  TypeOK' /\ Kinds
    BY <2>1, LoadSetupsKind, LoadFailsKind, ReconnectKind DEF Kinds
  <2>2. ASSUME NEW e \in Endings, ExpireSetups(e) \/ Snapshot(e) PROVE TypeOK' /\ Kinds
    BY <2>2, ExpireKind, SnapshotKind DEF Kinds
  <2>3. ASSUME NEW ok \in BOOLEAN, ReadStats(ok) PROVE TypeOK' /\ Kinds
    BY <2>3, ReadStatsKind DEF Kinds
  <2>4. ASSUME EnterStart PROVE TypeOK' /\ Kinds
    BY <2>4, EnterStartKind DEF Kinds
  <2>5. ASSUME NEW s \in Setups, EnterSkip(s) \/ EnterBreak(s) \/ EnterReject(s)
        PROVE  TypeOK' /\ Kinds
    BY <2>5, PassesKind DEF Kinds
  <2>6. ASSUME NEW s \in Setups, NEW e \in Endings, EnterOpen(s, e) PROVE TypeOK' /\ Kinds
    BY <2>6, OpenKind DEF Kinds
  <2>7. ASSUME EnterEnd PROVE TypeOK' /\ Kinds
    BY <2>7, EndKind DEF Kinds
  <2>8. QED BY <1>2, <2>1, <2>2, <2>3, <2>4, <2>5, <2>6, <2>7 DEF Runner
<1>3. CASE Monitor
  <2>1. ASSUME Fetch \/ CheckStart \/ Hold \/ CheckEnd PROVE TypeOK' /\ Kinds
    BY <2>1, LooksKind, HoldsKind, RemovesKind DEF Kinds
  <2>2. ASSUME NEW r \in Results, ExitFails(r) PROVE TypeOK' /\ Kinds
    BY <2>2, CloseFailsKind, Constants DEF Kinds
  <2>3. ASSUME NEW r \in Results, NEW gap \in Gaps, Exit(r, gap) PROVE TypeOK' /\ Kinds
    BY <2>3, ClosesKind, Constants DEF Kinds
  <2>4. ASSUME NEW e \in Endings, CommitClose(e) PROVE TypeOK' /\ Kinds
    BY <2>4, CommitsKind DEF Kinds
  <2>5. ASSUME NEW ok \in BOOLEAN, RecordGap(ok) PROVE TypeOK' /\ Kinds
    BY <2>5, RecordsKind DEF Kinds
  <2>6. QED BY <1>3, <2>1, <2>2, <2>3, <2>4, <2>5 DEF Monitor
<1>4. CASE Crash \/ Restart \/ Tick
  BY <1>4, DiesKind, StartingKind, TicksKind DEF Kinds
<1>5. QED BY <1>1, <1>2, <1>3, <1>4 DEF Next

-----------------------------------------------------------------------------
(* Every kind of step keeps every part of the invariant.                   *)

LEMMA MishapsGrow ==
    ASSUME TypeOK, Kinds
    PROVE  /\ Calm' => Calm
           /\ mishaps' = 0 => mishaps = 0
BY DEF TypeOK, Kinds, Calm, Outside, Starts, Passes, Opens, OpenFails, Looks, Holds, Closes, CloseFails,
       Commits, Records, Removes, Dies, Starting, Ticks, vars, Quiet, Busy

LEMMA TimeStep ==
    ASSUME TypeOK, TimeInv, Kinds
    PROVE  /\ TimeInv'
           /\ clock' = clock \/ clock' = clock + 1
           /\ began' = Never \/ began' = Now \/ began' = began
<1>1. clock' = clock \/ clock' = clock + 1
  BY DEF Kinds, Outside, Starts, Passes, Opens, OpenFails, Looks, Holds, Closes, CloseFails,
         Commits, Records, Removes, Dies, Starting, Ticks, vars, Same, Busy
<1>2. began' = Never \/ began' = Now \/ began' = began
  BY DEF Kinds, Outside, Starts, Passes, Opens, OpenFails, Looks, Holds, Closes, CloseFails,
         Commits, Records, Removes, Dies, Starting, Ticks, vars
<1>3. Now \in Nat /\ Now <= clock /\ clock \in Nat
  BY NowIsNat DEF TypeOK
<1>4. QED BY <1>1, <1>2, <1>3 DEF TimeInv, Never

LEMMA LocksStep ==
    ASSUME TypeOK, Locks, Kinds
    PROVE  Locks'
<1>1. CASE Outside
  BY <1>1 DEF Outside, Locks, InSection, Same, Quiet, Busy, Strikes
<1>2. CASE Starts
  BY <1>2 DEF Starts, Locks, InSection, Same, Quiet, Busy, Strikes
<1>3. CASE Passes
  BY <1>3 DEF Passes, Locks, InSection, Same, Quiet, Busy, Strikes
<1>4. ASSUME NEW s \in Setups, Opens(s) PROVE Locks'
  BY <1>4 DEF Opens, Allowed, Locks, InSection, Same
<1>5. ASSUME NEW s \in Setups, OpenFails(s) PROVE Locks'
  BY <1>5 DEF OpenFails, Allowed, Locks, InSection, Same
<1>6. CASE Looks
  BY <1>6 DEF Looks, Locks, InSection, Same, Quiet, Busy, Strikes
<1>7. CASE Holds
  BY <1>7 DEF Holds, Locks, InSection, Same, Quiet, Busy, Strikes
<1>8. ASSUME NEW r \in Int, Closes(r) PROVE Locks'
  BY <1>8 DEF Closes, Locks, InSection, Same, Busy
<1>9. ASSUME NEW r \in Int, CloseFails(r) PROVE Locks'
  BY <1>9 DEF CloseFails, Locks, InSection, Same, Quiet, Busy, Strikes
<1>10. CASE Commits
  BY <1>10 DEF Commits, Locks, InSection, Same, Quiet, Busy, Strikes
<1>11. CASE Records
  BY <1>11 DEF Records, Locks, InSection, Same, Quiet, Busy, Strikes
<1>12. CASE Removes
  BY <1>12 DEF Removes, Locks, InSection, Same, Quiet, Busy, Strikes
<1>13. CASE Dies
  BY <1>13 DEF Dies, Locks, InSection, Same, Quiet, Busy, Strikes
<1>14. CASE Starting
  BY <1>14 DEF Starting, Locks, InSection, Same, Quiet, Busy, Strikes
<1>15. CASE Ticks
  BY <1>15 DEF Ticks, Locks, InSection, Same, Quiet, Busy, Strikes
<1>16. CASE UNCHANGED vars
  BY <1>16 DEF vars, Locks, InSection, Same, Quiet, Busy, Strikes
<1>17. QED BY <1>1, <1>2, <1>3, <1>4, <1>5, <1>6, <1>7, <1>8, <1>9, <1>10, <1>11, <1>12, <1>13, <1>14, <1>15, <1>16 DEF Kinds

LEMMA RecoveringStep ==
    ASSUME TypeOK, Recovering, Kinds
    PROVE  Recovering'
<1>0. Calm' => Calm
  BY MishapsGrow
<1>1. CASE Outside
  BY <1>1, <1>0 DEF Outside, Recovering, Busy
<1>2. CASE Starts
  BY <1>2, <1>0 DEF Starts, Recovering, Busy
<1>3. CASE Passes
  BY <1>3, <1>0 DEF Passes, Recovering, Busy
<1>4. ASSUME NEW s \in Setups, Opens(s) PROVE Recovering'
  BY <1>4, <1>0 DEF Opens, Recovering, Busy
<1>5. ASSUME NEW s \in Setups, OpenFails(s) PROVE Recovering'
  BY <1>5, <1>0 DEF OpenFails, Recovering, Busy
<1>6. CASE Looks
  BY <1>6, <1>0 DEF Looks, Recovering, Busy
<1>7. CASE Holds
  BY <1>7, <1>0 DEF Holds, Recovering, Busy
<1>8. ASSUME NEW r \in Int, Closes(r) PROVE Recovering'
  BY <1>8, <1>0 DEF Closes, Recovering, Busy
<1>9. ASSUME NEW r \in Int, CloseFails(r) PROVE Recovering'
  BY <1>9, <1>0 DEF CloseFails, Recovering, Busy
<1>10. CASE Commits
  BY <1>10, <1>0 DEF Commits, Recovering, Busy
<1>11. CASE Records
  BY <1>11, <1>0 DEF Records, Recovering, Busy
<1>12. CASE Removes
  BY <1>12, <1>0 DEF Removes, Recovering, Busy
<1>13. CASE Dies
  BY <1>13, <1>0 DEF Dies, Recovering, Busy
<1>14. CASE Starting
  BY <1>14, <1>0 DEF Starting, Recovering, Busy
<1>15. CASE Ticks
  BY <1>15, <1>0 DEF Ticks, Recovering, Busy
<1>16. CASE UNCHANGED vars
  BY <1>16, <1>0 DEF vars, Recovering, Busy
<1>17. QED BY <1>1, <1>2, <1>3, <1>4, <1>5, <1>6, <1>7, <1>8, <1>9, <1>10, <1>11, <1>12, <1>13, <1>14, <1>15, <1>16 DEF Kinds

LEMMA HaltStep ==
    ASSUME TypeOK, Locks, HaltKnown, Kinds
    PROVE  HaltKnown'
<1>1. CASE Outside
  BY <1>1 DEF Outside, HaltKnown, Locks, InSection, Busy, Same
<1>2. CASE Starts
  BY <1>2 DEF Starts, HaltKnown, Locks, InSection, Busy, Same
<1>3. CASE Passes
  BY <1>3 DEF Passes, HaltKnown, Locks, InSection, Busy, Same
<1>4. ASSUME NEW s \in Setups, Opens(s) PROVE HaltKnown'
  BY <1>4 DEF Opens, Allowed, HaltKnown, Same
<1>5. ASSUME NEW s \in Setups, OpenFails(s) PROVE HaltKnown'
  BY <1>5 DEF OpenFails, Allowed, HaltKnown, Same
<1>6. CASE Looks
  BY <1>6 DEF Looks, HaltKnown, Locks, InSection, Busy, Same
<1>7. CASE Holds
  BY <1>7 DEF Holds, HaltKnown, Locks, InSection, Busy, Same
<1>8. ASSUME NEW r \in Int, Closes(r) PROVE HaltKnown'
  BY <1>8 DEF Closes, Accounts, HaltKnown, Busy, Same
<1>9. ASSUME NEW r \in Int, CloseFails(r) PROVE HaltKnown'
  BY <1>9 DEF CloseFails, Accounts, HaltKnown, Busy, Same
<1>10. CASE Commits
  BY <1>10 DEF Commits, HaltKnown, Locks, InSection, Busy, Same
<1>11. CASE Records
  BY <1>11 DEF Records, HaltKnown, Locks, InSection, Busy, Same
<1>12. CASE Removes
  BY <1>12 DEF Removes, HaltKnown, Locks, InSection, Busy, Same
<1>13. CASE Dies
  BY <1>13 DEF Dies, HaltKnown, Locks, InSection, Busy, Same
<1>14. CASE Starting
  BY <1>14 DEF Starting, HaltKnown, Locks, InSection, Busy, Same
<1>15. CASE Ticks
  BY <1>15 DEF Ticks, HaltKnown, Locks, InSection, Busy, Same
<1>16. CASE UNCHANGED vars
  BY <1>16 DEF vars, HaltKnown, Locks, InSection, Busy, Same
<1>17. QED BY <1>1, <1>2, <1>3, <1>4, <1>5, <1>6, <1>7, <1>8, <1>9, <1>10, <1>11, <1>12, <1>13, <1>14, <1>15, <1>16 DEF Kinds

LEMMA MembersOfAppend ==
    ASSUME NEW q \in Seq(Setups), NEW s \in Setups
    PROVE  /\ Members(Append(q, s)) = Members(q) \union {s}
           /\ Len(Append(q, s)) = Len(q) + 1
<1> DEFINE t == Append(q, s)
<1>1. /\ t \in Seq(Setups) /\ Len(t) = Len(q) + 1 /\ Len(q) \in Nat
      /\ \A i \in 1 .. Len(q) : t[i] = q[i]
      /\ t[Len(q) + 1] = s
  OBVIOUS
<1>2. DOMAIN q = 1 .. Len(q) /\ DOMAIN t = 1 .. (Len(q) + 1)
  BY <1>1
<1> HIDE DEF t
<1>3. \A x \in Members(t) : x \in Members(q) \union {s}
  BY <1>1, <1>2 DEF Members
<1>4. \A x \in Members(q) : x \in Members(t)
  BY <1>1, <1>2 DEF Members
<1>5. s \in Members(t)
  BY <1>1, <1>2 DEF Members
<1>6. QED BY <1>1, <1>3, <1>4, <1>5 DEF t

LEMMA MembersOfFunction ==
    ASSUME NEW q \in Seq(Setups), NEW n, NEW T, q \in [1 .. n -> T]
    PROVE  Members(q) \subseteq T
BY DEF Members

LEMMA Fields ==
    ASSUME TypeOK
    PROVE  /\ mem.open \in Seq(Setups) /\ mem.daily \in Nat /\ mem.balance \in Int
           /\ mon.todo \in Seq(Setups) /\ mon.gone \in SUBSET Setups
           /\ db \in Database /\ txn \in Database /\ db.row \in RowsType /\ txn.row \in RowsType
           /\ Members(mem.open) \in SUBSET Setups /\ Members(mon.todo) \in SUBSET Setups
<1>1. mem.open \in Seq(Setups) /\ mem.daily \in Nat /\ mem.balance \in Int
  BY DEF TypeOK, Engine
<1>2. mon.todo \in Seq(Setups) /\ mon.gone \in SUBSET Setups
  BY DEF TypeOK, MonitorState
<1>3. db \in Database /\ txn \in Database /\ db.row \in RowsType /\ txn.row \in RowsType
  BY DatabaseFields DEF TypeOK
<1>4. QED BY <1>1, <1>2, <1>3, MembersType

LEMMA TodoHead ==
    ASSUME TypeOK, mon.todo # <<>>
    PROVE  /\ Head(mon.todo) \in Setups /\ Head(mon.todo) \in Members(mon.todo)
           /\ Members(Tail(mon.todo)) \subseteq Members(mon.todo)
BY HeadDone DEF TypeOK

LEMMA MembersOfNothing == Members(<<>>) = {}
BY DEF Members

LEMMA RowsStep ==
    ASSUME TypeOK, Locks, Rows, Kinds
    PROVE  Rows'
<1>0. /\ mem.open \in Seq(Setups) /\ db \in Database
      /\ Members(mem.open) \in SUBSET Setups /\ Members(mon.todo) \in SUBSET Setups
  BY Fields
<1>1. CASE Outside
  <2>1. /\ mem' = mem /\ mon' = mon /\ up
        /\ \/ db' = db /\ txn' = txn
           \/ db' = txn' /\ txn'.row \in {txn.row, db.row}
    BY <1>1 DEF Outside
  <2>2. QED BY <1>0, <2>1 DEF Rows, HasRow
<1>2. CASE Starts
  <2>1. Members(mem'.open) = Members(mem.open)
    BY <1>2 DEF Starts
  <2>2. QED BY <1>2, <2>1 DEF Starts, Rows, Locks, InSection, HasRow, Same, Quiet
<1>3. CASE Passes
  <2>1. Members(mem'.open) = Members(mem.open)
    BY <1>3 DEF Passes
  <2>2. QED BY <1>3, <2>1 DEF Passes, Rows, Locks, InSection, HasRow, Same, Quiet
<1>4. ASSUME NEW s \in Setups, Opens(s) PROVE Rows'
  <2>1. Members(mem'.open) = Members(mem.open) \union {s}
    BY <1>4, <1>0, MembersOfAppend DEF Opens
  <2>2. /\ db' = txn' /\ mon' = mon /\ txn'.row[s].status = "OPEN"
        /\ \A q \in Setups \ {s} : txn'.row[q] = txn.row[q]
    BY <1>4 DEF Opens, Adds
  <2>3. \A q \in Setups : HasRow(db, q) => HasRow(db', q)
    BY <2>2 DEF Rows, HasRow
  <2>4. HasRow(db', s) /\ up
    BY <1>4, <2>2 DEF HasRow, Opens, Allowed
  <2>5. QED BY <1>0, <2>1, <2>2, <2>3, <2>4 DEF Rows, HasRow
<1>5. ASSUME NEW s \in Setups, OpenFails(s) PROVE Rows'
  <2>1. /\ mem'.open = mem.open /\ mon' = mon /\ db' = txn' /\ up
        /\ \/ txn' = db
           \/ /\ txn'.row[s].status = "OPEN"
              /\ \A q \in Setups \ {s} : txn'.row[q] = txn.row[q]
    BY <1>5 DEF OpenFails, Adds, Allowed
  <2>2. \A q \in Setups : HasRow(db, q) => HasRow(db', q)
    BY <2>1 DEF Rows, HasRow
  <2>3. Members(mem'.open) = Members(mem.open)
    BY <2>1
  <2>4. QED BY <1>0, <2>1, <2>2, <2>3 DEF Rows, HasRow
<1>6. CASE Looks
  <2>1. \A s \in Members(mon'.todo) : s \in Members(mem.open)
    BY <1>6, MembersOfNothing DEF Looks
  <2>2. QED BY <1>6, <2>1 DEF Looks, Rows, HasRow, Quiet, Same
<1>7. CASE Holds
  <2>1. \A s \in Members(mon'.todo) : s \in Members(mon.todo)
    BY <1>7, TodoHead DEF Holds
  <2>2. QED BY <1>7, <2>1 DEF Holds, Rows, HasRow, Quiet, Same, Busy
<1>8. ASSUME NEW r \in Int, Closes(r) PROVE Rows'
  <2> DEFINE h == Head(mon.todo)
  <2>1. /\ mem'.open = mem.open /\ mon'.todo = mon.todo /\ mon'.pc = "closing" /\ db' = db /\ up
        /\ txn'.row[h].status = "CLOSED" /\ mon.todo # <<>>
        /\ \A q \in Setups \ {h} : txn'.row[q] = txn.row[q]
    BY <1>8 DEF Closes, Accounts, Busy
  <2>2. h \in Members(mon.todo)
    BY <2>1, TodoHead
  <2> HIDE DEF h
  <2>3. \A q \in Setups : HasRow(txn', q) <=> HasRow(db', q)
    BY <2>1, <2>2 DEF Rows, HasRow
  <2>4. Members(mem'.open) = Members(mem.open) /\ Members(mon'.todo) = Members(mon.todo)
    BY <2>1
  <2>5. QED BY <2>1, <2>3, <2>4 DEF Rows, HasRow
<1>9. ASSUME NEW r \in Int, CloseFails(r) PROVE Rows'
  <2>1. Members(mem'.open) = Members(mem.open) /\ Members(mon'.todo) = {}
    BY <1>9, MembersOfNothing DEF CloseFails, Accounts
  <2>2. QED BY <1>9, <2>1 DEF CloseFails, Rows, HasRow, Busy, Same
<1>10. CASE Commits
  <2>1. \A s \in Members(mon'.todo) : s \in Members(mon.todo)
    BY <1>10, TodoHead, MembersOfNothing DEF Commits, Strikes, Locks
  <2>2. Members(mem'.open) = Members(mem.open)
    BY <1>10 DEF Commits
  <2>3. QED BY <1>10, <1>0, <2>1, <2>2 DEF Commits, Rows, HasRow, Busy, Same
<1>11. CASE Records
  <2>1. \A s \in Members(mon'.todo) : s \in Members(mon.todo)
    BY <1>11, TodoHead DEF Records, Strikes, Locks
  <2>2. Members(mem'.open) = Members(mem.open)
    BY <1>11 DEF Records
  <2>3. QED BY <1>11, <2>1, <2>2 DEF Records, Rows, HasRow, Busy, Same
<1>12. CASE Removes
  <2>1. Members(mem'.open) \subseteq Members(mem.open)
    <3>1. mem'.open \in Without(mem.open, mon.gone)
      BY <1>12 DEF Removes
    <3>2. /\ mem'.open \in Seq(Setups)
          /\ mem'.open \in [1 .. Len(mem'.open) -> Members(mem.open) \ mon.gone]
      BY <1>0, <3>1, WithoutType
    <3>3. Members(mem'.open) \subseteq Members(mem.open) \ mon.gone
      BY <3>2, MembersOfFunction
    <3>4. QED BY <3>3
  <2>2. Members(mon'.todo) = {}
    BY <1>12, MembersOfNothing DEF Removes
  <2>3. QED BY <1>12, <2>1, <2>2 DEF Removes, Rows, HasRow, Quiet, Busy, Same
<1>13. CASE Dies
  <2>1. Members(mon'.todo) = {}
    BY <1>13, MembersOfNothing DEF Dies
  <2>2. QED BY <1>13, <2>1 DEF Dies, Rows, HasRow
<1>14. CASE Starting
  <2>1. Members(mem'.open) \subseteq Opened(db)
    BY <1>14, <1>0, LoadOpenType, MembersOfFunction DEF Starting
  <2>2. \A s \in Opened(db) : HasRow(db, s)
    BY DEF Opened, HasRow
  <2>3. QED BY <1>14, <2>1, <2>2 DEF Starting, Rows, HasRow, Quiet
<1>15. CASE Ticks
  BY <1>15 DEF Ticks, Rows, HasRow, Quiet
<1>16. CASE UNCHANGED vars
  BY <1>16 DEF vars, Rows, HasRow
<1>17. QED BY <1>1, <1>2, <1>3, <1>4, <1>5, <1>6, <1>7, <1>8, <1>9, <1>10, <1>11, <1>12, <1>13, <1>14, <1>15, <1>16 DEF Kinds

(* The daily loss.  What the tables show of a later day is no more. *)
LEMMA LossAges ==
    ASSUME TypeOK, TimeInv, TypeOK', TimeInv', Kinds, NEW f \in RowsType
    PROVE  /\ LossSince(f, Day') <= LossSince(f, Day)
           /\ LossSince(f, Day') \in Int /\ LossSince(f, Day) \in Int
<1>1. Now \in Nat /\ Now' \in Nat /\ Now <= clock /\ Day \in Nat /\ Day' \in Nat /\ clock \in Nat
  <2>1. Now \in Nat /\ Now <= clock /\ Day \in Nat /\ clock \in Nat
    BY NowIsNat DEF TypeOK
  <2>2. clock' \in Nat
    BY DEF TypeOK
  <2>3. Now' \in Nat
    BY <2>2 DEF Now, TimeInv, Never
  <2>4. Day' = Now' \div DayLength
    BY DEF Day
  <2>5. Day' \in Nat
    BY <2>3, <2>4, DayLaw
  <2>6. QED BY <2>1, <2>3, <2>5
<1>2. Now <= Now'
  <2>1. /\ clock' = clock \/ clock' = clock + 1
        /\ began' = Never \/ began' = Now \/ began' = began
    BY TimeStep
  <2>2. QED BY <1>1, <2>1 DEF Now, Never
<1>3. Day <= Day'
  <2>1. Day = Now \div DayLength /\ Day' = Now' \div DayLength
    BY DEF Day
  <2>2. QED BY <1>1, <1>2, <2>1, DayLaw
<1> DEFINE a == Day
           b == Day'
<1>4. a \in Int /\ b \in Int /\ a <= b
  BY <1>1, <1>3
<1> HIDE DEF a, b
<1>5. /\ LossSince(f, b) <= LossSince(f, a)
      /\ LossSince(f, b) \in Int /\ LossSince(f, a) \in Int
  BY <1>4, LossShrinks, LossIsNat
<1>6. QED BY <1>5 DEF a, b

(* A known loss stays known while the rows and the engine keep it. *)
LEMMA KnowsStays ==
    ASSUME TypeOK, TimeInv, TypeOK', TimeInv', Kinds, NEW f \in RowsType,
           LossSince(f, Day) <= mem'.daily
    PROVE  LossSince(f, Day') <= mem'.daily
<1>1. mem'.daily \in Int
  BY DEF TypeOK, Engine
<1> DEFINE a == LossSince(f, Day)
           b == LossSince(f, Day')
<1>2. b <= a /\ a \in Int /\ b \in Int
  BY LossAges
<1>3. a <= mem'.daily
  OBVIOUS
<1> HIDE DEF a, b
<1>4. b <= mem'.daily
  BY <1>1, <1>2, <1>3
<1>5. QED BY <1>4 DEF b

LEMMA LossKnownIf ==
    ASSUME TypeOK, TimeInv, TypeOK', TimeInv', Kinds,
           LossSince(db'.row, Day) <= mem'.daily, LossSince(txn'.row, Day) <= mem'.daily
    PROVE  LossKnown'
<1>1. db'.row \in RowsType /\ txn'.row \in RowsType
  BY DatabaseFields DEF TypeOK
<1>2. LossSince(db'.row, Day') <= mem'.daily /\ LossSince(txn'.row, Day') <= mem'.daily
  BY <1>1, KnowsStays
<1>3. QED BY <1>2 DEF LossKnown

LEMMA OpenLoss ==
    ASSUME TypeOK, TypeOK', NEW s \in Setups, txn'.row[s].status # "CLOSED",
           \A q \in Setups \ {s} : txn'.row[q] = txn.row[q], LossSince(txn.row, Day) <= mem.daily
    PROVE  LossSince(txn'.row, Day) <= mem.daily
<1>1. txn'.row \in RowsType /\ txn.row \in RowsType /\ mem.daily \in Nat
  BY Fields, DatabaseFields DEF TypeOK
<1> DEFINE f == txn'.row
           d == Day
<1>2. f \in RowsType /\ f[s].status # "CLOSED" /\ \A q \in Setups \ {s} : f[q] = txn.row[q]
  BY <1>1
<1> HIDE DEF f, d
<1>3. LossSince(f, d) <= LossSince(txn.row, d) /\ LossSince(f, d) \in Nat /\ LossSince(txn.row, d) \in Nat
  BY <1>1, <1>2, LossOfChange, LossIsNat
<1>4. LossSince(txn.row, d) <= mem.daily
  BY DEF d
<1>5. LossSince(f, d) <= mem.daily
  BY <1>1, <1>3, <1>4
<1>6. QED BY <1>5 DEF f, d

LEMMA LossStep ==
    ASSUME TypeOK, TimeInv, TypeOK', TimeInv', Locks, Rows, LossKnown, Kinds
    PROVE  LossKnown'
<1>1. CASE Outside
  <2>1. /\ up /\ mem'.daily = mem.daily
        /\ db'.row \in {db.row, txn.row} /\ txn'.row \in {db.row, txn.row}
    BY <1>1 DEF Outside, Busy, Quiet
  <2>2. QED BY <2>1, LossKnownIf DEF LossKnown
<1>2. CASE Starts
  <2>1. /\ up /\ db' = db /\ txn' = txn /\ txn.row = db.row
        /\ mem'.daily = mem.daily \/ mem'.daily = LossSince(txn.row, Day)
    BY <1>2 DEF Starts, Quiet, Locks, InSection, Rows
  <2>2. LossSince(txn.row, Day) <= LossSince(txn.row, Day)
    BY LossIsNat, Fields
  <2>3. QED BY <2>1, <2>2, LossKnownIf DEF LossKnown
<1>3. CASE Passes
  <2>1. /\ up /\ mem'.daily = mem.daily
        /\ db'.row \in {db.row, txn.row} /\ txn'.row \in {db.row, txn.row}
    BY <1>3 DEF Passes, Busy, Quiet
  <2>2. QED BY <2>1, LossKnownIf DEF LossKnown
<1>4. ASSUME NEW s \in Setups, Opens(s) PROVE LossKnown'
  <2>1. /\ up /\ mem'.daily = mem.daily /\ db' = txn' /\ txn'.row[s].status # "CLOSED"
        /\ \A q \in Setups \ {s} : txn'.row[q] = txn.row[q]
    BY <1>4 DEF Opens, Allowed, Adds
  <2>2. LossSince(txn'.row, Day) <= mem'.daily
    BY <2>1, OpenLoss DEF LossKnown
  <2>3. QED BY <2>1, <2>2, LossKnownIf
<1>5. ASSUME NEW s \in Setups, OpenFails(s) PROVE LossKnown'
  <2>1. /\ up /\ mem'.daily = mem.daily /\ db' = txn'
        /\ \/ txn' = db
           \/ /\ txn'.row[s].status # "CLOSED"
              /\ \A q \in Setups \ {s} : txn'.row[q] = txn.row[q]
    BY <1>5 DEF OpenFails, Allowed, Adds
  <2>2. LossSince(txn'.row, Day) <= mem'.daily
    BY <2>1, OpenLoss DEF LossKnown
  <2>3. QED BY <2>1, <2>2, LossKnownIf
<1>6. CASE Looks
  <2>1. /\ up /\ mem'.daily = mem.daily
        /\ db'.row \in {db.row, txn.row} /\ txn'.row \in {db.row, txn.row}
    BY <1>6 DEF Looks, Busy, Quiet
  <2>2. QED BY <2>1, LossKnownIf DEF LossKnown
<1>7. CASE Holds
  <2>1. /\ up /\ mem'.daily = mem.daily
        /\ db'.row \in {db.row, txn.row} /\ txn'.row \in {db.row, txn.row}
    BY <1>7 DEF Holds, Busy, Quiet
  <2>2. QED BY <2>1, LossKnownIf DEF LossKnown
<1>8. ASSUME NEW r \in Int, Closes(r) PROVE LossKnown'
  <2> DEFINE h == Head(mon.todo)
             l == Larger(0, -Net(r))
  <2>1. /\ up /\ db' = db /\ mem'.daily = mem.daily + l
        /\ txn'.row[h].pnl = Net(r) /\ mon.todo # <<>>
        /\ \A q \in Setups \ {h} : txn'.row[q] = txn.row[q]
    BY <1>8 DEF Closes, Accounts, Busy
  <2>2. h \in Setups
    BY <2>1, TodoHead
  <2>3. txn'.row \in RowsType /\ txn.row \in RowsType /\ db.row \in RowsType /\ mem.daily \in Nat
    BY Fields, DatabaseFields DEF TypeOK
  <2>4. l \in Nat
    BY <1>8, Constants DEF Larger, Net
  <2>5. l = Larger(0, -txn'.row[h].pnl)
    BY <2>1
  <2> HIDE DEF h, l
  <2>6. LossSince(txn'.row, Day) <= LossSince(txn.row, Day) + l
    BY <2>1, <2>2, <2>3, <2>5, LossOfChange
  <2>7. /\ LossSince(txn'.row, Day) \in Nat /\ LossSince(txn.row, Day) \in Nat
        /\ LossSince(db.row, Day) \in Nat
    BY <2>3, LossIsNat
  <2>8. LossSince(txn.row, Day) <= mem.daily /\ LossSince(db.row, Day) <= mem.daily
    BY <2>1 DEF LossKnown
  <2>9. LossSince(txn'.row, Day) <= mem'.daily /\ LossSince(db'.row, Day) <= mem'.daily
    BY <2>1, <2>3, <2>4, <2>6, <2>7, <2>8
  <2>10. QED BY <2>9, LossKnownIf
<1>9. ASSUME NEW r \in Int, CloseFails(r) PROVE LossKnown'
  <2> DEFINE l == Larger(0, -Net(r))
  <2>1. up /\ db' = db /\ txn' = db /\ mem'.daily = mem.daily + l
    BY <1>9 DEF CloseFails, Accounts, Busy
  <2>2. l \in Nat
    BY <1>9, Constants DEF Larger, Net
  <2>3. db.row \in RowsType /\ mem.daily \in Nat
    BY Fields
  <2> HIDE DEF l
  <2>4. LossSince(db.row, Day) \in Nat /\ LossSince(db.row, Day) <= mem.daily
    BY <2>1, <2>3, LossIsNat DEF LossKnown
  <2>5. LossSince(db'.row, Day) <= mem'.daily /\ LossSince(txn'.row, Day) <= mem'.daily
    BY <2>1, <2>2, <2>3, <2>4
  <2>6. QED BY <2>5, LossKnownIf
<1>10. CASE Commits
  <2>1. /\ up /\ mem' = mem
        /\ db'.row \in {db.row, txn.row} /\ txn'.row \in {db.row, txn.row}
    BY <1>10 DEF Commits, Busy
  <2>2. QED BY <2>1, LossKnownIf DEF LossKnown
<1>11. CASE Records
  <2>1. /\ up /\ mem'.daily = mem.daily
        /\ db'.row \in {db.row, txn.row} /\ txn'.row \in {db.row, txn.row}
    BY <1>11 DEF Records, Busy, Quiet
  <2>2. QED BY <2>1, LossKnownIf DEF LossKnown
<1>12. CASE Removes
  <2>1. /\ up /\ mem'.daily = mem.daily
        /\ db'.row \in {db.row, txn.row} /\ txn'.row \in {db.row, txn.row}
    BY <1>12 DEF Removes, Busy, Quiet
  <2>2. QED BY <2>1, LossKnownIf DEF LossKnown
<1>13. CASE Dies
  BY <1>13 DEF Dies, LossKnown
<1>14. CASE Starting
  <2>1. db' = db /\ txn' = db /\ mem'.daily = LossSince(db.row, Day)
    BY <1>14 DEF Starting, Quiet, Locks
  <2>2. LossSince(db.row, Day) <= LossSince(db.row, Day)
    BY LossIsNat, Fields
  <2>3. QED BY <2>1, <2>2, LossKnownIf
<1>15. CASE Ticks
  <2>1. CASE up
    <3>1. db' = db /\ txn' = txn /\ mem' = mem
      BY <1>15 DEF Ticks, Quiet
    <3>2. QED BY <2>1, <3>1, LossKnownIf DEF LossKnown
  <2>2. CASE ~up
    BY <1>15, <2>2 DEF Ticks, LossKnown
  <2>3. QED BY <2>1, <2>2
<1>16. CASE UNCHANGED vars
  <2>1. CASE up
    <3>1. db' = db /\ txn' = txn /\ mem' = mem
      BY <1>16 DEF vars
    <3>2. QED BY <2>1, <3>1, LossKnownIf DEF LossKnown
  <2>2. CASE ~up
    BY <1>16, <2>2 DEF vars, LossKnown
  <2>3. QED BY <2>1, <2>2
<1>17. QED BY <1>1, <1>2, <1>3, <1>4, <1>5, <1>6, <1>7, <1>8, <1>9, <1>10, <1>11, <1>12, <1>13, <1>14, <1>15, <1>16 DEF Kinds

-----------------------------------------------------------------------------
(* The list of open positions.                                             *)

LEMMA InjectiveOnto ==
    ASSUME NEW n \in Nat, NEW T, IsFiniteSet(T), Cardinality(T) = n, NEW f \in [1 .. n -> T],
           \A i, j \in 1 .. n : i # j => f[i] # f[j]
    PROVE  \A x \in T : \E i \in 1 .. n : f[i] = x
<1> DEFINE S == 1 .. n
<1>1. Cardinality(S) = n
  BY FS_Interval
<1>2. f \in Injection(S, T)
  BY DEF Injection, IsInjective
<1> HIDE DEF S
<1>3. f \in Surjection(S, T)
  BY <1>1, <1>2, FS_Injection
<1>4. QED BY <1>3 DEF Surjection, S

LEMMA MembersCount ==
    ASSUME NEW q \in Seq(Setups)
    PROVE  Cardinality(Members(q)) <= Len(q) /\ Cardinality(Members(q)) \in Nat /\ Len(q) \in Nat
<1> DEFINE n == Len(q)
           S == 1 .. n
           T == Members(q)
<1>1. n \in Nat /\ q \in [S -> T]
  BY DEF Members
<1>2. q \in Surjection(S, T)
  BY <1>1 DEF Surjection, Members
<1>3. IsFiniteSet(S) /\ Cardinality(S) = n
  BY <1>1, FS_Interval
<1> HIDE DEF S, T, n
<1>4. IsFiniteSet(T) /\ Cardinality(T) <= n
  BY <1>2, <1>3, FS_Surjection
<1>5. QED BY <1>1, <1>4, FS_CardinalityType DEF T, n

LEMMA OneEachAppend ==
    ASSUME NEW q \in Seq(Setups), NEW s \in Setups, OneEach(q),
           \A x \in Members(q) : SymOf[x] # SymOf[s]
    PROVE  OneEach(Append(q, s))
<1> DEFINE t == Append(q, s)
           n == Len(q)
<1>1. n \in Nat /\ DOMAIN q = 1 .. n /\ DOMAIN t = 1 .. n + 1
      /\ (\A i \in 1 .. n : t[i] = q[i]) /\ t[n + 1] = s
  OBVIOUS
<1>2. \A i \in 1 .. n : q[i] \in Members(q)
  BY <1>1 DEF Members
<1>3. \A i, j \in 1 .. n : i # j => SymOf[q[i]] # SymOf[q[j]]
  BY <1>1 DEF OneEach
<1> HIDE DEF t, n
<1>4. ASSUME NEW i \in 1 .. n + 1, NEW j \in 1 .. n + 1, i # j PROVE SymOf[t[i]] # SymOf[t[j]]
  BY <1>1, <1>2, <1>3, <1>4
<1>5. QED BY <1>1, <1>4 DEF OneEach, t

LEMMA OneEachDistinct ==
    ASSUME NEW q, OneEach(q)
    PROVE  Distinct(q)
BY DEF OneEach, Distinct

LEMMA LoadOpenOneEach ==
    ASSUME NEW d \in Database, NEW q \in LoadOpen(d)
    PROVE  OneEach(q)
<1>1. q \in Seq(Setups)
  BY LoadOpenType
<1>2. \A i, j \in DOMAIN q : i < j => SymOf[q[i]] # SymOf[q[j]]
  BY DEF LoadOpen
<1>3. \A i \in DOMAIN q : i \in Int
  BY <1>1
<1>4. QED BY <1>2, <1>3 DEF OneEach

(* With one open row per symbol every open row is loaded. *)
LEMMA LoadOpenAll ==
    ASSUME NEW d \in Database, NEW q \in LoadOpen(d),
           \A s, r \in Opened(d) : SymOf[s] = SymOf[r] => s = r
    PROVE  Members(q) = Opened(d)
<1> DEFINE T == {SymOf[s] : s \in Opened(d)}
           n == Len(q)
           f == [i \in 1 .. n |-> SymOf[q[i]]]
<1>1. /\ q \in Seq(Setups) /\ n \in Nat /\ n = Cardinality(T) /\ IsFiniteSet(T)
      /\ q \in [1 .. n -> Opened(d)] /\ DOMAIN q = 1 .. n
  BY LoadOpenType
<1>2. f \in [1 .. n -> T]
  BY <1>1
<1>3. \A i, j \in 1 .. n : i # j => f[i] # f[j]
  BY <1>1, LoadOpenOneEach DEF OneEach
<1>4. \A i \in 1 .. n : f[i] = SymOf[q[i]]
  OBVIOUS
<1> HIDE DEF f
<1>5. \A x \in T : \E i \in 1 .. n : f[i] = x
  <2>1. n \in Nat /\ IsFiniteSet(T) /\ Cardinality(T) = n
    BY <1>1
  <2> HIDE DEF T, n
  <2>2. QED BY <1>2, <1>3, <2>1, InjectiveOnto
<1>6. ASSUME NEW s \in Opened(d) PROVE s \in Members(q)
  <2>1. PICK i \in 1 .. n : SymOf[q[i]] = SymOf[s]
    BY <1>4, <1>5
  <2>2. q[i] \in Opened(d) /\ q[i] = s
    BY <1>1, <2>1
  <2>3. QED BY <1>1, <2>2 DEF Members
<1>7. QED BY <1>1, <1>6 DEF Members

(* Removing positions keeps the others, in their order. *)
LEMMA WithoutAll ==
    ASSUME NEW q \in Seq(Setups), OneEach(q), NEW gone, NEW t \in Without(q, gone)
    PROVE  /\ OneEach(t) /\ Members(t) = Members(q) \ gone
           /\ Len(t) <= Len(q)
<1> DEFINE left == Members(q) \ gone
           n == Len(t)
<1>1. /\ t \in Seq(Setups) /\ n = Cardinality(left) /\ n \in Nat /\ t \in [1 .. n -> left]
      /\ DOMAIN t = 1 .. n
  BY WithoutType
<1>2. \A i, j \in DOMAIN t : i < j => \E k, l \in DOMAIN q : k < l /\ q[k] = t[i] /\ q[l] = t[j]
  BY DEF Without
<1>3. \A k \in DOMAIN q : k \in Int
  OBVIOUS
<1>4. \A i, j \in DOMAIN t : i < j => SymOf[t[i]] # SymOf[t[j]]
  <2>1. ASSUME NEW i \in DOMAIN t, NEW j \in DOMAIN t, i < j PROVE SymOf[t[i]] # SymOf[t[j]]
    <3>1. PICK k \in DOMAIN q, l \in DOMAIN q : k < l /\ q[k] = t[i] /\ q[l] = t[j]
      BY <1>2, <2>1
    <3>2. k # l
      BY <1>3, <3>1
    <3>3. SymOf[q[k]] # SymOf[q[l]]
      BY <3>2 DEF OneEach
    <3>4. QED BY <3>1, <3>3
  <2>2. QED BY <2>1
<1>5. OneEach(t)
  <2>1. \A i \in DOMAIN t : i \in Int
    BY <1>1
  <2>2. QED BY <1>4, <2>1 DEF OneEach
<1>6. \A i, j \in 1 .. n : i # j => t[i] # t[j]
  BY <1>1, <1>5 DEF OneEach
<1>7. Members(q) \in SUBSET Setups /\ left \in SUBSET Members(q)
  BY MembersType
<1>8. IsFiniteSet(Members(q)) /\ IsFiniteSet(left)
  BY <1>7, Constants, FS_Subset
<1>9. Cardinality(left) <= Cardinality(Members(q))
  BY <1>7, <1>8, FS_Subset
<1> HIDE DEF left, n
<1>10. \A x \in left : \E i \in 1 .. n : t[i] = x
  BY <1>1, <1>6, <1>8, InjectiveOnto
<1>11. Members(t) = left
  BY <1>1, <1>10 DEF Members
<1>12. n <= Len(q)
  BY <1>1, <1>9, MembersCount
<1>13. QED BY <1>5, <1>11, <1>12 DEF left, n

LEMMA OneEachStep ==
    ASSUME TypeOK, OneEach(mem.open), Kinds
    PROVE  OneEach(mem'.open)
<1>1. mem.open \in Seq(Setups)
  BY Fields
<1>2. ASSUME NEW s \in Setups, Opens(s) PROVE OneEach(mem'.open)
  <2>1. mem'.open = Append(mem.open, s) /\ ~Skipped(s)
    BY <1>2 DEF Opens, Allowed
  <2>2. \A x \in Members(mem.open) : SymOf[x] # SymOf[s]
    BY <2>1 DEF Skipped
  <2>3. QED BY <1>1, <2>1, <2>2, OneEachAppend
<1>3. ASSUME Removes PROVE OneEach(mem'.open)
  <2>1. mem'.open \in Without(mem.open, mon.gone)
    BY <1>3 DEF Removes
  <2>2. QED BY <1>1, <2>1, WithoutAll
<1>4. ASSUME Starting PROVE OneEach(mem'.open)
  <2>1. mem'.open \in LoadOpen(db) /\ db \in Database
    BY <1>4, Fields DEF Starting
  <2>2. QED BY <2>1, LoadOpenOneEach
<1>5. ASSUME mem'.open = mem.open PROVE OneEach(mem'.open)
  BY <1>5
<1>6. QED
  BY <1>2, <1>3, <1>4, <1>5 DEF Kinds, Outside, Starts, Passes, OpenFails, Looks, Holds, Closes, CloseFails,
     Accounts, Commits, Records, Dies, Ticks, vars

-----------------------------------------------------------------------------
(* The table and the engine's list, while no statement has failed.         *)

LEMMA OnlyClosingStep ==
    ASSUME TypeOK, Locks, Rows, OnlyClosing, EngineAhead, Worklist, Calm', Kinds
    PROVE  OnlyClosing'
<1>1. ASSUME db'.row = txn'.row PROVE OnlyClosing'
  BY <1>1 DEF OnlyClosing
<1>2. ASSUME Outside \/ Starts \/ Passes \/ Looks \/ Ticks \/ UNCHANGED vars PROVE OnlyClosing'
  <2>1. \/ db'.row = txn'.row
        \/ /\ db' = db /\ txn' = txn
           /\ (mon'.pc = mon.pc /\ mon'.todo = mon.todo) \/ mon.pc # "closing"
    BY <1>2 DEF Outside, Starts, Passes, Looks, Ticks, Quiet, vars
  <2>2. ASSUME db' = db, txn' = txn, mon'.pc = mon.pc, mon'.todo = mon.todo PROVE OnlyClosing'
    BY <2>2 DEF OnlyClosing
  <2>3. ASSUME db' = db, txn' = txn, mon.pc # "closing" PROVE OnlyClosing'
    BY <2>3 DEF OnlyClosing
  <2>4. QED BY <1>1, <2>1, <2>2, <2>3
<1>3. ASSUME NEW s \in Setups, Opens(s) PROVE OnlyClosing'
  BY <1>1, <1>3 DEF Opens
<1>4. ASSUME Holds \/ Removes PROVE OnlyClosing'
  <2>1. db' = db /\ txn' = txn /\ mon.pc # "closing"
    BY <1>4 DEF Holds, Removes, Quiet
  <2>2. QED BY <2>1 DEF OnlyClosing
<1>5. ASSUME NEW r \in Int, Closes(r) PROVE OnlyClosing'
  <2> DEFINE h == Head(mon.todo)
  <2>1. /\ db' = db /\ mon.pc = "checking" /\ mon'.pc = "closing" /\ mon'.todo = mon.todo
        /\ txn'.row[h].status = "CLOSED" /\ mon.todo # <<>> /\ up
        /\ \A q \in Setups \ {h} : txn'.row[q] = txn.row[q]
    BY <1>5 DEF Closes, Busy
  <2>2. \A q \in Setups : txn.row[q] = db.row[q]
    BY <2>1 DEF OnlyClosing
  <2>3. h \in Members(mon.todo)
    BY <2>1, TodoHead
  <2>4. h \in Members(mem.open) /\ ~Leaving(h)
    BY <2>1, <2>3 DEF Worklist, Leaving
  <2>5. h \in Opened(txn)
    BY <2>1, <2>4 DEF EngineAhead
  <2>6. db.row[h].status = "OPEN"
    BY <2>2, <2>5 DEF Opened
  <2>7. h = Head(mon'.todo)
    BY <2>1
  <2> HIDE DEF h
  <2>8. QED BY <2>1, <2>2, <2>6, <2>7 DEF OnlyClosing
<1>6. ASSUME NEW r \in Int, CloseFails(r) PROVE OnlyClosing'
  BY <1>6 DEF CloseFails
<1>7. ASSUME Commits \/ Dies PROVE OnlyClosing'
  BY <1>1, <1>7 DEF Commits, Dies
<1>8. ASSUME Records PROVE OnlyClosing'
  <2>1. db' = db /\ txn'.row = txn.row /\ mon.pc # "closing"
    BY <1>8 DEF Records
  <2>2. QED BY <2>1 DEF OnlyClosing
<1>9. ASSUME Starting PROVE OnlyClosing'
  BY <1>1, <1>9 DEF Starting, Quiet, Locks
<1>10. ASSUME NEW s \in Setups, OpenFails(s) PROVE OnlyClosing'
  BY <1>10 DEF OpenFails
<1>11. QED BY <1>2, <1>3, <1>4, <1>5, <1>6, <1>7, <1>8, <1>9, <1>10 DEF Kinds

LEMMA WorklistTail ==
    ASSUME TypeOK, Worklist, mon'.todo = Tail(mon.todo), mem'.open = mem.open, mon.todo # <<>>,
           mon'.gone = mon.gone \/ mon'.gone = mon.gone \union {Head(mon.todo)}
    PROVE  Worklist'
<1> DEFINE q == mon.todo
           t == Tail(q)
           n == Len(q)
<1>1. /\ q \in Seq(Setups) /\ n \in Nat /\ n > 0 /\ DOMAIN q = 1 .. n /\ DOMAIN t = 1 .. n - 1
      /\ (\A i \in 1 .. n - 1 : t[i] = q[i + 1]) /\ Head(q) = q[1]
  BY Fields
<1>2. \A i, j \in 1 .. n : i # j => q[i] # q[j]
  BY <1>1 DEF Worklist, Distinct
<1>3. Members(q) \subseteq Members(mem.open) /\ Members(q) \cap mon.gone = {}
  BY DEF Worklist
<1> HIDE DEF q, t, n
<1>4. Distinct(t)
  BY <1>1, <1>2 DEF Distinct
<1>5. ASSUME NEW x \in Members(t) PROVE x \in Members(q) /\ x # Head(q)
  <2>1. PICK i \in DOMAIN t : x = t[i]
    BY DEF Members
  <2>2. i + 1 \in 1 .. n /\ i + 1 # 1 /\ 1 \in 1 .. n /\ x = q[i + 1]
    BY <1>1, <2>1
  <2>3. QED BY <1>1, <1>2, <2>2 DEF Members
<1>6. Members(mon'.todo) = Members(t) /\ Distinct(mon'.todo)
  BY <1>4 DEF t, q
<1>7. QED BY <1>3, <1>5, <1>6 DEF Worklist, q

LEMMA WorklistStep ==
    ASSUME TypeOK, Locks, OneEach(mem.open), Worklist, Calm', Kinds
    PROVE  Worklist'
<1>1. CASE Outside
  <2>1. mon'.todo = mon.todo /\ mon'.gone = mon.gone /\ mem'.open = mem.open
    BY <1>1 DEF Outside
  <2>2. QED BY <2>1 DEF Worklist
<1>2. CASE Starts
  <2>1. mon'.todo = mon.todo /\ mon'.gone = mon.gone /\ mem'.open = mem.open
    BY <1>2 DEF Starts
  <2>2. QED BY <2>1 DEF Worklist
<1>3. CASE Passes
  <2>1. mon'.todo = mon.todo /\ mon'.gone = mon.gone /\ mem'.open = mem.open
    BY <1>3 DEF Passes
  <2>2. QED BY <2>1 DEF Worklist
<1>4. ASSUME NEW s \in Setups, Opens(s) PROVE Worklist'
  <2>1. mon' = mon /\ mem'.open = Append(mem.open, s) /\ mon.todo = <<>>
    BY <1>4 DEF Opens, Allowed, Locks
  <2>2. Distinct(mon'.todo) /\ Members(mon'.todo) = {}
    BY <2>1, MembersOfNothing DEF Distinct
  <2>3. QED BY <2>2 DEF Worklist
<1>5. ASSUME NEW s \in Setups, OpenFails(s) PROVE Worklist'
  BY <1>5 DEF OpenFails
<1>6. CASE Looks
  <2>1. mem' = mem /\ mon'.gone = {} /\ (mon'.todo = <<>> \/ mon'.todo = mem.open)
    BY <1>6 DEF Looks
  <2>2. Distinct(mon'.todo)
    BY <2>1, OneEachDistinct DEF Distinct
  <2>3. Members(mon'.todo) \subseteq Members(mem'.open)
    BY <2>1, MembersOfNothing
  <2>4. QED BY <2>1, <2>2, <2>3 DEF Worklist
<1>7. CASE Holds
  <2>1. /\ mon'.todo = Tail(mon.todo) /\ mem'.open = mem.open /\ mon.todo # <<>>
        /\ mon'.gone = mon.gone \/ mon'.gone = mon.gone \union {Head(mon.todo)}
    BY <1>7 DEF Holds, Strikes, Locks
  <2>2. QED BY <2>1, WorklistTail
<1>8. ASSUME NEW r \in Int, Closes(r) PROVE Worklist'
  <2>1. mon'.todo = mon.todo /\ mon'.gone = mon.gone /\ mem'.open = mem.open
    BY <1>8 DEF Closes, Accounts
  <2>2. QED BY <2>1 DEF Worklist
<1>9. ASSUME NEW r \in Int, CloseFails(r) PROVE Worklist'
  BY <1>9 DEF CloseFails
<1>10. CASE Commits
  <2>1. CASE mon'.todo = mon.todo /\ mon'.gone = mon.gone
    <3>1. mem'.open = mem.open
      BY <1>10 DEF Commits
    <3>2. QED BY <2>1, <3>1 DEF Worklist
  <2>2. CASE Strikes
    <3>1. /\ mon'.todo = Tail(mon.todo) /\ mem'.open = mem.open /\ mon.todo # <<>>
          /\ mon'.gone = mon.gone \union {Head(mon.todo)}
      BY <1>10, <2>2 DEF Commits, Strikes, Locks
    <3>2. QED BY <3>1, WorklistTail
  <2>3. QED BY <1>10, <2>1, <2>2 DEF Commits
<1>11. CASE Records
  <2>1. /\ mon'.todo = Tail(mon.todo) /\ mem'.open = mem.open /\ mon.todo # <<>>
        /\ mon'.gone = mon.gone \/ mon'.gone = mon.gone \union {Head(mon.todo)}
    BY <1>11 DEF Records, Strikes, Locks
  <2>2. QED BY <2>1, WorklistTail
<1>12. CASE Removes
  <2>1. Distinct(mon'.todo) /\ Members(mon'.todo) = {}
    BY <1>12, MembersOfNothing DEF Removes, Distinct
  <2>2. QED BY <2>1 DEF Worklist
<1>13. CASE Dies
  <2>1. Distinct(mon'.todo) /\ Members(mon'.todo) = {}
    BY <1>13, MembersOfNothing DEF Dies, Distinct
  <2>2. QED BY <2>1 DEF Worklist
<1>14. CASE Starting
  <2>1. mon' = mon /\ mon.todo = <<>>
    BY <1>14 DEF Starting, Locks, InSection
  <2>2. Distinct(mon'.todo) /\ Members(mon'.todo) = {}
    BY <2>1, MembersOfNothing DEF Distinct
  <2>3. QED BY <2>2 DEF Worklist
<1>15. CASE Ticks
  <2>1. mon'.todo = mon.todo /\ mon'.gone = mon.gone /\ mem'.open = mem.open
    BY <1>15 DEF Ticks
  <2>2. QED BY <2>1 DEF Worklist
<1>16. CASE UNCHANGED vars
  <2>1. mon'.todo = mon.todo /\ mon'.gone = mon.gone /\ mem'.open = mem.open
    BY <1>16 DEF vars
  <2>2. QED BY <2>1 DEF Worklist
<1>17. QED BY <1>1, <1>2, <1>3, <1>4, <1>5, <1>6, <1>7, <1>8, <1>9, <1>10, <1>11, <1>12, <1>13, <1>14, <1>15, <1>16 DEF Kinds

LEMMA NoneLeaves ==
    ASSUME Locks, ~InSection
    PROVE  \A s : ~Leaving(s)
BY DEF Locks, InSection, Leaving

LEMMA OpenedByRow ==
    ASSUME NEW d, NEW e, d.row = e.row
    PROVE  Opened(d) = Opened(e)
BY DEF Opened

LEMMA PendingOpened ==
    ASSUME OnlyClosing
    PROVE  Opened(txn) \subseteq Opened(db)
BY DEF OnlyClosing, Opened

LEMMA OpenedType ==
    ASSUME NEW d
    PROVE  /\ Opened(d) \in SUBSET Setups /\ Closed(d) \in SUBSET Setups
           /\ IsFiniteSet(Opened(d)) /\ Cardinality(Opened(d)) \in Nat
<1>1. Opened(d) \in SUBSET Setups /\ Closed(d) \in SUBSET Setups
  BY DEF Opened, Closed
<1>2. QED BY <1>1, Constants, FS_Subset, FS_CardinalityType

(* One position per symbol, and no more than the limit, in the table. *)
LEMMA OpenedLimits ==
    ASSUME TypeOK, OneEach(mem.open), EngineAhead
    PROVE  /\ \A s, r \in Opened(db) : SymOf[s] = SymOf[r] => s = r
           /\ Cardinality(Opened(db)) <= MaxOpen
<1>1. mem.open \in Seq(Setups) /\ Opened(db) \subseteq Members(mem.open) /\ Len(mem.open) <= MaxOpen
  BY Fields DEF EngineAhead
<1>2. ASSUME NEW s \in Opened(db), NEW r \in Opened(db), SymOf[s] = SymOf[r] PROVE s = r
  <2>1. s \in Members(mem.open) /\ r \in Members(mem.open)
    BY <1>1
  <2>2. PICK i \in DOMAIN mem.open : mem.open[i] = s
    BY <2>1 DEF Members
  <2>3. PICK j \in DOMAIN mem.open : mem.open[j] = r
    BY <2>1 DEF Members
  <2>4. i = j
    BY <1>2, <2>2, <2>3 DEF OneEach
  <2>5. QED BY <2>2, <2>3, <2>4
<1>3. Cardinality(Opened(db)) <= Cardinality(Members(mem.open))
  <2>1. IsFiniteSet(Members(mem.open))
    BY <1>1, MembersType, Constants, FS_Subset
  <2>2. QED BY <1>1, <2>1, FS_Subset
<1>4. QED BY <1>1, <1>2, <1>3, MembersCount, OpenedType, Constants

LEMMA EngineStep ==
    ASSUME TypeOK, Locks, Rows, OneEach(mem.open), OnlyClosing, EngineAhead, Calm', Kinds
    PROVE  EngineAhead'
<1>0. mem.open \in Seq(Setups) /\ Len(mem.open) \in Nat
  BY Fields
<1>1. CASE Outside
  <2>1. /\ mem'.open = mem.open /\ mon' = mon /\ (up' => up)
        /\ txn'.row = txn.row
        /\ db'.row = db.row \/ db'.row = txn.row
    BY <1>1 DEF Outside, Same, Quiet
  <2>2. Opened(txn') = Opened(txn) /\ Opened(db') \subseteq Opened(db)
    BY <2>1, OpenedByRow, PendingOpened
  <2>3. QED BY <2>1, <2>2 DEF EngineAhead, Leaving
<1>2. CASE Starts
  <2>1. /\ mem'.open = mem.open /\ mon' = mon /\ (up' => up)
        /\ txn'.row = txn.row
        /\ db'.row = db.row \/ db'.row = txn.row
    BY <1>2 DEF Starts, Same, Quiet
  <2>2. Opened(txn') = Opened(txn) /\ Opened(db') \subseteq Opened(db)
    BY <2>1, OpenedByRow, PendingOpened
  <2>3. QED BY <2>1, <2>2 DEF EngineAhead, Leaving
<1>3. CASE Passes
  <2>1. /\ mem'.open = mem.open /\ mon' = mon /\ (up' => up)
        /\ txn'.row = txn.row
        /\ db'.row = db.row \/ db'.row = txn.row
    BY <1>3 DEF Passes, Same, Quiet
  <2>2. Opened(txn') = Opened(txn) /\ Opened(db') \subseteq Opened(db)
    BY <2>1, OpenedByRow, PendingOpened
  <2>3. QED BY <2>1, <2>2 DEF EngineAhead, Leaving
<1>4. ASSUME NEW s \in Setups, Opens(s) PROVE EngineAhead'
  <2>1. /\ mem'.open = Append(mem.open, s) /\ mon' = mon /\ up /\ lock = "main" /\ db' = txn'
        /\ ~LimitReached /\ s \in Setups /\ txn'.row[s].status = "OPEN"
        /\ \A q \in Setups \ {s} : txn'.row[q] = txn.row[q]
    BY <1>4 DEF Opens, Allowed, Adds
  <2>2. Opened(txn') = Opened(txn) \union {s} /\ Opened(db') = Opened(txn')
    BY <2>1 DEF Opened
  <2>3. Members(mem'.open) = Members(mem.open) \union {s} /\ Len(mem'.open) = Len(mem.open) + 1
    BY <1>0, <2>1, MembersOfAppend
  <2>4. Len(mem'.open) <= MaxOpen
    BY <1>0, <2>1, <2>3, Constants DEF LimitReached
  <2>5. \A q : ~Leaving(q)
    BY <2>1, NoneLeaves DEF Locks, InSection
  <2>6. \A q : ~Leaving(q)'
    BY <2>1, <2>5 DEF Leaving
  <2>7. Opened(txn) \subseteq Opened(db)
    BY PendingOpened
  <2>8. QED BY <2>1, <2>2, <2>3, <2>4, <2>5, <2>6, <2>7 DEF EngineAhead
<1>5. ASSUME NEW s \in Setups, OpenFails(s) PROVE EngineAhead'
  BY <1>5 DEF OpenFails
<1>6. CASE Looks
  <2>1. /\ mem' = mem /\ db' = db /\ txn' = txn /\ up
        /\ ~InSection /\ mon'.gone = {} /\ mon'.pc \in {"fetched", "checking"}
    BY <1>6 DEF Looks, Quiet, InSection
  <2>2. (\A s : ~Leaving(s)) /\ \A s : ~Leaving(s)'
    BY <2>1, NoneLeaves DEF Leaving
  <2>3. QED BY <2>1, <2>2 DEF EngineAhead
<1>7. CASE Holds
  <2>1. /\ mem' = mem /\ db' = db /\ txn' = txn /\ up
        /\ mon.pc = "checking" /\ mon'.pc = "checking" /\ mon'.gone = mon.gone
    BY <1>7 DEF Holds, Quiet, Busy
  <2>2. \A s : Leaving(s)' <=> Leaving(s)
    BY <2>1 DEF Leaving
  <2>3. QED BY <2>1, <2>2 DEF EngineAhead
<1>8. ASSUME NEW r \in Int, Closes(r) PROVE EngineAhead'
  <2> DEFINE h == Head(mon.todo)
  <2>1. /\ mem'.open = mem.open /\ db' = db /\ up
        /\ mon.pc = "checking" /\ mon'.pc = "closing" /\ mon'.gone = mon.gone /\ mon'.todo = mon.todo
        /\ txn'.row[h].status = "CLOSED" /\ mon.todo # <<>>
        /\ \A q \in Setups \ {h} : txn'.row[q] = txn.row[q]
    BY <1>8 DEF Closes, Accounts, Busy
  <2>2. h \in Setups
    BY <2>1, TodoHead
  <2>3. \A s : Leaving(s)' <=> (Leaving(s) \/ s = h)
    BY <2>1 DEF Leaving
  <2>4. Opened(txn') = Opened(txn) \ {h}
    <3> HIDE DEF h
    <3>1. QED BY <2>1, <2>2 DEF Opened
  <2> HIDE DEF h
  <2>5. QED BY <2>1, <2>3, <2>4 DEF EngineAhead
<1>9. ASSUME NEW r \in Int, CloseFails(r) PROVE EngineAhead'
  BY <1>9 DEF CloseFails
<1>10. CASE Commits
  <2>1. /\ mem' = mem /\ txn' = txn /\ db' = txn /\ up /\ mon.pc = "closing"
        /\ \/ mon'.pc = "gap" /\ mon'.todo = mon.todo /\ mon'.gone = mon.gone
           \/ Strikes
    BY <1>10 DEF Commits, Busy
  <2>2. \A s : Leaving(s)' <=> Leaving(s)
    BY <2>1 DEF Leaving, Strikes
  <2>3. Opened(db') \subseteq Opened(db) /\ Opened(txn') = Opened(txn)
    BY <2>1, PendingOpened
  <2>4. QED BY <2>1, <2>2, <2>3 DEF EngineAhead
<1>11. CASE Records
  <2>1. /\ mem'.open = mem.open /\ txn'.row = txn.row /\ db' = db /\ up /\ mon.pc = "gap" /\ Strikes
    BY <1>11 DEF Records, Busy
  <2>2. \A s : Leaving(s)' <=> Leaving(s)
    BY <2>1 DEF Leaving, Strikes
  <2>3. Opened(txn') = Opened(txn)
    BY <2>1, OpenedByRow
  <2>4. QED BY <2>1, <2>2, <2>3 DEF EngineAhead
<1>12. CASE Removes
  <2>1. /\ mem'.open \in Without(mem.open, mon.gone) /\ db' = db /\ txn' = txn /\ up
        /\ mon.pc = "checking" /\ mon'.pc = "idle" /\ mon'.gone = {}
    BY <1>12 DEF Removes, Quiet, Busy
  <2>2. Members(mem'.open) = Members(mem.open) \ mon.gone /\ Len(mem'.open) <= Len(mem.open)
        /\ Len(mem'.open) \in Nat
    BY <1>0, <2>1, WithoutAll, WithoutType
  <2>3. (\A s : Leaving(s) <=> s \in mon.gone) /\ \A s : ~Leaving(s)'
    BY <2>1 DEF Leaving
  <2>4. Opened(db) = Opened(txn)
    BY <2>1, OpenedByRow DEF Rows
  <2>5. Opened(db) \cap mon.gone = {}
    BY <2>3, <2>4, OpenedType DEF EngineAhead
  <2>6. Len(mem'.open) <= MaxOpen
    BY <1>0, <2>2, Constants DEF EngineAhead
  <2>7. QED BY <2>1, <2>2, <2>3, <2>4, <2>5, <2>6 DEF EngineAhead
<1>13. CASE Dies
  <2>1. mem' = mem /\ db' = db /\ ~up' /\ mon'.pc = "idle" /\ mon'.gone = {}
    BY <1>13 DEF Dies
  <2>2. \A s : ~Leaving(s)'
    BY <2>1 DEF Leaving
  <2>3. QED BY <2>1, <2>2 DEF EngineAhead
<1>14. CASE Starting
  <2>1. /\ mem'.open \in LoadOpen(db) /\ db' = db /\ txn' = db /\ mon' = mon /\ ~InSection
        /\ db \in Database
    BY <1>14, Fields DEF Starting, Quiet, Locks, InSection
  <2>2. /\ \A s, r \in Opened(db) : SymOf[s] = SymOf[r] => s = r
        /\ Cardinality(Opened(db)) <= MaxOpen
    BY OpenedLimits
  <2>3. Members(mem'.open) = Opened(db)
    BY <2>1, <2>2, LoadOpenAll
  <2>4. Len(mem'.open) <= Cardinality(Opened(db)) /\ Len(mem'.open) \in Nat
    BY <2>1, LoadOpenType
  <2>5. Len(mem'.open) <= MaxOpen
    BY <2>2, <2>4, OpenedType, Constants
  <2>6. \A s : ~Leaving(s)'
    BY <2>1, NoneLeaves DEF Leaving
  <2>7. QED BY <2>1, <2>3, <2>5, <2>6 DEF EngineAhead
<1>15. CASE Ticks
  <2>1. /\ mem'.open = mem.open /\ mon' = mon /\ (up' => up)
        /\ txn'.row = txn.row
        /\ db'.row = db.row \/ db'.row = txn.row
    BY <1>15 DEF Ticks, Same, Quiet
  <2>2. Opened(txn') = Opened(txn) /\ Opened(db') \subseteq Opened(db)
    BY <2>1, OpenedByRow, PendingOpened
  <2>3. QED BY <2>1, <2>2 DEF EngineAhead, Leaving
<1>16. CASE UNCHANGED vars
  <2>1. /\ mem'.open = mem.open /\ mon' = mon /\ (up' => up)
        /\ txn'.row = txn.row
        /\ db'.row = db.row \/ db'.row = txn.row
    BY <1>16 DEF vars, Same, Quiet
  <2>2. Opened(txn') = Opened(txn) /\ Opened(db') \subseteq Opened(db)
    BY <2>1, OpenedByRow, PendingOpened
  <2>3. QED BY <2>1, <2>2 DEF EngineAhead, Leaving
<1>17. QED BY <1>1, <1>2, <1>3, <1>4, <1>5, <1>6, <1>7, <1>8, <1>9, <1>10, <1>11, <1>12, <1>13, <1>14, <1>15, <1>16 DEF Kinds

-----------------------------------------------------------------------------
(* The books.                                                              *)

Owed(d) == Initial + Sum(Gain(d.row))[Closed(d)] - Cost * Cardinality(Opened(d))

LEMMA OneMore ==
    ASSUME NEW c \in Int, NEW n \in Int
    PROVE  c * (n + 1) = c * n + c /\ c * (n - 1) = c * n - c
OBVIOUS

LEMMA OwedByRow ==
    ASSUME NEW d, NEW e, d.row = e.row
    PROVE  Owed(d) = Owed(e)
<1>1. Opened(d) = Opened(e) /\ Closed(d) = Closed(e)
  BY DEF Opened, Closed
<1>2. QED BY <1>1 DEF Owed

LEMMA OwedType ==
    ASSUME NEW d, d.row \in RowsType
    PROVE  /\ Sum(Gain(d.row))[Closed(d)] \in Int /\ Cost \in Int
           /\ Cost * Cardinality(Opened(d)) \in Int
<1>1. Sum(Gain(d.row)) \in [SUBSET Setups -> Int]
  BY LossTypes, SumRec
<1>2. Closed(d) \in SUBSET Setups /\ Cardinality(Opened(d)) \in Int
  BY OpenedType
<1>3. Cost \in Int
  BY Constants DEF Cost
<1>4. QED BY <1>1, <1>2, <1>3, ProductIsInt

LEMMA OwedAfterOpening ==
    ASSUME NEW d, NEW e, d.row \in RowsType, e.row \in RowsType, NEW s \in Setups,
           d.row[s].status = "none", e.row[s].status = "OPEN",
           \A q \in Setups \ {s} : e.row[q] = d.row[q]
    PROVE  Owed(e) = Owed(d) - Cost
<1>1. Opened(e) = Opened(d) \union {s} /\ s \notin Opened(d) /\ Closed(e) = Closed(d)
      /\ s \notin Closed(d)
  BY DEF Opened, Closed
<1>2. Cardinality(Opened(e)) = Cardinality(Opened(d)) + 1
  BY <1>1, OpenedType, FS_AddElement
<1>3. Sum(Gain(e.row))[Closed(e)] = Sum(Gain(d.row))[Closed(d)]
  <2>1. \A x \in Closed(d) : Gain(e.row)[x] = Gain(d.row)[x]
    BY <1>1, OpenedType DEF Gain
  <2>2. Sum(Gain(e.row))[Closed(d)] = Sum(Gain(d.row))[Closed(d)]
    BY <2>1, LossTypes, OpenedType, SumEqual
  <2>3. QED BY <1>1, <2>2
<1> DEFINE a == Sum(Gain(d.row))[Closed(d)]
           n == Cardinality(Opened(d))
           k == Cost
<1>4. a \in Int /\ n \in Int /\ k \in Int /\ k * n \in Int /\ Initial \in Int
  BY OwedType, OpenedType, Constants
<1>5. Owed(e) = Initial + a - k * (n + 1) /\ Owed(d) = Initial + a - k * n
  BY <1>2, <1>3 DEF Owed
<1> HIDE DEF a, n, k
<1>6. k * (n + 1) = k * n + k
  BY <1>4, OneMore
<1>7. Owed(e) = Owed(d) - k
  BY <1>4, <1>5, <1>6
<1>8. QED BY <1>7 DEF k

LEMMA OwedAfterClosing ==
    ASSUME NEW d, NEW e, d.row \in RowsType, e.row \in RowsType, NEW s \in Setups, NEW r \in Int,
           d.row[s].status = "OPEN", e.row[s].status = "CLOSED", e.row[s].pnl = Net(r),
           \A q \in Setups \ {s} : e.row[q] = d.row[q]
    PROVE  Owed(e) = Owed(d) + r
<1>1. /\ Opened(e) = Opened(d) \ {s} /\ s \in Opened(d)
      /\ s \in Closed(e) /\ Closed(e) \ {s} = Closed(d) /\ s \notin Closed(d)
  BY DEF Opened, Closed
<1>2. Cardinality(Opened(e)) = Cardinality(Opened(d)) - 1
  <2>1. IsFiniteSet(Opened(d))
    BY OpenedType
  <2>2. Cardinality(Opened(d) \ {s}) = Cardinality(Opened(d)) - 1
    BY <1>1, <2>1, FS_RemoveElement
  <2>3. QED BY <1>1, <2>2
<1>3. Sum(Gain(e.row))[Closed(e)] = Net(r) + Sum(Gain(d.row))[Closed(d)]
  <2>1. \A x \in Closed(d) : Gain(e.row)[x] = Gain(d.row)[x]
    BY <1>1, OpenedType DEF Gain
  <2>2. Sum(Gain(e.row))[Closed(d)] = Sum(Gain(d.row))[Closed(d)]
    BY <2>1, LossTypes, OpenedType, SumEqual
  <2>3. Sum(Gain(e.row))[Closed(e)] = Gain(e.row)[s] + Sum(Gain(e.row))[Closed(e) \ {s}]
    BY <1>1, LossTypes, OpenedType, SumRemove
  <2>4. Gain(e.row)[s] = Net(r)
    BY DEF Gain
  <2>5. QED BY <1>1, <2>2, <2>3, <2>4
<1> DEFINE a == Sum(Gain(d.row))[Closed(d)]
           n == Cardinality(Opened(d))
           k == Cost
<1>4. a \in Int /\ n \in Int /\ k \in Int /\ k * n \in Int /\ Initial \in Int
  BY OwedType, OpenedType, Constants
<1>5. Owed(e) = Initial + (Net(r) + a) - k * (n - 1) /\ Owed(d) = Initial + a - k * n
  BY <1>2, <1>3 DEF Owed
<1>6. Net(r) = r - k
  BY DEF Net, Cost
<1> HIDE DEF a, n, k
<1>7. k * (n - 1) = k * n - k
  BY <1>4, OneMore
<1>8. QED BY <1>4, <1>5, <1>6, <1>7

LEMMA BooksIs == Books <=> up /\ mem.balance = Owed(txn)
BY DEF Books, Owed

LEMMA BooksStep ==
    ASSUME TypeOK, TypeOK', OnlyClosing, EngineAhead, Worklist, Books, mishaps' = 0, Kinds
    PROVE  up' /\ mem'.balance = Owed(txn')
<1>0. mishaps' = 0 /\ Calm' /\ up /\ mem.balance = Owed(txn)
  BY BooksIs DEF Calm, Books
<1>1. txn.row \in RowsType /\ txn'.row \in RowsType /\ mem.balance \in Int
  BY Fields, DatabaseFields DEF TypeOK
<1>2. CASE Outside
  <2>1. txn'.row = txn.row /\ mem'.balance = mem.balance /\ up'
    BY <1>2, <1>0 DEF Outside, Same, Quiet, Calm, Busy, Books
  <2>2. QED BY <2>1, <1>0, OwedByRow
<1>3. CASE Starts
  <2>1. txn'.row = txn.row /\ mem'.balance = mem.balance /\ up'
    BY <1>3, <1>0 DEF Starts, Same, Quiet, Calm, Busy, Books
  <2>2. QED BY <2>1, <1>0, OwedByRow
<1>4. CASE Passes
  <2>1. txn'.row = txn.row /\ mem'.balance = mem.balance /\ up'
    BY <1>4, <1>0 DEF Passes, Same, Quiet, Calm, Busy, Books
  <2>2. QED BY <2>1, <1>0, OwedByRow
<1>5. ASSUME NEW s \in Setups, Opens(s) PROVE up' /\ mem'.balance = Owed(txn')
  <2>1. /\ mem'.balance = mem.balance - Cost /\ up'
        /\ txn.row[s].status = "none" /\ txn'.row[s].status = "OPEN"
        /\ \A q \in Setups \ {s} : txn'.row[q] = txn.row[q]
    BY <1>5 DEF Opens, Allowed, Adds, Same
  <2>2. QED BY <1>0, <1>1, <2>1, OwedAfterOpening
<1>6. ASSUME NEW s \in Setups, OpenFails(s) PROVE up' /\ mem'.balance = Owed(txn')
  BY <1>6, <1>0 DEF OpenFails
<1>7. CASE Looks
  <2>1. txn'.row = txn.row /\ mem'.balance = mem.balance /\ up'
    BY <1>7, <1>0 DEF Looks, Same, Quiet, Calm, Busy, Books
  <2>2. QED BY <2>1, <1>0, OwedByRow
<1>8. CASE Holds
  <2>1. txn'.row = txn.row /\ mem'.balance = mem.balance /\ up'
    BY <1>8, <1>0 DEF Holds, Same, Quiet, Calm, Busy, Books
  <2>2. QED BY <2>1, <1>0, OwedByRow
<1>9. ASSUME NEW r \in Int, Closes(r) PROVE up' /\ mem'.balance = Owed(txn')
  <2> DEFINE h == Head(mon.todo)
  <2>1. /\ mem'.balance = mem.balance + r /\ up /\ up' /\ mon.pc = "checking" /\ mon.todo # <<>>
        /\ txn'.row[h].status = "CLOSED" /\ txn'.row[h].pnl = Net(r)
        /\ \A q \in Setups \ {h} : txn'.row[q] = txn.row[q]
    BY <1>9 DEF Closes, Accounts, Busy, Same
  <2>2. h \in Setups /\ h \in Members(mon.todo)
    BY <2>1, TodoHead
  <2>3. h \in Members(mem.open) /\ ~Leaving(h)
    BY <2>1, <2>2 DEF Worklist, Leaving
  <2>4. txn.row[h].status = "OPEN"
    BY <2>1, <2>3 DEF EngineAhead, Opened
  <2> HIDE DEF h
  <2>5. QED BY <1>0, <1>1, <2>1, <2>2, <2>4, OwedAfterClosing
<1>10. ASSUME NEW r \in Int, CloseFails(r) PROVE up' /\ mem'.balance = Owed(txn')
  BY <1>10, <1>0 DEF CloseFails
<1>11. CASE Commits
  <2>1. txn'.row = txn.row /\ mem'.balance = mem.balance /\ up'
    BY <1>11, <1>0 DEF Commits, Same, Quiet, Calm, Busy, Books
  <2>2. QED BY <2>1, <1>0, OwedByRow
<1>12. CASE Records
  <2>1. txn'.row = txn.row /\ mem'.balance = mem.balance /\ up'
    BY <1>12, <1>0 DEF Records, Same, Quiet, Calm, Busy, Books
  <2>2. QED BY <2>1, <1>0, OwedByRow
<1>13. CASE Removes
  <2>1. txn'.row = txn.row /\ mem'.balance = mem.balance /\ up'
    BY <1>13, <1>0 DEF Removes, Same, Quiet, Calm, Busy, Books
  <2>2. QED BY <2>1, <1>0, OwedByRow
<1>14. CASE Dies
  BY <1>14, <1>0 DEF Dies
<1>15. CASE Starting
  BY <1>15, <1>0 DEF Starting, Books
<1>16. CASE Ticks
  <2>1. txn'.row = txn.row /\ mem'.balance = mem.balance /\ up'
    BY <1>16, <1>0 DEF Ticks, Same, Quiet, Calm, Busy, Books
  <2>2. QED BY <2>1, <1>0, OwedByRow
<1>17. CASE UNCHANGED vars
  <2>1. txn'.row = txn.row /\ mem'.balance = mem.balance /\ up'
    BY <1>17, <1>0 DEF vars, Same, Quiet, Calm, Busy, Books
  <2>2. QED BY <2>1, <1>0, OwedByRow
<1>18. QED BY <1>2, <1>3, <1>4, <1>5, <1>6, <1>7, <1>8, <1>9, <1>10, <1>11, <1>12, <1>13, <1>14, <1>15, <1>16, <1>17 DEF Kinds

-----------------------------------------------------------------------------
(* The invariant and what follows from it.                                 *)

IInv ==
    /\ TypeOK /\ TimeInv
    /\ Locks /\ Recovering /\ Rows /\ LossKnown /\ HaltKnown
    /\ OneEach(mem.open)
    /\ Calm => OnlyClosing /\ EngineAhead /\ Worklist
    /\ mishaps = 0 => Books

LEMMA InitIInv == Init => IInv
<1> SUFFICES ASSUME Init PROVE IInv
  OBVIOUS
<1>1. NewDatabase \in Database /\ \A s \in Setups : NewDatabase.row[s].status = "none"
  <2> DEFINE f == [s \in Setups |-> NoRow]
             g == [s \in Setups |-> "READY_TO_TRADE"]
  <2>1. f \in [Setups -> Row] /\ \A s \in Setups : f[s].status = "none"
    BY DEF NoRow, Row
  <2>2. g \in [Setups -> {"READY_TO_TRADE", "EXECUTED", "EXPIRED"}]
    OBVIOUS
  <2>3. NewDatabase = [row |-> f, closings |-> 0, setup |-> g, saved |-> FALSE, balance |-> 0,
                       cooldown |-> Never, gate |-> FALSE]
    BY DEF NewDatabase
  <2> HIDE DEF f, g
  <2>4. QED BY <2>1, <2>2, <2>3 DEF Database, Never
<1>2. /\ db = NewDatabase /\ txn = NewDatabase /\ began = 0 /\ up /\ up \in BOOLEAN /\ clock = 0 /\ mishaps = 0
      /\ lock = "free" /\ main = MainIdle /\ mon = MonitorIdle /\ ~severe /\ severe \in BOOLEAN
  BY DEF Init
<1>3. mem \in Engine /\ mem.open = <<>> /\ mem.daily = 0 /\ mem.balance = Initial
  <2>1. <<>> \in Seq(Setups) /\ Initial \in Int
    BY Constants
  <2>2. QED BY <2>1 DEF Init, Engine, Never
<1>4. TypeOK
  <2>1. lock \in {"free", "main", "monitor"}
    BY <1>2
  <2>2. QED BY <1>1, <1>2, <1>3, <2>1, Idle DEF TypeOK
<1>5. TimeInv /\ Locks /\ Recovering /\ HaltKnown
  BY <1>2, Idle DEF TimeInv, Locks, InSection, Recovering, HaltKnown
<1>6. Members(mem.open) = {} /\ Members(mon.todo) = {} /\ OneEach(mem.open) /\ Len(mem.open) = 0
      /\ Distinct(mon.todo) /\ mon.gone = {} /\ mon.pc = "idle"
  BY <1>2, <1>3, Idle, MembersOfNothing DEF OneEach, Distinct
<1>7. Opened(txn) = {} /\ Opened(db) = {} /\ Closed(txn) = {}
  BY <1>1, <1>2 DEF Opened, Closed
<1>8. Rows
  BY <1>2, <1>6 DEF Rows, HasRow
<1>9. \A f \in RowsType : Sum(LossOf(f))[{}] = 0 /\ Sum(Gain(f))[{}] = 0
  BY LossTypes, SumRec
<1>10. LossKnown
  <2>1. Late(txn.row, Day) = {} /\ Late(db.row, Day) = {}
    BY <1>1, <1>2 DEF Late
  <2>2. txn.row \in RowsType /\ db.row \in RowsType
    BY <1>4, Fields
  <2>3. QED BY <1>3, <1>9, <2>1, <2>2 DEF LossKnown, LossSince
<1>11. OnlyClosing /\ EngineAhead /\ Worklist
  BY <1>2, <1>6, <1>7, Constants DEF OnlyClosing, EngineAhead, Worklist, Leaving
<1>12. Books
  <2>1. Cardinality(Opened(txn)) = 0 /\ Cost * 0 = 0
    BY <1>7, FS_EmptySet, Constants DEF Cost
  <2>2. Sum(Gain(txn.row))[Closed(txn)] = 0
    BY <1>4, <1>7, <1>9, Fields
  <2>3. QED BY <1>2, <1>3, <2>1, <2>2, Constants DEF Books
<1>13. QED BY <1>4, <1>5, <1>6, <1>8, <1>10, <1>11, <1>12 DEF IInv

LEMMA StepIInv == IInv /\ [Next]_vars => IInv'
<1> SUFFICES ASSUME IInv, [Next]_vars PROVE IInv'
  OBVIOUS
<1>1. TypeOK /\ TimeInv /\ Locks /\ Recovering /\ Rows /\ LossKnown /\ HaltKnown /\ OneEach(mem.open)
  BY DEF IInv
<1>2. TypeOK' /\ Kinds
  BY <1>1, StepKinds
<1>3. TimeInv'
  BY <1>1, <1>2, TimeStep
<1>4. Locks' /\ Recovering' /\ HaltKnown'
  BY <1>1, <1>2, LocksStep, RecoveringStep, HaltStep
<1>5. Rows'
  BY <1>1, <1>2, RowsStep
<1>6. LossKnown'
  BY <1>1, <1>2, <1>3, LossStep
<1>7. OneEach(mem.open)'
  BY <1>1, <1>2, OneEachStep
<1>8. Calm' => OnlyClosing' /\ EngineAhead' /\ Worklist'
  <2> SUFFICES ASSUME Calm' PROVE OnlyClosing' /\ EngineAhead' /\ Worklist'
    OBVIOUS
  <2>1. OnlyClosing /\ EngineAhead /\ Worklist
    BY <1>1, <1>2, MishapsGrow DEF IInv
  <2>2. QED BY <1>1, <1>2, <2>1, OnlyClosingStep, EngineStep, WorklistStep
<1>9. mishaps' = 0 => Books'
  <2> SUFFICES ASSUME mishaps' = 0 PROVE Books'
    OBVIOUS
  <2>1. mishaps = 0
    BY <1>1, <1>2, MishapsGrow
  <2>2. OnlyClosing /\ EngineAhead /\ Worklist /\ Books
    BY <2>1 DEF IInv, Calm
  <2>3. up' /\ mem'.balance = Owed(txn')
    BY <1>1, <1>2, <2>2, BooksStep
  <2>4. QED BY <2>3 DEF Books, Owed
<1>10. QED BY <1>2, <1>3, <1>4, <1>5, <1>6, <1>7, <1>8, <1>9 DEF IInv

(* The inductive invariant of the paper engine: types, the lock, the rows  *)
(* that are pending, the loss the engine knows of, the halt, and, while no *)
(* statement has failed, the list of positions and the books.              *)
THEOREM Invariance == Spec => []IInv
<1>1. QED BY InitIInv, StepIInv, PTL DEF Spec

-----------------------------------------------------------------------------
(* Over every crash and restart the engine's list is the table's open rows *)
(* outside locked sections (load_open_trades, check_exits), and the table  *)
(* never holds two positions of a symbol or more than max_open_positions.  *)
THEOREM EngineSafety ==
    ASSUME Mishaps \subseteq {"crash"}
    PROVE  Spec => []EngineSafe
<1>1. IInv => EngineSafe
  <2> SUFFICES ASSUME IInv PROVE EngineSafe
    OBVIOUS
  <2>1. TypeOK /\ Locks /\ Rows /\ OneEach(mem.open) /\ EngineAhead
    BY DEF IInv, Calm
  <2>2. MirrorsTable
    <3> SUFFICES ASSUME up, lock = "free" PROVE Members(mem.open) = Opened(txn)
      BY DEF MirrorsTable
    <3>1. ~InSection
      BY <2>1 DEF Locks
    <3>2. Opened(txn) = Opened(db)
      BY <2>1, <3>1, OpenedByRow DEF Rows, InSection
    <3>3. QED BY <2>1, <3>1, <3>2, NoneLeaves DEF EngineAhead
  <2>3. PositionLimits
    BY <2>1, OpenedLimits DEF PositionLimits
  <2>4. QED BY <2>1, <2>2, <2>3 DEF EngineSafe
<1>2. QED BY <1>1, Invariance, PTL

(* Until something fails the balance is the initial one plus the results   *)
(* of the closed trades minus the entry costs of the open ones             *)
(* (_close_trade and check_entries book each cost once), in every          *)
(* configuration.                                                          *)
THEOREM BooksBalanced == Spec => []BooksBalance
<1>1. IInv => BooksBalance
  <2> SUFFICES ASSUME IInv, mishaps = 0
               PROVE  mem.balance = Initial + MapThenSumSet(LAMBDA s : txn.row[s].pnl, Closed(txn))
                                    - (Fee + Slippage) * Cardinality(Opened(txn))
    BY DEF BooksBalance
  <2>1. Books /\ TypeOK
    BY DEF IInv
  <2>2. Gain(txn.row) \in [Setups -> Int] /\ Closed(txn) \in SUBSET Setups
    BY <2>1, Fields, LossTypes, OpenedType
  <2>3. MapThenSumSet(LAMBDA s : txn.row[s].pnl, Closed(txn)) = Sum(Gain(txn.row))[Closed(txn)]
    BY <2>2, FoldOfGain
  <2>4. QED BY <2>1, <2>3 DEF Books, Cost
<1>2. QED BY <1>1, Invariance, PTL

(* Only the loop of check_entries adds a row. *)
LEMMA NewRowIsEntry ==
    ASSUME TypeOK, Locks, Rows, Kinds, NewRow
    PROVE  \E s \in Setups : Allowed(s)
<1>1. PICK s \in Setups : txn.row[s].status = "none" /\ txn'.row[s].status = "OPEN"
  BY DEF NewRow
<1>2. txn'.row # txn.row /\ db.row[s].status = "none"
  BY <1>1 DEF Rows, HasRow
<1>3. ASSUME NEW q \in Setups, Opens(q) \/ OpenFails(q) PROVE Allowed(q)
  BY <1>3 DEF Opens, OpenFails
<1>4. ASSUME NEW r \in Int, Closes(r) PROVE FALSE
  BY <1>1, <1>4 DEF Closes
<1>5. QED
  BY <1>1, <1>2, <1>3, <1>4 DEF Kinds, Outside, Starts, Passes, Looks, Holds, CloseFails, Commits, Records,
     Removes, Dies, Starting, Ticks, vars, Quiet

(* No trade is opened on a day whose losses have reached the limit: what   *)
(* the engine knows of the day (_refresh_daily_risk_state_if_needed, the   *)
(* losses it books, a restart) is never less than what the table shows, in *)
(* every configuration and whatever fails.                                 *)
THEOREM DailyLossLimit == Spec => DailyLossRespected
<1>1. IInv /\ [Next]_vars => [NewRow => DailyLoss(txn) < LossLimit]_vars
  <2> SUFFICES ASSUME IInv, [Next]_vars, NewRow PROVE DailyLoss(txn) < LossLimit
    OBVIOUS
  <2>1. TypeOK /\ TimeInv /\ Locks /\ Recovering /\ Rows /\ LossKnown
    BY DEF IInv
  <2>2. PICK s \in Setups : Allowed(s)
    BY <2>1, StepKinds, NewRowIsEntry
  <2>3. up /\ ~(mem.daily >= LossLimit)
    BY <2>2 DEF Allowed, LimitReached
  <2>4. LossSince(txn.row, Day) <= mem.daily /\ mem.daily \in Nat /\ LossSince(txn.row, Day) \in Nat
    BY <2>1, <2>3, Fields, LossIsNat DEF LossKnown
  <2>5. DailyLoss(txn) = LossSince(txn.row, Day)
    BY <2>1, Fields, DailyLossIs DEF Day
  <2>6. QED BY <2>3, <2>4, <2>5, Constants
<1>2. Spec => [][NewRow => DailyLoss(txn) < LossLimit]_vars
  BY <1>1, Invariance, PTL DEF Spec
<1>3. QED BY <1>2 DEF DailyLossRespected

(* A closed trade keeps its row through every later check, cycle and       *)
(* restart, and no trade is opened beyond the day's loss.                  *)
THEOREM TradeRules ==
    ASSUME Mishaps \subseteq {"crash"}
    PROVE  Spec => TradeRulesHold
<1>1. IInv /\ [Next]_vars => [\A s \in Closed(db) : db'.row[s] = db.row[s]]_vars
  <2> SUFFICES ASSUME IInv, [Next]_vars, NEW s \in Closed(db) PROVE db'.row[s] = db.row[s]
    OBVIOUS
  <2>1. TypeOK /\ TimeInv /\ Locks /\ Recovering /\ OnlyClosing /\ Calm'
    BY DEF IInv, Calm
  <2>2. Kinds
    BY <2>1, StepKinds
  <2>3. s \in Setups /\ db.row[s].status = "CLOSED"
    BY DEF Closed
  <2>4. txn.row[s] = db.row[s]
    BY <2>1, <2>3 DEF OnlyClosing
  <2>5. ASSUME NEW q \in Setups, Opens(q) PROVE db'.row[s] = db.row[s]
    <3>1. txn.row[q].status = "none" /\ db' = txn'
          /\ \A p \in Setups \ {q} : txn'.row[p] = txn.row[p]
      BY <2>5 DEF Opens, Allowed, Adds
    <3>2. QED BY <2>3, <2>4, <3>1
  <2>6. QED
    BY <2>1, <2>2, <2>4, <2>5 DEF Kinds, Outside, Starts, Passes, OpenFails, Looks, Holds, Closes,
       CloseFails, Commits, Records, Removes, Dies, Starting, Ticks, vars, Quiet
<1>2. Spec => [][\A s \in Closed(db) : db'.row[s] = db.row[s]]_vars
  BY <1>1, Invariance, PTL DEF Spec
<1>3. Spec => ClosedOnce
  BY <1>2 DEF ClosedOnce
<1>4. QED BY <1>3, DailyLossLimit, PTL DEF TradeRulesHold

(* Whatever statement or commit fails, no trade is opened after a severe   *)
(* stop gap (_activate_safety_gate sets the halt before it writes the gate *)
(* row) or beyond the day's loss.  A crash is excluded: the gate row is    *)
(* not committed when it is written.                                       *)
THEOREM RiskLimits ==
    ASSUME "crash" \notin Mishaps
    PROVE  Spec => RiskLimitsHold
<1>1. IInv /\ [Next]_vars => [NewRow => ~severe]_vars
  <2> SUFFICES ASSUME IInv, [Next]_vars, NewRow PROVE ~severe
    OBVIOUS
  <2>1. TypeOK /\ TimeInv /\ Locks /\ Recovering /\ Rows /\ HaltKnown
    BY DEF IInv
  <2>2. PICK s \in Setups : Allowed(s)
    BY <2>1, StepKinds, NewRowIsEntry
  <2>3. QED BY <2>1, <2>2 DEF Allowed, HaltKnown
<1>2. Spec => [][NewRow => ~severe]_vars
  BY <1>1, Invariance, PTL DEF Spec
<1>3. Spec => HaltHolds
  BY <1>2 DEF HaltHolds
<1>4. QED BY <1>3, DailyLossLimit, PTL DEF RiskLimitsHold
==============================================================================

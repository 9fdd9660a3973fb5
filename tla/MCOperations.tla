----------------------------- MODULE MCOperations -----------------------------
(* TLC instances of the trading, research and operator programs around the *)
(* services. They share no state here, so each part is explored on its     *)
(* own, with the others at rest.                                           *)
EXTENDS SrrShortOutcome, SrrShortFill, CandleSync, ShadowStudy, BudgetedGet, PaperPosition,
        EarlyMaeV2, EarlyMaeV3, ResearchFindings, HtfFreeze, HtfRollback, TLC

CONSTANTS Parts, p1, p2

VARIABLE part

(* Two processes of one program differ in their names only.                *)
Twins == Permutations({p1, p2})

(* SrrShortFill: two processes get both signals, or the later one.         *)
SignalTimes == ("a" :> 0) @@ ("b" :> 1)
BeforeTheFirstSignal == -1
OfferChoices ==
    {("p" :> {"a", "b"}) @@ ("q" :> {}), ("p" :> {"b"}) @@ ("q" :> {"b"})}

(* CandleSync: two trades whose windows touch.                             *)
TwoTrades == {[entered |-> 1, closed |-> 3], [entered |-> 4, closed |-> 5]}

(* ShadowStudy: one horizon.                                               *)
OneHorizon == [h1 |-> 4]

(* BudgetedGet: the lowest priority meets the highest.                     *)
Priorities == ("a" :> "P1") @@ ("b" :> "P3")

(* PaperPosition: one trade of the engine, one of a fixed-horizon policy.  *)
Policies == ("s1" :> "DEFAULT") @@ ("s2" :> "FIXED_TP_SL_HORIZON_V1")
PriceLevels == {-6, 0, 2, 4}

(* EarlyMaeV2: the one-shot evaluator runs the same protocol or another.   *)
MaeEnvironments ==
    {("scanner" :> "p") @@ ("service" :> "p") @@ ("once" :> o) : o \in {"p", "q"}}

(* ResearchFindings: three results that speak of two findings, with        *)
(* spellings, repeated, unversioned, unstorable and foreign items.         *)
Item(fp, date, refs) ==
    [itemRun |-> 0, refs |-> refs, metric |-> "m", complete |-> TRUE, spelling |-> fp,
     date |-> date, strong |-> TRUE, storable |-> TRUE, versioned |-> TRUE]
Result(run, items) ==
    [schema |-> TRUE, run |-> run, evidence |-> {"e", "g"}, metrics |-> {"m"}, items |-> items]
AgentResults ==
    (1 :> Result(1, <<Item("f", 1, {"e"})>>))
    @@ (2 :> Result(2, <<Item("F", 1, {"g"}),
                         [Item("f", 1, {"e"}) EXCEPT !.versioned = FALSE]>>))
    @@ (3 :> Result(3, <<Item("f", 2, {"e"}), [Item("f", 0, {"e"}) EXCEPT !.itemRun = 2],
                         Item("?", 0, {"e"}), [Item("h", 0, {"g"}) EXCEPT !.storable = FALSE]>>))
Spellings == ("f" :> "f") @@ ("F" :> "f") @@ ("h" :> "h") @@ ("?" :> "NONE")

(* HtfRollback: the database, an object 075 does not touch and a function; *)
(* the admin role exists before 075.                                       *)
CaptureOrder == <<"database", "view", "insert">>
Grants075 == {<<"database", "obs">>, <<"database", "adm">>, <<"insert", "obs">>}

allVars == <<part, srrVars, fillVars, syncVars, studyVars, budgetVars, positionVars,
             maeVars, oosVars, findingVars, freezeVars, rollbackVars>>

(* The choices of Init are made in the part that runs only.                *)
Init ==
    /\ part \in Parts
    /\ SrrOutcomeInit /\ SrrFillInit /\ CandleSyncInit /\ ShadowInit /\ BudgetInit
    /\ PositionInit /\ MaeInit /\ OosInit /\ FindingsInit /\ FreezeInit
    /\ RollbackInit
    /\ part # "outcome" => signalAt = 0
    /\ part # "fill" => offered = CHOOSE o \in OfferChoices : TRUE
    /\ part # "study" => study = "V1"
    /\ part # "mae" => env = CHOOSE e \in MaeEnvironments : TRUE

InOutcome(A) ==
    /\ part = "outcome" /\ A
    /\ UNCHANGED <<part, fillVars, syncVars, studyVars, budgetVars, positionVars, maeVars,
                   oosVars, findingVars, freezeVars, rollbackVars>>

InFill(A) ==
    /\ part = "fill" /\ A
    /\ UNCHANGED <<part, srrVars, syncVars, studyVars, budgetVars, positionVars, maeVars,
                   oosVars, findingVars, freezeVars, rollbackVars>>

InSync(A) ==
    /\ part = "sync" /\ A
    /\ UNCHANGED <<part, srrVars, fillVars, studyVars, budgetVars, positionVars, maeVars,
                   oosVars, findingVars, freezeVars, rollbackVars>>

InStudy(A) ==
    /\ part = "study" /\ A
    /\ UNCHANGED <<part, srrVars, fillVars, syncVars, budgetVars, positionVars, maeVars,
                   oosVars, findingVars, freezeVars, rollbackVars>>

InGet(A) ==
    /\ part = "get" /\ A
    /\ UNCHANGED <<part, srrVars, fillVars, syncVars, studyVars, positionVars, maeVars,
                   oosVars, findingVars, freezeVars, rollbackVars>>

InPosition(A) ==
    /\ part = "position" /\ A
    /\ UNCHANGED <<part, srrVars, fillVars, syncVars, studyVars, budgetVars, maeVars,
                   oosVars, findingVars, freezeVars, rollbackVars>>

InMae(A) ==
    /\ part = "mae" /\ A
    /\ UNCHANGED <<part, srrVars, fillVars, syncVars, studyVars, budgetVars, positionVars,
                   oosVars, findingVars, freezeVars, rollbackVars>>

InOos(A) ==
    /\ part = "oos" /\ A
    /\ UNCHANGED <<part, srrVars, fillVars, syncVars, studyVars, budgetVars, positionVars,
                   maeVars, findingVars, freezeVars, rollbackVars>>

InFindings(A) ==
    /\ part = "findings" /\ A
    /\ UNCHANGED <<part, srrVars, fillVars, syncVars, studyVars, budgetVars, positionVars,
                   maeVars, oosVars, freezeVars, rollbackVars>>

InFreeze(A) ==
    /\ part = "freeze" /\ A
    /\ UNCHANGED <<part, srrVars, fillVars, syncVars, studyVars, budgetVars, positionVars,
                   maeVars, oosVars, findingVars, rollbackVars>>

InRollback(A) ==
    /\ part = "rollback" /\ A
    /\ UNCHANGED <<part, srrVars, fillVars, syncVars, studyVars, budgetVars, positionVars,
                   maeVars, oosVars, findingVars, freezeVars>>

Next ==
    \/ InOutcome(SrrOutcomeNext) \/ InFill(SrrFillNext) \/ InSync(CandleSyncNext)
    \/ InStudy(ShadowNext) \/ InGet(BudgetNext) \/ InPosition(PositionNext)
    \/ InMae(MaeNext) \/ InOos(OosNext) \/ InFindings(FindingsNext)
    \/ InFreeze(FreezeNext) \/ InRollback(RollbackNext)

Spec == Init /\ [][Next]_allVars
=============================================================================

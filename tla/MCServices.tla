----------------------------- MODULE MCServices -----------------------------
(* TLC instances of the services around the trading core. They share no    *)
(* state here, so each part is explored on its own, with the others at     *)
(* rest.                                                                   *)
EXTENDS AnalyticsRunner, AgentPipeline, SetupFlow, ProspectiveObserver, OutcomeEvaluator,
        HtfObserver, HtfCandleSource, MeShortForward, ScannerRunner, TLC

CONSTANTS Parts, s1, s2, p1, p2, f1, f2, u, v, x, y, r1, r2, r3

VARIABLE part

(* ScannerRunner: two scanner processes differ in their names only.        *)
Twins == Permutations({s1, s2})

(* AnalyticsRunner: two calls of each command.                             *)
Commands == p1 :> "provisional" @@ p2 :> "provisional" @@ f1 :> "final" @@ f2 :> "final"

(* SetupFlow: a control scanner that the settings enable, and ME.          *)
SignalKind == (x :> "shadow") @@ (y :> "me")
SignalGate == (x :> "ENABLED") @@ (y :> "ENABLED")

(* ProspectiveObserver: one experiment of each kind.                       *)
ExperimentList == <<"g", "h", "v">>
ExperimentKind == ("g" :> "generic") @@ ("h" :> "htf") @@ ("v" :> "v3")

(* OutcomeEvaluator: one row of each program, the prospective one with a   *)
(* holding period that ends after its last horizon.                        *)
OutcomeKind == (r1 :> "research") @@ (r2 :> "prospective") @@ (r3 :> "oos")
HoldingTime == (r1 :> 2) @@ (r2 :> 3) @@ (r3 :> 2)
OutcomeLoads == {{r1, r3}, {r2}}

allVars == <<part, analyticsVars, pipelineVars, flowVars, observerVars, evaluatorVars,
             htfVars, sourceVars, meVars, scannerVars>>

(* The choices of Init are made in the part that runs only.                *)
Init ==
    /\ part \in Parts
    /\ AnalyticsInit /\ PipelineInit /\ FlowInit /\ ObserverInit /\ OutcomeInit
    /\ HtfInit /\ SourceInit /\ MeInit /\ ScannerInit
    /\ part # "flow" => candle = [s \in Signals |-> "last"]
    /\ part # "observer" => cand = 1
    /\ part # "outcome" => recorded = {r2}

InAnalytics(A) ==
    /\ part = "analytics" /\ A
    /\ UNCHANGED <<part, pipelineVars, flowVars, observerVars, evaluatorVars, htfVars,
                   sourceVars, meVars, scannerVars>>

InAgents(A) ==
    /\ part = "agents" /\ A
    /\ UNCHANGED <<part, analyticsVars, flowVars, observerVars, evaluatorVars, htfVars,
                   sourceVars, meVars, scannerVars>>

InFlow(A) ==
    /\ part = "flow" /\ A
    /\ UNCHANGED <<part, analyticsVars, pipelineVars, observerVars, evaluatorVars, htfVars,
                   sourceVars, meVars, scannerVars>>

InObserver(A) ==
    /\ part = "observer" /\ A
    /\ UNCHANGED <<part, analyticsVars, pipelineVars, flowVars, evaluatorVars, htfVars,
                   sourceVars, meVars, scannerVars>>

InOutcome(A) ==
    /\ part = "outcome" /\ A
    /\ UNCHANGED <<part, analyticsVars, pipelineVars, flowVars, observerVars, htfVars,
                   sourceVars, meVars, scannerVars>>

InHtf(A) ==
    /\ part = "htf" /\ A
    /\ UNCHANGED <<part, analyticsVars, pipelineVars, flowVars, observerVars,
                   evaluatorVars, sourceVars, meVars, scannerVars>>

InSource(A) ==
    /\ part = "source" /\ A
    /\ UNCHANGED <<part, analyticsVars, pipelineVars, flowVars, observerVars,
                   evaluatorVars, htfVars, meVars, scannerVars>>

InMe(A) ==
    /\ part = "me" /\ A
    /\ UNCHANGED <<part, analyticsVars, pipelineVars, flowVars, observerVars,
                   evaluatorVars, htfVars, sourceVars, scannerVars>>

InScanner(A) ==
    /\ part = "scanner" /\ A
    /\ UNCHANGED <<part, analyticsVars, pipelineVars, flowVars, observerVars,
                   evaluatorVars, htfVars, sourceVars, meVars>>

Next ==
    \/ InAnalytics(AnalyticsNext) \/ InAgents(PipelineNext) \/ InFlow(FlowNext)
    \/ InObserver(ObserverNext) \/ InOutcome(OutcomeNext) \/ InHtf(HtfNext)
    \/ InSource(SourceNext) \/ InMe(MeNext) \/ InScanner(ScannerNext)

Spec == Init /\ [][Next]_allVars
=============================================================================

------------------------------- MODULE MCLive -------------------------------
(* Small TLC instances for the liveness properties of the services.  The   *)
(* parts share no state; fairness is stated for the part that runs.        *)
EXTENDS AgentPipeline, SetupFlow, OutcomeEvaluator, HtfObserver, HtfCandleSource,
        MeShortForward, TLC

CONSTANTS Parts, y, r1, r2, r3

VARIABLE part

(* SetupFlow: the ME capture alone.                                        *)
CaptureKind == y :> "me"
CaptureGate == y :> "ENABLED"

(* OutcomeEvaluator: one row at a time.                                    *)
OutcomeKind == (r1 :> "research") @@ (r2 :> "prospective") @@ (r3 :> "oos")
HoldingTime == (r1 :> 2) @@ (r2 :> 3) @@ (r3 :> 2)
SingleLoads == {{r1}, {r2}, {r3}}

(* HtfObserver: the freeze is before the first bar.                        *)
BeforeTheFirstBar == -1

allVars == <<part, pipelineVars, flowVars, evaluatorVars, htfVars, sourceVars, meVars>>

Init ==
    /\ part \in Parts
    /\ PipelineInit /\ FlowInit /\ OutcomeInit /\ HtfInit /\ SourceInit /\ MeInit
    /\ part # "flow" => candle = [s \in Signals |-> "last"]
    /\ part # "outcome" => recorded = {r2}

InAgents(A) == /\ part = "agents" /\ A
               /\ UNCHANGED <<part, flowVars, evaluatorVars, htfVars, sourceVars, meVars>>
InFlow(A) == /\ part = "flow" /\ A
             /\ UNCHANGED <<part, pipelineVars, evaluatorVars, htfVars, sourceVars, meVars>>
InOutcome(A) == /\ part = "outcome" /\ A
                /\ UNCHANGED <<part, pipelineVars, flowVars, htfVars, sourceVars, meVars>>
InHtf(A) == /\ part = "htf" /\ A
            /\ UNCHANGED <<part, pipelineVars, flowVars, evaluatorVars, sourceVars, meVars>>
InSource(A) == /\ part = "source" /\ A
               /\ UNCHANGED <<part, pipelineVars, flowVars, evaluatorVars, htfVars, meVars>>
InMe(A) == /\ part = "me" /\ A
           /\ UNCHANGED <<part, pipelineVars, flowVars, evaluatorVars, htfVars, sourceVars>>

Next == \/ InAgents(PipelineNext) \/ InFlow(FlowNext) \/ InOutcome(OutcomeNext)
        \/ InHtf(HtfNext) \/ InSource(SourceNext) \/ InMe(MeNext)

Spec == Init /\ [][Next]_allVars

(* Cycles are started again and again; a database that answers some calls  *)
(* of a kind answers one of them completely at some time.                  *)
FlowFairness ==
    /\ WF_allVars(InFlow(FlowCycle)) /\ WF_allVars(InFlow(Acknowledge))
    /\ WF_allVars(InFlow(\E s \in Signals : Observe(s)))
    /\ SF_allVars(InFlow(ReplayConnected))
    /\ \A s \in Signals : SF_allVars(InFlow(ObserveAnswered(s)))

OutcomeFairness ==
    /\ WF_allVars(InOutcome(EvalTick))
    /\ \A e \in Evaluators :
         /\ WF_allVars(InOutcome(ReadRows(e))) /\ WF_allVars(InOutcome(EndEvaluation(e)))
         /\ \A r \in SignalRows :
              /\ WF_allVars(InOutcome(EvaluationAnswers(e, r)))
              /\ SF_allVars(InOutcome(FullyCovered(e, r)))

(* run_loop, or the timer that starts the process, goes on; a source that  *)
(* gives some of the bars again and again gives all of them at some time.  *)
HtfFairness ==
    /\ \A p \in Observers :
         WF_allVars(InHtf(HtfStep(p))) /\ SF_allVars(InHtf(LoadBars(p, Len(hist))))
    /\ WF_allVars(InHtf(DeleteLock))

FairSpec ==
    /\ Spec /\ FlowFairness /\ OutcomeFairness /\ HtfFairness
    /\ WF_allVars(InAgents(PipelineProgress))
    /\ WF_allVars(InSource(LoadProgress)) /\ WF_allVars(InSource(SourceTick))
    /\ WF_allVars(InMe(MeProgress)) /\ WF_allVars(InMe(MeTick))

(* Sessions of the agents end, captures settle and rows get their final    *)
(* outcome.                                                                *)
WorkIsFinished == SessionEnds /\ CaptureSettles /\ EventuallyFinal

(* Events are stored, the backfill catches up with the exchange, and every *)
(* candidate is followed to its outcome.                                   *)
StreamsCatchUp == EventuallyStored /\ BackfillCatchesUp /\ EveryCandidateDecided
=============================================================================

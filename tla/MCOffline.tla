------------------------------ MODULE MCOffline -------------------------------
(* The programs beside the service and the secrets filter, one at a time, and *)
(* values of their constants for TLC.                                         *)
EXTENDS Evaluation, Classifier, Rerank, Percentiles, Redaction

VARIABLE tool       \* which of them is running

vars == <<tool, evalVars, classVars, rerankVars, samples, redactVars>>

Init ==
    /\ tool \in {"benchmark", "classifier", "rerank", "percentile", "filter"}
    /\ EvalInit /\ ClassInit /\ RerankInit /\ PercentilesInit /\ RedactInit

Next ==
    /\ \/ tool = "benchmark"  /\ AskProbe
          /\ UNCHANGED <<classVars, rerankVars, samples, redactVars>>
       \/ tool = "classifier" /\ Train
          /\ UNCHANGED <<evalVars, rerankVars, samples, redactVars>>
       \/ tool = "rerank"     /\ RerankNext
          /\ UNCHANGED <<evalVars, classVars, samples, redactVars>>
       \/ tool = "percentile" /\ Record
          /\ UNCHANGED <<evalVars, classVars, rerankVars, redactVars>>
       \/ tool = "filter"     /\ RedactNext
          /\ UNCHANGED <<evalVars, classVars, rerankVars, samples>>
    /\ UNCHANGED tool

Spec == Init /\ [][Next]_vars

(* Two of the longest memories just fit the budget.                           *)
TokensOf == [m \in Memories |-> IF m = "other" THEN 1 ELSE 2]

(* Texts that share words, or repeat one.                                     *)
Texts == {<<"i">>, <<"i", "use">>, <<"it", "rained">>, <<"i", "it", "it">>}
=============================================================================

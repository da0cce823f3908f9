-------------------------------- MODULE Rerank --------------------------------
(* The reranking experiment (rerank_experiment.py): each scenario stores the  *)
(* true answer and a distractor, searches, reranks what was found with a      *)
(* reranker that takes its time over each candidate, and the verdict weighs   *)
(* the gain in accuracy against the worst latency.                            *)
EXTENDS Naturals, Sequences

CONSTANTS
    Scenarios,      \* how many scenarios are run
    SearchMs,       \* times a search may take
    CandidateMs,    \* simulated_latency_ms
    LatencyBudget   \* LATENCY_BUDGET_MS

(* 80 ms and 100 ms in the code.                                              *)
ASSUME RerankAssumption ==
    /\ Scenarios \in Nat /\ SearchMs \subseteq Nat
    /\ CandidateMs \in Nat /\ LatencyBudget \in Nat
    /\ LatencyBudget <= 2 * CandidateMs

VARIABLES
    left,           \* scenarios still to run
    baseline,       \* scenarios whose first result was right after the search
    reranked,       \* ... and after reranking
    slowest,        \* with_rerank_p95: of so few results, the greatest
    verdict

rerankVars == <<left, baseline, reranked, slowest, verdict>>
------------------------------------------------------------------------------
(* What hybrid_search may return of the two memories, in order.               *)
Found == {<<>>, <<"true">>, <<"distractor">>,
          <<"true", "distractor">>, <<"distractor", "true">>}

(* FakeReranker's sort, by relevance 1.0 and 0.05.                            *)
Reranked(found) == IF Len(found) = 2 THEN <<"true", "distractor">> ELSE found

(* Mutant: the reranker scores all candidates in one call.                    *)
RerankMs_OneCall(found) == CandidateMs

(* It sleeps before each candidate.                                           *)
RerankMs(found) == CandidateMs * Len(found)

Right(found) == IF found # <<>> /\ Head(found) = "true" THEN 1 ELSE 0

RightAfter(found) == Right(Reranked(found))

RunScenario ==
    /\ left > 0
    /\ left' = left - 1
    /\ \E found \in Found, ms \in SearchMs :
         /\ baseline' = baseline + Right(found)
         /\ reranked' = reranked + RightAfter(found)
         /\ slowest' = IF slowest < ms + RerankMs(found)
                         THEN ms + RerankMs(found) ELSE slowest
    /\ UNCHANGED verdict

Decide ==
    /\ left = 0 /\ verdict = "none"
    /\ verdict' = IF reranked > baseline /\ slowest < LatencyBudget
                    THEN "ADOPT" ELSE "REJECT"
    /\ UNCHANGED <<left, baseline, reranked, slowest>>

RerankInit ==
    /\ left = Scenarios /\ baseline = 0 /\ reranked = 0 /\ slowest = 0
    /\ verdict = "none"

RerankNext == RunScenario \/ Decide

RerankSpec == RerankInit /\ [][RerankNext]_rerankVars
------------------------------------------------------------------------------
(* Reranking never costs accuracy in the experiment (run_scenario).           *)
RerankingNeverHurts == baseline <= reranked

(* With these settings the verdict is settled before the experiment runs:     *)
(* accuracy is gained only where both memories were found, and scoring two    *)
(* candidates already takes longer than the budget (FakeReranker's delay      *)
(* against main's rule).                                                      *)
NeverAdopts == verdict # "ADOPT"
------------------------------------------------------------------------------
(* The inductive invariant.                                                   *)
RerankInv ==
    /\ left \in Nat /\ baseline \in Nat /\ reranked \in Nat /\ slowest \in Nat
    /\ RerankingNeverHurts
    /\ reranked > baseline => slowest >= LatencyBudget
    /\ NeverAdopts
=============================================================================

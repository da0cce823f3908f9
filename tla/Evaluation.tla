------------------------------ MODULE Evaluation -----------------------------
(* The two benchmarks over one workload: run_size and collect_error_examples  *)
(* measure the naive store, run_probes the real system, and main prints their *)
(* numbers side by side.  Each round asks one probe.  The naive store may     *)
(* rank its memories in any order; the real system may return, in any order,  *)
(* up to K of those its user owns, the right one among them or not.           *)
EXTENDS Integers, Sequences, FiniteSets, Functions

CONSTANTS
    K,        \* results looked at
    Budget,   \* BUDGET_TOKENS
    Tokens,   \* approx_tokens of each memory's text
    Unit      \* a reciprocal rank of 1, divisible by every rank

(* A store as one probe sees it: the memory that answers it, the stale one or *)
(* another user's one with like wording, fillers of the user and of others.   *)
Memories == {"gold", "poison", "own", "other"}

ASSUME EvaluationAssumption ==
    /\ K \in Nat \ {0} /\ Budget \in Nat
    /\ Tokens \in [Memories -> Nat] /\ \A m \in Memories : K * Tokens[m] <= Budget
    /\ Unit \in Nat /\ \A rank \in 1 .. Cardinality(Memories) : Unit % rank = 0

Probe(scenario, kind, store) ==
    [scenario |-> scenario, kind |-> kind, store |-> store]

(* build_workload: one probe of each shape, in its order; u_new owns nothing. *)
Probes == << Probe("S1", "qa", Memories \ {"poison"}),
             Probe("S2", "qa", Memories),
             Probe("S4", "qa", Memories),
             Probe("S5", "pii", Memories \ {"poison"}),
             Probe("S6", "unanswerable", {"own", "other"}),
             Probe("S6", "coldstart_newuser", {"other"}) >>

Answerable(p) == p.kind \in {"qa", "pii"}
KnownUser(p)  == p.kind # "coldstart_newuser"
Foreign(p)    == {"other"} \cup IF p.scenario = "S4" THEN {"poison"} ELSE {}

VARIABLES
    asked,    \* probes asked so far
    naive,    \* sums of run_size's lists
    real,     \* sums of run_probes' lists
    examples  \* failures in error_examples.jsonl, by category

evalVars == <<asked, naive, real, examples>>

Measures   == {"asked", "hit", "rr", "stale", "leak", "guessed", "exposed", "dropped"}
Categories == {"none", "F2", "F3", "F5", "F6", "coldstart"}
------------------------------------------------------------------------------
Count(b) == IF b THEN 1 ELSE 0

(* A ranking gives each memory its place, from 1.                             *)
Rankings(store) == Bijection(store, 1 .. Cardinality(store))

Top(ranking) == {m \in DOMAIN ranking : ranking[m] <= K}

(* rank_of; 0 is None.                                                        *)
RankOf(ranking, m) == IF m \in DOMAIN ranking THEN ranking[m] ELSE 0

Reciprocal(rank) == IF rank = 0 THEN 0 ELSE Unit \div rank

(* The stale memory is ranked, and the current one after it or not at all.    *)
StaleWins(ranking) ==
    LET g == RankOf(ranking, "gold")  s == RankOf(ranking, "poison") IN
      s # 0 /\ (g = 0 \/ s < g)

(* Mutant: the budget must not be reached.                                    *)
Within_Below(tokens) == tokens < Budget

Within(tokens) == tokens <= Budget

(* What is included when m is: its own tokens and those of all ranked before. *)
TokensUpTo(ranking, m) ==
    UNION {{n} \X (1 .. Tokens[n]) : n \in {o \in DOMAIN ranking : ranking[o] <= ranking[m]}}

(* Greedy inclusion in order of rank, up to the first memory that would       *)
(* exceed the budget.                                                         *)
Included(ranking) ==
    {m \in DOMAIN ranking : Within(Cardinality(TokensUpTo(ranking, m)))}

Tally(sums, p, hit, rr, stale, leak, guessed, exposed, dropped) ==
    LET qa == p.kind = "qa"
        now == [asked   |-> Count(qa),
                hit     |-> Count(qa /\ hit),
                rr      |-> IF qa THEN rr ELSE 0,
                stale   |-> Count(p.scenario = "S2" /\ stale),
                leak    |-> Count(leak),
                guessed |-> Count(~Answerable(p) /\ guessed),
                exposed |-> Count(p.kind = "pii" /\ exposed),
                dropped |-> Count(qa /\ dropped)]
    IN [x \in Measures |-> sums[x] + now[x]]

(* run_size's loop body: ranks come from the full ranking, and every probe of *)
(* a user who owns memories is looked at for a leak.                          *)
RunSize(p, ranking) ==
    LET top == Top(ranking) IN
    naive' = Tally(naive, p, "gold" \in top, Reciprocal(RankOf(ranking, "gold")),
                   StaleWins(ranking), KnownUser(p) /\ top \cap Foreign(p) # {},
                   top # {}, "gold" \in top, "gold" \notin Included(ranking))

(* What hybrid_search may return: some of the user's own memories (row-level  *)
(* security), K at most, ranked by a blend and an embedder of its own.  Floor,*)
(* search limits and abstention may leave the right memory out; whether a     *)
(* stale one was superseded is up to the embedder.                            *)
Results(p) ==
    UNION {Rankings(shown) :
             shown \in {S \in SUBSET (p.store \ Foreign(p)) : Cardinality(S) <= K}}

(* Mutant: a reciprocal rank is counted from the second result.               *)
RealRank_NextRank(result) ==
    LET rank == RankOf(result, "gold") IN
      IF rank = 0 THEN 0 ELSE Unit \div (rank + 1)

(* run_probes knows the rank of what was returned only.                       *)
RealRank(result) == Reciprocal(RankOf(result, "gold"))

(* run_probes' loop body: only S4's probes are looked at for a leak.          *)
RunProbes(p, result) ==
    real' = Tally(real, p, "gold" \in DOMAIN result, RealRank(result),
                  StaleWins(result),
                  p.scenario = "S4" /\ DOMAIN result \cap Foreign(p) # {},
                  DOMAIN result # {}, FALSE, FALSE)

(* Mutant: the stale memory is looked for among the top results only.         *)
StaleExample_TopOnly(ranking) == StaleWins([m \in Top(ranking) |-> ranking[m]])

StaleExample(ranking) == StaleWins(ranking)

(* The failure collect_error_examples files a probe under.                    *)
Category(p, ranking) ==
    LET top == Top(ranking) IN
    CASE p.scenario = "S2" -> IF StaleExample(ranking) THEN "F3" ELSE "none"
      [] p.scenario = "S4" -> IF top \cap Foreign(p) # {} THEN "F5" ELSE "none"
      [] p.kind = "pii"    -> IF "gold" \in top THEN "F6" ELSE "none"
      [] ~Answerable(p)    -> "coldstart"
      [] OTHER             -> IF "gold" \notin top THEN "F2" ELSE "none"

Collect(p, ranking) ==
    examples' = [examples EXCEPT ![Category(p, ranking)] = @ + 1]

AskProbe ==
    /\ asked < Len(Probes)
    /\ asked' = asked + 1
    /\ LET p == Probes[asked + 1] IN
         \E ranking \in Rankings(p.store), result \in Results(p) :
           RunSize(p, ranking) /\ RunProbes(p, result) /\ Collect(p, ranking)

EvalInit ==
    /\ asked = 0
    /\ naive = [x \in Measures |-> 0] /\ real = naive
    /\ examples = [c \in Categories |-> 0]

EvalSpec == EvalInit /\ [][AskProbe]_evalVars
------------------------------------------------------------------------------
(* A sum of reciprocal ranks fits its hits: each hit is worth between 1/K and *)
(* 1, each miss at most `beyond`.                                             *)
Fits(sums, beyond) ==
    /\ sums.hit * (Unit \div K) <= sums.rr
    /\ sums.rr <= sums.hit * Unit + (sums.asked - sums.hit) * beyond

(* The two MRRs that main prints side by side are over the same questions,    *)
(* but they are not the same measure: a miss of the real system, which knows  *)
(* of K results only, counts nothing, one of the naive store, whose full      *)
(* ranking is looked at, up to 1/(K + 1).  With as many hits on both sides    *)
(* the MRRs may still differ, in the order of what was hit (run_size against  *)
(* run_probes).                                                               *)
MrrFitsHits ==
    /\ real.asked = naive.asked
    /\ Fits(real, 0) /\ Fits(naive, Unit \div (K + 1))

(* The examples filed are those the rates count: every stale win and every    *)
(* exposed secret, every guess, the leaks of S4 and the misses of S1 (the     *)
(* order of collect_error_examples' branches against run_size's lists).       *)
ExamplesExplainRates ==
    /\ examples["F3"] = naive.stale /\ examples["F6"] = naive.exposed
    /\ examples["coldstart"] = naive.guessed
    /\ examples["F5"] <= naive.leak
    /\ examples["F2"] <= naive.asked - naive.hit

(* No memory among the first K is counted as dropped for want of budget, as   *)
(* long as K memories of any length fit it (run_size's greedy loop).          *)
DroppedOnlyIfMissed == naive.dropped <= naive.asked - naive.hit
------------------------------------------------------------------------------
(* The inductive invariant: every probe asked moves the sums together.        *)
EvalInv ==
    /\ asked \in 0 .. Len(Probes)
    /\ naive \in [Measures -> Nat] /\ real \in [Measures -> Nat]
    /\ examples \in [Categories -> Nat]
    /\ naive.hit <= naive.asked
    /\ MrrFitsHits
    /\ ExamplesExplainRates /\ DroppedOnlyIfMissed
=============================================================================

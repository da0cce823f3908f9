---------------------------- MODULE Offline_proofs ----------------------------
(* The programs beside the service.  Both benchmarks: whatever ranking and    *)
(* whatever results each probe meets, the sums of reciprocal ranks fit the    *)
(* hits and the examples filed explain the rates.  The reranking experiment:  *)
(* accuracy is gained only in a scenario whose search found both memories,    *)
(* and reranking those took at least the whole budget.  Percentiles are of    *)
(* the sample they should be.  The classifier prototype's counters are exact. *)
EXTENDS Evaluation, Rerank, Percentiles, Classifier, FiniteSetTheorems,
        NaturalsInduction, TLAPS

(* There are four memories, and any store is one of their sets.               *)
LEMMA StoreLemma ==
    ASSUME NEW store \in SUBSET Memories
    PROVE  IsFiniteSet(store) /\ Cardinality(store) \in 0 .. 4
<1>1. ASSUME NEW set, IsFiniteSet(set), NEW n \in Nat, Cardinality(set) <= n, NEW m
      PROVE  IsFiniteSet(set \cup {m}) /\ Cardinality(set \cup {m}) <= n + 1
  <2>1. IsFiniteSet(set \cup {m})
        /\ Cardinality(set \cup {m}) = IF m \in set THEN Cardinality(set)
                                         ELSE Cardinality(set) + 1
    BY <1>1, FS_AddElement
  <2>2. Cardinality(set) \in Nat
    BY <1>1, FS_CardinalityType
  <2>3. Cardinality(set \cup {m}) = Cardinality(set)
        \/ Cardinality(set \cup {m}) = Cardinality(set) + 1
    BY <2>1
  <2> DEFINE size == Cardinality(set)  grown == Cardinality(set \cup {m})
  <2>4. size \in Nat /\ size <= n /\ (grown = size \/ grown = size + 1)
    BY <1>1, <2>2, <2>3
  <2> HIDE DEF size, grown
  <2>5. grown <= n + 1
    BY <1>1, <2>4
  <2> QED BY <2>1, <2>5 DEF grown
<1>2. IsFiniteSet({"gold"}) /\ Cardinality({"gold"}) <= 1
  <2>1. IsFiniteSet({"gold"}) /\ Cardinality({"gold"}) = 1
    BY FS_Singleton
  <2> QED BY <2>1
<1>3. IsFiniteSet({"gold"} \cup {"poison"}) /\ Cardinality({"gold"} \cup {"poison"}) <= 2
  BY <1>1, <1>2
<1>4. IsFiniteSet(({"gold"} \cup {"poison"}) \cup {"own"})
      /\ Cardinality(({"gold"} \cup {"poison"}) \cup {"own"}) <= 3
  BY <1>1, <1>3
<1>5. IsFiniteSet(Memories) /\ Cardinality(Memories) <= 4
  <2>1. (({"gold"} \cup {"poison"}) \cup {"own"}) \cup {"other"} = Memories
    BY DEF Memories
  <2>2. IsFiniteSet((({"gold"} \cup {"poison"}) \cup {"own"}) \cup {"other"})
        /\ Cardinality((({"gold"} \cup {"poison"}) \cup {"own"}) \cup {"other"}) <= 4
    BY <1>1, <1>4
  <2> QED BY <2>1, <2>2
<1>6. IsFiniteSet(store) /\ Cardinality(store) <= Cardinality(Memories)
  BY <1>5, FS_Subset
<1>7. Cardinality(store) \in Nat /\ Cardinality(Memories) \in Nat
  BY <1>5, <1>6, FS_CardinalityType
<1> QED BY <1>5, <1>6, <1>7

(* A ranking gives the memories of its store different places from 1.         *)
LEMMA RankingLemma ==
    ASSUME NEW store \in SUBSET Memories, NEW ranking \in Rankings(store)
    PROVE  /\ DOMAIN ranking = store
           /\ \A m \in store : ranking[m] \in 1 .. 4
           /\ \A m, n \in store : ranking[m] = ranking[n] => m = n
           /\ \A m \in store : \A i \in 1 .. ranking[m] : \E n \in store : ranking[n] = i
<1>1. Cardinality(store) \in 0 .. 4
  BY StoreLemma
<1>2. ranking \in [store -> 1 .. Cardinality(store)]
      /\ (\A m, n \in store : ranking[m] = ranking[n] => m = n)
      /\ (\A i \in 1 .. Cardinality(store) : \E n \in store : ranking[n] = i)
  BY DEF Rankings, Bijection, Injection, Surjection, IsInjective
<1> QED BY <1>1, <1>2

(* The shapes of build_workload: a question is answered by a memory of its    *)
(* store, S2 and S4 ask nothing else, and no store is empty.                  *)
LEMMA ProbeLemma ==
    ASSUME NEW i \in 1 .. Len(Probes)
    PROVE  LET p == Probes[i]
           IN /\ p.store \in SUBSET Memories /\ p.store # {}
              /\ p.kind = "qa" => "gold" \in p.store
              /\ p.scenario \in {"S2", "S4"} => p.kind = "qa"
<1>1. Len(Probes) = 6
  BY DEF Probes
<1>2. Probes[1] = Probe("S1", "qa", Memories \ {"poison"}) /\ Probes[2] = Probe("S2", "qa", Memories)
      /\ Probes[3] = Probe("S4", "qa", Memories)
  BY DEF Probes
<1>3. Probes[4] = Probe("S5", "pii", Memories \ {"poison"})
      /\ Probes[5] = Probe("S6", "unanswerable", {"own", "other"})
      /\ Probes[6] = Probe("S6", "coldstart_newuser", {"other"})
  BY DEF Probes
<1>4. CASE i \in {1, 2, 3}
  BY <1>2, <1>4 DEF Probe, Memories
<1>5. CASE i = 4
  BY <1>3, <1>5 DEF Probe, Memories
<1>6. CASE i = 5
  BY <1>3, <1>6 DEF Probe, Memories
<1>7. CASE i = 6
  BY <1>3, <1>7 DEF Probe, Memories
<1> QED BY <1>1, <1>4, <1>5, <1>6, <1>7

(* Reciprocals of ranks are ordered the other way round.                      *)
LEMMA ReciprocalLemma ==
    ASSUME NEW a \in 1 .. 4, NEW b \in 1 .. 4, a <= b
    PROVE  Unit \div a \in Nat /\ Unit \div b \in Nat /\ Unit \div b <= Unit \div a
<1>1. Unit \in Nat
  BY EvaluationAssumption
<1>2. /\ Unit \div 4 \in Nat /\ Unit \div 4 <= Unit \div 3
      /\ Unit \div 3 \in Nat /\ Unit \div 3 <= Unit \div 2
      /\ Unit \div 2 \in Nat /\ Unit \div 2 <= Unit \div 1
      /\ Unit \div 1 \in Nat
  BY <1>1
<1>3. a \in {1, 2, 3, 4} /\ b \in {1, 2, 3, 4}
  OBVIOUS
<1>4. CASE a = 1
  BY <1>2, <1>3, <1>4
<1>5. CASE a = 2
  BY <1>2, <1>3, <1>5
<1>6. CASE a = 3
  BY <1>2, <1>3, <1>6
<1>7. CASE a = 4
  BY <1>2, <1>3, <1>7
<1> QED BY <1>3, <1>4, <1>5, <1>6, <1>7

LEMMA DivisionLemma ==
    ASSUME NEW a \in 1 .. 4, NEW b \in Nat, a <= b
    PROVE  Unit \div b <= Unit \div a
<1>1. CASE b \in 1 .. 4
  BY <1>1, ReciprocalLemma
<1>2. CASE b > 4
  <2>1. Unit \in Nat
    BY EvaluationAssumption
  <2>2. Unit \div b <= Unit \div 4
    <3> DEFINE q == Unit \div b
               r == Unit \div 4
    <3>1. q \in Nat /\ q * b <= Unit
      BY <1>2, <2>1
    <3>2. r \in Nat /\ Unit < 4 * r + 4
      BY <2>1
    <3> HIDE DEF q, r
    <3>3. 4 * q <= q * b
      BY <3>1, <1>2
    <3>4. 4 * q < 4 * r + 4
      BY <3>1, <3>2, <3>3, <2>1
    <3>5. q <= r
      BY <3>1, <3>2, <3>4
    <3> QED
      BY <3>5 DEF q, r
  <2>3. Unit \div b \in Nat /\ Unit \div 4 \in Nat /\ Unit \div a \in Nat
    BY <1>2, <2>1
  <2>4. Unit \div 4 <= Unit \div a
    BY ReciprocalLemma
  <2> QED
    BY <2>2, <2>3, <2>4
<1> QED
  BY <1>1, <1>2

(* The answer's reciprocal rank is at least 1/K among the first K of a        *)
(* ranking, at most 1/(K + 1) after them, and at most 1 anywhere.             *)
LEMMA RankLemma ==
    ASSUME NEW store \in SUBSET Memories, NEW ranking \in Rankings(store)
    PROVE  LET rr == Reciprocal(RankOf(ranking, "gold"))
           IN /\ rr \in Nat /\ rr <= Unit
              /\ "gold" \in Top(ranking) => Unit \div K <= rr
              /\ "gold" \notin Top(ranking) => rr <= Unit \div (K + 1)
              /\ "gold" \notin store => rr = 0
<1> DEFINE rr == Reciprocal(RankOf(ranking, "gold"))
<1>1. DOMAIN ranking = store /\ \A m \in store : ranking[m] \in 1 .. 4
  BY RankingLemma
<1>2. Unit \in Nat /\ K \in Nat \ {0} /\ Unit \div (K + 1) \in Nat
  BY EvaluationAssumption
<1>3. rr = IF "gold" \in store THEN Unit \div ranking["gold"] ELSE 0
  BY <1>1 DEF Reciprocal, RankOf
<1>4. Top(ranking) = {m \in store : ranking[m] <= K}
  BY <1>1 DEF Top
<1> HIDE DEF rr
<1>5. CASE "gold" \notin store
  BY <1>2, <1>3, <1>4, <1>5 DEF rr
<1>6. CASE "gold" \in store
  <2> DEFINE rank == ranking["gold"]
  <2>1. rank \in 1 .. 4 /\ rr = Unit \div rank
    BY <1>1, <1>3, <1>6
  <2> HIDE DEF rank
  <2>2. rr \in Nat /\ rr <= Unit \div 1 /\ Unit \div 1 = Unit
    BY <2>1, <1>2, ReciprocalLemma
  <2>3. rank <= K => Unit \div K <= rr
    BY <2>1, <1>2, DivisionLemma
  <2>4. ~(rank <= K) => rr <= Unit \div (K + 1)
    <3>1. ~(rank <= K) => K + 1 \in 1 .. 4 /\ K + 1 <= rank
      BY <2>1, <1>2
    <3> QED
      BY <2>1, <3>1, ReciprocalLemma
  <2> QED
    BY <1>4, <1>6, <2>2, <2>3, <2>4 DEF rr, rank
<1> QED
  BY <1>5, <1>6

(* What hybrid_search returns is ranked within the first K.                   *)
LEMMA ResultLemma ==
    ASSUME NEW p, p.store \in SUBSET Memories, NEW result \in Results(p)
    PROVE  LET rr == RealRank(result)
           IN /\ rr \in Nat
              /\ "gold" \in DOMAIN result => Unit \div K <= rr /\ rr <= Unit
              /\ "gold" \notin DOMAIN result => rr = 0
<1>1. PICK shown \in SUBSET p.store :
        Cardinality(shown) <= K /\ result \in Rankings(shown)
  BY DEF Results
<1>2. shown \in SUBSET Memories /\ K \in Nat
  BY EvaluationAssumption
<1>3. DOMAIN result = shown /\ \A m \in shown : result[m] \in 1 .. Cardinality(shown)
  BY <1>1 DEF Rankings, Bijection, Injection
<1>4. Cardinality(shown) \in Nat
  BY <1>2, StoreLemma
<1>5. "gold" \in shown => "gold" \in Top(result)
  BY <1>1, <1>2, <1>3, <1>4 DEF Top
<1> QED
  BY <1>1, <1>2, <1>3, <1>5, RankLemma DEF RealRank

(* The naive store always returns something, for no store is empty.           *)
LEMMA TopLemma ==
    ASSUME NEW store \in SUBSET Memories, store # {}, NEW ranking \in Rankings(store)
    PROVE  Top(ranking) # {}
<1>1. PICK m \in store : TRUE
  OBVIOUS
<1>2. DOMAIN ranking = store /\ ranking[m] \in 1 .. 4
      /\ \A i \in 1 .. ranking[m] : \E n \in store : ranking[n] = i
  BY RankingLemma
<1>3. PICK n \in store : ranking[n] = 1
  BY <1>2
<1>4. 1 <= K
  BY EvaluationAssumption
<1> QED BY <1>2, <1>3, <1>4 DEF Top

(* The first K memories fit the budget together with all ranked before them.  *)
LEMMA IncludedLemma ==
    ASSUME NEW store \in SUBSET Memories, NEW ranking \in Rankings(store)
    PROVE  Top(ranking) \subseteq Included(ranking)
<1> DEFINE most      == Budget \div K
           before(m) == {o \in store : ranking[o] <= ranking[m]}
<1>1. K \in Nat /\ K > 0 /\ Budget \in Nat /\ most \in Nat /\ K * most <= Budget
  BY EvaluationAssumption
<1>2. /\ DOMAIN ranking = store
      /\ \A m \in store : ranking[m] \in 1 .. 4
      /\ \A m, n \in store : ranking[m] = ranking[n] => m = n
  BY RankingLemma
<1>3. \A n \in store : Tokens[n] \in 0 .. most
  <2> SUFFICES ASSUME NEW n \in store PROVE Tokens[n] \in 0 .. most
    OBVIOUS
  <2>1. Tokens[n] \in Nat /\ K * Tokens[n] <= Budget
    BY EvaluationAssumption
  <2> QED BY <2>1, <1>1
<1> HIDE DEF most
<1>4. SUFFICES ASSUME NEW m \in Top(ranking)
               PROVE  Cardinality(TokensUpTo(ranking, m)) <= Budget
  BY <1>2 DEF Top, Included, Within
<1>5. m \in store /\ ranking[m] \in 1 .. 4 /\ ranking[m] <= K
  BY <1>2 DEF Top
<1>6. IsFiniteSet(before(m)) /\ Cardinality(before(m)) \in Nat
  <2>1. before(m) \in SUBSET Memories
    OBVIOUS
  <2> HIDE DEF before
  <2> QED BY <2>1, StoreLemma
<1>7. Cardinality(before(m)) <= K
  <2> DEFINE f == [n \in before(m) |-> ranking[n]]
  <2>1. f \in Injection(before(m), 1 .. K)
    BY <1>1, <1>2, <1>5 DEF Injection, IsInjective
  <2>2. IsFiniteSet(1 .. K)
    BY <1>1, FS_Interval
  <2>3. Cardinality(1 .. K) = K
    BY <1>1, FS_Interval
  <2> HIDE DEF before, f
  <2>4. Cardinality(before(m)) <= Cardinality(1 .. K)
    BY <2>1, <2>2, FS_Injection
  <2> QED BY <2>3, <2>4
<1>8. TokensUpTo(ranking, m) \in SUBSET (before(m) \X (1 .. most))
  BY <1>1, <1>2, <1>3 DEF TokensUpTo
<1> HIDE DEF before
<1>9. IsFiniteSet(1 .. most)
  BY <1>1, FS_Interval
<1>10. Cardinality(1 .. most) = most
  BY <1>1, FS_Interval
<1>11. IsFiniteSet(before(m) \X (1 .. most))
       /\ Cardinality(before(m) \X (1 .. most)) = Cardinality(before(m)) * Cardinality(1 .. most)
  BY <1>6, <1>9, FS_Product
<1>12. IsFiniteSet(TokensUpTo(ranking, m))
       /\ Cardinality(TokensUpTo(ranking, m)) <= Cardinality(before(m) \X (1 .. most))
  BY <1>8, <1>11, FS_Subset
<1>13. Cardinality(TokensUpTo(ranking, m)) \in Nat
  BY <1>12, FS_CardinalityType
<1>14. \A c \in Nat : c <= K => c * most <= K * most
  BY <1>1
<1> QED BY <1>1, <1>6, <1>7, <1>10, <1>11, <1>12, <1>13, <1>14

(* Nothing was asked yet.                                                     *)
LEMMA EvalInitLemma == EvalInit => EvalInv
<1> SUFFICES ASSUME EvalInit PROVE EvalInv
  OBVIOUS
<1>1. Len(Probes) = 6 /\ Unit \div (K + 1) \in Nat
  BY EvaluationAssumption DEF Probes
<1>2. \A x \in Measures : naive[x] = 0 /\ real[x] = 0
  BY DEF EvalInit
<1>3. /\ naive.asked = 0 /\ naive.hit = 0 /\ naive.rr = 0 /\ naive.stale = 0
      /\ naive.leak = 0 /\ naive.guessed = 0 /\ naive.exposed = 0 /\ naive.dropped = 0
  BY <1>2 DEF Measures
<1>4. /\ real.asked = 0 /\ real.hit = 0 /\ real.rr = 0 /\ real.stale = 0
      /\ real.leak = 0 /\ real.guessed = 0
  BY <1>2 DEF Measures
<1>5. DroppedOnlyIfMissed
  BY <1>3, <1>4 DEF DroppedOnlyIfMissed
<1>6. MrrFitsHits
  <2>1. Unit \in Nat /\ K \in Nat \ {0} /\ Unit \div K \in Nat
    BY EvaluationAssumption
  <2> QED
    BY <1>1, <1>3, <1>4, <2>1 DEF MrrFitsHits, Fits
<1>7. ExamplesExplainRates
  BY <1>3 DEF ExamplesExplainRates, EvalInit, Categories
<1> QED BY <1>1, <1>3, <1>5, <1>6, <1>7 DEF EvalInit, EvalInv

(* One more question, a hit or a miss, keeps a sum of reciprocal ranks within *)
(* its bounds.                                                                *)
LEMMA FitsLemma ==
    ASSUME NEW s, NEW t, NEW beyond \in Nat,
           s.hit \in Nat, s.asked \in Nat, s.rr \in Nat, t.rr \in Nat,
           t.asked = s.asked + 1,
           \/ t.hit = s.hit + 1 /\ s.rr + (Unit \div K) <= t.rr /\ t.rr <= s.rr + Unit
           \/ t.hit = s.hit /\ s.rr <= t.rr /\ t.rr <= s.rr + beyond,
           Fits(s, beyond)
    PROVE  Fits(t, beyond)
<1> DEFINE low == Unit \div K
           hit == s.hit
           miss == s.asked - s.hit
<1>1. low \in Nat /\ Unit \in Nat
  BY EvaluationAssumption
<1> HIDE DEF low
<1> DEFINE a == hit * low
           b == hit * Unit
           c == miss * beyond
<1>2. /\ a \in Nat /\ b \in Nat /\ c \in Int /\ miss \in Int
      /\ (hit + 1) * low = a + low /\ (hit + 1) * Unit = b + Unit
      /\ (miss + 1) * beyond = c + beyond
  BY <1>1
<1>3. a <= s.rr /\ s.rr <= b + c
  BY DEF Fits, low
<1>4. CASE t.hit = s.hit + 1 /\ s.rr + (Unit \div K) <= t.rr /\ t.rr <= s.rr + Unit
  <2>1. t.asked - t.hit = miss
    BY <1>4
  <2>2. t.hit * low = a + low /\ t.hit * Unit = b + Unit
        /\ (t.asked - t.hit) * beyond = c
    BY <1>2, <1>4, <2>1
  <2> HIDE DEF a, b, c
  <2>3. a + low <= t.rr /\ t.rr <= b + Unit + c
    BY <1>1, <1>2, <1>3, <1>4 DEF low
  <2> QED
    BY <2>2, <2>3 DEF Fits, low
<1>5. CASE t.hit = s.hit /\ s.rr <= t.rr /\ t.rr <= s.rr + beyond
  <2>1. t.asked - t.hit = miss + 1
    BY <1>5
  <2>2. t.hit * low = a /\ t.hit * Unit = b
        /\ (t.asked - t.hit) * beyond = c + beyond
    BY <1>2, <1>5, <2>1
  <2> HIDE DEF a, b, c
  <2>3. a <= t.rr /\ t.rr <= b + (c + beyond)
    BY <1>1, <1>2, <1>3, <1>5
  <2> QED
    BY <2>2, <2>3 DEF Fits, low
<1> QED
  BY <1>4, <1>5

(* Which failure a probe is filed under, if any.                              *)
LEMMA CategoryLemma ==
    ASSUME NEW i \in 1 .. Len(Probes), NEW ranking
    PROVE  LET p == Probes[i]
               c == Category(p, ranking)
           IN /\ c \in Categories
              /\ c = "F3" <=> p.scenario = "S2" /\ StaleWins(ranking)
              /\ c = "F6" <=> p.kind = "pii" /\ "gold" \in Top(ranking)
              /\ c = "coldstart" <=> ~Answerable(p)
              /\ c = "F5" => p.scenario = "S4" /\ Top(ranking) \cap Foreign(p) # {}
              /\ c = "F2" => p.kind = "qa" /\ "gold" \notin Top(ranking)
<1> DEFINE p == Probes[i]
           c == Category(p, ranking)
<1>1. p.scenario \in {"S2", "S4"} => p.kind = "qa"
  BY ProbeLemma
<1> HIDE DEF p
<1>2. CASE p.scenario = "S2"
  <2>1. c = IF StaleWins(ranking) THEN "F3" ELSE "none"
    BY <1>1, <1>2 DEF Category, StaleExample, Answerable
  <2> HIDE DEF c
  <2> QED BY <2>1, <1>1, <1>2 DEF Categories, Answerable, p, c
<1>3. CASE p.scenario = "S4"
  <2>1. c = IF Top(ranking) \cap Foreign(p) # {} THEN "F5" ELSE "none"
    BY <1>1, <1>3 DEF Category, Answerable
  <2> HIDE DEF c
  <2> QED BY <2>1, <1>1, <1>3 DEF Categories, Answerable, p, c
<1>4. CASE p.scenario \notin {"S2", "S4"} /\ p.kind = "pii"
  <2>1. c = IF "gold" \in Top(ranking) THEN "F6" ELSE "none"
    BY <1>4 DEF Category, Answerable
  <2> HIDE DEF c
  <2> QED BY <2>1, <1>4 DEF Categories, Answerable, p, c
<1>5. CASE p.scenario \notin {"S2", "S4"} /\ ~Answerable(p)
  <2>1. c = "coldstart"
    BY <1>5 DEF Category, Answerable
  <2> HIDE DEF c
  <2> QED BY <2>1, <1>5 DEF Categories, Answerable, p, c
<1>6. CASE p.scenario \notin {"S2", "S4"} /\ p.kind = "qa"
  <2>1. c = IF "gold" \notin Top(ranking) THEN "F2" ELSE "none"
    BY <1>6 DEF Category, Answerable
  <2> HIDE DEF c
  <2> QED BY <2>1, <1>6 DEF Categories, Answerable, p, c
<1> QED BY <1>2, <1>3, <1>4, <1>5, <1>6 DEF Answerable

(* Every probe preserves the invariant.                                       *)
LEMMA EvalStepLemma == EvalInv /\ [AskProbe]_evalVars => EvalInv'
<1> SUFFICES ASSUME EvalInv, [AskProbe]_evalVars PROVE EvalInv'
  OBVIOUS
<1>1. CASE AskProbe
  <2> DEFINE p == Probes[asked + 1]
  <2>1. asked \in Nat /\ asked + 1 \in 1 .. Len(Probes) /\ asked' = asked + 1
    <3>1. Len(Probes) = 6
      BY DEF Probes
    <3> QED BY <1>1, <3>1 DEF AskProbe, EvalInv
  <2>2. PICK ranking \in Rankings(p.store), result \in Results(p) :
          RunSize(p, ranking) /\ RunProbes(p, result) /\ Collect(p, ranking)
    BY <1>1 DEF AskProbe
  <2>3. /\ p.store \in SUBSET Memories /\ p.store # {}
        /\ p.kind = "qa" => "gold" \in p.store
        /\ p.scenario \in {"S2", "S4"} => p.kind = "qa"
    BY <2>1, ProbeLemma
  <2> DEFINE top    == Top(ranking)
             low    == Reciprocal(RankOf(ranking, "gold"))
             high   == RealRank(result)
             leaks  == KnownUser(p) /\ top \cap Foreign(p) # {}
             shows  == p.scenario = "S4" /\ DOMAIN result \cap Foreign(p) # {}
             qa     == p.kind = "qa"
             u      == Unit \div (K + 1)
             c      == Category(p, ranking)
  <2>4. /\ naive' \in [Measures -> Nat]
        /\ naive'.asked = naive.asked + IF qa THEN 1 ELSE 0
        /\ naive'.hit = naive.hit + IF qa /\ "gold" \in top THEN 1 ELSE 0
        /\ naive'.rr = naive.rr + IF qa THEN low ELSE 0
        /\ naive'.stale = naive.stale + IF p.scenario = "S2" /\ StaleWins(ranking) THEN 1 ELSE 0
        /\ naive'.leak = naive.leak + IF leaks THEN 1 ELSE 0
        /\ naive'.guessed = naive.guessed + IF ~Answerable(p) /\ top # {} THEN 1 ELSE 0
        /\ naive'.exposed = naive.exposed + IF p.kind = "pii" /\ "gold" \in top THEN 1 ELSE 0
        /\ naive'.dropped = naive.dropped
                              + IF qa /\ "gold" \notin Included(ranking) THEN 1 ELSE 0
    <3>1. naive' = Tally(naive, p, "gold" \in top, low, StaleWins(ranking), leaks,
                         top # {}, "gold" \in top, "gold" \notin Included(ranking))
      BY <2>2 DEF RunSize
    <3>2. naive \in [Measures -> Nat] /\ low \in Nat
      BY <2>3, RankLemma DEF EvalInv
    <3> HIDE DEF top, low, leaks, p
    <3>3. /\ naive'.asked = naive.asked + IF qa THEN 1 ELSE 0
          /\ naive'.hit = naive.hit + IF qa /\ "gold" \in top THEN 1 ELSE 0
          /\ naive'.rr = naive.rr + IF qa THEN low ELSE 0
          /\ naive'.stale = naive.stale + IF p.scenario = "S2" /\ StaleWins(ranking) THEN 1 ELSE 0
      BY <3>1 DEF Tally, Measures, Count
    <3>4. /\ naive'.leak = naive.leak + IF leaks THEN 1 ELSE 0
          /\ naive'.guessed = naive.guessed + IF ~Answerable(p) /\ top # {} THEN 1 ELSE 0
          /\ naive'.exposed = naive.exposed + IF p.kind = "pii" /\ "gold" \in top THEN 1 ELSE 0
          /\ naive'.dropped = naive.dropped
                                + IF qa /\ "gold" \notin Included(ranking) THEN 1 ELSE 0
      BY <3>1 DEF Tally, Measures, Count
    <3>5. naive' = [x \in Measures |-> naive'[x]]
      BY <3>1 DEF Tally
    <3>6. /\ naive.asked \in Nat /\ naive.hit \in Nat /\ naive.rr \in Nat /\ naive.stale \in Nat
          /\ naive.leak \in Nat /\ naive.guessed \in Nat /\ naive.exposed \in Nat
          /\ naive.dropped \in Nat
      BY <3>2 DEF Measures
    <3>7. \A x \in Measures : naive'[x] \in Nat
      BY <3>2, <3>3, <3>4, <3>6 DEF Measures
    <3> QED BY <3>3, <3>4, <3>5, <3>7
  <2>5. /\ real' \in [Measures -> Nat]
        /\ real'.asked = real.asked + IF qa THEN 1 ELSE 0
        /\ real'.hit = real.hit + IF qa /\ "gold" \in DOMAIN result THEN 1 ELSE 0
        /\ real'.rr = real.rr + IF qa THEN high ELSE 0
        /\ real'.stale = real.stale + IF p.scenario = "S2" /\ StaleWins(result) THEN 1 ELSE 0
        /\ real'.leak = real.leak + IF shows THEN 1 ELSE 0
        /\ real'.guessed = real.guessed + IF ~Answerable(p) /\ DOMAIN result # {} THEN 1 ELSE 0
    <3>1. real' = Tally(real, p, "gold" \in DOMAIN result, high, StaleWins(result), shows,
                        DOMAIN result # {}, FALSE, FALSE)
      BY <2>2 DEF RunProbes
    <3>2. real \in [Measures -> Nat] /\ high \in Nat
      BY <2>3, ResultLemma DEF EvalInv
    <3> HIDE DEF high, shows, p
    <3>3. /\ real'.asked = real.asked + IF qa THEN 1 ELSE 0
          /\ real'.hit = real.hit + IF qa /\ "gold" \in DOMAIN result THEN 1 ELSE 0
          /\ real'.rr = real.rr + IF qa THEN high ELSE 0
          /\ real'.stale = real.stale + IF p.scenario = "S2" /\ StaleWins(result) THEN 1 ELSE 0
      BY <3>1 DEF Tally, Measures, Count
    <3>4. /\ real'.leak = real.leak + IF shows THEN 1 ELSE 0
          /\ real'.guessed = real.guessed + IF ~Answerable(p) /\ DOMAIN result # {} THEN 1 ELSE 0
          /\ real'.exposed = real.exposed /\ real'.dropped = real.dropped
      BY <3>1, <3>2 DEF Tally, Measures, Count
    <3>5. real' = [x \in Measures |-> real'[x]]
      BY <3>1 DEF Tally
    <3>6. /\ real.asked \in Nat /\ real.hit \in Nat /\ real.rr \in Nat /\ real.stale \in Nat
          /\ real.leak \in Nat /\ real.guessed \in Nat /\ real.exposed \in Nat
          /\ real.dropped \in Nat
      BY <3>2 DEF Measures
    <3>7. \A x \in Measures : real'[x] \in Nat
      BY <3>2, <3>3, <3>4, <3>6 DEF Measures
    <3> QED BY <3>3, <3>4, <3>5, <3>7
  <2>6. /\ naive.asked \in Nat /\ naive.hit \in Nat /\ naive.rr \in Nat /\ naive.stale \in Nat
        /\ naive.leak \in Nat /\ naive.guessed \in Nat /\ naive.exposed \in Nat
        /\ naive.dropped \in Nat
        /\ real.asked \in Nat /\ real.hit \in Nat /\ real.rr \in Nat /\ real.stale \in Nat
        /\ real.leak \in Nat /\ real.guessed \in Nat
    BY DEF EvalInv, Measures
  <2>7. naive'.hit <= naive'.asked
    <3>1. naive.hit <= naive.asked
      BY DEF EvalInv
    <3> HIDE DEF qa, top
    <3> QED BY <2>4, <2>6, <3>1
  <2>8. MrrFitsHits'
    <3>1. /\ low \in Nat /\ low <= Unit
          /\ "gold" \in top => Unit \div K <= low
          /\ "gold" \notin top => low <= u
      BY <2>3, RankLemma
    <3>2. /\ high \in Nat
          /\ "gold" \in DOMAIN result => Unit \div K <= high /\ high <= Unit
          /\ "gold" \notin DOMAIN result => high <= 0
      BY <2>3, ResultLemma
    <3>3. u \in Nat /\ Unit \div K \in Nat /\ Unit \in Nat
      BY EvaluationAssumption
    <3>4. real.asked = naive.asked /\ Fits(real, 0) /\ Fits(naive, u)
      BY DEF EvalInv, MrrFitsHits
    <3> HIDE DEF top, low, high, u, p, qa
    <3>5. CASE ~qa
      <4>1. /\ naive'.asked = naive.asked /\ naive'.hit = naive.hit
            /\ naive'.rr = naive.rr
            /\ real'.asked = real.asked /\ real'.hit = real.hit
            /\ real'.rr = real.rr
        BY <3>5, <2>4, <2>5, <2>6
      <4> QED BY <4>1, <3>4 DEF MrrFitsHits, Fits, u
    <3>6. CASE qa
      <4>1. Fits(naive', u)
        <5>1. /\ naive'.asked = naive.asked + 1 /\ naive'.rr = naive.rr + low
              /\ naive'.hit = naive.hit + IF "gold" \in top THEN 1 ELSE 0
          BY <3>6, <2>4
        <5>2. \/ /\ naive'.hit = naive.hit + 1
                 /\ naive.rr + (Unit \div K) <= naive'.rr /\ naive'.rr <= naive.rr + Unit
              \/ /\ naive'.hit = naive.hit
                 /\ naive.rr <= naive'.rr /\ naive'.rr <= naive.rr + u
          BY <5>1, <2>6, <3>1, <3>3
        <5> QED
          BY <5>1, <5>2, <2>6, <3>1, <3>3, <3>4, FitsLemma
      <4>2. Fits(real', 0)
        <5>1. /\ real'.asked = real.asked + 1 /\ real'.rr = real.rr + high
              /\ real'.hit = real.hit + IF "gold" \in DOMAIN result THEN 1 ELSE 0
          BY <3>6, <2>5
        <5>2. \/ /\ real'.hit = real.hit + 1
                 /\ real.rr + (Unit \div K) <= real'.rr /\ real'.rr <= real.rr + Unit
              \/ /\ real'.hit = real.hit
                 /\ real.rr <= real'.rr /\ real'.rr <= real.rr + 0
          BY <5>1, <2>6, <3>2, <3>3
        <5> QED
          BY <5>1, <5>2, <2>6, <3>2, <3>3, <3>4, FitsLemma
      <4>3. real'.asked = naive'.asked
        BY <3>4, <3>6, <2>4, <2>5
      <4> QED
        BY <4>1, <4>2, <4>3 DEF MrrFitsHits, u, Fits
    <3> QED BY <3>5, <3>6
  <2>10. examples' \in [Categories -> Nat] /\ ExamplesExplainRates'
    <3>1. /\ c \in Categories
          /\ c = "F3" <=> p.scenario = "S2" /\ StaleWins(ranking)
          /\ c = "F6" <=> p.kind = "pii" /\ "gold" \in top
          /\ c = "coldstart" <=> ~Answerable(p)
          /\ c = "F5" => p.scenario = "S4" /\ top \cap Foreign(p) # {}
          /\ c = "F2" => qa /\ "gold" \notin top
      BY <2>1, CategoryLemma
    <3>2. c = "F5" => leaks
      BY <2>3, <3>1 DEF KnownUser
    <3>3. top # {}
      BY <2>3, TopLemma
    <3>4. examples' = [examples EXCEPT ![c] = @ + 1] /\ examples \in [Categories -> Nat]
      BY <2>2 DEF Collect, EvalInv
    <3> HIDE DEF c, top, leaks, p, qa
    <3>5. examples' \in [Categories -> Nat]
          /\ \A x \in Categories : examples'[x] = IF x = c THEN examples[x] + 1 ELSE examples[x]
      BY <3>1, <3>4
    <3>6. \A x \in Categories : examples[x] \in Nat
      BY <3>4
    <3>7. /\ examples["F3"] = naive.stale /\ examples["F6"] = naive.exposed
          /\ examples["coldstart"] = naive.guessed
          /\ examples["F5"] <= naive.leak
          /\ examples["F2"] <= naive.asked - naive.hit
      BY DEF EvalInv, ExamplesExplainRates
    <3>8. /\ examples'["F3"] = naive'.stale /\ examples'["F6"] = naive'.exposed
          /\ examples'["coldstart"] = naive'.guessed
      BY <2>4, <2>6, <3>1, <3>3, <3>5, <3>6, <3>7 DEF Categories
    <3>9. examples'["F5"] <= naive'.leak
      BY <2>4, <2>6, <3>2, <3>5, <3>6, <3>7 DEF Categories
    <3>10. examples'["F2"] <= naive'.asked - naive'.hit
      BY <2>4, <2>6, <3>1, <3>5, <3>6, <3>7 DEF Categories
    <3> QED BY <3>5, <3>8, <3>9, <3>10 DEF ExamplesExplainRates
  <2>11. DroppedOnlyIfMissed'
    <3>1. "gold" \in top => "gold" \in Included(ranking)
      BY <2>3, IncludedLemma
    <3>2. naive.dropped <= naive.asked - naive.hit
      BY DEF EvalInv, DroppedOnlyIfMissed
    <3> HIDE DEF top, p, qa
    <3>3. naive'.dropped <= naive'.asked - naive'.hit
      BY <2>4, <2>6, <3>1, <3>2
    <3> QED BY <3>3 DEF DroppedOnlyIfMissed
  <2>12. asked' \in 0 .. Len(Probes)
    BY <2>1 DEF EvalInv
  <2> QED BY <2>4, <2>5, <2>7, <2>8, <2>10, <2>11, <2>12 DEF EvalInv
<1>2. CASE UNCHANGED evalVars
  BY <1>2 DEF evalVars, EvalInv, MrrFitsHits, Fits, ExamplesExplainRates,
              DroppedOnlyIfMissed
<1> QED BY <1>1, <1>2

(* The inductive invariant of the comparison: each probe moves the sums of    *)
(* both benchmarks and the filed examples together.                           *)
THEOREM EvalInductive == EvalSpec => []EvalInv
<1> QED BY EvalInitLemma, EvalStepLemma, PTL DEF EvalSpec

(* The MRR of either benchmark fits its hits, each in its own way.            *)
THEOREM MrrsFitHits == EvalSpec => []MrrFitsHits
<1>1. EvalInv => MrrFitsHits
  BY DEF EvalInv
<1> QED BY EvalInductive, <1>1, PTL

(* The examples filed by collect_error_examples are those run_size counts.    *)
THEOREM ExamplesMatchRates == EvalSpec => []ExamplesExplainRates
<1>1. EvalInv => ExamplesExplainRates
  BY DEF EvalInv
<1> QED BY EvalInductive, <1>1, PTL

(* Nothing among the first K is counted as dropped for want of budget.        *)
THEOREM TopFitsBudget == EvalSpec => []DroppedOnlyIfMissed
<1>1. EvalInv => DroppedOnlyIfMissed
  BY DEF EvalInv
<1> QED BY EvalInductive, <1>1, PTL
------------------------------------------------------------------------------
(* One scenario: the reranked order is at least as good, and a better one     *)
(* cost two candidates' time (run_scenario).                                  *)
LEMMA ScenarioLemma ==
    ASSUME NEW found \in Found
    PROVE  /\ Right(found) \in {0, 1} /\ RightAfter(found) \in {0, 1}
           /\ Right(found) <= RightAfter(found)
           /\ RerankMs(found) \in Nat
           /\ Right(found) < RightAfter(found) =>
                RerankMs(found) = 2 * CandidateMs
<1>1. CASE found = <<>>
  BY <1>1, RerankAssumption DEF Right, RightAfter, Reranked, RerankMs
<1>2. CASE found = <<"true">>
  BY <1>2, RerankAssumption DEF Right, RightAfter, Reranked, RerankMs
<1>3. CASE found = <<"distractor">>
  BY <1>3, RerankAssumption DEF Right, RightAfter, Reranked, RerankMs
<1>4. CASE found = <<"true", "distractor">>
  BY <1>4, RerankAssumption DEF Right, RightAfter, Reranked, RerankMs
<1>5. CASE found = <<"distractor", "true">>
  BY <1>5, RerankAssumption DEF Right, RightAfter, Reranked, RerankMs
<1> QED BY <1>1, <1>2, <1>3, <1>4, <1>5 DEF Found

(* The invariant holds before the first scenario.                             *)
LEMMA RerankInitLemma == RerankInit => RerankInv
BY RerankAssumption DEF RerankInit, RerankInv, RerankingNeverHurts, NeverAdopts

(* Every scenario and the verdict preserve it.                                *)
LEMMA RerankStepLemma == RerankInv /\ [RerankNext]_rerankVars => RerankInv'
<1> SUFFICES ASSUME RerankInv, [RerankNext]_rerankVars PROVE RerankInv'
  OBVIOUS
<1> USE DEF RerankInv, RerankingNeverHurts, NeverAdopts
<1>1. CASE RunScenario
  <2>1. PICK found \in Found, ms \in SearchMs :
          /\ baseline' = baseline + Right(found)
          /\ reranked' = reranked + RightAfter(found)
          /\ slowest' = IF slowest < ms + RerankMs(found)
                          THEN ms + RerankMs(found) ELSE slowest
    BY <1>1 DEF RunScenario
  <2>2. ms \in Nat /\ CandidateMs \in Nat /\ LatencyBudget \in Nat
        /\ LatencyBudget <= 2 * CandidateMs
    BY RerankAssumption
  <2>3. left' \in Nat /\ verdict' = verdict
    BY <1>1 DEF RunScenario
  <2>4. baseline' \in Nat /\ reranked' \in Nat /\ slowest' \in Nat
        /\ baseline' <= reranked'
    BY <2>1, <2>2, ScenarioLemma
  <2>5. slowest' >= slowest /\ slowest' >= RerankMs(found)
    BY <2>1, <2>2, ScenarioLemma
  <2>6. reranked' > baseline' => slowest' >= LatencyBudget
    <3>1. CASE reranked > baseline
      BY <3>1, <2>2, <2>4, <2>5
    <3>2. CASE Right(found) < RightAfter(found)
      BY <3>2, <2>2, <2>4, <2>5, ScenarioLemma
    <3>3. CASE ~(reranked > baseline) /\ ~(Right(found) < RightAfter(found))
      BY <3>3, <2>1, ScenarioLemma
    <3> QED BY <3>1, <3>2, <3>3
  <2> QED BY <2>3, <2>4, <2>6
<1>2. CASE Decide
  BY <1>2, RerankAssumption DEF Decide
<1>3. CASE UNCHANGED rerankVars
  BY <1>3 DEF rerankVars
<1> QED BY <1>1, <1>2, <1>3 DEF RerankNext

(* The inductive invariant of the experiment: a gain in accuracy comes with a *)
(* latency over the budget.                                                   *)
THEOREM RerankInductive == RerankSpec => []RerankInv
<1> QED BY RerankInitLemma, RerankStepLemma, PTL DEF RerankSpec

(* The experiment of rerank_experiment.py cannot end in ADOPT as long as two  *)
(* simulated calls take as long as its budget allows.                         *)
THEOREM VerdictIsSettled == RerankSpec => []NeverAdopts
<1>1. RerankInv => NeverAdopts
  BY DEF RerankInv
<1> QED BY RerankInductive, <1>1, PTL
------------------------------------------------------------------------------
(* A set of numbers has a least one.                                          *)
LEMMA MinLemma ==
    ASSUME NEW S \in SUBSET Nat, S # {}
    PROVE  Min(S) \in S /\ \A y \in S : Min(S) <= y
<1> DEFINE R == {pair \in Nat \X Nat : pair[1] < pair[2]}
<1>1. IsWellFoundedOn(R, Nat)
  <2>1. OpToRel(<, Nat) = R
    BY DEF OpToRel
  <2> QED BY <2>1, NatLessThanWellFounded
<1>2. \E x \in S : \A y \in S : <<y, x>> \notin R
  <2> HIDE DEF R
  <2> QED BY <1>1, WFMin
<1>3. \A x, y \in Nat : <<y, x>> \notin R => x <= y
  OBVIOUS
<1> HIDE DEF R
<1>4. PICK x \in S : \A y \in S : x <= y
  BY <1>2, <1>3
<1> QED BY <1>4 DEF Min

(* A finite set of numbers has a bound.                                       *)
LEMMA BoundLemma ==
    ASSUME NEW S \in SUBSET Nat, IsFiniteSet(S)
    PROVE  \E b \in Nat : \A n \in S : n <= b
<1>1. PICK N \in Nat : ExistsSurjection(1 .. N, S)
  BY FS_NatSurjection
<1>2. PICK f \in Surjection(1 .. N, S) : TRUE
  BY <1>1 DEF ExistsSurjection
<1>3. (\A i \in 1 .. N : f[i] \in Nat) /\ \A n \in S : \E i \in 1 .. N : f[i] = n
  BY <1>2 DEF Surjection
(* The fewest of the N numbers that must be left out to have a bound.         *)
<1> DEFINE T == {k \in 0 .. N : \E b \in Nat : \A i \in 1 .. N - k : f[i] <= b}
           k == Min(T)
<1>4. N \in T
  <2>1. \A i \in 1 .. N - N : f[i] <= 0
    OBVIOUS
  <2> QED BY <2>1
<1>5. T \in SUBSET Nat /\ T # {}
  <2>1. \A n \in T : n \in Nat
    OBVIOUS
  <2> HIDE DEF T
  <2> QED BY <1>4, <2>1
<1>6. k \in T /\ \A y \in T : k <= y
  <2> HIDE DEF T
  <2> QED BY <1>5, MinLemma
<1> HIDE DEF k
<1>7. k = 0
  <2> SUFFICES ASSUME k # 0 PROVE FALSE
    OBVIOUS
  <2>1. k \in 1 .. N /\ k - 1 \in 0 .. N /\ N - (k - 1) \in 1 .. N
        /\ N - (k - 1) = (N - k) + 1
    BY <1>6
  <2>2. PICK b \in Nat : \A i \in 1 .. N - k : f[i] <= b
    BY <1>6
  <2> DEFINE last == f[N - (k - 1)]
             c    == IF last <= b THEN b ELSE last
  <2>3. last \in Nat /\ c \in Nat /\ b <= c /\ last <= c
    BY <1>3, <2>1
  <2>4. \A i \in 1 .. N - (k - 1) : i \in 1 .. N - k \/ i = N - (k - 1)
    BY <2>1
  <2>5. \A i \in 1 .. N - (k - 1) : f[i] <= c
    <3> HIDE DEF c
    <3> SUFFICES ASSUME NEW i \in 1 .. N - (k - 1) PROVE f[i] <= c
      OBVIOUS
    <3>1. f[i] \in Nat
      BY <1>3, <2>1
    <3>2. CASE i \in 1 .. N - k
      BY <3>1, <3>2, <2>2, <2>3
    <3>3. CASE i = N - (k - 1)
      BY <3>3, <2>3
    <3> QED BY <2>4, <3>2, <3>3
  <2>6. k - 1 \in T
    <3> HIDE DEF c
    <3> QED BY <2>1, <2>3, <2>5
  <2> HIDE DEF T
  <2> QED BY <1>6, <2>1, <2>6
<1>8. PICK b \in Nat : \A i \in 1 .. N - k : f[i] <= b
  BY <1>6
<1> HIDE DEF T
<1>9. \A i \in 1 .. N : f[i] <= b
  <2>1. N - k = N
    BY <1>7
  <2> QED BY <1>8, <2>1
<1>10. \A n \in S : n <= b
  BY <1>3, <1>9
<1> QED BY <1>10

(* Python's round misses by at most a half, and the half goes to the even     *)
(* neighbour.                                                                 *)
LEMMA RoundLemma ==
    ASSUME NEW a \in Nat
    PROVE  /\ Round(a, 100) \in Nat
           /\ 100 * Round(a, 100) <= a + 50 /\ a <= 100 * Round(a, 100) + 50
<1>1. a = 100 * (a \div 100) + (a % 100) /\ a \div 100 \in Nat /\ a % 100 \in 0 .. 99
  OBVIOUS
<1> QED BY <1>1 DEF Round

(* The sample found at an index of the sorted list: more than index samples   *)
(* are at most as great, and at most index are smaller.                       *)
LEMMA SampleAtLemma ==
    ASSUME PercentilesInv, NEW index \in Nat, index < Total
    PROVE  LET v == Min({x \in Values : AtMost(x) > index})
           IN /\ v \in Values /\ AtMost(v) > index
              /\ Cardinality({s \in Recorded : s[1] < v}) <= index
              /\ \A x \in Values : AtMost(x) > index => v <= x
<1> DEFINE found == {x \in Values : AtMost(x) > index}
           v     == Min(found)
           Upto(x) == {s \in Recorded : s[1] <= x}
<1>1. \A s \in Recorded : s[1] \in Values /\ s[1] \in Nat
  BY PercentilesAssumption DEF Recorded
<1>2. IsFiniteSet(Recorded) /\ Total \in Nat
  BY FS_CardinalityType DEF PercentilesInv, Total
<1>3. ASSUME NEW x PROVE AtMost(x) = Cardinality(Upto(x)) /\ AtMost(x) \in Nat
  <2>1. Upto(x) \in SUBSET Recorded
    OBVIOUS
  <2>2. AtMost(x) = Cardinality(Upto(x))
    BY DEF AtMost
  <2>3. IsFiniteSet(Upto(x))
    <3> HIDE DEF Upto
    <3> QED BY <1>2, <2>1, FS_Subset
  <2>4. Cardinality(Upto(x)) \in Nat
    <3> HIDE DEF Upto
    <3> QED BY <2>3, FS_CardinalityType
  <2> QED BY <2>2, <2>4
(* Below a number, the recorded samples are those up to one of their values.  *)
<1>4. ASSUME NEW n \in Nat, {s \in Recorded : s[1] < n} # {}
      PROVE  \E x \in Values : x < n /\ {s \in Recorded : s[1] < n} = Upto(x)
  <2> DEFINE T == {k \in Nat : \A s \in Recorded : s[1] < n => s[1] <= k}
             k == Min(T)
  <2>1. n \in T
    BY <1>1
  <2>2. T \in SUBSET Nat /\ T # {}
    BY <2>1
  <2>3. k \in T /\ \A y \in T : k <= y
    <3> HIDE DEF T
    <3> QED BY <2>2, MinLemma
  <2> HIDE DEF k
  <2>4. PICK s \in Recorded : s[1] < n /\ s[1] >= k
    <3> SUFFICES ASSUME \A s \in Recorded : s[1] < n => s[1] < k PROVE FALSE
      BY <1>1, <2>3
    <3>1. PICK s \in Recorded : s[1] < n
      BY <1>4
    <3>2. s[1] \in Nat /\ s[1] < k
      BY <1>1, <3>1
    <3>3. k - 1 \in Nat
      BY <2>3, <3>2
    <3>4. k - 1 \in T
      BY <1>1, <2>3, <3>3
    <3> QED BY <2>3, <3>3, <3>4
  <2>5. s[1] = k /\ s[1] \in Values
    BY <1>1, <2>3, <2>4
  <2>6. {o \in Recorded : o[1] < n} = Upto(s[1])
    BY <1>1, <2>3, <2>4, <2>5
  <2> QED BY <2>4, <2>5, <2>6
<1>5. found # {}
  <2>1. PICK b \in Nat : \A s \in Recorded : s[1] <= b
    <3> DEFINE latencies == {s[1] : s \in Recorded}
               f == [s \in Recorded |-> s[1]]
    <3>1. f \in Surjection(Recorded, latencies)
      BY DEF Surjection
    <3>2. IsFiniteSet(latencies)
      <4> HIDE DEF latencies, f
      <4> QED BY <3>1, <1>2, FS_Surjection
    <3>3. latencies \in SUBSET Nat
      BY <1>1
    <3>4. \E b \in Nat : \A n \in latencies : n <= b
      <4> HIDE DEF latencies
      <4> QED BY <3>2, <3>3, BoundLemma
    <3> QED BY <3>4
  <2>2. {s \in Recorded : s[1] < b + 1} = Recorded /\ b + 1 \in Nat
    BY <1>1, <2>1
  <2>3. Recorded # {}
    BY FS_EmptySet DEF Total
  <2>4. PICK x \in Values : Recorded = Upto(x)
    BY <1>4, <2>2, <2>3
  <2>5. AtMost(x) = Total
    BY <1>3, <2>4 DEF Total
  <2> QED BY <2>5
<1>6. v \in found /\ \A x \in found : v <= x
  <2>1. found \in SUBSET Nat
    BY PercentilesAssumption
  <2> HIDE DEF found
  <2> QED BY <1>5, <2>1, MinLemma
<1> HIDE DEF v
<1>7. v \in Nat
  BY <1>6, PercentilesAssumption
<1>8. Cardinality({s \in Recorded : s[1] < v}) <= index
  <2>1. CASE {s \in Recorded : s[1] < v} = {}
    BY <2>1, FS_EmptySet
  <2>2. CASE {s \in Recorded : s[1] < v} # {}
    <3>1. PICK x \in Values : x < v /\ {s \in Recorded : s[1] < v} = Upto(x)
      BY <1>4, <1>7, <2>2
    <3>2. ~(AtMost(x) > index)
      BY <1>6, <1>7, <3>1, PercentilesAssumption
    <3>3. Cardinality({s \in Recorded : s[1] < v}) = AtMost(x) /\ AtMost(x) \in Nat
      BY <1>3, <3>1
    <3> QED BY <3>2, <3>3
  <2> QED BY <2>1, <2>2
<1> QED BY <1>6, <1>8 DEF v

(* Every sample lies below v or not.                                          *)
LEMMA SplitLemma ==
    ASSUME PercentilesInv, NEW v \in Nat
    PROVE  /\ Total \in Nat /\ AtMost(v) \in Nat /\ AtMost(v) <= Total
           /\ Cardinality({s \in Recorded : s[1] < v}) \in Nat
           /\ AtLeast(v) = Total - Cardinality({s \in Recorded : s[1] < v})
<1> DEFINE Below == {s \in Recorded : s[1] < v}
           Upto  == {s \in Recorded : s[1] <= v}
           From  == {s \in Recorded : s[1] >= v}
<1>1. \A s \in Recorded : s[1] \in Nat
  BY PercentilesAssumption DEF Recorded
<1>2. IsFiniteSet(Recorded)
  BY DEF PercentilesInv
<1>3. Below \in SUBSET Recorded /\ Upto \in SUBSET Recorded
  OBVIOUS
<1>4. From = Recorded \ Below /\ Recorded \cap Below = Below
  BY <1>1
<1>5. AtMost(v) = Cardinality(Upto) /\ AtLeast(v) = Cardinality(From)
  BY DEF AtMost, AtLeast
<1> HIDE DEF Below, Upto, From
<1>6. IsFiniteSet(Upto) /\ Cardinality(Upto) <= Cardinality(Recorded)
  BY <1>2, <1>3, FS_Subset
<1>7. IsFiniteSet(Below)
  BY <1>2, <1>3, FS_Subset
<1>8. Cardinality(Recorded) \in Nat /\ Cardinality(Upto) \in Nat /\ Cardinality(Below) \in Nat
  BY <1>2, <1>6, <1>7, FS_CardinalityType
<1>9. Cardinality(Recorded \ Below) = Cardinality(Recorded) - Cardinality(Recorded \cap Below)
  BY <1>2, <1>7, FS_Difference
<1> QED BY <1>4, <1>5, <1>6, <1>8, <1>9 DEF Total, Below

(* A percentile is the sample at an index of the list, half a sample at most  *)
(* away from where it should be.                                              *)
LEMMA IndexLemma ==
    ASSUME PercentilesInv, Total > 0, NEW a \in {50, 95}
    PROVE  LET index == Round(a * (Total - 1), 100)
           IN /\ index \in Nat /\ index < Total
              /\ Percentile(a) = Min({v \in Values : AtMost(v) > index})
              /\ 100 * index <= a * (Total - 1) + 50
              /\ a * (Total - 1) <= 100 * index + 50
<1> DEFINE last  == Total - 1
           index == Round(a * last, 100)
<1>1. last \in Nat /\ Total = last + 1 /\ a * last \in Nat
  <2>1. Total \in Nat
    BY FS_CardinalityType DEF Total, PercentilesInv
  <2> QED BY <2>1
<1> HIDE DEF last
<1>2. index \in Nat /\ 100 * index <= a * last + 50 /\ a * last <= 100 * index + 50
  BY <1>1, RoundLemma
<1> HIDE DEF index
<1>3. index <= last
  <2>1. CASE a = 50
    BY <2>1, <1>1, <1>2
  <2>2. CASE a = 95
    BY <2>2, <1>1, <1>2
  <2> QED BY <2>1, <2>2
<1>4. Min({last, index}) = index
  <2>1. {last, index} \in SUBSET Nat /\ {last, index} # {}
    BY <1>1, <1>2
  <2>2. Min({last, index}) \in {last, index} /\ \A y \in {last, index} : Min({last, index}) <= y
    BY <2>1, MinLemma
  <2> QED BY <2>2, <1>1, <1>2, <1>3
<1>5. Percentile(a) = Min({v \in Values : AtMost(v) > index})
  BY <1>4 DEF Percentile, last, index
<1> QED BY <1>1, <1>2, <1>3, <1>5 DEF last, index

(* Whatever was recorded, p50 is a median and p95 above all but a twentieth.  *)
LEMMA PercentilesLemma == PercentilesInv => PercentilesHold
<1> SUFFICES ASSUME PercentilesInv, Total > 0
             PROVE  /\ 2 * AtMost(Percentile(50)) >= Total
                    /\ 2 * AtLeast(Percentile(50)) >= Total
                    /\ Percentile(50) <= Percentile(95)
                    /\ 20 * (Total - AtMost(Percentile(95))) <= Total + 9
  BY DEF PercentilesHold
<1> DEFINE i == Round(50 * (Total - 1), 100)
           j == Round(95 * (Total - 1), 100)
<1>1. /\ i \in Nat /\ i < Total
      /\ Percentile(50) = Min({v \in Values : AtMost(v) > i})
      /\ 100 * i <= 50 * (Total - 1) + 50
      /\ 50 * (Total - 1) <= 100 * i + 50
  BY IndexLemma
<1>2. /\ j \in Nat /\ j < Total
      /\ Percentile(95) = Min({v \in Values : AtMost(v) > j})
      /\ 100 * j <= 95 * (Total - 1) + 50
      /\ 95 * (Total - 1) <= 100 * j + 50
  BY IndexLemma
<1> HIDE DEF i, j
<1> DEFINE p == Percentile(50)
           q == Percentile(95)
           n == Cardinality({s \in Recorded : s[1] < p})
<1>3. p \in Values /\ AtMost(p) > i /\ n <= i /\ \A x \in Values : AtMost(x) > i => p <= x
  BY <1>1, SampleAtLemma
<1>4. q \in Values /\ AtMost(q) > j
  BY <1>2, SampleAtLemma
<1> HIDE DEF p, q
<1>5. p \in Nat /\ q \in Nat
  BY <1>3, <1>4, PercentilesAssumption
<1>6. /\ Total \in Nat /\ AtMost(p) \in Nat /\ AtMost(q) \in Nat
      /\ n \in Nat /\ AtLeast(p) = Total - n
  BY <1>5, SplitLemma
<1> HIDE DEF n
<1>7. i <= j
  <2>1. CASE Total <= 3
    <3>1. Total \in {1, 2, 3}
      BY <2>1, <1>6
    <3>2. CASE Total = 1
      BY <3>2, <1>1, <1>2
    <3>3. CASE Total = 2
      BY <3>3, <1>1, <1>2 DEF Round, i
    <3>4. CASE Total = 3
      BY <3>4, <1>1, <1>2
    <3> QED BY <3>1, <3>2, <3>3, <3>4
  <2>2. CASE Total > 3
    BY <2>2, <1>1, <1>2, <1>6
  <2> QED BY <2>1, <2>2, <1>6
<1>8. p <= q
  <2>1. AtMost(q) > i
    BY <1>1, <1>2, <1>4, <1>6, <1>7
  <2> QED BY <2>1, <1>3, <1>4
<1>9. 2 * AtMost(p) >= Total /\ 2 * AtLeast(p) >= Total
  <2>1. 2 * i + 2 >= Total
    BY <1>1, <1>6
  <2>2. 2 * i <= Total
    BY <1>1, <1>6
  <2> QED BY <2>1, <2>2, <1>1, <1>3, <1>6
<1>10. 20 * (Total - AtMost(q)) <= Total + 9
  <2>1. 100 * j >= 95 * (Total - 1) - 50
    BY <1>2, <1>6
  <2>2. AtMost(q) >= j + 1
    BY <1>2, <1>4, <1>6
  <2> QED BY <2>1, <2>2, <1>2, <1>6
<1> QED BY <1>8, <1>9, <1>10 DEF p, q

(* Recording a sample adds one to finitely many.                              *)
LEMMA RecordLemma == PercentilesInv /\ [Record]_samples => PercentilesInv'
<1> SUFFICES ASSUME PercentilesInv, [Record]_samples PROVE PercentilesInv'
  OBVIOUS
<1>1. CASE Record
  <2>1. PICK v \in Values : samples' = [samples EXCEPT ![v] = @ + 1]
    BY <1>1 DEF Record
  <2>2. samples \in [Values -> Nat] /\ IsFiniteSet(Recorded)
    BY DEF PercentilesInv
  <2>3. samples' \in [Values -> Nat]
    BY <2>1, <2>2
  <2>4. Recorded' = Recorded \cup {<<v, samples[v] + 1>>}
    <3>1. \A n \in 1 .. samples[v] + 1 : n \in 1 .. samples[v] \/ n = samples[v] + 1
      BY <2>2
    <3>2. \A w \in Values : samples'[w] = IF w = v THEN samples[w] + 1 ELSE samples[w]
      BY <2>1, <2>2
    <3>3. \A w \in Values : samples[w] \in Nat
      BY <2>2
    <3> QED BY <3>1, <3>2, <3>3 DEF Recorded
  <2>5. IsFiniteSet(Recorded')
    BY <2>2, <2>4, FS_AddElement
  <2> QED BY <2>3, <2>5 DEF PercentilesInv
<1>2. CASE UNCHANGED samples
  BY <1>2 DEF PercentilesInv, Recorded
<1> QED BY <1>1, <1>2

(* For any latencies and any number of samples: what _percentile reports is   *)
(* a median, and a 95th percentile to within half a sample.                   *)
THEOREM PercentilesSound == PercentilesSpec => []PercentilesHold
<1>1. PercentilesInit => PercentilesInv
  <2> SUFFICES ASSUME PercentilesInit PROVE PercentilesInv
    OBVIOUS
  <2>1. Recorded = {}
    BY DEF PercentilesInit, Recorded
  <2> QED BY <2>1, FS_EmptySet DEF PercentilesInit, PercentilesInv
<1> QED BY <1>1, RecordLemma, PercentilesLemma, PTL DEF PercentilesSpec
------------------------------------------------------------------------------
(* A new row of places adds as many as it is long.                            *)
LEMMA RowLemma ==
    ASSUME NEW S, IsFiniteSet(S), NEW D, IsFiniteSet(D), NEW n, S \cap ({n} \X D) = {}
    PROVE  /\ IsFiniteSet(S \cup ({n} \X D))
           /\ Cardinality(S \cup ({n} \X D)) = Cardinality(S) + Cardinality(D)
<1>1. IsFiniteSet({n}) /\ Cardinality({n}) = 1
  BY FS_Singleton
<1>2. IsFiniteSet({n} \X D) /\ Cardinality({n} \X D) = Cardinality({n}) * Cardinality(D)
  BY <1>1, FS_Product
<1>3. IsFiniteSet(S \cup ({n} \X D))
      /\ Cardinality(S \cup ({n} \X D)) =
           Cardinality(S) + Cardinality({n} \X D) - Cardinality(S \cap ({n} \X D))
  BY <1>2, FS_Union
<1>4. Cardinality(S \cap ({n} \X D)) = 0
  BY FS_EmptySet
<1>5. Cardinality(S) \in Nat /\ Cardinality(D) \in Nat
  BY FS_CardinalityType
<1> QED BY <1>1, <1>2, <1>3, <1>4, <1>5

(* A text has finitely many places, and its words are those that occur.       *)
LEMMA TextLemma ==
    ASSUME NEW text \in Candidates
    PROVE  /\ text \in Seq(Words) /\ DOMAIN text = 1 .. Len(text) /\ Len(text) \in Nat
           /\ IsFiniteSet(DOMAIN text) /\ Cardinality(DOMAIN text) = Len(text)
           /\ \A w \in Words :
                /\ IsFiniteSet({i \in DOMAIN text : text[i] = w})
                /\ Occurs(w, text) \in Nat
                /\ Occurs(w, text) > 0 <=> w \in Range(text)
           /\ Range(text) \subseteq Words
<1>1. text \in Seq(Words) /\ DOMAIN text = 1 .. Len(text) /\ Len(text) \in Nat
  BY ClassifierAssumption
<1>2. IsFiniteSet(1 .. Len(text))
  BY <1>1, FS_Interval
<1>3. Cardinality(1 .. Len(text)) = Len(text)
  BY <1>1, FS_Interval
<1>4. ASSUME NEW w \in Words
      PROVE  /\ IsFiniteSet({i \in DOMAIN text : text[i] = w})
             /\ Occurs(w, text) \in Nat
             /\ Occurs(w, text) > 0 <=> w \in Range(text)
  <2> DEFINE at == {i \in DOMAIN text : text[i] = w}
  <2>1. at \in SUBSET (1 .. Len(text)) /\ Occurs(w, text) = Cardinality(at)
    BY <1>1 DEF Occurs
  <2>2. w \in Range(text) <=> at # {}
    BY DEF Range
  <2> HIDE DEF at
  <2>3. IsFiniteSet(at)
    BY <1>2, <2>1, FS_Subset
  <2>4. Cardinality(at) \in Nat /\ (Cardinality(at) = 0 <=> at = {})
    BY <2>3, FS_CardinalityType, FS_EmptySet
  <2> QED BY <2>1, <2>2, <2>3, <2>4 DEF at
<1>5. Range(text) \subseteq Words
  BY <1>1 DEF Range
<1> QED BY <1>1, <1>2, <1>3, <1>4, <1>5

(* Training on one more example keeps the counters exact.                     *)
LEMMA CountersStepLemma == CountersInv /\ [Train]_classVars => CountersInv'
<1> SUFFICES ASSUME CountersInv, [Train]_classVars PROVE CountersInv'
  OBVIOUS
<1>1. CASE Train
  <2>1. PICK text \in Candidates, label \in BOOLEAN :
          /\ docs' = [docs EXCEPT ![label] = @ + 1]
          /\ vocab' = vocab \cup Range(text)
          /\ counts' = [counts EXCEPT ![label] = [w \in Words |-> @[w] + Counted(text)[w]]]
          /\ totals' = [totals EXCEPT ![label] = @ + Len(text)]
          /\ trained' = Append(trained, <<text, label>>)
    BY <1>1 DEF Train, CountedUnder
  <2> DEFINE n == Len(trained) + 1
             row == {n} \X DOMAIN text
             At(l, w) == {at \in Places(l) : trained[at[1]][1][at[2]] = w}
             in(w) == {i \in DOMAIN text : text[i] = w}
  <2>2. label \in BOOLEAN
    OBVIOUS
  <2>3. /\ docs \in [BOOLEAN -> Nat] /\ totals \in [BOOLEAN -> Nat]
        /\ counts \in [BOOLEAN -> [Words -> Nat]]
        /\ trained \in Seq(Candidates \X BOOLEAN)
        /\ \A l \in BOOLEAN : IsFiniteSet(Mine(l)) /\ IsFiniteSet(Places(l))
        /\ \A l \in BOOLEAN : docs[l] = Cardinality(Mine(l)) /\ totals[l] = Cardinality(Places(l))
        /\ \A l \in BOOLEAN, w \in Words : counts[l][w] = Cardinality(At(l, w))
        /\ vocab = {w \in Words : counts[TRUE][w] + counts[FALSE][w] > 0}
    BY DEF CountersInv, CountersExact
  <2>4. /\ text \in Seq(Words) /\ DOMAIN text = 1 .. Len(text) /\ Len(text) \in Nat
        /\ IsFiniteSet(DOMAIN text) /\ Cardinality(DOMAIN text) = Len(text)
        /\ \A w \in Words :
             /\ IsFiniteSet(in(w)) /\ Occurs(w, text) = Cardinality(in(w))
             /\ Occurs(w, text) \in Nat
             /\ Occurs(w, text) > 0 <=> w \in Range(text)
        /\ Range(text) \subseteq Words
    BY TextLemma DEF Occurs
  <2>5. /\ docs' = [docs EXCEPT ![label] = @ + 1]
        /\ totals' = [totals EXCEPT ![label] = @ + Len(text)]
        /\ counts' = [counts EXCEPT ![label] = [w \in Words |-> @[w] + Occurs(w, text)]]
    BY <2>1 DEF Counted
  <2>6. /\ trained' \in Seq(Candidates \X BOOLEAN) /\ n \in Nat
        /\ DOMAIN trained = 1 .. Len(trained) /\ n \notin DOMAIN trained
        /\ DOMAIN trained' = DOMAIN trained \cup {n}
        /\ \A i \in DOMAIN trained : trained'[i] = trained[i]
        /\ trained'[n] = <<text, label>>
    <3>1. /\ trained \in Seq(Candidates \X BOOLEAN)
          /\ <<text, label>> \in Candidates \X BOOLEAN
          /\ trained' = Append(trained, <<text, label>>)
      BY <2>1, <2>3
    <3>2. /\ Len(trained) \in Nat /\ DOMAIN trained = 1 .. Len(trained)
          /\ trained' \in Seq(Candidates \X BOOLEAN)
          /\ Len(trained') = Len(trained) + 1
      BY <3>1
    <3>3. DOMAIN trained' = 1 .. Len(trained) + 1
      BY <3>2
    <3>4. DOMAIN trained' = DOMAIN trained \cup {n} /\ n \notin DOMAIN trained
      BY <3>2, <3>3
    <3>5. /\ \A i \in DOMAIN trained : trained'[i] = trained[i]
          /\ trained'[n] = <<text, label>>
      BY <3>1, <3>2
    <3> QED BY <3>2, <3>4, <3>5
  <2> HIDE DEF n
  <2>7. \A w \in Words : Occurs(w, text) \in Nat /\ (Occurs(w, text) > 0 <=> w \in Range(text))
    <3> HIDE DEF in
    <3> QED BY <2>4
(* The examples and places of either label, one step on.                      *)
  <2>8. ASSUME NEW l \in BOOLEAN
        PROVE  Mine(l)' = IF l = label THEN Mine(l) \cup {n} ELSE Mine(l)
    BY <2>6 DEF Mine
  <2>9. ASSUME NEW l \in BOOLEAN
        PROVE  Places(l)' = IF l = label THEN Places(l) \cup row ELSE Places(l)
    <3>1. \A i \in Mine(l) : trained'[i] = trained[i]
      BY <2>6 DEF Mine
    <3> QED BY <2>6, <2>8, <3>1 DEF Places
  <2>10. ASSUME NEW l \in BOOLEAN
        PROVE  /\ n \notin Mine(l) /\ Places(l) \cap row = {}
               /\ \A at \in Places(l) : trained'[at[1]] = trained[at[1]]
    BY <2>6 DEF Mine, Places
  <2>11. ASSUME NEW l \in BOOLEAN, NEW w \in Words
         PROVE  At(l, w)' = IF l = label THEN At(l, w) \cup ({n} \X in(w)) ELSE At(l, w)
    <3>1. CASE l = label
      <4>1. \A at \in row : trained'[at[1]][1][at[2]] = text[at[2]] /\ at[2] \in DOMAIN text
        BY <2>6
      <4> QED BY <3>1, <4>1, <2>9, <2>10
    <3>2. CASE l # label
      BY <3>2, <2>9, <2>10
    <3> QED BY <3>1, <3>2
(* And their numbers.                                                         *)
  <2>12. ASSUME NEW l \in BOOLEAN
         PROVE  IsFiniteSet(Mine(l)') /\ docs'[l] = Cardinality(Mine(l)')
    <3>1. IsFiniteSet(Mine(l) \cup {n}) /\ Cardinality(Mine(l) \cup {n}) = Cardinality(Mine(l)) + 1
      BY <2>3, <2>10, FS_AddElement
    <3> QED BY <3>1, <2>3, <2>5, <2>8
  <2>13. ASSUME NEW l \in BOOLEAN
         PROVE  IsFiniteSet(Places(l)') /\ totals'[l] = Cardinality(Places(l)')
    <3> DEFINE whole == DOMAIN text
    <3>1. IsFiniteSet(whole) /\ Cardinality(whole) = Len(text) /\ row = {n} \X whole
      BY <2>4
    <3>2. IsFiniteSet(Places(l)) /\ Places(l) \cap row = {}
      BY <2>3, <2>10
    <3> HIDE DEF whole, row
    <3>3. IsFiniteSet(Places(l) \cup row)
          /\ Cardinality(Places(l) \cup row) = Cardinality(Places(l)) + Cardinality(whole)
      BY <3>1, <3>2, RowLemma
    <3> QED BY <3>1, <3>3, <2>3, <2>5, <2>9
  <2>14. ASSUME NEW l \in BOOLEAN, NEW w \in Words
         PROVE  counts'[l][w] = Cardinality(At(l, w)')
    <3>1. At(l, w) \in SUBSET Places(l) /\ in(w) \in SUBSET DOMAIN text
      OBVIOUS
    <3>2. counts'[l][w] = IF l = label THEN counts[l][w] + Occurs(w, text) ELSE counts[l][w]
      BY <2>3, <2>5
    <3> HIDE DEF At, in
    <3>3. IsFiniteSet(At(l, w))
      BY <2>3, <3>1, FS_Subset
    <3>4. At(l, w) \cap ({n} \X in(w)) = {}
      BY <2>10, <3>1
    <3>5. Cardinality(At(l, w) \cup ({n} \X in(w))) = Cardinality(At(l, w)) + Cardinality(in(w))
      BY <2>4, <3>3, <3>4, RowLemma
    <3> QED BY <2>3, <2>4, <2>11, <3>2, <3>5
  <2>15. docs' \in [BOOLEAN -> Nat] /\ totals' \in [BOOLEAN -> Nat]
         /\ counts' \in [BOOLEAN -> [Words -> Nat]]
    <3>1. docs' \in [BOOLEAN -> Nat] /\ totals' \in [BOOLEAN -> Nat]
      BY <2>2, <2>3, <2>4, <2>5
    <3> DEFINE new == [w \in Words |-> counts[label][w] + Occurs(w, text)]
    <3>2. new \in [Words -> Nat]
      BY <2>2, <2>3, <2>7
    <3>3. counts' = [counts EXCEPT ![label] = new]
      BY <2>5
    <3> HIDE DEF new
    <3> QED BY <3>1, <3>2, <3>3, <2>2, <2>3
  <2>16. vocab' = {w \in Words : counts'[TRUE][w] + counts'[FALSE][w] > 0}
    <3>1. vocab' = vocab \cup Range(text)
      BY <2>1
    <3>2. \A l \in BOOLEAN, w \in Words :
            counts[l][w] \in Nat
            /\ counts'[l][w] = IF l = label THEN counts[l][w] + Occurs(w, text) ELSE counts[l][w]
      BY <2>3, <2>5
    <3>3. \A w \in Words : counts'[TRUE][w] + counts'[FALSE][w]
                             = counts[TRUE][w] + counts[FALSE][w] + Occurs(w, text)
      <4> SUFFICES ASSUME NEW w \in Words
                   PROVE  counts'[TRUE][w] + counts'[FALSE][w]
                            = counts[TRUE][w] + counts[FALSE][w] + Occurs(w, text)
        OBVIOUS
      <4> DEFINE yes == counts[TRUE][w]  yes2 == counts'[TRUE][w]
                 no == counts[FALSE][w]  no2 == counts'[FALSE][w]
                 occurs == Occurs(w, text)
      <4>1. yes \in Nat /\ no \in Nat /\ occurs \in Nat
        BY <2>7, <3>2, Zenon
      <4>2. /\ counts'[label][w] = counts[label][w] + occurs
            /\ \A l \in BOOLEAN : l # label => counts'[l][w] = counts[l][w]
        BY <2>2, <3>2, Zenon
      <4>3. CASE label = TRUE
        <5>1. yes2 = yes + occurs /\ no2 = no
          BY <4>2, <4>3, Zenon
        <5> HIDE DEF yes, yes2, no, no2, occurs
        <5>2. yes2 + no2 = yes + no + occurs
          BY <4>1, <5>1
        <5> QED BY <5>2, Zenon DEF yes, yes2, no, no2, occurs
      <4>4. CASE label = FALSE
        <5>1. yes2 = yes /\ no2 = no + occurs
          BY <4>2, <4>4, Zenon
        <5> HIDE DEF yes, yes2, no, no2, occurs
        <5>2. yes2 + no2 = yes + no + occurs
          BY <4>1, <5>1
        <5> QED BY <5>2, Zenon DEF yes, yes2, no, no2, occurs
      <4> QED BY <2>2, <4>3, <4>4
    <3> DEFINE sum(w) == counts[TRUE][w] + counts[FALSE][w]
               added(w) == Occurs(w, text)
    <3>4. \A w \in Words : sum(w) \in Nat /\ added(w) \in Nat
                           /\ (added(w) > 0 <=> w \in Range(text))
      <4>1. \A w \in Words : counts[TRUE][w] \in Nat /\ counts[FALSE][w] \in Nat
        BY <3>2, Zenon
      <4> SUFFICES ASSUME NEW w \in Words
                   PROVE  sum(w) \in Nat /\ added(w) \in Nat
                          /\ (added(w) > 0 <=> w \in Range(text))
        OBVIOUS
      <4> DEFINE yes == counts[TRUE][w]
                 no  == counts[FALSE][w]
      <4>2. yes \in Nat /\ no \in Nat
        BY <4>1
      <4> HIDE DEF yes, no
      <4>3. yes + no \in Nat
        BY <4>2
      <4>4. sum(w) \in Nat
        BY <4>3, Zenon DEF yes, no
      <4> HIDE DEF sum
      <4> QED BY <2>7, <4>4
    <3>5. vocab = {w \in Words : sum(w) > 0} /\ Range(text) \subseteq Words
      BY <2>3, <2>4
    <3> HIDE DEF sum, added
    <3>6. vocab \cup Range(text) = {w \in Words : sum(w) + added(w) > 0}
      BY <3>4, <3>5
    <3>7. \A w \in Words :
            counts'[TRUE][w] + counts'[FALSE][w] = sum(w) + added(w)
      BY <3>3, Zenon DEF sum, added
    <3>8. {w \in Words : counts'[TRUE][w] + counts'[FALSE][w] > 0}
            = {w \in Words : sum(w) + added(w) > 0}
      BY <3>7
    <3> QED BY <3>1, <3>6, <3>8, Zenon
  <2> QED BY <2>6, <2>12, <2>13, <2>14, <2>15, <2>16 DEF CountersInv, CountersExact
<1>2. CASE UNCHANGED classVars
  <2>1. UNCHANGED <<docs, counts, totals, vocab, trained>>
    BY <1>2 DEF classVars
  <2>2. \A l \in BOOLEAN : Mine(l)' = Mine(l) /\ Places(l)' = Places(l)
    BY <2>1 DEF Mine, Places
  <2> QED BY <2>1, <2>2 DEF CountersInv, CountersExact
<1> QED BY <1>1, <1>2

(* The invariant of the counters is inductive.                                *)
THEOREM CountersInductive == ClassSpec => []CountersInv
<1>1. ClassInit => CountersInv
  <2> SUFFICES ASSUME ClassInit PROVE CountersInv
    OBVIOUS
  <2>1. \A l \in BOOLEAN : Mine(l) = {} /\ Places(l) = {}
    BY DEF ClassInit, Mine, Places
  <2>2. docs \in [BOOLEAN -> Nat] /\ totals \in [BOOLEAN -> Nat]
        /\ counts \in [BOOLEAN -> [Words -> Nat]] /\ trained \in Seq(Candidates \X BOOLEAN)
    BY DEF ClassInit
  <2>3. \A l \in BOOLEAN, w \in Words :
          /\ {at \in Places(l) : trained[at[1]][1][at[2]] = w} = {}
          /\ counts[l][w] = 0 /\ docs[l] = 0 /\ totals[l] = 0
    BY <2>1 DEF ClassInit
  <2>4. \A l \in BOOLEAN : docs[l] = 0 /\ totals[l] = 0
    BY DEF ClassInit
  <2>5. vocab = {w \in Words : counts[TRUE][w] + counts[FALSE][w] > 0}
    BY <2>3 DEF ClassInit
  <2>6. IsFiniteSet({}) /\ Cardinality({}) = 0
    BY FS_EmptySet
  <2> QED BY <2>1, <2>2, <2>3, <2>4, <2>5, <2>6 DEF CountersInv, CountersExact
<1> QED BY <1>1, CountersStepLemma, PTL DEF ClassSpec

(* For any texts and labels, trained in any order and as often as one likes:  *)
(* the counters are those of one pass over the examples (train).              *)
THEOREM CountersSound == ClassSpec => []CountersExact
<1>1. CountersInv => CountersExact
  BY DEF CountersInv
<1> QED BY <1>1, CountersInductive, PTL
=============================================================================

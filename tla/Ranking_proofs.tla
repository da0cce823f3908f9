---------------------------- MODULE Ranking_proofs ----------------------------
(* For every number of memories, every pool size, budget and k_max, and every *)
(* assignment of signals: an answer stays within its budget, and a request    *)
(* abstains only when it has to.                                              *)
EXTENDS Ranking, FiniteSetTheorems, TLAPS

USE RankingAssumption

snapshot == <<trait, similar, matching, named, indexed, top>>

LEMMA TraitTypes ==
    ASSUME RankingTypeOK, NEW m \in Memories
    PROVE  /\ trait[m].similarity \in Nat /\ trait[m].keyword \in Nat
           /\ trait[m].entity \in BOOLEAN /\ trait[m].boost \in Nat
           /\ trait[m].tokens \in Nat \ {0}
<1>1. trait[m] \in [similarity : 0 .. Scale, keyword : Nat,
                    entity : BOOLEAN, boost : Nat, tokens : Nat \ {0}]
  BY DEF RankingTypeOK
<1> QED
  BY <1>1

(* Nothing the relevance of a memory depends on changes after the searches.   *)
LEMMA SnapshotKeepsRelevance ==
    UNCHANGED snapshot => /\ Relevant' = Relevant /\ Floor' = Floor
                          /\ \A m \in Memories : TrueSemantic(m)' = TrueSemantic(m)
                          /\ \A m \in Memories : MayBeMissed(m)' = MayBeMissed(m)
BY DEF snapshot, Relevant, Candidates, Semantic, TrueSemantic, Blend, Floor, MayBeMissed

(* A signal at full strength, or a similarity on the bar, is relevant alone.  *)
LEMMA OneSignalSuffices ==
    ASSUME RankingTypeOK, NEW m \in Candidates,
           \/ m \in similar /\ 5 * trait[m].similarity * top >= Floor
           \/ m \in matching /\ trait[m].keyword = top
           \/ m \in named
    PROVE  m \in Relevant
<1> DEFINE a == IF m \in similar THEN 5 * trait[m].similarity * top ELSE 0
           b == IF m \in matching THEN 3 * Scale * trait[m].keyword ELSE 0
           c == IF m \in named THEN 2 * Scale * top ELSE 0
<1>1. m \in Memories /\ top \in Nat
  BY DEF RankingTypeOK, Candidates
<1>2. /\ 5 * trait[m].similarity * top \in Nat
      /\ 3 * Scale * trait[m].keyword \in Nat
      /\ 2 * Scale * top \in Nat
  BY <1>1, TraitTypes
<1>3. a \in Nat /\ b \in Nat /\ c \in Nat
  BY <1>2
<1>4. a >= Floor \/ b >= Floor \/ c >= Floor
  <2>1. CASE m \in similar /\ 5 * trait[m].similarity * top >= Floor
    BY <2>1
  <2>2. CASE m \in matching /\ trait[m].keyword = top
    <3>1. b = 3 * Scale * top
      BY <2>2
    <3> QED
      BY <1>1, <3>1 DEF Floor
  <2>3. CASE m \in named
    BY <1>2, <2>3 DEF Floor
  <2> QED
    BY <2>1, <2>2, <2>3
<1>5. Semantic(m) = a + b + c
  BY DEF Semantic, Blend
<1>6. Floor \in Nat
  BY <1>2 DEF Floor
<1>7. Semantic(m) >= Floor
  <2> HIDE DEF a, b, c
  <2> QED
    BY <1>3, <1>4, <1>5, <1>6
<1> QED
  BY <1>7 DEF Relevant

(* Cutting the searches off never empties the set of relevant candidates:     *)
(* what a search returned instead of a memory has that signal as strongly.    *)
LEMMA PoolsKeepRelevance ==
    ASSUME RankingTypeOK, SearchInv, pc # "search",
           NEW m \in Memories, TrueSemantic(m) >= Floor, ~MayBeMissed(m)
    PROVE  Relevant # {}
<1>1. CASE trait[m].keyword > 0
  <2>1. PICK n \in matching : trait[n].keyword = top
    BY <1>1 DEF SearchInv
  <2> QED
    BY <2>1, OneSignalSuffices DEF Candidates
<1>2. CASE trait[m].entity
  <2>1. PICK n \in named : TRUE
    BY <1>2 DEF SearchInv
  <2> QED
    BY <2>1, OneSignalSuffices DEF Candidates
<1>3. CASE ~(trait[m].keyword > 0) /\ ~trait[m].entity
  <2>3. trait[m].keyword = 0
    BY <1>3, TraitTypes
  <2>1. PICK n \in similar : trait[n].similarity >= trait[m].similarity
    BY <1>3, <2>3 DEF SearchInv, MayBeMissed
  <2>2. n \in Memories /\ top \in Nat
    BY <2>1 DEF RankingTypeOK
  <2>4. TrueSemantic(m) = 5 * trait[m].similarity * top
    <3>1. 3 * Scale * trait[m].keyword = 0
      BY <2>3
    <3>2. 5 * trait[m].similarity * top \in Nat
      BY <2>2, TraitTypes
    <3>3. TrueSemantic(m) = 5 * trait[m].similarity * top
                              + 3 * Scale * trait[m].keyword + 0
      BY <1>3 DEF TrueSemantic, Blend
    <3> QED
      BY <3>1, <3>2, <3>3
  <2>5. 5 * trait[n].similarity * top >= 5 * trait[m].similarity * top
    <3> DEFINE x == trait[n].similarity
               y == trait[m].similarity
    <3>1. x \in Nat /\ y \in Nat /\ x >= y
      BY <2>1, <2>2, TraitTypes
    <3> HIDE DEF x, y
    <3>2. 5 * x * top >= 5 * y * top
      BY <2>2, <3>1
    <3> QED
      BY <3>2 DEF x, y
  <2>6. 5 * trait[n].similarity * top >= Floor
    <3>1. /\ 5 * trait[n].similarity * top \in Nat
          /\ 5 * trait[m].similarity * top \in Nat /\ Floor \in Nat
      BY <2>2, TraitTypes DEF Floor
    <3> QED
      BY <2>4, <2>5, <3>1
  <2> QED
    BY <2>1, <2>6, OneSignalSuffices DEF Candidates
<1> QED
  BY <1>1, <1>2, <1>3
------------------------------------------------------------------------------
(* A search returns something whenever there is something to return.          *)
LEMMA LimitNonEmpty ==
    ASSUME NEW S, IsFiniteSet(S), S # {}, NEW Q \in Limit(S)
    PROVE  Q # {}
<1>1. CASE Q = S
  BY <1>1
<1>2. CASE Cardinality(Q) = Pool
  BY <1>2, FS_EmptySet
<1> QED
  BY <1>1, <1>2 DEF Limit

(* ... and for whatever it left out, something at least as good.              *)
LEMMA BestCovers ==
    ASSUME NEW S, IsFiniteSet(S), NEW f, \A s \in S : f[s] \in Nat,
           NEW Q \in Best(S, f), NEW s \in S
    PROVE  \E q \in Q : f[q] >= f[s]
<1>1. CASE s \in Q
  BY <1>1
<1>2. CASE s \notin Q
  <2>1. PICK q \in Q : TRUE
    BY LimitNonEmpty DEF Best
  <2> QED
    BY <1>2, <2>1 DEF Best
<1> QED
  BY <1>1, <1>2

LEMMA InitRanking == Init => RequestInv
<1> SUFFICES ASSUME Init PROVE RequestInv
  OBVIOUS
<1>1. RankingTypeOK
  <2>1. indexed \in BOOLEAN
    BY Zenon DEF Init
  <2> QED
    BY <2>1 DEF Init, RankingTypeOK
<1>2. SearchInv /\ AbstainsHonestly
  BY DEF Init, SearchInv, AbstainsHonestly
<1>3. SelectInv
  BY FS_EmptySet DEF Init, SelectInv, WithinBudget
<1> QED
  BY <1>1, <1>2, <1>3 DEF RequestInv

LEMMA SearchStep == RequestInv /\ Search => RequestInv'
<1> SUFFICES ASSUME RequestInv, Search PROVE RequestInv'
  OBVIOUS
<1> DEFINE Matches == {m \in Memories : trait[m].keyword > 0}
           Named == {m \in Memories : trait[m].entity}
           sim == [m \in Memories |-> trait[m].similarity]
           key == [m \in Memories |-> trait[m].keyword]
<1>1. RankingTypeOK /\ SelectInv
  BY DEF RequestInv
<1>2. /\ indexed' \in BOOLEAN /\ similar' \subseteq Memories
      /\ indexed' \/ similar' \in Best(Memories, sim)
      /\ matching' \in Best(Matches, key)
      /\ named' \in Limit(Named)
      /\ trait' = trait /\ pc' = "filter" /\ pc = "search"
      /\ UNCHANGED <<rest, selected, used>>
  BY DEF Search, Best, Limit
<1>3. /\ similar' \subseteq Memories /\ matching' \subseteq Matches
      /\ named' \subseteq Named
  BY <1>2 DEF Best, Limit
<1>4. IsFiniteSet(Matches) /\ IsFiniteSet(Named)
  BY FS_Subset
<1>5. indexed' \/ \A m \in Memories : \E n \in similar' :
        trait[n].similarity >= trait[m].similarity
  <2> SUFFICES ASSUME ~indexed', NEW m \in Memories
               PROVE  \E n \in similar' : trait[n].similarity >= trait[m].similarity
    OBVIOUS
  <2>1. \A s \in Memories : sim[s] \in Nat
    BY <1>1, TraitTypes
  <2>2. PICK n \in similar' : sim[n] >= sim[m]
    <3> HIDE DEF sim
    <3> QED
      BY <1>2, <2>1, BestCovers
  <2> QED
    BY <1>3, <2>2
<1>6. \A m \in Matches : \E n \in matching' : trait[n].keyword >= trait[m].keyword
  <2> TAKE m \in Matches
  <2>1. \A s \in Matches : key[s] \in Nat
    BY <1>1, TraitTypes
  <2>2. PICK n \in matching' : key[n] >= key[m]
    <3> HIDE DEF key, Matches
    <3> QED
      BY <1>2, <1>4, <2>1, BestCovers
  <2> QED
    BY <1>3, <2>2
<1>7. /\ top' \in Nat \ {0}
      /\ \A n \in matching' : trait[n].keyword <= top'
      /\ matching' # {} => \E n \in matching' : trait[n].keyword = top'
  <2>1. CASE matching' = {}
    BY <2>1 DEF Search
  <2>2. CASE matching' # {}
    <3>1. PICK m \in matching' :
            top' = trait[m].keyword
              /\ \A n \in matching' : trait[n].keyword <= top'
      BY <2>2 DEF Search
    <3>2. trait[m].keyword \in Nat /\ trait[m].keyword > 0
      BY <1>1, <1>3, TraitTypes
    <3> QED
      BY <3>1, <3>2
  <2> QED
    BY <2>1, <2>2
<1>8. RankingTypeOK'
  BY <1>1, <1>2, <1>3, <1>7 DEF RankingTypeOK
<1>9. SearchInv'
  <2>1. \A m \in Memories : trait[m].keyword <= top'
    <3> TAKE m \in Memories
    <3>1. trait[m].keyword \in Nat
      BY <1>1, TraitTypes
    <3>2. CASE m \in Matches
      <4>1. PICK n \in matching' : trait[n].keyword >= trait[m].keyword
        BY <1>6, <3>2
      <4>2. trait[n].keyword \in Nat
        BY <1>1, <1>3, TraitTypes
      <4> QED
        BY <1>7, <3>1, <4>1, <4>2
    <3>3. CASE m \notin Matches
      BY <1>7, <3>1, <3>3
    <3> QED
      BY <3>2, <3>3
  <2>2. \A m \in Memories : trait[m].keyword > 0 =>
          \E n \in matching' : trait[n].keyword = top'
    BY <1>6, <1>7
  <2>3. \A m \in Memories : trait[m].entity => named' # {}
    <3> HIDE DEF Named
    <3>1. Named # {} => named' # {}
      BY <1>2, <1>4, LimitNonEmpty
    <3> QED
      BY <3>1 DEF Named
  <2>4. \A m \in named' : trait[m].entity
    BY <1>3
  <2> QED
    BY <1>2, <1>5, <2>1, <2>2, <2>3, <2>4 DEF SearchInv
<1>10. SelectInv' /\ AbstainsHonestly'
  BY <1>1, <1>2 DEF SelectInv, AbstainsHonestly, WithinBudget
<1> QED
  BY <1>8, <1>9, <1>10 DEF RequestInv

LEMMA RelevanceInNat ==
    ASSUME RankingTypeOK, NEW m \in Memories
    PROVE  TrueSemantic(m) \in Nat /\ Floor \in Nat
<1>1. /\ 5 * trait[m].similarity * top \in Nat
      /\ 3 * Scale * trait[m].keyword \in Nat /\ 2 * Scale * top \in Nat
  BY TraitTypes DEF RankingTypeOK
<1> QED
  BY <1>1 DEF TrueSemantic, Blend, Floor

LEMMA FilterStep == RequestInv /\ Filter => RequestInv'
<1> SUFFICES ASSUME RequestInv, Filter PROVE RequestInv'
  OBVIOUS
<1>1. RankingTypeOK /\ SearchInv /\ SelectInv
  BY DEF RequestInv
<1>2. /\ Relevant' = Relevant /\ Floor' = Floor
      /\ \A m \in Memories : /\ TrueSemantic(m)' = TrueSemantic(m)
                            /\ MayBeMissed(m)' = MayBeMissed(m)
  BY SnapshotKeepsRelevance DEF Filter, snapshot
<1>3. Relevant \subseteq Memories
  BY <1>1 DEF RankingTypeOK, Relevant, Candidates
<1>4. RankingTypeOK'
  BY <1>1, <1>3 DEF Filter, RankingTypeOK
<1>5. SearchInv'
  BY <1>1 DEF Filter, SearchInv
<1>6. SelectInv'
  BY <1>1, <1>2 DEF Filter, SelectInv, WithinBudget
<1>7. AbstainsHonestly'
  <2> SUFFICES ASSUME pc' = "abstained", NEW m \in Memories, ~MayBeMissed(m)
               PROVE  TrueSemantic(m) < Floor
    BY <1>2 DEF AbstainsHonestly, Filter
  <2>1. Relevant = {} /\ pc # "search"
    BY DEF Filter
  <2> QED
    BY <1>1, <2>1, PoolsKeepRelevance, RelevanceInNat
<1> QED
  BY <1>4, <1>5, <1>6, <1>7 DEF RequestInv

LEMMA TakeStep == RequestInv /\ Take => RequestInv'
<1> SUFFICES ASSUME RequestInv, NEW m \in Memories, Considered(m), Fits(m),
                    selected' = selected \cup {m}, used' = used + trait[m].tokens,
                    UNCHANGED <<trait, similar, matching, named, indexed, top, pc>>
             PROVE  RequestInv'
  BY DEF Take
<1>1. RankingTypeOK /\ SearchInv /\ SelectInv
  BY DEF RequestInv
<1>2. Relevant' = Relevant
  BY SnapshotKeepsRelevance DEF snapshot
<1>3. trait[m].tokens \in Nat \ {0} /\ \A n \in Memories : trait[n].tokens \in Nat
  BY <1>1, TraitTypes
<1>4. /\ pc = "select" /\ Cardinality(selected) < KMax
      /\ m \in rest /\ rest' = rest \ {m}
  BY DEF Considered
<1>5. RankingTypeOK'
  BY <1>1, <1>3, <1>4 DEF RankingTypeOK
<1>6. SearchInv' /\ AbstainsHonestly'
  BY <1>1, <1>4 DEF SearchInv, AbstainsHonestly
<1>7. WithinBudget'
  <2>1. IsFiniteSet(selected)
    BY <1>1, FS_Subset DEF RankingTypeOK
  <2>2. Cardinality(selected') <= Cardinality(selected) + 1
        /\ Cardinality(selected) \in Nat /\ Cardinality(selected') \in Nat
    <3>1. /\ IsFiniteSet(selected \cup {m})
          /\ Cardinality(selected \cup {m}) =
               IF m \in selected THEN Cardinality(selected)
                                 ELSE Cardinality(selected) + 1
      BY <2>1, FS_AddElement
    <3>2. Cardinality(selected) \in Nat /\ Cardinality(selected \cup {m}) \in Nat
      BY <2>1, <3>1, FS_CardinalityType
    <3> QED
      BY <3>1, <3>2
  <2>3. used' <= Budget
    BY DEF Fits
  <2> QED
    BY <1>4, <2>2, <2>3 DEF WithinBudget
<1>8. SelectInv'
  <2>1. rest' \subseteq Relevant' /\ selected' \subseteq Relevant' /\ Relevant' # {}
    BY <1>1, <1>2, <1>4 DEF SelectInv
  <2>2. \A n \in Relevant \ rest' : n \in selected' \/ used' + trait[n].tokens > Budget
    <3> TAKE n \in Relevant \ rest'
    <3>1. CASE n = m
      BY <3>1
    <3>2. CASE n # m
      <4>1. n \in selected \/ used + trait[n].tokens > Budget
        BY <1>1, <1>4, <3>2 DEF SelectInv
      <4>2. n \in Memories /\ used \in Nat
        BY <1>1 DEF RankingTypeOK, Relevant, Candidates
      <4>3. trait[n].tokens \in Nat
        BY <1>3, <4>2
      <4> QED
        BY <1>3, <4>1, <4>2, <4>3
    <3> QED
      BY <3>1, <3>2
  <2> QED
    BY <1>2, <1>4, <1>7, <2>1, <2>2 DEF SelectInv
<1> QED
  BY <1>5, <1>6, <1>8 DEF RequestInv

LEMMA PassOverStep == RequestInv /\ PassOver => RequestInv'
<1> SUFFICES ASSUME RequestInv, NEW m \in Memories, Considered(m), ~Fits(m),
                    UNCHANGED <<trait, similar, matching, named, indexed, top, selected, used, pc>>
             PROVE  RequestInv'
  BY DEF PassOver
<1>1. RankingTypeOK /\ SearchInv /\ SelectInv
  BY DEF RequestInv
<1>2. Relevant' = Relevant
  BY SnapshotKeepsRelevance DEF snapshot
<1>3. pc = "select" /\ m \in rest /\ rest' = rest \ {m}
  BY DEF Considered
<1>4. used + trait[m].tokens > Budget
  BY <1>1, TraitTypes DEF Fits, RankingTypeOK
<1>5. RankingTypeOK'
  BY <1>1, <1>3 DEF RankingTypeOK
<1>6. SearchInv' /\ AbstainsHonestly'
  BY <1>1, <1>3 DEF SearchInv, AbstainsHonestly
<1>7. SelectInv'
  BY <1>1, <1>2, <1>3, <1>4 DEF SelectInv, WithinBudget
<1> QED
  BY <1>5, <1>6, <1>7 DEF RequestInv

(* Nothing selected: k_max was not reached and nothing of the budget is used. *)
LEMMA StopStep == RequestInv /\ Stop => RequestInv'
<1> SUFFICES ASSUME RequestInv, Stop PROVE RequestInv'
  OBVIOUS
<1>1. RankingTypeOK /\ SearchInv /\ SelectInv
  BY DEF RequestInv
<1>2. Relevant' = Relevant /\ UNCHANGED <<trait, similar, matching, named, indexed, top, rest, selected, used>>
  BY SnapshotKeepsRelevance DEF Stop, snapshot
<1>3. pc = "select" /\ pc' \in {"answered", "abstained"}
  BY DEF Stop
<1>4. RankingTypeOK' /\ SearchInv'
  BY <1>1, <1>2, <1>3 DEF RankingTypeOK, SearchInv
<1>5. SelectInv'
  BY <1>1, <1>2, <1>3 DEF SelectInv, WithinBudget
<1>6. AbstainsHonestly'
  <2> SUFFICES ASSUME pc' = "abstained"
               PROVE  Relevant # {} /\ \A m \in Relevant : trait[m].tokens > Budget
    BY <1>2 DEF AbstainsHonestly
  <2>1. selected = {} /\ (rest = {} \/ Cardinality(selected) >= KMax)
    BY DEF Stop
  <2>2. rest = {}
    BY <2>1, FS_EmptySet
  <2>3. used = 0 /\ Relevant # {}
    BY <1>1, <1>3, <2>1 DEF SelectInv
  <2> SUFFICES ASSUME NEW m \in Relevant PROVE trait[m].tokens > Budget
    BY <2>3
  <2>4. 0 + trait[m].tokens > Budget
    BY <1>1, <1>3, <2>1, <2>2, <2>3 DEF SelectInv
  <2>5. trait[m].tokens \in Nat
    BY <1>1, TraitTypes DEF RankingTypeOK, Relevant, Candidates
  <2> QED
    BY <2>3, <2>4, <2>5
<1> QED
  BY <1>4, <1>5, <1>6 DEF RequestInv

LEMMA StutterRanking == RequestInv /\ UNCHANGED vars => RequestInv'
<1> SUFFICES ASSUME RequestInv, UNCHANGED vars PROVE RequestInv'
  OBVIOUS
<1>1. /\ Relevant' = Relevant /\ Floor' = Floor
      /\ \A m \in Memories : /\ TrueSemantic(m)' = TrueSemantic(m)
                            /\ MayBeMissed(m)' = MayBeMissed(m)
  BY SnapshotKeepsRelevance DEF snapshot, vars
<1>2. RankingTypeOK' /\ SearchInv'
  BY DEF RequestInv, RankingTypeOK, SearchInv, vars
<1>3. SelectInv' /\ AbstainsHonestly'
  BY <1>1 DEF RequestInv, SelectInv, AbstainsHonestly, WithinBudget, vars
<1> QED
  BY <1>2, <1>3 DEF RequestInv
------------------------------------------------------------------------------
(* Tokens are counted word by word.                                           *)
LEMMA WordsOfOne ==
    ASSUME RankingTypeOK, NEW m \in Memories
    PROVE  /\ IsFiniteSet({m} \X (1 .. trait[m].tokens))
           /\ Cardinality({m} \X (1 .. trait[m].tokens)) = trait[m].tokens
<1> SUFFICES ASSUME NEW n \in Nat \ {0}
             PROVE  IsFiniteSet({m} \X (1 .. n)) /\ Cardinality({m} \X (1 .. n)) = n
  BY TraitTypes
<1>1. IsFiniteSet(1 .. n)
  BY FS_Interval
<1>2. Cardinality(1 .. n) = IF 1 > n THEN 0 ELSE n - 1 + 1
  BY FS_Interval
<1>3. IsFiniteSet({m}) /\ Cardinality({m}) = 1
  BY FS_Singleton
<1>4. IsFiniteSet({m} \X (1 .. n))
  BY <1>1, <1>3, FS_Product
<1>5. Cardinality({m} \X (1 .. n)) = Cardinality({m}) * Cardinality(1 .. n)
  BY <1>1, <1>3, FS_Product
<1>6. Cardinality(1 .. n) = n
  BY <1>2
<1> QED
  BY <1>3, <1>4, <1>5, <1>6

LEMMA WordsFinite ==
    ASSUME RankingTypeOK, NEW S \in SUBSET Memories
    PROVE  IsFiniteSet(Words(S)) /\ TokensOf(S) \in Nat
<1> DEFINE T == {{m} \X (1 .. trait[m].tokens) : m \in S}
           f == [m \in S |-> {m} \X (1 .. trait[m].tokens)]
<1>1. f \in Surjection(S, T)
  BY DEF Surjection
<1>2. IsFiniteSet(S)
  BY FS_Subset
<1>3. \A t \in T : IsFiniteSet(t)
  BY WordsOfOne
<1> HIDE DEF T, f
<1>4. IsFiniteSet(UNION T)
  BY <1>1, <1>2, <1>3, FS_Surjection, FS_UNION
<1> QED
  BY <1>4, FS_CardinalityType DEF T, Words, TokensOf

LEMMA MoreWords ==
    ASSUME RankingTypeOK, NEW S \in SUBSET Memories, NEW R \in SUBSET S
    PROVE  TokensOf(R) <= TokensOf(S)
<1>1. Words(R) \subseteq Words(S)
  BY DEF Words
<1> QED
  BY <1>1, WordsFinite, FS_Subset DEF TokensOf

LEMMA OneMore ==
    ASSUME RankingTypeOK, NEW S \in SUBSET Memories, NEW m \in Memories \ S
    PROVE  TokensOf(S \cup {m}) = TokensOf(S) + trait[m].tokens
<1> DEFINE W == {m} \X (1 .. trait[m].tokens)
<1>1. IsFiniteSet(W) /\ Cardinality(W) = trait[m].tokens
  BY WordsOfOne
<1>2. Words(S \cup {m}) = Words(S) \cup W /\ Words(S) \cap W = {}
  BY DEF Words
<1>3. IsFiniteSet(Words(S)) /\ TokensOf(S) \in Nat /\ trait[m].tokens \in Nat
  BY WordsFinite, TraitTypes
<1> HIDE DEF W
<1>4. Cardinality(Words(S) \cup W)
        = Cardinality(Words(S)) + Cardinality(W) - Cardinality(Words(S) \cap W)
  BY <1>1, <1>3, FS_Union
<1>5. Cardinality(Words(S) \cap W) = 0
  BY <1>2, FS_EmptySet
<1>6. TokensOf(S \cup {m}) = Cardinality(Words(S) \cup W)
  BY <1>2 DEF TokensOf
<1>7. Cardinality(Words(S)) = TokensOf(S)
  BY DEF TokensOf
<1> QED
  BY <1>1, <1>3, <1>4, <1>5, <1>6, <1>7

LEMMA SnapshotKeepsOrder ==
    ASSUME UNCHANGED snapshot
    PROVE  /\ Relevant' = Relevant
           /\ \A m : Score(m)' = Score(m)
           /\ selected' = selected =>
                /\ \A m : DidNotFit(m)' = DidNotFit(m)
                /\ TokensOf(selected)' = TokensOf(selected)
<1>1. Relevant' = Relevant
  BY SnapshotKeepsRelevance
<1>2. ASSUME NEW m PROVE Score(m)' = Score(m)
  BY DEF snapshot, Score, Semantic, Blend
<1>3. ASSUME NEW S PROVE TokensOf(S)' = TokensOf(S)
  BY DEF snapshot, TokensOf, Words
<1>4. ASSUME selected' = selected, NEW m PROVE DidNotFit(m)' = DidNotFit(m)
  <2>1. Better(m)' = Better(m)
    BY <1>2, <1>4 DEF Better
  <2>2. TokensOf(Better(m))' = TokensOf(Better(m))
    BY <2>1 DEF snapshot, TokensOf, Words
  <2> QED
    BY <2>2 DEF snapshot, DidNotFit
<1>5. ASSUME selected' = selected PROVE TokensOf(selected)' = TokensOf(selected)
  BY <1>5 DEF snapshot, TokensOf, Words
<1> QED
  BY <1>1, <1>2, <1>4, <1>5

LEMMA InitOrder == Init => OrderInv
BY FS_EmptySet DEF Init, OrderInv, TokensOf, Words

LEMMA TakeOrder ==
    ASSUME RequestInv, OrderInv, Take
    PROVE  OrderInv'
<1> SUFFICES ASSUME NEW k \in Memories, Considered(k), Fits(k),
                    selected' = selected \cup {k}, used' = used + trait[k].tokens,
                    UNCHANGED <<trait, similar, matching, named, indexed, top, pc>>
             PROVE  OrderInv'
  BY DEF Take
<1>1. RankingTypeOK /\ SelectInv
  BY DEF RequestInv
<1>2. /\ Relevant' = Relevant /\ \A m : Score(m)' = Score(m)
  BY SnapshotKeepsOrder DEF snapshot
<1>3. /\ pc = "select" /\ k \in rest /\ rest' = rest \ {k}
      /\ \A n \in rest : Score(n) <= Score(k)
      /\ rest \subseteq Relevant /\ selected \subseteq Memories
  BY <1>1 DEF Considered, Ahead, SelectInv, RankingTypeOK
<1>4. k \notin selected
  BY <1>3 DEF OrderInv
<1>5. used' = TokensOf(selected)'
  <2>1. TokensOf(selected)' = TokensOf(selected \cup {k})
    BY DEF TokensOf, Words
  <2> QED
    BY <1>1, <1>3, <1>4, <2>1, OneMore DEF OrderInv
<1>6. ASSUME NEW m \in Relevant \ rest', NEW n \in rest'
      PROVE  Score(n) <= Score(m)
  BY <1>3, <1>6 DEF OrderInv
<1>7. ASSUME NEW m \in Relevant \ (rest' \cup selected')
      PROVE  DidNotFit(m)'
  <2>1. DidNotFit(m) /\ m \in Memories
    BY <1>1, <1>3, <1>7
       DEF OrderInv, RankingTypeOK, Relevant, Candidates
  <2>2. Better(m) \subseteq Better(m)' /\ Better(m)' \subseteq Memories
    BY <1>2, <1>3 DEF Better
  <2>3. TokensOf(Better(m)') >= TokensOf(Better(m))
        /\ TokensOf(Better(m)) \in Nat /\ TokensOf(Better(m)') \in Nat
    BY <1>1, <2>2, MoreWords, WordsFinite
  <2>4. TokensOf(Better(m))' = TokensOf(Better(m)')
    BY DEF TokensOf, Words
  <2>5. trait[m].tokens \in Nat
    BY <1>1, <2>1, TraitTypes
  <2> QED
    BY <2>1, <2>3, <2>4, <2>5 DEF DidNotFit
<1> QED
  BY <1>2, <1>3, <1>5, <1>6, <1>7 DEF OrderInv

LEMMA PassOverOrder ==
    ASSUME RequestInv, OrderInv, PassOver
    PROVE  OrderInv'
<1> SUFFICES ASSUME NEW k \in Memories, Considered(k), ~Fits(k),
                    UNCHANGED <<snapshot, selected, used, pc>>
             PROVE  OrderInv'
  BY DEF PassOver, snapshot
<1>1. RankingTypeOK /\ SelectInv
  BY DEF RequestInv
<1>2. /\ Relevant' = Relevant /\ \A m : Score(m)' = Score(m)
      /\ \A m : DidNotFit(m)' = DidNotFit(m)
      /\ TokensOf(selected)' = TokensOf(selected)
  BY SnapshotKeepsOrder
<1>3. /\ pc = "select" /\ k \in rest /\ rest' = rest \ {k}
      /\ \A n \in rest : Score(n) <= Score(k)
      /\ selected \subseteq Relevant \ rest
  BY <1>1 DEF Considered, Ahead, SelectInv, OrderInv
<1>4. DidNotFit(k)
  <2>1. Better(k) = selected
    BY <1>3 DEF Better, OrderInv
  <2>2. used + trait[k].tokens > Budget
    BY <1>1, TraitTypes DEF Fits, RankingTypeOK
  <2> QED
    BY <2>1, <2>2 DEF DidNotFit, OrderInv
<1> QED
  BY <1>2, <1>3, <1>4 DEF OrderInv

LEMMA StopOrder ==
    ASSUME RequestInv, OrderInv, Stop
    PROVE  OrderInv'
<1>1. /\ Relevant' = Relevant /\ \A m : Score(m)' = Score(m)
      /\ \A m : DidNotFit(m)' = DidNotFit(m)
      /\ TokensOf(selected)' = TokensOf(selected)
      /\ UNCHANGED <<rest, selected, used>>
      /\ pc = "select" /\ (rest = {} \/ Cardinality(selected) >= KMax)
  BY SnapshotKeepsOrder DEF Stop, snapshot
<1>2. Cardinality(selected) <= KMax /\ Cardinality(selected) \in Nat
  BY FS_Subset, FS_CardinalityType
     DEF RequestInv, SelectInv, WithinBudget, RankingTypeOK
<1> QED
  BY <1>1, <1>2 DEF OrderInv

LEMMA OrderStep ==
    ASSUME RequestInv, OrderInv, [Next]_vars
    PROVE  OrderInv'
<1>1. CASE Search
  BY <1>1, FS_EmptySet
     DEF Search, RequestInv, SelectInv, OrderInv, TokensOf, Words
<1>2. CASE Filter
  <2>1. /\ Relevant' = Relevant /\ rest' = Relevant /\ selected = {}
        /\ TokensOf(selected)' = TokensOf(selected)
        /\ UNCHANGED <<selected, used>> /\ pc' \in {"abstained", "select"}
    BY <1>2, SnapshotKeepsOrder DEF Filter, snapshot, RequestInv, SelectInv
  <2> QED
    BY <2>1 DEF OrderInv
<1>3. CASE UNCHANGED vars
  BY <1>3, SnapshotKeepsOrder DEF vars, snapshot, OrderInv
<1> QED
  BY <1>1, <1>2, <1>3, TakeOrder, PassOverOrder, StopOrder DEF Next
------------------------------------------------------------------------------
(* The searches stand for what they cut off, and a candidate already passed   *)
(* was taken or did not fit beside better ones, at every step of              *)
(* hybrid_search: the inductive invariant behind the theorems below.          *)
THEOREM RankingInductive == Spec => []RankingInv
<1>1. RequestInv /\ [Next]_vars => RequestInv'
  BY SearchStep, FilterStep, TakeStep, PassOverStep, StopStep, StutterRanking DEF Next
<1>2. RankingInv /\ [Next]_vars => RankingInv'
  BY <1>1, OrderStep DEF RankingInv
<1>3. Init => RankingInv
  BY InitRanking, InitOrder DEF RankingInv
<1> QED
  BY <1>2, <1>3, PTL DEF Spec

(* hybrid_search never returns more words than the caller's token budget nor  *)
(* more memories than k_max (INV-3), whatever the memories and the query.     *)
THEOREM AnswerWithinBudget == Spec => []WithinBudget
<1>1. RankingInv => WithinBudget
  BY DEF RankingInv, RequestInv, SelectInv
<1> QED
  BY <1>1, RankingInductive, PTL

(* hybrid_search reports abstained only if no memory of the tenant, whether a *)
(* search returned it or not, is relevant to the query, or no relevant one    *)
(* that was found fits the budget; or the approximate index may have missed a *)
(* memory that neither keyword nor entity found.                              *)
THEOREM AbstainsOnlyWhenItMust == Spec => []AbstainsHonestly
<1>1. RankingInv => AbstainsHonestly
  BY DEF RankingInv, RequestInv
<1> QED
  BY <1>1, RankingInductive, PTL

(* hybrid_search returns nothing below the relevance bar (INV-6), however     *)
(* recent, frequent or important it is and whatever the searches cut off.     *)
THEOREM NothingIrrelevant == Spec => []OnlyRelevant
<1>1. RankingInv => OnlyRelevant
  <2> SUFFICES ASSUME RankingInv, NEW m \in selected
               PROVE  TrueSemantic(m) >= Floor
    BY DEF OnlyRelevant
  <2>1. RankingTypeOK /\ SearchInv /\ SelectInv
    BY DEF RankingInv, RequestInv
  <2>2. m \in Memories /\ m \in Relevant /\ pc # "search"
    BY <2>1 DEF RankingTypeOK, SelectInv
  <2>3. m \in named => trait[m].entity
    BY <2>1, <2>2 DEF SearchInv
  <2>4. /\ 5 * trait[m].similarity * top \in Nat
        /\ 3 * Scale * trait[m].keyword \in Nat /\ 2 * Scale * top \in Nat
    BY <2>1, <2>2, TraitTypes DEF RankingTypeOK
  <2>5. Semantic(m) >= Floor
    BY <2>2 DEF Relevant
  <2>6. TrueSemantic(m) >= Semantic(m)
    BY <2>3, <2>4 DEF TrueSemantic, Semantic, Blend
  <2> QED
    BY <2>2, <2>5, <2>6, <2>1, <2>4, RelevanceInNat DEF Semantic, Blend, Floor
<1> QED
  BY <1>1, RankingInductive, PTL

(* hybrid_search leaves a relevant candidate out only for k_max better ones,  *)
(* or because it does not fit the budget beside the better ones it returns:   *)
(* what was passed over or never looked at hides no better answer.            *)
THEOREM BestAreReturned == Spec => []LeftOutForBetter
<1>1. RankingInv => LeftOutForBetter
  <2> SUFFICES ASSUME RequestInv, OrderInv, pc = "answered",
                      NEW m \in Relevant \ selected
               PROVE  Cardinality(Better(m)) = KMax \/ DidNotFit(m)
    BY DEF RankingInv, OrderInv, LeftOutForBetter
  <2>1. CASE m \notin rest
    BY <2>1 DEF OrderInv
  <2>2. CASE m \in rest
    <3>1. Cardinality(selected) = KMax /\ selected \subseteq Relevant \ rest
      BY <2>2 DEF OrderInv, RequestInv, SelectInv
    <3>2. Better(m) = selected
      BY <2>2, <3>1 DEF OrderInv, Better
    <3> QED
      BY <3>1, <3>2
  <2> QED
    BY <2>1, <2>2
<1> QED
  BY <1>1, RankingInductive, PTL
=============================================================================

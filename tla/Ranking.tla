------------------------------- MODULE Ranking -------------------------------
(* What hybrid_search does with the rows of its three searches: each search   *)
(* returns at most pool_size memories, the signals found are blended, what is *)
(* below the relevance floor is dropped, and results are taken by score while *)
(* the token budget allows.  One request over one snapshot of a tenant's      *)
(* active memories; module Retrieval has the interleaving with other writes.  *)
EXTENDS Integers, FiniteSets

CONSTANTS
    Memories,      \* the tenant's active memories
    Scale,         \* a similarity of 1.0
    Traits,        \* what a query and a memory may have to do with each other
    Pool,          \* pool_size
    KMax,          \* k_max
    Budget         \* token_budget

(* Similarity to the query, keyword rank (0: no match), an entity in common,  *)
(* recency + frequency + importance (times 10 * Scale), number of words.      *)
ASSUME RankingAssumption ==
    /\ Scale \in Nat \ {0} /\ Pool \in Nat \ {0} /\ KMax \in Nat \ {0}
    /\ Budget \in Nat \ {0} /\ IsFiniteSet(Memories)
    /\ Traits \subseteq [similarity : 0 .. Scale, keyword : Nat,
                         entity : BOOLEAN, boost : Nat, tokens : Nat \ {0}]

VARIABLES
    trait,         \* the Traits of each memory
    similar,       \* rows of the vector search
    matching,      \* rows of the keyword search
    named,         \* rows of the entity search
    indexed,       \* the vector search went through the HNSW index
    top,           \* max_keyword_rank, or 1 if nothing matched
    rest,          \* relevant candidates not considered yet
    selected,      \* the memories to return
    used,          \* tokens_used
    pc             \* "search", "filter", "select", "answered" or "abstained"

vars == <<trait, similar, matching, named, indexed, top, rest, selected, used, pc>>
------------------------------------------------------------------------------
(* LIMIT pool_size, and the same after ORDER BY f DESC.                       *)
Limit(S) ==
    {P \in SUBSET S : \/ P = S /\ Cardinality(S) <= Pool
                      \/ Cardinality(P) = Pool}

(* Mutant: the rows are ordered the wrong way round.                          *)
Best_Ascending(S, f) ==
    {P \in Limit(S) : \A p \in P, s \in S \ P : f[p] <= f[s]}

Best(S, f) == {P \in Limit(S) : \A p \in P, s \in S \ P : f[p] >= f[s]}

(* The three searches, and the rank that normalises the keyword ranks.  An    *)
(* ORDER BY on the distance is exact if PostgreSQL sorts the tenant's rows;   *)
(* an HNSW index scan is approximate, and what it found is cut down to the    *)
(* tenant's active rows afterwards: any of them may be missing.               *)
Search ==
    /\ pc = "search"
    /\ indexed' \in BOOLEAN
    /\ IF indexed' THEN similar' \in {P \in SUBSET Memories : Cardinality(P) <= Pool}
       ELSE similar' \in Best(Memories, [m \in Memories |-> trait[m].similarity])
    /\ matching' \in Best({m \in Memories : trait[m].keyword > 0},
                          [m \in Memories |-> trait[m].keyword])
    /\ named' \in Limit({m \in Memories : trait[m].entity})
    /\ IF matching' = {} THEN top' = 1
       ELSE \E m \in matching' :
              /\ top' = trait[m].keyword
              /\ \A n \in matching' : trait[n].keyword <= top'
    /\ pc' = "filter"
    /\ UNCHANGED <<trait, rest, selected, used>>

Candidates == similar \cup matching \cup named

(* A blend of signals, in units of 1 / (10 * Scale * top): 0.5 similarity,    *)
(* 0.3 keyword rank and 0.2 for an entity.                                    *)
Blend(m, sim, key, ent) ==
    (IF sim THEN 5 * trait[m].similarity * top ELSE 0)
      + (IF key THEN 3 * Scale * trait[m].keyword ELSE 0)
      + (IF ent THEN 2 * Scale * top ELSE 0)

(* A signal counts only for the rows its own search returned: a memory found  *)
(* by keyword outside the vector pool keeps similarity 0.                     *)
Semantic(m) == Blend(m, m \in similar, m \in matching, m \in named)

(* 0.4 semantic and 0.2 for each of the others, in half those units.          *)
Score(m) == 2 * Semantic(m) + trait[m].boost * top

Floor == 2 * Scale * top

(* Mutant: the bar is applied to the first result by final score only.        *)
Relevant_TopOnly ==
    IF \E m \in Candidates : /\ \A n \in Candidates : Score(n) <= Score(m)
                             /\ Semantic(m) >= Floor
      THEN Candidates ELSE {}

(* semantic >= RELEVANCE_FLOOR = 0.20, candidate by candidate.                *)
Relevant == {m \in Candidates : Semantic(m) >= Floor}

Filter ==
    /\ pc = "filter"
    /\ rest' = Relevant
    /\ pc' = IF Relevant = {} THEN "abstained" ELSE "select"
    /\ UNCHANGED <<trait, similar, matching, named, indexed, top, selected, used>>

(* Mutant: the candidates are not sorted.                                     *)
Ahead_Unsorted(m) == TRUE

Ahead(m) == \A n \in rest : Score(n) <= Score(m)

(* The next candidate in order of score, ties in any order.                   *)
Considered(m) ==
    /\ pc = "select" /\ Cardinality(selected) < KMax
    /\ m \in rest /\ Ahead(m)
    /\ rest' = rest \ {m}

(* Mutant: the budget is looked at only before the memory is added.           *)
Fits_Late(m) == used < Budget

Fits(m) == used + trait[m].tokens <= Budget

Take ==
    \E m \in Memories :
        /\ Considered(m) /\ Fits(m)
        /\ selected' = selected \cup {m}
        /\ used' = used + trait[m].tokens
        /\ UNCHANGED <<trait, similar, matching, named, indexed, top, pc>>

(* Too long for what is left of the budget: the loop goes on with the next.   *)
PassOver ==
    \E m \in Memories :
        /\ Considered(m) /\ ~Fits(m)
        /\ UNCHANGED <<trait, similar, matching, named, indexed, top, selected, used, pc>>

Stop ==
    /\ pc = "select"
    /\ rest = {} \/ Cardinality(selected) >= KMax
    /\ pc' = IF selected = {} THEN "abstained" ELSE "answered"
    /\ UNCHANGED <<trait, similar, matching, named, indexed, top, rest, selected, used>>

Init ==
    /\ trait \in [Memories -> Traits]
    /\ similar = {} /\ matching = {} /\ named = {}
    /\ indexed = FALSE /\ top = 1
    /\ rest = {} /\ selected = {} /\ used = 0
    /\ pc = "search"

Next == Search \/ Filter \/ Take \/ PassOver \/ Stop

Spec == Init /\ [][Next]_vars
------------------------------------------------------------------------------
(* INV-3: the answer never exceeds the token budget nor k_max.                *)
WithinBudget == used <= Budget /\ Cardinality(selected) <= KMax

(* A memory's relevance as if no search had been cut off.                     *)
TrueSemantic(m) == Blend(m, TRUE, TRUE, trait[m].entity)

(* INV-6: nothing below the relevance bar is returned, whatever its recency,  *)
(* frequency and importance.                                                  *)
OnlyRelevant == \A m \in selected : TrueSemantic(m) >= Floor

(* Only its similarity speaks for a memory, and the index may have missed it. *)
MayBeMissed(m) == indexed /\ trait[m].keyword = 0 /\ ~trait[m].entity

(* A request abstains only if no memory of the tenant is relevant, those no   *)
(* search returned included (but for an approximate vector search), or no     *)
(* relevant one found fits the budget alone: neither an unrelated memory with *)
(* a high score nor the limit on the searches makes an answerable question    *)
(* unanswerable (hybrid_search).                                              *)
AbstainsHonestly ==
    pc = "abstained" =>
      \/ \A m \in Memories : TrueSemantic(m) < Floor \/ MayBeMissed(m)
      \/ Relevant # {} /\ \A m \in Relevant : trait[m].tokens > Budget

(* The tokens of a set of memories, counted word by word.                     *)
Words(S) == UNION {{m} \X (1 .. trait[m].tokens) : m \in S}

TokensOf(S) == Cardinality(Words(S))

(* What is returned ahead of m, and leaves no room for it.                    *)
Better(m) == {n \in selected : Score(n) >= Score(m)}

DidNotFit(m) == TokensOf(Better(m)) + trait[m].tokens > Budget

(* A relevant candidate is left out only for better ones: k_max of them were  *)
(* returned, or beside them it did not fit the budget.                        *)
LeftOutForBetter ==
    pc = "answered" =>
      /\ used = TokensOf(selected)
      /\ \A m \in Relevant \ selected :
           Cardinality(Better(m)) = KMax \/ DidNotFit(m)
------------------------------------------------------------------------------
(* The inductive invariant.  What a search returns stands for what it left    *)
(* out, and a candidate already considered was taken or did not fit.          *)
RankingTypeOK ==
    /\ trait \in [Memories -> Traits]
    /\ similar \subseteq Memories /\ matching \subseteq Memories
    /\ named \subseteq Memories /\ indexed \in BOOLEAN /\ top \in Nat \ {0}
    /\ rest \subseteq Memories /\ selected \subseteq Memories /\ used \in Nat
    /\ pc \in {"search", "filter", "select", "answered", "abstained"}

SearchInv ==
    pc # "search" =>
      /\ indexed \/ \A m \in Memories : \E n \in similar :
           trait[n].similarity >= trait[m].similarity
      /\ \A m \in Memories : trait[m].keyword <= top
      /\ \A m \in Memories : trait[m].keyword > 0 =>
           \E n \in matching : trait[n].keyword = top
      /\ \A m \in Memories : trait[m].entity => named # {}
      /\ \A m \in named : trait[m].entity

SelectInv ==
    /\ pc \in {"search", "filter"} => rest = {} /\ selected = {} /\ used = 0
    /\ selected = {} => used = 0
    /\ rest \subseteq Relevant /\ selected \subseteq Relevant
    /\ pc \in {"select", "answered"} =>
         /\ Relevant # {}
         /\ \A m \in Relevant \ rest :
              m \in selected \/ used + trait[m].tokens > Budget
    /\ WithinBudget

RequestInv ==
    RankingTypeOK /\ SearchInv /\ SelectInv /\ AbstainsHonestly

(* The candidates already considered are no worse than the rest, and those    *)
(* passed over did not fit beside the better ones taken by then.              *)
OrderInv ==
    /\ used = TokensOf(selected) /\ rest \cap selected = {}
    /\ pc \in {"select", "answered"} =>
         /\ \A m \in Relevant \ rest, n \in rest : Score(n) <= Score(m)
         /\ \A m \in Relevant \ (rest \cup selected) : DidNotFit(m)
    /\ pc = "answered" => rest = {} \/ Cardinality(selected) = KMax

RankingInv == RequestInv /\ OrderInv
=============================================================================

------------------------------ MODULE MCRanking ------------------------------
(* Values of the constants for TLC: with Scale = 5 a similarity of 2 is just  *)
(* on the bar, one of 1 reaches it only together with a keyword.              *)
EXTENDS Ranking, TLC

CONSTANTS m1, m2, m3      \* memories

Symmetry == Permutations(Memories)

Signals == [similarity : {0, 1, 2}, keyword : {0, 1, 2}, entity : BOOLEAN]

(* Short and dull, long and dull, or recent, frequent and important.          *)
Merits == {[boost |-> 0, tokens |-> 1], [boost |-> 0, tokens |-> 4],
           [boost |-> 40, tokens |-> 2]}

SomeTraits ==
    {[similarity |-> s.similarity, keyword |-> s.keyword, entity |-> s.entity,
      boost |-> r.boost, tokens |-> r.tokens] : s \in Signals, r \in Merits}
=============================================================================
